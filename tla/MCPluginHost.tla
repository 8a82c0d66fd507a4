---------------------------- MODULE MCPluginHost ----------------------------
(***************************************************************************)
(* PluginHost on small instances.                                          *)
(***************************************************************************)
EXTENDS PluginHost, TLC

CONSTANTS m1, m2

\* A session with two events and one that has a binding only.
TwoLogs == m1 :> 2 @@ m2 :> 0
OneLog == m1 :> 1

=============================================================================

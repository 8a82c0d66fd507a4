---------------------------- MODULE MCActionRun ----------------------------
(***************************************************************************)
(* ActionRun on small instances.                                           *)
(***************************************************************************)
EXTENDS ActionRun, TLC

CONSTANTS e1, e2, g1, g2, k1, k2

\* Two executions confirmed for the same candidate.
ContendedGrants == g1 :> e1 @@ g2 :> e2
ContendedAdmission == e1 :> g1 @@ e2 :> g2
ContendedScope == e1 :> {k1} @@ e2 :> {k1}

\* One execution with a second grant for an approval, for two candidates / for one.
SingleGrants == g1 :> e1 @@ g2 :> e1
SingleAdmission == e1 :> g1
PairScope == e1 :> {k1, k2}
OneScope == e1 :> {k1}

=============================================================================

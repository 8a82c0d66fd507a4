--------------------------- MODULE OneShotAction ---------------------------
(***************************************************************************)
(* What the assistant promises about one external side effect, whatever    *)
(* executions, grants, ToolCalls, retries and restarts are behind it.      *)
(*                                                                         *)
(* A logical action key k stands for one change the meeting asked for in   *)
(* the external task system.  It is opened once; while it is open the      *)
(* change may happen, once; it is closed as confirmed, or as refused if    *)
(* the change never happened and never will.                               *)
(***************************************************************************)
EXTENDS Naturals

CONSTANT Keys           \* logical action keys

VARIABLES
  phase,                \* [Keys -> Phases]
  made                  \* [Keys -> Nat], how often the change was made

avars == <<phase, made>>

Phases == {"idle", "open", "confirmed", "refused"}

Init ==
  /\ phase = [k \in Keys |-> "idle"]
  /\ made = [k \in Keys |-> 0]

Open(k) ==
  /\ phase[k] = "idle"
  /\ phase' = [phase EXCEPT ![k] = "open"]
  /\ UNCHANGED made

Make(k) ==
  /\ phase[k] = "open"
  /\ made[k] = 0
  /\ made' = [made EXCEPT ![k] = 1]
  /\ UNCHANGED phase

\* The change is known to exist, made here or found already in place.
Confirm(k) ==
  /\ phase[k] = "open"
  /\ phase' = [phase EXCEPT ![k] = "confirmed"]
  /\ UNCHANGED made

Refuse(k) ==
  /\ phase[k] = "open"
  /\ made[k] = 0
  /\ phase' = [phase EXCEPT ![k] = "refused"]
  /\ UNCHANGED made

Next == \E k \in Keys : Open(k) \/ Make(k) \/ Confirm(k) \/ Refuse(k)

Spec == Init /\ [][Next]_avars

=============================================================================

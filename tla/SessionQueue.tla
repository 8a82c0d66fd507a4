---------------------------- MODULE SessionQueue ----------------------------
(***************************************************************************)
(* What the projector's workers rely on in _FairSessionQueue               *)
(* (meeting_state/projector.py): a session is scheduled at most once, it   *)
(* may be raised to priority while it waits, and a worker is handed a      *)
(* session that is scheduled, which it then no longer is.  In which order  *)
(* sessions are handed out is FairSessionQueue's business.                 *)
(***************************************************************************)
CONSTANTS Sessions, NoSession

VARIABLES
  scheduled,            \* [Sessions -> {"none", "normal", "priority"}]
  out                   \* the session handed out last

Put(s, lane) ==
  /\ scheduled[s] \in {"none", "normal"} /\ scheduled[s] # lane
  /\ scheduled' = [scheduled EXCEPT ![s] = lane]
  /\ UNCHANGED out

Get(s) ==
  /\ scheduled[s] # "none"
  /\ scheduled' = [scheduled EXCEPT ![s] = "none"]
  /\ out' = s

Init == scheduled = [s \in Sessions |-> "none"] /\ out = NoSession

Next == \E s \in Sessions: Get(s) \/ \E lane \in {"normal", "priority"}: Put(s, lane)

Spec == Init /\ [][Next]_<<scheduled, out>>
=============================================================================

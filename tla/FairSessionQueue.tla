-------------------------- MODULE FairSessionQueue --------------------------
(***************************************************************************)
(* _FairSessionQueue (meeting_state/projector.py): two heaps ordered by    *)
(* arrival, one of priority entries and one of normal ones.  An entry is   *)
(* never removed when its session is raised to priority: it is skipped     *)
(* when it is popped and _scheduled no longer agrees with its heap.        *)
(*                                                                         *)
(* put and get hold a condition whose lock is released only by wait, so    *)
(* each of them is one action, the entries get skips included.             *)
(***************************************************************************)
EXTENDS Naturals, Sequences

CONSTANTS
  Sessions, NoSession,
  PriorityBurst,        \* ProjectorConfig.priority_burst
  MaxHeap               \* bound: entries of the normal heap

ASSUME QueueAssumption ==
  PriorityBurst \in Nat \ {0} /\ MaxHeap \in Nat \ {0} /\ NoSession \notin Sessions

Lanes == {"normal", "priority"}

VARIABLES
  heap,                 \* [Lanes -> Seq(Sessions)], _normal and _priority
  scheduled,            \* [Sessions -> {"none"} \cup Lanes], _scheduled
  out,                  \* the session get returned last
  streak,               \* _priority_streak, up to PriorityBurst
  passed                \* history: priority batches in a row while one waited

vars == <<heap, scheduled, out, streak, passed>>

Init ==
  /\ heap = [l \in Lanes |-> <<>>]
  /\ scheduled = [s \in Sessions |-> "none"]
  /\ out = NoSession /\ streak = 0 /\ passed = 0

NormalWaits == \E s \in Sessions: scheduled[s] = "normal"
Least(m, n) == IF m < n THEN m ELSE n

\* A mutant: a session that is raised to priority is not entered in that heap.
PutOnce(s, lane) ==
  /\ scheduled[s] # "priority" /\ scheduled[s] # lane
  /\ Len(heap["normal"]) < MaxHeap
  /\ scheduled' = [scheduled EXCEPT ![s] = lane]
  /\ heap' = IF scheduled[s] = "none"
             THEN [heap EXCEPT ![lane] = Append(@, s)] ELSE heap
  /\ UNCHANGED <<out, streak, passed>>

\* put: a session that is scheduled is only raised, and keeps its old entry.
Put(s, lane) ==
  /\ scheduled[s] # "priority" /\ scheduled[s] # lane
  /\ Len(heap["normal"]) < MaxHeap
  /\ scheduled' = [scheduled EXCEPT ![s] = lane]
  /\ heap' = [heap EXCEPT ![lane] = Append(@, s)]
  /\ UNCHANGED <<out, streak, passed>>

\* A mutant: entries are not compared with _scheduled.
LiveAny(lane) == DOMAIN heap[lane]

\* The entries of a heap that agree with _scheduled.
Live(lane) == {i \in DOMAIN heap[lane] : scheduled[heap[lane][i]] = lane}

\* A mutant: the burst is counted from zero, one batch too many.
LaneLate ==
  IF heap["priority"] # <<>> /\ ~(heap["normal"] # <<>> /\ streak > PriorityBurst)
  THEN "priority" ELSE "normal"

\* A mutant: priority always goes first.
LaneStrict == IF heap["priority"] # <<>> THEN "priority" ELSE "normal"

\* use_priority, for the heap get pops first.
Lane ==
  IF heap["priority"] # <<>> /\ ~(heap["normal"] # <<>> /\ streak >= PriorityBurst)
  THEN "priority" ELSE "normal"

\* get pops up to the oldest live entry of lane: the skipped ones are dropped.
Pop(lane, base) ==
  \E i \in Live(lane):
    /\ \A j \in Live(lane): i <= j
    /\ heap' = [base EXCEPT ![lane] = SubSeq(@, i + 1, Len(@))]
    /\ scheduled' = [scheduled EXCEPT ![heap[lane][i]] = "none"]
    /\ out' = heap[lane][i]
    /\ streak' = IF lane = "priority" THEN Least(streak + 1, PriorityBurst + 1) ELSE 0
    /\ passed' = IF lane = "priority" /\ NormalWaits THEN Least(passed + 1, PriorityBurst + 1) ELSE 0

\* get: when the first heap has nothing live it is emptied, and the other is next.
Get ==
  \/ Pop(Lane, heap)
  \/ /\ Live(Lane) = {}
     /\ \E other \in Lanes \ {Lane}: Pop(other, [heap EXCEPT ![Lane] = <<>>])

\* get finds nothing live: the entries it skipped are gone, and it waits.
GetWaits ==
  /\ \A lane \in Lanes: Live(lane) = {}
  /\ heap # [l \in Lanes |-> <<>>]
  /\ heap' = [l \in Lanes |-> <<>>]
  /\ UNCHANGED <<scheduled, out, streak, passed>>

Next == Get \/ GetWaits \/ \E s \in Sessions, lane \in Lanes: Put(s, lane)

Fairness == WF_vars(Get)
Spec == Init /\ [][Next]_vars
FairSpec == Spec /\ Fairness

-----------------------------------------------------------------------------
TypeOK ==
  /\ heap \in [Lanes -> Seq(Sessions)]
  /\ scheduled \in [Sessions -> {"none"} \cup Lanes]
  /\ out \in Sessions \cup {NoSession}
  /\ streak \in 0..PriorityBurst + 1
  /\ passed \in 0..PriorityBurst + 1

(* A session that is scheduled can be popped: put refuses a session that   *)
(* is scheduled, so one without a live entry would never be projected.     *)
ScheduledIsQueued ==
  \A s \in Sessions: scheduled[s] # "none" =>
    \E i \in DOMAIN heap[scheduled[s]] : heap[scheduled[s]][i] = s

(* A session waits for at most PriorityBurst priority batches in a row:    *)
(* "after two priority batches in a row, a normal one is run" for the      *)
(* default priority_burst of 2.                                            *)
BurstBounded == passed <= PriorityBurst

(* get hands out a session only while it is scheduled, and once.           *)
Q == INSTANCE SessionQueue
ImplementsQueue == Q!Spec

(* Whatever else is put, a scheduled session is handed to a worker.        *)
Served == \A s \in Sessions: scheduled[s] # "none" ~> scheduled[s] = "none"
=============================================================================

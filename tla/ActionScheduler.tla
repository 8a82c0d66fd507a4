-------------------------- MODULE ActionScheduler --------------------------
(***************************************************************************)
(* ActionRunScheduler (assistant/action_scheduler.py): a FIFO queue of     *)
(* execution ids, its worker tasks, the cached results, the sleeping       *)
(* resumes and the waiters, from start to stop and start again.            *)
(*                                                                         *)
(* Its lock is never held across a suspension, so an action is what one    *)
(* task does between two awaits.  What a run does is ActionRun; here it    *)
(* returns a status, or raises.                                            *)
(***************************************************************************)
EXTENDS Naturals, Sequences, FiniteSets, SequencesExt

CONSTANTS
  Ids,                  \* execution ids
  Workers,              \* worker tasks, _concurrency of them
  NoId,
  MaxRaises,            \* bound: workers that runs end by raising (a locked database)
  MaxDelayed            \* bound: sleeping resumes of one id

ASSUME SchedulerAssumption ==
  NoId \notin Ids /\ MaxRaises \in Nat /\ MaxDelayed \in Nat \ {0}

VARIABLES
  life,                 \* _started and _stopping: off, on, stopping
  queue,                \* Seq(Ids), _queue
  queued,               \* _queued
  active,               \* _active
  work,                 \* [Workers -> Ids \cup {NoId}], the run a worker awaits
  dead,                 \* the workers whose task has ended
  delayed,              \* [Ids -> Nat], _delayed
  results,              \* [Ids -> Results], _results
  waiter                \* [Ids -> WaiterStatus], a caller of wait

schedulerVars == <<life, queue, queued, active, work, dead, delayed, results, waiter>>

\* parked: terminal or needs_input; waiting: waiting_external or reconciling.
Outcomes == {"parked", "waiting", "other"}
Results == {"none"} \cup Outcomes
WaiterStatus == {"none", "waiting", "answered", "cancelled"}

SchedulerInit ==
  /\ life = "off" /\ queue = <<>> /\ queued = {} /\ active = {}
  /\ work = [w \in Workers |-> NoId] /\ dead = Workers
  /\ delayed = [x \in Ids |-> 0]
  /\ results = [x \in Ids |-> "none"]
  /\ waiter = [x \in Ids |-> "none"]

StartUp ==
  /\ life = "off" /\ life' = "on"
  /\ dead' = {}
  /\ UNCHANGED <<queue, queued, active, work, delayed, results, waiter>>

\* A mutant: an active id is queued again.
PutAgain(x, cached) ==
  IF life # "on" \/ x \in queued \/ cached = "parked"
  THEN UNCHANGED <<queue, queued>>
  ELSE queue' = Append(queue, x) /\ queued' = queued \cup {x}

\* The body of enqueue, when the cached result of x is cached.
PutId(x, cached) ==
  IF life # "on" \/ x \in queued \cup active \/ cached = "parked"
  THEN UNCHANGED <<queue, queued>>
  ELSE queue' = Append(queue, x) /\ queued' = queued \cup {x}

Enqueue(x) ==
  /\ delayed[x] < MaxDelayed
  /\ PutId(x, results[x])
  /\ UNCHANGED <<life, active, work, dead, delayed, results, waiter>>

\* resume drops the cached result even when enqueue then refuses.
Resume(x) ==
  /\ delayed[x] < MaxDelayed
  /\ results' = [results EXCEPT ![x] = "none"]
  /\ PutId(x, "none")
  /\ UNCHANGED <<life, active, work, dead, delayed, waiter>>

\* wait returns a parked result at once, else leaves a future.
Wait(x) ==
  /\ life = "on" /\ waiter[x] # "waiting"
  /\ waiter' = [waiter EXCEPT ![x] = IF results[x] = "parked" THEN "answered" ELSE "waiting"]
  /\ UNCHANGED <<life, queue, queued, active, work, dead, delayed, results>>

\* A mutant: last in, first out.
TakeLast(w) ==
  LET x == Last(queue) IN
  /\ life # "off" /\ w \notin dead /\ work[w] = NoId /\ queue # <<>>
  /\ queue' = Front(queue)
  /\ queued' = queued \ {x}
  /\ active' = active \cup {x}
  /\ work' = [work EXCEPT ![w] = x]
  /\ UNCHANGED <<life, dead, delayed, results, waiter>>

\* _worker: an id leaves the queue and its run begins.
Take(w) ==
  LET x == Head(queue) IN
  /\ life # "off" /\ w \notin dead /\ work[w] = NoId /\ queue # <<>>
  /\ queue' = Tail(queue)
  /\ queued' = queued \ {x}
  /\ active' = active \cup {x}
  /\ work' = [work EXCEPT ![w] = x]
  /\ UNCHANGED <<life, dead, delayed, results, waiter>>

\* Mutants: a resume is scheduled although the scheduler stops; the waiters are not
\* resolved.
FinishStopping(w, s) ==
  LET x == work[w] IN
  /\ x # NoId
  /\ results' = [results EXCEPT ![x] = s]
  /\ waiter' = [waiter EXCEPT ![x] =
       IF s = "parked" /\ @ = "waiting" THEN "answered" ELSE @]
  /\ delayed' = [delayed EXCEPT ![x] = IF s = "waiting" THEN @ + 1 ELSE @]
  /\ active' = active \ {x}
  /\ work' = [work EXCEPT ![w] = NoId]
  /\ UNCHANGED <<life, queue, queued, dead>>

FinishSilent(w, s) ==
  LET x == work[w] IN
  /\ x # NoId
  /\ results' = [results EXCEPT ![x] = s]
  /\ delayed' = [delayed EXCEPT ![x] = IF s = "waiting" /\ life = "on" THEN @ + 1 ELSE @]
  /\ active' = active \ {x}
  /\ work' = [work EXCEPT ![w] = NoId]
  /\ UNCHANGED <<life, queue, queued, dead, waiter>>

\* The run returns: cache the result, resolve the waiters or schedule a resume.
Finish(w, s) ==
  LET x == work[w] IN
  /\ x # NoId
  /\ results' = [results EXCEPT ![x] = s]
  /\ waiter' = [waiter EXCEPT ![x] =
       IF s = "parked" /\ @ = "waiting" THEN "answered" ELSE @]
  /\ delayed' = [delayed EXCEPT ![x] = IF s = "waiting" /\ life = "on" THEN @ + 1 ELSE @]
  /\ active' = active \ {x}
  /\ work' = [work EXCEPT ![w] = NoId]
  /\ UNCHANGED <<life, queue, queued, dead>>

\* The run raises: nothing catches it, the worker task ends.
Raise(w) ==
  /\ work[w] # NoId /\ Cardinality(dead) < MaxRaises
  /\ active' = active \ {work[w]}
  /\ work' = [work EXCEPT ![w] = NoId]
  /\ dead' = dead \cup {w}
  /\ UNCHANGED <<life, queue, queued, delayed, results, waiter>>

\* _resume_later
Wake(x) ==
  /\ delayed[x] > 0
  /\ delayed' = [delayed EXCEPT ![x] = @ - 1]
  /\ PutId(x, results[x])
  /\ UNCHANGED <<life, active, work, dead, results, waiter>>

\* stop: refuse work and cancel the sleeping resumes; workers go on for the grace period.
BeginStop ==
  /\ life = "on" /\ life' = "stopping"
  /\ delayed' = [x \in Ids |-> 0]
  /\ UNCHANGED <<queue, queued, active, work, dead, results, waiter>>

\* The queue is joined, or the grace period is over: workers and waiters are cancelled.
EndStop ==
  /\ life = "stopping" /\ life' = "off"
  /\ queue' = <<>> /\ queued' = {} /\ active' = {}
  /\ work' = [w \in Workers |-> NoId] /\ dead' = Workers
  /\ waiter' = [x \in Ids |-> IF waiter[x] = "waiting" THEN "cancelled" ELSE waiter[x]]
  /\ UNCHANGED <<delayed, results>>

WorkerStep(w) == Raise(w) \/ \E s \in Outcomes : Finish(w, s)

SchedulerNext ==
  \/ StartUp \/ BeginStop \/ EndStop
  \/ \E x \in Ids : Enqueue(x) \/ Resume(x) \/ Wait(x) \/ Wake(x)
  \/ \E w \in Workers : Take(w) \/ WorkerStep(w)

\* A ready task runs, a run ends (its awaits have timeouts), a sleep ends.
SchedulerFairness ==
  /\ WF_schedulerVars(\E w \in Workers : Take(w))
  /\ \A w \in Workers : WF_schedulerVars(WorkerStep(w))
  /\ \A x \in Ids : WF_schedulerVars(Wake(x))

SchedulerSpec == SchedulerInit /\ [][SchedulerNext]_schedulerVars
FairSchedulerSpec == SchedulerSpec /\ SchedulerFairness

-----------------------------------------------------------------------------
\* The scheduler's fields have their types; sleeping resumes do not pile up.
SchedulerTypeOK ==
  /\ life \in {"off", "on", "stopping"}
  /\ queue \in Seq(Ids) /\ queued \subseteq Ids /\ active \subseteq Ids
  /\ work \in [Workers -> Ids \cup {NoId}] /\ dead \subseteq Workers
  /\ delayed \in [Ids -> 0..MaxDelayed]
  /\ results \in [Ids -> Results] /\ waiter \in [Ids -> WaiterStatus]

\* No execution is ever driven by two workers, or queued while it is driven, or queued
\* twice: enqueue, resume and _resume_later may race with each other and with a run.
OneRunner ==
  /\ \A v, w \in Workers : work[v] = work[w] /\ work[v] # NoId => v = w
  /\ active = {work[w] : w \in Workers} \ {NoId}
  /\ queued = ToSet(queue) /\ Len(queue) = Cardinality(queued)
  /\ queued \cap active = {}

\* Nobody waits for a result that is already known (wait against _resolve_waiters).
NoMissedResult == \A x \in Ids : waiter[x] = "waiting" => results[x] # "parked"

\* After stop nothing of the old life is left to act in the next one, though runs finish
\* during the grace period.
QuietAfterStop ==
  life = "off" =>
    /\ queue = <<>> /\ active = {} /\ \A w \in Workers : work[w] = NoId
    /\ \A x \in Ids : delayed[x] = 0 /\ waiter[x] # "waiting"

\* The scheduler is fair: an id that is queued or sleeps gets a worker, however often
\* the others come back, unless its result made that pointless or the scheduler stops.
\* It needs a worker that no raising run has ended.
Advances ==
  \A x \in Ids :
    (life = "on" /\ (x \in queued \/ delayed[x] > 0))
      ~> (x \in active \/ results[x] = "parked" \/ life # "on")

\* One runner per id, no waiter for a known result and nothing left after stop.
SchedulerSafe == SchedulerTypeOK /\ OneRunner /\ NoMissedResult /\ QuietAfterStop

=============================================================================

--------------------------- MODULE ProtocolsProofs ---------------------------
(***************************************************************************)
(* Theorems about the components that talk to a peer: the fair queue of    *)
(* sessions, the Fast Turn, the RPC peer, the meeting panel and the Action *)
(* Run scheduler, for any number of sessions, calls, rounds, ids, workers, *)
(* faults and deaths.  Each has its inductive invariant and a lemma that   *)
(* every step keeps it; the theorems about the components and about        *)
(* MCProtocols follow from these.                                          *)
(***************************************************************************)
EXTENDS MCProtocols, FiniteSetTheorems, TLAPS

-----------------------------------------------------------------------------
(* The queue of sessions.  The invariant is the types, ScheduledIsQueued,  *)
(* and the two facts that tie the history of a wait to the streak get      *)
(* counts: passed never runs ahead of the streak, nor of the burst.        *)

QueueInv == TypeOK /\ ScheduledIsQueued /\ passed <= streak /\ passed <= PriorityBurst

(* put enters a session in the heap of its lane, whatever stays behind in  *)
(* the other one.                                                          *)
LEMMA PutStep ==
  ASSUME QueueInv, NEW s \in Sessions, NEW lane \in Lanes, Put(s, lane)
  PROVE QueueInv'
<1>1. TypeOK'
  BY DEF QueueInv, TypeOK, Put, Lanes
<1>2. ScheduledIsQueued'
  <2> SUFFICES ASSUME NEW t \in Sessions, scheduled'[t] # "none"
               PROVE \E i \in DOMAIN heap'[scheduled'[t]] : heap'[scheduled'[t]][i] = t
    BY DEF ScheduledIsQueued
  <2>1. CASE t = s
    <3>1. scheduled'[t] = lane /\ heap'[lane] = Append(heap[lane], s) /\ heap[lane] \in Seq(Sessions)
      BY <2>1 DEF Put, QueueInv, TypeOK
    <3>2. Len(heap[lane]) + 1 \in DOMAIN Append(heap[lane], s)
          /\ Append(heap[lane], s)[Len(heap[lane]) + 1] = s
      BY <3>1
    <3> QED BY <2>1, <3>1, <3>2
  <2>2. CASE t # s
    <3>1. scheduled'[t] = scheduled[t] /\ scheduled[t] \in Lanes
      BY <2>2 DEF Put, QueueInv, TypeOK
    <3>2. PICK i \in DOMAIN heap[scheduled[t]] : heap[scheduled[t]][i] = t
      BY <3>1 DEF QueueInv, ScheduledIsQueued, Lanes
    <3>3. heap[scheduled[t]] \in Seq(Sessions)
      BY <3>1 DEF QueueInv, TypeOK
    <3>4. heap'[scheduled[t]] = heap[scheduled[t]] \/ heap'[scheduled[t]] = Append(heap[scheduled[t]], s)
      BY <3>1 DEF Put, QueueInv, TypeOK
    <3> QED BY <3>1, <3>2, <3>3, <3>4
  <2> QED BY <2>1, <2>2
<1>3. passed' = passed /\ streak' = streak
  BY DEF Put
<1> QED BY <1>1, <1>2, <1>3 DEF QueueInv

(* A session whose lane has no live entry is not scheduled in that lane.   *)
LEMMA NothingLive ==
  ASSUME QueueInv, NEW lane \in Lanes, Live(lane) = {}, NEW t \in Sessions
  PROVE scheduled[t] # lane
BY DEF QueueInv, ScheduledIsQueued, Live, Lanes

(* get keeps an entry of every other session: the ones it drops are stale  *)
(* or older than the first live one.  base is heap, or heap with the other *)
(* lane emptied because nothing in it was live.                            *)
LEMMA PopStep ==
  ASSUME QueueInv, NEW lane \in Lanes, NEW other \in Lanes \ {lane}, NEW STATE base,
         \/ base = heap
         \/ base = [heap EXCEPT ![other] = <<>>] /\ Live(other) = {},
         Pop(lane, base)
  PROVE TypeOK' /\ ScheduledIsQueued'
<1>1. PICK i \in Live(lane) :
        /\ \A j \in Live(lane): i <= j
        /\ heap' = [base EXCEPT ![lane] = SubSeq(@, i + 1, Len(@))]
        /\ scheduled' = [scheduled EXCEPT ![heap[lane][i]] = "none"]
        /\ out' = heap[lane][i]
        /\ streak' = IF lane = "priority" THEN Least(streak + 1, PriorityBurst + 1) ELSE 0
        /\ passed' = IF lane = "priority" /\ NormalWaits THEN Least(passed + 1, PriorityBurst + 1) ELSE 0
  BY DEF Pop
<1>2. heap[lane] \in Seq(Sessions) /\ heap[other] \in Seq(Sessions) /\ Lanes = {lane, other}
  BY DEF QueueInv, TypeOK, Lanes
<1>3. i \in 1..Len(heap[lane]) /\ heap[lane][i] \in Sessions
  BY <1>1, <1>2 DEF Live
<1>4. base \in [Lanes -> Seq(Sessions)] /\ base[lane] = heap[lane]
  <2>1. heap \in [Lanes -> Seq(Sessions)] /\ <<>> \in Seq(Sessions)
    BY DEF QueueInv, TypeOK
  <2>2. CASE base = heap
    BY <2>1, <2>2
  <2>3. CASE base = [heap EXCEPT ![other] = <<>>]
    BY <2>1, <2>3
  <2> QED BY <2>2, <2>3
<1>5. heap'[lane] = SubSeq(heap[lane], i + 1, Len(heap[lane])) /\ heap'[other] = base[other]
  BY <1>1, <1>2, <1>4
<1>6. TypeOK'
  <2>1. SubSeq(heap[lane], i + 1, Len(heap[lane])) \in Seq(Sessions)
    BY <1>2, <1>3
  <2>2. heap' \in [Lanes -> Seq(Sessions)]
    BY <1>1, <1>4, <2>1
  <2>3. scheduled' \in [Sessions -> {"none"} \cup Lanes] /\ out' \in Sessions
    BY <1>1, <1>3 DEF QueueInv, TypeOK
  <2>4. streak' \in 0..PriorityBurst + 1 /\ passed' \in 0..PriorityBurst + 1
    BY <1>1, QueueAssumption DEF QueueInv, TypeOK, Least
  <2> QED BY <2>2, <2>3, <2>4 DEF TypeOK
<1>7. ScheduledIsQueued'
  <2> SUFFICES ASSUME NEW t \in Sessions, scheduled'[t] # "none"
               PROVE \E j \in DOMAIN heap'[scheduled'[t]] : heap'[scheduled'[t]][j] = t
    BY DEF ScheduledIsQueued
  <2>1. t # heap[lane][i] /\ scheduled'[t] = scheduled[t] /\ scheduled[t] \in Lanes
    BY <1>1, <1>3 DEF QueueInv, TypeOK
  <2>2. PICK j \in DOMAIN heap[scheduled[t]] : heap[scheduled[t]][j] = t
    BY <2>1 DEF QueueInv, ScheduledIsQueued, Lanes
  <2>3. CASE scheduled[t] = lane
    <3>1. j \in Live(lane) /\ j \in 1..Len(heap[lane])
      BY <2>2, <2>3, <1>2 DEF Live
    <3>2. j \in Nat /\ i \in Nat /\ i < j
      BY <3>1, <1>1, <1>3, <2>1, <2>2, <2>3
    <3>3. j - i \in 1..Len(heap'[lane]) /\ heap'[lane][j - i] = heap[lane][j]
      <4>1. PICK q \in Seq(Sessions) : q = heap[lane]
        BY <1>2
      <4>2. PICK k \in Nat : k = j - i /\ k > 0 /\ i + k = j /\ j <= Len(q)
        BY <3>1, <3>2, <4>1
      <4>3. SubSeq(q, i + 1, Len(q)) \in Seq(Sessions) /\ Len(SubSeq(q, i + 1, Len(q))) = Len(q) - i
            /\ SubSeq(q, i + 1, Len(q))[k] = q[i + k]
        BY <3>2, <4>1, <4>2
      <4> QED
        BY <1>5, <3>2, <4>1, <4>2, <4>3
    <3>4. heap'[lane] \in Seq(Sessions)
      BY <1>6 DEF TypeOK
    <3>5. j - i \in DOMAIN heap'[lane]
      BY <3>3, <3>4
    <3> QED BY <3>3, <3>5, <2>1, <2>2, <2>3
  <2>4. CASE scheduled[t] = other
    <3>1. Live(other) # {}
      BY <2>2, <2>4 DEF Live
    <3>2. heap'[other] = heap[other]
      BY <3>1, <1>5
    <3> QED BY <3>2, <2>1, <2>2, <2>4
  <2> QED BY <2>1, <2>3, <2>4, <1>2
<1> QED BY <1>6, <1>7

(* The burst: while a normal session waits, its heap is not empty, so get  *)
(* takes a priority entry only as long as the streak is short of the burst.*)
LEMMA GetStep ==
  ASSUME QueueInv, Get
  PROVE QueueInv'
<1>1. Lane \in Lanes
  BY DEF Lane, Lanes
<1>2. passed \in Nat /\ streak \in Nat /\ PriorityBurst \in Nat
  BY QueueAssumption DEF QueueInv, TypeOK
<1>3. CASE Pop(Lane, heap)
  <2>1. PICK other \in Lanes \ {Lane} : TRUE
    BY DEF Lanes
  <2>2. TypeOK' /\ ScheduledIsQueued'
    BY <1>1, <1>3, <2>1, PopStep
  <2>3. passed' <= streak' /\ passed' <= PriorityBurst
    <3>1. CASE Lane = "priority" /\ NormalWaits
      <4>1. heap["normal"] # <<>>
        <5>1. PICK s \in Sessions : scheduled[s] = "normal"
          BY <3>1 DEF NormalWaits
        <5>2. \E i \in DOMAIN heap["normal"] : heap["normal"][i] = s
          BY <5>1 DEF QueueInv, ScheduledIsQueued
        <5> QED BY <5>2
      <4>2. streak < PriorityBurst
        BY <3>1, <4>1, <1>2 DEF Lane
      <4>3. streak' = Least(streak + 1, PriorityBurst + 1) /\ passed' = Least(passed + 1, PriorityBurst + 1)
        BY <1>3, <3>1 DEF Pop
      <4> QED BY <4>2, <4>3, <1>2 DEF Least, QueueInv
    <3>2. CASE ~(Lane = "priority" /\ NormalWaits)
      <4>1. passed' = 0 /\ streak' \in Nat
        BY <1>3, <3>2, <2>2 DEF Pop, TypeOK
      <4> QED BY <4>1, <1>2
    <3> QED BY <3>1, <3>2
  <2> QED BY <2>2, <2>3 DEF QueueInv
<1>4. CASE /\ Live(Lane) = {}
           /\ \E other \in Lanes \ {Lane}: Pop(other, [heap EXCEPT ![Lane] = <<>>])
  <2>1. PICK other \in Lanes \ {Lane}: Pop(other, [heap EXCEPT ![Lane] = <<>>])
    BY <1>4
  <2>2. TypeOK' /\ ScheduledIsQueued'
    BY <1>1, <1>4, <2>1, PopStep
  <2>3. passed' = 0
    <3>1. CASE other = "priority"
      <4>1. Lane = "normal"
        BY <2>1, <3>1, <1>1 DEF Lanes
      <4>2. ~NormalWaits
        BY <4>1, <1>1, <1>4, NothingLive DEF NormalWaits
      <4> QED BY <2>1, <4>2 DEF Pop
    <3>2. CASE other # "priority"
      BY <2>1, <3>2 DEF Pop
    <3> QED BY <3>1, <3>2
  <2>4. streak' \in Nat
    BY <2>2 DEF TypeOK
  <2> QED BY <2>2, <2>3, <2>4, <1>2 DEF QueueInv
<1> QED BY <1>3, <1>4 DEF Get

(* get that finds nothing live drops every entry, and no session is        *)
(* scheduled then.                                                         *)
LEMMA WaitStep ==
  ASSUME QueueInv, GetWaits
  PROVE QueueInv'
<1>1. TypeOK'
  BY DEF QueueInv, TypeOK, GetWaits
<1>2. \A t \in Sessions: scheduled'[t] = "none"
  <2> SUFFICES ASSUME NEW t \in Sessions PROVE scheduled[t] = "none"
    BY DEF GetWaits
  <2>1. \A lane \in Lanes: scheduled[t] # lane
    BY NothingLive DEF GetWaits
  <2> QED BY <2>1 DEF QueueInv, TypeOK
<1> QED BY <1>1, <1>2 DEF QueueInv, ScheduledIsQueued, GetWaits

(* The inductive invariant holds in every reachable state.                 *)
THEOREM QueueInvariance == Spec => []QueueInv
<1>1. Init => QueueInv
  BY QueueAssumption DEF Init, QueueInv, TypeOK, ScheduledIsQueued, Lanes
<1>2. QueueInv /\ [Next]_vars => QueueInv'
  <2> SUFFICES ASSUME QueueInv, [Next]_vars PROVE QueueInv'
    OBVIOUS
  <2>1. CASE UNCHANGED vars
    BY <2>1 DEF vars, QueueInv, TypeOK, ScheduledIsQueued
  <2>2. CASE Next
    BY <2>2, PutStep, GetStep, WaitStep DEF Next
  <2> QED BY <2>1, <2>2
<1> QED BY <1>1, <1>2, PTL DEF Spec

(* A scheduled session always has an entry that get will find.             *)
THEOREM ScheduledQueued == Spec => []ScheduledIsQueued
BY QueueInvariance, PTL DEF QueueInv

(* However large priority_burst is, a normal session waits for at most     *)
(* that many priority batches in a row.                                    *)
THEOREM BurstHolds == Spec => []BurstBounded
BY QueueInvariance, PTL DEF QueueInv, BurstBounded

(* The two heaps with their stale entries implement SessionQueue.          *)
THEOREM QueueRefinement == Spec => ImplementsQueue
<1>1. Init => Q!Init
  BY DEF Init, Q!Init
<1>2. QueueInv /\ [Next]_vars => [Q!Next]_<<scheduled, out>>
  <2> SUFFICES ASSUME QueueInv, [Next]_vars PROVE [Q!Next]_<<scheduled, out>>
    OBVIOUS
  <2>1. CASE UNCHANGED vars
    BY <2>1 DEF vars
  <2>2. ASSUME NEW s \in Sessions, NEW lane \in Lanes, Put(s, lane) PROVE Q!Next
    <3>1. Q!Put(s, lane)
      BY <2>2 DEF Put, Q!Put, QueueInv, TypeOK, Lanes
    <3> QED BY <3>1 DEF Q!Next, Lanes
  <2>3. ASSUME NEW lane \in Lanes, NEW STATE base, Pop(lane, base) PROVE Q!Next
    <3>1. PICK i \in Live(lane) :
            scheduled' = [scheduled EXCEPT ![heap[lane][i]] = "none"] /\ out' = heap[lane][i]
      BY <2>3 DEF Pop
    <3>2. heap[lane] \in Seq(Sessions) /\ i \in DOMAIN heap[lane] /\ scheduled[heap[lane][i]] = lane
      BY DEF QueueInv, TypeOK, Live
    <3>3. heap[lane][i] \in Sessions /\ lane # "none"
      BY <3>2 DEF Lanes
    <3>4. Q!Get(heap[lane][i])
      BY <3>1, <3>2, <3>3 DEF Q!Get
    <3> QED BY <3>3, <3>4 DEF Q!Next
  <2>4. CASE Get
    <3>1. Lane \in Lanes
      BY DEF Lane, Lanes
    <3> QED BY <2>3, <2>4, <3>1 DEF Get
  <2>5. CASE GetWaits
    BY <2>5 DEF GetWaits
  <2> QED BY <2>1, <2>2, <2>4, <2>5 DEF Next
<1> QED BY <1>1, <1>2, QueueInvariance, PTL DEF Spec, ImplementsQueue, Q!Spec

-----------------------------------------------------------------------------
(* The Fast Turn.  A turn that was handed off has no runner that could     *)
(* write its status again: the runner is past the handoff, or gone.        *)
TurnInv ==
  /\ HandoffAtomic
  /\ turn = "handed_off" => tpc \in {"off", "enqueue", "down"}

(* Every step of the runner, the worker, the user and the process keeps    *)
(* the turn and its target together.                                       *)
LEMMA TurnStepKeeps ==
  ASSUME TurnInv, [TurnNext]_turnVars
  PROVE TurnInv'
<1> USE DEF TurnInv, HandoffAtomic, TurnEnded
<1>1. CASE BeginTurn
  BY <1>1 DEF BeginTurn
<1>2. CASE Contextualize
  BY <1>2 DEF Contextualize, Authorized, Returned
<1>3. CASE FreezeContext
  BY <1>3 DEF FreezeContext
<1>4. CASE HandoffAfterTimeout
  BY <1>4 DEF HandoffAfterTimeout, Handoff, FailTurn, Returned, Authorized
<1>5. CASE EnqueueAfterCommit
  BY <1>5 DEF EnqueueAfterCommit, Returned
<1>6. CASE RefreshRunning
  BY <1>6 DEF RefreshRunning
<1>7. CASE TurnRestart
  BY <1>7 DEF TurnRestart
<1>8. CASE Respond
  BY <1>8 DEF Respond, FailTurn, Returned, Authorized
<1>9. CASE PlannerFails
  BY <1>9 DEF PlannerFails, FailTurn, Returned
<1>10. CASE InvokeTools
  BY <1>10 DEF InvokeTools, FailTurn, Returned, Authorized
<1>11. CASE HandOff
  BY <1>11 DEF HandOff, Handoff, FailTurn, Returned, Authorized
<1>12. CASE ToolsDone
  BY <1>12 DEF ToolsDone, Handoff, FailTurn, Returned, Authorized
<1>13. CASE TurnTimesOut
  BY <1>13 DEF TurnTimesOut, FailTurn, Returned
<1>14. CASE \E o \in {"operation", "request"}, handoff \in BOOLEAN : AskQuestion(o, handoff)
  BY <1>14 DEF AskQuestion
<1>15. CASE CancelTurn \/ LoseAuthority \/ SchedulerStops \/ TurnCrash
  BY <1>15 DEF CancelTurn, LoseAuthority, SchedulerStops, TurnCrash
<1>16. CASE UNCHANGED turnVars
  BY <1>16 DEF turnVars
<1> QED BY <1>1, <1>2, <1>3, <1>4, <1>5, <1>6, <1>7, <1>8, <1>9, <1>10, <1>11, <1>12,
           <1>13, <1>14, <1>15, <1>16 DEF TurnNext, TurnStep

(* A Fast Turn and the Action Run it is handed over to change hands in one *)
(* step, through deadlines, cancellations, lost authority and deaths: the  *)
(* target exists exactly when the turn says handed_off.                    *)
THEOREM HandoffHolds == TurnSpec => []HandoffAtomic
<1>1. TurnInit => TurnInv
  BY DEF TurnInit, TurnInv, HandoffAtomic
<1>2. TurnInv /\ [TurnNext]_turnVars => TurnInv'
  BY TurnStepKeeps
<1>3. TurnInv => HandoffAtomic
  BY DEF TurnInv
<1> QED BY <1>1, <1>2, <1>3, PTL DEF TurnSpec

-----------------------------------------------------------------------------
(* The RPC peer.  A request is in a pipe at most once and before its       *)
(* handler has begun, a response only after that handler is done: K are    *)
(* the kinds of messages of a pipe, F the calls it may hold a request of,  *)
(* D those it may hold an answer of.                                       *)
ToPluginKinds == {"request", "cancel", "response"}
ToHostKinds == {"request", "response"}

PipeOk(s, K, F, D) ==
  /\ s \in Seq(K \X Calls)
  /\ \A i \in 1..Len(s) : s[i][1] = "request" => s[i][2] \in F
  /\ \A i \in 1..Len(s) : s[i][1] = "response" => s[i][2] \in D
  /\ \A i, j \in 1..Len(s) :
       s[i][1] = "request" /\ s[j][1] = "request" /\ s[i][2] = s[j][2] => i = j

Unaccepted == {c \in Calls : call[c] # "idle" /\ task[c] = "none"}
Unhandled == {c \in Calls : capability[c] # "none" /\ inbound[c] = "none"}
TasksDone == {c \in Calls : task[c] = "done"}
HandlersDone == {c \in Calls : inbound[c] = "done"}

RpcTypes ==
  /\ call \in [Calls -> {"idle", "waiting", "answered", "timed_out", "failed"}]
  /\ task \in [Calls -> {"none", "running", "done", "cancelled"}]
  /\ capability \in [Calls -> {"none", "waiting", "answered", "failed"}]
  /\ inbound \in [Calls -> {"none", "running", "done", "cancelled"}]
  /\ pending \subseteq Calls

HandlersFresh ==
  \A c \in Calls : /\ call[c] = "idle" => task[c] = "none"
                   /\ capability[c] = "none" => inbound[c] = "none"

RpcInv ==
  /\ RpcTypes /\ HandlersFresh /\ OwnAnswer
  /\ PipeOk(toPlugin, ToPluginKinds, Unaccepted, HandlersDone)
  /\ PipeOk(toHost, ToHostKinds, Unhandled, TasksDone)

(* Which end sends which messages: only the Host cancels.                  *)
LEMMA Kinds ==
  /\ "request" \in ToPluginKinds /\ "cancel" \in ToPluginKinds /\ "response" \in ToPluginKinds
  /\ "request" \in ToHostKinds /\ "response" \in ToHostKinds
  /\ "cancel" # "request" /\ "cancel" # "response" /\ "request" # "response"
BY DEF ToPluginKinds, ToHostKinds

(* What a pipe may hold grows with what has been asked and answered.       *)
LEMMA PipeGrows ==
  ASSUME NEW s, NEW K, NEW F, NEW D, NEW F2, NEW D2, PipeOk(s, K, F, D), F \subseteq F2, D \subseteq D2
  PROVE PipeOk(s, K, F2, D2)
BY DEF PipeOk

(* A message put into a pipe: a request is new to it, an answer is true.   *)
LEMMA PipeAppends ==
  ASSUME NEW s, NEW K, NEW F, NEW D, NEW F2, NEW D2, PipeOk(s, K, F, D), F \subseteq F2, D \subseteq D2,
         NEW k \in K, NEW c \in Calls,
         k = "request" => c \in F2 /\ c \notin F,
         k = "response" => c \in D2
  PROVE PipeOk(Append(s, <<k, c>>), K, F2, D2)
<1> DEFINE m == <<k, c>>
           t == Append(s, m)
<1>1. m \in K \X Calls /\ m[1] = k /\ m[2] = c
  OBVIOUS
<1>2. s \in Seq(K \X Calls)
  BY DEF PipeOk
<1> HIDE DEF m
<1>3. t \in Seq(K \X Calls) /\ Len(s) \in Nat /\ Len(t) = Len(s) + 1 /\ t[Len(s) + 1] = m
  BY <1>1, <1>2
<1>4. \A i \in 1..Len(s) : t[i] = s[i]
  BY <1>1, <1>2
<1>5. \A i \in 1..Len(t) : i = Len(s) + 1 \/ i \in 1..Len(s)
  BY <1>3
<1> HIDE DEF t
<1>6. \A i \in 1..Len(t) : t[i][1] = "request" => t[i][2] \in F2
  BY <1>1, <1>3, <1>4, <1>5 DEF PipeOk
<1>7. \A i \in 1..Len(t) : t[i][1] = "response" => t[i][2] \in D2
  BY <1>1, <1>3, <1>4, <1>5 DEF PipeOk
<1>8. \A i, j \in 1..Len(t) :
        t[i][1] = "request" /\ t[j][1] = "request" /\ t[i][2] = t[j][2] => i = j
  <2> SUFFICES ASSUME NEW i \in 1..Len(t), NEW j \in 1..Len(t),
                      t[i][1] = "request", t[j][1] = "request", t[i][2] = t[j][2]
               PROVE i = j
    OBVIOUS
  <2>1. CASE i \in 1..Len(s) /\ j \in 1..Len(s)
    BY <1>4, <2>1 DEF PipeOk
  <2>2. CASE i \in 1..Len(s) /\ j = Len(s) + 1
    BY <1>1, <1>3, <1>4, <2>2 DEF PipeOk
  <2>3. CASE i = Len(s) + 1 /\ j \in 1..Len(s)
    BY <1>1, <1>3, <1>4, <2>3 DEF PipeOk
  <2> QED BY <1>5, <2>1, <2>2, <2>3
<1>9. PipeOk(t, K, F2, D2)
  BY <1>3, <1>6, <1>7, <1>8 DEF PipeOk
<1> QED BY <1>9 DEF t, m

(* A message read from a pipe: a request at its front is no longer in it.  *)
LEMMA PipeReads ==
  ASSUME NEW s, NEW K, NEW F, NEW D, PipeOk(s, K, F, D), s # <<>>
  PROVE /\ Head(s)[1] \in K /\ Head(s)[2] \in Calls
        /\ Head(s)[1] = "request" => Head(s)[2] \in F /\ PipeOk(Tail(s), K, F \ {Head(s)[2]}, D)
        /\ Head(s)[1] = "response" => Head(s)[2] \in D
        /\ PipeOk(Tail(s), K, F, D)
<1> DEFINE t == Tail(s)
<1>1. s \in Seq(K \X Calls)
  BY DEF PipeOk
<1>2. /\ t \in Seq(K \X Calls) /\ Len(s) \in Nat /\ 1 \in 1..Len(s) /\ Len(t) = Len(s) - 1
      /\ Head(s) = s[1] /\ s[1] \in K \X Calls
  BY <1>1
<1>3. \A i \in 1..Len(t) : t[i] = s[i + 1] /\ i + 1 \in 1..Len(s) /\ i + 1 # 1
  BY <1>1
<1> HIDE DEF t
<1>4. Head(s)[1] \in K /\ Head(s)[2] \in Calls
  BY <1>2
<1>5. /\ Head(s)[1] = "request" => Head(s)[2] \in F
      /\ Head(s)[1] = "response" => Head(s)[2] \in D
  BY <1>2 DEF PipeOk
<1>6. \A i, j \in 1..Len(t) :
        t[i][1] = "request" /\ t[j][1] = "request" /\ t[i][2] = t[j][2] => i = j
  <2> SUFFICES ASSUME NEW i \in 1..Len(t), NEW j \in 1..Len(t),
                      t[i][1] = "request", t[j][1] = "request", t[i][2] = t[j][2]
               PROVE i = j
    OBVIOUS
  <2>1. i + 1 = j + 1
    BY <1>3 DEF PipeOk
  <2> QED BY <1>2, <2>1
<1>7. PipeOk(t, K, F, D)
  <2>1. \A i \in 1..Len(t) : t[i][1] = "request" => t[i][2] \in F
    BY <1>3 DEF PipeOk
  <2>2. \A i \in 1..Len(t) : t[i][1] = "response" => t[i][2] \in D
    BY <1>3 DEF PipeOk
  <2> QED BY <1>2, <1>6, <2>1, <2>2 DEF PipeOk
<1>8. ASSUME Head(s)[1] = "request" PROVE PipeOk(t, K, F \ {Head(s)[2]}, D)
  <2>1. \A i \in 1..Len(t) : t[i][1] = "request" => t[i][2] # Head(s)[2]
    BY <1>2, <1>3, <1>8 DEF PipeOk
  <2> QED BY <1>7, <2>1 DEF PipeOk
<1> QED BY <1>4, <1>5, <1>7, <1>8 DEF t

(* The Host's calls: a request goes out once, while its task is still to   *)
(* come.                                                                   *)
LEMMA RequestKeeps ==
  ASSUME RpcInv, NEW c \in Calls, Request(c)
  PROVE RpcInv'
<1> USE DEF RpcInv
<1>1. RpcTypes' /\ HandlersFresh' /\ OwnAnswer'
  BY DEF Request, RpcTypes, HandlersFresh, OwnAnswer
<1>2. c \in Unaccepted' /\ c \notin Unaccepted /\ Unaccepted \subseteq Unaccepted'
  BY DEF Request, RpcTypes, HandlersFresh, Unaccepted
<1>3. HandlersDone' = HandlersDone /\ Unhandled' = Unhandled /\ TasksDone' = TasksDone
  BY DEF Request, HandlersDone, Unhandled, TasksDone
<1>4. toPlugin' = toPlugin \/ toPlugin' = Append(toPlugin, <<"request", c>>)
  BY DEF Request, HostSends
<1>5. PipeOk(toPlugin', ToPluginKinds, Unaccepted', HandlersDone')
  BY <1>2, <1>3, <1>4, Kinds, PipeGrows, PipeAppends
<1>6. PipeOk(toHost', ToHostKinds, Unhandled', TasksDone')
  BY <1>3 DEF Request
<1> QED BY <1>1, <1>5, <1>6

(* A timeout or a handler's end puts something else than a request into    *)
(* the pipe to the plugin.                                                 *)
LEMMA HostSendsKeeps ==
  ASSUME RpcInv, NEW c \in Calls, RequestTimesOut(c) \/ HandlerEnds(c)
  PROVE RpcInv'
<1> USE DEF RpcInv
<1>1. RpcTypes' /\ HandlersFresh' /\ OwnAnswer'
  BY DEF RequestTimesOut, HandlerEnds, RpcTypes, HandlersFresh, OwnAnswer
<1>2. /\ Unaccepted \subseteq Unaccepted' /\ HandlersDone \subseteq HandlersDone'
      /\ Unhandled \subseteq Unhandled' /\ TasksDone' = TasksDone
  BY DEF RequestTimesOut, HandlerEnds, RpcTypes, Unaccepted, HandlersDone, Unhandled, TasksDone
<1>3. \/ toPlugin' = toPlugin
      \/ toPlugin' = Append(toPlugin, <<"cancel", c>>)
      \/ toPlugin' = Append(toPlugin, <<"response", c>>) /\ c \in HandlersDone'
  BY DEF RequestTimesOut, HandlerEnds, HostSends, HandlersDone, RpcTypes
<1>4. PipeOk(toPlugin', ToPluginKinds, Unaccepted', HandlersDone')
  BY <1>2, <1>3, Kinds, PipeGrows, PipeAppends
<1>5. toHost' = toHost
  BY DEF RequestTimesOut, HandlerEnds
<1>6. PipeOk(toHost', ToHostKinds, Unhandled', TasksDone')
  BY <1>2, <1>5, PipeGrows
<1> QED BY <1>1, <1>4, <1>6

(* The plugin's tasks: a capability is asked for once, while its handler   *)
(* is still to come, and the answer of a task is sent when it is done.     *)
LEMMA PluginSendsKeeps ==
  ASSUME RpcInv, NEW c \in Calls, AskCapability(c) \/ TaskEnds(c)
  PROVE RpcInv'
<1> USE DEF RpcInv
<1>1. RpcTypes' /\ HandlersFresh' /\ OwnAnswer'
  BY DEF AskCapability, TaskEnds, RpcTypes, HandlersFresh, OwnAnswer
<1>2. /\ Unaccepted \subseteq Unaccepted' /\ HandlersDone' = HandlersDone
      /\ Unhandled \subseteq Unhandled' /\ TasksDone \subseteq TasksDone'
  BY DEF AskCapability, TaskEnds, RpcTypes, Unaccepted, HandlersDone, Unhandled, TasksDone
<1>3. \/ toHost' = toHost
      \/ toHost' = Append(toHost, <<"request", c>>) /\ c \in Unhandled' /\ c \notin Unhandled
      \/ toHost' = Append(toHost, <<"response", c>>) /\ c \in TasksDone'
  BY DEF AskCapability, TaskEnds, PluginSends, Unhandled, TasksDone, RpcTypes, HandlersFresh
<1>4. PipeOk(toHost', ToHostKinds, Unhandled', TasksDone')
  BY <1>2, <1>3, Kinds, PipeGrows, PipeAppends
<1>5. toPlugin' = toPlugin
  BY DEF AskCapability, TaskEnds
<1>6. PipeOk(toPlugin', ToPluginKinds, Unaccepted', HandlersDone')
  BY <1>2, <1>5, PipeGrows
<1> QED BY <1>1, <1>4, <1>6

(* The plugin reads: a request becomes a task, an answer settles the call  *)
(* that waits for it, and neither is read twice.                           *)
LEMMA PluginReadsKeeps ==
  ASSUME RpcInv, PluginReads
  PROVE RpcInv'
<1> DEFINE k == Head(toPlugin)[1]
           c == Head(toPlugin)[2]
<1>1. toPlugin # <<>> /\ PipeOk(toPlugin, ToPluginKinds, Unaccepted, HandlersDone)
  BY DEF PluginReads, RpcInv
<1>2. /\ k \in {"request", "cancel", "response"} /\ c \in Calls
      /\ k = "request" => c \in Unaccepted /\ PipeOk(Tail(toPlugin), ToPluginKinds, Unaccepted \ {c}, HandlersDone)
      /\ k = "response" => c \in HandlersDone
      /\ PipeOk(Tail(toPlugin), ToPluginKinds, Unaccepted, HandlersDone)
  <2>1. k \in ToPluginKinds
    BY <1>1, PipeReads
  <2> QED BY <1>1, <2>1, PipeReads DEF ToPluginKinds
<1>3. /\ UNCHANGED <<call, pending, inbound, toHost>> /\ toPlugin' = Tail(toPlugin)
      /\ k = "request" => task' = [task EXCEPT ![c] = "running"]
      /\ k # "request" => task' = task
      /\ \/ capability' = capability
         \/ /\ k = "response"
            /\ capability' = [capability EXCEPT ![c] = IF @ = "waiting" THEN "answered" ELSE @]
  BY DEF PluginReads, PluginAccepts, CapabilityAnswered
<1> HIDE DEF k, c
<1>4. RpcTypes'
  BY <1>2, <1>3 DEF RpcInv, RpcTypes
<1>5. HandlersFresh'
  BY <1>2, <1>3 DEF RpcInv, RpcTypes, HandlersFresh, Unaccepted
<1>6. OwnAnswer'
  BY <1>2, <1>3 DEF RpcInv, RpcTypes, OwnAnswer, Unaccepted, HandlersDone
<1>7. HandlersDone' = HandlersDone /\ Unhandled \subseteq Unhandled' /\ TasksDone \subseteq TasksDone'
  BY <1>2, <1>3 DEF RpcInv, RpcTypes, HandlersDone, Unhandled, TasksDone, Unaccepted
<1>8. /\ k = "request" => Unaccepted \ {c} \subseteq Unaccepted'
      /\ k # "request" => Unaccepted \subseteq Unaccepted'
  BY <1>2, <1>3 DEF RpcInv, RpcTypes, Unaccepted
<1>9. PipeOk(toPlugin', ToPluginKinds, Unaccepted', HandlersDone')
  BY <1>2, <1>3, <1>7, <1>8, PipeGrows
<1>10. PipeOk(toHost', ToHostKinds, Unhandled', TasksDone')
  BY <1>3, <1>7, PipeGrows DEF RpcInv
<1> QED BY <1>4, <1>5, <1>6, <1>9, <1>10 DEF RpcInv

(* The Host reads: the same on its side.                                   *)
LEMMA HostReadsKeeps ==
  ASSUME RpcInv, HostReads
  PROVE RpcInv'
<1> DEFINE k == Head(toHost)[1]
           c == Head(toHost)[2]
<1>1. toHost # <<>> /\ PipeOk(toHost, ToHostKinds, Unhandled, TasksDone)
  BY DEF HostReads, RpcInv
<1>2. /\ k \in {"request", "response"} /\ c \in Calls
      /\ k = "request" => c \in Unhandled /\ PipeOk(Tail(toHost), ToHostKinds, Unhandled \ {c}, TasksDone)
      /\ k = "response" => c \in TasksDone
      /\ PipeOk(Tail(toHost), ToHostKinds, Unhandled, TasksDone)
  <2>1. k \in ToHostKinds
    BY <1>1, PipeReads
  <2> QED BY <1>1, <2>1, PipeReads DEF ToHostKinds
<1>3. /\ UNCHANGED <<task, capability, toPlugin>> /\ toHost' = Tail(toHost)
      /\ k = "request" => inbound' = [inbound EXCEPT ![c] = "running"] /\ UNCHANGED <<call, pending>>
      /\ k # "request" => /\ inbound' = inbound /\ pending' = pending \ {c}
                          /\ call' = [call EXCEPT ![c] = IF c \in pending THEN "answered" ELSE @]
  BY DEF HostReads, AcceptRequest, AcceptResponse
<1> HIDE DEF k, c
<1>4. RpcTypes'
  BY <1>2, <1>3 DEF RpcInv, RpcTypes
<1>5. HandlersFresh'
  BY <1>2, <1>3 DEF RpcInv, RpcTypes, HandlersFresh, Unhandled, TasksDone
<1>6. OwnAnswer'
  BY <1>2, <1>3 DEF RpcInv, RpcTypes, OwnAnswer, Unhandled, TasksDone
<1>7. TasksDone' = TasksDone /\ Unaccepted \subseteq Unaccepted' /\ HandlersDone \subseteq HandlersDone'
  BY <1>2, <1>3 DEF RpcInv, RpcTypes, HandlersDone, Unhandled, TasksDone, Unaccepted
<1>8. /\ k = "request" => Unhandled \ {c} \subseteq Unhandled'
      /\ k # "request" => Unhandled \subseteq Unhandled'
  BY <1>2, <1>3 DEF RpcInv, RpcTypes, Unhandled
<1>9. PipeOk(toHost', ToHostKinds, Unhandled', TasksDone')
  BY <1>2, <1>3, <1>7, <1>8, PipeGrows
<1>10. PipeOk(toPlugin', ToPluginKinds, Unaccepted', HandlersDone')
  BY <1>3, <1>7, PipeGrows DEF RpcInv
<1> QED BY <1>4, <1>5, <1>6, <1>9, <1>10 DEF RpcInv

(* An end that closes or dies fails its calls and cancels its handlers; it *)
(* takes no answer back and leaves the pipes as they are.                  *)
LEMMA EndKeeps ==
  ASSUME RpcInv, ReaderEnds \/ ReaderFails \/ Close \/ CloseDone \/ CloseFails \/ PluginEof \/ PluginDies
  PROVE RpcInv'
<1> USE DEF ReaderEnds, ReaderFails, Close, CloseDone, CloseFails, PluginEof, PluginDies, PluginClosed,
            FailPending, CancelInbound, RpcInv
<1>1. /\ UNCHANGED <<toPlugin, toHost>>
      /\ pending' = pending \/ pending' = {}
      /\ call' = call \/ call' = [c \in Calls |-> IF c \in pending THEN "failed" ELSE call[c]]
      /\ \/ inbound' = inbound
         \/ inbound' = [c \in Calls |-> IF inbound[c] = "running" THEN "cancelled" ELSE inbound[c]]
      /\ \/ task' = task
         \/ task' = [c \in Calls |-> IF task[c] = "running" THEN "cancelled" ELSE task[c]]
      /\ \/ capability' = capability
         \/ capability' = [c \in Calls |-> IF capability[c] = "waiting" THEN "failed" ELSE capability[c]]
      /\ UNCHANGED <<task, capability>> \/ UNCHANGED <<call, inbound>>
  OBVIOUS
<1> HIDE DEF ReaderEnds, ReaderFails, Close, CloseDone, CloseFails, PluginEof, PluginDies, PluginClosed,
            FailPending, CancelInbound
<1>2. RpcTypes'
  BY <1>1 DEF RpcTypes
<1>7. \A c \in Calls : call'[c] = call[c] \/ call'[c] = "failed"
  BY <1>1 DEF RpcTypes
<1>8. \A c \in Calls : task'[c] = task[c] \/ (task[c] = "running" /\ task'[c] = "cancelled")
  BY <1>1 DEF RpcTypes
<1>9. \A c \in Calls : inbound'[c] = inbound[c] \/ (inbound[c] = "running" /\ inbound'[c] = "cancelled")
  BY <1>1 DEF RpcTypes
<1>10. \A c \in Calls :
         capability'[c] = capability[c] \/ (capability[c] = "waiting" /\ capability'[c] = "failed")
  BY <1>1 DEF RpcTypes
<1>3. HandlersFresh' /\ OwnAnswer'
  BY <1>7, <1>8, <1>9, <1>10 DEF HandlersFresh, OwnAnswer
<1>4. /\ Unaccepted \subseteq Unaccepted' /\ Unhandled \subseteq Unhandled'
      /\ TasksDone \subseteq TasksDone' /\ HandlersDone \subseteq HandlersDone'
  BY <1>7, <1>8, <1>9, <1>10 DEF Unaccepted, Unhandled, TasksDone, HandlersDone
<1>5. PipeOk(toPlugin', ToPluginKinds, Unaccepted', HandlersDone')
  BY <1>1, <1>4, PipeGrows
<1>6. PipeOk(toHost', ToHostKinds, Unhandled', TasksDone')
  BY <1>1, <1>4, PipeGrows
<1> QED BY <1>2, <1>3, <1>5, <1>6

(* Every step of either end keeps the invariant.                           *)
LEMMA RpcStepKeeps ==
  ASSUME RpcInv, [RpcNext]_rpcVars
  PROVE RpcInv'
<1>1. CASE UNCHANGED rpcVars
  BY <1>1 DEF rpcVars, RpcInv, RpcTypes, HandlersFresh, OwnAnswer, Unaccepted, Unhandled,
              TasksDone, HandlersDone
<1>2. CASE \E c \in Calls : Request(c)
  BY <1>2, RequestKeeps
<1>3. CASE \E c \in Calls : RequestTimesOut(c) \/ HandlerEnds(c)
  BY <1>3, HostSendsKeeps
<1>4. CASE \E c \in Calls : AskCapability(c) \/ TaskEnds(c)
  BY <1>4, PluginSendsKeeps
<1>5. CASE PluginReads
  BY <1>5, PluginReadsKeeps
<1>6. CASE HostReads
  BY <1>6, HostReadsKeeps
<1>7. CASE ReaderEnds \/ ReaderFails \/ Close \/ CloseDone \/ CloseFails \/ PluginEof \/ PluginDies
  BY <1>7, EndKeeps
<1> QED BY <1>1, <1>2, <1>3, <1>4, <1>5, <1>6, <1>7 DEF RpcNext, RpcStep

(* No message is in a pipe and nobody waits in the beginning.              *)
LEMMA RpcInitHolds == RpcInit => RpcInv
BY DEF RpcInit, RpcInv, RpcTypes, HandlersFresh, OwnAnswer, PipeOk

(* An answer goes to the call it answers: a caller of either peer has the  *)
(* answer of its own handler, also when answers of timed out calls come in *)
(* late and ends close or die with messages in the pipes.                  *)
THEOREM OwnAnswerHolds == RpcSpec => []OwnAnswer
<1>1. RpcInv => OwnAnswer
  BY DEF RpcInv
<1> QED BY <1>1, RpcInitHolds, RpcStepKeeps, PTL DEF RpcSpec

-----------------------------------------------------------------------------
(* The meeting panel.  The version the Host shows is never above the saved *)
(* one, and a refresh that is about to publish has a greater one.          *)
PanelInv ==
  /\ NeverRefused
  /\ {"view", "tracked", "snapshot", "published", "error", "notice", "failures", "dirty"} \subseteq DOMAIN memory
  /\ {"pc", "snapshot", "tracked"} \subseteq DOMAIN round
  /\ memory.view \in Nat /\ stored.view \in Nat /\ shown.version \in Nat
  /\ shown.version <= stored.view /\ stored.view <= memory.view
  /\ round.pc \in {"reserved", "reserved_unread"} => memory.view > shown.version /\ memory.view <= stored.view
  /\ command \in {"admitting", "saving"} => round.pc = "none"

(* A notice is published with a version of its own, saved with it.         *)
LEMMA NoticeKeeps ==
  ASSUME PanelInv, NoticePublished, UNCHANGED round, round.pc = "none",
         command' \in {"admitting", "saving"} => round.pc = "none"
  PROVE PanelInv'
<1> DEFINE noted == [memory EXCEPT !.notice = TRUE]
<1>1. noted.view = memory.view /\ DOMAIN noted = DOMAIN memory
  BY DEF PanelInv
<1>2. CASE memory' = noted /\ Saved(noted) /\ shown' = shown
  BY <1>1, <1>2 DEF PanelInv, NeverRefused, Saved
<1>3. CASE /\ memory' = [noted EXCEPT !.view = @ + 1, !.published = Content(noted)]
           /\ Saved(memory')
           /\ shown' = [version |-> memory'.view, content |-> Content(noted),
                        refused |-> memory'.view <= shown.version]
  <2>1. memory'.view = memory.view + 1 /\ DOMAIN memory' = DOMAIN memory
    BY <1>1, <1>3 DEF PanelInv
  <2>2. stored'.view = memory'.view
    BY <1>3 DEF Saved
  <2>4. ~(memory'.view <= shown.version)
    BY <2>1 DEF PanelInv
  <2>5. (memory'.view <= shown.version) = FALSE
    BY <2>4
  <2>3. shown'.version = memory'.view /\ shown'.refused = FALSE
    BY <1>3, <2>5
  <2> QED BY <2>1, <2>2, <2>3, <2>4 DEF PanelInv, NeverRefused
<1> QED BY <1>2, <1>3 DEF NoticePublished

(* Every step of the panel, its plugin and the Host keeps the versions in  *)
(* order.                                                                  *)
LEMMA PanelStepKeeps ==
  ASSUME PanelInv, [PanelNext]_panelVars
  PROVE PanelInv'
<1> USE DEF PanelInv, NeverRefused, NoRound
<1>1. CASE OpenPanel
  BY <1>1 DEF OpenPanel, Fresh
<1>2. CASE WakePoll \/ ReadSnapshot \/ ApplyAction \/ OperationCompletes \/ ExecutionEnds
  BY <1>2 DEF WakePoll, ReadSnapshot, ReadSession, ApplyAction, OperationCompletes, ExecutionEnds, Free
<1>3. CASE BeginRefresh
  BY <1>3 DEF BeginRefresh, Free
<1>4. CASE AskOperation \/ ReadAgain
  BY <1>4 DEF AskOperation, ReadAgain, ReadSession, Taken
<1>5. CASE PublishSame
  BY <1>5 DEF PublishSame, Saved, RoundEnds, Succeeded
<1>6. CASE ReserveVersion
  BY <1>6 DEF ReserveVersion, Saved
<1>7. CASE PublishPanel
  BY <1>7 DEF PublishPanel, RoundEnds, Succeeded
<1>8. CASE Admitted
  BY <1>8 DEF Admitted
<1>9. CASE TrackingSaved
  BY <1>9 DEF TrackingSaved, Saved
<1>10. CASE EventHint
  BY <1>10 DEF EventHint
<1>11. CASE AskConfirmation
  BY <1>11, NoticeKeeps DEF AskConfirmation, Free
<1>12. CASE ReadFails
  BY <1>12 DEF ReadFails
<1>13. CASE PublishFails
  BY <1>13 DEF PublishFails, RoundEnds
<1>14. CASE AdmissionUnknown
  BY <1>14, NoticeKeeps DEF AdmissionUnknown
<1>15. CASE RefreshCommand
  BY <1>15 DEF RefreshCommand, Saved, Free
<1>16. CASE PanelCloses \/ PanelDies
  BY <1>16 DEF PanelCloses, PanelDies, PanelGone
<1>17. CASE UNCHANGED panelVars
  BY <1>17 DEF panelVars
<1> QED BY <1>1, <1>2, <1>3, <1>4, <1>5, <1>6, <1>7, <1>8, <1>9, <1>10, <1>11, <1>12, <1>13,
           <1>14, <1>15, <1>16, <1>17 DEF PanelNext, PluginStep, HostStep

(* A new panel has published nothing.                                      *)
LEMMA PanelInitHolds == PanelInit => PanelInv
BY DEF PanelInit, PanelInv, NeverRefused, Fresh, NoRound

(* The Host refuses no view of a panel: a version is saved before it is    *)
(* published, so that a container that died anywhere in between goes on    *)
(* with a greater one.                                                     *)
THEOREM NeverRefusedHolds == PanelSpec => []NeverRefused
<1>1. PanelInv => NeverRefused
  BY DEF PanelInv
<1> QED BY <1>1, PanelInitHolds, PanelStepKeeps, PTL DEF PanelSpec

-----------------------------------------------------------------------------
(* The Action Run scheduler.  An id is in the queue once, and the set that *)
(* says so is finite; a run that may leave a resume has room for it.       *)
SchedulerInv ==
  /\ SchedulerTypeOK /\ NoMissedResult /\ QuietAfterStop
  /\ \A v, w \in Workers : work[v] = work[w] /\ work[v] # NoId => v = w
  /\ active = {work[w] : w \in Workers} \ {NoId}
  /\ queued = ToSet(queue) /\ queued \cap active = {}
  /\ IsFiniteSet(queued) /\ Len(queue) = Cardinality(queued)
  /\ \A i, j \in 1..Len(queue) : queue[i] = queue[j] => i = j
  /\ \A x \in queued \cup active : delayed[x] < MaxDelayed
  /\ life # "on" => \A x \in Ids : delayed[x] = 0

(* What is in a queue.                                                     *)
LEMMA InQueue ==
  ASSUME NEW s \in Seq(Ids)
  PROVE \A y : y \in ToSet(s) <=> \E i \in 1..Len(s) : s[i] = y
<1>1. DOMAIN s = 1..Len(s)
  OBVIOUS
<1> QED BY <1>1 DEF ToSet

(* An id that is not queued is put at the end of the queue.                *)
LEMMA AppendId ==
  ASSUME NEW s \in Seq(Ids), NEW x \in Ids, x \notin ToSet(s), IsFiniteSet(ToSet(s)),
         Len(s) = Cardinality(ToSet(s)), \A i, j \in 1..Len(s) : s[i] = s[j] => i = j
  PROVE LET t == Append(s, x)
        IN /\ t \in Seq(Ids) /\ ToSet(t) = ToSet(s) \cup {x} /\ IsFiniteSet(ToSet(t))
           /\ Len(t) = Cardinality(ToSet(t))
           /\ \A i, j \in 1..Len(t) : t[i] = t[j] => i = j
<1> DEFINE t == Append(s, x)
<1>1. t \in Seq(Ids) /\ Len(s) \in Nat /\ Len(t) = Len(s) + 1 /\ t[Len(s) + 1] = x
  OBVIOUS
<1>2. \A i \in 1..Len(s) : t[i] = s[i]
  OBVIOUS
<1>3. \A i \in 1..Len(t) : i = Len(s) + 1 \/ i \in 1..Len(s)
  BY <1>1
<1> HIDE DEF t
<1>4. ToSet(t) = ToSet(s) \cup {x}
  <2>1. Len(s) + 1 \in 1..Len(t) /\ \A i \in 1..Len(s) : i \in 1..Len(t)
    BY <1>1
  <2> QED BY <1>1, <1>2, <1>3, <2>1, InQueue
<1>5. IsFiniteSet(ToSet(t)) /\ Cardinality(ToSet(t)) = Cardinality(ToSet(s)) + 1
  BY <1>4, FS_AddElement
<1>6. \A i \in 1..Len(s) : s[i] # x
  BY InQueue
<1>7. \A i, j \in 1..Len(t) : t[i] = t[j] => i = j
  BY <1>1, <1>2, <1>3, <1>6
<1> QED BY <1>1, <1>4, <1>5, <1>7 DEF t

(* The id at the front of the queue leaves it.                             *)
LEMMA TailId ==
  ASSUME NEW s \in Seq(Ids), s # <<>>, IsFiniteSet(ToSet(s)), Len(s) = Cardinality(ToSet(s)),
         \A i, j \in 1..Len(s) : s[i] = s[j] => i = j
  PROVE LET t == Tail(s)
        IN /\ Head(s) \in ToSet(s) /\ Head(s) \in Ids
           /\ t \in Seq(Ids) /\ ToSet(t) = ToSet(s) \ {Head(s)} /\ IsFiniteSet(ToSet(t))
           /\ Len(t) = Cardinality(ToSet(t))
           /\ \A i, j \in 1..Len(t) : t[i] = t[j] => i = j
<1> DEFINE t == Tail(s)
<1>1. /\ t \in Seq(Ids) /\ Len(s) \in Nat /\ 1 \in 1..Len(s) /\ Len(t) = Len(s) - 1
      /\ Head(s) = s[1] /\ s[1] \in Ids
  OBVIOUS
<1>2. \A i \in 1..Len(t) : t[i] = s[i + 1] /\ i + 1 \in 1..Len(s) /\ i + 1 # 1
  OBVIOUS
<1>3. \A i \in 1..Len(s) : i = 1 \/ (i - 1 \in 1..Len(t) /\ s[i] = t[i - 1])
  BY <1>1, <1>2
<1> HIDE DEF t
<1>4. Head(s) \in ToSet(s)
  BY <1>1, InQueue
<1>5. ToSet(t) = ToSet(s) \ {Head(s)}
  <2>1. ToSet(t) \subseteq ToSet(s) \ {Head(s)}
    BY <1>1, <1>2, InQueue
  <2>2. ToSet(s) \ {Head(s)} \subseteq ToSet(t)
    <3> SUFFICES ASSUME NEW y \in ToSet(s) \ {Head(s)} PROVE y \in ToSet(t)
      OBVIOUS
    <3>1. PICK i \in 1..Len(s) : s[i] = y
      BY InQueue
    <3>2. i - 1 \in 1..Len(t) /\ t[i - 1] = y
      BY <1>1, <1>3, <3>1
    <3> QED BY <1>1, <3>2, InQueue
  <2> QED BY <2>1, <2>2
<1>6. IsFiniteSet(ToSet(t)) /\ Cardinality(ToSet(t)) = Cardinality(ToSet(s)) - 1
  BY <1>4, <1>5, FS_RemoveElement
<1>7. \A i, j \in 1..Len(t) : t[i] = t[j] => i = j
  <2> TAKE i, j \in 1..Len(t)
  <2> HAVE t[i] = t[j]
  <2>1. i + 1 = j + 1
    BY <1>2
  <2> QED BY <1>1, <2>1
<1> QED BY <1>1, <1>4, <1>5, <1>6, <1>7 DEF t

(* enqueue, whoever calls it: the queue and its set stay one.              *)
LEMMA PutKeeps ==
  ASSUME SchedulerInv, NEW x \in Ids, NEW cached, PutId(x, cached),
         UNCHANGED <<life, active, work, dead, waiter>>,
         delayed' \in [Ids -> 0..MaxDelayed], delayed'[x] < MaxDelayed,
         \A y \in Ids : delayed'[y] <= delayed[y],
         results' \in [Ids -> Results], \A y \in Ids : results'[y] = results[y] \/ results'[y] = "none"
  PROVE SchedulerInv'
<1> USE SchedulerAssumption DEF SchedulerInv
<1>1. NoMissedResult'
  BY DEF NoMissedResult, SchedulerTypeOK, Results
<1>2. /\ \A v, w \in Workers : work'[v] = work'[w] /\ work'[v] # NoId => v = w
      /\ active' = {work'[w] : w \in Workers} \ {NoId}
  OBVIOUS
<1>3. life' # "on" => \A y \in Ids : delayed'[y] = 0
  BY DEF SchedulerTypeOK
<1>4. \A y \in queued' \cup active' : delayed'[y] < MaxDelayed
  BY DEF SchedulerTypeOK, PutId
<1>5. CASE UNCHANGED <<queue, queued>>
  <2>1. SchedulerTypeOK'
    BY <1>5 DEF SchedulerTypeOK
  <2>2. QuietAfterStop'
    BY <1>5, <1>3 DEF QuietAfterStop, SchedulerTypeOK
  <2> QED BY <1>1, <1>2, <1>3, <1>4, <1>5, <2>1, <2>2
<1>6. CASE /\ life = "on" /\ x \notin queued \cup active
           /\ queue' = Append(queue, x) /\ queued' = queued \cup {x}
  <2>1. /\ queue \in Seq(Ids) /\ x \notin ToSet(queue) /\ IsFiniteSet(ToSet(queue))
        /\ Len(queue) = Cardinality(ToSet(queue)) /\ \A i, j \in 1..Len(queue) : queue[i] = queue[j] => i = j
    BY <1>6 DEF SchedulerTypeOK
  <2> HIDE DEF SchedulerInv
  <2>2. /\ queue' \in Seq(Ids) /\ ToSet(queue') = queued' /\ IsFiniteSet(queued')
        /\ Len(queue') = Cardinality(queued')
        /\ \A i, j \in 1..Len(queue') : queue'[i] = queue'[j] => i = j
    <3> DEFINE t == Append(queue, x)
    <3>1. /\ t \in Seq(Ids) /\ ToSet(t) = ToSet(queue) \cup {x} /\ IsFiniteSet(ToSet(t))
          /\ Len(t) = Cardinality(ToSet(t)) /\ \A i, j \in 1..Len(t) : t[i] = t[j] => i = j
      BY <2>1, AppendId
    <3>2. queue' = t
      BY <1>6
    <3>3. queued' = ToSet(t)
      BY <1>6, <3>1 DEF SchedulerInv
    <3> HIDE DEF t
    <3> QED BY <3>1, <3>2, <3>3
  <2> USE DEF SchedulerInv
  <2>3. SchedulerTypeOK'
    BY <1>6, <2>2 DEF SchedulerTypeOK
  <2>4. QuietAfterStop'
    BY <1>6 DEF QuietAfterStop
  <2>5. queued' \cap active' = {}
    BY <1>6
  <2> QED BY <1>1, <1>2, <1>3, <1>4, <2>2, <2>3, <2>4, <2>5
<1> QED BY <1>5, <1>6 DEF PutId

(* A worker takes the front of the queue, which nobody drives yet.         *)
LEMMA TakeKeeps ==
  ASSUME SchedulerInv, NEW w \in Workers, Take(w)
  PROVE SchedulerInv'
<1> USE SchedulerAssumption DEF SchedulerInv
<1> DEFINE x == Head(queue)
<1>1. /\ queue \in Seq(Ids) /\ queue # <<>> /\ IsFiniteSet(ToSet(queue))
      /\ Len(queue) = Cardinality(ToSet(queue)) /\ \A i, j \in 1..Len(queue) : queue[i] = queue[j] => i = j
  BY DEF SchedulerTypeOK, Take
<1>2. /\ x \in queued /\ x \in Ids /\ queue' \in Seq(Ids) /\ ToSet(queue') = queued'
      /\ IsFiniteSet(queued') /\ Len(queue') = Cardinality(queued')
      /\ \A i, j \in 1..Len(queue') : queue'[i] = queue'[j] => i = j
  <2> HIDE DEF SchedulerInv
  <2>1. queue' = Tail(queue) /\ queued' = queued \ {x} /\ queued = ToSet(queue)
    BY DEF Take, SchedulerInv
  <2> DEFINE t == Tail(queue)
  <2>2. /\ x \in ToSet(queue) /\ x \in Ids /\ t \in Seq(Ids) /\ ToSet(t) = ToSet(queue) \ {x}
        /\ IsFiniteSet(ToSet(t)) /\ Len(t) = Cardinality(ToSet(t))
        /\ \A i, j \in 1..Len(t) : t[i] = t[j] => i = j
    BY <1>1, TailId
  <2>3. queued' = ToSet(t) /\ queue' = t
    BY <2>1, <2>2
  <2> HIDE DEF t, x
  <2> QED BY <2>1, <2>2, <2>3
<1>3. /\ work[w] = NoId /\ work' = [work EXCEPT ![w] = x] /\ active' = active \cup {x} /\ x \notin active
      /\ queued' = queued \ {x} /\ life # "off"
      /\ UNCHANGED <<life, dead, delayed, results, waiter>>
  BY <1>2 DEF Take
<1> HIDE DEF x
<1>4. SchedulerTypeOK'
  BY <1>2, <1>3 DEF SchedulerTypeOK
<1>5. NoMissedResult' /\ QuietAfterStop'
  BY <1>3 DEF NoMissedResult, QuietAfterStop
<1>6. \A v \in Workers : work[v] # x
  BY <1>2, <1>3
<1>7. \A u, v \in Workers : work'[u] = work'[v] /\ work'[u] # NoId => u = v
  BY <1>3, <1>6 DEF SchedulerTypeOK
<1>8. active' = {work'[v] : v \in Workers} \ {NoId}
  BY <1>2, <1>3 DEF SchedulerTypeOK
<1>9. queued' \cap active' = {} /\ \A y \in queued' \cup active' : delayed'[y] < MaxDelayed
  BY <1>2, <1>3
<1>10. life' # "on" => \A y \in Ids : delayed'[y] = 0
  BY <1>3
<1> QED BY <1>2, <1>4, <1>5, <1>7, <1>8, <1>9, <1>10

(* A worker lets go of its run, by returning or by raising; nobody else    *)
(* drives the id.                                                          *)
LEMMA LetGo ==
  ASSUME SchedulerInv, NEW w \in Workers, work[w] # NoId
  PROVE LET free == [work EXCEPT ![w] = NoId]
        IN /\ \A u, v \in Workers : free[u] = free[v] /\ free[u] # NoId => u = v
           /\ active \ {work[w]} = {free[v] : v \in Workers} \ {NoId}
           /\ free \in [Workers -> Ids \cup {NoId}] /\ work[w] \in active
<1> USE DEF SchedulerInv
<1> DEFINE free == [work EXCEPT ![w] = NoId]
<1>1. work \in [Workers -> Ids \cup {NoId}]
  BY DEF SchedulerTypeOK
<1>2. free \in [Workers -> Ids \cup {NoId}] /\ free[w] = NoId /\ \A v \in Workers \ {w} : free[v] = work[v]
  BY <1>1
<1> HIDE DEF free
<1>3. \A u, v \in Workers : free[u] = free[v] /\ free[u] # NoId => u = v
  BY <1>2
<1>4. active \ {work[w]} = {free[v] : v \in Workers} \ {NoId}
  <2>1. \A v \in Workers \ {w} : work[v] # work[w]
    OBVIOUS
  <2> QED BY <1>2, <2>1
<1> QED BY <1>2, <1>3, <1>4 DEF free

(* A run that returns or raises leaves the rest of the scheduler in order. *)
LEMMA WorkerKeeps ==
  ASSUME SchedulerInv, NEW w \in Workers, WorkerStep(w)
  PROVE SchedulerInv'
<1> USE SchedulerAssumption DEF SchedulerInv
<1> DEFINE x == work[w]
<1>1. /\ x # NoId /\ active' = active \ {x} /\ work' = [work EXCEPT ![w] = NoId]
      /\ UNCHANGED <<life, queue, queued>>
      /\ dead' = dead \/ dead' = dead \cup {w}
  BY DEF WorkerStep, Raise, Finish
<1>2. x \in active /\ x \in Ids
  BY <1>1, LetGo DEF SchedulerTypeOK
<1>3. /\ \A u, v \in Workers : work'[u] = work'[v] /\ work'[u] # NoId => u = v
      /\ active' = {work'[v] : v \in Workers} \ {NoId}
      /\ work' \in [Workers -> Ids \cup {NoId}]
  BY <1>1, LetGo
<1>4. /\ delayed' \in [Ids -> 0..MaxDelayed] /\ \A y \in Ids \ {x} : delayed'[y] = delayed[y]
      /\ life # "on" => delayed' = delayed
      /\ results' \in [Ids -> Results] /\ waiter' \in [Ids -> WaiterStatus]
      /\ \A y \in Ids : waiter'[y] = "waiting" => waiter[y] = "waiting"
      /\ \A y \in Ids : results'[y] = "parked" => results[y] = "parked" \/ waiter'[y] # "waiting"
  <2>1. CASE Raise(w)
    BY <2>1 DEF Raise, SchedulerTypeOK
  <2>2. ASSUME NEW s \in Outcomes, Finish(w, s) PROVE <1>4!:
    BY <1>2, <2>2 DEF Finish, SchedulerTypeOK, Results, Outcomes, WaiterStatus
  <2> QED BY <2>1, <2>2 DEF WorkerStep
<1> HIDE DEF x
<1>5. SchedulerTypeOK'
  BY <1>1, <1>3, <1>4 DEF SchedulerTypeOK
<1>6. NoMissedResult'
  BY <1>4 DEF NoMissedResult
<1>7. QuietAfterStop'
  BY <1>1, <1>2 DEF QuietAfterStop
<1>8. queued' \cap active' = {} /\ \A y \in queued' \cup active' : delayed'[y] < MaxDelayed
  BY <1>1, <1>2, <1>4 DEF SchedulerTypeOK
<1>9. life' # "on" => \A y \in Ids : delayed'[y] = 0
  BY <1>1, <1>4
<1> QED BY <1>1, <1>3, <1>5, <1>6, <1>7, <1>8, <1>9

(* Starting, stopping and waiting.                                         *)
LEMMA LifeKeeps ==
  ASSUME SchedulerInv, StartUp \/ BeginStop \/ EndStop \/ (\E x \in Ids : Wait(x))
  PROVE SchedulerInv'
<1> USE SchedulerAssumption
<1>1. CASE StartUp
  BY <1>1 DEF StartUp, SchedulerInv, SchedulerTypeOK, NoMissedResult, QuietAfterStop
<1>2. CASE BeginStop
  <2>1. /\ life' = "stopping" /\ delayed' = [x \in Ids |-> 0]
        /\ UNCHANGED <<queue, queued, active, work, dead, results, waiter>>
    BY <1>2 DEF BeginStop
  <2>2. SchedulerTypeOK' /\ NoMissedResult' /\ QuietAfterStop'
    BY <2>1 DEF SchedulerInv, SchedulerTypeOK, NoMissedResult, QuietAfterStop
  <2>3. (\A x \in queued' \cup active' : delayed'[x] < MaxDelayed) /\ \A x \in Ids : delayed'[x] = 0
    BY <2>1 DEF SchedulerInv, SchedulerTypeOK
  <2> QED BY <2>1, <2>2, <2>3 DEF SchedulerInv
<1>3. CASE EndStop
  <2>1. /\ life = "stopping" /\ life' = "off" /\ queue' = <<>> /\ queued' = {} /\ active' = {}
        /\ work' = [w \in Workers |-> NoId] /\ dead' = Workers
        /\ waiter' = [x \in Ids |-> IF waiter[x] = "waiting" THEN "cancelled" ELSE waiter[x]]
        /\ UNCHANGED <<delayed, results>>
    BY <1>3 DEF EndStop
  <2>2. SchedulerTypeOK'
    BY <2>1 DEF SchedulerInv, SchedulerTypeOK, WaiterStatus
  <2>3. NoMissedResult' /\ QuietAfterStop'
    BY <2>1 DEF SchedulerInv, NoMissedResult, QuietAfterStop
  <2>4. active' = {work'[w] : w \in Workers} \ {NoId}
    BY <2>1
  <2>5. ToSet(queue') = {} /\ Len(queue') = 0
    BY <2>1 DEF ToSet
  <2>6. IsFiniteSet({}) /\ Cardinality({}) = 0
    BY FS_EmptySet
  <2> QED BY <2>1, <2>2, <2>3, <2>4, <2>5, <2>6 DEF SchedulerInv
<1>4. CASE \E x \in Ids : Wait(x)
  <2>1. PICK x \in Ids : Wait(x)
    BY <1>4
  <2>2. /\ life = "on" /\ UNCHANGED <<life, queue, queued, active, work, dead, delayed, results>>
        /\ waiter' = [waiter EXCEPT ![x] = IF results[x] = "parked" THEN "answered" ELSE "waiting"]
    BY <2>1 DEF Wait
  <2>3. SchedulerTypeOK' /\ NoMissedResult' /\ QuietAfterStop'
    BY <2>2 DEF SchedulerInv, SchedulerTypeOK, NoMissedResult, QuietAfterStop, WaiterStatus
  <2> QED BY <2>2, <2>3 DEF SchedulerInv
<1> QED BY <1>1, <1>2, <1>3, <1>4

(* Every step of the scheduler, its workers, its sleeping resumes and its  *)
(* callers keeps the invariant.                                            *)
LEMMA SchedulerStepKeeps ==
  ASSUME SchedulerInv, [SchedulerNext]_schedulerVars
  PROVE SchedulerInv'
<1> USE SchedulerAssumption
<1>1. CASE StartUp \/ BeginStop \/ EndStop \/ (\E x \in Ids : Wait(x))
  BY <1>1, LifeKeeps
<1>2. ASSUME NEW x \in Ids, Enqueue(x) PROVE SchedulerInv'
  <2>1. /\ PutId(x, results[x]) /\ UNCHANGED <<life, active, work, dead, delayed, results, waiter>>
        /\ delayed[x] < MaxDelayed
    BY <1>2 DEF Enqueue
  <2>2. delayed \in [Ids -> 0..MaxDelayed] /\ results \in [Ids -> Results]
    BY DEF SchedulerInv, SchedulerTypeOK
  <2> QED BY <2>1, <2>2, PutKeeps
<1>3. ASSUME NEW x \in Ids, Resume(x) PROVE SchedulerInv'
  <2>1. /\ PutId(x, "none") /\ UNCHANGED <<life, active, work, dead, delayed, waiter>>
        /\ delayed[x] < MaxDelayed /\ results' = [results EXCEPT ![x] = "none"]
    BY <1>3 DEF Resume
  <2>2. delayed \in [Ids -> 0..MaxDelayed] /\ results \in [Ids -> Results]
    BY DEF SchedulerInv, SchedulerTypeOK
  <2>3. results' \in [Ids -> Results] /\ \A y \in Ids : results'[y] = results[y] \/ results'[y] = "none"
    BY <2>1, <2>2 DEF Results
  <2> QED BY <2>1, <2>2, <2>3, PutKeeps
<1>4. ASSUME NEW x \in Ids, Wake(x) PROVE SchedulerInv'
  <2>1. /\ PutId(x, results[x]) /\ UNCHANGED <<life, active, work, dead, results, waiter>>
        /\ delayed[x] > 0 /\ delayed' = [delayed EXCEPT ![x] = @ - 1]
    BY <1>4 DEF Wake
  <2>2. delayed \in [Ids -> 0..MaxDelayed] /\ results \in [Ids -> Results]
    BY DEF SchedulerInv, SchedulerTypeOK
  <2>3. /\ delayed' \in [Ids -> 0..MaxDelayed] /\ delayed'[x] < MaxDelayed
        /\ \A y \in Ids : delayed'[y] <= delayed[y]
    BY <2>1, <2>2
  <2> QED BY <2>1, <2>2, <2>3, PutKeeps
<1>5. ASSUME NEW w \in Workers, Take(w) \/ WorkerStep(w) PROVE SchedulerInv'
  BY <1>5, TakeKeeps, WorkerKeeps
<1>6. CASE UNCHANGED schedulerVars
  BY <1>6 DEF schedulerVars, SchedulerInv, SchedulerTypeOK, NoMissedResult, QuietAfterStop
<1> QED BY <1>1, <1>2, <1>3, <1>4, <1>5, <1>6 DEF SchedulerNext

(* A scheduler that was never started holds nothing.                       *)
LEMMA SchedulerInitHolds == SchedulerInit => SchedulerInv
<1> SUFFICES ASSUME SchedulerInit PROVE SchedulerInv
  OBVIOUS
<1> USE SchedulerAssumption DEF SchedulerInit
<1>1. SchedulerTypeOK
  BY DEF SchedulerTypeOK, Results, WaiterStatus
<1>2. NoMissedResult /\ QuietAfterStop
  BY DEF NoMissedResult, QuietAfterStop
<1>3. ToSet(queue) = {} /\ Len(queue) = 0
  BY DEF ToSet
<1>4. IsFiniteSet({}) /\ Cardinality({}) = 0
  BY FS_EmptySet
<1>5. active = {work[w] : w \in Workers} \ {NoId}
  OBVIOUS
<1> QED BY <1>1, <1>2, <1>3, <1>4, <1>5 DEF SchedulerInv

(* For any number of ids and workers, however enqueue, resume, wait, the   *)
(* sleeping resumes, raising runs and stop interleave: an execution is     *)
(* driven by one worker at most and never queued meanwhile or twice, no    *)
(* waiter misses a known result, and a stopped scheduler holds nothing.    *)
THEOREM SchedulerSafeHolds == SchedulerSpec => []SchedulerSafe
<1>1. SchedulerInv => SchedulerSafe
  BY DEF SchedulerInv, SchedulerSafe, OneRunner
<1> QED BY <1>1, SchedulerInitHolds, SchedulerStepKeeps, PTL DEF SchedulerSpec

-----------------------------------------------------------------------------
(* All of them together, as the run checks them: each keeps its invariant  *)
(* while another one moves.                                                *)
AllInv == TurnInv /\ RpcInv /\ PanelInv /\ SchedulerInv

(* A step of the composition is a step or a stutter of each component.     *)
LEMMA ProtocolsStepKeeps ==
  ASSUME AllInv, [ProtocolsNext]_protocolVars
  PROVE AllInv'
<1>1. [TurnNext]_turnVars
  BY DEF ProtocolsNext, Queue, Scheduler, Turn, Rpc, Panel, protocolVars
<1>2. [RpcNext]_rpcVars
  BY DEF ProtocolsNext, Queue, Scheduler, Turn, Rpc, Panel, protocolVars
<1>3. [PanelNext]_panelVars
  BY DEF ProtocolsNext, Queue, Scheduler, Turn, Rpc, Panel, protocolVars
<1>4. [SchedulerNext]_schedulerVars
  BY DEF ProtocolsNext, Queue, Scheduler, Turn, Rpc, Panel, protocolVars
<1> QED BY <1>1, <1>2, <1>3, <1>4, TurnStepKeeps, RpcStepKeeps, PanelStepKeeps, SchedulerStepKeeps DEF AllInv

(* All of them start in order.                                             *)
LEMMA ProtocolsInitHolds == ProtocolsInit => AllInv
<1>1. TurnInit => TurnInv
  BY DEF TurnInit, TurnInv, HandoffAtomic
<1> QED BY <1>1, RpcInitHolds, PanelInitHolds, SchedulerInitHolds DEF ProtocolsInit, AllInv

(* What is answered is answered by the one who was asked: the composition  *)
(* keeps RPC answers with their calls and a handed over turn with its      *)
(* Action Run.                                                             *)
THEOREM AnswersSafeHolds == ProtocolsSpec => []AnswersSafe
<1>1. AllInv => AnswersSafe
  BY DEF AllInv, AnswersSafe, TurnInv, RpcInv
<1> QED BY <1>1, ProtocolsInitHolds, ProtocolsStepKeeps, PTL DEF ProtocolsSpec

=============================================================================

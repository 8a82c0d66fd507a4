-------------------------- MODULE ActionRunProofs --------------------------
(***************************************************************************)
(* Proofs about Action Runs.                                               *)
(*                                                                         *)
(* Their life: for every number of executions, grants and candidates,      *)
(* every budget and every combination of disturbances.                     *)
(*                                                                         *)
(* The model calls of a run (DeliberationInv), for any roles, rounds and   *)
(* budgets and any number of pauses.  What counts them is scattered: a     *)
(* number in memory, the stored plans, the rows of the branches.  While    *)
(* branches are out (RoundKept), what they may still use is within the     *)
(* budget, and the rows that are not of this round are counted already.    *)
(*                                                                         *)
(* The context of a run (ContextInv), for any meeting: what Build does     *)
(* with one item after the other is a loop, and each turn keeps the bounds.*)
(***************************************************************************)
EXTENDS ActionRun, ActionPlanning, Loops

\* What is proved of the external-write path alone.
XP == INSTANCE ToolExecutorProofs

-----------------------------------------------------------------------------
(* What the coroutine of an execution may look like.                       *)

PCs == {"off", "check", "head", "plan", "fresh", "reads", "walk", "tool", "await",
        "resume", "reconcile", "probe", "resolved", "read_only", "isolate", "fail"}

RunStates ==
  [pc : PCs, walk : Seq(Statuses),
   next : {"off", "return", "head", "reads", "reconcile", "read_only"},
   todo : SUBSET Keys, seen : SUBSET {"settled", "unknown", "pending"},
   pend : SUBSET Keys, cur : Keys \cup {NoKey}, tries : 0..MaxTries]

\* A walk leads somewhere, an attempt has its key, and before an attempt one is left.
Shaped(r) ==
  /\ r.pc = "walk" => r.walk # <<>> /\ r.next \in {"return", "head", "reads", "reconcile"}
  /\ r.pc = "probe" => r.cur \in Keys /\ r.next \in {"reconcile", "read_only"}
  /\ r.pc \in {"reconcile", "read_only"} \/ (r.pc = "walk" /\ r.next = "reconcile") =>
       r.tries < MaxTries

\* The rows and coroutines of this module have their types.
RowTypes ==
  /\ status \in [Execs -> Statuses]
  /\ rounds \in [Execs -> 0..MaxRounds]
  /\ auth \subseteq Execs /\ host \in BOOLEAN
  /\ stale \in [Execs -> SUBSET Keys]
  /\ appr \in [Execs -> Keys \cup {NoKey}]
  /\ ops \in [Execs -> [OpKinds -> {"closed", "accepted", "running"}]]
  /\ run \in [Execs -> RunStates]
  /\ sched \in [Execs -> {"none", "queued", "active", "recovering"}]
  /\ delayed \subseteq Execs /\ parked \subseteq Execs
  /\ up \in {"up", "down", "recovering"} /\ nudges \in 0..MaxNudges

\* A claim that was made has its ToolCall.
ClaimRows ==
  /\ grantOf \in [Execs -> Grants \cup {NoGrant}]
  /\ claim \in [Keys -> X!ClaimStatus]
  /\ holder \in [Keys -> Grants \cup {NoGrant}]
  /\ \A k \in Keys : claim[k] # "none" => holder[k] \in Grants

RowsInv ==
  /\ RowTypes /\ ClaimRows
  /\ \A e \in Execs :
       /\ Shaped(run[e])
       /\ run[e].pc = "plan" => rounds[e] < MaxRounds
       /\ run[e].pc = "probe" => claim[run[e].cur] # "none"

-----------------------------------------------------------------------------
(* What the status of an execution says about its coroutine.               *)

\* Every status of the walk may follow the one before, and the last one is the status
\* the runner expects where it goes on.
WalkFits(s, w, next) ==
  /\ w[1] \in Transitions[s]
  /\ \A i \in 1..(Len(w) - 1) : w[i + 1] \in Transitions[w[i]]
  /\ LET last == w[Len(w)]
     IN CASE next = "return" -> last \in Parked
          [] next = "head" -> last = "planning"
          [] next = "reads" -> last = "executing"
          [] next = "reconcile" -> last = "reconciling"

\* The read-only pass of reconcile_read_only.
InPass(r) == r.pc = "read_only" \/ (r.pc = "probe" /\ r.next = "read_only")

\* A status the user did not make terminal is the one the code at this point expects.
StatusFits(s, r) ==
  /\ s = "none" => r.pc = "off"
  /\ s \notin Terminal =>
       /\ r.pc \in {"plan", "fresh"} => s = "planning"
       /\ r.pc \in {"reads", "tool", "await"} => s = "executing"
       /\ r.pc = "head" => s \in {"queued", "planning", "observing"}
       /\ r.pc = "check" => s # "executing"
       /\ r.pc = "resume" => s \in {"waiting_external", "reconciling"}
       /\ r.pc \in {"reconcile", "resolved"} => s = "reconciling"
       /\ r.pc = "probe" /\ r.next = "reconcile" => s = "reconciling"
       /\ r.pc = "walk" => WalkFits(s, r.walk, r.next)
       /\ InPass(r) => s \in {"needs_input", "planning"}

\* Where the scheduler has the execution.
PlaceFits(e) ==
  /\ run[e].pc # "off" => sched[e] \in {"active", "recovering"}
  /\ sched[e] = "recovering" =>
       up = "recovering" /\ (run[e].pc \in {"off", "isolate"} \/ InPass(run[e]))
  /\ sched[e] # "none" => e \notin parked
  /\ sched[e] = "queued" => status[e] \notin {"none", "executing"}
  /\ run[e].pc = "off" /\ status[e] = "executing" => up = "down" \/ sched[e] = "recovering"
  /\ up = "down" => run[e].pc = "off" /\ sched[e] = "none" /\ e \notin delayed \cup parked
  /\ status[e] = "none" =>
       /\ sched[e] = "none" /\ e \notin delayed \cup parked /\ appr[e] = NoKey
       /\ \A kind \in OpKinds : ops[e][kind] = "closed"

\* An input was given, or an approval not yet acted on.
Reopened(e) == ops[e]["input"] \in {"accepted", "running"} \/ ApprovedUnused(e)

\* Who will advance an active execution, and why its status is active.
DrivenFits(e) ==
  status[e] \in Active =>
    /\ e \in parked => ops[e]["input"] \in {"accepted", "running"}
    /\ InPass(run[e]) => up = "up" /\ Reopened(e)
    /\ up # "down" => Scheduled(e) \/ Reopened(e)

\* A ToolCall in requesting has its coroutine, or its execution waits for recovery.
CallsFit(e) ==
  \A g \in Grants, k \in Keys : GrantExec[g] = e /\ call[g][k] = "requesting" =>
    IF step[g][k] \in X!ExecuteSteps THEN run[e].pc = "await"
    ELSE \/ status[e] \in Terminal
         \/ status[e] = "executing" /\ (up = "down" \/ sched[e] = "recovering")

-----------------------------------------------------------------------------
(* The local states the runner assigns.                                    *)

\* A fresh local state has its type; only where it is differs from Off.
LEMMA AtState ==
  ASSUME NEW p \in PCs
  PROVE  /\ At(p) \in RunStates /\ At(p).pc = p /\ At(p).next = "off"
         /\ At(p).cur = NoKey /\ At(p).tries = 0 /\ At(p).pend = {} /\ At(p).walk = <<>>
BY ActionRunAssumption DEF At, RunStates

\* A walk that begins.
LEMMA WalkingState ==
  ASSUME NEW w \in Seq(Statuses), NEW n \in {"return", "head", "reads", "reconcile"},
         NEW q, q = Walking(w, n)
  PROVE  q \in RunStates /\ q.pc = "walk" /\ q.walk = w /\ q.next = n /\ q.tries = 0
<1>1. PICK r : r = At("walk")
  OBVIOUS
<1>2. r \in RunStates /\ r.pc = "walk" /\ r.tries = 0
  BY <1>1, AtState DEF PCs
<1>3. q = [r EXCEPT !.walk = w, !.next = n]
  BY <1>1 DEF Walking
<1>4. n \in {"off", "return", "head", "reads", "reconcile", "read_only"}
  OBVIOUS
<1> QED
  BY <1>2, <1>3, <1>4 DEF RunStates

-----------------------------------------------------------------------------
(* The external-write path, inside a run.                                  *)

\* Every step of the runner is a step of the external-write path or leaves it alone.
LEMMA RunnerRefines ==
  ASSUME RowsInv, NEW e \in Execs, RunnerStep(e)
  PROVE  X!Next \/ UNCHANGED execVars
<1>1. \/ UNCHANGED execVars
      \/ (\E k \in Keys : ToolRequest(e, k)) \/ ToolAwaits(e) \/ InterruptCalls(e) \/ Probe(e)
      \/ (\E k \in Keys : Attempt(e, k))
  BY Zenon DEF RunnerStep, Denied, Check, LoopHead, PlanRaises, PlanExhausted, PlanDecides,
     PlanInvokes, PlanUnauthorized, Freshness, Walk, ReadsDone, ToolDenied, ToolStored,
     ToolUnauthorized, BatchEnds, ReconcileEnds, Fail, ResumeExternal, Isolate
<1>2. ASSUME NEW k \in Keys, ToolRequest(e, k) PROVE X!Next
  BY <1>2, Zenon DEF ToolRequest, X!Next
<1>3. CASE ToolAwaits(e)
  <2>1. PICK g \in Grants, k \in Keys :
          \/ X!SearchMiss(g, k) \/ X!SendCreate(g, k)
          \/ X!ReturnsRefused(g, k) \/ X!ReturnsReused(g, k) \/ X!ReturnsCreated(g, k)
          \/ X!ReturnsUnknown(g, k)
    BY <1>3, Zenon DEF ToolAwaits
  <2>2. X!ExecuteStep(g, k)
    BY <2>1, Zenon DEF X!ExecuteStep
  <2> QED
    BY <2>2, Zenon DEF X!Next
<1>4. CASE InterruptCalls(e)
  BY <1>4, Zenon DEF InterruptCalls, X!Next
<1>5. CASE Probe(e)
  <2>1. PICK k \in Keys, g \in Grants : X!ReconcileFound(g, k) \/ X!ReconcileUnknown(g, k)
    <3>1. run[e].pc = "probe"
      BY <1>5 DEF Probe
    <3>2. run[e].cur \in Keys /\ holder[run[e].cur] \in Grants
      BY <3>1 DEF RowsInv, Shaped, ClaimRows
    <3> QED
      BY <1>5, <3>2, Zenon DEF Probe
  <2>2. X!ReconcileStep(g, k)
    BY <2>1, Zenon DEF X!ReconcileStep
  <2> QED
    BY <2>2, Zenon DEF X!Next
<1>6. ASSUME NEW k \in Keys, Attempt(e, k) PROVE X!Next
  <2>1. X!BeginReconcile(holder[k], k)
    BY <1>6, Zenon DEF Attempt
  <2>2. holder[k] \in Grants
    BY <2>1 DEF X!BeginReconcile, RowsInv, ClaimRows
  <2>3. X!ReconcileStep(holder[k], k)
    BY <2>1, Zenon DEF X!ReconcileStep
  <2> QED
    BY <2>2, <2>3, Zenon DEF X!Next
<1> QED
  BY <1>1, <1>2, <1>3, <1>4, <1>5, <1>6

\* And so is every other step of a run.
LEMMA StepRefines ==
  ASSUME RowsInv, [Next]_vars
  PROVE  [X!Next]_execVars
<1>1. ASSUME NEW e \in Execs, RunnerStep(e) PROVE X!Next \/ UNCHANGED execVars
  BY <1>1, RunnerRefines
<1>2. \/ UNCHANGED execVars
      \/ \E e \in Execs : RunnerStep(e) \/ Admit(e) \/ (\E g \in Grants : Approve(e, g))
      \/ (\E g \in Grants : Expire(g)) \/ Crash \/ Recover \/ World
  BY Zenon DEF Next, vars, Start, ResumeLater, UserStep, WorkerStep, RecoverNext, Revoke, Revise,
     HostDown, HostUp, PollIdle, Serve, Input, Cancel, Reject, Dispatch, DispatchDenied
<1>3. ASSUME NEW e \in Execs, Admit(e) PROVE X!Next
  <2>1. X!IssueGrant(e, AdmitGrant[e], Scope[e])
    BY <1>3, Zenon DEF Admit
  <2>2. AdmitGrant[e] \in Grants /\ Scope[e] \in SUBSET Keys
    BY ActionRunAssumption
  <2> QED
    BY <2>1, <2>2, Zenon DEF X!Next
<1>4. ASSUME NEW e \in Execs, NEW g \in Grants, Approve(e, g) PROVE X!Next
  <2>1. X!IssueGrant(e, g, {appr[e]}) /\ appr[e] # NoKey
    BY <1>4, Zenon DEF Approve
  <2>2. {appr[e]} \in SUBSET Keys
    BY <2>1 DEF RowsInv, RowTypes
  <2> QED
    BY <2>1, <2>2, Zenon DEF X!Next
<1>5. ASSUME NEW g \in Grants, Expire(g) PROVE X!Next
  BY <1>5, Zenon DEF Expire, X!Next
<1>6. CASE Crash
  BY <1>6, Zenon DEF Crash, X!Next
<1>7. CASE Recover
  <2>1. ASSUME NEW E, X!Recover(E \cap Execs) PROVE X!Next
    <3>1. E \cap Execs \in SUBSET Execs
      OBVIOUS
    <3> QED
      BY <2>1, <3>1, Zenon DEF X!Next
  <2> DEFINE again == {e \in {f \in Execs : status[f] \in Active} :
                         Fenced(e) /\ status[e] \in {"queued", "waiting_external", "reconciling"}}
  <2>2. again = again \cap Execs
    OBVIOUS
  <2>3. X!Recover(again) \/ UNCHANGED execVars
    BY <1>7, Zenon DEF Recover
  <2> QED
    BY <2>1, <2>2, <2>3
<1>8. CASE World
  BY <1>8, Zenon DEF World, X!Next
<1> QED
  BY <1>1, <1>2, <1>3, <1>4, <1>5, <1>6, <1>7, <1>8

\* A claim, once made, is not unmade, and keeps a ToolCall.
LEMMA ClaimsKept ==
  ASSUME ClaimRows, [X!Next]_execVars
  PROVE  ClaimRows' /\ \A k \in Keys : claim[k] # "none" => claim'[k] # "none"
<1> USE DEF ClaimRows, X!ClaimStatus
<1>1. CASE UNCHANGED execVars
  BY <1>1 DEF execVars
<1>2. ASSUME NEW e \in Execs, NEW g \in Grants, NEW C \in SUBSET Keys, X!IssueGrant(e, g, C)
      PROVE  ClaimRows' /\ claim' = claim
  BY <1>2 DEF X!IssueGrant
<1>3. ASSUME NEW e \in Execs, NEW k \in Keys, X!Request(e, k)
      PROVE  ClaimRows' /\ \A l \in Keys : claim[l] # "none" => claim'[l] # "none"
  <2>1. grantOf[e] \in Grants
    BY <1>3 DEF X!Request, X!Authorized
  <2>2. /\ grantOf' = grantOf
        /\ claim' = [claim EXCEPT ![k] = "requesting"]
        /\ holder' = [holder EXCEPT ![k] = grantOf[e]]
    BY <1>3 DEF X!Request
  <2> QED
    BY <2>1, <2>2
<1>4. ASSUME NEW g \in Grants, NEW k \in Keys, NEW was, NEW to,
             NEW c \in {"unknown", "succeeded", "failed_safe"}, X!PersistCall(g, k, was, to, c)
      PROVE  ClaimRows' /\ \A l \in Keys : claim[l] # "none" => claim'[l] # "none"
  <2>1. holder[k] = g /\ holder' = holder /\ grantOf' = grantOf
        /\ claim' = [claim EXCEPT ![k] = c]
    BY <1>4 DEF X!PersistCall
  <2> QED
    BY <2>1
<1>5. ASSUME NEW g \in Grants, NEW k \in Keys, X!ExecuteStep(g, k) \/ X!ReconcileStep(g, k)
      PROVE  ClaimRows' /\ \A l \in Keys : claim[l] # "none" => claim'[l] # "none"
  <2>1. \/ UNCHANGED <<grantOf, claim, holder>>
        \/ \E was, to : \E c \in {"unknown", "succeeded", "failed_safe"} :
             X!PersistCall(g, k, was, to, c)
    BY <1>5, Zenon DEF X!ExecuteStep, X!ReconcileStep, X!SearchMiss, X!SendCreate,
       X!ReturnsRefused, X!ReturnsReused, X!ReturnsFree, X!ReturnsCreated, X!ReturnsUnknown,
       X!BeginReconcile, X!ReconcileFound, X!ReconcileUnknown, X!grantVars
  <2> QED
    BY <1>4, <2>1
<1>6. ASSUME \/ \E e \in Execs : X!Interrupt(e)
             \/ \E E \in SUBSET Execs : X!Recover(E)
             \/ \E g \in Grants, k \in Keys : X!Apply(g, k) \/ X!Lose(g, k)
             \/ \E g \in Grants : X!Expire(g)
             \/ X!Crash
      PROVE  UNCHANGED <<grantOf, claim, holder>>
  BY <1>6, Zenon DEF X!Interrupt, X!Recover, X!Apply, X!Lose, X!Expire, X!Crash, X!grantVars
<1> QED
  BY <1>1, <1>2, <1>3, <1>5, <1>6 DEF X!Next

-----------------------------------------------------------------------------
(* What one step of a runner does to its own execution.                    *)

LocalInv == RowsInv /\ \A e \in Execs : StatusFits(status[e], run[e]) /\ PlaceFits(e)

\* A change of the status the state machine accepts, or the isolation of a denied run.
LegalStep(e, s) ==
  \/ s = status[e]
  \/ s \in Transitions[status[e]]
  \/ run[e].pc = "isolate" /\ status[e] \notin Parked /\ s = "needs_input"

\* The coroutine goes on with the status s and the local state q.
MovedTo(e, s, q) ==
  /\ status' = [status EXCEPT ![e] = s] /\ run' = [run EXCEPT ![e] = q]
  /\ s \in Statuses \ {"none"} /\ q \in RunStates
  /\ Shaped(q) /\ StatusFits(s, q) /\ LegalStep(e, s)
  /\ run[e].pc # "off" /\ q.pc # "off"
  /\ run[e].pc = "isolate" \/ InPass(run[e]) => InPass(q)
  /\ InPass(q) => s \in Parked \/ (s = status[e] /\ InPass(run[e]))
  /\ q.pc = "plan" => rounds'[e] < MaxRounds
  /\ q.pc = "probe" => claim'[q.cur] # "none"
  /\ UNCHANGED schedVars

\* runner.run returns s to the scheduler or to startup recovery.
ReturnedWith(e, s) ==
  /\ status' = [status EXCEPT ![e] = s] /\ Return(e, s)
  /\ run[e].pc # "off"
  /\ LegalStep(e, s)
  /\ \/ s \in Parked
     \/ s \in {"waiting_external", "reconciling"} /\ run[e].pc # "isolate" /\ ~InPass(run[e])
     \/ s = status[e] /\ InPass(run[e])

Moved(e) == \E s, q : MovedTo(e, s, q)
Returned(e) == \E s : ReturnedWith(e, s)

\* What else a step of a runner may touch.
Aside(e) ==
  /\ rounds' \in [Execs -> 0..MaxRounds]
  /\ appr' \in [Execs -> Keys \cup {NoKey}]
  /\ \A f \in Execs \ {e} : rounds'[f] = rounds[f] /\ appr'[f] = appr[f]
  /\ UNCHANGED <<authVars, ops, up, nudges>>

\* state_machine.ACTION_RUN_TRANSITIONS, one by one.
LEMMA TransitionsAre ==
  /\ Transitions["none"] = {"queued"}
  /\ Transitions["queued"] = {"planning", "failed", "cancelled"}
  /\ Transitions["planning"] = {"queued", "executing", "needs_input", "failed", "cancelled"}
  /\ Transitions["executing"]
       = {"observing", "waiting_external", "reconciling", "failed", "cancelled"}
  /\ Transitions["observing"]
       = {"queued", "planning", "completed", "partial", "failed", "cancelled"}
  /\ Transitions["waiting_external"] = {"observing", "reconciling", "failed", "cancelled"}
  /\ Transitions["reconciling"] = {"observing", "needs_input", "failed", "cancelled"}
  /\ Transitions["needs_input"] = {"planning", "failed", "cancelled"}
  /\ \A s \in Terminal : Transitions[s] = {}
BY DEF Transitions, Terminal

\* A row of another execution stays as it was.
Same(f) ==
  /\ status'[f] = status[f] /\ run'[f] = run[f] /\ rounds'[f] = rounds[f]
  /\ appr'[f] = appr[f] /\ sched'[f] = sched[f] /\ up' = up
  /\ f \in delayed' <=> f \in delayed
  /\ f \in parked' <=> f \in parked
  /\ \A kind \in OpKinds :
       \/ ops'[f][kind] = ops[f][kind]
       \/ status[f] \in Parked /\ ops[f][kind] = "running" /\ ops'[f][kind] = "closed"

\* What the rows and the coroutine of one execution have to satisfy.
LocalFits(e) ==
  /\ Shaped(run[e])
  /\ run[e].pc = "plan" => rounds[e] < MaxRounds
  /\ run[e].pc = "probe" => claim[run[e].cur] # "none"
  /\ StatusFits(status[e], run[e]) /\ PlaceFits(e)

ClaimsGrow == \A k \in Keys : claim[k] # "none" => claim'[k] # "none"

\* The local invariant, execution by execution.
LEMMA LocalParts == LocalInv <=> RowTypes /\ ClaimRows /\ \A e \in Execs : LocalFits(e)
BY DEF LocalInv, RowsInv, LocalFits

\* An execution that is left alone stays in order.
LEMMA SameFits ==
  ASSUME NEW f \in Execs, LocalFits(f), Same(f), ClaimsGrow
  PROVE  LocalFits(f)'
<1>1. /\ Shaped(run'[f])
      /\ run'[f].pc = "plan" => rounds'[f] < MaxRounds
      /\ StatusFits(status'[f], run'[f])
  BY DEF LocalFits, Same
<1>2. run'[f].pc = "probe" => claim'[run'[f].cur] # "none"
  BY DEF LocalFits, Same, ClaimsGrow, Shaped
<1>3. PlaceFits(f)'
  <2> USE DEF PlaceFits, Same
  <2>1. /\ run'[f].pc # "off" => sched'[f] \in {"active", "recovering"}
        /\ sched'[f] = "recovering" =>
             up' = "recovering" /\ (run'[f].pc \in {"off", "isolate"} \/ InPass(run'[f]))
        /\ sched'[f] # "none" => f \notin parked'
        /\ sched'[f] = "queued" => status'[f] \notin {"none", "executing"}
        /\ run'[f].pc = "off" /\ status'[f] = "executing" =>
             up' = "down" \/ sched'[f] = "recovering"
        /\ up' = "down" => /\ run'[f].pc = "off" /\ sched'[f] = "none"
                           /\ f \notin delayed' \cup parked'
    BY DEF LocalFits
  <2>2. status'[f] = "none" => sched'[f] = "none" /\ f \notin delayed' \cup parked'
                               /\ appr'[f] = NoKey
    BY DEF LocalFits
  <2>3. status'[f] = "none" => \A kind \in OpKinds : ops'[f][kind] = "closed"
    BY DEF LocalFits, Parked, Terminal
  <2> QED
    BY <2>1, <2>2, <2>3
<1> QED
  BY <1>1, <1>2, <1>3 DEF LocalFits

\* A runner leaves the rows of the other executions alone.
LEMMA RunnerSame ==
  ASSUME LocalInv, NEW e \in Execs, Moved(e) \/ Returned(e), Aside(e), NEW f \in Execs \ {e}
  PROVE  Same(f)
<1>1. RowTypes
  BY LocalParts
<1>2. CASE Moved(e)
  <2>1. PICK s, q : MovedTo(e, s, q)
    BY <1>2 DEF Moved
  <2>2. /\ status' = [status EXCEPT ![e] = s] /\ run' = [run EXCEPT ![e] = q]
        /\ UNCHANGED schedVars
    BY <2>1 DEF MovedTo
  <2>3. status'[f] = status[f] /\ run'[f] = run[f]
    BY <1>1, <2>2 DEF RowTypes
  <2> QED
    BY <2>2, <2>3 DEF Same, Aside, schedVars
<1>3. CASE Returned(e)
  <2>1. PICK s : ReturnedWith(e, s)
    BY <1>3 DEF Returned
  <2>2. /\ status' = [status EXCEPT ![e] = s] /\ run' = [run EXCEPT ![e] = Off]
        /\ sched' = [sched EXCEPT ![e] = "none"]
        /\ delayed' \subseteq delayed \cup {e} /\ parked' \subseteq parked \cup {e}
        /\ delayed \subseteq delayed' /\ parked \ {e} \subseteq parked'
    BY <2>1 DEF ReturnedWith, Return, Goto
  <2>3. status'[f] = status[f] /\ run'[f] = run[f] /\ sched'[f] = sched[f]
    BY <1>1, <2>2 DEF RowTypes
  <2>4. (f \in delayed' <=> f \in delayed) /\ (f \in parked' <=> f \in parked)
    BY <2>2
  <2> QED
    BY <2>3, <2>4 DEF Same, Aside
<1> QED
  BY <1>2, <1>3

\* A runner that moves on keeps its execution in order.
LEMMA MovedFits ==
  ASSUME LocalInv, NEW e \in Execs, Moved(e), Aside(e), ClaimsGrow
  PROVE  RowTypes' /\ \A f \in Execs : LocalFits(f)'
<1>1. PICK s, q : MovedTo(e, s, q)
  BY DEF Moved
<1>2. RowTypes /\ LocalFits(e)
  BY LocalParts
<1>3. /\ status' = [status EXCEPT ![e] = s] /\ run' = [run EXCEPT ![e] = q]
      /\ s \in Statuses /\ q \in RunStates /\ UNCHANGED schedVars
  BY <1>1 DEF MovedTo
<1>4. status'[e] = s /\ run'[e] = q
      /\ \A f \in Execs \ {e} : status'[f] = status[f] /\ run'[f] = run[f]
  BY <1>2, <1>3 DEF RowTypes
<1>5. RowTypes'
  <2>1. status' \in [Execs -> Statuses] /\ run' \in [Execs -> RunStates]
    BY <1>2, <1>3 DEF RowTypes
  <2> QED
    BY <1>2, <1>3, <2>1, Zenon DEF RowTypes, Aside, authVars, schedVars
<1>6. ASSUME NEW f \in Execs \ {e} PROVE LocalFits(f)'
  <2>1. Same(f)
    BY RunnerSame
  <2>2. LocalFits(f)
    BY LocalParts
  <2> QED
    BY <2>1, <2>2, SameFits
<1>7. LocalFits(e)'
  <2>1. /\ Shaped(q) /\ StatusFits(s, q)
        /\ q.pc = "plan" => rounds'[e] < MaxRounds
        /\ q.pc = "probe" => claim'[q.cur] # "none"
    BY <1>1 DEF MovedTo
  <2>2. PlaceFits(e)'
    BY <1>1, <1>2, <1>3, <1>4 DEF MovedTo, LocalFits, PlaceFits, Aside, schedVars
  <2> QED
    BY <1>4, <2>1, <2>2 DEF LocalFits
<1> QED
  BY <1>5, <1>6, <1>7

\* So does one that returns.
LEMMA ReturnedFits ==
  ASSUME LocalInv, NEW e \in Execs, Returned(e), Aside(e), ClaimsGrow
  PROVE  RowTypes' /\ \A f \in Execs : LocalFits(f)'
<1>1. PICK s : ReturnedWith(e, s)
  BY DEF Returned
<1>2. RowTypes /\ LocalFits(e)
  BY LocalParts
<1>3. s \in Statuses /\ s \notin {"none", "executing"}
  <2>1. CASE s \in Parked \cup {"waiting_external", "reconciling"}
    BY <2>1 DEF Parked, Terminal, Statuses, Active
  <2>2. CASE s = status[e] /\ InPass(run[e])
    BY <1>1, <1>2, <2>2 DEF ReturnedWith, LocalFits, StatusFits, RowTypes, Terminal
  <2> QED
    BY <1>1, <2>1, <2>2 DEF ReturnedWith
<1>4. Off \in RunStates /\ Off.pc = "off"
  BY AtState DEF Off, PCs
<1>5. /\ status' = [status EXCEPT ![e] = s] /\ run' = [run EXCEPT ![e] = Off]
      /\ sched' = [sched EXCEPT ![e] = "none"]
      /\ delayed' \subseteq delayed \cup {e} /\ parked' \subseteq parked \cup {e}
      /\ delayed \subseteq delayed' /\ parked \ {e} \subseteq parked'
  BY <1>1 DEF ReturnedWith, Return, Goto
<1>6. status'[e] = s /\ run'[e] = Off /\ sched'[e] = "none"
      /\ \A f \in Execs \ {e} :
           status'[f] = status[f] /\ run'[f] = run[f] /\ sched'[f] = sched[f]
  BY <1>2, <1>5 DEF RowTypes
<1>7. RowTypes'
  <2>1. status' \in [Execs -> Statuses] /\ run' \in [Execs -> RunStates]
        /\ sched' \in [Execs -> {"none", "queued", "active", "recovering"}]
        /\ delayed' \subseteq Execs /\ parked' \subseteq Execs
    BY <1>2, <1>3, <1>4, <1>5 DEF RowTypes
  <2> QED
    BY <1>2, <2>1, Zenon DEF RowTypes, Aside, authVars
<1>8. ASSUME NEW f \in Execs \ {e} PROVE LocalFits(f)'
  <2>1. Same(f)
    BY RunnerSame
  <2>2. LocalFits(f)
    BY LocalParts
  <2> QED
    BY <2>1, <2>2, SameFits
<1>9. LocalFits(e)'
  <2>1. Shaped(Off) /\ StatusFits(s, Off)
    BY <1>3, <1>4 DEF Shaped, StatusFits, InPass
  <2>2. up' = up /\ up # "down"
    BY <1>1, <1>2 DEF ReturnedWith, LocalFits, PlaceFits, Aside
  <2>3. PlaceFits(e)'
    BY <1>3, <1>4, <1>6, <2>2 DEF PlaceFits
  <2> QED
    BY <1>4, <1>6, <2>1, <2>3 DEF LocalFits
<1> QED
  BY <1>7, <1>8, <1>9

-----------------------------------------------------------------------------
(* The actions of the runner, one after the other.                         *)

\* The walks of _run are walks of the state machine.
LEMMA Paths ==
  /\ WalkFits("queued", <<"planning", "executing", "observing", "partial">>, "return")
  /\ \A s \in {"completed", "partial"} :
       WalkFits("planning", <<"executing", "observing", s>>, "return")
  /\ WalkFits("observing", <<"partial">>, "return")
  /\ WalkFits("planning", <<"needs_input">>, "return")
  /\ WalkFits("reconciling", <<"needs_input">>, "return")
  /\ WalkFits("planning", <<"executing">>, "reads")
  /\ WalkFits("planning", <<"executing", "observing", "planning">>, "head")
  /\ \A s \in {"waiting_external", "reconciling"} :
       WalkFits(s, <<"observing", "planning">>, "head")
  /\ WalkFits("waiting_external", <<"reconciling">>, "reconcile")
<1> USE TransitionsAre DEF WalkFits, Parked, Terminal
<1>1. WalkFits("queued", <<"planning", "executing", "observing", "partial">>, "return")
  OBVIOUS
<1>2. \A s \in {"completed", "partial"} :
       WalkFits("planning", <<"executing", "observing", s>>, "return")
  OBVIOUS
<1>3. /\ WalkFits("observing", <<"partial">>, "return")
      /\ WalkFits("planning", <<"needs_input">>, "return")
      /\ WalkFits("reconciling", <<"needs_input">>, "return")
  OBVIOUS
<1>4. /\ WalkFits("planning", <<"executing">>, "reads")
      /\ WalkFits("planning", <<"executing", "observing", "planning">>, "head")
  OBVIOUS
<1>5. /\ \A s \in {"waiting_external", "reconciling"} :
           WalkFits(s, <<"observing", "planning">>, "head")
      /\ WalkFits("waiting_external", <<"reconciling">>, "reconcile")
  OBVIOUS
<1> QED
  BY <1>1, <1>2, <1>3, <1>4, <1>5

\* Going to a plain position with a status it fits.
LEMMA AtMoves ==
  ASSUME LocalInv, NEW e \in Execs, NEW s \in Statuses \ {"none"},
         NEW p \in {"head", "plan", "resume", "resolved", "isolate", "fail"},
         status' = [status EXCEPT ![e] = s], Goto(e, At(p)), UNCHANGED schedVars,
         LegalStep(e, s), run[e].pc \notin {"off", "isolate"}, ~InPass(run[e]),
         p = "plan" => s = "planning" /\ rounds'[e] < MaxRounds,
         p = "head" => s \in Terminal \cup {"queued", "planning", "observing"},
         p = "resume" => s \in {"waiting_external", "reconciling"},
         p = "resolved" => s \in Terminal \cup {"reconciling"}
  PROVE  Moved(e)
<1>1. PICK q : q = At(p)
  OBVIOUS
<1>2. q \in RunStates /\ q.pc = p
  BY <1>1, AtState DEF PCs
<1>3. Shaped(q) /\ ~InPass(q)
  BY <1>2 DEF Shaped, InPass
<1>4. StatusFits(s, q)
  BY <1>2, <1>3 DEF StatusFits
<1>5. MovedTo(e, s, q)
  BY <1>1, <1>2, <1>3, <1>4 DEF MovedTo, Goto
<1> QED
  BY <1>5 DEF Moved

\* Starting a walk.
LEMMA WalkMoves ==
  ASSUME LocalInv, NEW e \in Execs, status[e] # "none", UNCHANGED status,
         NEW q \in RunStates, Goto(e, q), UNCHANGED schedVars,
         run[e].pc \notin {"off", "isolate"}, ~InPass(run[e]),
         q.pc = "walk", q.walk # <<>>, q.next \in {"return", "head", "reads", "reconcile"},
         q.next = "reconcile" => q.tries < MaxTries,
         status[e] \notin Terminal => WalkFits(status[e], q.walk, q.next)
  PROVE  Moved(e)
<1>1. status[e] \in Statuses \ {"none"} /\ status' = [status EXCEPT ![e] = status[e]]
  BY DEF LocalInv, RowsInv, RowTypes
<1>2. Shaped(q) /\ ~InPass(q)
  BY DEF Shaped, InPass
<1>3. StatusFits(status[e], q)
  BY <1>1, <1>2 DEF StatusFits
<1>4. LegalStep(e, status[e])
  BY DEF LegalStep
<1>5. MovedTo(e, status[e], q)
  BY <1>1, <1>2, <1>3, <1>4 DEF MovedTo, Goto
<1> QED
  BY <1>5 DEF Moved

\* Going on within a round: the batch, its writes and their answers.
LEMMA BatchMoves ==
  ASSUME LocalInv, NEW e \in Execs, UNCHANGED status, NEW q \in RunStates, Goto(e, q),
         UNCHANGED schedVars,
         \/ q.pc = "fresh" /\ run[e].pc = "plan"
         \/ q.pc \in {"tool", "await"} /\ run[e].pc \in {"reads", "tool", "await"}
  PROVE  Moved(e)
<1>1. StatusFits(status[e], run[e]) /\ status[e] \in Statuses
      /\ status' = [status EXCEPT ![e] = status[e]]
  BY DEF LocalInv, RowsInv, RowTypes
<1>2. Shaped(q) /\ ~InPass(q) /\ ~InPass(run[e])
  BY DEF Shaped, InPass
<1>3. StatusFits(status[e], q) /\ status[e] # "none"
  BY <1>1, <1>2 DEF StatusFits
<1>4. LegalStep(e, status[e])
  BY DEF LegalStep
<1>5. MovedTo(e, status[e], q)
  BY <1>1, <1>2, <1>3, <1>4 DEF MovedTo, Goto
<1> QED
  BY <1>5 DEF Moved

\* The status of a runner that is at work.
LEMMA AtWork ==
  ASSUME LocalInv, NEW e \in Execs, run[e].pc # "off"
  PROVE  /\ status[e] \in Statuses \ {"none"} /\ run[e] \in RunStates /\ Shaped(run[e])
         /\ StatusFits(status[e], run[e]) /\ sched[e] \in {"active", "recovering"}
         /\ status = [status EXCEPT ![e] = status[e]]
         /\ LegalStep(e, status[e])
BY DEF LocalInv, RowsInv, RowTypes, StatusFits, PlaceFits, LegalStep

\* Most actions leave the budget and the approval alone.
LEMMA AsideSame ==
  ASSUME LocalInv, NEW e \in Execs, UNCHANGED <<rounds, authVars, userVars, up, nudges>>
  PROVE  Aside(e)
BY DEF LocalInv, RowsInv, RowTypes, Aside, userVars

\* A denied or failing run goes on to its isolation or its failure.
LEMMA DeniedMoves ==
  ASSUME LocalInv, NEW e \in Execs,
         Denied(e) \/ PlanRaises(e) \/ \E k \in Keys : ToolDenied(e, k) \/ ToolUnauthorized(e, k)
  PROVE  Moved(e) /\ Aside(e)
<1>1. PICK p \in {"isolate", "fail"} : Goto(e, At(p))
  BY DEF Denied, PlanRaises, ToolDenied, ToolUnauthorized
<1>2. /\ run[e].pc \in {"check", "head", "plan", "fresh", "reads", "walk", "tool"}
      /\ UNCHANGED <<status, schedVars, rounds, authVars, userVars, up, nudges>>
  BY DEF Denied, PlanRaises, ToolDenied, ToolUnauthorized
<1>3. ~InPass(run[e]) /\ run[e].pc \notin {"off", "isolate"}
  BY <1>2 DEF InPass
<1>4. LegalStep(e, status[e]) /\ status' = [status EXCEPT ![e] = status[e]]
      /\ status[e] \in Statuses \ {"none"}
  BY <1>2, <1>3, AtWork
<1>5. UNCHANGED schedVars
  BY <1>2
<1>6. Moved(e)
  BY <1>1, <1>3, <1>4, <1>5, AtMoves
<1> QED
  BY <1>2, <1>6, AsideSame

\* _run reads the status and returns or goes on.
LEMMA CheckMoves ==
  ASSUME LocalInv, NEW e \in Execs, Check(e)
  PROVE  (Moved(e) \/ Returned(e)) /\ Aside(e)
<1>1. /\ run[e].pc = "check" /\ status[e] \notin Terminal
      /\ UNCHANGED <<status, rounds, authVars, userVars, up, nudges>>
  BY DEF Check, Fenced
<1>2. Aside(e)
  BY <1>1, AsideSame
<1>3. /\ LegalStep(e, status[e]) /\ status' = [status EXCEPT ![e] = status[e]]
      /\ status[e] \in Statuses \ {"none"} /\ StatusFits(status[e], run[e])
  BY <1>1, AtWork
<1>4. ~InPass(run[e]) /\ run[e].pc \notin {"off", "isolate"}
  BY <1>1 DEF InPass
<1>5. CASE status[e] = "needs_input" /\ Return(e, "needs_input")
  <2>1. ReturnedWith(e, "needs_input")
    BY <1>1, <1>3, <1>5 DEF ReturnedWith, Parked
  <2> QED
    BY <1>2, <2>1 DEF Returned
<1>6. CASE /\ status[e] \in {"waiting_external", "reconciling"}
           /\ Goto(e, At("resume")) /\ UNCHANGED schedVars
  BY <1>2, <1>3, <1>4, <1>6, AtMoves
<1>7. CASE /\ status[e] \notin {"needs_input", "waiting_external", "reconciling"}
           /\ Goto(e, At("head")) /\ UNCHANGED schedVars
  <2>1. status[e] \in {"queued", "planning", "observing"}
    BY <1>1, <1>3, <1>7 DEF StatusFits, Statuses, Active, Parked
  <2> QED
    BY <1>2, <1>3, <1>4, <1>7, <2>1, AtMoves
<1> QED
  BY <1>5, <1>6, <1>7 DEF Check

\* The loop head plans another round or finishes with partial.
LEMMA LoopHeadMoves ==
  ASSUME LocalInv, NEW e \in Execs, LoopHead(e)
  PROVE  Moved(e) /\ Aside(e)
<1>1. /\ run[e].pc = "head" /\ status[e] \notin Terminal
      /\ UNCHANGED <<rounds, authVars, userVars, up, nudges>> /\ UNCHANGED schedVars
  BY DEF LoopHead, Fenced
<1>2. Aside(e)
  BY <1>1, AsideSame
<1>3. status[e] \in {"queued", "planning", "observing"}
  BY <1>1, AtWork DEF StatusFits
<1>4. ~InPass(run[e]) /\ run[e].pc \notin {"off", "isolate"}
  BY <1>1 DEF InPass
<1>5. CASE /\ rounds[e] < MaxRounds
           /\ status' = [status EXCEPT ![e] = "planning"]
           /\ Goto(e, At("plan"))
  <2>1. LegalStep(e, "planning") /\ "planning" \in Statuses \ {"none"}
    BY <1>3, TransitionsAre DEF LegalStep, Statuses, Active
  <2>2. rounds'[e] < MaxRounds
    BY <1>1, <1>5
  <2> QED
    BY <1>1, <1>2, <1>4, <1>5, <2>1, <2>2, AtMoves
<1>6. ASSUME NEW w \in Seq(Statuses), w # <<>>, WalkFits(status[e], w, "return"),
             Goto(e, Walking(w, "return")), UNCHANGED status
      PROVE  Moved(e)
  <2>1. PICK q : q = Walking(w, "return")
    OBVIOUS
  <2>2. q \in RunStates /\ q.pc = "walk" /\ q.walk = w /\ q.next = "return"
    BY <2>1, WalkingState
  <2> QED
    BY <1>1, <1>3, <1>4, <1>6, <2>1, <2>2, WalkMoves
<1>7. <<"planning", "executing", "observing", "partial">> \in Seq(Statuses)
      /\ <<"executing", "observing", "partial">> \in Seq(Statuses)
      /\ <<"partial">> \in Seq(Statuses)
  BY DEF Statuses, Active, Parked, Terminal
<1>8. CASE /\ Goto(e, Walking(CASE status[e] = "queued" ->
                                       <<"planning", "executing", "observing", "partial">>
                                  [] status[e] = "planning" ->
                                       <<"executing", "observing", "partial">>
                                  [] status[e] = "observing" -> <<"partial">>, "return"))
           /\ UNCHANGED status
  <2>1. PICK w : /\ w \in {<<"planning", "executing", "observing", "partial">>,
                           <<"executing", "observing", "partial">>, <<"partial">>}
                 /\ WalkFits(status[e], w, "return") /\ Goto(e, Walking(w, "return"))
    <3>1. CASE status[e] = "queued"
      BY <1>8, <3>1, Paths
    <3>2. CASE status[e] = "planning"
      BY <1>8, <3>2, Paths
    <3>3. CASE status[e] = "observing"
      BY <1>8, <3>3, Paths
    <3> QED
      BY <1>3, <3>1, <3>2, <3>3
  <2>2. w \in Seq(Statuses)
    BY <1>7, <2>1, Zenon
  <2>3. w # <<>>
    <3>1. Len(w) \in {1, 3, 4}
      BY <2>1
    <3> QED
      BY <3>1
  <2>4. UNCHANGED status
    BY <1>8
  <2> QED
    BY <1>2, <1>6, <2>1, <2>2, <2>3, <2>4
<1> QED
  BY <1>2, <1>5, <1>8 DEF LoopHead

\* Starting a walk along one of the paths of _run.
LEMMA PathMoves ==
  ASSUME LocalInv, NEW e \in Execs, UNCHANGED status, UNCHANGED schedVars,
         run[e].pc \in {"plan", "fresh", "reconcile", "resume", "resolved", "probe", "head"},
         ~InPass(run[e]),
         NEW w \in Seq(Statuses), w # <<>>, NEW n \in {"return", "head", "reads"},
         status[e] \notin Terminal => WalkFits(status[e], w, n), Goto(e, Walking(w, n))
  PROVE  Moved(e)
<1>1. PICK q : q = Walking(w, n)
  OBVIOUS
<1>2. q \in RunStates /\ q.pc = "walk" /\ q.walk = w /\ q.next = n
  BY <1>1, WalkingState
<1>3. status[e] # "none"
  BY AtWork
<1> QED
  BY <1>1, <1>2, <1>3, WalkMoves

\* The walks of _run are sequences of statuses.
LEMMA PathsTyped ==
  /\ \A s \in {"partial", "completed", "planning"} :
       <<"executing", "observing", s>> \in Seq(Statuses) /\ <<"executing", "observing", s>> # <<>>
  /\ \A s \in {"partial", "needs_input", "executing", "planning", "reconciling"} :
       <<s>> \in Seq(Statuses) /\ <<s>> # <<>>
  /\ <<"observing", "planning">> \in Seq(Statuses) /\ <<"observing", "planning">> # <<>>
BY DEF Statuses, Active, Parked, Terminal

\* A decision, a refused write or a stale context leads to a walk or a failure.
LEMMA PlanMoves ==
  ASSUME LocalInv, NEW e \in Execs,
         \/ PlanExhausted(e) \/ PlanDecides(e) \/ Freshness(e)
         \/ (\E K \in SUBSET Keys : PlanInvokes(e, K)) \/ (\E k \in Keys : PlanUnauthorized(e, k))
  PROVE  Moved(e) /\ Aside(e)
<1>1. /\ run[e].pc \in {"plan", "fresh"} /\ status[e] \notin Terminal
      /\ UNCHANGED status /\ UNCHANGED schedVars
      /\ UNCHANGED <<authVars, ops, up, nudges>>
  BY DEF PlanExhausted, PlanDecides, PlanInvokes, PlanUnauthorized, Freshness, Fenced, userVars
<1>2. status[e] = "planning" /\ ~InPass(run[e]) /\ run[e].pc \notin {"off", "isolate"}
      /\ LegalStep(e, status[e]) /\ status' = [status EXCEPT ![e] = status[e]]
  BY <1>1, AtWork DEF StatusFits, InPass
<1>3. RowTypes /\ (run[e].pc = "plan" => rounds[e] < MaxRounds)
  BY DEF LocalInv, RowsInv
<1>4. Aside(e)
  <2>1. CASE UNCHANGED rounds
    <3>1. appr' \in [Execs -> Keys \cup {NoKey}] /\ \A f \in Execs \ {e} : appr'[f] = appr[f]
      <4>1. \/ UNCHANGED appr
            \/ \E k \in Keys : appr' = [appr EXCEPT ![e] = IF @ = NoKey THEN k ELSE @]
        BY Zenon DEF PlanExhausted, PlanDecides, PlanInvokes, PlanUnauthorized, Freshness, userVars
      <4> QED
        BY <1>3, <4>1 DEF RowTypes
    <3> QED
      BY <1>1, <1>3, <2>1, <3>1 DEF Aside, RowTypes
  <2>2. CASE run[e].pc = "plan" /\ rounds' = [rounds EXCEPT ![e] = @ + 1] /\ UNCHANGED userVars
    BY <1>1, <1>3, <2>2, ActionRunAssumption DEF Aside, RowTypes, userVars
  <2> QED
    BY <2>1, <2>2 DEF PlanExhausted, PlanDecides, PlanInvokes, PlanUnauthorized, Freshness
<1>5. ASSUME NEW s \in {"partial", "completed"},
             Goto(e, Walking(<<"executing", "observing", s>>, "return"))
      PROVE  Moved(e)
  BY <1>1, <1>2, <1>5, Paths, PathsTyped, PathMoves
<1>6. CASE Goto(e, Walking(<<"needs_input">>, "return"))
  BY <1>1, <1>2, <1>4, <1>6, Paths, PathsTyped, PathMoves
<1>7. CASE Goto(e, Walking(<<"executing">>, "reads"))
  BY <1>1, <1>2, <1>4, <1>7, Paths, PathsTyped, PathMoves
<1>8. CASE Goto(e, Walking(<<"executing", "observing", "planning">>, "head"))
  BY <1>1, <1>2, <1>4, <1>8, Paths, PathsTyped, PathMoves
<1>9. CASE Goto(e, At("fail"))
  <2>1. "planning" \in Statuses \ {"none"}
    BY DEF Statuses, Active
  <2> QED
    BY <1>1, <1>2, <1>4, <1>9, <2>1, AtMoves
<1>10. ASSUME NEW K \in SUBSET Keys, Goto(e, [At("fresh") EXCEPT !.todo = K]), run[e].pc = "plan"
       PROVE  Moved(e)
  <2>1. PICK r : r = At("fresh")
    OBVIOUS
  <2>2. PICK q : q = [r EXCEPT !.todo = K]
    OBVIOUS
  <2>3. r \in RunStates /\ r.pc = "fresh"
    BY <2>1, AtState DEF PCs
  <2>4. q \in RunStates /\ q.pc = "fresh"
    BY <2>2, <2>3 DEF RunStates
  <2>5. Goto(e, q)
    BY <1>10, <2>1, <2>2
  <2> QED
    BY <1>1, <1>10, <2>4, <2>5, BatchMoves
<1>11. CASE /\ run[e].pc = "fresh"
            /\ Goto(e, [run[e] EXCEPT !.pc = "walk", !.walk = <<"executing">>, !.next = "reads"])
  <2>1. PICK r \in RunStates : r = run[e]
    BY <1>3 DEF RowTypes
  <2>2. PICK w \in Seq(Statuses) : w = <<"executing">>
    BY PathsTyped
  <2>3. PICK q : q = [r EXCEPT !.pc = "walk", !.walk = w, !.next = "reads"]
    OBVIOUS
  <2>4. q \in RunStates /\ q.pc = "walk" /\ q.walk = w /\ q.next = "reads"
    BY <2>3 DEF RunStates, PCs
  <2>5. Goto(e, q)
    BY <1>11, <2>1, <2>2, <2>3
  <2>6. w # <<>> /\ WalkFits(status[e], w, "reads")
    BY <1>2, <2>2, Paths, PathsTyped
  <2> QED
    BY <1>1, <1>2, <1>4, <2>4, <2>5, <2>6, WalkMoves
<1>12. Moved(e)
  <2>1. CASE PlanExhausted(e)
    BY <1>5, <2>1 DEF PlanExhausted
  <2>2. CASE PlanDecides(e)
    BY <1>5, <1>6, <1>9, <2>2 DEF PlanDecides
  <2>3. CASE Freshness(e)
    BY <1>6, <1>8, <1>11, <2>3 DEF Freshness
  <2>4. ASSUME NEW K \in SUBSET Keys, PlanInvokes(e, K) PROVE Moved(e)
    <3>1. CASE K = {}
      BY <1>7, <2>4, <3>1 DEF PlanInvokes
    <3>2. CASE K # {}
      BY <1>10, <2>4, <3>2 DEF PlanInvokes
    <3> QED
      BY <3>1, <3>2
  <2>5. ASSUME NEW k \in Keys, PlanUnauthorized(e, k) PROVE Moved(e)
    BY <1>6, <1>9, <2>5 DEF PlanUnauthorized
  <2> QED
    BY <2>1, <2>2, <2>3, <2>4, <2>5
<1> QED
  BY <1>4, <1>12

\* _transition, once per status of a walk.
LEMMA WalkStep ==
  ASSUME LocalInv, NEW e \in Execs, Walk(e)
  PROVE  (Moved(e) \/ Returned(e)) /\ Aside(e)
<1>1. PICK r : r = run[e]
  OBVIOUS
<1>2. PICK v : v = r.walk
  OBVIOUS
<1>3. PICK s : s = Head(v)
  OBVIOUS
<1>4. /\ r.pc = "walk" /\ status[e] \notin Terminal /\ status' = [status EXCEPT ![e] = s]
      /\ UNCHANGED <<rounds, authVars, userVars, up, nudges>>
  BY <1>1, <1>2, <1>3 DEF Walk, Fenced
<1>5. PICK n : n = r.next
  OBVIOUS
<1>6. /\ r \in RunStates /\ Shaped(r) /\ WalkFits(status[e], v, n)
      /\ status[e] \in Statuses \ {"none"}
  BY <1>1, <1>2, <1>4, <1>5, AtWork DEF StatusFits
<1>7. v \in Seq(Statuses) /\ v # <<>> /\ n \in {"return", "head", "reads", "reconcile"}
  BY <1>2, <1>4, <1>5, <1>6 DEF RunStates, Shaped
<1>8. s = v[1] /\ s \in Statuses /\ Len(v) \in Nat /\ Len(v) > 0
      /\ Tail(v) \in Seq(Statuses)
  BY <1>3, <1>7
<1>9. s \in Transitions[status[e]] /\ s # "none" /\ LegalStep(e, s)
  <2>1. s \in Transitions[status[e]]
    BY <1>6, <1>8 DEF WalkFits
  <2>2. "none" \notin Transitions[status[e]]
    BY <1>6, TransitionsAre DEF Statuses, Active, Parked
  <2> QED
    BY <2>1, <2>2 DEF LegalStep
<1>10. ~InPass(r)
  BY <1>4 DEF InPass
<1>11. Aside(e)
  BY <1>4, AsideSame
<1>12. CASE Len(v) = 1 /\ n = "return"
  <2>1. Return(e, s)
    BY <1>1, <1>2, <1>3, <1>5, <1>12 DEF Walk
  <2>2. s \in Parked
    BY <1>6, <1>8, <1>12 DEF WalkFits
  <2>3. ReturnedWith(e, s)
    BY <1>1, <1>4, <1>9, <2>1, <2>2 DEF ReturnedWith
  <2> QED
    BY <1>11, <2>3 DEF Returned
<1>13. ASSUME NEW p \in PCs, NEW w \in Seq(Statuses), w = Tail(v), UNCHANGED schedVars,
              Goto(e, [r EXCEPT !.walk = w, !.pc = p]),
              \/ p = n /\ n # "return" /\ Len(v) = 1
              \/ p = "walk" /\ Len(v) > 1
       PROVE  Moved(e)
  <2>1. PICK q : q = [r EXCEPT !.walk = w, !.pc = p]
    OBVIOUS
  <2>2. /\ q \in RunStates /\ q.pc = p /\ q.walk = w /\ q.next = n /\ q.tries = r.tries
    BY <1>5, <1>6, <2>1 DEF RunStates
  <2>3. Goto(e, q)
    BY <1>13, <2>1
  <2>4. CASE p = n /\ n # "return" /\ Len(v) = 1
    <3>1. /\ p = "head" => s = "planning"
          /\ p = "reads" => s = "executing"
          /\ p = "reconcile" => s = "reconciling"
      BY <1>6, <1>8, <2>4 DEF WalkFits
    <3>2. p \in {"head", "reads", "reconcile"}
      BY <1>7, <2>4
    <3>3. Shaped(q) /\ ~InPass(q)
      BY <1>4, <1>5, <1>6, <2>2, <2>4, <3>2 DEF Shaped, InPass
    <3>4. StatusFits(s, q)
      BY <1>9, <2>2, <3>1, <3>2, <3>3 DEF StatusFits
    <3>5. MovedTo(e, s, q)
      BY <1>1, <1>4, <1>8, <1>9, <1>10, <1>13, <2>2, <2>3, <3>2, <3>3, <3>4 DEF MovedTo, Goto
    <3> QED
      BY <3>5 DEF Moved
  <2>5. CASE p = "walk" /\ Len(v) > 1
    <3>1. /\ Len(w) = Len(v) - 1 /\ Len(w) > 0 /\ Len(w) \in Nat /\ w # <<>>
          /\ \A i \in 1..Len(w) : w[i] = v[i + 1]
      BY <1>7, <1>8, <1>13, <2>5
    <3>2. WalkFits(s, w, n)
      <4>1. w[1] \in Transitions[s]
        <5>1. 1 \in 1..(Len(v) - 1) /\ 1 \in 1..Len(w)
          BY <1>8, <2>5, <3>1
        <5>2. v[1 + 1] \in Transitions[v[1]]
          BY <1>6, <5>1 DEF WalkFits
        <5> QED
          BY <1>8, <3>1, <5>1, <5>2
      <4>2. \A i \in 1..(Len(w) - 1) : w[i + 1] \in Transitions[w[i]]
        <5> SUFFICES ASSUME NEW i \in 1..(Len(w) - 1) PROVE w[i + 1] \in Transitions[w[i]]
          OBVIOUS
        <5>1. i + 1 \in 1..(Len(v) - 1) /\ i \in 1..Len(w) /\ i + 1 \in 1..Len(w)
          BY <1>8, <3>1
        <5>2. v[(i + 1) + 1] \in Transitions[v[i + 1]]
          BY <1>6, <5>1 DEF WalkFits
        <5>3. w[i] = v[i + 1] /\ w[i + 1] = v[(i + 1) + 1]
          BY <3>1, <5>1
        <5> QED
          BY <5>2, <5>3
      <4>3. w[Len(w)] = v[Len(v)]
        BY <1>8, <3>1
      <4> QED
        BY <1>6, <4>1, <4>2, <4>3 DEF WalkFits
    <3>3. Shaped(q) /\ ~InPass(q)
      BY <1>4, <1>5, <1>6, <1>7, <2>2, <2>5, <3>1 DEF Shaped, InPass
    <3>4. StatusFits(s, q)
      BY <1>9, <2>2, <2>5, <3>2, <3>3 DEF StatusFits
    <3>5. MovedTo(e, s, q)
      BY <1>1, <1>4, <1>8, <1>9, <1>10, <1>13, <2>2, <2>3, <2>5, <3>3, <3>4 DEF MovedTo, Goto
    <3> QED
      BY <3>5 DEF Moved
  <2> QED
    BY <1>13, <2>4, <2>5
<1>14. CASE Len(v) = 1 /\ n # "return"
  <2>1. Goto(e, [r EXCEPT !.walk = Tail(v), !.pc = n]) /\ UNCHANGED schedVars
    BY <1>1, <1>2, <1>5, <1>14 DEF Walk
  <2>2. n \in PCs
    BY <1>7, <1>14 DEF PCs
  <2> QED
    BY <1>8, <1>11, <1>13, <1>14, <2>1, <2>2
<1>15. CASE Len(v) > 1
  <2>1. Goto(e, [r EXCEPT !.walk = Tail(v), !.pc = "walk"]) /\ UNCHANGED schedVars
    <3>1. Len(r.walk) # 1
      <4>1. Len(v) # 1
        <5>1. \A m \in Nat : m > 1 => m # 1
          OBVIOUS
        <5>2. Len(v) \in Nat /\ Len(v) > 1
          BY <1>8, <1>15
        <5> QED
          BY <5>1, <5>2
      <4> QED
        BY <1>2, <4>1
    <3>2. /\ UNCHANGED schedVars
          /\ Goto(e, [r EXCEPT !.walk = Tail(@),
                              !.pc = IF Len(r.walk) = 1 THEN r.next ELSE @])
      BY <1>1, <3>1 DEF Walk
    <3>3. Goto(e, [r EXCEPT !.walk = Tail(v), !.pc = r.pc])
      BY <1>2, <3>1, <3>2
    <3> QED
      BY <1>4, <3>2, <3>3
  <2>2. "walk" \in PCs
    BY DEF PCs
  <2> QED
    BY <1>8, <1>11, <1>13, <1>15, <2>1, <2>2
<1> QED
  BY <1>8, <1>12, <1>14, <1>15

\* The writes of a batch.
LEMMA ToolMoves ==
  ASSUME LocalInv, NEW e \in Execs,
         ReadsDone(e) \/ ToolAwaits(e) \/ \E k \in Keys : ToolRequest(e, k) \/ ToolStored(e, k)
  PROVE  Moved(e) /\ Aside(e)
<1>1. /\ run[e].pc \in {"reads", "tool", "await"}
      /\ UNCHANGED <<status, rounds, authVars, userVars, up, nudges>>
      /\ UNCHANGED schedVars
  BY DEF ReadsDone, ToolAwaits, ToolRequest, ToolStored
<1>2. Aside(e)
  BY <1>1, AsideSame
<1>3. PICK r : r = run[e]
  OBVIOUS
<1>4. /\ r \in RunStates /\ LegalStep(e, status[e])
      /\ status' = [status EXCEPT ![e] = status[e]] /\ status[e] \in Statuses \ {"none"}
      /\ run[e].pc \notin {"off", "isolate"} /\ ~InPass(run[e])
  BY <1>1, <1>3, AtWork DEF InPass
<1>5. ASSUME NEW k \in Keys, NEW result \in {"settled", "unknown", "pending"}, Seen(e, k, result)
      PROVE  Moved(e)
  <2>1. PICK T \in SUBSET Keys : T = r.todo \ {k}
    BY <1>4 DEF RunStates
  <2>2. PICK S \in SUBSET {"settled", "unknown", "pending"} : S = r.seen \cup {result}
    BY <1>4 DEF RunStates
  <2>3. PICK q : q = [r EXCEPT !.pc = "tool", !.todo = T, !.seen = S]
    OBVIOUS
  <2>4. q \in RunStates /\ q.pc = "tool"
    BY <1>4, <2>3 DEF RunStates, PCs
  <2>5. Goto(e, q)
    BY <1>3, <1>5, <2>1, <2>2, <2>3 DEF Seen
  <2> QED
    BY <1>1, <2>4, <2>5, BatchMoves
<1>6. CASE ReadsDone(e)
  <2>1. PICK q : q = [r EXCEPT !.pc = "tool"]
    OBVIOUS
  <2>2. q \in RunStates /\ q.pc = "tool"
    BY <1>4, <2>1 DEF RunStates, PCs
  <2>3. Goto(e, q)
    BY <1>3, <1>6, <2>1 DEF ReadsDone
  <2> QED
    BY <1>1, <1>2, <2>2, <2>3, BatchMoves
<1>7. ASSUME NEW k \in Keys, ToolRequest(e, k) PROVE Moved(e)
  <2>1. PICK T \in SUBSET Keys : T = r.todo \ {k}
    BY <1>4 DEF RunStates
  <2>2. PICK q : q = [r EXCEPT !.pc = "await", !.todo = T]
    OBVIOUS
  <2>3. q \in RunStates /\ q.pc = "await"
    BY <1>4, <2>2 DEF RunStates, PCs
  <2>4. Goto(e, q)
    BY <1>3, <1>7, <2>1, <2>2 DEF ToolRequest
  <2> QED
    BY <1>1, <2>3, <2>4, BatchMoves
<1>8. ASSUME NEW k \in Keys, ToolStored(e, k) PROVE Moved(e)
  <2>1. CASE Goto(e, At("fail"))
    BY <1>1, <1>4, <2>1, AtMoves
  <2>2. CASE Seen(e, k, Stored(call[holder[k]][k]))
    <3>1. Stored(call[holder[k]][k]) \in {"settled", "unknown", "pending"}
      BY DEF Stored
    <3> QED
      BY <1>5, <2>2, <3>1
  <2> QED
    BY <1>8, <2>1, <2>2 DEF ToolStored
<1>9. CASE ToolAwaits(e)
  <2>1. CASE UNCHANGED run /\ run[e].pc = "await"
    <3>1. Goto(e, r)
      BY <1>3, <2>1 DEF Goto, LocalInv, RowsInv, RowTypes
    <3> QED
      BY <1>1, <1>2, <1>3, <1>4, <2>1, <3>1, BatchMoves
  <2>2. (UNCHANGED run /\ run[e].pc = "await")
          \/ \E k \in Keys : Seen(e, k, "settled") \/ Seen(e, k, "unknown")
    BY <1>9 DEF ToolAwaits
  <2> QED
    BY <1>2, <1>5, <2>1, <2>2
<1> QED
  BY <1>2, <1>6, <1>7, <1>8, <1>9

\* The end of a batch, and _fail.
LEMMA BatchEndMoves ==
  ASSUME LocalInv, NEW e \in Execs, BatchEnds(e) \/ Fail(e)
  PROVE  (Moved(e) \/ Returned(e)) /\ Aside(e)
<1>1. /\ run[e].pc \in {"tool", "fail"}
      /\ UNCHANGED <<rounds, authVars, userVars, up, nudges>>
  BY DEF BatchEnds, Fail
<1>2. Aside(e)
  BY <1>1, AsideSame
<1>3. /\ status[e] \in Statuses \ {"none"} /\ run[e].pc \notin {"off", "isolate"}
      /\ ~InPass(run[e]) /\ StatusFits(status[e], run[e])
  BY <1>1, AtWork DEF InPass
<1>4. CASE BatchEnds(e)
  <2>1. status[e] = "executing"
    BY <1>3, <1>4 DEF BatchEnds, Fenced, StatusFits
  <2>2. \A s \in {"reconciling", "waiting_external", "observing"} :
          LegalStep(e, s) /\ s \in Statuses \ {"none"}
    BY <2>1, TransitionsAre DEF LegalStep, Statuses, Active
  <2>3. CASE /\ status' = [status EXCEPT ![e] = "reconciling"]
             /\ Goto(e, At("resume")) /\ UNCHANGED schedVars
    BY <1>2, <1>3, <2>2, <2>3, AtMoves
  <2>4. CASE /\ status' = [status EXCEPT ![e] = "waiting_external"]
             /\ Return(e, "waiting_external")
    <3>1. ReturnedWith(e, "waiting_external")
      BY <1>3, <2>2, <2>4 DEF ReturnedWith
    <3> QED
      BY <1>2, <3>1 DEF Returned
  <2>5. CASE /\ status' = [status EXCEPT ![e] = "observing"]
             /\ Goto(e, At("head")) /\ UNCHANGED schedVars
    BY <1>2, <1>3, <2>2, <2>5, AtMoves
  <2> QED
    BY <1>4, <2>3, <2>4, <2>5 DEF BatchEnds
<1>5. CASE Fail(e)
  <2>1. PICK s : s = IF status[e] \in Terminal THEN status[e] ELSE "failed"
    OBVIOUS
  <2>2. s \in Parked /\ LegalStep(e, s)
    BY <1>3, <2>1, TransitionsAre DEF LegalStep, Statuses, Active, Parked, Terminal
  <2>3. ReturnedWith(e, s)
    BY <1>3, <1>5, <2>1, <2>2 DEF Fail, ReturnedWith
  <2> QED
    BY <1>2, <2>3 DEF Returned
<1> QED
  BY <1>4, <1>5

\* _resume_external: the calls of the execution are reconciled, or planned anew.
LEMMA ResumeMoves ==
  ASSUME LocalInv, NEW e \in Execs, ResumeExternal(e)
  PROVE  Moved(e) /\ Aside(e)
<1>1. run[e].pc = "resume" /\ UNCHANGED status /\ UNCHANGED schedVars
      /\ UNCHANGED <<rounds, authVars, userVars, up, nudges>>
  BY DEF ResumeExternal
<1>2. Aside(e)
  BY <1>1, AsideSame
<1>3. /\ ~InPass(run[e]) /\ run[e].pc \notin {"off", "isolate"}
      /\ status[e] \in Statuses \ {"none"} /\ status' = [status EXCEPT ![e] = status[e]]
      /\ StatusFits(status[e], run[e]) /\ LegalStep(e, status[e])
  BY <1>1, AtWork DEF InPass
<1>4. status[e] \notin Terminal => status[e] \in {"waiting_external", "reconciling"}
  BY <1>1, <1>3 DEF StatusFits
<1>5. PICK K \in SUBSET Keys : K = Pending(e)
  BY DEF Pending
<1>6. CASE K = {}
  <2>1. Goto(e, Walking(<<"observing", "planning">>, "head"))
    BY <1>5, <1>6 DEF ResumeExternal
  <2> QED
    BY <1>1, <1>2, <1>3, <1>4, <2>1, Paths, PathsTyped, PathMoves
<1>7. CASE K # {} /\ status[e] = "waiting_external"
  <2>1. PICK r : r = Walking(<<"reconciling">>, "reconcile")
    OBVIOUS
  <2>2. PICK w \in Seq(Statuses) : w = <<"reconciling">>
    BY PathsTyped
  <2>3. r \in RunStates /\ r.pc = "walk" /\ r.walk = w /\ r.next = "reconcile" /\ r.tries = 0
    <3>1. r = Walking(w, "reconcile")
      BY <2>1, <2>2
    <3> QED
      BY <3>1, WalkingState
  <2>4. PICK q : q = [r EXCEPT !.pend = K]
    OBVIOUS
  <2>5. q \in RunStates /\ q.pc = "walk" /\ q.walk = w /\ q.next = "reconcile" /\ q.tries = 0
    BY <2>3, <2>4 DEF RunStates
  <2>6. Goto(e, q)
    BY <1>5, <1>7, <2>1, <2>4 DEF ResumeExternal
  <2>7. w # <<>> /\ WalkFits(status[e], w, "reconcile") /\ q.tries < MaxTries
    BY <1>7, <2>2, <2>5, Paths, PathsTyped, ActionRunAssumption
  <2> QED
    BY <1>1, <1>2, <1>3, <2>5, <2>6, <2>7, WalkMoves
<1>8. CASE K # {} /\ status[e] # "waiting_external"
  <2>1. PICK r : r = At("reconcile")
    OBVIOUS
  <2>2. r \in RunStates /\ r.pc = "reconcile" /\ r.tries = 0
    BY <2>1, AtState DEF PCs
  <2>3. PICK q : q = [r EXCEPT !.pend = K]
    OBVIOUS
  <2>4. q \in RunStates /\ q.pc = "reconcile" /\ q.tries = 0
    BY <2>2, <2>3 DEF RunStates
  <2>5. Goto(e, q)
    BY <1>5, <1>8, <2>1, <2>3 DEF ResumeExternal, Reconciling
  <2>6. Shaped(q) /\ ~InPass(q)
    BY <2>4, ActionRunAssumption DEF Shaped, InPass
  <2>7. StatusFits(status[e], q)
    BY <1>3, <1>4, <1>8, <2>4, <2>6 DEF StatusFits
  <2>8. MovedTo(e, status[e], q)
    BY <1>1, <1>3, <2>4, <2>5, <2>6, <2>7 DEF MovedTo, Goto
  <2> QED
    BY <1>2, <2>8 DEF Moved
<1> QED
  BY <1>6, <1>7, <1>8

\* One attempt begins.
LEMMA AttemptMoves ==
  ASSUME LocalInv, NEW e \in Execs, NEW k \in Keys, Attempt(e, k), ClaimsGrow
  PROVE  Moved(e) /\ Aside(e)
<1>1. PICK r : r = run[e]
  OBVIOUS
<1>2. /\ r.pc \in {"reconcile", "read_only"}
      /\ UNCHANGED <<rounds, authVars, userVars, up, nudges>>
      /\ UNCHANGED status /\ UNCHANGED schedVars
      /\ Goto(e, [r EXCEPT !.pc = "probe", !.next = r.pc, !.cur = k, !.tries = @ + 1])
  BY <1>1 DEF Attempt
<1>3. /\ status[e] \in Statuses \ {"none"} /\ r \in RunStates /\ Shaped(r)
      /\ StatusFits(status[e], r) /\ LegalStep(e, status[e])
      /\ status' = [status EXCEPT ![e] = status[e]]
  BY <1>1, <1>2, AtWork
<1>4. PICK q : q = [r EXCEPT !.pc = "probe", !.next = r.pc, !.cur = k, !.tries = @ + 1]
  OBVIOUS
<1>5. q \in RunStates /\ q.pc = "probe" /\ q.next = r.pc /\ q.cur = k
  <2>1. PICK t \in 0..MaxTries : t = r.tries + 1
    BY <1>2, <1>3, ActionRunAssumption DEF RunStates, Shaped
  <2>2. PICK n \in {"reconcile", "read_only"} : n = r.pc
    BY <1>2
  <2>3. q = [r EXCEPT !.pc = "probe", !.next = n, !.cur = k, !.tries = t]
    BY <1>4, <2>1, <2>2
  <2>4. q \in RunStates /\ q.pc = "probe" /\ q.next = n /\ q.cur = k
    BY <1>3, <2>3 DEF RunStates, PCs
  <2> QED
    BY <2>2, <2>4
<1>6. Shaped(q) /\ (InPass(q) <=> InPass(r))
  BY <1>2, <1>5 DEF Shaped, InPass
<1>7. StatusFits(status[e], q)
  BY <1>2, <1>3, <1>5, <1>6 DEF StatusFits
<1>8. claim'[q.cur] # "none"
  <2>1. claim[k] # "none"
    BY DEF Attempt, X!BeginReconcile
  <2> QED
    BY <1>5, <2>1 DEF ClaimsGrow
<1>9. MovedTo(e, status[e], q)
  BY <1>1, <1>2, <1>3, <1>4, <1>5, <1>6, <1>7, <1>8 DEF MovedTo, Goto
<1> QED
  BY <1>2, <1>9, AsideSame DEF Moved

\* One attempt is answered.
LEMMA ProbeMoves ==
  ASSUME LocalInv, NEW e \in Execs, Probe(e)
  PROVE  (Moved(e) \/ Returned(e)) /\ Aside(e)
<1>1. PICK r : r = run[e]
  OBVIOUS
<1>2. PICK k : k = r.cur
  OBVIOUS
<1>3. PICK clear \in BOOLEAN : Answered(e, k, clear)
  BY <1>1, <1>2 DEF Probe
<1>4. r.pc = "probe" /\ UNCHANGED status
      /\ UNCHANGED <<rounds, authVars, userVars, up, nudges>>
  BY <1>1 DEF Probe
<1>5. Aside(e)
  BY <1>4, AsideSame
<1>6. /\ status[e] \in Statuses \ {"none"} /\ r \in RunStates /\ Shaped(r)
      /\ StatusFits(status[e], r) /\ LegalStep(e, status[e])
      /\ status' = [status EXCEPT ![e] = status[e]]
  BY <1>1, <1>4, AtWork
<1>7. k \in Keys /\ r.next \in {"reconcile", "read_only"} /\ r.tries \in 0..MaxTries
  BY <1>2, <1>4, <1>6 DEF Shaped, RunStates
<1>8. PICK n \in {"reconcile", "read_only"} : n = r.next
  BY <1>7
<1>9. /\ InPass(r) <=> n = "read_only"
      /\ n = "reconcile" => status[e] \in Terminal \cup {"reconciling"}
      /\ n = "read_only" => status[e] \in Terminal \cup {"needs_input", "planning"}
  BY <1>4, <1>6, <1>8 DEF InPass, StatusFits
<1>10. PICK left \in SUBSET Keys :
         left = IF clear \/ n = "read_only" THEN r.pend \ {k} ELSE r.pend
  BY <1>6 DEF RunStates
<1>11. PICK c \in Keys \cup {NoKey} : c = IF k \in left THEN k ELSE NoKey
  BY <1>7
<1>12. PICK t \in 0..MaxTries : t = IF k \in left THEN r.tries ELSE 0
  BY <1>7, ActionRunAssumption
<1>13. PICK cont : cont = [At(n) EXCEPT !.pend = left, !.cur = c, !.tries = t]
  OBVIOUS
<1>14. cont \in RunStates /\ cont.pc = n /\ cont.tries = t
  <2>1. PICK base : base = At(n)
    OBVIOUS
  <2>2. base \in RunStates /\ base.pc = n
    BY <2>1, AtState DEF PCs
  <2>3. cont = [base EXCEPT !.pend = left, !.cur = c, !.tries = t]
    BY <1>13, <2>1
  <2> QED
    BY <2>2, <2>3 DEF RunStates
<1>15. IF left = {} /\ n = "read_only" THEN Return(e, status[e])
       ELSE /\ UNCHANGED schedVars
            /\ Goto(e, IF left = {} THEN At("resolved")
                       ELSE IF k \in left /\ r.tries = MaxTries
                       THEN Walking(<<"needs_input">>, "return") ELSE cont)
  BY <1>1, <1>3, <1>8, <1>10, <1>11, <1>12, <1>13 DEF Answered
<1>16. CASE left = {} /\ n = "read_only"
  <2>1. ReturnedWith(e, status[e])
    BY <1>1, <1>4, <1>6, <1>9, <1>15, <1>16 DEF ReturnedWith
  <2> QED
    BY <1>5, <2>1 DEF Returned
<1>17. CASE left = {} /\ n # "read_only"
  <2>1. Goto(e, At("resolved")) /\ UNCHANGED schedVars
    BY <1>15, <1>17
  <2>2. status[e] \in Terminal \cup {"reconciling"} /\ ~InPass(run[e])
        /\ run[e].pc \notin {"off", "isolate"}
    BY <1>1, <1>4, <1>9, <1>17
  <2> QED
    BY <1>5, <1>6, <2>1, <2>2, AtMoves
<1>18. CASE left # {} /\ k \in left /\ r.tries = MaxTries
  <2>1. n = "reconcile"
    BY <1>10, <1>18
  <2>2. Goto(e, Walking(<<"needs_input">>, "return")) /\ UNCHANGED schedVars
    BY <1>15, <1>18
  <2>3. /\ status[e] \in Terminal \cup {"reconciling"} /\ ~InPass(run[e])
        /\ run[e].pc = "probe"
    BY <1>1, <1>4, <1>9, <2>1
  <2>4. status[e] \notin Terminal => WalkFits(status[e], <<"needs_input">>, "return")
    BY <2>3, Paths
  <2> QED
    BY <1>4, <1>5, <2>2, <2>3, <2>4, PathsTyped, PathMoves
<1>19. CASE left # {} /\ ~(k \in left /\ r.tries = MaxTries)
  <2>1. Goto(e, cont) /\ UNCHANGED schedVars
    BY <1>15, <1>19
  <2>2. t < MaxTries
    BY <1>7, <1>12, <1>19, ActionRunAssumption, SMTT(30)
  <2>3. Shaped(cont) /\ (InPass(cont) <=> n = "read_only")
    BY <1>14, <2>2 DEF Shaped, InPass
  <2>4. StatusFits(status[e], cont)
    BY <1>6, <1>9, <1>14, <2>3 DEF StatusFits
  <2>5. MovedTo(e, status[e], cont)
    BY <1>1, <1>4, <1>6, <1>9, <1>14, <2>1, <2>3, <2>4 DEF MovedTo, Goto
  <2> QED
    BY <1>5, <2>5 DEF Moved
<1> QED
  BY <1>16, <1>17, <1>18, <1>19

\* Every ToolCall is resolved.
LEMMA ResolvedMoves ==
  ASSUME LocalInv, NEW e \in Execs, ReconcileEnds(e)
  PROVE  (Moved(e) \/ Returned(e)) /\ Aside(e)
<1>1. run[e].pc = "resolved" /\ UNCHANGED status
      /\ UNCHANGED <<rounds, authVars, userVars, up, nudges>>
  BY DEF ReconcileEnds
<1>2. Aside(e)
  BY <1>1, AsideSame
<1>3. /\ ~InPass(run[e]) /\ StatusFits(status[e], run[e]) /\ LegalStep(e, status[e])
      /\ status' = [status EXCEPT ![e] = status[e]]
  BY <1>1, AtWork DEF InPass
<1>4. CASE status[e] = "reconciling"
  <2>1. Goto(e, Walking(<<"observing", "planning">>, "head")) /\ UNCHANGED schedVars
    BY <1>4 DEF ReconcileEnds
  <2> QED
    BY <1>1, <1>2, <1>3, <1>4, <2>1, Paths, PathsTyped, PathMoves
<1>5. CASE status[e] # "reconciling"
  <2>1. status[e] \in Parked
    BY <1>1, <1>3, <1>5 DEF StatusFits, Parked
  <2>2. Return(e, status[e])
    BY <1>5 DEF ReconcileEnds
  <2>3. ReturnedWith(e, status[e])
    BY <1>1, <1>3, <2>1, <2>2 DEF ReturnedWith
  <2> QED
    BY <1>2, <2>3 DEF Returned
<1> QED
  BY <1>4, <1>5

\* Isolation parks the execution before it reconciles read-only.
LEMMA IsolateMoves ==
  ASSUME LocalInv, NEW e \in Execs, Isolate(e)
  PROVE  (Moved(e) \/ Returned(e)) /\ Aside(e)
<1>1. PICK s : s = IF status[e] \in Parked THEN status[e] ELSE "needs_input"
  OBVIOUS
<1>2. /\ run[e].pc = "isolate" /\ status' = [status EXCEPT ![e] = s]
      /\ UNCHANGED <<rounds, authVars, userVars, up, nudges>>
  BY <1>1 DEF Isolate
<1>3. Aside(e)
  BY <1>2, AsideSame
<1>4. s \in Parked /\ s \in Statuses \ {"none"} /\ LegalStep(e, s)
  BY <1>1, <1>2 DEF LegalStep, Parked, Terminal, Statuses
<1>5. PICK K \in SUBSET Keys : K = Pending(e)
  BY DEF Pending
<1>6. CASE K = {}
  <2>1. Return(e, s)
    BY <1>1, <1>5, <1>6 DEF Isolate
  <2>2. ReturnedWith(e, s)
    BY <1>2, <1>4, <2>1 DEF ReturnedWith
  <2> QED
    BY <1>3, <2>2 DEF Returned
<1>7. CASE K # {}
  <2>1. PICK r : r = At("read_only")
    OBVIOUS
  <2>2. r \in RunStates /\ r.pc = "read_only" /\ r.tries = 0
    BY <2>1, AtState DEF PCs
  <2>3. PICK q : q = [r EXCEPT !.pend = K]
    OBVIOUS
  <2>4. q \in RunStates /\ q.pc = "read_only" /\ q.tries = 0
    BY <2>2, <2>3 DEF RunStates
  <2>5. Goto(e, q) /\ UNCHANGED schedVars
    BY <1>5, <1>7, <2>1, <2>3 DEF Isolate
  <2>6. Shaped(q) /\ InPass(q)
    BY <2>4, ActionRunAssumption DEF Shaped, InPass
  <2>7. StatusFits(s, q)
    BY <1>4, <2>4, <2>6 DEF StatusFits, Parked
  <2>8. MovedTo(e, s, q)
    BY <1>2, <1>4, <2>4, <2>5, <2>6, <2>7 DEF MovedTo, Goto
  <2> QED
    BY <1>3, <2>8 DEF Moved
<1> QED
  BY <1>6, <1>7

\* Every step of a runner moves its own execution on, or returns from it.
LEMMA RunnerMoves ==
  ASSUME LocalInv, NEW e \in Execs, RunnerStep(e), ClaimsGrow
  PROVE  (Moved(e) \/ Returned(e)) /\ Aside(e)
<1>1. CASE Denied(e) \/ PlanRaises(e) \/ \E k \in Keys : ToolDenied(e, k) \/ ToolUnauthorized(e, k)
  BY <1>1, DeniedMoves
<1>2. CASE Check(e)
  BY <1>2, CheckMoves
<1>3. CASE LoopHead(e)
  BY <1>3, LoopHeadMoves
<1>4. CASE \/ PlanExhausted(e) \/ PlanDecides(e) \/ Freshness(e)
           \/ (\E K \in SUBSET Keys : PlanInvokes(e, K))
           \/ (\E k \in Keys : PlanUnauthorized(e, k))
  BY <1>4, PlanMoves
<1>5. CASE Walk(e)
  BY <1>5, WalkStep
<1>6. CASE ReadsDone(e) \/ ToolAwaits(e) \/ \E k \in Keys : ToolRequest(e, k) \/ ToolStored(e, k)
  BY <1>6, ToolMoves
<1>7. CASE BatchEnds(e) \/ Fail(e)
  BY <1>7, BatchEndMoves
<1>8. CASE ResumeExternal(e)
  BY <1>8, ResumeMoves
<1>9. CASE ReconcileEnds(e)
  BY <1>9, ResolvedMoves
<1>10. CASE Probe(e)
  BY <1>10, ProbeMoves
<1>11. CASE \E k \in Keys : Attempt(e, k)
  BY <1>11, AttemptMoves
<1>12. CASE Isolate(e)
  BY <1>12, IsolateMoves
<1> QED
  BY <1>1, <1>2, <1>3, <1>4, <1>5, <1>6, <1>7, <1>8, <1>9, <1>10, <1>11, <1>12, Zenon
     DEF RunnerStep

-----------------------------------------------------------------------------
(* The scheduler, the user, the operation worker and recovery.             *)

\* One execution is acted on, the others are left alone.
LEMMA OneActedOn ==
  ASSUME LocalInv, ClaimsGrow, NEW e \in Execs, LocalFits(e)', \A f \in Execs \ {e} : Same(f)
  PROVE  \A f \in Execs : LocalFits(f)'
<1>1. ASSUME NEW f \in Execs \ {e} PROVE LocalFits(f)'
  BY <1>1, LocalParts, SameFits
<1> QED
  BY <1>1

\* A coroutine of e where it was, with a status e may get from outside.
LEMMA OutsideStatus ==
  ASSUME LocalInv, NEW e \in Execs, run[e].pc \in AwaitPoints, NEW s,
         \/ s \in Terminal
         \/ s = "planning" /\ status[e] = "needs_input"
         \/ s = "queued" /\ status[e] = "none"
  PROVE  StatusFits(s, run[e]) /\ s \in Statuses \ {"none", "executing"}
<1>1. StatusFits(status[e], run[e])
  BY DEF LocalInv
<1>2. s \in Statuses \ {"none", "executing"}
  BY DEF Statuses, Active, Parked, Terminal
<1>3. CASE s \in Terminal
  BY <1>2, <1>3 DEF StatusFits
<1>4. CASE s = "planning" /\ status[e] = "needs_input"
  <2>1. "needs_input" \notin Terminal
    BY DEF Terminal
  <2>2. run[e].pc \in {"off", "probe"} /\ (run[e].pc = "probe" => run[e].next # "reconcile")
    BY <1>1, <1>4, <2>1 DEF StatusFits, AwaitPoints
  <2> QED
    BY <1>2, <1>4, <2>2 DEF StatusFits
<1>5. CASE s = "queued" /\ status[e] = "none"
  <2>1. run[e].pc = "off" /\ ~InPass(run[e])
    BY <1>1, <1>5 DEF StatusFits, InPass
  <2> QED
    BY <1>2, <1>5, <2>1 DEF StatusFits
<1> QED
  BY <1>2, <1>3, <1>4, <1>5

\* Only the database, the clock or the plugin host changes.
LEMMA SurroundingsFit ==
  ASSUME LocalInv, ClaimsGrow, UNCHANGED <<status, rounds, run, appr, ops, sched, delayed, parked, up>>,
         auth' \subseteq Execs, host' \in BOOLEAN, stale' \in [Execs -> SUBSET Keys],
         nudges' \in 0..MaxNudges
  PROVE  RowTypes' /\ \A f \in Execs : LocalFits(f)'
<1>1. RowTypes'
  BY Zenon DEF LocalInv, RowsInv, RowTypes
<1>2. ASSUME NEW f \in Execs PROVE LocalFits(f)'
  <2>1. Same(f) /\ LocalFits(f)
    BY LocalParts DEF Same
  <2> QED
    BY <2>1, SameFits
<1> QED
  BY <1>1, <1>2

\* A disturbance is counted.
LEMMA NudgeTyped ==
  ASSUME LocalInv, NEW kind, Nudge(kind) PROVE nudges' \in 0..MaxNudges
BY ActionRunAssumption DEF LocalInv, RowsInv, RowTypes, Nudge

\* The clock, the projector, a revocation, the host and the task system leave every
\* execution in order.
LEMMA DisturbancesFit ==
  ASSUME LocalInv, ClaimsGrow,
         \/ \E e \in Execs : Revoke(e) \/ \E k \in Keys : Revise(e, k)
         \/ (\E g \in Grants : Expire(g)) \/ HostDown \/ HostUp \/ World
  PROVE  RowTypes' /\ \A f \in Execs : LocalFits(f)'
<1>1. UNCHANGED <<status, rounds, run, appr, ops, sched, delayed, parked, up>>
  BY Zenon DEF Revoke, Revise, Expire, HostDown, HostUp, World, runVars, userVars, schedVars
<1>2. (\E kind : Nudge(kind)) \/ UNCHANGED nudges
  BY Zenon DEF Revoke, Revise, Expire, HostDown, HostUp, World
<1>3. nudges' \in 0..MaxNudges
  BY <1>2, NudgeTyped DEF LocalInv, RowsInv, RowTypes
<1>4. RowTypes
  BY DEF LocalInv, RowsInv
<1>5. auth' \subseteq Execs
  <2>1. UNCHANGED auth \/ \E e : auth' = auth \ {e}
    BY Zenon DEF Revoke, Revise, Expire, HostDown, HostUp, World, authVars
  <2> QED
    BY <1>4, <2>1 DEF RowTypes
<1>6. host' \in BOOLEAN
  <2>1. UNCHANGED host \/ host' = FALSE \/ host' = TRUE
    BY Zenon DEF Revoke, Revise, Expire, HostDown, HostUp, World, authVars
  <2> QED
    BY <1>4, <2>1, Zenon DEF RowTypes
<1>7. stale' \in [Execs -> SUBSET Keys]
  <2>1. UNCHANGED stale \/ \E e \in Execs, k \in Keys : stale' = [stale EXCEPT ![e] = @ \cup {k}]
    BY Zenon DEF Revoke, Revise, Expire, HostDown, HostUp, World, authVars
  <2> QED
    BY <1>4, <2>1 DEF RowTypes
<1> QED
  BY <1>1, <1>3, <1>5, <1>6, <1>7, SurroundingsFit

\* A worker takes an execution, or recovery isolates one.
LEMMA StartFits ==
  ASSUME LocalInv, ClaimsGrow, NEW e \in Execs, Start(e) \/ RecoverNext(e)
  PROVE  RowTypes' /\ \A f \in Execs : LocalFits(f)'
<1>1. RowTypes /\ LocalFits(e)
  BY LocalParts
<1>2. PICK p \in {"check", "isolate"}, c \in {"active", "recovering"} :
        /\ Goto(e, At(p))
        /\ sched' = [sched EXCEPT ![e] = c]
        /\ p = "check" => sched[e] = "queued" /\ c = "active"
        /\ p = "isolate" => sched[e] = "recovering" /\ c = "recovering" /\ up = "recovering"
  <2>1. CASE Start(e)
    BY <2>1 DEF Start
  <2>2. CASE RecoverNext(e)
    <3>1. sched' = [sched EXCEPT ![e] = "recovering"]
      BY <1>1, <2>2 DEF RecoverNext, schedVars, RowTypes
    <3> QED
      BY <2>2, <3>1 DEF RecoverNext
  <2> QED
    BY <2>1, <2>2
<1>3. UNCHANGED <<status, rounds, authVars, userVars, delayed, parked, up, nudges>>
  BY Zenon DEF Start, RecoverNext, schedVars
<1>4. PICK q \in RunStates : q = At(p) /\ q.pc = p
  BY AtState DEF PCs
<1>5. /\ run' = [run EXCEPT ![e] = q] /\ run'[e] = q /\ sched'[e] = c
      /\ \A f \in Execs \ {e} : run'[f] = run[f] /\ sched'[f] = sched[f]
  BY <1>1, <1>2, <1>4 DEF Goto, RowTypes
<1>6. RowTypes'
  <2>1. run' \in [Execs -> RunStates]
        /\ sched' \in [Execs -> {"none", "queued", "active", "recovering"}]
    BY <1>1, <1>2, <1>4, <1>5 DEF RowTypes
  <2> QED
    BY <1>1, <1>3, <2>1, Zenon DEF RowTypes, authVars, userVars
<1>7. LocalFits(e)'
  <2>1. status[e] # "none" /\ (p = "check" => status[e] # "executing")
    BY <1>1, <1>2 DEF LocalFits, PlaceFits
  <2>2. Shaped(q) /\ ~InPass(q) /\ StatusFits(status[e], q)
    BY <1>4, <2>1 DEF Shaped, InPass, StatusFits
  <2>3. up # "down" /\ e \notin parked
    BY <1>1, <1>2 DEF LocalFits, PlaceFits
  <2>4. PlaceFits(e)'
    BY <1>2, <1>3, <1>4, <1>5, <2>1, <2>2, <2>3 DEF PlaceFits
  <2> QED
    BY <1>3, <1>4, <1>5, <2>2, <2>4 DEF LocalFits
<1>8. ASSUME NEW f \in Execs \ {e} PROVE Same(f)
  BY <1>3, <1>5 DEF Same, userVars
<1> QED
  BY <1>6, <1>7, <1>8, OneActedOn

\* The user or the worker gives an execution another status.
LEMMA RestatedFits ==
  ASSUME LocalInv, ClaimsGrow, NEW e \in Execs, NEW s, status' = [status EXCEPT ![e] = s],
         \/ s \in Terminal
         \/ s = "planning" /\ status[e] = "needs_input"
         \/ s = "queued" /\ status[e] = "none",
         Serving, UNCHANGED <<rounds, run, authVars, delayed, up>>,
         sched' = sched \/ sched' = [sched EXCEPT ![e] = IF @ = "none" THEN "queued" ELSE @],
         sched' = sched => parked' = parked,
         sched' # sched => parked' = parked \ {e},
         nudges' \in 0..MaxNudges,
         appr' \in [Execs -> Keys \cup {NoKey}], \A f \in Execs \ {e} : appr'[f] = appr[f],
         ops' \in [Execs -> [OpKinds -> {"closed", "accepted", "running"}]],
         \A f \in Execs \ {e}, kind \in OpKinds :
           \/ ops'[f][kind] = ops[f][kind]
           \/ status[f] \in Parked /\ ops[f][kind] = "running" /\ ops'[f][kind] = "closed"
  PROVE  RowTypes' /\ \A f \in Execs : LocalFits(f)'
<1>1. RowTypes /\ LocalFits(e)
  BY LocalParts
<1>2. StatusFits(s, run[e]) /\ s \in Statuses \ {"none", "executing"} /\ up = "up"
  <2>1. run[e].pc \in AwaitPoints /\ up = "up"
    BY DEF Serving, Yielded
  <2> QED
    BY <2>1, OutsideStatus
<1>3. status'[e] = s /\ \A f \in Execs \ {e} : status'[f] = status[f]
  BY <1>1 DEF RowTypes
<1>4. /\ sched' \in [Execs -> {"none", "queued", "active", "recovering"}]
      /\ sched'[e] = sched[e] \/ (sched[e] = "none" /\ sched'[e] = "queued")
      /\ sched'[e] # sched[e] => e \notin parked'
      /\ \A f \in Execs \ {e} : sched'[f] = sched[f]
      /\ parked' \subseteq Execs /\ parked' \subseteq parked
      /\ \A f \in Execs \ {e} : f \in parked' <=> f \in parked
  BY <1>1 DEF RowTypes
<1>5. RowTypes'
  <2>1. status' \in [Execs -> Statuses]
    BY <1>1, <1>2 DEF RowTypes
  <2> QED
    BY <1>1, <1>4, <2>1, Zenon DEF RowTypes, authVars
<1>6. LocalFits(e)'
  <2>1. PlaceFits(e)'
    BY <1>1, <1>2, <1>3, <1>4 DEF PlaceFits, LocalFits
  <2>2. /\ Shaped(run'[e]) /\ StatusFits(status'[e], run'[e])
        /\ run'[e].pc = "plan" => rounds'[e] < MaxRounds
        /\ run'[e].pc = "probe" => claim'[run'[e].cur] # "none"
    BY <1>1, <1>2, <1>3 DEF LocalFits, ClaimsGrow, Shaped
  <2> QED
    BY <2>1, <2>2 DEF LocalFits
<1>7. ASSUME NEW f \in Execs \ {e} PROVE Same(f)
  BY <1>3, <1>4 DEF Same
<1> QED
  BY <1>5, <1>6, <1>7, OneActedOn

\* _refresh_running only closes running operations.
LEMMA RefreshedOps ==
  ASSUME LocalInv, NEW o \in [Execs -> [OpKinds -> {"closed", "accepted", "running"}]]
  PROVE  /\ Refreshed(o) \in [Execs -> [OpKinds -> {"closed", "accepted", "running"}]]
         /\ \A f \in Execs, kind \in OpKinds :
              \/ Refreshed(o)[f][kind] = o[f][kind]
              \/ status[f] \in Parked /\ o[f][kind] = "running"
                 /\ Refreshed(o)[f][kind] = "closed"
BY DEF Refreshed

\* So do admission, input, cancel, approval and rejection.
LEMMA UserFits ==
  ASSUME LocalInv, ClaimsGrow, NEW e \in Execs, UserStep(e)
  PROVE  RowTypes' /\ \A f \in Execs : LocalFits(f)'
<1>1. RowTypes
  BY LocalParts
<1>2. CASE Admit(e)
  <2>1. ops' = [ops EXCEPT ![e]["execute"] = "accepted"] /\ "execute" \in OpKinds
    BY <1>2 DEF Admit, OpKinds
  <2>2. /\ ops' \in [Execs -> [OpKinds -> {"closed", "accepted", "running"}]]
        /\ \A f \in Execs \ {e}, any \in OpKinds : ops'[f][any] = ops[f][any]
    BY <1>1, <2>1 DEF RowTypes
  <2>3. /\ Serving /\ status[e] = "none" /\ status' = [status EXCEPT ![e] = "queued"]
        /\ UNCHANGED <<rounds, run, authVars, delayed, up>> /\ sched' = sched /\ parked' = parked
        /\ nudges' = nudges /\ appr' = appr
    BY <1>2 DEF Admit, schedVars
  <2> QED
    BY <1>1, <2>2, <2>3, RestatedFits, ZenonT(30) DEF RowTypes
<1>3. CASE Input(e)
  <2>1. ops' = [ops EXCEPT ![e]["input"] = "accepted"] /\ "input" \in OpKinds
    BY <1>3 DEF Input, OpKinds
  <2>2. /\ ops' \in [Execs -> [OpKinds -> {"closed", "accepted", "running"}]]
        /\ \A f \in Execs \ {e}, any \in OpKinds : ops'[f][any] = ops[f][any]
    BY <1>1, <2>1 DEF RowTypes
  <2>3. /\ Serving /\ status[e] = "needs_input" /\ status' = [status EXCEPT ![e] = "planning"]
        /\ UNCHANGED <<rounds, run, authVars, delayed, up>> /\ sched' = sched /\ parked' = parked
        /\ nudges' = nudges + 1 /\ nudges < MaxNudges /\ appr' = appr
    BY <1>3 DEF Input, schedVars
  <2>4. nudges' \in 0..MaxNudges
    BY <1>1, <2>3, ActionRunAssumption DEF RowTypes
  <2> QED
    BY <1>1, <2>2, <2>3, <2>4, RestatedFits, ZenonT(30) DEF RowTypes
<1>4. CASE Cancel(e) \/ Reject(e)
  <2>1. /\ Serving /\ status' = [status EXCEPT ![e] = "cancelled"]
        /\ UNCHANGED <<rounds, run, authVars, delayed, up>> /\ sched' = sched /\ parked' = parked
        /\ nudges' = nudges /\ ops' = ops
    BY <1>4 DEF Cancel, Reject, schedVars, userVars
  <2>2. appr' = appr \/ appr' = [appr EXCEPT ![e] = NoKey]
    BY <1>4 DEF Cancel, Reject, userVars
  <2>3. appr' \in [Execs -> Keys \cup {NoKey}] /\ \A f \in Execs \ {e} : appr'[f] = appr[f]
    BY <1>1, <2>2 DEF RowTypes
  <2>4. "cancelled" \in Terminal
    BY DEF Terminal
  <2> QED
    BY <1>1, <2>1, <2>3, <2>4, RestatedFits DEF RowTypes
<1>5. ASSUME NEW g \in Grants, Approve(e, g) PROVE RowTypes' /\ \A f \in Execs : LocalFits(f)'
  <2>1. /\ Serving /\ status[e] = "needs_input" /\ status' = [status EXCEPT ![e] = "planning"]
        /\ UNCHANGED <<rounds, run, authVars, delayed, up>>
        /\ sched' = [sched EXCEPT ![e] = IF @ = "none" THEN "queued" ELSE @]
        /\ parked' = parked \ {e}
        /\ nudges' = nudges /\ ops' = ops /\ appr' = [appr EXCEPT ![e] = NoKey]
    BY <1>5 DEF Approve, Resume
  <2>2. appr' \in [Execs -> Keys \cup {NoKey}] /\ \A f \in Execs \ {e} : appr'[f] = appr[f]
    BY <1>1, <2>1 DEF RowTypes
  <2>3. sched' = sched => parked' = parked
    <3>1. CASE sched[e] = "none"
      BY <1>1, <2>1, <3>1 DEF RowTypes
    <3>2. CASE sched[e] # "none"
      BY <2>1, <3>2 DEF LocalInv, PlaceFits
    <3> QED
      BY <3>1, <3>2
  <2> QED
    BY <1>1, <2>1, <2>2, <2>3, RestatedFits DEF RowTypes
<1> QED
  BY <1>2, <1>3, <1>4, <1>5 DEF UserStep

\* The scheduler is handed an execution, or only the operations change.
LEMMA HandedFits ==
  ASSUME LocalInv, ClaimsGrow, NEW e \in Execs,
         UNCHANGED <<status, rounds, run, authVars, appr, up, nudges>>,
         up # "down", status[e] # "none",
         \/ Enqueue(e)
         \/ Resume(e)
         \/ UNCHANGED <<sched, parked>>,
         delayed' = delayed \/ delayed' = delayed \ {e},
         ops' \in [Execs -> [OpKinds -> {"closed", "accepted", "running"}]],
         \A f \in Execs \ {e}, kind \in OpKinds :
           \/ ops'[f][kind] = ops[f][kind]
           \/ status[f] \in Parked /\ ops[f][kind] = "running" /\ ops'[f][kind] = "closed"
  PROVE  RowTypes' /\ \A f \in Execs : LocalFits(f)'
<1>1. RowTypes /\ LocalFits(e)
  BY LocalParts
<1>2. /\ sched' \in [Execs -> {"none", "queued", "active", "recovering"}]
      /\ \/ sched'[e] = sched[e] /\ (e \in parked' => e \in parked)
         \/ sched[e] = "none" /\ sched'[e] = "queued" /\ e \notin parked'
      /\ \A f \in Execs \ {e} : sched'[f] = sched[f]
      /\ parked' \subseteq Execs
      /\ \A f \in Execs \ {e} : f \in parked' <=> f \in parked
  BY <1>1 DEF RowTypes, Enqueue, Resume
<1>3. RowTypes'
  <2>1. delayed' \subseteq Execs
    BY <1>1 DEF RowTypes
  <2> QED
    BY <1>1, <1>2, <2>1, Zenon DEF RowTypes, authVars
<1>4. LocalFits(e)'
  <2>1. PlaceFits(e)'
    BY <1>1, <1>2 DEF PlaceFits, LocalFits
  <2>2. /\ Shaped(run'[e]) /\ StatusFits(status'[e], run'[e])
        /\ run'[e].pc = "plan" => rounds'[e] < MaxRounds
        /\ run'[e].pc = "probe" => claim'[run'[e].cur] # "none"
    BY <1>1 DEF LocalFits, ClaimsGrow, Shaped
  <2> QED
    BY <2>1, <2>2 DEF LocalFits
<1>5. ASSUME NEW f \in Execs \ {e} PROVE Same(f)
  BY <1>2 DEF Same
<1> QED
  BY <1>3, <1>4, <1>5, OneActedOn

\* The operation worker and a sleeping resume leave every execution in order.
LEMMA WorkerFits ==
  ASSUME LocalInv, ClaimsGrow, NEW e \in Execs, WorkerStep(e) \/ ResumeLater(e)
  PROVE  RowTypes' /\ \A f \in Execs : LocalFits(f)'
<1>1. RowTypes /\ LocalFits(e)
  BY LocalParts
<1>2. CASE ResumeLater(e)
  <2>1. /\ UNCHANGED <<status, rounds, run, authVars, appr, up, nudges>>
        /\ Enqueue(e) /\ delayed' = delayed \ {e} /\ ops' = ops /\ e \in delayed
    BY <1>2 DEF ResumeLater, runVars, userVars
  <2>2. up # "down" /\ status[e] # "none"
    BY <1>1, <2>1 DEF LocalFits, PlaceFits
  <2> QED
    BY <1>1, <2>1, <2>2, HandedFits DEF RowTypes
<1>3. ASSUME NEW kind \in OpKinds, Dispatch(e, kind) \/ DispatchDenied(e, kind)
      PROVE  RowTypes' /\ \A f \in Execs : LocalFits(f)'
  <2>1. Serving /\ up = "up" /\ ops[e][kind] = "accepted" /\ status[e] # "none"
    BY <1>1, <1>3 DEF Dispatch, DispatchDenied, Serving, LocalFits, PlaceFits
  <2>2. CASE Dispatch(e, kind)
    <3>1. PICK o : o = [ops EXCEPT ![e][kind] = "running"]
      OBVIOUS
    <3>2. /\ o \in [Execs -> [OpKinds -> {"closed", "accepted", "running"}]]
          /\ \A f \in Execs \ {e}, any \in OpKinds : o[f][any] = ops[f][any]
      BY <1>1, <3>1 DEF RowTypes
    <3>3. /\ ops' = Refreshed(o) /\ (Enqueue(e) \/ Resume(e))
          /\ UNCHANGED <<status, rounds, run, authVars, appr, up, nudges>> /\ delayed' = delayed
      BY <2>2, <3>1 DEF Dispatch, runVars
    <3>4. /\ ops' \in [Execs -> [OpKinds -> {"closed", "accepted", "running"}]]
          /\ \A f \in Execs \ {e}, any \in OpKinds :
               \/ ops'[f][any] = ops[f][any]
               \/ status[f] \in Parked /\ ops[f][any] = "running" /\ ops'[f][any] = "closed"
      BY <3>2, <3>3, RefreshedOps
    <3> QED
      BY <2>1, <3>3, <3>4, HandedFits
  <2>3. CASE DispatchDenied(e, kind)
    <3>1. PICK o : o = Refreshed(ops)
      OBVIOUS
    <3>2. /\ o \in [Execs -> [OpKinds -> {"closed", "accepted", "running"}]]
          /\ \A f \in Execs, any \in OpKinds :
               \/ o[f][any] = ops[f][any]
               \/ status[f] \in Parked /\ ops[f][any] = "running" /\ o[f][any] = "closed"
      BY <1>1, <3>1, RefreshedOps DEF RowTypes
    <3>3. ops' = [o EXCEPT ![e][kind] = "closed"]
      BY <2>3, <3>1 DEF DispatchDenied
    <3>4. /\ ops' \in [Execs -> [OpKinds -> {"closed", "accepted", "running"}]]
          /\ \A f \in Execs \ {e}, any \in OpKinds : ops'[f][any] = o[f][any]
      BY <3>2, <3>3
    <3>5. PICK s : s = IF status[e] \in Terminal THEN status[e] ELSE "cancelled"
      OBVIOUS
    <3>6. s \in Terminal
      BY <3>5 DEF Terminal
    <3>7. /\ status' = [status EXCEPT ![e] = s]
          /\ UNCHANGED <<rounds, run, authVars, delayed, up>> /\ sched' = sched
          /\ parked' = parked /\ nudges' = nudges /\ appr' = appr
      BY <2>3, <3>5 DEF DispatchDenied, schedVars
    <3>8. \A f \in Execs \ {e}, any \in OpKinds :
            \/ ops'[f][any] = ops[f][any]
            \/ status[f] \in Parked /\ ops[f][any] = "running" /\ ops'[f][any] = "closed"
      BY <3>2, <3>4
    <3> QED
      BY <1>1, <2>1, <3>4, <3>6, <3>7, <3>8, RestatedFits DEF RowTypes
  <2> QED
    BY <1>3, <2>2, <2>3
<1> QED
  BY <1>2, <1>3 DEF WorkerStep

\* A restart: the coroutines are gone, the rows stay.
LEMMA CrashFits ==
  ASSUME LocalInv, ClaimsGrow, Crash
  PROVE  RowTypes' /\ \A f \in Execs : LocalFits(f)'
<1>1. RowTypes
  BY LocalParts
<1>2. PICK q \in RunStates : q = Off /\ q.pc = "off"
  BY AtState DEF Off, PCs
<1>3. /\ up' = "down" /\ run' = [e \in Execs |-> q] /\ sched' = [e \in Execs |-> "none"]
      /\ delayed' = {} /\ parked' = {}
      /\ UNCHANGED <<status, rounds, authVars, userVars>>
  BY <1>2 DEF Crash
<1>4. nudges' \in 0..MaxNudges
  BY NudgeTyped DEF Crash
<1>5. RowTypes'
  <2>1. run' \in [Execs -> RunStates]
        /\ sched' \in [Execs -> {"none", "queued", "active", "recovering"}]
        /\ delayed' \subseteq Execs /\ parked' \subseteq Execs
    BY <1>3
  <2> QED
    BY <1>1, <1>3, <1>4, <2>1, Zenon DEF RowTypes, authVars, userVars
<1>6. ASSUME NEW f \in Execs PROVE LocalFits(f)'
  <2>1. LocalFits(f) /\ run'[f] = q /\ sched'[f] = "none"
    BY <1>3, LocalParts
  <2>2. Shaped(q) /\ ~InPass(q) /\ StatusFits(status[f], q)
    BY <1>2 DEF Shaped, InPass, StatusFits
  <2>3. PlaceFits(f)'
    BY <1>2, <1>3, <2>1 DEF PlaceFits, LocalFits, userVars
  <2> QED
    BY <1>2, <1>3, <2>1, <2>2, <2>3 DEF LocalFits
<1> QED
  BY <1>5, <1>6

\* What recover_startup does to one execution.
LEMMA RecoverRows ==
  ASSUME LocalInv, Recover, NEW f \in Execs
  PROVE  /\ run[f].pc = "off"
         /\ \/ /\ status[f] \in {"queued", "waiting_external", "reconciling"}
               /\ sched'[f] = "queued" /\ status'[f] \in {status[f], "reconciling"}
            \/ /\ status[f] \in Active /\ status'[f] = status[f] /\ sched'[f] = "recovering"
            \/ /\ status[f] \notin Active /\ status'[f] = status[f] /\ sched'[f] = "none"
<1> DEFINE live == {e \in Execs : status[e] \in Active}
           again == {e \in live : Fenced(e) /\
                       status[e] \in {"queued", "waiting_external", "reconciling"}}
<1>1. run[f].pc = "off"
  BY DEF Recover, LocalInv, PlaceFits
<1>2. /\ status' = [e \in Execs |->
            IF e \in again /\ Pending(e) # {} THEN "reconciling" ELSE status[e]]
      /\ sched' = [e \in Execs |->
            IF e \in again THEN "queued" ELSE IF e \in live THEN "recovering" ELSE "none"]
  BY DEF Recover
<1>3. /\ status'[f] = (IF f \in again /\ Pending(f) # {} THEN "reconciling" ELSE status[f])
      /\ sched'[f] = (IF f \in again THEN "queued" ELSE IF f \in live THEN "recovering" ELSE "none")
  BY <1>2
<1>4. f \in again => status[f] \in {"queued", "waiting_external", "reconciling"}
  OBVIOUS
<1>5. f \in live <=> status[f] \in Active
  OBVIOUS
<1> HIDE DEF live, again
<1> QED
  BY <1>1, <1>3, <1>4, <1>5

\* The transaction of recover_startup leaves every execution in order.
LEMMA RecoverFits ==
  ASSUME LocalInv, ClaimsGrow, Recover
  PROVE  RowTypes' /\ \A f \in Execs : LocalFits(f)'
<1>1. RowTypes
  BY LocalParts
<1>2. /\ up = "down" /\ up' = "recovering"
      /\ UNCHANGED <<rounds, run, authVars, userVars, delayed, parked, nudges>>
      /\ DOMAIN status' = Execs /\ DOMAIN sched' = Execs
      /\ status' = [e \in Execs |-> status'[e]] /\ sched' = [e \in Execs |-> sched'[e]]
  BY DEF Recover
<1>3. ASSUME NEW f \in Execs
      PROVE  /\ status'[f] \in Statuses
             /\ sched'[f] \in {"none", "queued", "active", "recovering"}
  BY <1>1, <1>3, RecoverRows DEF RowTypes, Statuses, Active
<1>4. RowTypes'
  <2>1. status' \in [Execs -> Statuses]
        /\ sched' \in [Execs -> {"none", "queued", "active", "recovering"}]
    BY <1>2, <1>3
  <2> QED
    BY <1>1, <1>2, <2>1, Zenon DEF RowTypes, authVars, userVars
<1>5. ASSUME NEW f \in Execs PROVE LocalFits(f)'
  <2>1. LocalFits(f) /\ run[f].pc = "off" /\ ~InPass(run[f])
    BY LocalParts, RecoverRows DEF InPass
  <2>2. /\ \/ status'[f] = status[f]
           \/ status[f] # "none" /\ status'[f] = "reconciling"
        /\ sched'[f] = "queued" => status'[f] \notin {"none", "executing"}
        /\ status'[f] = "executing" => sched'[f] = "recovering"
        /\ status'[f] = "none" => sched'[f] = "none"
        /\ sched'[f] \in {"none", "queued", "recovering"}
    BY RecoverRows DEF Active
  <2>3. StatusFits(status'[f], run[f])
    BY <2>1, <2>2 DEF StatusFits
  <2>4. PlaceFits(f)'
    BY <1>2, <2>1, <2>2 DEF PlaceFits, LocalFits, userVars
  <2> QED
    BY <1>2, <2>1, <2>2, <2>3, <2>4 DEF LocalFits, userVars
<1> QED
  BY <1>4, <1>5

\* So does the refresh of the operations, before requests are served or later.
LEMMA ServeFits ==
  ASSUME LocalInv, ClaimsGrow, Serve \/ PollIdle
  PROVE  RowTypes' /\ \A f \in Execs : LocalFits(f)'
<1>1. RowTypes
  BY LocalParts
<1>2. PICK o : o = Refreshed(ops)
  OBVIOUS
<1>3. /\ o \in [Execs -> [OpKinds -> {"closed", "accepted", "running"}]]
      /\ \A f \in Execs, any \in OpKinds :
           \/ o[f][any] = ops[f][any]
           \/ status[f] \in Parked /\ ops[f][any] = "running" /\ o[f][any] = "closed"
  BY <1>1, <1>2, RefreshedOps DEF RowTypes
<1>4. CASE PollIdle
  <2>1. ops' = o /\ UNCHANGED <<status, run, rounds, authVars, appr, schedVars, up, nudges>>
    BY <1>2, <1>4 DEF PollIdle, runVars
  <2>2. RowTypes'
    BY <1>1, <1>3, <2>1, Zenon DEF RowTypes, authVars, schedVars
  <2>3. ASSUME NEW f \in Execs PROVE LocalFits(f)'
    <3>1. Same(f) /\ LocalFits(f)
      BY <1>3, <2>1, LocalParts DEF Same, schedVars
    <3> QED
      BY <3>1, SameFits
  <2> QED
    BY <2>2, <2>3
<1>5. CASE Serve
  <2>1. /\ ops' = [e \in Execs |-> [kind \in OpKinds |->
                    IF o[e][kind] = "running" THEN "accepted" ELSE o[e][kind]]]
        /\ UNCHANGED <<status, run, rounds, authVars, appr, schedVars, nudges>>
        /\ up = "recovering" /\ up' = "up" /\ \A e \in Execs : sched[e] # "recovering"
    BY <1>2, <1>5 DEF Serve, runVars
  <2>2. /\ ops' \in [Execs -> [OpKinds -> {"closed", "accepted", "running"}]]
        /\ \A f \in Execs, any \in OpKinds : ops[f][any] = "closed" => ops'[f][any] = "closed"
    BY <1>1, <1>3, <2>1 DEF RowTypes
  <2>3. RowTypes'
    <3>1. up' \in {"up", "down", "recovering"}
      BY <2>1
    <3> QED
      BY <1>1, <2>1, <2>2, <3>1, Zenon DEF RowTypes, authVars, schedVars
  <2>4. ASSUME NEW f \in Execs PROVE LocalFits(f)'
    <3>1. LocalFits(f)
      BY LocalParts
    <3>2. PlaceFits(f)'
      BY <2>1, <2>2, <3>1 DEF PlaceFits, LocalFits, schedVars
    <3> QED
      BY <2>1, <3>1, <3>2 DEF LocalFits, ClaimsGrow, Shaped
  <2> QED
    BY <2>3, <2>4
<1> QED
  BY <1>4, <1>5

\* Every execution is in order at the start.
LEMMA LocalStart == Init => LocalInv
<1> SUFFICES ASSUME Init PROVE LocalInv
  OBVIOUS
<1>1. PICK q \in RunStates : q = Off /\ q.pc = "off"
  BY AtState DEF Off, PCs
<1>2. RowTypes
  <2>1. run = [e \in Execs |-> q]
    BY <1>1 DEF Init
  <2> QED
    BY <2>1, ActionRunAssumption DEF Init, RowTypes, Statuses
<1>3. ClaimRows
  BY DEF Init, X!Init, ClaimRows, X!ClaimStatus
<1>4. ASSUME NEW e \in Execs PROVE LocalFits(e)
  <2>1. run[e] = q /\ status[e] = "none"
    BY <1>1 DEF Init
  <2>2. Shaped(q) /\ ~InPass(q) /\ StatusFits("none", q)
    BY <1>1 DEF Shaped, InPass, StatusFits
  <2>3. PlaceFits(e)
    BY <1>1, <2>1 DEF Init, PlaceFits
  <2> QED
    BY <1>1, <2>1, <2>2, <2>3 DEF LocalFits
<1> QED
  BY <1>2, <1>3, <1>4, LocalParts

\* Every step leaves every execution in order.
LEMMA LocalStep ==
  ASSUME LocalInv, [Next]_vars
  PROVE  LocalInv'
<1>1. ClaimRows' /\ ClaimsGrow
  <2>1. [X!Next]_execVars /\ ClaimRows
    BY StepRefines DEF LocalInv, RowsInv
  <2> QED
    BY <2>1, ClaimsKept DEF ClaimsGrow
<1>2. RowTypes' /\ \A f \in Execs : LocalFits(f)'
  <2>1. ASSUME NEW e \in Execs, RunnerStep(e) PROVE RowTypes' /\ \A f \in Execs : LocalFits(f)'
    <3>1. (Moved(e) \/ Returned(e)) /\ Aside(e)
      BY <1>1, <2>1, RunnerMoves
    <3> QED
      BY <1>1, <3>1, MovedFits, ReturnedFits
  <2>2. ASSUME NEW e \in Execs,
               \/ Start(e) \/ RecoverNext(e) \/ UserStep(e) \/ WorkerStep(e) \/ ResumeLater(e)
        PROVE  RowTypes' /\ \A f \in Execs : LocalFits(f)'
    BY <1>1, <2>2, StartFits, UserFits, WorkerFits
  <2>3. CASE \/ \E e \in Execs : Revoke(e) \/ \E k \in Keys : Revise(e, k)
             \/ (\E g \in Grants : Expire(g)) \/ HostDown \/ HostUp \/ World
    BY <1>1, <2>3, DisturbancesFit
  <2>4. CASE Crash
    BY <1>1, <2>4, CrashFits
  <2>5. CASE Recover
    BY <1>1, <2>5, RecoverFits
  <2>6. CASE Serve \/ PollIdle
    BY <1>1, <2>6, ServeFits
  <2>7. CASE UNCHANGED vars
    <3>1. UNCHANGED <<status, rounds, run, appr, ops, sched, delayed, parked, up>>
          /\ auth' = auth /\ host' = host /\ stale' = stale /\ nudges' = nudges
      BY <2>7, Zenon DEF vars, runVars, authVars, userVars, schedVars
    <3>2. auth' \subseteq Execs /\ stale' \in [Execs -> SUBSET Keys] /\ nudges' \in 0..MaxNudges
      BY <3>1 DEF LocalInv, RowsInv, RowTypes
    <3>3. host' \in BOOLEAN
      BY <3>1, Zenon DEF LocalInv, RowsInv, RowTypes
    <3> QED
      BY <1>1, <3>1, <3>2, <3>3, SurroundingsFit
  <2> QED
    BY <2>1, <2>2, <2>3, <2>4, <2>5, <2>6, <2>7, Zenon DEF Next
<1>3. LocalInv' <=> RowTypes' /\ ClaimRows' /\ \A e \in Execs : LocalFits(e)'
  BY DEF LocalInv, RowsInv, LocalFits
<1> QED
  BY <1>1, <1>2, <1>3

\* Whatever runners, users, the worker and restarts do, every row and every coroutine is
\* where the code expects it.
THEOREM LocalHolds == Spec => []LocalInv
BY LocalStart, LocalStep, PTL DEF Spec

\* The external-write path inside the runs behaves as ToolExecutor specifies it, so that
\* a run can neither post a write twice nor leave its claim without a ToolCall.
THEOREM RefinesExecutorHolds == Spec => RefinesExecutor
<1>1. Init => X!Init
  BY DEF Init
<1>2. LocalInv /\ [Next]_vars => [X!Next]_X!vars
  BY StepRefines DEF LocalInv, execVars, X!vars
<1> QED
  BY <1>1, <1>2, LocalHolds, PTL DEF Spec, RefinesExecutor, X!Spec

\* The assumptions of ToolExecutor hold of the constants of a run.
LEMMA ExecutorAssumptions == XP!GrantAssumption /\ XP!KeysAssumption
<1>1. XP!IsFiniteSet(Keys)
  BY ActionRunAssumption DEF XP!IsFiniteSet, IsFiniteSet
<1>2. NoGrant \notin Grants /\ GrantExec \in [Grants -> Execs]
  BY ActionRunAssumption
<1> QED
  BY <1>1, <1>2 DEF XP!GrantAssumption, XP!KeysAssumption

\* The two instances of the external-write path start alike.
LEMMA SameInit == X!Init => XP!Init
BY DEF X!Init, XP!Init

\* The two instances of the external-write path step alike.
LEMMA SameNext == [X!Next]_X!vars => [XP!Next]_XP!vars
<1>1. UNCHANGED X!vars => UNCHANGED XP!vars
  BY DEF X!vars, XP!vars
<1>2. X!Next => XP!Next
  BY Zenon DEF X!Next, XP!Next,
     X!IssueGrant, XP!IssueGrant, X!Request, XP!Request, X!ExecuteStep, XP!ExecuteStep,
     X!ReconcileStep, XP!ReconcileStep, X!Interrupt, XP!Interrupt, X!Recover, XP!Recover,
     X!Apply, XP!Apply, X!Lose, XP!Lose, X!Expire, XP!Expire, X!Crash, XP!Crash,
     X!Authorized, XP!Authorized, X!ConsumeGrant, XP!ConsumeGrant, X!ReleaseGrant, XP!ReleaseGrant,
     X!SearchMiss, XP!SearchMiss, X!SendCreate, XP!SendCreate, X!PersistCall, XP!PersistCall,
     X!ReturnsFree, XP!ReturnsFree, X!ReturnsRefused, XP!ReturnsRefused,
     X!ReturnsReused, XP!ReturnsReused, X!ReturnsCreated, XP!ReturnsCreated,
     X!ReturnsUnknown, XP!ReturnsUnknown, X!BeginReconcile, XP!BeginReconcile,
     X!ReconcileFound, XP!ReconcileFound, X!ReconcileUnknown, XP!ReconcileUnknown,
     X!Budget, XP!Budget, X!Executing, XP!Executing, X!Quiet, XP!Quiet,
     X!ExecuteSteps, XP!ExecuteSteps, X!Unresolved, XP!Unresolved,
     X!grantVars, XP!grantVars, X!worldVars, XP!worldVars, X!Cardinality, XP!Cardinality,
     X!IsFiniteSet, XP!IsFiniteSet
<1> QED
  BY <1>1, <1>2

\* So the inductive invariant of the external-write path holds in every run.
THEOREM ExecutorInvariant == Spec => []XP!IInv
<1>1. X!Spec => XP!Spec
  BY SameInit, SameNext, PTL DEF X!Spec, XP!Spec
<1>2. XP!Spec => []XP!IInv
  BY XP!Invariance, ExecutorAssumptions, PTL
<1> QED
  BY <1>1, <1>2, RefinesExecutorHolds, PTL DEF RefinesExecutor

\* What the external-write path promises of itself.
ExecutorSafe == X!OneIssue /\ X!BudgetRespected /\ X!ClaimTellsTruth /\ X!PersistNeverBlocked

\* Through denials, cancels, approvals, waits, retries and restarts of runs: one mutation
\* for a key, the budget of the user's grant kept, claims that do not mislead, and no
\* answer of the task system lost.
THEOREM RunsKeepExecutorSafe == Spec => []ExecutorSafe
<1>1. X!Spec => XP!Spec
  BY SameInit, SameNext, PTL DEF X!Spec, XP!Spec
<1>2. XP!Spec => /\ []XP!OneIssue /\ []XP!BudgetRespected /\ []XP!ClaimTellsTruth
                 /\ []XP!PersistNeverBlocked
  BY XP!OneIssueHolds, XP!BudgetHolds, XP!ClaimTruth, XP!PersistUnblocked, ExecutorAssumptions, PTL
<1>3. XP!OneIssue /\ XP!BudgetRespected /\ XP!ClaimTellsTruth /\ XP!PersistNeverBlocked
        => ExecutorSafe
  BY DEF ExecutorSafe, X!OneIssue, XP!OneIssue, X!BudgetRespected, XP!BudgetRespected,
     X!Budget, XP!Budget, X!Cardinality, XP!Cardinality, X!IsFiniteSet, XP!IsFiniteSet,
     X!ClaimTellsTruth, XP!ClaimTellsTruth, X!PersistNeverBlocked, XP!PersistNeverBlocked,
     X!ExecuteSteps, XP!ExecuteSteps
<1> QED
  BY <1>1, <1>2, <1>3, RefinesExecutorHolds, PTL DEF RefinesExecutor

-----------------------------------------------------------------------------
(* The ToolCalls of an execution and who is responsible for them.          *)

ES == X!ExecuteSteps

\* What a run relies on of the external-write path.
ExecutorFacts ==
  /\ X!TypeOK
  /\ \A g \in Grants, k \in Keys :
       /\ step[g][k] \in ES => call[g][k] = "requesting"
       /\ step[g][k] = "reconcile" => call[g][k] = "reconciling"
  /\ \A e \in Execs : grantOf[e] # NoGrant => GrantExec[grantOf[e]] = e
  /\ \A g \in Grants : gstat[g] = "none" => \A k \in Keys : call[g][k] = "none"
  /\ \A g \in Grants, k \in Keys : step[g][k] \in ES =>
       grantOf[GrantExec[g]] = g /\ \A l \in Keys : step[g][l] \in ES => l = k

\* The invariant of the external-write path says all a run relies on.
LEMMA FactsHold == XP!IInv => ExecutorFacts
<1> SUFFICES ASSUME XP!IInv PROVE ExecutorFacts
  OBVIOUS
<1>1. X!TypeOK
  BY DEF XP!IInv, XP!TypeOK, X!TypeOK, XP!GrantStatus, X!GrantStatus, XP!ClaimStatus, X!ClaimStatus,
     XP!CallStatus, X!CallStatus, XP!Steps, X!Steps, XP!Wire, X!Wire
<1>2. \A g \in Grants, k \in Keys :
        /\ step[g][k] \in ES => call[g][k] = "requesting"
        /\ step[g][k] = "reconcile" => call[g][k] = "reconciling"
  BY DEF XP!IInv, XP!StepInv, ES, X!ExecuteSteps
<1>3. \A e \in Execs : grantOf[e] # NoGrant => GrantExec[grantOf[e]] = e
  BY DEF XP!IInv, XP!GrantInv
<1>4. \A g \in Grants : gstat[g] = "none" => \A k \in Keys : call[g][k] = "none"
  BY DEF XP!IInv, XP!GrantInv
<1>5. \A g \in Grants, k \in Keys : step[g][k] \in ES =>
        grantOf[GrantExec[g]] = g /\ \A l \in Keys : step[g][l] \in ES => l = k
  BY DEF XP!IInv, XP!WriterInv, ES, X!ExecuteSteps, XP!ExecuteSteps
<1> QED
  BY <1>1, <1>2, <1>3, <1>4, <1>5 DEF ExecutorFacts

\* No ToolCall of f begins, and none that stays in requesting wins or loses its coroutine.
CallsCalm(f) ==
  \A g \in Grants, k \in Keys : GrantExec[g] = f =>
    /\ call'[g][k] = "requesting" =>
         call[g][k] = "requesting" /\ (step'[g][k] \in ES <=> step[g][k] \in ES)
    /\ call[g][k] = "none" => call'[g][k] = "none"

Calm(f) == grantOf'[f] = grantOf[f] /\ CallsCalm(f)

\* One ToolCall is answered or taken up for reconciliation.
LEMMA AnswerCalm ==
  ASSUME ExecutorFacts, NEW g \in Grants, NEW k \in Keys,
         X!ExecuteStep(g, k) \/ X!ReconcileStep(g, k)
  PROVE  \A f \in Execs : Calm(f)
<1>1. /\ call \in [Grants -> [Keys -> X!CallStatus]] /\ step \in [Grants -> [Keys -> X!Steps]]
      /\ step[g][k] \in ES => call[g][k] = "requesting"
      /\ step[g][k] = "reconcile" => call[g][k] = "reconciling"
  BY DEF ExecutorFacts, X!TypeOK
<1>2. CASE X!SearchMiss(g, k) \/ X!SendCreate(g, k)
  <2>1. PICK s \in ES : step' = [step EXCEPT ![g][k] = s]
    BY <1>2 DEF X!SearchMiss, X!SendCreate, ES, X!ExecuteSteps
  <2>2. step[g][k] \in ES /\ UNCHANGED <<call, grantOf>>
    BY <1>2 DEF X!SearchMiss, X!SendCreate, ES, X!ExecuteSteps, X!grantVars
  <2> QED
    BY <1>1, <2>1, <2>2 DEF Calm, CallsCalm
<1>3. CASE \/ X!ReturnsRefused(g, k) \/ X!ReturnsReused(g, k) \/ X!ReturnsCreated(g, k)
           \/ X!ReturnsUnknown(g, k) \/ X!ReconcileFound(g, k) \/ X!ReconcileUnknown(g, k)
           \/ X!BeginReconcile(g, k)
  <2>1. PICK c : /\ c \in {"failed", "succeeded", "unknown", "reconciling"}
                 /\ call' = [call EXCEPT ![g][k] = c]
                 /\ \E s : step' = [step EXCEPT ![g][k] = s]
    BY <1>3, Zenon DEF X!ReturnsRefused, X!ReturnsReused, X!ReturnsFree, X!ReturnsCreated,
       X!ReturnsUnknown, X!ReconcileFound, X!ReconcileUnknown, X!BeginReconcile, X!PersistCall
  <2>2. grantOf' = grantOf
    BY <1>3, Zenon DEF X!ReturnsRefused, X!ReturnsReused, X!ReturnsFree, X!ReturnsCreated,
       X!ReturnsUnknown, X!ReconcileFound, X!ReconcileUnknown, X!BeginReconcile, X!PersistCall,
       X!grantVars
  <2>3. call[g][k] # "none"
    <3>1. step[g][k] \in ES \/ step[g][k] = "reconcile" \/ call[g][k] \in {"unknown", "reconciling"}
      BY <1>3 DEF X!ReturnsRefused, X!ReturnsReused, X!ReturnsFree, X!ReturnsCreated,
         X!ReturnsUnknown, X!ReconcileFound, X!ReconcileUnknown, X!BeginReconcile, ES, X!ExecuteSteps
    <3> QED
      BY <1>1, <3>1
  <2> QED
    BY <1>1, <2>1, <2>2, <2>3 DEF Calm, CallsCalm
<1> QED
  BY <1>2, <1>3 DEF X!ExecuteStep, X!ReconcileStep

\* Everything else but a request, a new grant and a crash.
LEMMA OtherCalm ==
  ASSUME ExecutorFacts,
         \/ UNCHANGED execVars
         \/ \E e \in Execs : X!Interrupt(e)
         \/ \E E : X!Recover(E)
         \/ \E g \in Grants, k \in Keys : X!Apply(g, k) \/ X!Lose(g, k)
         \/ \E g \in Grants : X!Expire(g)
  PROVE  \A f \in Execs : Calm(f)
<1>1. call \in [Grants -> [Keys -> X!CallStatus]]
  BY DEF ExecutorFacts, X!TypeOK
<1>2. UNCHANGED <<step, grantOf>>
  BY Zenon DEF X!Interrupt, X!Recover, X!Apply, X!Lose, X!Expire, X!grantVars, execVars
<1>3. ASSUME NEW e \in Execs, X!Interrupt(e), NEW g \in Grants, NEW k \in Keys
      PROVE  /\ call'[g][k] = "requesting" => call[g][k] = "requesting"
             /\ call[g][k] = "none" => call'[g][k] = "none"
  BY <1>1, <1>3 DEF X!Interrupt
<1>4. ASSUME NEW E, X!Recover(E), NEW g \in Grants, NEW k \in Keys
      PROVE  /\ call'[g][k] = "requesting" => call[g][k] = "requesting"
             /\ call[g][k] = "none" => call'[g][k] = "none"
  BY <1>1, <1>4 DEF X!Recover, X!Unresolved
<1>5. UNCHANGED call \/ (\E e \in Execs : X!Interrupt(e)) \/ (\E E : X!Recover(E))
  BY Zenon DEF X!Apply, X!Lose, X!Expire, execVars
<1>6. \A g \in Grants, k \in Keys :
        /\ call'[g][k] = "requesting" => call[g][k] = "requesting"
        /\ call[g][k] = "none" => call'[g][k] = "none"
  BY <1>3, <1>4, <1>5
<1> QED
  BY <1>2, <1>6 DEF Calm, CallsCalm

\* A request is the business of its own execution.
LEMMA RequestCalm ==
  ASSUME ExecutorFacts, NEW e \in Execs, NEW k \in Keys, X!Request(e, k)
  PROVE  /\ grantOf[e] \in Grants /\ GrantExec[grantOf[e]] = e /\ grantOf' = grantOf
         /\ call' = [call EXCEPT ![grantOf[e]][k] = "requesting"]
         /\ step' = [step EXCEPT ![grantOf[e]][k] = "search"]
         /\ \A f \in Execs \ {e} : Calm(f)
<1>1. /\ call \in [Grants -> [Keys -> X!CallStatus]] /\ step \in [Grants -> [Keys -> X!Steps]]
      /\ grantOf \in [Execs -> Grants \cup {NoGrant}]
  BY DEF ExecutorFacts, X!TypeOK
<1>2. grantOf[e] \in Grants /\ GrantExec[grantOf[e]] = e
  BY <1>1 DEF X!Request, X!Authorized, ExecutorFacts
<1>3. /\ call' = [call EXCEPT ![grantOf[e]][k] = "requesting"]
      /\ step' = [step EXCEPT ![grantOf[e]][k] = "search"] /\ grantOf' = grantOf
  BY DEF X!Request
<1> QED
  BY <1>1, <1>2, <1>3 DEF Calm, CallsCalm

\* And so is a new grant, under which nothing has been requested.
LEMMA GrantCalm ==
  ASSUME ExecutorFacts, NEW e \in Execs, NEW g \in Grants, NEW C, X!IssueGrant(e, g, C)
  PROVE  /\ grantOf'[e] = g /\ UNCHANGED <<call, step>>
         /\ \A k \in Keys : call[g][k] = "none"
         /\ \A f \in Execs \ {e} : Calm(f)
         /\ CallsCalm(e)
BY DEF ExecutorFacts, X!TypeOK, X!IssueGrant, Calm, CallsCalm

\* What a step of a runner does to the ToolCalls: those of other executions are left
\* alone, and so are its own unless it makes a request.
LEMMA RunnerCalm ==
  ASSUME LocalInv, ExecutorFacts, NEW e \in Execs, RunnerStep(e)
  PROVE  /\ \A f \in Execs \ {e} : Calm(f)
         /\ Calm(e) \/ \E k \in Keys : ToolRequest(e, k)
<1>1. \/ UNCHANGED execVars
      \/ (\E k \in Keys : ToolRequest(e, k)) \/ ToolAwaits(e) \/ InterruptCalls(e) \/ Probe(e)
      \/ (\E k \in Keys : Attempt(e, k))
  BY Zenon DEF RunnerStep, Denied, Check, LoopHead, PlanRaises, PlanExhausted, PlanDecides,
     PlanInvokes, PlanUnauthorized, Freshness, Walk, ReadsDone, ToolDenied, ToolStored,
     ToolUnauthorized, BatchEnds, ReconcileEnds, Fail, ResumeExternal, Isolate
<1>2. ASSUME NEW k \in Keys, ToolRequest(e, k) PROVE \A f \in Execs \ {e} : Calm(f)
  BY <1>2, RequestCalm DEF ToolRequest
<1>3. CASE ToolAwaits(e)
  <2>1. PICK g \in Grants, k \in Keys : X!ExecuteStep(g, k)
    BY <1>3, Zenon DEF ToolAwaits, X!ExecuteStep
  <2> QED
    BY <2>1, AnswerCalm
<1>4. CASE InterruptCalls(e) \/ UNCHANGED execVars
  <2>1. X!Interrupt(e) \/ UNCHANGED execVars
    BY <1>4, Zenon DEF InterruptCalls
  <2> QED
    BY <2>1, OtherCalm
<1>5. CASE Probe(e)
  <2>1. run[e].pc = "probe"
    BY <1>5 DEF Probe
  <2>2. run[e].cur \in Keys /\ holder[run[e].cur] \in Grants
    BY <2>1 DEF LocalInv, RowsInv, Shaped, ClaimRows
  <2>3. X!ReconcileStep(holder[run[e].cur], run[e].cur)
    BY <1>5, Zenon DEF Probe, X!ReconcileStep
  <2> QED
    BY <2>2, <2>3, AnswerCalm
<1>6. ASSUME NEW k \in Keys, Attempt(e, k) PROVE \A f \in Execs : Calm(f)
  <2>1. X!BeginReconcile(holder[k], k)
    BY <1>6, Zenon DEF Attempt
  <2>2. holder[k] \in Grants
    BY <2>1 DEF X!BeginReconcile, LocalInv, RowsInv, ClaimRows
  <2>3. X!ReconcileStep(holder[k], k)
    BY <2>1, Zenon DEF X!ReconcileStep
  <2> QED
    BY <2>2, <2>3, AnswerCalm
<1> QED
  BY <1>1, <1>2, <1>3, <1>4, <1>5, <1>6

-----------------------------------------------------------------------------
(* Nothing is left unattended.                                             *)

RunFits(e) == DrivenFits(e) /\ CallsFit(e)

RunInv == LocalInv /\ \A e \in Execs : RunFits(e)

\* An approval nobody acted on stays one while its execution is left alone.
LEMMA ApprovalKept ==
  ASSUME ExecutorFacts, NEW f \in Execs, Calm(f), status'[f] = status[f], ApprovedUnused(f)
  PROVE  ApprovedUnused(f)'
<1>1. grantOf[f] \in Grants /\ GrantExec[grantOf[f]] = f /\ grantOf'[f] = grantOf[f]
  BY DEF ExecutorFacts, X!TypeOK, ApprovedUnused, Calm
<1>2. \A k \in Keys : call'[grantOf[f]][k] = "none"
  BY <1>1 DEF ApprovedUnused, Calm, CallsCalm
<1> QED
  BY <1>1, <1>2 DEF ApprovedUnused

\* An execution that is left alone, with its calls, stays attended.
LEMMA SameRunFits ==
  ASSUME ExecutorFacts, NEW f \in Execs, RunFits(f), Same(f), Calm(f)
  PROVE  RunFits(f)'
<1>1. CallsFit(f)'
  BY DEF RunFits, CallsFit, Same, Calm, CallsCalm, ES
<1>2. DrivenFits(f)'
  <2> SUFFICES ASSUME status[f] \in Active
               PROVE  /\ f \in parked' => ops'[f]["input"] \in {"accepted", "running"}
                      /\ InPass(run'[f]) => up' = "up" /\ Reopened(f)'
                      /\ up' # "down" => Scheduled(f)' \/ Reopened(f)'
    BY DEF DrivenFits, Same
  <2>1. \A kind \in OpKinds : ops'[f][kind] = ops[f][kind]
    BY DEF Same, Active, Parked, Terminal
  <2>2. "input" \in OpKinds
    BY DEF OpKinds
  <2>3. Reopened(f) => Reopened(f)'
    BY <2>1, <2>2, ApprovalKept DEF Reopened, Same
  <2>4. Scheduled(f) => Scheduled(f)'
    BY <2>1 DEF Scheduled, Same
  <2> QED
    BY <2>1, <2>2, <2>3, <2>4 DEF RunFits, DrivenFits, Same
<1> QED
  BY <1>1, <1>2 DEF RunFits

\* The calls of an execution whose runner is not in the adapter have no coroutine.
LEMMA IdleCalls ==
  ASSUME NEW f \in Execs, RunFits(f), run[f].pc # "await",
         NEW g \in Grants, NEW k \in Keys, GrantExec[g] = f, call[g][k] = "requesting"
  PROVE  /\ step[g][k] \notin ES
         /\ \/ status[f] \in Terminal
            \/ status[f] = "executing" /\ (up = "down" \/ sched[f] = "recovering")
BY DEF RunFits, CallsFit, ES

\* A runner that moves on or returns outside the adapter leaves no call behind.
LEMMA RunnerCalls ==
  ASSUME RunInv, ExecutorFacts, NEW e \in Execs, RunnerStep(e), Moved(e) \/ Returned(e), Aside(e)
  PROVE  CallsFit(e)'
<1>1. LocalFits(e) /\ RunFits(e) /\ RowTypes /\ run[e].pc # "off"
  <2>1. run[e].pc # "off"
    BY DEF Moved, MovedTo, Returned, ReturnedWith
  <2> QED
    BY <2>1, LocalParts DEF RunInv
<1>2. PICK s : status'[e] = s /\ LegalStep(e, s)
  <2>1. PICK s : status' = [status EXCEPT ![e] = s] /\ LegalStep(e, s)
    BY DEF Moved, MovedTo, Returned, ReturnedWith
  <2> QED
    BY <1>1, <2>1 DEF RowTypes
<1>3. status[e] \in Terminal => s = status[e]
  BY <1>2, TransitionsAre DEF LegalStep, Parked
<1>4. up # "down" /\ (sched[e] = "recovering" => run[e].pc = "isolate" \/ InPass(run[e]))
  BY <1>1 DEF LocalFits, PlaceFits
<1>5. sched[e] = "recovering" /\ status[e] = "executing" => run[e].pc = "isolate"
  BY <1>1, <1>4 DEF LocalFits, StatusFits, Terminal
<1>6. CASE run[e].pc \notin {"await", "isolate"} /\ Calm(e)
  <2> SUFFICES ASSUME NEW g \in Grants, NEW k \in Keys, GrantExec[g] = e,
                      call'[g][k] = "requesting"
               PROVE  step'[g][k] \notin ES /\ status'[e] \in Terminal
    BY DEF CallsFit, ES
  <2>1. call[g][k] = "requesting" /\ (step'[g][k] \in ES <=> step[g][k] \in ES)
    BY <1>6 DEF Calm, CallsCalm
  <2>2. step[g][k] \notin ES /\ status[e] \in Terminal
    BY <1>1, <1>4, <1>5, <1>6, <2>1, IdleCalls
  <2> QED
    BY <1>2, <1>3, <2>1, <2>2
<1>7. CASE Isolate(e)
  <2> SUFFICES ASSUME NEW g \in Grants, NEW k \in Keys, GrantExec[g] = e
               PROVE  call'[g][k] # "requesting"
    BY DEF CallsFit
  <2>1. CASE X!Interrupt(e)
    BY <2>1 DEF X!Interrupt
  <2>2. CASE ~X!Interrupt(e)
    BY <1>7, <2>2 DEF Isolate, InterruptCalls, execVars
  <2> QED
    BY <2>1, <2>2
<1>8. ASSUME NEW k \in Keys, ToolRequest(e, k) PROVE CallsFit(e)'
  <2>1. /\ run[e].pc = "tool" /\ status[e] \notin Terminal /\ X!Request(e, k)
        /\ Goto(e, [run[e] EXCEPT !.pc = "await", !.todo = @ \ {k}])
    BY <1>8 DEF ToolRequest, Fenced
  <2>2. run'[e].pc = "await"
    BY <1>1, <2>1 DEF Goto, RowTypes, RunStates
  <2>3. PICK g \in Grants : g = grantOf[e] /\ step' = [step EXCEPT ![g][k] = "search"]
                            /\ call' = [call EXCEPT ![g][k] = "requesting"]
    BY <2>1, RequestCalm, ZenonT(30)
  <2>4. ASSUME NEW h \in Grants, NEW l \in Keys, GrantExec[h] = e, call[h][l] = "requesting"
        PROVE  FALSE
    BY <1>1, <1>4, <1>5, <2>1, <2>4, IdleCalls
  <2>5. ASSUME NEW h \in Grants, NEW l \in Keys, GrantExec[h] = e, call'[h][l] = "requesting"
        PROVE  step'[h][l] \in ES
    <3>1. call \in [Grants -> [Keys -> X!CallStatus]] /\ step \in [Grants -> [Keys -> X!Steps]]
      BY DEF ExecutorFacts, X!TypeOK
    <3>2. h = g /\ l = k
      BY <2>3, <2>4, <2>5, <3>1
    <3> QED
      BY <2>3, <3>1, <3>2 DEF ES, X!ExecuteSteps
  <2> QED
    BY <2>2, <2>5 DEF CallsFit, ES
<1>9. CASE ToolAwaits(e)
  <2>1. UNCHANGED <<status, sched, up>> /\ run[e].pc = "await"
    BY <1>9 DEF ToolAwaits, schedVars
  <2>2. Calm(e)
    BY <1>9, RunnerCalm DEF RunInv, ToolAwaits, ToolRequest
  <2>3. ASSUME NEW g \in Grants, NEW k \in Keys, GrantExec[g] = e,
               call'[g][k] = "requesting", step[g][k] \in ES
        PROVE  run'[e].pc = "await"
    <3>1. PICK h \in Grants, l \in Keys :
            /\ GrantExec[h] = e
            /\ \/ (X!SearchMiss(h, l) \/ X!SendCreate(h, l)) /\ UNCHANGED run
               \/ X!ReturnsRefused(h, l) \/ X!ReturnsReused(h, l) \/ X!ReturnsCreated(h, l)
               \/ X!ReturnsUnknown(h, l)
      BY <1>9, Zenon DEF ToolAwaits
    <3>2. CASE UNCHANGED run
      BY <2>1, <3>2
    <3>3. CASE \/ X!ReturnsRefused(h, l) \/ X!ReturnsReused(h, l) \/ X!ReturnsCreated(h, l)
               \/ X!ReturnsUnknown(h, l)
      <4>1. step[h][l] \in ES
        BY <3>3 DEF X!ReturnsRefused, X!ReturnsReused, X!ReturnsFree, X!ReturnsCreated,
           X!ReturnsUnknown, ES, X!ExecuteSteps
      <4>2. g = h /\ k = l
        BY <2>3, <3>1, <4>1 DEF ExecutorFacts
      <4>3. PICK c : c # "requesting" /\ call' = [call EXCEPT ![h][l] = c]
        BY <3>3 DEF X!ReturnsRefused, X!ReturnsReused, X!ReturnsFree, X!ReturnsCreated,
           X!ReturnsUnknown, X!PersistCall
      <4>4. call \in [Grants -> [Keys -> X!CallStatus]]
        BY DEF ExecutorFacts, X!TypeOK
      <4> QED
        BY <2>3, <4>2, <4>3, <4>4
    <3> QED
      BY <3>1, <3>2, <3>3
  <2> SUFFICES ASSUME NEW g \in Grants, NEW k \in Keys, GrantExec[g] = e,
                      call'[g][k] = "requesting"
               PROVE  IF step'[g][k] \in ES THEN run'[e].pc = "await"
                      ELSE status'[e] \in Terminal
                           \/ (status'[e] = "executing" /\ (up' = "down" \/ sched'[e] = "recovering"))
    BY DEF CallsFit, ES
  <2>4. call[g][k] = "requesting" /\ (step'[g][k] \in ES <=> step[g][k] \in ES)
    BY <2>2 DEF Calm, CallsCalm
  <2> QED
    BY <1>1, <2>1, <2>3, <2>4 DEF RunFits, CallsFit, ES
<1>10. \/ run[e].pc \notin {"await", "isolate"}
       \/ Isolate(e) \/ ToolAwaits(e)
  BY Zenon DEF RunnerStep, Denied, Check, LoopHead, PlanRaises, PlanExhausted, PlanDecides,
     PlanInvokes, PlanUnauthorized, Freshness, Walk, ReadsDone, ToolRequest, ToolDenied, ToolStored,
     ToolUnauthorized, BatchEnds, ReconcileEnds, Fail, ResumeExternal, Probe, Attempt
<1>11. Calm(e) \/ \E k \in Keys : ToolRequest(e, k)
  BY RunnerCalm DEF RunInv
<1> QED
  BY <1>6, <1>7, <1>8, <1>9, <1>10, <1>11

\* Who will advance the execution of a runner, when it moves on or returns.
LEMMA RunnerDriven ==
  ASSUME RunInv, ExecutorFacts, NEW e \in Execs, RunnerStep(e), Moved(e) \/ Returned(e), Aside(e)
  PROVE  DrivenFits(e)'
<1>1. LocalFits(e) /\ RunFits(e) /\ RowTypes
  BY LocalParts DEF RunInv
<1>2. UNCHANGED <<ops, up>>
  BY DEF Aside
<1>3. run[e].pc # "off" /\ sched[e] # "none" /\ e \notin parked /\ up # "down"
  <2>1. run[e].pc # "off"
    BY DEF Moved, MovedTo, Returned, ReturnedWith
  <2> QED
    BY <1>1, <2>1 DEF LocalFits, PlaceFits
<1>4. ASSUME InPass(run[e]), status'[e] = status[e], status[e] \in Active
      PROVE  up' = "up" /\ Reopened(e)'
  <2>1. up = "up" /\ Reopened(e)
    BY <1>1, <1>4 DEF RunFits, DrivenFits
  <2>2. Calm(e)
    BY <1>4, RunnerCalm DEF RunInv, ToolRequest, InPass
  <2>3. ApprovedUnused(e) => ApprovedUnused(e)'
    BY <1>4, <2>2, ApprovalKept
  <2> QED
    BY <1>2, <2>1, <2>3 DEF Reopened
<1>5. CASE Moved(e)
  <2>1. PICK s, q : MovedTo(e, s, q)
    BY <1>5 DEF Moved
  <2>2. /\ status'[e] = s /\ run'[e] = q /\ UNCHANGED schedVars
        /\ InPass(q) => s \in Parked \/ (s = status[e] /\ InPass(run[e]))
    BY <1>1, <2>1 DEF MovedTo, RowTypes
  <2>3. e \notin parked' /\ Scheduled(e)'
    BY <1>3, <2>2 DEF Scheduled, schedVars
  <2>4. InPass(q) /\ s \in Active => up' = "up" /\ Reopened(e)'
    BY <1>4, <2>2 DEF Active, Parked, Terminal
  <2> QED
    BY <2>2, <2>3, <2>4 DEF DrivenFits
<1>6. CASE Returned(e)
  <2>1. PICK s : ReturnedWith(e, s)
    BY <1>6 DEF Returned
  <2>2. status'[e] = s /\ run'[e] = Off /\ ~InPass(Off)
    <3>1. Off.pc = "off"
      BY AtState DEF Off, PCs
    <3> QED
      BY <1>1, <2>1, <3>1 DEF ReturnedWith, Return, Goto, RowTypes, InPass
  <2>3. s \in Active => e \notin parked'
    BY <1>3, <2>1 DEF ReturnedWith, Return, Active, Parked, Terminal
  <2>4. s \in Active => Scheduled(e)' \/ Reopened(e)'
    <3>1. CASE s \in {"waiting_external", "reconciling"} /\ run[e].pc # "isolate" /\ ~InPass(run[e])
      <4>1. sched[e] # "recovering"
        BY <1>1, <1>3, <3>1 DEF LocalFits, PlaceFits
      <4>2. e \in delayed'
        BY <2>1, <3>1, <4>1 DEF ReturnedWith, Return
      <4> QED
        BY <4>2 DEF Scheduled
    <3>2. CASE s = status[e] /\ InPass(run[e])
      BY <1>4, <2>2, <3>2
    <3>3. CASE s \in Parked
      BY <3>3 DEF Active, Parked, Terminal
    <3> QED
      BY <2>1, <3>1, <3>2, <3>3 DEF ReturnedWith
  <2> QED
    BY <2>2, <2>3, <2>4 DEF DrivenFits
<1> QED
  BY <1>5, <1>6

\* A step of a runner leaves every execution attended.
LEMMA RunnerRunFits ==
  ASSUME RunInv, ExecutorFacts, NEW e \in Execs, RunnerStep(e), ClaimsGrow
  PROVE  \A f \in Execs : RunFits(f)'
<1>1. (Moved(e) \/ Returned(e)) /\ Aside(e)
  BY RunnerMoves DEF RunInv
<1>2. RunFits(e)'
  BY <1>1, RunnerDriven, RunnerCalls DEF RunFits
<1>3. ASSUME NEW f \in Execs \ {e} PROVE RunFits(f)'
  <2>1. Same(f)
    BY <1>1, RunnerSame DEF RunInv
  <2>2. Calm(f)
    BY RunnerCalm DEF RunInv
  <2> QED
    BY <2>1, <2>2, SameRunFits DEF RunInv
<1> QED
  BY <1>2, <1>3

\* One execution is acted on, the others are left alone and so are their calls.
LEMMA OneAttended ==
  ASSUME RunInv, ExecutorFacts, NEW e \in Execs, RunFits(e)',
         \A f \in Execs \ {e} : Same(f) /\ Calm(f)
  PROVE  \A f \in Execs : RunFits(f)'
<1>1. ASSUME NEW f \in Execs \ {e} PROVE RunFits(f)'
  BY <1>1, SameRunFits DEF RunInv
<1> QED
  BY <1>1

\* The calls of an execution that is acted on from outside.
LEMMA CallsKept ==
  ASSUME NEW e \in Execs, RunFits(e), CallsCalm(e),
         run[e].pc = "await" => run'[e].pc = "await",
         \/ status'[e] \in Terminal \/ status'[e] = status[e]
         \/ status[e] \notin Terminal \cup {"executing"},
         status[e] = "executing" /\ (up = "down" \/ sched[e] = "recovering") =>
           up' = "down" \/ sched'[e] = "recovering"
  PROVE  CallsFit(e)'
<1> SUFFICES ASSUME NEW g \in Grants, NEW k \in Keys, GrantExec[g] = e, call'[g][k] = "requesting"
             PROVE  IF step'[g][k] \in ES THEN run'[e].pc = "await"
                    ELSE \/ status'[e] \in Terminal
                         \/ status'[e] = "executing" /\ (up' = "down" \/ sched'[e] = "recovering")
  BY DEF CallsFit, ES
<1>1. call[g][k] = "requesting" /\ (step'[g][k] \in ES <=> step[g][k] \in ES)
  BY DEF CallsCalm
<1>2. IF step[g][k] \in ES THEN run[e].pc = "await"
      ELSE \/ status[e] \in Terminal
           \/ status[e] = "executing" /\ (up = "down" \/ sched[e] = "recovering")
  BY <1>1 DEF RunFits, CallsFit, ES
<1> QED
  BY <1>1, <1>2

\* A worker takes an execution, or recovery isolates one.
LEMMA StartRunFits ==
  ASSUME RunInv, ExecutorFacts, NEW e \in Execs, Start(e) \/ RecoverNext(e)
  PROVE  \A f \in Execs : RunFits(f)'
<1>1. LocalFits(e) /\ RunFits(e) /\ RowTypes
  BY LocalParts DEF RunInv
<1>2. /\ UNCHANGED <<status, rounds, appr, ops, delayed, parked, up>> /\ UNCHANGED execVars
      /\ sched[e] \in {"queued", "recovering"} /\ up # "down"
      /\ \E p \in {"check", "isolate"} : run' = [run EXCEPT ![e] = At(p)]
      /\ \E c \in {"active", "recovering"} :
           (sched[e] = "recovering" => c = "recovering") /\ sched' = [sched EXCEPT ![e] = c]
  <2>1. CASE Start(e)
    BY <2>1 DEF Start, Goto, userVars
  <2>2. CASE RecoverNext(e)
    <3>1. sched[e] = "recovering" /\ sched' = sched /\ up = "recovering"
          /\ run' = [run EXCEPT ![e] = At("isolate")]
          /\ UNCHANGED <<status, rounds, appr, ops, delayed, parked, up>> /\ UNCHANGED execVars
      BY <2>2 DEF RecoverNext, Goto, userVars, schedVars
    <3>2. sched' = [sched EXCEPT ![e] = "recovering"]
      BY <1>1, <3>1 DEF RowTypes
    <3> QED
      BY <3>1, <3>2
  <2> QED
    BY <2>1, <2>2
<1>3. PICK p \in {"check", "isolate"}, q \in RunStates :
        run' = [run EXCEPT ![e] = q] /\ q.pc = p
  <2>1. PICK p \in {"check", "isolate"} : run' = [run EXCEPT ![e] = At(p)]
    BY <1>2
  <2>2. At(p) \in RunStates /\ At(p).pc = p
    BY AtState DEF PCs
  <2> QED
    BY <2>1, <2>2
<1>4. /\ run'[e] = q /\ sched'[e] \in {"active", "recovering"}
      /\ sched[e] = "recovering" => sched'[e] = "recovering"
      /\ \A f \in Execs \ {e} : run'[f] = run[f] /\ sched'[f] = sched[f]
  BY <1>1, <1>2, <1>3 DEF RowTypes
<1>5. \A f \in Execs : Calm(f)
  BY <1>2, OtherCalm
<1>6. RunFits(e)'
  <2>1. run[e].pc # "await"
    BY <1>1, <1>2 DEF LocalFits, PlaceFits, InPass
  <2>2. CallsFit(e)'
    BY <1>1, <1>2, <1>4, <1>5, <2>1, CallsKept DEF Calm
  <2>3. ~InPass(q) /\ e \notin parked
    BY <1>1, <1>2, <1>3 DEF InPass, LocalFits, PlaceFits
  <2>4. DrivenFits(e)'
    BY <1>2, <1>4, <2>3 DEF DrivenFits, Scheduled
  <2> QED
    BY <2>2, <2>4 DEF RunFits
<1>7. \A f \in Execs \ {e} : Same(f)
  BY <1>2, <1>4 DEF Same
<1> QED
  BY <1>5, <1>6, <1>7, OneAttended

\* The user ends an execution, gives it an input or approves a write.
LEMMA UserRunFits ==
  ASSUME RunInv, ExecutorFacts, NEW e \in Execs, UserStep(e)
  PROVE  \A f \in Execs : RunFits(f)'
<1>1. LocalFits(e) /\ RunFits(e) /\ RowTypes
  BY LocalParts DEF RunInv
<1>2. /\ UNCHANGED <<rounds, run, delayed, up>> /\ up = "up"
      /\ \E s : status' = [status EXCEPT ![e] = s]
      /\ ops' = ops \/ ops' = [ops EXCEPT ![e]["execute"] = "accepted"]
         \/ ops' = [ops EXCEPT ![e]["input"] = "accepted"]
      /\ appr' = appr \/ appr' = [appr EXCEPT ![e] = NoKey]
      /\ UNCHANGED <<sched, parked>> \/ Resume(e)
  BY DEF UserStep, Admit, Input, Cancel, Reject, Approve, Serving, userVars, schedVars
<1>3. \A f \in Execs \ {e} : Same(f)
  <2>1. ASSUME NEW f \in Execs \ {e}
        PROVE  /\ status'[f] = status[f] /\ appr'[f] = appr[f] /\ sched'[f] = sched[f]
               /\ f \in parked' <=> f \in parked
               /\ \A kind \in OpKinds : ops'[f][kind] = ops[f][kind]
    BY <1>1, <1>2 DEF RowTypes, Resume
  <2> QED
    BY <1>2, <2>1 DEF Same
<1>4. CASE Cancel(e) \/ Reject(e)
  <2>1. status' = [status EXCEPT ![e] = "cancelled"] /\ UNCHANGED execVars
    BY <1>4 DEF Cancel, Reject
  <2>2. status'[e] \in Terminal /\ status'[e] \notin Active
    BY <1>1, <2>1 DEF RowTypes, Terminal, Active
  <2>3. \A f \in Execs : Calm(f)
    BY <2>1, OtherCalm
  <2>4. sched' = sched
    BY <1>4 DEF Cancel, Reject, schedVars
  <2>5. CallsFit(e)'
    BY <1>1, <1>2, <2>2, <2>3, <2>4, CallsKept DEF Calm
  <2>6. RunFits(e)'
    BY <2>2, <2>5 DEF RunFits, DrivenFits
  <2> QED
    BY <1>3, <2>3, <2>6, OneAttended
<1>5. CASE Input(e)
  <2>1. /\ status' = [status EXCEPT ![e] = "planning"] /\ status[e] = "needs_input"
        /\ ops' = [ops EXCEPT ![e]["input"] = "accepted"]
        /\ UNCHANGED execVars /\ sched' = sched /\ parked' = parked
    BY <1>5 DEF Input, schedVars
  <2>2. "input" \in OpKinds
    BY DEF OpKinds
  <2>3. status'[e] = "planning" /\ ops'[e]["input"] = "accepted"
    BY <1>1, <2>1, <2>2 DEF RowTypes
  <2>4. \A f \in Execs : Calm(f)
    BY <2>1, OtherCalm
  <2>5. CallsFit(e)'
    BY <1>1, <1>2, <2>1, <2>4, CallsKept DEF Calm, Terminal
  <2>6. DrivenFits(e)'
    BY <1>2, <2>3 DEF DrivenFits, Reopened
  <2> QED
    BY <1>3, <2>4, <2>5, <2>6, OneAttended DEF RunFits
<1>6. CASE Admit(e)
  <2>1. /\ status' = [status EXCEPT ![e] = "queued"] /\ status[e] = "none"
        /\ ops' = [ops EXCEPT ![e]["execute"] = "accepted"]
        /\ X!IssueGrant(e, AdmitGrant[e], Scope[e]) /\ sched' = sched /\ parked' = parked
    BY <1>6 DEF Admit, schedVars
  <2>2. "execute" \in OpKinds
    BY DEF OpKinds
  <2>3. status'[e] = "queued" /\ ops'[e]["execute"] = "accepted"
    BY <1>1, <2>1, <2>2 DEF RowTypes
  <2>4. CallsCalm(e) /\ \A f \in Execs \ {e} : Calm(f)
    <3>1. AdmitGrant[e] \in Grants
      BY ActionRunAssumption
    <3> QED
      BY <2>1, <3>1, GrantCalm
  <2>5. CallsFit(e)'
    BY <1>1, <1>2, <2>1, <2>4, CallsKept DEF Terminal
  <2>6. ~InPass(run[e]) /\ e \notin parked
    BY <1>1, <2>1 DEF LocalFits, StatusFits, PlaceFits, InPass
  <2>7. DrivenFits(e)'
    BY <1>2, <2>1, <2>2, <2>3, <2>6 DEF DrivenFits, Scheduled
  <2> QED
    BY <1>3, <2>4, <2>5, <2>7, OneAttended DEF RunFits
<1>7. ASSUME NEW g \in Grants, Approve(e, g) PROVE \A f \in Execs : RunFits(f)'
  <2>1. /\ status' = [status EXCEPT ![e] = "planning"] /\ status[e] = "needs_input"
        /\ g # AdmitGrant[e] /\ X!IssueGrant(e, g, {appr[e]}) /\ Resume(e)
    BY <1>7 DEF Approve
  <2>2. /\ grantOf'[e] = g /\ call' = call /\ \A k \in Keys : call[g][k] = "none"
        /\ CallsCalm(e) /\ \A f \in Execs \ {e} : Calm(f)
    BY <2>1, GrantCalm
  <2>3. status'[e] = "planning" /\ e \notin parked'
    BY <1>1, <2>1 DEF RowTypes, Resume
  <2>4. ApprovedUnused(e)'
    BY <2>1, <2>2, <2>3, ActionRunAssumption DEF ApprovedUnused
  <2>5. CallsFit(e)'
    BY <1>1, <1>2, <2>1, <2>2, CallsKept DEF Terminal
  <2>6. DrivenFits(e)'
    BY <1>2, <2>3, <2>4 DEF DrivenFits, Reopened
  <2> QED
    BY <1>3, <2>2, <2>5, <2>6, OneAttended DEF RunFits
<1> QED
  BY <1>4, <1>5, <1>6, <1>7 DEF UserStep

\* The operation worker hands an execution to the scheduler or cancels it, or a sleeping
\* resume wakes up.
LEMMA WorkerRunFits ==
  ASSUME RunInv, ExecutorFacts, NEW e \in Execs, WorkerStep(e) \/ ResumeLater(e)
  PROVE  \A f \in Execs : RunFits(f)'
<1>1. LocalFits(e) /\ RunFits(e) /\ RowTypes
  BY LocalParts DEF RunInv
<1>2. UNCHANGED execVars /\ UNCHANGED <<rounds, run, appr, up>>
  BY Zenon DEF WorkerStep, Dispatch, DispatchDenied, ResumeLater, runVars, userVars
<1>3. \A f \in Execs : Calm(f)
  BY <1>2, OtherCalm
<1>4. CASE ResumeLater(e)
  <2>1. UNCHANGED <<status, ops>> /\ delayed' = delayed \ {e} /\ Enqueue(e)
        /\ e \in delayed
    BY <1>4 DEF ResumeLater, runVars, userVars
  <2>2. /\ parked' = parked
        /\ sched'[e] = IF sched[e] = "none" /\ e \notin parked THEN "queued" ELSE sched[e]
        /\ \A f \in Execs \ {e} : sched'[f] = sched[f]
    BY <1>1, <2>1 DEF Enqueue, RowTypes
  <2>3. Reopened(e) => Reopened(e)'
    BY <1>3, <2>1, ApprovalKept DEF Reopened
  <2>4. DrivenFits(e)'
    <3>1. CASE sched'[e] # "none"
      BY <1>1, <1>2, <2>1, <2>2, <2>3, <3>1 DEF RunFits, DrivenFits, Scheduled
    <3>2. CASE sched'[e] = "none"
      BY <1>1, <1>2, <2>1, <2>2, <2>3, <3>2 DEF RunFits, DrivenFits, Reopened
    <3> QED
      BY <3>1, <3>2
  <2>5. CallsFit(e)'
    BY <1>1, <1>2, <1>3, <2>1, <2>2, CallsKept DEF Calm
  <2>6. \A f \in Execs \ {e} : Same(f)
    BY <1>2, <2>1, <2>2 DEF Same
  <2> QED
    BY <1>3, <2>4, <2>5, <2>6, OneAttended DEF RunFits
<1>5. ASSUME NEW kind \in OpKinds, Dispatch(e, kind) PROVE \A f \in Execs : RunFits(f)'
  <2>1. PICK o : o = [ops EXCEPT ![e][kind] = "running"]
    OBVIOUS
  <2>2. /\ o \in [Execs -> [OpKinds -> {"closed", "accepted", "running"}]]
        /\ \A f \in Execs \ {e}, any \in OpKinds : o[f][any] = ops[f][any]
        /\ o[e][kind] = "running" /\ \A any \in OpKinds \ {kind} : o[e][any] = ops[e][any]
    BY <1>1, <2>1 DEF RowTypes
  <2>3. /\ ops' = Refreshed(o) /\ UNCHANGED <<status, delayed>>
        /\ IF kind = "input" THEN Resume(e) ELSE Enqueue(e)
    BY <1>5, <2>1 DEF Dispatch, runVars
  <2>4. \A f \in Execs, any \in OpKinds :
          \/ ops'[f][any] = o[f][any]
          \/ status[f] \in Parked /\ o[f][any] = "running" /\ ops'[f][any] = "closed"
    BY <2>2, <2>3, RefreshedOps DEF RunInv
  <2>5. /\ parked' = IF kind = "input" THEN parked \ {e} ELSE parked
        /\ sched'[e] = IF sched[e] = "none" /\ (kind = "input" \/ e \notin parked)
                       THEN "queued" ELSE sched[e]
        /\ \A f \in Execs \ {e} : sched'[f] = sched[f]
    BY <1>1, <2>3 DEF Enqueue, Resume, RowTypes
  <2>6. status[e] \in Active => \A any \in OpKinds : ops'[e][any] = o[e][any]
    BY <2>4 DEF Active, Parked, Terminal
  <2>7. "input" \in OpKinds
    BY DEF OpKinds
  <2>8. status[e] \in Active /\ Reopened(e) => Reopened(e)'
    BY <1>3, <2>2, <2>3, <2>6, <2>7, ApprovalKept DEF Reopened
  <2>9. up # "down"
    BY <1>5 DEF Dispatch, Serving
  <2>10. DrivenFits(e)'
    <3>1. CASE kind = "input"
      BY <1>1, <1>2, <2>2, <2>3, <2>5, <2>6, <2>8, <3>1 DEF RunFits, DrivenFits, Reopened
    <3>2. CASE kind # "input" /\ sched'[e] # "none"
      BY <1>1, <1>2, <2>2, <2>3, <2>5, <2>6, <2>7, <2>8, <3>2 DEF RunFits, DrivenFits, Scheduled
    <3>3. CASE kind # "input" /\ sched'[e] = "none"
      BY <1>1, <1>2, <2>2, <2>3, <2>5, <2>6, <2>7, <2>8, <3>3 DEF RunFits, DrivenFits, Reopened
    <3> QED
      BY <3>1, <3>2, <3>3
  <2>11. CallsFit(e)'
    BY <1>1, <1>2, <1>3, <2>3, <2>5, CallsKept DEF Calm
  <2>12. ASSUME NEW f \in Execs \ {e} PROVE Same(f)
    <3>1. f \in parked' <=> f \in parked
      BY <2>5
    <3>2. \A any \in OpKinds :
            \/ ops'[f][any] = ops[f][any]
            \/ status[f] \in Parked /\ ops[f][any] = "running" /\ ops'[f][any] = "closed"
      BY <2>2, <2>4
    <3> QED
      BY <1>2, <2>3, <2>5, <3>1, <3>2 DEF Same
  <2> QED
    BY <1>3, <2>10, <2>11, <2>12, OneAttended DEF RunFits
<1>6. ASSUME NEW kind \in OpKinds, DispatchDenied(e, kind) PROVE \A f \in Execs : RunFits(f)'
  <2>1. PICK o : o = Refreshed(ops)
    OBVIOUS
  <2>2. /\ o \in [Execs -> [OpKinds -> {"closed", "accepted", "running"}]]
        /\ \A f \in Execs, any \in OpKinds :
             \/ o[f][any] = ops[f][any]
             \/ status[f] \in Parked /\ ops[f][any] = "running" /\ o[f][any] = "closed"
    BY <1>1, <2>1, RefreshedOps DEF RowTypes, RunInv
  <2>3. PICK s : s = IF status[e] \in Terminal THEN status[e] ELSE "cancelled"
    OBVIOUS
  <2>4. /\ ops' = [o EXCEPT ![e][kind] = "closed"] /\ status' = [status EXCEPT ![e] = s]
        /\ UNCHANGED <<sched, delayed, parked>>
    BY <1>6, <2>1, <2>3 DEF DispatchDenied, schedVars
  <2>5. \A f \in Execs \ {e}, any \in OpKinds : ops'[f][any] = o[f][any]
    BY <2>2, <2>4
  <2>6. /\ status'[e] \in Terminal /\ status'[e] \notin Active
        /\ \A f \in Execs \ {e} : status'[f] = status[f]
    BY <1>1, <2>3, <2>4 DEF RowTypes, Terminal, Active
  <2>7. CallsFit(e)'
    BY <1>1, <1>2, <1>3, <2>4, <2>6, CallsKept DEF Calm
  <2>8. DrivenFits(e)'
    BY <2>6 DEF DrivenFits
  <2>9. ASSUME NEW f \in Execs \ {e} PROVE Same(f)
    <3>1. \A any \in OpKinds :
            \/ ops'[f][any] = ops[f][any]
            \/ status[f] \in Parked /\ ops[f][any] = "running" /\ ops'[f][any] = "closed"
      BY <2>2, <2>5
    <3> QED
      BY <1>2, <2>4, <2>6, <3>1 DEF Same
  <2> QED
    BY <1>3, <2>7, <2>8, <2>9, OneAttended DEF RunFits
<1> QED
  BY <1>4, <1>5, <1>6 DEF WorkerStep

\* Only the operations, the database, the clock or the plugin host change.
LEMMA AroundRunFits ==
  ASSUME RunInv, ExecutorFacts,
         \/ \E e \in Execs : Revoke(e) \/ \E k \in Keys : Revise(e, k)
         \/ (\E g \in Grants : Expire(g)) \/ HostDown \/ HostUp \/ World \/ PollIdle
         \/ UNCHANGED vars
  PROVE  \A f \in Execs : RunFits(f)'
<1>1. UNCHANGED <<status, rounds, run, appr, sched, delayed, parked, up>>
  BY Zenon DEF Revoke, Revise, Expire, HostDown, HostUp, World, PollIdle, vars, runVars, userVars,
     schedVars
<1>2. \/ UNCHANGED execVars
      \/ \E g \in Grants, k \in Keys : X!Apply(g, k) \/ X!Lose(g, k)
      \/ \E g \in Grants : X!Expire(g)
  BY Zenon DEF Revoke, Revise, Expire, HostDown, HostUp, World, PollIdle, vars
<1>3. \A f \in Execs : Calm(f)
  BY <1>2, OtherCalm
<1>4. ops' = ops \/ ops' = Refreshed(ops)
  BY Zenon DEF Revoke, Revise, Expire, HostDown, HostUp, World, PollIdle, vars, userVars
<1>5. ASSUME NEW f \in Execs PROVE Same(f)
  <2>1. \A any \in OpKinds :
          \/ ops'[f][any] = ops[f][any]
          \/ status[f] \in Parked /\ ops[f][any] = "running" /\ ops'[f][any] = "closed"
    BY <1>4, RefreshedOps DEF RunInv, LocalInv, RowsInv, RowTypes
  <2> QED
    BY <1>1, <2>1 DEF Same
<1>6. ASSUME NEW f \in Execs PROVE RunFits(f)'
  BY <1>3, <1>5, SameRunFits DEF RunInv
<1> QED
  BY <1>6

\* A restart leaves calls in requesting whose executions wait for recovery.
LEMMA CrashRunFits ==
  ASSUME RunInv, ExecutorFacts, Crash
  PROVE  \A f \in Execs : RunFits(f)'
<1>1. PICK q \in RunStates : q = Off /\ q.pc = "off"
  BY AtState DEF Off, PCs
<1>2. /\ up' = "down" /\ run' = [e \in Execs |-> q] /\ parked' = {} /\ UNCHANGED status
  BY <1>1 DEF Crash
<1>3. call' = call
  BY DEF Crash, X!Crash, execVars
<1>4. ASSUME NEW g \in Grants, NEW k \in Keys PROVE step'[g][k] \notin ES
  <2>1. CASE X!Crash
    BY <2>1 DEF X!Crash, ES, X!ExecuteSteps
  <2>2. CASE ~X!Crash
    <3>1. UNCHANGED execVars /\ \A e \in Execs : X!Quiet(e)
      BY <2>2 DEF Crash
    <3>2. GrantExec[g] \in Execs
      BY ActionRunAssumption
    <3> QED
      BY <3>1, <3>2 DEF X!Quiet, ES, X!ExecuteSteps, execVars
  <2> QED
    BY <2>1, <2>2
<1>5. ASSUME NEW f \in Execs PROVE RunFits(f)'
  <2>1. LocalFits(f) /\ RunFits(f)
    BY LocalParts DEF RunInv
  <2>2. DrivenFits(f)'
    BY <1>1, <1>2 DEF DrivenFits, InPass
  <2>3. ASSUME NEW g \in Grants, NEW k \in Keys, GrantExec[g] = f, call'[g][k] = "requesting"
        PROVE  status[f] \in Terminal \/ status[f] = "executing"
    BY <1>3, <2>1, <2>3 DEF RunFits, CallsFit, LocalFits, StatusFits
  <2>4. CallsFit(f)'
    BY <1>2, <1>4, <2>3 DEF CallsFit, ES
  <2> QED
    BY <2>2, <2>4 DEF RunFits
<1> QED
  BY <1>5

\* Startup recovery takes up every active execution.
LEMMA RecoverRunFits ==
  ASSUME RunInv, ExecutorFacts, Recover
  PROVE  \A f \in Execs : RunFits(f)'
<1>1. UNCHANGED execVars \/ \E E : X!Recover(E)
  BY DEF Recover
<1>2. \A f \in Execs : Calm(f)
  BY <1>1, OtherCalm
<1>3. UNCHANGED <<run, parked>> /\ up = "down"
  BY DEF Recover
<1>4. ASSUME NEW f \in Execs PROVE RunFits(f)'
  <2>1. LocalFits(f) /\ RunFits(f) /\ LocalInv
    BY LocalParts DEF RunInv
  <2>2. run[f].pc = "off" /\ ~InPass(run[f]) /\ f \notin parked
    BY <1>3, <2>1, RecoverRows DEF InPass, LocalFits, PlaceFits
  <2>3. /\ status'[f] = status[f] \/ status[f] \notin Terminal \cup {"executing"}
        /\ status[f] = "executing" => sched'[f] = "recovering"
        /\ status'[f] \in Active => sched'[f] # "none"
    BY <2>1, RecoverRows DEF Active, Terminal
  <2>4. CallsFit(f)'
    BY <1>2, <1>3, <2>1, <2>3, CallsKept DEF Calm
  <2>5. DrivenFits(f)'
    BY <1>3, <2>2, <2>3 DEF DrivenFits, Scheduled
  <2> QED
    BY <2>4, <2>5 DEF RunFits
<1> QED
  BY <1>4

\* The operation worker recovers its operations before requests are served.
LEMMA ServeRunFits ==
  ASSUME RunInv, ExecutorFacts, Serve
  PROVE  \A f \in Execs : RunFits(f)'
<1>1. PICK o : o = Refreshed(ops)
  OBVIOUS
<1>2. /\ o \in [Execs -> [OpKinds -> {"closed", "accepted", "running"}]]
      /\ \A f \in Execs, any \in OpKinds :
           \/ o[f][any] = ops[f][any]
           \/ status[f] \in Parked /\ ops[f][any] = "running" /\ o[f][any] = "closed"
  BY <1>1, RefreshedOps DEF RunInv, LocalInv, RowsInv, RowTypes
<1>3. /\ ops' = [e \in Execs |-> [kind \in OpKinds |->
                   IF o[e][kind] = "running" THEN "accepted" ELSE o[e][kind]]]
      /\ UNCHANGED <<status, run, sched, delayed, parked>> /\ UNCHANGED execVars
      /\ up = "recovering" /\ up' = "up" /\ \A e \in Execs : sched[e] # "recovering"
  BY <1>1 DEF Serve, runVars, schedVars
<1>4. \A f \in Execs : Calm(f)
  BY <1>3, OtherCalm
<1>5. ASSUME NEW f \in Execs PROVE RunFits(f)'
  <2>1. RunFits(f)
    BY DEF RunInv
  <2>2. CallsFit(f)'
    BY <1>3, <1>4, <2>1, CallsKept DEF Calm
  <2>3. status[f] \in Active => \A any \in OpKinds :
          ops'[f][any] = IF ops[f][any] = "running" THEN "accepted" ELSE ops[f][any]
    BY <1>2, <1>3 DEF Active, Parked, Terminal
  <2>4. "input" \in OpKinds
    BY DEF OpKinds
  <2>5. ApprovedUnused(f) => ApprovedUnused(f)'
    BY <1>3, <1>4, ApprovalKept
  <2>6. status[f] \in Active /\ Reopened(f) => Reopened(f)'
    BY <2>3, <2>4, <2>5 DEF Reopened
  <2>7. status[f] \in Active /\ Scheduled(f) => Scheduled(f)'
    BY <1>3, <2>3 DEF Scheduled
  <2>8. DrivenFits(f)'
    BY <1>3, <2>1, <2>3, <2>4, <2>6, <2>7 DEF RunFits, DrivenFits
  <2> QED
    BY <2>2, <2>8 DEF RunFits
<1> QED
  BY <1>5

\* Nothing is attended at the start, and nothing has to be.
LEMMA RunStart == Init => RunInv
<1> SUFFICES ASSUME Init PROVE RunInv
  OBVIOUS
<1>1. LocalInv
  BY LocalStart
<1>2. ASSUME NEW e \in Execs PROVE RunFits(e)
  <2>1. DrivenFits(e)
    BY DEF Init, DrivenFits, Active
  <2>2. CallsFit(e)
    BY DEF Init, X!Init, CallsFit
  <2> QED
    BY <2>1, <2>2 DEF RunFits
<1> QED
  BY <1>1, <1>2 DEF RunInv

\* Every step leaves every execution and every ToolCall attended.
LEMMA RunStep ==
  ASSUME RunInv, ExecutorFacts, [Next]_vars
  PROVE  RunInv'
<1>1. LocalInv'
  BY LocalStep DEF RunInv
<1>2. ClaimsGrow
  <2>1. [X!Next]_execVars /\ ClaimRows
    BY StepRefines DEF RunInv, LocalInv, RowsInv
  <2> QED
    BY <2>1, ClaimsKept DEF ClaimsGrow
<1>3. \A f \in Execs : RunFits(f)'
  <2>1. ASSUME NEW e \in Execs,
               \/ RunnerStep(e) \/ Start(e) \/ RecoverNext(e) \/ UserStep(e) \/ WorkerStep(e)
               \/ ResumeLater(e)
        PROVE  \A f \in Execs : RunFits(f)'
    BY <1>2, <2>1, RunnerRunFits, StartRunFits, UserRunFits, WorkerRunFits
  <2>2. CASE \/ \E e \in Execs : Revoke(e) \/ \E k \in Keys : Revise(e, k)
             \/ (\E g \in Grants : Expire(g)) \/ HostDown \/ HostUp \/ World \/ PollIdle
             \/ UNCHANGED vars
    BY <2>2, AroundRunFits
  <2>3. CASE Crash \/ Recover \/ Serve
    BY <2>3, CrashRunFits, RecoverRunFits, ServeRunFits
  <2> QED
    BY <2>1, <2>2, <2>3, Zenon DEF Next
<1> QED
  BY <1>1, <1>3 DEF RunInv

\* The inductive invariant of the runs, over that of the external-write path.
THEOREM RunInvHolds == Spec => []RunInv
<1>1. Spec => []ExecutorFacts
  BY ExecutorInvariant, FactsHold, PTL
<1> QED
  BY <1>1, RunStart, RunStep, PTL DEF Spec

\* Rows and coroutines have their types and plan within the budget, no external write of a
\* live execution is left in requesting without its runner once requests are served, and
\* no active execution is without someone who will advance it.
THEOREM RunSafeHolds == Spec => []RunSafe
<1>1. ASSUME RunInv, ExecutorFacts PROVE TypeOK
  <2>1. RowTypes /\ X!TypeOK
    BY <1>1, LocalParts DEF RunInv, ExecutorFacts
  <2>2. \A e \in Execs : run[e].todo \subseteq Keys /\ run[e].tries \in 0..MaxTries
    BY <2>1 DEF RowTypes, RunStates
  <2> QED
    BY <2>1, <2>2, Zenon DEF RowTypes, TypeOK
<1>2. ASSUME RunInv PROVE RequestingIsServed
  <2> SUFFICES ASSUME up = "up", NEW g \in Grants, NEW k \in Keys, NEW e \in Execs,
                      e = GrantExec[g], call[g][k] = "requesting", status[e] \notin Terminal
               PROVE  sched[e] = "active"
    BY ActionRunAssumption DEF RequestingIsServed
  <2>1. LocalFits(e) /\ RunFits(e)
    BY <1>2, LocalParts DEF RunInv
  <2>2. sched[e] # "recovering"
    BY <2>1 DEF LocalFits, PlaceFits
  <2>3. run[e].pc = "await"
    BY <2>1, <2>2 DEF RunFits, CallsFit
  <2> QED
    BY <2>1, <2>2, <2>3 DEF LocalFits, PlaceFits
<1>3. ASSUME RunInv PROVE NeverStranded
  <2> SUFFICES ASSUME up = "up", NEW e \in Execs, status[e] \in Active,
                      ops[e]["input"] # "running", ~ApprovedUnused(e)
               PROVE  Scheduled(e)
    BY DEF NeverStranded
  <2>1. Scheduled(e) \/ Reopened(e)
    BY <1>3 DEF RunInv, RunFits, DrivenFits
  <2>2. "input" \in OpKinds
    BY DEF OpKinds
  <2> QED
    BY <2>1, <2>2 DEF Scheduled, Reopened
<1>4. Spec => []ExecutorFacts
  BY ExecutorInvariant, FactsHold, PTL
<1>5. RunInv /\ ExecutorFacts => RunSafe
  BY <1>1, <1>2, <1>3 DEF RunSafe
<1> QED
  BY <1>4, <1>5, RunInvHolds, PTL

-----------------------------------------------------------------------------
(* What a step may never do.                                               *)

\* The user may end every live execution.
LEMMA CancelIsLegal ==
  ASSUME NEW s \in Statuses, s \notin Terminal \cup {"none"}
  PROVE  "cancelled" \in Transitions[s]
BY TransitionsAre DEF Statuses, Active, Parked, Terminal

\* Every change of a status is one the state machine accepts.
LEMMA StepIsLegal ==
  ASSUME LocalInv, [Next]_vars, NEW e \in Execs, status'[e] # status[e]
  PROVE  \/ status'[e] \in Transitions[status[e]]
         \/ /\ run[e].pc = "isolate" /\ status[e] \notin Parked
            /\ status'[e] = "needs_input"
         \/ /\ up = "down" /\ status[e] \in {"queued", "waiting_external"}
            /\ status'[e] = "reconciling"
<1>1. LocalFits(e) /\ RowTypes /\ status[e] \in Statuses
  BY LocalParts DEF RowTypes
<1>2. \/ \E f \in Execs : RunnerStep(f) \/ UserStep(f) \/ WorkerStep(f)
      \/ Recover
  BY Zenon DEF Next, vars, Start, ResumeLater, RecoverNext, Revoke, Revise, Expire, HostDown, HostUp,
     PollIdle, Crash, Serve, World, runVars
<1>3. ASSUME NEW f \in Execs, RunnerStep(f)
      PROVE  \/ status'[e] \in Transitions[status[e]]
             \/ /\ run[e].pc = "isolate" /\ status[e] \notin Parked
                /\ status'[e] = "needs_input"
  <2>1. ClaimsGrow
    <3>1. [X!Next]_execVars /\ ClaimRows
      BY StepRefines DEF LocalInv, RowsInv
    <3> QED
      BY <3>1, ClaimsKept DEF ClaimsGrow
  <2>2. PICK s : status' = [status EXCEPT ![f] = s] /\ LegalStep(f, s)
    <3>1. Moved(f) \/ Returned(f)
      BY <1>3, <2>1, RunnerMoves
    <3> QED
      BY <3>1 DEF Moved, MovedTo, Returned, ReturnedWith
  <2>3. f = e /\ status'[e] = s
    BY <1>1, <2>2 DEF RowTypes
  <2> QED
    BY <2>2, <2>3 DEF LegalStep
<1>4. ASSUME NEW f \in Execs, UserStep(f) PROVE status'[e] \in Transitions[status[e]]
  <2>1. CASE Admit(f)
    BY <1>1, <2>1, TransitionsAre DEF Admit, RowTypes
  <2>2. CASE Input(f) \/ \E g \in Grants : Approve(f, g)
    <3>1. status' = [status EXCEPT ![f] = "planning"] /\ status[f] = "needs_input"
      BY <2>2 DEF Input, Approve
    <3> QED
      BY <1>1, <3>1, TransitionsAre DEF RowTypes
  <2>3. CASE Cancel(f) \/ Reject(f)
    <3>1. status' = [status EXCEPT ![f] = "cancelled"] /\ status[f] \notin Terminal
      BY <2>3 DEF Cancel, Reject
    <3>2. f = e /\ status'[e] = "cancelled"
      BY <1>1, <3>1 DEF RowTypes
    <3>3. status[e] # "none"
      BY <1>1, <2>3, <3>2 DEF Cancel, Reject, LocalFits, PlaceFits
    <3> QED
      BY <1>1, <3>1, <3>2, <3>3, CancelIsLegal
  <2> QED
    BY <1>4, <2>1, <2>2, <2>3 DEF UserStep
<1>5. ASSUME NEW f \in Execs, WorkerStep(f) PROVE status'[e] \in Transitions[status[e]]
  <2>1. PICK kind \in OpKinds : Dispatch(f, kind) \/ DispatchDenied(f, kind)
    BY <1>5 DEF WorkerStep
  <2>2. DispatchDenied(f, kind)
    BY <2>1, Zenon DEF Dispatch, runVars
  <2>3. /\ ops[f][kind] = "accepted"
        /\ status' = [status EXCEPT ![f] = IF @ \in Terminal THEN @ ELSE "cancelled"]
    BY <2>2 DEF DispatchDenied
  <2>4. f = e /\ status[e] \notin Terminal /\ status'[e] = "cancelled"
    BY <1>1, <2>3 DEF RowTypes
  <2>5. status[e] # "none"
    BY <1>1, <2>3, <2>4 DEF LocalFits, PlaceFits
  <2> QED
    BY <1>1, <2>4, <2>5, CancelIsLegal
<1>6. CASE Recover
  <2>1. up = "down"
    BY <1>6, SMTT(30) DEF Recover
  <2> QED
    BY <1>6, <2>1, RecoverRows
<1> QED
  BY <1>2, <1>3, <1>4, <1>5, <1>6

\* A ToolCall begins in the transaction that fences it.
LEMMA StepIsFenced ==
  ASSUME LocalInv, ExecutorFacts, [Next]_vars, NEW g \in Grants, NEW k \in Keys,
         call[g][k] = "none", call'[g][k] # "none"
  PROVE  /\ status[GrantExec[g]] = "executing" /\ Fenced(GrantExec[g]) /\ g \notin lapsed
         /\ k \in Scope[GrantExec[g]] \ stale[GrantExec[g]]
<1>1. PICK e \in Execs : e = GrantExec[g]
  BY ActionRunAssumption
<1>2. ~CallsCalm(e)
  BY <1>1 DEF CallsCalm
<1>3. ASSUME NEW f \in Execs, RunnerStep(f) PROVE f = e /\ \E l \in Keys : ToolRequest(e, l)
  BY <1>2, <1>3, RunnerCalm DEF Calm
<1>4. \/ \E f \in Execs : RunnerStep(f)
      \/ \E f \in Execs, h \in Grants, C \in SUBSET Keys : X!IssueGrant(f, h, C)
      \/ UNCHANGED call
      \/ \E E : X!Recover(E)
  <2>1. \/ UNCHANGED execVars
        \/ \E f \in Execs : RunnerStep(f) \/ Admit(f) \/ (\E h \in Grants : Approve(f, h))
        \/ (\E h \in Grants : Expire(h)) \/ Crash \/ Recover \/ World
    BY Zenon DEF Next, vars, Start, ResumeLater, UserStep, WorkerStep, RecoverNext, Revoke, Revise,
       HostDown, HostUp, PollIdle, Serve, Input, Cancel, Reject, Dispatch, DispatchDenied
  <2>2. UNCHANGED execVars => UNCHANGED call
    BY DEF execVars
  <2>3. (\E f \in Execs : Admit(f) \/ (\E h \in Grants : Approve(f, h))) => UNCHANGED call
    BY DEF Admit, Approve, X!IssueGrant
  <2>4. (\E h \in Grants : Expire(h)) \/ Crash \/ World => UNCHANGED call
    BY DEF Expire, X!Expire, Crash, X!Crash, World, X!Apply, X!Lose, execVars
  <2>5. Recover => UNCHANGED call \/ \E E : X!Recover(E)
    BY DEF Recover, execVars
  <2> QED
    BY <2>1, <2>2, <2>3, <2>4, <2>5, Zenon
<1>5. ASSUME NEW f \in Execs, NEW h \in Grants, NEW C \in SUBSET Keys, X!IssueGrant(f, h, C)
      PROVE  FALSE
  BY <1>5 DEF X!IssueGrant
<1>6. ASSUME NEW E, X!Recover(E) PROVE FALSE
  BY <1>2, <1>6, OtherCalm DEF Calm
<1>7. PICK l \in Keys : ToolRequest(e, l)
  BY <1>3, <1>4, <1>5, <1>6
<1>8. /\ run[e].pc = "tool" /\ Fenced(e) /\ Confirmed(e, l) /\ X!Request(e, l)
  BY <1>7 DEF ToolRequest
<1>9. /\ grantOf[e] \in Grants /\ call' = [call EXCEPT ![grantOf[e]][l] = "requesting"]
      /\ grantOf[e] \notin lapsed
  BY <1>8, RequestCalm DEF X!Request, X!Authorized
<1>10. g = grantOf[e] /\ k = l
  <2>1. call \in [Grants -> [Keys -> X!CallStatus]]
    BY DEF ExecutorFacts, X!TypeOK
  <2> QED
    BY <1>9, <2>1
<1>11. status[e] = "executing"
  BY <1>8 DEF LocalInv, StatusFits, Fenced
<1> QED
  BY <1>1, <1>8, <1>9, <1>10, <1>11 DEF Confirmed

\* Every external write is requested under the fence, within the confirmed scope and by an
\* unexpired grant, and every change of a status is one of the state machine.
THEOREM RunStepsHold == Spec => RunSteps
<1>1. LocalInv /\ ExecutorFacts /\ [Next]_vars =>
        [\A g \in Grants, k \in Keys :
           call[g][k] = "none" /\ call'[g][k] # "none" =>
             LET e == GrantExec[g] IN
             /\ status[e] = "executing" /\ Fenced(e) /\ g \notin lapsed
             /\ k \in Scope[e] \ stale[e]]_vars
  BY StepIsFenced
<1>2. LocalInv /\ [Next]_vars =>
        [\A e \in Execs : status'[e] # status[e] =>
           \/ status'[e] \in Transitions[status[e]]
           \/ /\ run[e].pc = "isolate" /\ status[e] \notin Parked
              /\ status'[e] = "needs_input"
           \/ /\ up = "down" /\ status[e] \in {"queued", "waiting_external"}
              /\ status'[e] = "reconciling"]_vars
  BY StepIsLegal
<1>3. Spec => []ExecutorFacts
  BY ExecutorInvariant, FactsHold, PTL
<1> QED
  BY <1>1, <1>2, <1>3, LocalHolds, PTL DEF Spec, RunSteps, NothingStartsUnfenced, LegalTransitions

-----------------------------------------------------------------------------
(* The model calls of a run.                                               *)

BranchRows ==
  [role : Range(Roles), round : Nat, status : {"queued", "running", "completed", "failed"},
   calls : Nat, blocks : BOOLEAN]

DeliberationTypes ==
  /\ branches \in Seq(BranchRows)
  /\ dpc \in {"planning", "branching", "deciding", "paused", "ended"}
  /\ counted \in Nat /\ planned \in Nat /\ planSteps \in Nat /\ spent \in Nat /\ unrecorded \in Nat
  /\ \A i \in DOMAIN branches : branches[i].status = "queued" => branches[i].calls = 0

CallsOf(rows) == [i \in 1..Len(rows) |-> rows[i].calls]

\* The calls of the rows that are not of this round.
EarlierCalls == [i \in 1..Len(branches) |-> IF allotted[i] > 0 THEN 0 ELSE branches[i].calls]

\* The count between rounds.
CountKept ==
  /\ counted <= CallBudget
  /\ dpc = "deciding" => counted < CallBudget
  /\ dpc # "ended" => spent <= planned + RowCalls(branches) + unrecorded
  /\ dpc # "branching" =>
       /\ spent <= counted + unrecorded /\ planned + RowCalls(branches) <= counted
       /\ \A i \in DOMAIN branches : branches[i].status # "running"

\* The count while branches are out.
RoundKept ==
  dpc = "branching" =>
    /\ allotted \in [1..Len(branches) -> Nat]
    /\ \A i \in DOMAIN branches :
         /\ allotted[i] > 0 => branches[i].calls <= allotted[i]
         /\ branches[i].status = "running" => branches[i].calls < allotted[i]
    /\ \A x : AddsUp(x, allotted, Len(branches)) => counted + x <= CallBudget
    /\ \A x : AddsUp(x, EarlierCalls, Len(branches)) => planned + x <= counted

\* A role has one refresh.
RolesKept ==
  /\ \A i \in DOMAIN branches : branches[i].round >= 1
  /\ \A i, j \in DOMAIN branches :
       (i # j /\ branches[i].role = branches[j].role /\ branches[i].round > 1) => branches[j].round = 1

DeliberationInv == DeliberationTypes /\ CountKept /\ RoundKept /\ RolesKept

-----------------------------------------------------------------------------
\* The calls of the rows add up to what _load_progress reads.
LEMMA RowCallsAre ==
  ASSUME NEW rows \in Seq(BranchRows)
  PROVE  /\ CallsOf(rows) \in [1..Len(rows) -> Nat] /\ RowCalls(rows) \in Nat
         /\ AddsUp(RowCalls(rows), CallsOf(rows), Len(rows))
<1> DEFINE N == Len(rows)
           F(g) == [n \in 0..Len(rows) |-> IF n = 0 THEN 0 ELSE g[n - 1] + rows[n].calls]
           total == CHOOSE g : g = F(g)
<1>1. N \in Nat /\ \A n \in 1..N : rows[n].calls \in Nat
  <2>1. \A n \in 1..N : rows[n] \in BranchRows
    OBVIOUS
  <2> QED
    BY <2>1 DEF BranchRows
<1>2. CallsOf(rows) \in [1..N -> Nat] /\ \A n \in 1..N : CallsOf(rows)[n] = rows[n].calls
  BY <1>1 DEF CallsOf
<1>3. PICK x \in Nat : AddsUp(x, CallsOf(rows), N)
  BY <1>1, <1>2, SumOfTurns
<1>4. PICK t \in [0..N -> Nat] : t[0] = 0 /\ (\A n \in 1..N : t[n] = t[n - 1] + CallsOf(rows)[n]) /\ x = t[N]
  BY <1>3 DEF AddsUp
<1>5. t = F(t)
  <2>1. \A n \in 0..N : t[n] = IF n = 0 THEN 0 ELSE t[n - 1] + rows[n].calls
    BY <1>1, <1>2, <1>4
  <2> QED
    BY <1>4, <2>1
<1>6. total = F(total)
  <2> HIDE DEF F
  <2> QED
    BY <1>5, Zenon
<1>7. RowCalls(rows) = total[N]
  BY Zenon DEF RowCalls
<1>8. total[0] = 0 /\ \A n \in 1..N : total[n] = total[n - 1] + rows[n].calls
  <2> HIDE DEF total
  <2> QED
    BY <1>1, <1>6
<1> DEFINE S == {n \in 0..N : total[n] = t[n]}
<1> HIDE DEF total
<1>9. 0 \in S
  BY <1>1, <1>4, <1>8
<1>10. ASSUME NEW n \in 1..N, n - 1 \in S PROVE n \in S
  BY <1>1, <1>2, <1>4, <1>8, <1>10
<1>11. 0..N \subseteq S
  <2> HIDE DEF S
  <2> QED
    BY <1>1, <1>9, <1>10, LoopInduction
<1>12. total[N] = x
  <2>1. N \in 0..N
    BY <1>1
  <2> QED
    BY <1>4, <1>11, <2>1
<1> QED
  BY <1>2, <1>3, <1>7, <1>12

\* The latest row of a role, if there is one.
LEMMA LatestIs ==
  ASSUME NEW rows \in Seq(BranchRows), NEW role
  PROVE  /\ Latest(rows, role) = 0 => \A i \in DOMAIN rows : rows[i].role # role
         /\ (\E i \in DOMAIN rows : rows[i].role = role) =>
              Latest(rows, role) \in DOMAIN rows /\ rows[Latest(rows, role)].role = role
<1> DEFINE own == {i \in DOMAIN rows : rows[i].role = role}
<1>1. DOMAIN rows = 1..Len(rows) /\ Len(rows) \in Nat
  OBVIOUS
<1>2. ASSUME own # {} PROVE \E i \in own : \A j \in own : j <= i
  <2> DEFINE T == {Len(rows) - i : i \in own}
  <2>1. T \subseteq Nat /\ T # {}
    BY <1>1, <1>2
  <2>2. PICK x \in T : \A y \in T : ~(y < x)
    <3> HIDE DEF T
    <3> QED
      BY <2>1, LeastNumber, Zenon
  <2>3. PICK i \in own : x = Len(rows) - i
    BY <2>2
  <2>4. ASSUME NEW j \in own PROVE j <= i
    <3>1. Len(rows) - j \in T
      OBVIOUS
    <3>2. ~(Len(rows) - j < Len(rows) - i)
      BY <2>2, <2>3, <3>1
    <3> QED
      BY <1>1, <3>2
  <2> QED
    BY <2>4
<1>3. own # {} => Latest(rows, role) \in own
  BY <1>2 DEF Latest
<1>4. own = {} => Latest(rows, role) = 0
  BY DEF Latest
<1> QED
  BY <1>1, <1>3, <1>4

-----------------------------------------------------------------------------
(* The rows of a round: those there were and one for each role that is due.*)
Due(role) == Latest(branches, role) = 0 \/ Refreshes(role)

RowsAfter(n, rows) ==
  /\ rows \in Seq(BranchRows) /\ Len(branches) <= Len(rows)
  /\ \A i \in 1..Len(branches) : rows[i] = branches[i]
  /\ \A i \in 1..Len(rows) : i > Len(branches) =>
       \E k \in 1..n : rows[i] = NewRow(Roles[k]) /\ Due(Roles[k])
  /\ \A i, j \in 1..Len(rows) : i > Len(branches) /\ j > Len(branches) /\ rows[i].role = rows[j].role => i = j
  /\ \A k \in 1..n : \E i \in 1..Len(rows) : rows[i].role = Roles[k]

EnsureNext(rows, n) == IF Due(Roles[n]) THEN Append(rows, NewRow(Roles[n])) ELSE rows

\* One role more.
LEMMA RoleStep ==
  ASSUME DeliberationTypes, NEW n \in 1..Len(Roles), NEW rows, RowsAfter(n - 1, rows)
  PROVE  RowsAfter(n, EnsureNext(rows, n))
<1>1. Len(branches) \in Nat /\ Len(rows) \in Nat /\ n \in Nat /\ Len(Roles) \in Nat /\ rows \in Seq(BranchRows)
  BY DeliberationAssumption DEF DeliberationTypes, RowsAfter
<1>2. NewRow(Roles[n]) \in BranchRows /\ NewRow(Roles[n]).role = Roles[n]
  BY DeliberationAssumption DEF NewRow, BranchRows, DeliberationTypes
<1>3. CASE ~Due(Roles[n])
  <2>1. EnsureNext(rows, n) = rows
    BY <1>3 DEF EnsureNext
  <2>2. PICK i \in 1..Len(branches) : branches[i].role = Roles[n]
    <3>1. Latest(branches, Roles[n]) # 0
      BY <1>3 DEF Due
    <3>2. branches \in Seq(BranchRows) /\ DOMAIN branches = 1..Len(branches)
      BY DEF DeliberationTypes
    <3>3. ~ \A i \in DOMAIN branches : branches[i].role # Roles[n]
      BY <3>1, <3>2 DEF Latest
    <3> QED
      BY <3>2, <3>3
  <2>3. i \in 1..Len(rows) /\ rows[i].role = Roles[n]
    BY <1>1, <2>2 DEF RowsAfter
  <2>4. \A k \in 1..n : k \in 1..(n - 1) \/ k = n
    BY <1>1
  <2>5. \A k \in 1..(n - 1) : k \in 1..n
    BY <1>1
  <2>6. \A k \in 1..n : \E j \in 1..Len(rows) : rows[j].role = Roles[k]
    BY <2>3, <2>4 DEF RowsAfter
  <2>7. \A j \in 1..Len(rows) : j > Len(branches) => \E k \in 1..n : rows[j] = NewRow(Roles[k]) /\ Due(Roles[k])
    BY <2>5 DEF RowsAfter
  <2> QED
    BY <2>1, <2>6, <2>7 DEF RowsAfter
<1>4. CASE Due(Roles[n])
  <2>1. PICK more : more = Append(rows, NewRow(Roles[n]))
    OBVIOUS
  <2>2. /\ more \in Seq(BranchRows) /\ Len(more) = Len(rows) + 1 /\ more[Len(rows) + 1] = NewRow(Roles[n])
        /\ \A i \in 1..Len(rows) : more[i] = rows[i]
    BY <1>1, <1>2, <2>1
  <2>3. EnsureNext(rows, n) = more
    BY <1>4, <2>1 DEF EnsureNext
  <2>4. \A i \in 1..Len(more) : i \in 1..Len(rows) \/ i = Len(rows) + 1
    BY <1>1, <2>2
  <2>5. Len(branches) <= Len(rows) /\ Len(branches) <= Len(more) /\ \A i \in 1..Len(branches) : more[i] = branches[i]
    BY <1>1, <2>2 DEF RowsAfter
  <2>6. n \in 1..n /\ (\A k \in 1..(n - 1) : k \in 1..n /\ k # n) /\ \A k \in 1..n : k \in 1..(n - 1) \/ k = n
    BY <1>1
  <2>7. ASSUME NEW i \in 1..Len(more), i > Len(branches)
        PROVE  \E k \in 1..n : more[i] = NewRow(Roles[k]) /\ Due(Roles[k])
    BY <1>4, <2>2, <2>4, <2>6, <2>7 DEF RowsAfter
  <2>8. ASSUME NEW i \in 1..Len(rows), i > Len(branches) PROVE rows[i].role # Roles[n]
    <3>1. PICK k \in 1..(n - 1) : rows[i] = NewRow(Roles[k])
      BY <2>8 DEF RowsAfter
    <3>2. k # n /\ k \in 1..Len(Roles) /\ rows[i].role = Roles[k]
      BY <1>1, <2>6, <3>1 DEF NewRow
    <3> QED
      BY <3>2, DeliberationAssumption
  <2>9. ASSUME NEW i \in 1..Len(more), NEW j \in 1..Len(more), i > Len(branches), j > Len(branches),
               more[i].role = more[j].role
        PROVE  i = j
    <3>1. CASE i \in 1..Len(rows) /\ j \in 1..Len(rows)
      BY <2>2, <2>9, <3>1 DEF RowsAfter
    <3>2. CASE i = Len(rows) + 1 /\ j \in 1..Len(rows)
      BY <1>2, <2>2, <2>8, <2>9, <3>2
    <3>3. CASE j = Len(rows) + 1 /\ i \in 1..Len(rows)
      BY <1>2, <2>2, <2>8, <2>9, <3>3
    <3> QED
      BY <2>4, <3>1, <3>2, <3>3
  <2>10. ASSUME NEW k \in 1..n PROVE \E i \in 1..Len(more) : more[i].role = Roles[k]
    <3>1. CASE k = n
      <4>1. Len(rows) + 1 \in 1..Len(more)
        BY <1>1, <2>2
      <4> QED
        BY <1>2, <2>2, <3>1, <4>1
    <3>2. CASE k \in 1..(n - 1)
      <4>1. PICK i \in 1..Len(rows) : rows[i].role = Roles[k]
        BY <3>2 DEF RowsAfter
      <4>2. i \in 1..Len(more)
        BY <1>1, <2>2
      <4> QED
        BY <2>2, <4>1, <4>2
    <3> QED
      BY <2>6, <3>1, <3>2
  <2>11. RowsAfter(n, more)
    BY <2>2, <2>5, <2>7, <2>9, <2>10 DEF RowsAfter
  <2> QED
    BY <2>3, <2>11
<1> QED
  BY <1>3, <1>4

\* All roles.
LEMMA EnsuredIs == ASSUME DeliberationTypes PROVE RowsAfter(Len(Roles), Ensured)
<1> DEFINE N == Len(Roles)
           T == Seq(BranchRows)
           F(g) == [n \in 0..Len(Roles) |->
                      IF n = 0 THEN branches
                      ELSE IF Latest(branches, Roles[n]) = 0 \/ Refreshes(Roles[n])
                           THEN Append(g[n - 1], NewRow(Roles[n])) ELSE g[n - 1]]
           after == CHOOSE g : g = F(g)
<1>1. N \in Nat /\ branches \in T
  BY DeliberationAssumption DEF DeliberationTypes
<1>2. PICK turn : turn = [p \in (1..N) \X T |-> EnsureNext(p[2], p[1])]
  OBVIOUS
<1>3. \A n \in 1..N, x \in T : turn[<<n, x>>] = EnsureNext(x, n)
  BY <1>2
<1>4. \A n \in 1..N, x \in T : EnsureNext(x, n) \in T
  <2> TAKE n \in 1..N, x \in T
  <2>1. NewRow(Roles[n]) \in BranchRows
    BY DeliberationAssumption DEF NewRow, BranchRows, DeliberationTypes
  <2> QED
    BY <2>1 DEF EnsureNext
<1> HIDE DEF T
<1>5. PICK f \in [0..N -> T] : RunOf(f, N, branches, turn)
  <2>1. TurnsOver(turn, N, T)
    BY <1>3, <1>4 DEF TurnsOver
  <2> QED
    BY <1>1, <2>1, LoopRuns
<1>6. ASSUME NEW n \in 1..N PROVE f[n] = EnsureNext(f[n - 1], n)
  <2>1. f[n - 1] \in T
    <3>1. n - 1 \in 0..N
      BY <1>1
    <3> QED
      BY <1>5, <3>1, Zenon
  <2> QED
    BY <1>3, <1>5, <2>1 DEF RunOf
<1>7. f = F(f)
  <2>1. \A n \in 0..N : f[n] = F(f)[n]
    <3> TAKE n \in 0..N
    <3>1. CASE n = 0
      BY <1>1, <1>5, <3>1 DEF RunOf
    <3>2. CASE n # 0
      <4>1. n \in 1..N
        BY <1>1, <3>2
      <4> QED
        BY <1>6, <3>2, <4>1 DEF EnsureNext, Due
    <3> QED
      BY <3>1, <3>2
  <2> QED
    BY <1>5, <2>1
<1>8. after = F(after)
  <2> HIDE DEF F
  <2> QED
    BY <1>7, Zenon
<1>9. Ensured = after[N]
  BY Zenon DEF Ensured
<1>10. after[0] = branches /\ \A n \in 1..N : after[n] = EnsureNext(after[n - 1], n)
  <2> HIDE DEF after
  <2>1. after[0] = branches
    BY <1>1, <1>8
  <2>2. ASSUME NEW n \in 1..N PROVE after[n] = EnsureNext(after[n - 1], n)
    <3>1. n \in 0..N /\ n # 0
      BY <1>1
    <3>2. after[n] = F(after)[n]
      BY <1>8
    <3> HIDE DEF N
    <3>3. after[n] = IF n = 0 THEN branches ELSE IF Latest(branches, Roles[n]) = 0 \/ Refreshes(Roles[n])
                                             THEN Append(after[n - 1], NewRow(Roles[n])) ELSE after[n - 1]
      BY <3>1, <3>2 DEF N
    <3> QED
      BY <3>1, <3>3, Zenon DEF EnsureNext, Due
  <2> QED
    BY <2>1, <2>2
<1> DEFINE S == {n \in 0..N : RowsAfter(n, after[n])}
<1> HIDE DEF after
<1>11. 0 \in S
  <2>1. RowsAfter(0, branches)
    BY DEF RowsAfter, DeliberationTypes
  <2> QED
    BY <1>1, <1>10, <2>1
<1>12. ASSUME NEW n \in 1..N, n - 1 \in S PROVE n \in S
  <2>1. RowsAfter(n, EnsureNext(after[n - 1], n))
    BY <1>12, RoleStep
  <2> QED
    BY <1>1, <1>10, <2>1
<1>13. 0..N \subseteq S
  <2> HIDE DEF S
  <2> QED
    BY <1>1, <1>11, <1>12, LoopInduction
<1>14. N \in 0..N
  BY <1>1
<1> QED
  BY <1>9, <1>13, <1>14

-----------------------------------------------------------------------------
(* What the branches of a round are given.                                 *)
LeftNext(have, n, runnable) ==
  have - IF n \in runnable THEN Share(have, Cardinality({k \in runnable : k > n})) ELSE 0

\* A branch gets no more than there is.
LEMMA ShareWithin ==
  ASSUME NEW have \in Nat, NEW waiting \in Nat
  PROVE  Share(have, waiting) \in 0..have
BY DeliberationAssumption DEF Share

Runnable(rows) == {k \in DOMAIN Roles : rows[Latest(rows, Roles[k])].status = "queued"}

\* What remains goes down from role to role.
LEMMA RemainingIs ==
  ASSUME DeliberationTypes, counted <= CallBudget, NEW rows
  PROVE  /\ Remaining(rows)[0] = CallBudget - counted /\ \A n \in 0..Len(Roles) : Remaining(rows)[n] \in Nat
         /\ \A n \in 1..Len(Roles) :
              /\ Remaining(rows)[n] <= Remaining(rows)[n - 1]
              /\ Remaining(rows)[n] < Remaining(rows)[n - 1] => n \in Runnable(rows)
<1> DEFINE N == Len(Roles)
           R == {k \in DOMAIN Roles : rows[Latest(rows, Roles[k])].status = "queued"}
           F(g) == [n \in 0..Len(Roles) |->
                      IF n = 0 THEN CallBudget - counted
                      ELSE g[n - 1] - IF n \in R THEN Share(g[n - 1], Cardinality({k \in R : k > n})) ELSE 0]
           left == CHOOSE g : g = F(g)
<1>1. N \in Nat /\ DOMAIN Roles = 1..N /\ CallBudget - counted \in Nat
  BY DeliberationAssumption DEF DeliberationTypes
<1>2. ASSUME NEW have \in Nat, NEW n \in 1..N
      PROVE  /\ LeftNext(have, n, R) \in Nat /\ LeftNext(have, n, R) <= have
             /\ LeftNext(have, n, R) < have => n \in R
  <2>1. CASE n \in R
    <3>1. IsFiniteSet({k \in R : k > n})
      <4>1. IsFiniteSet(1..N)
        BY <1>1, FS_Interval
      <4>2. {k \in R : k > n} \subseteq 1..N
        BY <1>1
      <4> QED
        BY <4>1, <4>2, FS_Subset
    <3>2. Cardinality({k \in R : k > n}) \in Nat
      BY <3>1, FS_CardinalityType
    <3>3. Share(have, Cardinality({k \in R : k > n})) \in 0..have
      BY <3>2, ShareWithin
    <3>4. PICK s \in 0..have : s = Share(have, Cardinality({k \in R : k > n}))
      BY <3>3
    <3>5. LeftNext(have, n, R) = have - s
      BY <2>1, <3>4 DEF LeftNext
    <3> HIDE DEF R
    <3> QED
      BY <2>1, <3>4, <3>5
  <2>2. CASE n \notin R
    <3>1. LeftNext(have, n, R) = have - 0
      BY <2>2 DEF LeftNext
    <3> HIDE DEF R
    <3> QED
      BY <2>2, <3>1
  <2> QED
    BY <2>1, <2>2
<1>3. PICK turn : turn = [p \in (1..N) \X Nat |-> LeftNext(p[2], p[1], R)]
  OBVIOUS
<1>4. \A n \in 1..N, x \in Nat : turn[<<n, x>>] = LeftNext(x, n, R)
  <2> HIDE DEF R
  <2> QED
    BY <1>3
<1>5. PICK f \in [0..N -> Nat] : RunOf(f, N, CallBudget - counted, turn)
  <2>1. TurnsOver(turn, N, Nat)
    BY <1>2, <1>4 DEF TurnsOver
  <2> QED
    BY <1>1, <2>1, LoopRuns
<1>6. ASSUME NEW n \in 1..N PROVE f[n] = LeftNext(f[n - 1], n, R)
  <2>1. f[n - 1] \in Nat
    BY <1>1, <1>5
  <2> QED
    BY <1>4, <1>5, <2>1 DEF RunOf
<1>7. f = F(f)
  <2>1. \A n \in 0..N : f[n] = F(f)[n]
    <3> TAKE n \in 0..N
    <3>1. CASE n = 0
      BY <1>1, <1>5, <3>1 DEF RunOf
    <3>2. CASE n # 0
      <4>1. n \in 1..N
        BY <1>1, <3>2
      <4> HIDE DEF R
      <4> QED
        BY <1>6, <3>2, <4>1 DEF LeftNext
    <3> QED
      BY <3>1, <3>2
  <2> HIDE DEF R
  <2> QED
    BY <1>5, <2>1
<1>8. left = F(left)
  <2> HIDE DEF F
  <2> QED
    BY <1>7, Zenon
<1>9. Remaining(rows) = left
  BY Zenon DEF Remaining
<1>10. left[0] = CallBudget - counted /\ \A n \in 1..N : left[n] = LeftNext(left[n - 1], n, R)
  <2> HIDE DEF left, R
  <2>1. left[0] = CallBudget - counted
    BY <1>1, <1>8
  <2>2. ASSUME NEW n \in 1..N PROVE left[n] = LeftNext(left[n - 1], n, R)
    <3>1. n \in 0..N /\ n # 0
      BY <1>1
    <3>2. left[n] = F(left)[n]
      BY <1>8
    <3>3. left[n] = left[n - 1] - IF n \in R THEN Share(left[n - 1], Cardinality({k \in R : k > n})) ELSE 0
      BY <3>1, <3>2
    <3> QED
      BY <3>3, Zenon DEF LeftNext
  <2> QED
    BY <2>1, <2>2
<1> DEFINE S == {n \in 0..N : left[n] \in Nat}
<1> HIDE DEF left
<1>11. 0 \in S
  BY <1>1, <1>10
<1>12. ASSUME NEW n \in 1..N, n - 1 \in S PROVE n \in S
  <2>1. left[n - 1] \in Nat /\ n \in 0..N
    BY <1>1, <1>12
  <2> HIDE DEF R
  <2>2. left[n] \in Nat
    BY <1>2, <1>10, <2>1
  <2> QED
    BY <2>1, <2>2
<1>13. 0..N \subseteq S
  <2> HIDE DEF S
  <2> QED
    BY <1>1, <1>11, <1>12, LoopInduction
<1>14. ASSUME NEW n \in 1..N PROVE left[n] <= left[n - 1] /\ (left[n] < left[n - 1] => n \in R)
  <2>1. left[n - 1] \in Nat
    BY <1>1, <1>13
  <2> HIDE DEF R
  <2> QED
    BY <1>2, <1>10, <2>1
<1> QED
  BY <1>9, <1>10, <1>13, <1>14 DEF Runnable

Given(rows, m) ==
  [i \in 1..Len(rows) |->
     IF (CHOOSE n \in DOMAIN Roles : Roles[n] = rows[i].role) <= m THEN Allot(rows, i) ELSE 0]

\* Branches get calls of the budget, and only where they wait for them.
LEMMA AllotsWithin ==
  ASSUME DeliberationTypes, counted <= CallBudget, NEW rows, RowsAfter(Len(Roles), rows)
  PROVE  /\ \A i \in 1..Len(rows) : Allot(rows, i) \in Nat /\ (Allot(rows, i) > 0 => rows[i].status = "queued")
         /\ \A x : AddsUp(x, [i \in 1..Len(rows) |-> Allot(rows, i)], Len(rows)) => counted + x <= CallBudget
<1> DEFINE N == Len(rows)
           M == Len(Roles)
           place(i) == CHOOSE n \in DOMAIN Roles : Roles[n] = rows[i].role
           left == Remaining(rows)
<1>1. /\ N \in Nat /\ M \in Nat /\ DOMAIN Roles = 1..M /\ rows \in Seq(BranchRows) /\ DOMAIN rows = 1..N
      /\ \A i \in 1..N : rows[i].role \in Range(Roles)
  <2>1. rows \in Seq(BranchRows)
    BY DEF RowsAfter
  <2>2. \A i \in 1..N : rows[i].role \in Range(Roles)
    <3>1. \A i \in 1..N : rows[i] \in BranchRows
      BY <2>1
    <3> QED
      BY <3>1 DEF BranchRows
  <2> QED
    BY <2>1, <2>2, DeliberationAssumption
<1>2. \A i \in 1..N : place(i) \in 1..M /\ Roles[place(i)] = rows[i].role
  <2> TAKE i \in 1..N
  <2>1. \E n \in DOMAIN Roles : Roles[n] = rows[i].role
    BY <1>1 DEF Range
  <2> QED
    BY <1>1, <2>1
<1>3. /\ left[0] = CallBudget - counted /\ \A n \in 0..M : left[n] \in Nat
      /\ \A n \in 1..M : left[n] <= left[n - 1] /\ (left[n] < left[n - 1] => n \in Runnable(rows))
  BY RemainingIs
<1>4. \A i \in 1..N : Allot(rows, i) = IF Latest(rows, rows[i].role) = i THEN left[place(i) - 1] - left[place(i)] ELSE 0
  BY DEF Allot
<1> HIDE DEF place, left
<1>5. ASSUME NEW i \in 1..N PROVE Allot(rows, i) \in Nat /\ (Allot(rows, i) > 0 => rows[i].status = "queued")
  <2>1. PICK p \in 1..M : p = place(i)
    BY <1>2
  <2>2. left[p] \in Nat /\ left[p - 1] \in Nat /\ left[p] <= left[p - 1]
    BY <1>1, <1>3
  <2>3. CASE Latest(rows, rows[i].role) = i
    <3>1. Allot(rows, i) = left[p - 1] - left[p]
      BY <1>4, <2>1, <2>3
    <3>2. Allot(rows, i) > 0 => p \in Runnable(rows)
      BY <1>3, <2>2, <3>1
    <3>3. p \in Runnable(rows) => rows[i].status = "queued"
      BY <1>2, <2>1, <2>3 DEF Runnable
    <3> QED
      BY <2>2, <3>1, <3>2, <3>3
  <2>4. CASE Latest(rows, rows[i].role) # i
    BY <1>4, <2>4
  <2> QED
    BY <2>3, <2>4
<1>6. ASSUME NEW m \in 0..M
      PROVE  Given(rows, m) \in [1..N -> Nat] /\ \A i \in 1..N : Given(rows, m)[i] = IF place(i) <= m THEN Allot(rows, i) ELSE 0
  BY <1>5 DEF Given, place
<1> DEFINE S == {m \in 0..M : \A x : AddsUp(x, Given(rows, m), N) => x \in Nat /\ x + left[m] <= left[0]}
<1>7. 0 \in S
  <2>1. \A i \in 1..N : Given(rows, 0)[i] = 0
    BY <1>1, <1>2, <1>6
  <2>2. Given(rows, 0) \in [1..N -> Nat] /\ 0 \in 0..M
    BY <1>1, <1>6
  <2>3. ASSUME NEW x, AddsUp(x, Given(rows, 0), N) PROVE x \in Nat /\ x = 0
    <3>1. PICK zeros : zeros = [n \in 1..N |-> 0]
      OBVIOUS
    <3>2. zeros \in [1..N -> Nat] /\ AddsUp(0, zeros, N) /\ \A n \in 1..N : zeros[n] = 0
      BY <1>1, <3>1, SumOfZeros
    <3>3. \A n \in 1..N : Given(rows, 0)[n] <= zeros[n] + zeros[n]
      BY <2>1, <3>2
    <3>4. x \in Nat /\ x <= 0 + 0
      BY <1>1, <2>2, <2>3, <3>2, <3>3, SumsBelow
    <3> QED
      BY <3>4
  <2> QED
    BY <1>3, <2>2, <2>3
<1>8. ASSUME NEW m \in 1..M, m - 1 \in S PROVE m \in S
  <2>1. m \in 0..M /\ m - 1 \in 0..M /\ left[m] \in Nat /\ left[m - 1] \in Nat /\ left[0] \in Nat /\ left[m] <= left[m - 1]
    BY <1>1, <1>3
  <2>2. PICK w : w = Given(rows, m - 1)
    OBVIOUS
  <2>3. PICK v : v = Given(rows, m)
    OBVIOUS
  <2>4. /\ w \in [1..N -> Nat] /\ \A i \in 1..N : w[i] = IF place(i) <= m - 1 THEN Allot(rows, i) ELSE 0
        /\ v \in [1..N -> Nat] /\ \A i \in 1..N : v[i] = IF place(i) <= m THEN Allot(rows, i) ELSE 0
    BY <1>6, <2>1, <2>2, <2>3
  <2>5. PICK l \in 1..N : l = Latest(rows, Roles[m]) /\ rows[l].role = Roles[m]
    <3>1. \E i \in 1..N : rows[i].role = Roles[m]
      BY DEF RowsAfter
    <3> QED
      BY <1>1, <3>1, LatestIs
  <2>6. \A i \in 1..N : place(i) = m <=> rows[i].role = Roles[m]
    BY <1>1, <1>2, DeliberationAssumption
  <2>7. PICK d \in Nat : d = left[m - 1] - left[m]
    BY <2>1
  <2>8. v[l] = w[l] + d
    <3>1. place(l) = m /\ w[l] = 0 /\ v[l] = Allot(rows, l)
      BY <2>4, <2>5, <2>6
    <3>2. Allot(rows, l) = d
      BY <1>4, <2>5, <2>7, <3>1
    <3> QED
      BY <3>1, <3>2
  <2>9. ASSUME NEW i \in 1..N, i # l PROVE v[i] = w[i]
    <3>1. CASE place(i) = m
      <4>1. Allot(rows, i) = 0
        BY <1>4, <2>5, <2>6, <2>9, <3>1
      <4> QED
        BY <2>4, <3>1, <4>1
    <3>2. CASE place(i) # m
      <4>1. place(i) <= m <=> place(i) <= m - 1
        BY <1>2, <3>2
      <4> QED
        BY <2>4, <4>1
    <3> QED
      BY <3>1, <3>2
  <2>10. PICK x \in Nat : AddsUp(x, w, N)
    BY <1>1, <2>4, SumOfTurns
  <2>11. x + left[m - 1] <= left[0]
    BY <1>8, <2>2, <2>10
  <2>12. ASSUME NEW y, AddsUp(y, v, N) PROVE y \in Nat /\ y + left[m] <= left[0]
    <3>1. y = x + d
      <4>1. MoreAt(v, w, N, l, d)
        BY <2>8, <2>9 DEF MoreAt
      <4>2. N \in Nat /\ w \in [1..N -> Nat] /\ v \in [1..N -> Nat] /\ AddsUp(x, w, N) /\ AddsUp(y, v, N)
        BY <1>1, <2>4, <2>10, <2>12
      <4> QED
        BY <4>1, <4>2, SumAt
    <3>2. PICK p \in Nat : p = left[m - 1]
      BY <2>1
    <3>3. PICK q \in Nat : q = left[m]
      BY <2>1
    <3>4. x \in Nat /\ d \in Nat /\ y = x + (p - q) /\ x + p <= left[0] /\ q <= p
      BY <2>1, <2>7, <2>10, <2>11, <3>1, <3>2, <3>3
    <3>5. PICK r \in Nat : r = left[0]
      BY <2>1
    <3>6. y \in Nat /\ y + q <= r
      BY <3>4, <3>5
    <3> QED
      BY <3>3, <3>5, <3>6
  <2> QED
    BY <2>1, <2>3, <2>12
<1>9. 0..M \subseteq S
  <2> HIDE DEF S
  <2> QED
    BY <1>1, <1>7, <1>8, LoopInduction
<1>10. M \in S /\ Given(rows, M) = [i \in 1..N |-> Allot(rows, i)]
  <2>1. M \in 0..M
    BY <1>1
  <2>2. \A i \in 1..N : place(i) <= M
    BY <1>1, <1>2
  <2> HIDE DEF S
  <2> QED
    BY <1>6, <1>9, <2>1, <2>2
<1>11. counted \in Nat /\ CallBudget \in Nat /\ left[M] \in Nat
  BY <1>1, <1>3, DeliberationAssumption DEF DeliberationTypes
<1>12. ASSUME NEW x, AddsUp(x, [i \in 1..N |-> Allot(rows, i)], N) PROVE counted + x <= CallBudget
  <2>1. x \in Nat /\ x + left[M] <= left[0]
    BY <1>10, <1>12
  <2> QED
    BY <1>3, <1>11, <2>1
<1> QED
  BY <1>5, <1>12

-----------------------------------------------------------------------------
(* The steps of a round.                                                   *)

\* What the parts of the invariant say of the rows.
LEMMA RowFacts ==
  ASSUME DeliberationInv
  PROVE  /\ branches \in Seq(BranchRows) /\ Len(branches) \in Nat /\ DOMAIN branches = 1..Len(branches)
         /\ \A i \in 1..Len(branches) :
              /\ branches[i] \in BranchRows /\ branches[i].calls \in Nat /\ branches[i].round \in Nat
              /\ branches[i].round >= 1 /\ branches[i].role \in Range(Roles)
              /\ branches[i].status = "queued" => branches[i].calls = 0
         /\ RowCalls(branches) \in Nat /\ CallsOf(branches) \in [1..Len(branches) -> Nat]
         /\ AddsUp(RowCalls(branches), CallsOf(branches), Len(branches))
<1>1. branches \in Seq(BranchRows) /\ Len(branches) \in Nat /\ DOMAIN branches = 1..Len(branches)
  BY DEF DeliberationInv, DeliberationTypes
<1>2. \A i \in 1..Len(branches) : branches[i] \in BranchRows
  BY <1>1
<1>3. \A i \in 1..Len(branches) :
        /\ branches[i].calls \in Nat /\ branches[i].round \in Nat /\ branches[i].role \in Range(Roles)
        /\ branches[i].round >= 1 /\ (branches[i].status = "queued" => branches[i].calls = 0)
  BY <1>1, <1>2 DEF BranchRows, DeliberationInv, DeliberationTypes, RolesKept
<1> QED
  BY <1>1, <1>2, <1>3, RowCallsAre

\* One refresh of a role remains one.
LEMMA RefreshedOnce ==
  ASSUME DeliberationInv, NEW rows, RowsAfter(Len(Roles), rows), NEW i \in 1..Len(rows), NEW j \in 1..Len(rows),
         i # j, rows[i].role = rows[j].role, rows[i].round > 1
  PROVE  rows[j].round = 1
<1>1. Len(branches) \in Nat /\ Len(rows) \in Nat /\ Len(branches) <= Len(rows)
  BY RowFacts DEF RowsAfter
<1>2. \A n \in 1..Len(rows) : n \in 1..Len(branches) \/ n > Len(branches)
  BY <1>1
<1>3. \A n \in 1..Len(branches) : rows[n] = branches[n]
  BY DEF RowsAfter
<1>4. ASSUME NEW n \in 1..Len(rows), n > Len(branches) PROVE Due(rows[n].role)
  <2>1. PICK k \in 1..Len(Roles) : rows[n] = NewRow(Roles[k]) /\ Due(Roles[k])
    BY <1>4 DEF RowsAfter
  <2>2. rows[n].role = Roles[k]
    BY <2>1 DEF NewRow
  <2> QED
    BY <2>1, <2>2
<1>5. CASE i \in 1..Len(branches) /\ j \in 1..Len(branches)
  BY <1>3, <1>5, RowFacts DEF DeliberationInv, RolesKept
<1>6. CASE i > Len(branches) /\ j > Len(branches)
  BY <1>6 DEF RowsAfter
<1>7. ASSUME NEW n \in 1..Len(branches), NEW role, branches[n].role = role, Due(role)
      PROVE  branches[n].round = 1
  <2>1. Latest(branches, role) # 0
    BY <1>7, RowFacts, LatestIs
  <2>2. ~HadRefresh(role)
    BY <1>7, <2>1 DEF Due, Refreshes
  <2>3. ~(branches[n].round > 1)
    BY <1>7, <2>2, RowFacts DEF HadRefresh
  <2> QED
    BY <2>3, RowFacts
<1>8. CASE i > Len(branches) /\ j \in 1..Len(branches)
  <2>1. branches[j].role = rows[i].role /\ Due(rows[i].role)
    BY <1>3, <1>4, <1>8
  <2> QED
    BY <1>3, <1>7, <1>8, <2>1
<1>9. CASE i \in 1..Len(branches) /\ j > Len(branches)
  <2>1. branches[i].role = rows[j].role /\ Due(rows[j].role)
    BY <1>3, <1>4, <1>9
  <2>2. branches[i].round = 1
    BY <1>7, <1>9, <2>1
  <2> QED
    BY <1>3, <1>9, <2>2
<1> QED
  BY <1>2, <1>5, <1>6, <1>8, <1>9

\* Branches are sent out.
LEMMA BeginStep == ASSUME DeliberationInv, BeginRound PROVE DeliberationInv'
<1>1. PICK rows : rows = Ensured
  OBVIOUS
<1>2. RowsAfter(Len(Roles), rows)
  BY <1>1, EnsuredIs DEF DeliberationInv
<1> DEFINE N == Len(rows)
<1>3. /\ rows \in Seq(BranchRows) /\ N \in Nat /\ DOMAIN rows = 1..N /\ Len(branches) \in Nat /\ Len(branches) <= N
      /\ \A i \in 1..N : rows[i] \in BranchRows /\ rows[i].calls \in Nat /\ rows[i].round \in Nat
  <2>1. rows \in Seq(BranchRows) /\ N \in Nat /\ DOMAIN rows = 1..N
    BY <1>2 DEF RowsAfter
  <2>2. \A i \in 1..N : rows[i] \in BranchRows
    BY <2>1
  <2>3. \A i \in 1..N : rows[i].calls \in Nat /\ rows[i].round \in Nat
    BY <2>2 DEF BranchRows
  <2> QED
    BY <1>2, <2>1, <2>2, <2>3, RowFacts DEF RowsAfter
<1>4. \A i \in 1..N : i \in 1..Len(branches) \/ i > Len(branches)
  BY <1>3
<1>5. ASSUME NEW i \in 1..N
      PROVE  /\ rows[i].round >= 1 /\ rows[i].status # "running"
             /\ rows[i].status = "queued" => rows[i].calls = 0
             /\ i > Len(branches) => rows[i].calls = 0
  <2>1. CASE i \in 1..Len(branches)
    <3>1. rows[i] = branches[i]
      BY <1>2, <2>1 DEF RowsAfter
    <3>2. branches[i].status # "running"
      BY <2>1, RowFacts DEF BeginRound, DeliberationInv, CountKept
    <3> QED
      BY <2>1, <3>1, <3>2, RowFacts
  <2>2. CASE i > Len(branches)
    <3>1. \E k \in 1..Len(Roles) : rows[i] = NewRow(Roles[k])
      BY <1>2, <2>2 DEF RowsAfter
    <3>2. planSteps \in Nat
      BY DEF DeliberationInv, DeliberationTypes
    <3> QED
      BY <3>1, <3>2 DEF NewRow
  <2> QED
    BY <1>4, <2>1, <2>2
<1>6. /\ \A i \in 1..N : Allot(rows, i) \in Nat /\ (Allot(rows, i) > 0 => rows[i].status = "queued")
      /\ \A x : AddsUp(x, [i \in 1..N |-> Allot(rows, i)], N) => counted + x <= CallBudget
  <2>1. counted <= CallBudget /\ DeliberationTypes
    BY DEF DeliberationInv, CountKept
  <2> QED
    BY <1>2, <2>1, AllotsWithin
<1>7. PICK new : new = branches'
  OBVIOUS
<1>8. PICK given : given = allotted'
  OBVIOUS
<1>9. /\ given = [i \in 1..N |-> Allot(rows, i)]
      /\ new = [i \in 1..N |-> IF Allot(rows, i) > 0 THEN [rows[i] EXCEPT !.status = "running"] ELSE rows[i]]
  <2>1. /\ allotted' = [i \in DOMAIN rows |-> Allot(rows, i)]
        /\ branches' = [i \in DOMAIN rows |->
                          IF Allot(rows, i) > 0 THEN [rows[i] EXCEPT !.status = "running"] ELSE rows[i]]
    BY <1>1, Zenon DEF BeginRound
  <2> QED
    BY <1>3, <1>7, <1>8, <2>1
<1>10. ASSUME NEW i \in 1..N
       PROVE  /\ given[i] = Allot(rows, i) /\ new[i] \in BranchRows /\ new[i].calls = rows[i].calls
              /\ new[i].round = rows[i].round /\ new[i].role = rows[i].role
              /\ new[i].status = "running" => given[i] > 0
              /\ new[i].status = "queued" => rows[i].status = "queued"
  <2>1. CASE Allot(rows, i) > 0
    <3>1. new[i] = [rows[i] EXCEPT !.status = "running"]
      BY <1>9, <2>1
    <3> QED
      BY <1>3, <1>9, <2>1, <3>1 DEF BranchRows
  <2>2. CASE ~(Allot(rows, i) > 0)
    <3>1. new[i] = rows[i]
      BY <1>9, <2>2
    <3> QED
      BY <1>3, <1>5, <1>9, <3>1
  <2> QED
    BY <2>1, <2>2
<1>11. new \in Seq(BranchRows) /\ Len(new) = N /\ DOMAIN new = 1..N /\ given \in [1..N -> Nat]
  <2>1. new \in [1..N -> BranchRows]
    BY <1>9, <1>10
  <2>2. given \in [1..N -> Nat]
    BY <1>6, <1>9
  <2>3. N \in Nat
    BY <1>3
  <2> HIDE DEF N
  <2>4. new \in Seq(BranchRows)
    BY <2>1, <2>3
  <2>5. DOMAIN new = 1..N
    BY <2>1
  <2>6. Len(new) = N
    BY <2>3, <2>4, <2>5
  <2> QED
    BY <2>2, <2>4, <2>5, <2>6
<1> HIDE DEF N
<1>12. /\ dpc = "planning" /\ dpc' = "branching"
       /\ counted' = counted /\ planned' = planned /\ planSteps' = planSteps /\ spent' = spent /\ unrecorded' = unrecorded
  BY DEF BeginRound
<1>13. DeliberationTypes'
  <2>1. \A i \in 1..N : new[i].status = "queued" => new[i].calls = 0
    BY <1>5, <1>10
  <2> QED
    BY <1>7, <1>11, <1>12, <2>1 DEF DeliberationTypes, DeliberationInv
<1>14. /\ CallsOf(new) \in [1..N -> Nat] /\ RowCalls(new) \in Nat /\ AddsUp(RowCalls(new), CallsOf(new), N)
       /\ \A i \in 1..N : CallsOf(new)[i] = new[i].calls
  BY <1>11, RowCallsAre DEF CallsOf
<1>15. RowCalls(new) = RowCalls(branches)
  <2>1. ASSUME NEW i \in 1..N
        PROVE  CallsOf(new)[i] = IF i <= Len(branches) THEN CallsOf(branches)[i] ELSE 0
    <3>1. CASE i \in 1..Len(branches)
      <4>1. rows[i] = branches[i]
        BY <1>2, <3>1 DEF RowsAfter
      <4>2. CallsOf(branches)[i] = branches[i].calls /\ i <= Len(branches)
        BY <1>3, <3>1 DEF CallsOf
      <4> QED
        BY <1>10, <1>14, <4>1, <4>2
    <3>2. CASE i > Len(branches)
      BY <1>3, <1>5, <1>10, <1>14, <3>2
    <3> QED
      BY <1>4, <3>1, <3>2 DEF N
  <2>2. /\ Len(branches) \in Nat /\ Len(branches) <= N /\ CallsOf(branches) \in [1..Len(branches) -> Nat]
        /\ AddsUp(RowCalls(branches), CallsOf(branches), Len(branches))
    BY <1>3, RowFacts DEF N
  <2>3. N \in Nat /\ CallsOf(new) \in [1..N -> Nat] /\ AddsUp(RowCalls(new), CallsOf(new), N)
    BY <1>3, <1>14 DEF N
  <2>4. PICK v : v = CallsOf(new)
    OBVIOUS
  <2>5. PICK w : w = CallsOf(branches)
    OBVIOUS
  <2>6. PICK m \in Nat : m = Len(branches)
    BY <2>2
  <2>7. \A i \in 1..N : v[i] = IF i <= m THEN w[i] ELSE 0
    BY <2>1, <2>4, <2>5, <2>6
  <2>8. m <= N /\ w \in [1..m -> Nat] /\ AddsUp(RowCalls(branches), w, m)
    BY <2>2, <2>5, <2>6
  <2>9. N \in Nat /\ v \in [1..N -> Nat] /\ AddsUp(RowCalls(new), v, N)
    BY <2>3, <2>4
  <2> QED
    BY <2>7, <2>8, <2>9, SumLonger
<1>16. CountKept'
  BY <1>7, <1>12, <1>15 DEF CountKept, DeliberationInv
<1>17. ASSUME NEW x, AddsUp(x, EarlierCalls', N) PROVE planned + x <= counted
  <2>1. ASSUME NEW i \in 1..N PROVE (IF given[i] > 0 THEN 0 ELSE new[i].calls) = CallsOf(new)[i]
    BY <1>5, <1>6, <1>10, <1>14
  <2>2. EarlierCalls' = [i \in 1..Len(new) |-> IF given[i] > 0 THEN 0 ELSE new[i].calls]
    BY <1>7, <1>8 DEF EarlierCalls
  <2>3. EarlierCalls' = CallsOf(new)
    BY <1>11, <1>14, <2>1, <2>2
  <2>4. x = RowCalls(new)
    BY <1>3, <1>14, <1>17, <2>3, SumSame DEF N
  <2> QED
    BY <1>12, <1>15, <2>4 DEF DeliberationInv, CountKept
<1>18. RoundKept'
  <2>1. \A i \in 1..N : /\ given[i] > 0 => new[i].calls <= given[i]
                        /\ new[i].status = "running" => new[i].calls < given[i]
    BY <1>3, <1>5, <1>6, <1>10 DEF N
  <2>2. \A x : AddsUp(x, given, N) => counted + x <= CallBudget
    BY <1>6, <1>9
  <2> QED
    BY <1>7, <1>8, <1>11, <1>12, <1>17, <2>1, <2>2 DEF RoundKept
<1>19. RolesKept'
  <2>1. \A i \in 1..N : new[i].round >= 1
    BY <1>5, <1>10
  <2>2. \A i, j \in 1..N : (i # j /\ new[i].role = new[j].role /\ new[i].round > 1) => new[j].round = 1
    BY <1>2, <1>10, RefreshedOnce DEF N
  <2> QED
    BY <1>7, <1>11, <2>1, <2>2 DEF RolesKept
<1> QED
  BY <1>13, <1>16, <1>18, <1>19 DEF DeliberationInv

RetryStatus(i) == IF branches[i].calls + 1 = allotted[i] THEN "failed" ELSE "running"

\* A branch uses one of its calls.
LEMMA AnalyzesStep ==
  ASSUME DeliberationInv, NEW i \in DOMAIN branches, BranchAnalyzes(i)
  PROVE  DeliberationInv'
<1> DEFINE N == Len(branches)
<1>1. PICK new : new = branches'
  OBVIOUS
<1>2. /\ dpc = "branching" /\ branches[i].status = "running" /\ spent' = spent + 1
      /\ dpc' = dpc /\ allotted' = allotted /\ counted' = counted /\ planned' = planned /\ planSteps' = planSteps
      /\ unrecorded' = unrecorded
  <2>1. /\ dpc = "branching" /\ branches[i].status = "running" /\ spent' = spent + 1
        /\ UNCHANGED <<dpc, allotted, counted, planned, planSteps, seen, writable, written, unrecorded, pauses>>
    BY Zenon DEF BranchAnalyzes
  <2> QED
    BY <2>1
<1>3. /\ branches \in Seq(BranchRows) /\ N \in Nat /\ DOMAIN branches = 1..N /\ i \in 1..N
      /\ \A n \in 1..N : branches[n] \in BranchRows
  BY RowFacts
<1>4. PICK own \in BranchRows : /\ new = [branches EXCEPT ![i] = own]
                                /\ own.calls = branches[i].calls + 1 /\ own.round = branches[i].round
                                /\ own.role = branches[i].role /\ own.status # "queued"
                                /\ own.status = "running" => branches[i].calls + 1 # allotted[i]
  <2>1. branches[i] \in BranchRows
    BY <1>3
  <2>2. CASE \E blocks \in BOOLEAN :
               new = [branches EXCEPT ![i].status = "completed", ![i].calls = @ + 1, ![i].blocks = blocks]
    <3>1. PICK blocks \in BOOLEAN :
                 new = [branches EXCEPT ![i].status = "completed", ![i].calls = @ + 1, ![i].blocks = blocks]
      BY <2>2, Zenon
    <3>2. PICK own : own = [branches[i] EXCEPT !.status = "completed", !.calls = @ + 1, !.blocks = blocks]
      OBVIOUS
    <3>3. new = [branches EXCEPT ![i] = own]
      BY <3>1, <3>2
    <3>4. own \in BranchRows
      <4>1. branches[i].calls + 1 \in Nat
        BY <1>3, RowFacts
      <4> QED
        BY <2>1, <3>2, <4>1, Zenon DEF BranchRows
    <3>5. /\ own.calls = branches[i].calls + 1 /\ own.round = branches[i].round
          /\ own.role = branches[i].role /\ own.status = "completed"
      BY <2>1, <3>2 DEF BranchRows
    <3> QED
      BY <3>3, <3>4, <3>5
  <2>3. CASE new = [branches EXCEPT ![i].calls = @ + 1, ![i].status = RetryStatus(i)]
    <3>1. PICK st : st = RetryStatus(i)
      OBVIOUS
    <3>2. PICK own : own = [branches[i] EXCEPT !.calls = @ + 1, !.status = st]
      OBVIOUS
    <3>3. new = [branches EXCEPT ![i] = own]
      BY <2>3, <3>1, <3>2
    <3>4. st \in {"failed", "running"} /\ (st = "running" => branches[i].calls + 1 # allotted[i])
      BY <3>1 DEF RetryStatus
    <3>5. own \in BranchRows
      <4>1. branches[i].calls + 1 \in Nat
        BY <1>3, RowFacts
      <4> QED
        BY <2>1, <3>2, <3>4, <4>1 DEF BranchRows
    <3>6. /\ own.calls = branches[i].calls + 1 /\ own.round = branches[i].round
          /\ own.role = branches[i].role /\ own.status = st
      BY <2>1, <3>2 DEF BranchRows
    <3> QED
      BY <3>3, <3>4, <3>5, <3>6
  <2>4. \/ \E blocks \in BOOLEAN :
             new = [branches EXCEPT ![i].status = "completed", ![i].calls = @ + 1, ![i].blocks = blocks]
        \/ new = [branches EXCEPT ![i].calls = @ + 1, ![i].status = RetryStatus(i)]
    BY <1>1, Zenon DEF BranchAnalyzes, RetryStatus
  <2> QED
    BY <2>2, <2>3, <2>4, Zenon
<1>5. /\ new \in Seq(BranchRows) /\ Len(new) = N /\ DOMAIN new = 1..N /\ new[i] = own
      /\ \A n \in 1..N : n # i => new[n] = branches[n]
  BY <1>3, <1>4
<1>6. /\ allotted \in [1..N -> Nat] /\ branches[i].calls \in Nat /\ branches[i].calls < allotted[i]
      /\ \A n \in 1..N : /\ allotted[n] > 0 => branches[n].calls <= allotted[n]
                         /\ branches[n].status = "running" => branches[n].calls < allotted[n]
  BY <1>2, <1>3, RowFacts DEF DeliberationInv, RoundKept
<1>7. /\ CallsOf(new) \in [1..N -> Nat] /\ RowCalls(new) \in Nat /\ AddsUp(RowCalls(new), CallsOf(new), N)
      /\ \A n \in 1..N : CallsOf(new)[n] = new[n].calls
  BY <1>5, RowCallsAre DEF CallsOf
<1>8. RowCalls(new) = RowCalls(branches) + 1
  <2>1. PICK v : v = CallsOf(new)
    OBVIOUS
  <2>2. PICK w : w = CallsOf(branches)
    OBVIOUS
  <2>3. \A n \in 1..N : w[n] = branches[n].calls /\ v[n] = new[n].calls
    BY <1>7, <2>1, <2>2 DEF CallsOf
  <2>4. MoreAt(v, w, N, i, 1)
    BY <1>3, <1>4, <1>5, <2>3 DEF MoreAt
  <2>5. N \in Nat /\ w \in [1..N -> Nat] /\ v \in [1..N -> Nat] /\ 1 \in Nat /\ i \in 1..N
    BY <1>3, <1>7, <2>1, <2>2, RowFacts
  <2>6. AddsUp(RowCalls(branches), w, N) /\ AddsUp(RowCalls(new), v, N)
    BY <1>7, <2>1, <2>2, RowFacts
  <2> HIDE DEF N
  <2> QED
    BY <2>4, <2>5, <2>6, SumAt
<1>9. EarlierCalls' = EarlierCalls
  <2>1. EarlierCalls' = [n \in 1..N |-> IF allotted[n] > 0 THEN 0 ELSE new[n].calls]
    BY <1>1, <1>2, <1>5 DEF EarlierCalls
  <2>2. \A n \in 1..N : n # i \/ allotted[n] > 0
    BY <1>6
  <2> QED
    BY <1>5, <2>1, <2>2 DEF EarlierCalls
<1>10. DeliberationTypes'
  <2>1. \A n \in 1..N : new[n].status = "queued" => new[n].calls = 0
    BY <1>4, <1>5, RowFacts
  <2> QED
    BY <1>1, <1>2, <1>5, <2>1 DEF DeliberationTypes, DeliberationInv
<1>11. CountKept'
  <2>1. /\ spent \in Nat /\ planned \in Nat /\ unrecorded \in Nat /\ RowCalls(branches) \in Nat
        /\ counted <= CallBudget /\ spent <= planned + RowCalls(branches) + unrecorded
    BY <1>2, RowFacts DEF CountKept, DeliberationInv, DeliberationTypes
  <2>2. RowCalls(branches') = RowCalls(branches) + 1
    BY <1>1, <1>8
  <2>3. spent' <= planned' + RowCalls(branches') + unrecorded'
    BY <1>2, <2>1, <2>2
  <2> QED
    BY <1>2, <2>1, <2>3 DEF CountKept
<1>12. RoundKept'
  <2>1. ASSUME NEW n \in 1..N
        PROVE  /\ allotted[n] > 0 => new[n].calls <= allotted[n]
               /\ new[n].status = "running" => new[n].calls < allotted[n]
    <3>1. CASE n # i
      BY <1>5, <1>6, <3>1
    <3>2. CASE n = i
      <4>1. PICK a \in Nat : a = allotted[i]
        BY <1>3, <1>6
      <4>2. PICK b \in Nat : b = branches[i].calls
        BY <1>6
      <4>3. new[n].calls = b + 1 /\ b < a /\ (new[n].status = "running" => b + 1 # a)
        BY <1>4, <1>5, <1>6, <3>2, <4>1, <4>2
      <4> QED
        BY <3>2, <4>1, <4>3
    <3> QED
      BY <3>1, <3>2
  <2> QED
    BY <1>1, <1>2, <1>5, <1>6, <1>9, <2>1 DEF RoundKept, DeliberationInv
<1>13. RolesKept'
  <2>1. \A n \in 1..N : new[n].round = branches[n].round /\ new[n].role = branches[n].role
    BY <1>4, <1>5
  <2>2. \A n \in 1..N : branches[n].round >= 1
    BY RowFacts
  <2>3. \A m, n \in 1..N : (m # n /\ branches[m].role = branches[n].role /\ branches[m].round > 1) => branches[n].round = 1
    BY <1>3 DEF DeliberationInv, RolesKept
  <2> HIDE DEF N
  <2>4. \A m, n \in 1..N : (m # n /\ new[m].role = new[n].role /\ new[m].round > 1) => new[n].round = 1
    BY <2>1, <2>3
  <2>5. DOMAIN new = 1..N /\ \A n \in 1..N : new[n].round >= 1
    BY <1>5, <2>1, <2>2
  <2> QED
    BY <1>1, <2>4, <2>5 DEF RolesKept
<1> QED
  BY <1>10, <1>11, <1>12, <1>13 DEF DeliberationInv

\* While branches are out, what is stored and what they may still use is in the budget.
LEMMA RoundSums ==
  ASSUME DeliberationInv, dpc = "branching", NEW w \in [1..Len(branches) -> Nat], NEW x,
         AddsUp(x, w, Len(branches)),
         \A n \in 1..Len(branches) : w[n] = IF allotted[n] > 0 THEN branches[n].calls ELSE 0
  PROVE  x \in Nat /\ planned + RowCalls(branches) <= counted + x /\ counted + x <= CallBudget
<1>1. PICK N \in Nat : N = Len(branches)
  <2>1. Len(branches) \in Nat
    BY RowFacts
  <2> QED
    BY <2>1
<1>2. PICK out : out = allotted
  OBVIOUS
<1>3. PICK all : all = CallsOf(branches)
  OBVIOUS
<1>4. PICK before : before = EarlierCalls
  OBVIOUS
<1>5. /\ out \in [1..N -> Nat] /\ all \in [1..N -> Nat] /\ before \in [1..N -> Nat]
      /\ \A n \in 1..N : /\ all[n] = branches[n].calls
                         /\ before[n] = IF out[n] > 0 THEN 0 ELSE branches[n].calls
                         /\ out[n] > 0 => branches[n].calls <= out[n]
  BY <1>1, <1>2, <1>3, <1>4, RowFacts DEF DeliberationInv, RoundKept, CallsOf, EarlierCalls
<1>6. PICK given \in Nat : AddsUp(given, out, N)
  BY <1>5, SumOfTurns
<1>7. PICK old \in Nat : AddsUp(old, before, N)
  BY <1>5, SumOfTurns
<1>8. PICK nothing : nothing = [n \in 1..N |-> 0]
  OBVIOUS
<1>9. nothing \in [1..N -> Nat] /\ AddsUp(0, nothing, N) /\ \A n \in 1..N : nothing[n] = 0
  BY <1>8, SumOfZeros
<1>10. w \in [1..N -> Nat] /\ AddsUp(x, w, N) /\ \A n \in 1..N : w[n] = IF out[n] > 0 THEN branches[n].calls ELSE 0
  BY <1>1, <1>2
<1>11. x \in Nat /\ x <= given + 0
  <2>1. ASSUME NEW n \in 1..N PROVE w[n] <= out[n] + nothing[n]
    <3>1. PICK o \in Nat : o = out[n]
      BY <1>5
    <3>2. PICK c : c = branches[n].calls
      OBVIOUS
    <3>3. w[n] = (IF o > 0 THEN c ELSE 0) /\ nothing[n] = 0 /\ (o > 0 => c <= o)
      BY <1>5, <1>9, <1>10, <3>1, <3>2
    <3>4. w[n] \in Nat
      BY <1>10
    <3> QED
      BY <3>1, <3>3, <3>4
  <2> QED
    BY <1>5, <1>6, <1>9, <1>10, <2>1, SumsBelow
<1>12. RowCalls(branches) <= old + x
  <2>1. ASSUME NEW n \in 1..N PROVE all[n] <= before[n] + w[n]
    <3>1. PICK c \in Nat : c = all[n]
      BY <1>5
    <3>2. all[n] = c /\ ((before[n] = c /\ w[n] = 0) \/ (before[n] = 0 /\ w[n] = c))
      BY <1>5, <1>10, <3>1
    <3> QED
      BY <3>1, <3>2
  <2>2. AddsUp(RowCalls(branches), all, N)
    BY <1>1, <1>3, RowFacts
  <2> QED
    BY <1>5, <1>7, <1>10, <2>1, <2>2, SumsBelow
<1>13. counted + given <= CallBudget /\ planned + old <= counted
  BY <1>1, <1>2, <1>4, <1>6, <1>7 DEF DeliberationInv, RoundKept
<1>14. counted \in Nat /\ planned \in Nat /\ CallBudget \in Nat /\ RowCalls(branches) \in Nat
  BY RowFacts, DeliberationAssumption DEF DeliberationInv, DeliberationTypes
<1> QED
  BY <1>11, <1>12, <1>13, <1>14

\* What the branches of the round used.
NewRows == [i \in DOMAIN branches |-> IF allotted[i] > 0 THEN branches[i] ELSE [branches[i] EXCEPT !.calls = 0]]

\* The rows of the round add up to what the runner counts for it.
LEMMA RoundCalls ==
  ASSUME DeliberationInv, dpc = "branching"
  PROVE  /\ RowCalls(NewRows) \in Nat /\ planned + RowCalls(branches) <= counted + RowCalls(NewRows)
         /\ counted + RowCalls(NewRows) <= CallBudget
<1>1. PICK N \in Nat : N = Len(branches)
  <2>1. Len(branches) \in Nat
    BY RowFacts
  <2> QED
    BY <2>1
<1>2. PICK rows : rows = NewRows
  OBVIOUS
<1>3. ASSUME NEW n \in 1..N
      PROVE  rows[n] \in BranchRows /\ rows[n].calls = IF allotted[n] > 0 THEN branches[n].calls ELSE 0
  <2>1. branches[n] \in BranchRows /\ n \in DOMAIN branches
    BY <1>1, RowFacts
  <2>2. CASE allotted[n] > 0
    BY <1>2, <2>1, <2>2 DEF NewRows
  <2>3. CASE ~(allotted[n] > 0)
    <3>1. rows[n] = [branches[n] EXCEPT !.calls = 0]
      BY <1>2, <2>1, <2>3 DEF NewRows
    <3> QED
      BY <2>1, <2>3, <3>1 DEF BranchRows
  <2> QED
    BY <2>2, <2>3
<1>4. rows \in Seq(BranchRows) /\ Len(rows) = N
  <2>1. rows \in [1..N -> BranchRows] /\ DOMAIN rows = 1..N
    BY <1>1, <1>2, <1>3, RowFacts DEF NewRows
  <2>2. rows \in Seq(BranchRows)
    BY <2>1
  <2> QED
    BY <2>1, <2>2
<1>5. CallsOf(rows) \in [1..N -> Nat] /\ AddsUp(RowCalls(rows), CallsOf(rows), N)
  BY <1>4, RowCallsAre
<1>6. \A n \in 1..N : CallsOf(rows)[n] = IF allotted[n] > 0 THEN branches[n].calls ELSE 0
  BY <1>3, <1>4 DEF CallsOf
<1>7. PICK w : w = CallsOf(rows)
  OBVIOUS
<1> QED
  BY <1>1, <1>2, <1>5, <1>6, <1>7, RoundSums

\* The branches are joined.
LEMMA JoinStep == ASSUME DeliberationInv, JoinBranches PROVE DeliberationInv'
<1>1. /\ dpc = "branching" /\ \A i \in DOMAIN branches : branches[i].status # "running"
      /\ counted' = counted + RowCalls(NewRows)
      /\ dpc' = (IF counted' >= CallBudget THEN "ended" ELSE "deciding")
      /\ UNCHANGED <<branches, allotted, planned, planSteps, seen, written, spent, unrecorded, pauses>>
  BY Zenon DEF JoinBranches, NewRows
<1>2. PICK x \in Nat : x = RowCalls(NewRows)
  BY <1>1, RoundCalls
<1>3. planned + RowCalls(branches) <= counted + x /\ counted + x <= CallBudget
  BY <1>1, <1>2, RoundCalls
<1>4. /\ counted \in Nat /\ planned \in Nat /\ spent \in Nat /\ unrecorded \in Nat /\ RowCalls(branches) \in Nat
      /\ CallBudget \in Nat /\ spent <= planned + RowCalls(branches) + unrecorded
  BY <1>1, RowFacts, DeliberationAssumption DEF DeliberationInv, DeliberationTypes, CountKept
<1>5. counted' = counted + x /\ counted' \in Nat
  BY <1>1, <1>2, <1>4
<1>6. branches' = branches /\ planned' = planned /\ spent' = spent /\ unrecorded' = unrecorded /\ planSteps' = planSteps
  BY <1>1
<1>7. RowCalls(branches)' = RowCalls(branches)
  BY <1>6
<1>8. DeliberationTypes'
  BY <1>1, <1>5, <1>6 DEF DeliberationInv, DeliberationTypes
<1>9. CountKept'
  <2>1. spent <= (counted + x) + unrecorded
    BY <1>3, <1>4
  <2>2. dpc' # "branching" /\ (dpc' = "deciding" => counted' < CallBudget)
    BY <1>1, <1>4, <1>5
  <2> QED
    BY <1>1, <1>3, <1>4, <1>5, <1>6, <1>7, <2>1, <2>2 DEF CountKept
<1>10. RoundKept' /\ RolesKept'
  BY <1>1 DEF DeliberationInv, RoundKept, RolesKept
<1> QED
  BY <1>8, <1>9, <1>10 DEF DeliberationInv

\* A step between rounds leaves the rows; only the counts have to be right.
LEMMA BetweenRounds ==
  ASSUME DeliberationInv, branches' = branches, dpc \notin {"branching", "ended"},
         dpc' \in {"planning", "paused", "ended"}, planSteps' \in Nat,
         counted' \in Nat, planned' \in Nat, spent' \in Nat, unrecorded' \in Nat,
         counted' <= CallBudget, dpc' # "ended" => spent' <= planned' + RowCalls(branches) + unrecorded',
         spent' <= counted' + unrecorded', planned' + RowCalls(branches) <= counted'
  PROVE  DeliberationInv'
<1>1. RowCalls(branches)' = RowCalls(branches)
  OBVIOUS
<1>2. DeliberationTypes'
  BY DEF DeliberationInv, DeliberationTypes
<1>3. CountKept'
  BY <1>1 DEF CountKept, DeliberationInv
<1>4. RoundKept' /\ RolesKept'
  BY DEF RoundKept, RolesKept, DeliberationInv
<1> QED
  BY <1>2, <1>3, <1>4 DEF DeliberationInv

\* What the counts are before such a step.
LEMMA CountFacts ==
  ASSUME DeliberationInv, dpc \notin {"branching", "ended"}
  PROVE  /\ counted \in Nat /\ planned \in Nat /\ spent \in Nat /\ unrecorded \in Nat /\ planSteps \in Nat
         /\ RowCalls(branches) \in Nat /\ CallBudget \in Nat
         /\ counted <= CallBudget /\ (dpc = "deciding" => counted < CallBudget)
         /\ spent <= planned + RowCalls(branches) + unrecorded
         /\ planned + RowCalls(branches) <= counted
<1>1. RowCalls(branches) \in Nat
  BY RowFacts
<1> QED
  BY <1>1, DeliberationAssumption DEF DeliberationInv, DeliberationTypes, CountKept

\* The planner decides.
LEMMA PlanStep ==
  ASSUME DeliberationInv, NEW calls \in 1..2, NEW search \in BOOLEAN,
         PlanReads(calls, search) \/ PlanWrites(calls) \/ PlanNeedsApproval(calls) \/ PlanAsks(calls) \/ PlanEnds(calls)
  PROVE  DeliberationInv'
<1>1. /\ dpc = "deciding" /\ (calls = 1 \/ CallBudget - counted >= 2)
      /\ spent' = spent + calls /\ counted' = counted + calls /\ branches' = branches
  BY DEF PlanReads, PlanWrites, PlanNeedsApproval, PlanAsks, PlanEnds, Plans
<1>2. calls \in Nat
  OBVIOUS
<1>3. counted' \in Nat /\ spent' \in Nat /\ counted' <= CallBudget
  BY <1>1, <1>2, CountFacts
<1>4. CASE /\ dpc' \in {"planning", "paused", "ended"}
           /\ planned' = planned + calls /\ planSteps' = planSteps + 1 /\ unrecorded' = unrecorded
  BY <1>1, <1>2, <1>3, <1>4, CountFacts, BetweenRounds
<1>5. CASE dpc' = "paused" /\ planned' = planned /\ planSteps' = planSteps /\ unrecorded' = unrecorded + calls
  BY <1>1, <1>2, <1>3, <1>5, CountFacts, BetweenRounds
<1>6. CASE dpc' = "ended" /\ planned' = planned /\ planSteps' = planSteps /\ unrecorded' = unrecorded
  BY <1>1, <1>2, <1>3, <1>6, CountFacts, BetweenRounds
<1>7. CASE PlanReads(calls, search)
  BY <1>4, <1>7 DEF PlanReads, StorePlan
<1>8. CASE PlanWrites(calls)
  BY <1>4, <1>8 DEF PlanWrites, StorePlan
<1>9. CASE PlanNeedsApproval(calls)
  BY <1>5, <1>9 DEF PlanNeedsApproval
<1>10. CASE PlanAsks(calls)
  BY <1>4, <1>10 DEF PlanAsks, StorePlan
<1>11. CASE PlanEnds(calls)
  BY <1>4, <1>6, <1>11 DEF PlanEnds, StorePlan
<1> QED
  BY <1>7, <1>8, <1>9, <1>10, <1>11

\* The run is resumed, with the count its rows give.
LEMMA ResumeStep == ASSUME DeliberationInv, NEW input \in BOOLEAN, ResumeRun(input) PROVE DeliberationInv'
<1>1. /\ dpc = "paused" /\ dpc' = "planning" /\ counted' = planned + RowCalls(branches)
      /\ UNCHANGED <<branches, planned, planSteps, spent, unrecorded>>
  BY DEF ResumeRun
<1> QED
  BY <1>1, CountFacts, BetweenRounds

\* The budget is used up.
LEMMA SpentStep == ASSUME DeliberationInv, BudgetSpent PROVE DeliberationInv'
<1>1. /\ dpc = "planning" /\ dpc' = "ended"
      /\ UNCHANGED <<branches, counted, planned, planSteps, spent, unrecorded>>
  BY DEF BudgetSpent
<1>2. spent <= counted + unrecorded
  BY <1>1 DEF DeliberationInv, CountKept
<1> QED
  BY <1>1, <1>2, CountFacts, BetweenRounds

\* A run begins with nothing counted.
LEMMA DeliberationStarts == ASSUME DeliberationInit PROVE DeliberationInv
<1>1. RowCalls(branches) = 0
  <2>1. <<>> \in Seq(BranchRows) /\ Len(<<>>) = 0
    OBVIOUS
  <2>2. AddsUp(RowCalls(<<>>), CallsOf(<<>>), 0)
    BY <2>1, RowCallsAre
  <2> QED
    BY <2>2 DEF AddsUp, DeliberationInit
<1>2. DeliberationTypes
  BY DEF DeliberationInit, DeliberationTypes
<1>3. CountKept
  BY <1>1, DeliberationAssumption DEF DeliberationInit, CountKept
<1>4. RoundKept /\ RolesKept
  BY DEF DeliberationInit, RoundKept, RolesKept
<1> QED
  BY <1>2, <1>3, <1>4 DEF DeliberationInv

\* Every step of the deliberation keeps it.
LEMMA DeliberationKeeps == ASSUME DeliberationInv, [DeliberationNext]_deliberationVars PROVE DeliberationInv'
<1>1. CASE UNCHANGED deliberationVars
  BY <1>1 DEF deliberationVars, DeliberationInv, DeliberationTypes, CountKept, RoundKept, RolesKept, EarlierCalls
<1>2. CASE DeliberationNext
  BY <1>2, BeginStep, AnalyzesStep, JoinStep, PlanStep, ResumeStep, SpentStep DEF DeliberationNext
<1> QED
  BY <1>1, <1>2

\* The count bounds the calls, in every state.
LEMMA DeliberationBounds == ASSUME DeliberationInv PROVE CallsAccounted
<1>1. /\ counted \in Nat /\ planned \in Nat /\ spent \in Nat /\ unrecorded \in Nat
      /\ RowCalls(branches) \in Nat /\ CallBudget \in Nat /\ counted <= CallBudget
  BY RowFacts, DeliberationAssumption DEF DeliberationInv, DeliberationTypes, CountKept
<1>2. spent <= CallBudget + unrecorded
  <2>1. CASE dpc = "branching"
    <3>1. PICK x \in Nat : x = RowCalls(NewRows)
      BY <2>1, RoundCalls
    <3>2. planned + RowCalls(branches) <= counted + x /\ counted + x <= CallBudget
      BY <2>1, <3>1, RoundCalls
    <3>3. spent <= planned + RowCalls(branches) + unrecorded
      BY <2>1 DEF DeliberationInv, CountKept
    <3> QED
      BY <1>1, <3>1, <3>2, <3>3
  <2>2. CASE dpc # "branching"
    <3>1. spent <= counted + unrecorded
      BY <2>2 DEF DeliberationInv, CountKept
    <3> QED
      BY <1>1, <3>1
  <2> QED
    BY <2>1, <2>2
<1> QED
  BY <1>1, <1>2 DEF CallsAccounted, DeliberationInv, RolesKept

-----------------------------------------------------------------------------
(* The items in the order in which the builder goes through them.          *)

ContextItems == [category : {"decisions", "action_candidates", "marks"}, key : Utterances, at : Nat]

Scores == [1..5 -> Nat]

\* A score is five numbers, and the last three tell the item.
LEMMA ScoreIs ==
  ASSUME NEW i \in ContextItems, NEW wanted
  PROVE  /\ Score(i, wanted) \in Scores /\ Score(i, wanted)[4] = i.key /\ Score(i, wanted)[5] = i.at
         /\ Score(i, wanted)[3] = IF i.category = "action_candidates" THEN 0
                                  ELSE IF i.category = "decisions" THEN 1 ELSE 2
<1>1. i.category \in {"decisions", "action_candidates", "marks"} /\ i.key \in Utterances /\ i.key \in Nat /\ i.at \in Nat
  BY ContextAssumption DEF ContextItems
<1>2. PICK a \in Nat : a = IF Forced(i, wanted) THEN 1 ELSE 0
  OBVIOUS
<1>3. PICK b \in Nat : b = Overlap[i.key]
  BY <1>1, ContextAssumption
<1>4. PICK c \in Nat : c = IF i.category = "action_candidates" THEN 0 ELSE IF i.category = "decisions" THEN 1 ELSE 2
  OBVIOUS
<1>5. [action_candidates |-> 0, decisions |-> 1, marks |-> 2][i.category] = c
  BY <1>1, <1>4
<1>6. Score(i, wanted) = <<a, b, c, i.key, i.at>>
  BY <1>2, <1>3, <1>5 DEF Score
<1> QED
  BY <1>1, <1>4, <1>6 DEF Scores

\* Scores are in lexicographic order.
LEMMA BeforeOrders ==
  /\ \A s \in Scores : ~Before(s, s)
  /\ \A s, t, u \in Scores : Before(s, t) /\ Before(t, u) => Before(s, u)
  /\ \A s, t \in Scores : s # t => Before(s, t) \/ Before(t, s)
<1>1. \A s \in Scores : Len(s) = 5 /\ DOMAIN s = 1..5 /\ \A n \in 1..5 : s[n] \in Nat
  <2> TAKE s \in Scores
  <2>1. s \in [1..5 -> Nat]
    BY DEF Scores
  <2>2. Len(s) = 5
    <3>1. PICK N \in Nat : N = 5
      OBVIOUS
    <3>2. PICK T : T = Nat
      OBVIOUS
    <3>3. s \in [1..N -> T] /\ DOMAIN s = 1..N
      BY <2>1, <3>1, <3>2
    <3> HIDE <3>2
    <3>4. s \in Seq(T)
      BY <3>3
    <3>5. Len(s) = N
      BY <3>3, <3>4
    <3> QED
      BY <3>1, <3>5
  <2> QED
    BY <2>1, <2>2
<1>2. ASSUME NEW s \in Scores PROVE ~Before(s, s)
  <2>1. \A n \in 1..5 : ~(s[n] > s[n])
    BY <1>1
  <2> QED
    BY <1>1, <2>1 DEF Before
<1>3. ASSUME NEW s \in Scores, NEW t \in Scores, NEW u \in Scores, Before(s, t), Before(t, u) PROVE Before(s, u)
  <2>1. PICK n \in 1..5 : s[n] > t[n] /\ \A k \in 1..(n - 1) : s[k] = t[k]
    BY <1>1, <1>3 DEF Before
  <2>2. PICK m \in 1..5 : t[m] > u[m] /\ \A k \in 1..(m - 1) : t[k] = u[k]
    BY <1>1, <1>3 DEF Before
  <2>3. CASE n <= m
    <3>1. s[n] > u[n] /\ \A k \in 1..(n - 1) : s[k] = u[k]
      <4>1. n = m \/ n \in 1..(m - 1)
        BY <2>3
      <4>2. s[n] \in Nat /\ t[n] \in Nat /\ u[n] \in Nat
        BY <1>1
      <4>3. t[n] = u[n] \/ t[n] > u[n]
        BY <2>2, <4>1
      <4>4. s[n] > u[n]
        BY <2>1, <4>2, <4>3
      <4>5. \A k \in 1..(n - 1) : k \in 1..(m - 1)
        BY <2>3
      <4> QED
        BY <2>1, <2>2, <4>4, <4>5
    <3> QED
      BY <1>1, <3>1 DEF Before
  <2>4. CASE m < n
    <3>1. s[m] = t[m] /\ \A k \in 1..(m - 1) : k \in 1..(n - 1)
      BY <2>1, <2>4
    <3>2. s[m] > u[m] /\ \A k \in 1..(m - 1) : s[k] = u[k]
      BY <2>1, <2>2, <3>1
    <3> QED
      BY <1>1, <3>2 DEF Before
  <2> QED
    BY <2>3, <2>4
<1>4. ASSUME NEW s \in Scores, NEW t \in Scores, s # t PROVE Before(s, t) \/ Before(t, s)
  <2> DEFINE T == {n \in 1..5 : s[n] # t[n]}
  <2>1. T # {}
    <3>1. s \in [1..5 -> Nat] /\ t \in [1..5 -> Nat]
      BY DEF Scores
    <3> QED
      BY <1>4, <3>1
  <2>2. PICK n \in T : \A k \in T : ~(k < n)
    <3>1. T \subseteq Nat
      OBVIOUS
    <3> HIDE DEF T
    <3> QED
      BY <2>1, <3>1, LeastNumber, Zenon
  <2>3. \A k \in 1..(n - 1) : s[k] = t[k] /\ t[k] = s[k]
    <3> TAKE k \in 1..(n - 1)
    <3>1. k \in 1..5 /\ k < n
      BY <2>2
    <3> QED
      BY <2>2, <3>1
  <2>4. n \in 1..5 /\ (s[n] > t[n] \/ t[n] > s[n])
    BY <1>1, <2>2
  <2> QED
    BY <1>1, <2>3, <2>4 DEF Before
<1> QED
  BY <1>2, <1>3, <1>4

\* The n-th item is one of them.
LEMMA RankedIs ==
  ASSUME NEW items, items \subseteq ContextItems, IsFiniteSet(items), NEW wanted, NEW n \in 1..Cardinality(items)
  PROVE  Ranked(items, wanted, n) \in items
<1> DEFINE R == {p \in items \X items : Before(Score(p[1], wanted), Score(p[2], wanted))}
<1>1. \A i \in items : Score(i, wanted) \in Scores
  BY ScoreIs
<1>2. ASSUME NEW i \in items, NEW j \in items, i # j PROVE Score(i, wanted) # Score(j, wanted)
  <2>1. i \in ContextItems /\ j \in ContextItems
    OBVIOUS
  <2>2. SUFFICES ASSUME Score(i, wanted) = Score(j, wanted) PROVE i = j
    BY <1>2
  <2>3. i.key = j.key /\ i.at = j.at
    BY <2>1, <2>2, ScoreIs
  <2>4. i.category = j.category
    <3>1. /\ i.category \in {"decisions", "action_candidates", "marks"}
          /\ j.category \in {"decisions", "action_candidates", "marks"}
      BY <2>1 DEF ContextItems
    <3>2. PICK a : a = Score(i, wanted)[3]
      OBVIOUS
    <3>3. a = IF i.category = "action_candidates" THEN 0 ELSE IF i.category = "decisions" THEN 1 ELSE 2
      BY <2>1, <3>2, ScoreIs
    <3>4. a = IF j.category = "action_candidates" THEN 0 ELSE IF j.category = "decisions" THEN 1 ELSE 2
      BY <2>1, <2>2, <3>2, ScoreIs
    <3> QED
      BY <3>1, <3>3, <3>4
  <2> QED
    BY <2>1, <2>3, <2>4 DEF ContextItems
<1>3. OrderedBy(items, R)
  <2>1. \A i, j \in items : <<i, j>> \in R <=> Before(Score(i, wanted), Score(j, wanted))
    OBVIOUS
  <2> HIDE DEF R
  <2> QED
    BY <1>1, <1>2, <2>1, BeforeOrders DEF OrderedBy
<1>4. PICK i \in items : Cardinality(Ahead(i, items, R)) = n - 1
  <2> HIDE DEF R
  <2> QED
    BY <1>3, RanksTaken
<1>5. Ahead(i, items, R) = {j \in items : Before(Score(j, wanted), Score(i, wanted))}
  BY DEF Ahead
<1> QED
  BY <1>4, <1>5 DEF Ranked

-----------------------------------------------------------------------------
(* The size of messages: a sum over them.                                  *)

Sized(D) == IsFiniteSet(D) /\ \A m \in D : MessageSize(m) \in Nat

SizesIn(D) == [m \in D |-> MessageSize(m)]

\* SizeOf is the sum.
LEMMA SizeOfIs ==
  ASSUME NEW D, Sized(D)
  PROVE  Weights(SizesIn(D), D) /\ \E h : SumsOf(h, SizesIn(D), D) /\ SizeOf(D) = h[D]
<1> DEFINE F(g) == [s \in SUBSET D |->
                      IF s = {} THEN 0 ELSE LET m == CHOOSE x \in s : TRUE IN MessageSize(m) + g[s \ {m}]]
           sum == CHOOSE g : g = F(g)
<1>1. PICK w : w = SizesIn(D)
  OBVIOUS
<1>2. Weights(w, D) /\ \A m \in D : w[m] = MessageSize(m)
  BY <1>1 DEF Weights, Sized, SizesIn
<1>3. \A s \in SUBSET D : s # {} => First(s) \in D
  BY <1>2, OneLess DEF Weights
<1>4. PICK h : SumsOf(h, w, D)
  BY <1>2, SumsExist
<1>5. h = F(h)
  <2>1. \A s \in SUBSET D : h[s] = IF s = {} THEN 0 ELSE MessageSize(First(s)) + h[s \ {First(s)}]
    BY <1>2, <1>3, <1>4 DEF SumsOf
  <2> QED
    BY <1>4, <2>1 DEF SumsOf, First
<1>6. sum = F(sum)
  <2> HIDE DEF F
  <2> QED
    BY <1>5, Zenon
<1>7. SizeOf(D) = sum[D]
  BY Zenon DEF SizeOf
<1>8. \A s \in SUBSET D : sum[s] = IF s = {} THEN 0 ELSE MessageSize(First(s)) + sum[s \ {First(s)}]
  <2> HIDE DEF sum
  <2> QED
    BY <1>6 DEF First
<1>9. DOMAIN sum = SUBSET D
  <2> HIDE DEF sum
  <2> QED
    BY <1>6
<1>10. sum = [s \in SUBSET D |-> sum[s]]
  BY <1>6, <1>9 DEF F
<1> HIDE DEF sum, F
<1>11. sum[{}] = 0 /\ \A s \in SUBSET D : s # {} => sum[s] = w[First(s)] + sum[s \ {First(s)}]
  BY <1>2, <1>3, <1>8
<1>12. SumsOf(sum, w, D)
  BY <1>2, <1>9, <1>10, <1>11, SumsAre
<1> QED
  BY <1>1, <1>2, <1>7, <1>12

\* No messages have no size.
LEMMA SizeOfNone == Sized({}) /\ SizeOf({}) = 0
<1>1. Sized({})
  BY FS_EmptySet DEF Sized
<1>2. PICK h : SumsOf(h, SizesIn({}), {}) /\ SizeOf({}) = h[{}]
  BY <1>1, SizeOfIs
<1> QED
  BY <1>1, <1>2 DEF SumsOf

\* A message more adds at most its size.
LEMMA SizeOfMore ==
  ASSUME NEW D, Sized(D), NEW m, MessageSize(m) \in Nat
  PROVE  Sized(D \cup {m}) /\ SizeOf(D) \in Nat /\ SizeOf(D \cup {m}) <= SizeOf(D) + MessageSize(m)
<1>1. PICK E : E = D \cup {m}
  OBVIOUS
<1>2. Sized(E)
  <2>1. IsFiniteSet(E)
    BY <1>1, FS_AddElement DEF Sized
  <2> QED
    BY <1>1, <2>1 DEF Sized
<1>3. PICK w : w = SizesIn(D)
  OBVIOUS
<1>4. PICK v : v = SizesIn(E)
  OBVIOUS
<1>5. PICK h : SumsOf(h, w, D) /\ SizeOf(D) = h[D]
  BY <1>3, SizeOfIs
<1>6. PICK k : SumsOf(k, v, E) /\ SizeOf(E) = k[E]
  BY <1>2, <1>4, SizeOfIs
<1>7. /\ Weights(w, D) /\ Weights(v, E) /\ D \in SUBSET D /\ E \in SUBSET E
      /\ (\A x \in D : w[x] = MessageSize(x)) /\ (\A x \in E : v[x] = MessageSize(x))
  BY <1>2, <1>3, <1>4, SizeOfIs DEF SizesIn
<1>8. SizeOf(D) \in Nat
  BY <1>5 DEF SumsOf
<1>9. CASE m \in D
  <2>1. D \cup {m} = D
    BY <1>9
  <2>2. PICK a \in Nat : a = SizeOf(D)
    BY <1>8
  <2>3. PICK b \in Nat : b = MessageSize(m)
    OBVIOUS
  <2>4. SizeOf(D \cup {m}) = a
    BY <2>1, <2>2
  <2>5. a <= a + b
    OBVIOUS
  <2> QED
    BY <2>1, <2>2, <2>3, <2>4, <2>5
<1>10. CASE m \notin D
  <2>1. E \ {m} = D /\ m \in E
    BY <1>1, <1>10
  <2>2. k[E] = v[m] + k[D]
    BY <1>6, <1>7, <2>1, SumAny
  <2>3. PICK r : r = [s \in SUBSET D |-> k[s]]
    OBVIOUS
  <2>4. SumsOf(r, w, D)
    <3>1. \A s \in SUBSET D : s \in SUBSET E
      BY <1>1
    <3>2. r \in [SUBSET D -> Nat]
      BY <1>6, <2>3, <3>1 DEF SumsOf
    <3>3. r[{}] = 0
      BY <1>6, <2>3 DEF SumsOf
    <3>4. ASSUME NEW s \in SUBSET D, s # {} PROVE r[s] = w[First(s)] + r[s \ {First(s)}]
      <4>1. First(s) \in s /\ s \ {First(s)} \in SUBSET D
        BY <1>7, <3>4, OneLess DEF Weights
      <4>2. k[s] = v[First(s)] + k[s \ {First(s)}]
        BY <1>6, <3>1, <3>4 DEF SumsOf
      <4>3. v[First(s)] = w[First(s)]
        BY <1>1, <1>7, <4>1
      <4> QED
        BY <2>3, <4>1, <4>2, <4>3
    <3> QED
      BY <3>2, <3>3, <3>4 DEF SumsOf
  <2>5. r[D] = h[D]
    BY <1>5, <1>7, <2>4, SumsAgree
  <2>6. k[D] = r[D] /\ v[m] = MessageSize(m)
    BY <1>7, <2>1, <2>3
  <2> QED
    BY <1>1, <1>2, <1>5, <1>6, <1>8, <2>2, <2>5, <2>6
<1> QED
  BY <1>9, <1>10

-----------------------------------------------------------------------------
(* The meeting, and the captions a context ends with.                      *)

\* Items as they are in a meeting.
MeetingItems(items) ==
  /\ items \subseteq ContextItems /\ IsFiniteSet(items)
  /\ \A i \in items : i.at \in 1..Revisions[i.key]

PlanFields == {"pc", "rounds", "chosen", "wanted", "snapshot", "target"}

ContextTypes ==
  /\ heard \in [Utterances -> Nat] /\ \A c \in Utterances : heard[c] <= Revisions[c]
  /\ order \in Seq(Utterances) /\ \A k \in 1..Len(order) : heard[order[k]] >= 1
  /\ folded \in [Utterances -> Nat]
  /\ MeetingItems(known) /\ \A i \in known : i.category # "marks"
  /\ IsFiniteSet(marks) /\ \A m \in marks : m \in Utterances \X Nat /\ m[2] \in 1..Revisions[m[1]]
  /\ DOMAIN plan = PlanFields

Spoken(kept) == {CaptionMessage(c, heard[c]) : c \in kept}

FewCaptions == IF Len(order) < TailLimit THEN Len(order) ELSE TailLimit
CaptionLimit == IF (6 * MaxSize) \div 10 - GoalSize < 0 THEN 0 ELSE (6 * MaxSize) \div 10 - GoalSize
Newest(n) == order[Len(order) - n + 1]
Cost(c) == 2 * TextSize[c][heard[c]]

Kept == [kept : SUBSET Utterances, size : Nat]

TakeNext(t, n) ==
  IF t.size + Cost(Newest(n)) > CaptionLimit THEN t
  ELSE [kept |-> t.kept \cup {Newest(n)}, size |-> t.size + Cost(Newest(n))]

\* What was taken after n captions.
KeptWithin(t, n) ==
  /\ t \in Kept /\ t.size <= CaptionLimit
  /\ Sized(Spoken(t.kept)) /\ Cardinality(Spoken(t.kept)) <= n /\ 2 * SizeOf(Spoken(t.kept)) <= t.size

\* The limits are numbers, and within the budget.
LEMMA LimitFacts ==
  ASSUME ContextTypes
  PROVE  /\ Len(order) \in Nat /\ TailLimit \in Nat /\ FewCaptions \in Nat /\ FewCaptions <= Len(order)
         /\ FewCaptions <= TailLimit /\ TailLimit + 1 <= MaxMessages
         /\ CaptionLimit \in Nat /\ GoalSize + CaptionLimit <= MaxSize
<1>1. Len(order) \in Nat /\ TailLimit \in Nat /\ TailLimit + 1 <= MaxMessages
  BY ContextAssumption DEF ContextTypes, TailLimit
<1>2. CaptionLimit \in Nat /\ GoalSize + CaptionLimit <= MaxSize
  <2>1. (6 * MaxSize) \div 10 \in Nat /\ (6 * MaxSize) \div 10 <= MaxSize
    BY ContextAssumption
  <2> QED
    BY <2>1, ContextAssumption DEF CaptionLimit
<1> QED
  BY <1>1, <1>2 DEF FewCaptions

\* The newest captions have a size.
LEMMA NewestIs ==
  ASSUME ContextTypes, NEW n \in 1..FewCaptions
  PROVE  /\ Newest(n) \in Utterances /\ heard[Newest(n)] \in Nat
         /\ TextSize[Newest(n)][heard[Newest(n)]] \in Nat /\ Cost(Newest(n)) \in Nat
<1>1. PICK k \in 1..Len(order) : k = Len(order) - n + 1
  <2>1. PICK l \in Nat : l = Len(order)
    BY LimitFacts
  <2>2. n \in Nat /\ n >= 1 /\ n <= l
    BY <2>1, LimitFacts
  <2>3. l - n + 1 \in 1..l
    BY <2>1, <2>2
  <2> QED
    BY <2>1, <2>3
<1>2. PICK c : c = order[k]
  OBVIOUS
<1>3. c \in Utterances /\ heard[c] >= 1
  BY <1>2 DEF ContextTypes
<1>4. PICK r : r = heard[c]
  OBVIOUS
<1>5. r \in 1..Revisions[c]
  <2>1. heard[c] \in Nat /\ heard[c] <= Revisions[c] /\ Revisions[c] \in Nat
    BY <1>3, ContextAssumption DEF ContextTypes
  <2> QED
    BY <1>3, <1>4, <2>1
<1>6. PICK x \in Nat : x = TextSize[c][r]
  BY <1>3, <1>5, ContextAssumption
<1>7. Newest(n) = c
  BY <1>1, <1>2 DEF Newest
<1>8. Cost(c) = 2 * x
  BY <1>4, <1>6 DEF Cost
<1>9. heard[c] \in Nat /\ Cost(c) \in Nat /\ TextSize[c][heard[c]] \in Nat
  <2>1. r \in Nat /\ 2 * x \in Nat
    BY <1>3, <1>4 DEF ContextTypes
  <2> QED
    BY <1>4, <1>6, <1>8, <2>1
<1> QED
  BY <1>3, <1>7, <1>9, Zenon

\* One caption more.
LEMMA TakeStep ==
  ASSUME ContextTypes, NEW n \in 1..FewCaptions, NEW t, KeptWithin(t, n - 1)
  PROVE  KeptWithin(TakeNext(t, n), n)
<1>1. PICK c \in Utterances : c = Newest(n)
  BY NewestIs
<1>2. PICK x \in Nat : x = TextSize[c][heard[c]]
  BY <1>1, NewestIs
<1>3. Cost(c) = 2 * x /\ n \in Nat /\ n - 1 \in Nat
  BY <1>2, LimitFacts DEF Cost
<1>4. t \in Kept /\ t.size \in Nat /\ t.kept \in SUBSET Utterances /\ t.size <= CaptionLimit /\ Sized(Spoken(t.kept))
  BY DEF KeptWithin, Kept
<1>5. CASE t.size + Cost(c) > CaptionLimit
  <2>1. TakeNext(t, n) = t
    BY <1>1, <1>5 DEF TakeNext
  <2>2. Cardinality(Spoken(t.kept)) <= n
    <3>1. Cardinality(Spoken(t.kept)) \in Nat
      BY <1>4, FS_CardinalityType DEF Sized
    <3> QED
      BY <1>3, <3>1 DEF KeptWithin
  <2> QED
    BY <2>1, <2>2 DEF KeptWithin
<1>6. CASE ~(t.size + Cost(c) > CaptionLimit)
  <2>1. PICK u : u = [kept |-> t.kept \cup {c}, size |-> t.size + Cost(c)]
    OBVIOUS
  <2>2. TakeNext(t, n) = u
    BY <1>1, <1>6, <2>1 DEF TakeNext
  <2>3. u \in Kept /\ u.kept = t.kept \cup {c} /\ u.size = t.size + 2 * x
    BY <1>3, <1>4, <2>1 DEF Kept
  <2>4. u.size <= CaptionLimit
    BY <1>3, <1>4, <1>6, <2>3, LimitFacts
  <2>5. PICK D : D = Spoken(t.kept)
    OBVIOUS
  <2>6. PICK m : m = CaptionMessage(c, heard[c])
    OBVIOUS
  <2>7. Spoken(u.kept) = D \cup {m}
    BY <2>3, <2>5, <2>6 DEF Spoken
  <2>8. MessageSize(m) = x
    BY <1>2, <2>6 DEF MessageSize, CaptionMessage
  <2>9. Sized(D) /\ MessageSize(m) \in Nat
    BY <1>4, <2>5, <2>8
  <2>10. Sized(D \cup {m}) /\ SizeOf(D) \in Nat /\ SizeOf(D \cup {m}) <= SizeOf(D) + MessageSize(m)
    BY <2>9, SizeOfMore
  <2>11. SizeOf(D \cup {m}) \in Nat
    <3>1. MessageSize(m) \in Nat /\ Sized(D \cup {m})
      BY <2>9, <2>10
    <3> QED
      BY <3>1, SizeOfMore
  <2>12. 2 * SizeOf(D) <= t.size
    BY <2>5 DEF KeptWithin
  <2>13. 2 * SizeOf(D \cup {m}) <= t.size + 2 * x
    BY <1>4, <2>8, <2>10, <2>11, <2>12
  <2>14. Cardinality(D \cup {m}) <= n
    <3>1. IsFiniteSet(D) /\ Cardinality(D) \in Nat /\ Cardinality(D) <= n - 1
      BY <2>5, <2>9, FS_CardinalityType DEF Sized, KeptWithin
    <3>2. Cardinality(D \cup {m}) = IF m \in D THEN Cardinality(D) ELSE Cardinality(D) + 1
      BY <3>1, FS_AddElement
    <3> QED
      BY <1>3, <3>1, <3>2
  <2> QED
    BY <2>2, <2>3, <2>4, <2>7, <2>10, <2>13, <2>14 DEF KeptWithin
<1> QED
  BY <1>5, <1>6

\* What LastCaptions decides on: the captions it took, one after the other.
LEMMA CaptionsTaken ==
  ASSUME ContextTypes
  PROVE  \E t : /\ KeptWithin(t, FewCaptions)
                /\ LastCaptions =
                     CASE FewCaptions = 0 \/ t.kept # {} -> [ok |-> TRUE, kept |-> t.kept]
                       [] FewCaptions > 0 /\ t.kept = {} /\ Cost(Newest(1)) + GoalSize <= MaxSize ->
                            [ok |-> TRUE, kept |-> {Newest(1)}]
                       [] OTHER -> Refused
<1> DEFINE N == FewCaptions
           start == [kept |-> {}, size |-> 0]
           F(g) == [n \in 0..N |-> IF n = 0 THEN start ELSE TakeNext(g[n - 1], n)]
           take == CHOOSE g : g = F(g)
<1>1. N \in Nat
  BY LimitFacts
<1>2. PICK turn : turn = [p \in (1..N) \X Kept |-> TakeNext(p[2], p[1])]
  OBVIOUS
<1>3. \A n \in 1..N, x \in Kept : turn[<<n, x>>] = TakeNext(x, n)
  BY <1>2
<1>4. \A n \in 1..N, x \in Kept : TakeNext(x, n) \in Kept
  BY NewestIs DEF TakeNext, Kept
<1>5. start \in Kept
  BY DEF Kept
<1>6. PICK f \in [0..N -> Kept] : RunOf(f, N, start, turn)
  <2>1. TurnsOver(turn, N, Kept)
    BY <1>3, <1>4, Zenon DEF TurnsOver
  <2> HIDE DEF start, N
  <2> QED
    BY <1>1, <1>5, <2>1, LoopRuns
<1>7. ASSUME NEW n \in 1..N PROVE f[n] = TakeNext(f[n - 1], n)
  <2>1. f[n - 1] \in Kept
    BY <1>1, <1>6
  <2> QED
    BY <1>3, <1>6, <2>1 DEF RunOf
<1>8. f = F(f)
  <2>1. \A n \in 0..N : f[n] = F(f)[n]
    <3> TAKE n \in 0..N
    <3>1. CASE n = 0
      BY <1>1, <1>6, <3>1 DEF RunOf
    <3>2. CASE n # 0
      <4>1. n \in 1..N
        BY <1>1, <3>2
      <4> QED
        BY <1>7, <3>2, <4>1
    <3> QED
      BY <3>1, <3>2
  <2> QED
    BY <1>6, <2>1
<1>9. take = F(take)
  <2> HIDE DEF F
  <2> QED
    BY <1>8, Zenon
<1>10. LastCaptions =
         CASE N = 0 \/ take[N].kept # {} -> [ok |-> TRUE, kept |-> take[N].kept]
           [] N > 0 /\ take[N].kept = {} /\ Cost(Newest(1)) + GoalSize <= MaxSize ->
                [ok |-> TRUE, kept |-> {Newest(1)}]
           [] OTHER -> Refused
  BY Zenon DEF LastCaptions, FewCaptions, TakeNext, Cost, Newest, CaptionLimit
<1>11. take[0] = start /\ \A n \in 1..N : take[n] = TakeNext(take[n - 1], n)
  <2> HIDE DEF take, start, N
  <2>1. take[0] = start
    BY <1>1, <1>9
  <2>2. ASSUME NEW n \in 1..N PROVE take[n] = TakeNext(take[n - 1], n)
    <3>1. n \in 0..N /\ n # 0
      BY <1>1
    <3>2. take[n] = F(take)[n]
      BY <1>9
    <3> QED
      BY <3>1, <3>2
  <2> QED
    BY <2>1, <2>2
<1> DEFINE S == {n \in 0..N : KeptWithin(take[n], n)}
<1> HIDE DEF take
<1>12. 0 \in S
  <2>1. Spoken(start.kept) = {}
    BY DEF Spoken
  <2>2. KeptWithin(start, 0)
    BY <1>5, <2>1, LimitFacts, SizeOfNone, FS_EmptySet DEF KeptWithin
  <2> HIDE DEF start
  <2> QED
    BY <1>1, <1>11, <2>2
<1>13. ASSUME NEW n \in 1..N, n - 1 \in S PROVE n \in S
  <2>1. KeptWithin(TakeNext(take[n - 1], n), n)
    BY <1>13, TakeStep
  <2> QED
    BY <1>1, <1>11, <2>1
<1>14. 0..N \subseteq S
  <2> HIDE DEF S, N
  <2> QED
    BY <1>1, <1>12, <1>13, LoopInduction
<1>15. KeptWithin(take[N], N)
  <2>1. N \in 0..N
    BY <1>1
  <2> QED
    BY <1>14, <2>1
<1> QED
  BY <1>10, <1>15

\* The last captions fit, and leave room for the goal.
LEMMA TailWithin ==
  ASSUME ContextTypes, LastCaptions.ok
  PROVE  /\ Sized(Spoken(LastCaptions.kept)) /\ GoalSize + 2 * SizeOf(Spoken(LastCaptions.kept)) <= MaxSize
         /\ Cardinality(Spoken(LastCaptions.kept)) + 1 <= MaxMessages
<1>1. PICK t : /\ KeptWithin(t, FewCaptions)
               /\ LastCaptions =
                    CASE FewCaptions = 0 \/ t.kept # {} -> [ok |-> TRUE, kept |-> t.kept]
                      [] FewCaptions > 0 /\ t.kept = {} /\ Cost(Newest(1)) + GoalSize <= MaxSize ->
                           [ok |-> TRUE, kept |-> {Newest(1)}]
                      [] OTHER -> Refused
  BY CaptionsTaken
<1>2. CASE FewCaptions = 0 \/ t.kept # {}
  <2>1. LastCaptions = [ok |-> TRUE, kept |-> t.kept]
    BY <1>1, <1>2
  <2>2. PICK D : D = Spoken(t.kept)
    OBVIOUS
  <2>3. Sized(D) /\ SizeOf(D) \in Nat /\ Cardinality(D) \in Nat
    <3>1. Sized(D)
      BY <1>1, <2>2 DEF KeptWithin
    <3>2. PICK h : SumsOf(h, SizesIn(D), D) /\ SizeOf(D) = h[D]
      BY <3>1, SizeOfIs
    <3> QED
      BY <3>1, <3>2, FS_CardinalityType DEF SumsOf, Sized
  <2>4. /\ t.size \in Nat /\ t.size <= CaptionLimit /\ 2 * SizeOf(D) <= t.size /\ Cardinality(D) <= FewCaptions
    BY <1>1, <2>2 DEF KeptWithin, Kept
  <2>5. GoalSize + 2 * SizeOf(D) <= MaxSize /\ Cardinality(D) + 1 <= MaxMessages
    <3>1. PICK z \in Nat : z = SizeOf(D)
      BY <2>3
    <3>2. PICK n \in Nat : n = Cardinality(D)
      BY <2>3
    <3>3. PICK s \in Nat : s = t.size
      BY <2>4
    <3>4. 2 * z <= s /\ s <= CaptionLimit /\ n <= FewCaptions
      BY <2>4, <3>1, <3>2, <3>3
    <3>5. GoalSize + 2 * z <= MaxSize
      BY <3>4, LimitFacts, ContextAssumption
    <3>6. n + 1 <= MaxMessages
      BY <3>4, LimitFacts, ContextAssumption
    <3> QED
      BY <3>1, <3>2, <3>5, <3>6
  <2> QED
    BY <2>1, <2>2, <2>3, <2>5
<1>3. CASE FewCaptions > 0 /\ t.kept = {}
  <2>1. LastCaptions = IF Cost(Newest(1)) + GoalSize <= MaxSize THEN [ok |-> TRUE, kept |-> {Newest(1)}] ELSE Refused
    BY <1>1, <1>3, LimitFacts
  <2>2. Cost(Newest(1)) + GoalSize <= MaxSize /\ LastCaptions = [ok |-> TRUE, kept |-> {Newest(1)}]
    BY <2>1 DEF Refused
  <2>3. PICK c : c = Newest(1)
    OBVIOUS
  <2>4. 1 \in 1..FewCaptions
    BY <1>3, LimitFacts
  <2>5. PICK x \in Nat : x = TextSize[c][heard[c]]
    BY <2>3, <2>4, NewestIs
  <2>6. PICK m : m = CaptionMessage(c, heard[c])
    OBVIOUS
  <2>7. MessageSize(m) = x
    BY <2>5, <2>6 DEF MessageSize, CaptionMessage
  <2>8. Spoken({c}) = {m} /\ {} \cup {m} = {m}
    BY <2>6 DEF Spoken
  <2>9. Sized({m}) /\ SizeOf({m}) <= 0 + x
    <3>1. Sized({}) /\ SizeOf({}) = 0 /\ MessageSize(m) \in Nat
      BY <2>7, SizeOfNone
    <3>2. Sized({} \cup {m}) /\ SizeOf({} \cup {m}) <= SizeOf({}) + MessageSize(m)
      BY <3>1, SizeOfMore
    <3> QED
      BY <2>7, <2>8, <3>1, <3>2
  <2>10. SizeOf({m}) \in Nat
    BY <2>7, <2>9, SizeOfMore
  <2>11. Cardinality({m}) = 1
    BY FS_Singleton
  <2>12. 2 * x + GoalSize <= MaxSize
    BY <2>2, <2>3, <2>5 DEF Cost
  <2>13. GoalSize + 2 * SizeOf({m}) <= MaxSize
    BY <2>9, <2>10, <2>12, ContextAssumption
  <2>14. Cardinality({m}) + 1 <= MaxMessages
    BY <1>3, <2>11, LimitFacts, ContextAssumption
  <2> QED
    BY <2>2, <2>3, <2>8, <2>9, <2>13, <2>14
<1> QED
  BY <1>2, <1>3, LimitFacts

-----------------------------------------------------------------------------
(* The items of a context, added one by one.                               *)

Citable(items) == {GoalMessage} \cup Spoken(LastCaptions.kept) \cup UNION {Cited(i) : i \in items}

Contexts(items) ==
  [ok : BOOLEAN, items : SUBSET items, size : Nat, messages : SUBSET Citable(items),
   refs : SUBSET Citable(items), tail : {Spoken(LastCaptions.kept)}, status : {Status}]

\* What holds after every item.
ContextSoFar(acc, items) ==
  /\ acc \in Contexts(items)
  /\ acc.ok => acc.size <= MaxSize /\ Cardinality(acc.messages) <= MaxMessages
  /\ acc.refs \subseteq acc.messages
  /\ Spoken(LastCaptions.kept) \subseteq acc.messages
  /\ acc.messages \subseteq Citable(acc.items)
  /\ \A i \in acc.items : Current(i)

ItemCost(acc, i) == ItemSize + SizeOf(Cited(i) \ acc.messages)

Added(acc, i) ==
  [acc EXCEPT !.items = @ \cup {i}, !.size = @ + ItemCost(acc, i),
              !.messages = @ \cup Cited(i), !.refs = @ \cup Cited(i)]

\* What Add can do with an item.
LEMMA AddCases ==
  ASSUME NEW acc, NEW i, NEW wanted
  PROVE  \/ Add(acc, i, wanted) = acc
         \/ Add(acc, i, wanted) = [acc EXCEPT !.ok = FALSE]
         \/ /\ acc.ok /\ Current(i) /\ Fits(acc, ItemCost(acc, i), Cited(i))
            /\ Add(acc, i, wanted) = Added(acc, i)
<1>1. CASE ~acc.ok \/ ~Current(i)
  BY <1>1 DEF Add
<1>2. CASE acc.ok /\ Current(i) /\ Fits(acc, ItemCost(acc, i), Cited(i))
  BY <1>2 DEF Add, ItemCost, Added
<1>3. CASE acc.ok /\ Current(i) /\ ~Fits(acc, ItemCost(acc, i), Cited(i))
  BY <1>3 DEF Add, ItemCost
<1> QED
  BY <1>1, <1>2, <1>3

\* What an item costs is a number.
LEMMA CostIs ==
  ASSUME NEW items, MeetingItems(items), NEW i \in items, NEW acc
  PROVE  ItemCost(acc, i) \in Nat
<1>1. i.key \in Utterances /\ i.at \in 1..Revisions[i.key]
  BY DEF MeetingItems, ContextItems
<1>2. TextSize[i.key][i.at] \in Nat
  BY <1>1, ContextAssumption
<1>3. ASSUME NEW m \in Cited(i) PROVE MessageSize(m) \in Nat
  <2>1. m = CaptionMessage(i.key, i.at) \/ m = MarkMessage(<<i.key, i.at>>)
    BY <1>3 DEF Cited
  <2>2. CASE m = CaptionMessage(i.key, i.at)
    BY <1>2, <2>2 DEF CaptionMessage, MessageSize
  <2>3. CASE m = MarkMessage(<<i.key, i.at>>)
    BY <2>3, ContextAssumption DEF MarkMessage, MessageSize
  <2> QED
    BY <2>1, <2>2, <2>3
<1>4. IsFiniteSet(Cited(i))
  <2>1. Cited(i) \in SUBSET ({CaptionMessage(i.key, i.at)} \cup {MarkMessage(<<i.key, i.at>>)})
    BY DEF Cited
  <2>2. IsFiniteSet({CaptionMessage(i.key, i.at)} \cup {MarkMessage(<<i.key, i.at>>)})
    <3>1. IsFiniteSet({CaptionMessage(i.key, i.at)})
      BY FS_Singleton
    <3> QED
      BY <3>1, FS_AddElement
  <2> QED
    BY <2>1, <2>2, FS_Subset
<1>5. PICK D : D = Cited(i) \ acc.messages
  OBVIOUS
<1>6. Sized(D)
  <2>1. D \in SUBSET Cited(i)
    BY <1>5
  <2>2. IsFiniteSet(D)
    BY <1>4, <2>1, FS_Subset
  <2> QED
    BY <1>3, <2>1, <2>2 DEF Sized
<1>7. PICK h : SumsOf(h, SizesIn(D), D) /\ SizeOf(D) = h[D]
  BY <1>6, SizeOfIs
<1>8. SizeOf(D) \in Nat
  BY <1>7 DEF SumsOf
<1> QED
  BY <1>5, <1>8, ContextAssumption DEF ItemCost

\* One item more.
LEMMA AddTypes ==
  ASSUME NEW items, MeetingItems(items), NEW i \in items, NEW wanted, NEW acc \in Contexts(items)
  PROVE  Add(acc, i, wanted) \in Contexts(items)
<1>1. CASE Add(acc, i, wanted) = acc
  BY <1>1
<1>2. CASE Add(acc, i, wanted) = [acc EXCEPT !.ok = FALSE]
  BY <1>2 DEF Contexts
<1>3. CASE Add(acc, i, wanted) = Added(acc, i)
  <2>1. PICK x \in Nat : x = ItemCost(acc, i)
    BY CostIs
  <2>2. Cited(i) \subseteq Citable(items)
    BY DEF Citable
  <2>3. Added(acc, i) = [acc EXCEPT !.items = @ \cup {i}, !.size = @ + x,
                                    !.messages = @ \cup Cited(i), !.refs = @ \cup Cited(i)]
    BY <2>1 DEF Added
  <2>4. /\ acc.ok \in BOOLEAN /\ acc.items \subseteq items /\ acc.size \in Nat
        /\ acc.messages \subseteq Citable(items) /\ acc.refs \subseteq Citable(items)
    BY DEF Contexts
  <2>5. PICK its : its = acc.items \cup {i}
    OBVIOUS
  <2>6. PICK size : size = acc.size + x
    OBVIOUS
  <2>7. PICK messages : messages = acc.messages \cup Cited(i)
    OBVIOUS
  <2>8. PICK refs : refs = acc.refs \cup Cited(i)
    OBVIOUS
  <2>9. /\ its \in SUBSET items /\ size \in Nat
        /\ messages \in SUBSET Citable(items) /\ refs \in SUBSET Citable(items)
    BY <2>1, <2>2, <2>4, <2>5, <2>6, <2>7, <2>8
  <2>10. Added(acc, i) = [acc EXCEPT !.items = its, !.size = size, !.messages = messages, !.refs = refs]
    BY <2>3, <2>5, <2>6, <2>7, <2>8
  <2>11. Added(acc, i) \in Contexts(items)
    BY <2>9, <2>10 DEF Contexts
  <2> QED
    BY <1>3, <2>11
<1> QED
  BY <1>1, <1>2, <1>3, AddCases

\* One item more keeps the bounds.
LEMMA AddStep ==
  ASSUME NEW items, MeetingItems(items), NEW i \in items, NEW wanted, NEW acc, ContextSoFar(acc, items)
  PROVE  ContextSoFar(Add(acc, i, wanted), items)
<1>1. PICK more : more = Add(acc, i, wanted)
  OBVIOUS
<1>2. acc \in Contexts(items) /\ more \in Contexts(items)
  BY <1>1, AddTypes DEF ContextSoFar
<1>3. CASE more = acc
  BY <1>1, <1>3
<1>4. CASE more = [acc EXCEPT !.ok = FALSE]
  <2>1. /\ more.ok = FALSE /\ more.refs = acc.refs /\ more.messages = acc.messages /\ more.items = acc.items
    BY <1>2, <1>4 DEF Contexts
  <2> QED
    BY <1>1, <1>2, <2>1 DEF ContextSoFar
<1>5. CASE Current(i) /\ Fits(acc, ItemCost(acc, i), Cited(i)) /\ more = Added(acc, i)
  <2>1. PICK x \in Nat : x = ItemCost(acc, i)
    BY CostIs
  <2>2. /\ more.size = acc.size + x /\ more.refs = acc.refs \cup Cited(i)
        /\ more.messages = acc.messages \cup Cited(i) /\ more.items = acc.items \cup {i}
    BY <1>2, <1>5, <2>1 DEF Contexts, Added
  <2>3. more.size <= MaxSize /\ Cardinality(more.messages) <= MaxMessages
    BY <1>5, <2>1, <2>2 DEF Fits
  <2>4. more.refs \subseteq more.messages /\ Spoken(LastCaptions.kept) \subseteq more.messages
    BY <2>2 DEF ContextSoFar
  <2>5. more.messages \subseteq Citable(more.items)
    BY <2>2 DEF ContextSoFar, Citable
  <2>6. \A j \in more.items : Current(j)
    BY <1>5, <2>2 DEF ContextSoFar
  <2> QED
    BY <1>1, <1>2, <2>3, <2>4, <2>5, <2>6 DEF ContextSoFar
<1> QED
  BY <1>1, <1>3, <1>4, <1>5, AddCases

BuiltItems(chosen) == {MarkItem(m) : m \in chosen} \cup known

\* The items a context is built from.
LEMMA BuiltItemsAre ==
  ASSUME ContextTypes, NEW chosen, chosen \subseteq marks
  PROVE  MeetingItems(BuiltItems(chosen))
<1>1. PICK made : made = {MarkItem(m) : m \in chosen}
  OBVIOUS
<1>2. \A i \in made : i \in ContextItems /\ i.at \in 1..Revisions[i.key]
  <2> TAKE i \in made
  <2>1. PICK m \in chosen : i = MarkItem(m)
    BY <1>1
  <2>2. m \in Utterances \X Nat /\ m[2] \in 1..Revisions[m[1]]
    BY DEF ContextTypes
  <2>3. i.category = "marks" /\ i.key = m[1] /\ i.at = m[2]
    BY <2>1 DEF MarkItem
  <2> QED
    BY <2>1, <2>2, <2>3 DEF MarkItem, ContextItems
<1>3. IsFiniteSet(made)
  <2>1. IsFiniteSet(chosen)
    BY FS_Subset DEF ContextTypes
  <2> DEFINE f == [m \in chosen |-> MarkItem(m)]
  <2>2. f \in [chosen -> made] /\ \A i \in made : \E m \in chosen : f[m] = i
    BY <1>1
  <2>3. f \in Surjection(chosen, made)
    BY <2>2, Zenon DEF Surjection
  <2> QED
    BY <2>1, <2>3, FS_Surjection
<1>4. IsFiniteSet(known) /\ known \subseteq ContextItems /\ \A i \in known : i.at \in 1..Revisions[i.key]
  BY DEF ContextTypes, MeetingItems
<1>5. IsFiniteSet(made \cup known)
  BY <1>3, <1>4, FS_Union
<1> QED
  BY <1>1, <1>2, <1>4, <1>5 DEF MeetingItems, BuiltItems

ContextStart ==
  [ok |-> TRUE, items |-> {}, size |-> GoalSize + 2 * SizeOf(Spoken(LastCaptions.kept)),
   messages |-> {GoalMessage} \cup Spoken(LastCaptions.kept), refs |-> {GoalMessage},
   tail |-> Spoken(LastCaptions.kept), status |-> Status]

\* The context of the goal and the last captions fits.
LEMMA EmptyFits ==
  ASSUME ContextTypes, LastCaptions.ok, NEW items
  PROVE  ContextSoFar(ContextStart, items)
<1>1. PICK D : D = Spoken(LastCaptions.kept)
  OBVIOUS
<1>2. Sized(D) /\ GoalSize + 2 * SizeOf(D) <= MaxSize /\ Cardinality(D) + 1 <= MaxMessages
  BY <1>1, TailWithin
<1>3. SizeOf(D) \in Nat
  <2>1. PICK h : SumsOf(h, SizesIn(D), D) /\ SizeOf(D) = h[D]
    BY <1>2, SizeOfIs
  <2> QED
    BY <2>1 DEF SumsOf
<1>4. Cardinality({GoalMessage} \cup D) <= MaxMessages
  <2>1. {GoalMessage} \cup D = D \cup {GoalMessage}
    OBVIOUS
  <2>2. IsFiniteSet(D) /\ Cardinality(D) \in Nat
    BY <1>2, FS_CardinalityType DEF Sized
  <2>3. Cardinality(D \cup {GoalMessage}) = IF GoalMessage \in D THEN Cardinality(D) ELSE Cardinality(D) + 1
    BY <2>2, FS_AddElement
  <2> QED
    BY <1>2, <2>1, <2>2, <2>3, ContextAssumption
<1>5. GoalSize + 2 * SizeOf(D) \in Nat
  BY <1>3, ContextAssumption
<1>6. /\ {GoalMessage} \cup D \in SUBSET Citable(items) /\ {GoalMessage} \in SUBSET Citable(items)
      /\ {GoalMessage} \cup D \subseteq Citable({})
  BY <1>1 DEF Citable
<1>7. PICK start : start = ContextStart
  OBVIOUS
<1>8. /\ start.size = GoalSize + 2 * SizeOf(D) /\ start.messages = {GoalMessage} \cup D
      /\ start.refs = {GoalMessage} /\ start.items = {}
  BY <1>1, <1>7 DEF ContextStart
<1>9. start \in Contexts(items)
  BY <1>1, <1>5, <1>6, <1>7 DEF ContextStart, Contexts
<1> QED
  BY <1>1, <1>2, <1>4, <1>6, <1>7, <1>8, <1>9 DEF ContextSoFar

\* The items that are gone through are those there are.
LEMMA RankedCountIs ==
  ASSUME NEW items, IsFiniteSet(items), NEW chosen, IsFiniteSet(chosen)
  PROVE  RankedCount(items, chosen) \in Nat /\ RankedCount(items, chosen) <= Cardinality(items)
BY FS_CardinalityType, ContextAssumption DEF RankedCount

\* What is built is within the bounds, if anything is.
LEMMA BuildIs ==
  ASSUME ContextTypes, NEW chosen, chosen \subseteq marks, NEW wanted
  PROVE  \/ Build(chosen, wanted) = Refused
         \/ LastCaptions.ok /\ ContextSoFar(Build(chosen, wanted), BuiltItems(chosen))
<1> DEFINE items == BuiltItems(chosen)
           N == RankedCount(items, chosen)
           found == {i.key : i \in {j \in known : j.category = "action_candidates"}}
           F(g) == [n \in 0..N |-> IF n = 0 THEN ContextStart ELSE Add(g[n - 1], Ranked(items, wanted, n), wanted)]
           built == CHOOSE g : g = F(g)
<1>1. Build(chosen, wanted) = IF ~LastCaptions.ok \/ ~(wanted \subseteq found) THEN Refused ELSE built[N]
  BY Zenon DEF Build, ContextStart, Spoken, BuiltItems
<1>2. CASE ~LastCaptions.ok \/ ~(wanted \subseteq found)
  BY <1>1, <1>2
<1>3. CASE LastCaptions.ok /\ wanted \subseteq found
  <2>1. Build(chosen, wanted) = built[N]
    BY <1>1, <1>3
  <2>2. MeetingItems(items)
    BY BuiltItemsAre
  <2>3. N \in Nat /\ N <= Cardinality(items) /\ Cardinality(items) \in Nat
    <3>1. IsFiniteSet(items) /\ IsFiniteSet(chosen)
      BY <2>2, FS_Subset DEF MeetingItems, ContextTypes
    <3> HIDE DEF items
    <3> QED
      BY <3>1, RankedCountIs, FS_CardinalityType
  <2> HIDE DEF items
  <2>4. \A n \in 1..N : Ranked(items, wanted, n) \in items
    <3> TAKE n \in 1..N
    <3>1. n \in 1..Cardinality(items)
      BY <2>3
    <3> QED
      BY <2>2, <3>1, RankedIs DEF MeetingItems
  <2> HIDE DEF N
  <2>5. PICK turn : turn = [p \in (1..N) \X Contexts(items) |-> Add(p[2], Ranked(items, wanted, p[1]), wanted)]
    OBVIOUS
  <2>6. \A n \in 1..N, x \in Contexts(items) : turn[<<n, x>>] = Add(x, Ranked(items, wanted, n), wanted)
    BY <2>5
  <2>7. ContextSoFar(ContextStart, items) /\ ContextStart \in Contexts(items)
    BY <1>3, EmptyFits DEF ContextSoFar
  <2>8. PICK f \in [0..N -> Contexts(items)] : RunOf(f, N, ContextStart, turn)
    <3>1. \A n \in 1..N, x \in Contexts(items) : Add(x, Ranked(items, wanted, n), wanted) \in Contexts(items)
      BY <2>2, <2>4, AddTypes
    <3>2. TurnsOver(turn, N, Contexts(items))
      BY <2>6, <3>1, Zenon DEF TurnsOver
    <3> QED
      BY <2>3, <2>7, <3>2, LoopRuns
  <2>9. ASSUME NEW n \in 1..N PROVE f[n] = Add(f[n - 1], Ranked(items, wanted, n), wanted)
    <3>1. f[n - 1] \in Contexts(items)
      BY <2>3, <2>8
    <3> QED
      BY <2>6, <2>8, <3>1 DEF RunOf
  <2>10. f = F(f)
    <3>1. \A n \in 0..N : f[n] = F(f)[n]
      <4> TAKE n \in 0..N
      <4>1. CASE n = 0
        BY <2>3, <2>8, <4>1 DEF RunOf
      <4>2. CASE n # 0
        <5>1. n \in 1..N
          BY <2>3, <4>2
        <5> QED
          BY <2>9, <4>2, <5>1
      <4> QED
        BY <4>1, <4>2
    <3> QED
      BY <2>8, <3>1
  <2>11. built = F(built)
    <3> HIDE DEF F
    <3> QED
      BY <2>10, Zenon
  <2>12. built[0] = ContextStart /\ \A n \in 1..N : built[n] = Add(built[n - 1], Ranked(items, wanted, n), wanted)
    <3> HIDE DEF built
    <3>1. built[0] = ContextStart
      BY <2>3, <2>11
    <3>2. ASSUME NEW n \in 1..N PROVE built[n] = Add(built[n - 1], Ranked(items, wanted, n), wanted)
      <4>1. n \in 0..N /\ n # 0
        BY <2>3
      <4>2. built[n] = F(built)[n]
        BY <2>11
      <4> QED
        BY <4>1, <4>2
    <3> QED
      BY <3>1, <3>2
  <2> DEFINE S == {n \in 0..N : ContextSoFar(built[n], items)}
  <2> HIDE DEF built
  <2>13. 0 \in S
    BY <2>3, <2>7, <2>12
  <2>14. ASSUME NEW n \in 1..N, n - 1 \in S PROVE n \in S
    <3>1. ContextSoFar(built[n - 1], items) /\ Ranked(items, wanted, n) \in items
      BY <2>4, <2>14
    <3>2. ContextSoFar(Add(built[n - 1], Ranked(items, wanted, n), wanted), items)
      BY <2>2, <3>1, AddStep
    <3> QED
      BY <2>3, <2>12, <3>2
  <2>15. 0..N \subseteq S
    <3> HIDE DEF S
    <3> QED
      BY <2>3, <2>13, <2>14, LoopInduction
  <2>16. N \in 0..N
    BY <2>3
  <2>17. ContextSoFar(built[N], items)
    BY <2>15, <2>16
  <2> QED
    BY <1>3, <2>1, <2>17 DEF items
<1> QED
  BY <1>2, <1>3

-----------------------------------------------------------------------------
(* The meeting goes on, and the run plans.                                 *)

\* A context that was frozen.
SnapshotKept(s) ==
  s.ok =>
    /\ s.size <= MaxSize /\ Cardinality(s.messages) <= MaxMessages
    /\ s.refs \subseteq s.messages /\ s.tail \subseteq s.messages
    /\ \A m \in s.tail : m[1] = "caption"

ContextInv ==
  /\ ContextTypes
  /\ SnapshotKept(plan.snapshot)
  /\ plan.pc # "none" => plan.snapshot.ok

\* What is built can be kept.
LEMMA BuildKept ==
  ASSUME ContextTypes, NEW chosen, chosen \subseteq marks, NEW wanted
  PROVE  SnapshotKept(Build(chosen, wanted))
<1>1. PICK s : s = Build(chosen, wanted)
  OBVIOUS
<1>2. CASE s = Refused
  BY <1>1, <1>2 DEF Refused, SnapshotKept
<1>3. CASE ContextSoFar(s, BuiltItems(chosen))
  <2>1. s.tail = Spoken(LastCaptions.kept)
    BY <1>3 DEF ContextSoFar, Contexts
  <2>2. \A m \in Spoken(LastCaptions.kept) : m[1] = "caption"
    BY DEF Spoken, CaptionMessage
  <2> QED
    BY <1>1, <1>3, <2>1, <2>2 DEF ContextSoFar, SnapshotKept
<1> QED
  BY <1>1, <1>2, <1>3, BuildIs

\* Taking a caption out of the order leaves the others.
LEMMA WithoutIs ==
  ASSUME NEW s \in Seq(Utterances), NEW c
  PROVE  /\ Without(s, c) \in Seq(Utterances)
         /\ \A k \in 1..Len(Without(s, c)) : \E j \in 1..Len(s) : Without(s, c)[k] = s[j]
<1>1. CASE ~ \E i \in DOMAIN s : s[i] = c
  BY <1>1 DEF Without
<1>2. CASE \E i \in DOMAIN s : s[i] = c
  <2>1. PICK i \in 1..Len(s) : Without(s, c) = RemoveAt(s, i)
    <3>1. DOMAIN s = 1..Len(s)
      OBVIOUS
    <3> QED
      BY <1>2, <3>1 DEF Without
  <2>2. PICK a : a = SubSeq(s, 1, i - 1)
    OBVIOUS
  <2>3. PICK b : b = SubSeq(s, i + 1, Len(s))
    OBVIOUS
  <2>4. Len(s) \in Nat /\ i \in Nat
    OBVIOUS
  <2>5. a \in Seq(Utterances) /\ Len(a) = i - 1 /\ \A k \in 1..(i - 1) : a[k] = s[k]
    BY <2>2, <2>4
  <2>6. b \in Seq(Utterances) /\ Len(b) = Len(s) - i /\ \A k \in 1..(Len(s) - i) : b[k] = s[i + k]
    BY <2>3, <2>4
  <2>7. Without(s, c) = a \o b
    BY <2>1, <2>2, <2>3 DEF RemoveAt
  <2>8. PICK t : t = a \o b
    OBVIOUS
  <2>9. /\ t \in Seq(Utterances) /\ Len(t) = Len(a) + Len(b)
        /\ \A k \in 1..Len(t) : t[k] = IF k <= Len(a) THEN a[k] ELSE b[k - Len(a)]
    <3>1. a \in Seq(Utterances) /\ b \in Seq(Utterances)
      BY <2>5, <2>6
    <3>2. t \in Seq(Utterances) /\ Len(t) = Len(a) + Len(b)
      BY <2>8, <3>1
    <3>3. \A k \in 1..(Len(a) + Len(b)) : (a \o b)[k] = IF k <= Len(a) THEN a[k] ELSE b[k - Len(a)]
      BY <3>1
    <3> QED
      BY <2>8, <3>2, <3>3
  <2>10. ASSUME NEW k \in 1..Len(t) PROVE \E j \in 1..Len(s) : t[k] = s[j]
    <3>1. CASE k <= Len(a)
      <4>1. k \in 1..(i - 1) /\ k \in 1..Len(s)
        BY <2>4, <2>5, <2>9, <3>1
      <4> QED
        BY <2>5, <2>9, <3>1, <4>1
    <3>2. CASE k > Len(a)
      <4>1. k - Len(a) \in 1..(Len(s) - i) /\ i + (k - Len(a)) \in 1..Len(s) /\ ~(k <= Len(a))
        BY <2>4, <2>5, <2>6, <2>9, <3>2
      <4>2. t[k] = b[k - Len(a)]
        BY <2>9, <4>1
      <4> QED
        BY <2>6, <4>1, <4>2
    <3> QED
      BY <2>5, <2>9, <3>1, <3>2
  <2> QED
    BY <2>7, <2>8, <2>9, <2>10
<1> QED
  BY <1>1, <1>2

\* Someone speaks, or a caption is revised.
LEMMA SayStep == ASSUME ContextTypes, NEW c \in Utterances, Say(c) PROVE ContextTypes'
<1>1. /\ heard' = [heard EXCEPT ![c] = @ + 1] /\ heard[c] < Revisions[c] /\ order' = Append(Without(order, c), c)
      /\ folded' = folded /\ known' = known /\ marks' = marks /\ plan' = plan
  BY DEF Say
<1>2. /\ heard \in [Utterances -> Nat] /\ \A d \in Utterances : heard[d] <= Revisions[d] /\ Revisions[d] \in Nat
  BY ContextAssumption DEF ContextTypes
<1>3. PICK now : now = heard'
  OBVIOUS
<1>4. /\ now \in [Utterances -> Nat] /\ now[c] = heard[c] + 1
      /\ \A d \in Utterances : d # c => now[d] = heard[d]
  BY <1>1, <1>2, <1>3
<1>5. \A d \in Utterances : now[d] <= Revisions[d] /\ heard[d] <= now[d]
  <2> TAKE d \in Utterances
  <2>1. PICK h \in Nat : h = heard[d]
    BY <1>2
  <2>2. PICK r \in Nat : r = Revisions[d]
    BY <1>2
  <2>3. CASE d = c
    <3>1. now[d] = h + 1 /\ h < r
      BY <1>1, <1>4, <2>1, <2>2, <2>3
    <3> QED
      BY <2>1, <2>2, <3>1
  <2>4. CASE d # c
    BY <1>2, <1>4, <2>4
  <2> QED
    BY <2>3, <2>4
<1>6. PICK t : t = Without(order, c)
  OBVIOUS
<1>7. t \in Seq(Utterances) /\ \A k \in 1..Len(t) : t[k] \in Utterances /\ heard[t[k]] >= 1
  <2>1. order \in Seq(Utterances) /\ \A k \in 1..Len(order) : order[k] \in Utterances /\ heard[order[k]] >= 1
    BY DEF ContextTypes
  <2>2. t \in Seq(Utterances) /\ \A k \in 1..Len(t) : \E j \in 1..Len(order) : t[k] = order[j]
    BY <1>6, <2>1, WithoutIs
  <2> QED
    BY <2>1, <2>2
<1>8. PICK u : u = Append(t, c)
  OBVIOUS
<1>9. u \in Seq(Utterances) /\ \A k \in 1..Len(u) : (k \in 1..Len(t) /\ u[k] = t[k]) \/ u[k] = c
  BY <1>7, <1>8
<1>10. \A d \in Utterances : heard[d] >= 1 => now[d] >= 1
  <2> TAKE d \in Utterances
  <2>1. heard[d] \in Nat /\ now[d] \in Nat /\ heard[d] <= now[d]
    BY <1>2, <1>4, <1>5
  <2> QED
    BY <2>1
<1>11. \A k \in 1..Len(u) : now[u[k]] >= 1
  <2> TAKE k \in 1..Len(u)
  <2>1. now[c] >= 1
    BY <1>2, <1>4
  <2> QED
    BY <1>7, <1>9, <1>10, <2>1
<1> QED
  BY <1>1, <1>3, <1>4, <1>5, <1>6, <1>8, <1>9, <1>11 DEF ContextTypes, MeetingItems

\* A caption is folded into the Meeting State.
LEMMA ProjectStep ==
  ASSUME ContextTypes, NEW c \in Utterances, NEW found \in SUBSET {"decisions", "action_candidates"}, Project(c, found)
  PROVE  ContextTypes'
<1>1. /\ c \in Unfolded /\ folded' = [folded EXCEPT ![c] = heard[c]] /\ known' = Fold(c, found)
      /\ heard' = heard /\ order' = order /\ marks' = marks /\ plan' = plan
  BY DEF Project
<1>2. heard[c] \in 1..Revisions[c] /\ heard[c] \in Nat
  <2>1. heard[c] \in Nat /\ folded[c] \in Nat /\ heard[c] > folded[c] /\ heard[c] <= Revisions[c] /\ Revisions[c] \in Nat
    BY <1>1, ContextAssumption DEF Unfolded, ContextTypes
  <2> QED
    BY <2>1
<1>3. PICK new : new = {[category |-> k, key |-> c, at |-> heard[c]] : k \in found}
  OBVIOUS
<1>4. PICK old : old = {i \in known : i.key # c \/ (i.category = "action_candidates" /\ i.category \notin found)}
  OBVIOUS
<1>5. known' = old \cup new
  BY <1>1, <1>3, <1>4 DEF Fold
<1>6. MeetingItems(known) /\ \A i \in known : i.category # "marks"
  BY DEF ContextTypes
<1>7. IsFiniteSet(old \cup new)
  <2>1. IsFiniteSet(old)
    <3>1. old \in SUBSET known
      BY <1>4
    <3> QED
      BY <1>6, <3>1, FS_Subset DEF MeetingItems
  <2>2. PICK a : a = [category |-> "decisions", key |-> c, at |-> heard[c]]
    OBVIOUS
  <2>3. PICK b : b = [category |-> "action_candidates", key |-> c, at |-> heard[c]]
    OBVIOUS
  <2>4. new \in SUBSET ({a} \cup {b})
    BY <1>3, <2>2, <2>3
  <2>5. IsFiniteSet({a} \cup {b})
    <3>1. IsFiniteSet({a})
      BY FS_Singleton
    <3> QED
      BY <3>1, FS_AddElement
  <2>6. IsFiniteSet(new)
    BY <2>4, <2>5, FS_Subset
  <2> QED
    BY <2>1, <2>6, FS_Union
<1>8. ASSUME NEW i \in old \cup new PROVE i \in ContextItems /\ i.at \in 1..Revisions[i.key] /\ i.category # "marks"
  <2>1. CASE i \in old
    BY <1>4, <1>6, <2>1 DEF MeetingItems
  <2>2. CASE i \in new
    <3>1. PICK k \in found : i = [category |-> k, key |-> c, at |-> heard[c]]
      BY <1>3, <2>2
    <3>2. k \in {"decisions", "action_candidates"}
      OBVIOUS
    <3> QED
      BY <1>2, <3>1, <3>2 DEF ContextItems
  <2> QED
    BY <2>1, <2>2
<1>9. MeetingItems(known')
  BY <1>5, <1>7, <1>8 DEF MeetingItems
<1>10. folded' \in [Utterances -> Nat]
  BY <1>1, <1>2 DEF ContextTypes
<1>11. \A i \in known' : i.category # "marks"
  BY <1>5, <1>8
<1> QED
  BY <1>1, <1>9, <1>10, <1>11 DEF ContextTypes, MeetingItems

\* The other steps of the meeting.
LEMMA MeetingStep ==
  ASSUME ContextTypes,
         (\E c \in Utterances : Ages(c) \/ CreateMark(c)) \/ ProjectionFails \/ AnalysisEnds
  PROVE  ContextTypes'
<1>1. ASSUME NEW c \in Utterances, CreateMark(c) PROVE ContextTypes'
  <2>1. /\ heard[c] > 0 /\ marks' = marks \cup {<<c, heard[c]>>}
        /\ heard' = heard /\ order' = order /\ folded' = folded /\ known' = known /\ plan' = plan
    BY <1>1 DEF CreateMark
  <2>2. heard[c] \in 1..Revisions[c] /\ heard[c] \in Nat
    <3>1. heard[c] \in Nat /\ heard[c] <= Revisions[c] /\ Revisions[c] \in Nat
      BY ContextAssumption DEF ContextTypes
    <3> QED
      BY <2>1, <3>1
  <2>3. IsFiniteSet(marks')
    BY <2>1, FS_AddElement DEF ContextTypes
  <2>4. \A m \in marks' : m \in Utterances \X Nat /\ m[2] \in 1..Revisions[m[1]]
    <3> TAKE m \in marks'
    <3>1. m \in marks \/ m = <<c, heard[c]>>
      BY <2>1
    <3> QED
      BY <2>2, <3>1 DEF ContextTypes
  <2> QED
    BY <2>1, <2>3, <2>4 DEF ContextTypes, MeetingItems
<1>2. CASE (\E c \in Utterances : Ages(c)) \/ ProjectionFails \/ AnalysisEnds
  <2>1. heard' = heard /\ order' = order /\ folded' = folded /\ known' = known /\ marks' = marks /\ plan' = plan
    BY <1>2 DEF Ages, ProjectionFails, AnalysisEnds
  <2> QED
    BY <2>1 DEF ContextTypes, MeetingItems
<1> QED
  BY <1>1, <1>2

\* The meeting leaves the run alone.
LEMMA PlanUntouched ==
  ASSUME \/ \E c \in Utterances : Say(c) \/ Ages(c) \/ CreateMark(c)
         \/ \E c \in Utterances, found \in SUBSET {"decisions", "action_candidates"} : Project(c, found)
         \/ ProjectionFails \/ AnalysisEnds
  PROVE  plan' = plan
BY DEF Say, Ages, CreateMark, Project, ProjectionFails, AnalysisEnds

\* A step of the run leaves the meeting alone.
LEMMA PlanOnly ==
  ASSUME ContextTypes, UNCHANGED <<heard, order, folded, known, marks>>, DOMAIN plan' = DOMAIN plan
  PROVE  ContextTypes'
BY DEF ContextTypes, MeetingItems

\* The run's first context.
LEMMA SubmitStep ==
  ASSUME ContextInv, NEW chosen \in SUBSET marks, NEW wanted, SubmitRun(chosen, wanted)
  PROVE  ContextInv'
<1>1. PICK s : s = Build(chosen, wanted)
  OBVIOUS
<1>2. /\ s.ok /\ plan' = [plan EXCEPT !.pc = "planning", !.chosen = chosen, !.wanted = wanted, !.snapshot = s]
      /\ UNCHANGED <<heard, order, folded, known, marks>>
  BY <1>1 DEF SubmitRun
<1>3. DOMAIN plan = PlanFields
  BY DEF ContextInv, ContextTypes
<1>4. DOMAIN plan' = DOMAIN plan /\ plan'.snapshot = s
  BY <1>2, <1>3 DEF PlanFields
<1>5. SnapshotKept(s)
  BY <1>1, BuildKept DEF ContextInv
<1>6. ContextTypes'
  BY <1>2, <1>4, PlanOnly DEF ContextInv
<1> QED
  BY <1>2, <1>4, <1>5, <1>6 DEF ContextInv, SnapshotKept

\* What the check of the context leads to.
LEMMA RecheckIs ==
  ASSUME ContextTypes, Recheck, NEW fresh, fresh = Build({}, {})
  PROVE  /\ plan.pc \in {"checking", "waiting"} /\ DOMAIN plan' = DOMAIN plan
         /\ UNCHANGED <<heard, order, folded, known, marks>>
         /\ plan'.snapshot = plan.snapshot \/ (fresh.ok /\ plan'.snapshot = fresh)
         /\ plan'.pc = "writing" => fresh.ok /\ Hash(fresh) = Hash(plan.snapshot)
<1> DEFINE changed == ~fresh.ok \/ Hash(fresh) # Hash(plan.snapshot)
           judged == IF changed THEN fresh ELSE plan.snapshot
           next == CASE ~fresh.ok -> "failed"
                     [] fresh.ok /\ judged.status = "stale" -> "needs_input"
                     [] fresh.ok /\ judged.status # "stale" /\ changed -> "planning"
                     [] OTHER -> "writing"
           snapshot == IF fresh.ok THEN judged ELSE plan.snapshot
<1>1. DOMAIN plan = PlanFields
  BY DEF ContextTypes
<1>2. /\ plan.pc \in {"checking", "waiting"}
      /\ plan' = [plan EXCEPT !.target = <<>>, !.snapshot = snapshot, !.pc = next]
      /\ UNCHANGED <<heard, order, folded, known, marks>>
  BY DEF Recheck
<1>3. snapshot = plan.snapshot \/ (fresh.ok /\ snapshot = fresh)
  OBVIOUS
<1>4. next = "writing" => fresh.ok /\ Hash(fresh) = Hash(plan.snapshot)
  OBVIOUS
<1> HIDE DEF next, snapshot
<1>5. DOMAIN plan' = DOMAIN plan /\ plan'.snapshot = snapshot /\ plan'.pc = next
  BY <1>1, <1>2 DEF PlanFields
<1> QED
  BY <1>2, <1>3, <1>4, <1>5

\* The run's context is built again.
LEMMA RecheckStep == ASSUME ContextInv, Recheck PROVE ContextInv'
<1>1. PICK fresh : fresh = Build({}, {})
  OBVIOUS
<1>2. ContextTypes
  BY DEF ContextInv
<1>3. SnapshotKept(fresh)
  BY <1>1, <1>2, BuildKept
<1>4. /\ plan.pc \in {"checking", "waiting"} /\ DOMAIN plan' = DOMAIN plan
      /\ UNCHANGED <<heard, order, folded, known, marks>>
      /\ plan'.snapshot = plan.snapshot \/ (fresh.ok /\ plan'.snapshot = fresh)
  BY <1>1, <1>2, RecheckIs
<1>5. plan.snapshot.ok
  BY <1>4 DEF ContextInv
<1>6. ContextTypes'
  BY <1>2, <1>4, PlanOnly
<1> QED
  BY <1>3, <1>4, <1>5, <1>6 DEF ContextInv, SnapshotKept

\* Every step keeps the invariant.
LEMMA ContextKeeps == ASSUME ContextInv, [ContextNext]_contextVars PROVE ContextInv'
<1>1. CASE UNCHANGED contextVars
  BY <1>1 DEF contextVars, ContextInv, ContextTypes, MeetingItems, SnapshotKept
<1>2. CASE /\ plan' = plan /\ ContextTypes'
  BY <1>2 DEF ContextInv, SnapshotKept
<1>3. CASE \E c \in Utterances : Say(c)
  BY <1>2, <1>3, SayStep, PlanUntouched DEF ContextInv
<1>4. CASE \E c \in Utterances, found \in SUBSET {"decisions", "action_candidates"} : Project(c, found)
  BY <1>2, <1>4, ProjectStep, PlanUntouched DEF ContextInv
<1>5. CASE (\E c \in Utterances : Ages(c) \/ CreateMark(c)) \/ ProjectionFails \/ AnalysisEnds
  <2>1. plan' = plan
    BY <1>5, PlanUntouched
  <2> QED
    BY <1>2, <1>5, <2>1, MeetingStep DEF ContextInv
<1>6. CASE \E chosen \in SUBSET marks, wanted \in SUBSET Utterances : SubmitRun(chosen, wanted)
  BY <1>6, SubmitStep
<1>7. CASE PlanWrite \/ RunsOut \/ AskCatchUp \/ CatchUpFails \/ Reply
  <2>1. DOMAIN plan = PlanFields
    BY DEF ContextInv, ContextTypes
  <2>2. UNCHANGED <<heard, order, folded, known, marks>> /\ plan.pc # "none"
    BY <1>7 DEF PlanWrite, RunsOut, AskCatchUp, CatchUpFails, Reply
  <2>3. DOMAIN plan' = DOMAIN plan /\ plan'.snapshot = plan.snapshot
    BY <1>7, <2>1 DEF PlanWrite, RunsOut, AskCatchUp, CatchUpFails, Reply, PlanFields
  <2>4. ContextTypes'
    BY <2>2, <2>3, PlanOnly DEF ContextInv
  <2> QED
    BY <2>2, <2>3, <2>4 DEF ContextInv, SnapshotKept
<1>8. CASE Recheck
  BY <1>8, RecheckStep
<1> QED
  BY <1>1, <1>3, <1>4, <1>5, <1>6, <1>7, <1>8 DEF ContextNext

\* Nothing was said, and no run submitted.
LEMMA ContextStarts == ASSUME ContextInit PROVE ContextInv
<1>1. MeetingItems({})
  BY FS_EmptySet DEF MeetingItems
<1>2. <<>> \in Seq(Utterances) /\ Len(<<>>) = 0
  OBVIOUS
<1>3. ContextTypes
  BY <1>1, <1>2, FS_EmptySet, ContextAssumption DEF ContextInit, ContextTypes, PlanFields
<1>4. plan.pc = "none" /\ SnapshotKept(plan.snapshot)
  BY DEF ContextInit, Refused, SnapshotKept
<1> QED
  BY <1>3, <1>4 DEF ContextInv

\* A write is let through when the context is the one it was planned from.
LEMMA WrittenOnCurrent ==
  ASSUME ContextInv, [ContextNext]_contextVars, plan.pc # "writing", plan'.pc = "writing"
  PROVE  /\ \A c \in LastCaptions.kept : CaptionMessage(c, heard[c]) \in plan.snapshot.messages
         /\ \A i \in plan.snapshot.items : Current(i)
         /\ \A m \in plan.snapshot.tail :
              heard[m[2]] = m[3]
              \/ \E i \in plan.snapshot.items : i.category = "action_candidates" /\ m \in Cited(i)
<1>1. Recheck
  <2>1. DOMAIN plan = PlanFields
    BY DEF ContextInv, ContextTypes
  <2>2. ~ UNCHANGED contextVars
    BY DEF contextVars
  <2>3. /\ ~ \E c \in Utterances : Say(c) \/ Ages(c) \/ CreateMark(c)
        /\ ~ \E c \in Utterances, found \in SUBSET {"decisions", "action_candidates"} : Project(c, found)
        /\ ~ ProjectionFails /\ ~ AnalysisEnds
    BY PlanUntouched
  <2>4. ~ \E chosen \in SUBSET marks, wanted \in SUBSET Utterances : SubmitRun(chosen, wanted)
    <3> SUFFICES ASSUME NEW chosen, NEW wanted, SubmitRun(chosen, wanted) PROVE FALSE
      OBVIOUS
    <3>1. PICK s : plan' = [plan EXCEPT !.pc = "planning", !.chosen = chosen, !.wanted = wanted, !.snapshot = s]
      BY Zenon DEF SubmitRun
    <3>2. plan'.pc = "planning"
      BY <2>1, <3>1 DEF PlanFields
    <3> QED
      BY <3>2
  <2>5. ~ (PlanWrite \/ RunsOut \/ AskCatchUp \/ CatchUpFails \/ Reply)
    BY <2>1 DEF PlanWrite, RunsOut, AskCatchUp, CatchUpFails, Reply, PlanFields
  <2> QED
    BY <2>2, <2>3, <2>4, <2>5 DEF ContextNext
<1>2. PICK fresh : fresh = Build({}, {})
  OBVIOUS
<1>3. PICK s : s = plan.snapshot
  OBVIOUS
<1>4. /\ fresh.ok /\ Hash(fresh) = Hash(s) /\ plan.pc \in {"checking", "waiting"}
  BY <1>1, <1>2, <1>3, RecheckIs DEF ContextInv
<1>5. fresh.items = s.items /\ fresh.messages = s.messages
  BY <1>4 DEF Hash
<1>6. BuiltItems({}) = known
  BY DEF BuiltItems
<1>7. ContextSoFar(fresh, known)
  <2>1. fresh # Refused
    BY <1>4 DEF Refused
  <2>2. ContextTypes /\ {} \subseteq marks
    BY DEF ContextInv
  <2> QED
    BY <1>2, <1>6, <2>1, <2>2, BuildIs
<1>8. \A i \in s.items : i \in known /\ i.category # "marks" /\ i.category \in {"decisions", "action_candidates", "marks"}
  <2>1. fresh.items \subseteq known
    BY <1>7 DEF ContextSoFar, Contexts
  <2>2. known \subseteq ContextItems /\ \A i \in known : i.category # "marks"
    BY DEF ContextInv, ContextTypes, MeetingItems
  <2> QED
    BY <1>5, <2>1, <2>2 DEF ContextItems
<1>9. \A c \in LastCaptions.kept : CaptionMessage(c, heard[c]) \in s.messages
  BY <1>5, <1>7 DEF ContextSoFar, Spoken
<1>10. \A i \in s.items : Current(i)
  BY <1>5, <1>7 DEF ContextSoFar
<1>11. ASSUME NEW m \in s.tail
       PROVE  heard[m[2]] = m[3] \/ \E i \in s.items : i.category = "action_candidates" /\ m \in Cited(i)
  <2>1. m \in s.messages /\ m[1] = "caption"
    BY <1>3, <1>4 DEF ContextInv, SnapshotKept
  <2>2. m \in Citable(s.items)
    BY <1>5, <1>7, <2>1 DEF ContextSoFar
  <2>3. m # GoalMessage
    BY <2>1 DEF GoalMessage
  <2>4. CASE m \in Spoken(LastCaptions.kept)
    BY <2>4 DEF Spoken, CaptionMessage
  <2>5. CASE \E i \in s.items : m \in Cited(i)
    <3>1. PICK i \in s.items : m \in Cited(i)
      BY <2>5
    <3>2. m = CaptionMessage(i.key, i.at)
      BY <1>8, <3>1 DEF Cited
    <3>3. i.category # "action_candidates" => heard[i.key] = i.at
      BY <1>8, <1>10 DEF Current
    <3> QED
      BY <3>1, <3>2, <3>3 DEF CaptionMessage
  <2> QED
    BY <2>2, <2>3, <2>4, <2>5 DEF Citable
<1> QED
  BY <1>3, <1>9, <1>10, <1>11

-----------------------------------------------------------------------------
\* Both parts keep their invariants, in whatever order their steps come.
LEMMA PlanningKept == PlanningSpec => [](DeliberationInv /\ ContextInv)
<1>1. PlanningInit => DeliberationInv /\ ContextInv
  BY DeliberationStarts, ContextStarts DEF PlanningInit
<1>2. DeliberationInv /\ ContextInv /\ [PlanningNext]_planningVars => DeliberationInv' /\ ContextInv'
  <2> SUFFICES ASSUME DeliberationInv, ContextInv, [PlanningNext]_planningVars
               PROVE  DeliberationInv' /\ ContextInv'
    OBVIOUS
  <2>1. [DeliberationNext]_deliberationVars /\ [ContextNext]_contextVars
    BY DEF PlanningNext, planningVars
  <2> QED
    BY <2>1, DeliberationKeeps, ContextKeeps
<1> QED
  BY <1>1, <1>2, PTL DEF PlanningSpec

\* A run plans within its budgets: the model calls it makes are accounted for over rounds,
\* retries, repairs and pauses (subagents.py, planner.py, action_runner.py _load_progress),
\* and the context it plans from fits and is closed (context.py build_sync).
THEOREM RunPlansWithinBudgets == PlanningSpec => []PlanningSafe
<1>1. DeliberationInv /\ ContextInv => PlanningSafe
  <2>1. ContextInv => ContextBounded
    BY DEF ContextInv, SnapshotKept, ContextBounded
  <2> QED
    BY <2>1, DeliberationBounds DEF PlanningSafe
<1> QED
  BY <1>1, PlanningKept, PTL

\* An external write is let through only from a context that says what the meeting says
\* now (action_runner.py RelevantContextGuard.check).
THEOREM WritesOnCurrentContext == PlanningSpec => PlannedOnCurrent
<1> DEFINE OnCurrent ==
             plan.pc # "writing" /\ plan'.pc = "writing" =>
               /\ \A c \in LastCaptions.kept : CaptionMessage(c, heard[c]) \in plan.snapshot.messages
               /\ \A i \in plan.snapshot.items : Current(i)
               /\ \A m \in plan.snapshot.tail :
                    heard[m[2]] = m[3]
                    \/ \E i \in plan.snapshot.items : i.category = "action_candidates" /\ m \in Cited(i)
<1>1. ContextInv /\ [PlanningNext]_planningVars => [OnCurrent]_contextVars
  <2>1. [PlanningNext]_planningVars => [ContextNext]_contextVars
    BY DEF PlanningNext, planningVars
  <2> QED
    BY <2>1, WrittenOnCurrent
<1>2. PlanningSpec => [][OnCurrent]_contextVars
  <2> HIDE DEF OnCurrent
  <2> QED
    BY <1>1, PlanningKept, PTL DEF PlanningSpec
<1> QED
  BY <1>2 DEF PlannedOnCurrent

=============================================================================

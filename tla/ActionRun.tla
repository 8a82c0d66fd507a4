----------------------------- MODULE ActionRun -----------------------------
(***************************************************************************)
(* Action Runs of the meeting assistant, from the user's confirmation to   *)
(* a terminal status: ActionRunRunner, ActionRunScheduler,                 *)
(* MeetingPluginExecutionGuard, MeetingPluginOperationWorker, the approval *)
(* endpoints and ActionRunRecovery (assistant/, api/assistant.py), on top  *)
(* of the external-write path of ToolExecutor.                             *)
(*                                                                         *)
(* An action is one database transaction.  Runners, the operation worker   *)
(* and the user's operations share one event loop: they interleave only    *)
(* where a coroutine awaits.  The clock, the projector and revocations run *)
(* in other threads and come between any two transactions.  run[e] holds   *)
(* the local state of the coroutine that drives execution e.               *)
(***************************************************************************)
EXTENDS Naturals, Sequences, FiniteSets

CONSTANTS
  Execs, Keys, Grants, GrantExec, NoGrant,      \* as in ToolExecutor
  AdmitGrant,           \* [Execs -> Grants], the grant created at admission
  Scope,                \* [Execs -> SUBSET Keys], the candidates the user confirmed
  NoKey,
  Disturbances,         \* which of the events below may disturb a run
  MaxRounds,            \* budget.max_planning_rounds
  MaxTries,             \* number of reconciliation_delays_seconds
  MaxNudges             \* bound: disturbances and user inputs of a behaviour

ASSUME ActionRunAssumption ==
  /\ NoGrant \notin Grants /\ GrantExec \in [Grants -> Execs] /\ IsFiniteSet(Keys)
  /\ AdmitGrant \in [Execs -> Grants] /\ Scope \in [Execs -> SUBSET Keys]
  /\ NoKey \notin Keys
  /\ Disturbances \subseteq {"crash", "revoke", "host", "revise", "expire"}
  /\ MaxRounds \in Nat \ {0} /\ MaxTries \in Nat \ {0} /\ MaxNudges \in Nat

VARIABLES
  grantOf, gstat, lapsed, covers, used, claim, holder, call, free, step,
  expected, wire, issues,                       \* as in ToolExecutor
  status,               \* [Execs -> Statuses], execution.status
  rounds,               \* [Execs -> Nat], persisted plan steps
  auth,                 \* the executions whose confirmed operations keep authority
  host,                 \* the meeting plugin's runtime is ready
  stale,                \* [Execs -> SUBSET Keys], candidates revised since confirmed
  appr,                 \* [Execs -> Keys \cup {NoKey}], the pending approval
  ops,                  \* [Execs -> [OpKinds -> OpStatus]], plugin operations
  run,                  \* [Execs -> RunState], the coroutine inside runner.run
  sched,                \* [Execs -> SchedStatus], place in the scheduler
  delayed,              \* the executions with a sleeping _resume_later task
  parked,               \* the executions whose cached result ends the run
  up,                   \* the process
  nudges                \* how many disturbances and inputs happened

X == INSTANCE ToolExecutor

execVars == <<grantOf, gstat, lapsed, covers, used, claim, holder, call, free, step,
              expected, wire, issues>>
runVars == <<status, rounds, run>>
authVars == <<auth, host, stale>>
userVars == <<appr, ops>>
schedVars == <<sched, delayed, parked>>
vars == <<execVars, runVars, authVars, userVars, schedVars, up, nudges>>

Terminal == {"completed", "partial", "failed", "cancelled"}
Parked == Terminal \cup {"needs_input"}
Active == {"queued", "planning", "executing", "observing", "waiting_external",
           "reconciling"}
Statuses == {"none"} \cup Active \cup Parked
OpKinds == {"execute", "input"}

\* The local state of runner.run: where it is, the status walk under way and what
\* follows it, the rest of the tool batch and the statuses seen in it, the ToolCalls
\* still to reconcile, the one being tried and how often.
At(pc) ==
  [pc |-> pc, walk |-> <<>>, next |-> "off", todo |-> {}, seen |-> {},
   pend |-> {}, cur |-> NoKey, tries |-> 0]
Off == At("off")
Walking(path, next) == [At("walk") EXCEPT !.walk = path, !.next = next]
Goto(e, r) == run' = [run EXCEPT ![e] = r]

\* Where a coroutine yields to the event loop, and when the loop is free for a
\* callback, for the coroutine of e.
AwaitPoints == {"off", "plan", "fresh", "reads", "await", "reconcile", "probe"}
Yielded == \A e \in Execs : run[e].pc \in AwaitPoints
MayStep(e) == \A f \in Execs \ {e} : run[f].pc \in AwaitPoints

\* MeetingExecutionGuard.check_db, fence
Fenced(e) == status[e] \notin Terminal /\ e \in auth /\ host

\* The keys of the unresolved external ToolCalls of e.
Pending(e) ==
  {k \in Keys : \E g \in Grants : GrantExec[g] = e /\ call[g][k] \in X!Unresolved}

\* executor._stored_result
Stored(c) ==
  IF c = "requesting" THEN "pending"
  ELSE IF c \in {"unknown", "reconciling"} THEN "unknown" ELSE "settled"

\* grants.authorize_tool_use refuses with a code that pauses for approval.
GrantInactive(g) == g = NoGrant \/ gstat[g] # "active" \/ g \in lapsed

-----------------------------------------------------------------------------
(* The scheduler *)

\* ActionRunScheduler.enqueue, resume
Enqueue(e) ==
  /\ sched' = [sched EXCEPT ![e] = IF @ = "none" /\ e \notin parked THEN "queued" ELSE @]
  /\ UNCHANGED parked

Resume(e) ==
  /\ sched' = [sched EXCEPT ![e] = IF @ = "none" THEN "queued" ELSE @]
  /\ parked' = parked \ {e}

\* runner.run returns s to _worker: cache the result, sleep if something is pending.
\* The isolation done by startup recovery returns to recover_startup instead.
Return(e, s) ==
  /\ Goto(e, Off)
  /\ sched' = [sched EXCEPT ![e] = "none"]
  /\ IF sched[e] = "recovering" THEN UNCHANGED <<delayed, parked>>
     ELSE /\ parked' = IF s \in Parked THEN parked \cup {e} ELSE parked \ {e}
          /\ delayed' = IF s \in {"waiting_external", "reconciling"}
                        THEN delayed \cup {e} ELSE delayed

\* _worker takes the next execution from the queue.
Start(e) ==
  /\ Yielded /\ up # "down" /\ sched[e] = "queued"
  /\ \A f \in Execs : sched[f] # "recovering"
  /\ sched' = [sched EXCEPT ![e] = "active"]
  /\ Goto(e, At("check"))
  /\ UNCHANGED <<execVars, status, rounds, authVars, userVars, delayed, parked, up, nudges>>

\* _resume_later wakes up.
ResumeLater(e) ==
  /\ Yielded /\ e \in delayed
  /\ delayed' = delayed \ {e}
  /\ Enqueue(e)
  /\ UNCHANGED <<execVars, runVars, authVars, userVars, up, nudges>>

-----------------------------------------------------------------------------
(* ActionRunRunner.run *)

\* The authority check or the fence of a transaction refuses: MeetingPluginDenied.
Denied(e) ==
  /\ run[e].pc \in {"check", "head", "plan", "fresh", "reads", "walk", "tool"}
  /\ ~Fenced(e)
  /\ Goto(e, At("isolate"))
  /\ UNCHANGED <<execVars, status, rounds, authVars, userVars, schedVars, up, nudges>>

\* A mutant: a run that waits for an external result returns at once.
CheckSleeps(e) ==
  /\ run[e].pc = "check" /\ Fenced(e)
  /\ \/ /\ status[e] \in {"needs_input", "waiting_external", "reconciling"}
        /\ Return(e, status[e])
     \/ /\ status[e] \notin {"needs_input", "waiting_external", "reconciling"}
        /\ Goto(e, At("head")) /\ UNCHANGED schedVars
  /\ UNCHANGED <<execVars, status, rounds, authVars, userVars, up, nudges>>

\* _run: what the status says is to be done.
Check(e) ==
  /\ run[e].pc = "check" /\ Fenced(e)
  /\ \/ status[e] = "needs_input" /\ Return(e, "needs_input")
     \/ /\ status[e] \in {"waiting_external", "reconciling"}
        /\ Goto(e, At("resume")) /\ UNCHANGED schedVars
     \/ /\ status[e] \notin {"needs_input", "waiting_external", "reconciling"}
        /\ Goto(e, At("head")) /\ UNCHANGED schedVars
  /\ UNCHANGED <<execVars, status, rounds, authVars, userVars, up, nudges>>

\* A mutant: one round more than the budget.
LoopHeadOneMore(e) ==
  /\ run[e].pc = "head" /\ Fenced(e)
  /\ rounds[e] <= MaxRounds
  /\ status' = [status EXCEPT ![e] = "planning"]
  /\ Goto(e, At("plan"))
  /\ UNCHANGED <<execVars, rounds, authVars, userVars, schedVars, up, nudges>>

\* The loop condition and _ensure_planning, or _finish_partial: the rounds, the model
\* calls or the steps of the budget are spent.
LoopHead(e) ==
  /\ run[e].pc = "head" /\ Fenced(e)
  /\ \/ /\ rounds[e] < MaxRounds
        /\ status' = [status EXCEPT ![e] = "planning"]
        /\ Goto(e, At("plan"))
     \/ /\ rounds[e] > 0
        /\ Goto(e, Walking(CASE status[e] = "queued" ->
                                  <<"planning", "executing", "observing", "partial">>
                             [] status[e] = "planning" ->
                                  <<"executing", "observing", "partial">>
                             [] status[e] = "observing" -> <<"partial">>, "return"))
        /\ UNCHANGED status
  /\ UNCHANGED <<execVars, rounds, authVars, userVars, schedVars, up, nudges>>

\* The subagents, the critic or the planner raise.
PlanRaises(e) ==
  /\ run[e].pc = "plan"
  /\ Goto(e, At("fail"))
  /\ UNCHANGED <<execVars, status, rounds, authVars, userVars, schedVars, up, nudges>>

\* A mutant: partial straight from planning.
PlanExhaustedAtOnce(e) ==
  /\ run[e].pc = "plan" /\ Fenced(e)
  /\ Goto(e, Walking(<<"partial">>, "return"))
  /\ UNCHANGED <<execVars, status, rounds, authVars, userVars, schedVars, up, nudges>>

\* The model calls of the budget are spent within a round.
PlanExhausted(e) ==
  /\ run[e].pc = "plan" /\ Fenced(e)
  /\ Goto(e, Walking(<<"executing", "observing", "partial">>, "return"))
  /\ UNCHANGED <<execVars, status, rounds, authVars, userVars, schedVars, up, nudges>>

\* A decision is persisted as a plan step: respond or complete, ask the user (or the
\* critic does not allow the writes), hand off (an error here), invoke tools beyond the
\* step budget.
PlanDecides(e) ==
  /\ run[e].pc = "plan" /\ Fenced(e)
  /\ rounds' = [rounds EXCEPT ![e] = @ + 1]
  /\ \/ \E s \in {"completed", "partial"} :
          Goto(e, Walking(<<"executing", "observing", s>>, "return"))
     \/ Goto(e, Walking(<<"needs_input">>, "return"))
     \/ Goto(e, At("fail"))
  /\ UNCHANGED <<execVars, status, authVars, userVars, schedVars, up, nudges>>

\* The planner proposes writes K, each authorized by the grant as it is now, or only
\* reads (K = {}).
PlanInvokes(e, K) ==
  /\ run[e].pc = "plan" /\ Fenced(e)
  /\ K # {} => ~GrantInactive(grantOf[e]) /\ K \subseteq covers[grantOf[e]]
  /\ rounds' = [rounds EXCEPT ![e] = @ + 1]
  /\ Goto(e, IF K = {} THEN Walking(<<"executing">>, "reads")
             ELSE [At("fresh") EXCEPT !.todo = K])
  /\ UNCHANGED <<execVars, status, authVars, userVars, schedVars, up, nudges>>

\* _pause_if_external_write_unauthorized: a pending approval, then needs_input; any
\* other refusal of the grant is an error.
PlanUnauthorized(e, k) ==
  /\ run[e].pc = "plan" /\ Fenced(e)
  /\ \/ /\ GrantInactive(grantOf[e])
        /\ appr' = [appr EXCEPT ![e] = IF @ = NoKey THEN k ELSE @]
        /\ Goto(e, Walking(<<"needs_input">>, "return"))
     \/ /\ ~GrantInactive(grantOf[e]) /\ k \notin covers[grantOf[e]]
        /\ Goto(e, At("fail"))
        /\ UNCHANGED appr
  /\ UNCHANGED <<execVars, status, rounds, authVars, ops, schedVars, up, nudges>>

\* RelevantContextGuard.check answers before writes: fresh, changed (replan), or behind.
Freshness(e) ==
  /\ run[e].pc = "fresh" /\ Fenced(e)
  /\ \/ Goto(e, [run[e] EXCEPT !.pc = "walk", !.walk = <<"executing">>, !.next = "reads"])
     \/ Goto(e, Walking(<<"executing", "observing", "planning">>, "head"))
     \/ Goto(e, Walking(<<"needs_input">>, "return"))
  /\ UNCHANGED <<execVars, status, rounds, authVars, userVars, schedVars, up, nudges>>

\* _transition, once per status of a walk.
Walk(e) ==
  LET r == run[e]
      s == Head(r.walk)
  IN /\ r.pc = "walk" /\ Fenced(e)
     /\ status' = [status EXCEPT ![e] = s]
     /\ IF Len(r.walk) = 1 /\ r.next = "return" THEN Return(e, s)
        ELSE /\ Goto(e, [r EXCEPT !.walk = Tail(@),
                                  !.pc = IF Len(r.walk) = 1 THEN r.next ELSE @])
             /\ UNCHANGED schedVars
     /\ UNCHANGED <<execVars, rounds, authVars, userVars, up, nudges>>

-----------------------------------------------------------------------------
(* _execute_tool_batch *)

\* authorize_tool: the confirmed scope still is what the grant and the candidate say.
Confirmed(e, k) ==
  /\ grantOf[e] # NoGrant /\ covers[grantOf[e]] = Scope[e]
  /\ k \in Scope[e] /\ k \notin stale[e]

\* The reads of the batch, gathered, are answered.
ReadsDone(e) ==
  /\ run[e].pc = "reads" /\ Fenced(e)
  /\ Goto(e, [run[e] EXCEPT !.pc = "tool"])
  /\ UNCHANGED <<execVars, status, rounds, authVars, userVars, schedVars, up, nudges>>

Seen(e, k, result) ==
  Goto(e, [run[e] EXCEPT !.pc = "tool", !.todo = @ \ {k}, !.seen = @ \cup {result}])

\* A mutant: authorized when the batch was prepared, not fenced with the request.
ToolRequestUnfenced(e, k) ==
  /\ run[e].pc = "tool" /\ k \in run[e].todo
  /\ X!Request(e, k)
  /\ Goto(e, [run[e] EXCEPT !.pc = "await", !.todo = @ \ {k}])
  /\ UNCHANGED <<status, rounds, authVars, userVars, schedVars, up, nudges>>

\* The transaction of ToolExecutor.execute for the next write of the batch.
ToolRequest(e, k) ==
  /\ run[e].pc = "tool" /\ k \in run[e].todo /\ Fenced(e)
  /\ Confirmed(e, k)
  /\ X!Request(e, k)
  /\ Goto(e, [run[e] EXCEPT !.pc = "await", !.todo = @ \ {k}])
  /\ UNCHANGED <<status, rounds, authVars, userVars, schedVars, up, nudges>>

\* MeetingPluginDenied for this write only: scope, grant or candidate changed.
ToolDenied(e, k) ==
  /\ run[e].pc = "tool" /\ k \in run[e].todo /\ Fenced(e)
  /\ ~Confirmed(e, k)
  /\ Goto(e, At("isolate"))
  /\ UNCHANGED <<execVars, status, rounds, authVars, userVars, schedVars, up, nudges>>

\* A ToolCall of this grant is replayed, or the claim belongs to another call: its
\* stored result is returned and the transaction rolled back; different arguments
\* raise an idempotency conflict.
ToolStored(e, k) ==
  LET g == grantOf[e] IN
  /\ run[e].pc = "tool" /\ k \in run[e].todo /\ Fenced(e)
  /\ Confirmed(e, k)
  /\ call[g][k] # "none" \/ (X!Authorized(g, k) /\ claim[k] # "none")
  /\ \/ Seen(e, k, Stored(call[holder[k]][k]))
     \/ Goto(e, At("fail"))
  /\ UNCHANGED <<execVars, status, rounds, authVars, userVars, schedVars, up, nudges>>

\* The grant ran out between the plan and the call: GrantAuthorizationError.
ToolUnauthorized(e, k) ==
  LET g == grantOf[e] IN
  /\ run[e].pc = "tool" /\ k \in run[e].todo /\ Fenced(e)
  /\ Confirmed(e, k)
  /\ call[g][k] = "none" /\ ~X!Authorized(g, k)
  /\ Goto(e, At("fail"))
  /\ UNCHANGED <<execVars, status, rounds, authVars, userVars, schedVars, up, nudges>>

\* The adapter's awaits; its answer continues the batch.
ToolAwaits(e) ==
  \E g \in Grants, k \in Keys :
    /\ run[e].pc = "await" /\ GrantExec[g] = e
    /\ \/ (X!SearchMiss(g, k) \/ X!SendCreate(g, k)) /\ UNCHANGED run
       \/ /\ X!ReturnsRefused(g, k) \/ X!ReturnsReused(g, k) \/ X!ReturnsCreated(g, k)
          /\ Seen(e, k, "settled")
       \/ X!ReturnsUnknown(g, k) /\ Seen(e, k, "unknown")
    /\ UNCHANGED <<status, rounds, authVars, userVars, schedVars, up, nudges>>

\* The batch is done: reconcile, wait or observe.
BatchEnds(e) ==
  LET r == run[e] IN
  /\ r.pc = "tool" /\ r.todo = {} /\ Fenced(e)
  /\ \/ /\ "unknown" \in r.seen
        /\ status' = [status EXCEPT ![e] = "reconciling"]
        /\ Goto(e, At("resume")) /\ UNCHANGED schedVars
     \/ /\ "unknown" \notin r.seen /\ "pending" \in r.seen
        /\ status' = [status EXCEPT ![e] = "waiting_external"]
        /\ Return(e, "waiting_external")
     \/ /\ r.seen \cap {"unknown", "pending"} = {}
        /\ status' = [status EXCEPT ![e] = "observing"]
        /\ Goto(e, At("head")) /\ UNCHANGED schedVars
  /\ UNCHANGED <<execVars, rounds, authVars, userVars, up, nudges>>

-----------------------------------------------------------------------------
(* _resume_external and reconcile_read_only *)

\* A mutant: an interrupted ToolCall is dropped, to be requested anew.
InterruptForgets(e) ==
  /\ call' = [g \in Grants |-> [k \in Keys |->
       IF GrantExec[g] = e /\ call[g][k] = "requesting" THEN "none" ELSE call[g][k]]]
  /\ UNCHANGED <<grantOf, gstat, lapsed, covers, used, claim, holder, free, step,
                 expected, wire, issues>>

\* requesting ToolCalls of e that nobody serves become unknown.
InterruptCalls(e) ==
  IF \E g \in Grants, k \in Keys : GrantExec[g] = e /\ call[g][k] = "requesting"
  THEN X!Interrupt(e) ELSE UNCHANGED execVars

Reconciling(keys) == [At("reconcile") EXCEPT !.pend = keys]

ResumeExternal(e) ==
  /\ run[e].pc = "resume"
  /\ InterruptCalls(e)
  /\ IF Pending(e) = {} THEN Goto(e, Walking(<<"observing", "planning">>, "head"))
     ELSE IF status[e] = "waiting_external"
     THEN Goto(e, [Walking(<<"reconciling">>, "reconcile") EXCEPT !.pend = Pending(e)])
     ELSE Goto(e, Reconciling(Pending(e)))
  /\ UNCHANGED <<status, rounds, authVars, userVars, schedVars, up, nudges>>

\* One attempt for the ToolCall at hand, or for the next one.
Attempt(e, k) ==
  LET r == run[e] IN
  /\ r.pc \in {"reconcile", "read_only"}
  /\ k \in r.pend /\ (r.cur = NoKey \/ r.cur = k)
  /\ X!BeginReconcile(holder[k], k)
  /\ Goto(e, [r EXCEPT !.pc = "probe", !.next = r.pc, !.cur = k, !.tries = @ + 1])
  /\ UNCHANGED <<status, rounds, authVars, userVars, schedVars, up, nudges>>

\* Every ToolCall is resolved: back to planning, unless the user cancelled meanwhile.
ReconcileEnds(e) ==
  /\ run[e].pc = "resolved"
  /\ IF status[e] = "reconciling"
     THEN Goto(e, Walking(<<"observing", "planning">>, "head")) /\ UNCHANGED schedVars
     ELSE Return(e, status[e])
  /\ UNCHANGED <<execVars, status, rounds, authVars, userVars, up, nudges>>

\* The answer of a reconciliation attempt: the next ToolCall, the next attempt after a
\* delay, or needs_input after the last one.  The read-only pass tries each call once.
Answered(e, k, known) ==
  LET r == run[e]
      left == IF known \/ r.next = "read_only" THEN r.pend \ {k} ELSE r.pend
      cont == [At(r.next) EXCEPT !.pend = left, !.cur = IF k \in left THEN k ELSE NoKey,
                                 !.tries = IF k \in left THEN r.tries ELSE 0]
  IN IF left = {} /\ r.next = "read_only" THEN Return(e, status[e])
     ELSE /\ UNCHANGED schedVars
          /\ Goto(e, IF left = {} THEN At("resolved")
                     ELSE IF k \in left /\ r.tries = MaxTries
                     THEN Walking(<<"needs_input">>, "return") ELSE cont)

Probe(e) ==
  LET k == run[e].cur IN
  /\ run[e].pc = "probe"
  /\ \/ X!ReconcileFound(holder[k], k) /\ Answered(e, k, TRUE)
     \/ X!ReconcileUnknown(holder[k], k) /\ Answered(e, k, FALSE)
  /\ UNCHANGED <<status, rounds, authVars, userVars, up, nudges>>

\* The transaction of reconcile_read_only: isolate first, then only reconcile.
Isolate(e) ==
  LET s == IF status[e] \in Parked THEN status[e] ELSE "needs_input" IN
  /\ run[e].pc = "isolate"
  /\ status' = [status EXCEPT ![e] = s]
  /\ InterruptCalls(e)
  /\ IF Pending(e) = {} THEN Return(e, s)
     ELSE Goto(e, [At("read_only") EXCEPT !.pend = Pending(e)]) /\ UNCHANGED schedVars
  /\ UNCHANGED <<rounds, authVars, userVars, up, nudges>>

\* _fail: failed without a fence, unless the user cancelled meanwhile.
Fail(e) ==
  LET s == IF status[e] \in Terminal THEN status[e] ELSE "failed" IN
  /\ run[e].pc = "fail"
  /\ status' = [status EXCEPT ![e] = s]
  /\ Return(e, s)
  /\ UNCHANGED <<execVars, rounds, authVars, userVars, up, nudges>>

RunnerStep(e) ==
  /\ MayStep(e)
  /\ \/ Denied(e) \/ Check(e) \/ LoopHead(e)
     \/ PlanRaises(e) \/ PlanExhausted(e) \/ PlanDecides(e)
     \/ \E K \in SUBSET Keys : PlanInvokes(e, K)
     \/ \E k \in Keys : PlanUnauthorized(e, k)
     \/ Freshness(e) \/ Walk(e) \/ ReadsDone(e)
     \/ \E k \in Keys : \/ ToolRequest(e, k) \/ ToolDenied(e, k) \/ ToolStored(e, k)
                        \/ ToolUnauthorized(e, k)
     \/ ToolAwaits(e) \/ BatchEnds(e)
     \/ ResumeExternal(e) \/ ReconcileEnds(e) \/ Probe(e)
     \/ \E k \in Keys : Attempt(e, k)
     \/ Isolate(e) \/ Fail(e)

-----------------------------------------------------------------------------
(* The user and the operation worker *)

Serving == up = "up" /\ Yielded

\* _refresh_running: a running operation whose execution is parked is closed.
Refreshed(o) ==
  [e \in Execs |-> [kind \in OpKinds |->
     IF o[e][kind] = "running" /\ status[e] \in Parked THEN "closed" ELSE o[e][kind]]]

\* MeetingPluginOperations.admit for meeting.execute
Admit(e) ==
  /\ Serving /\ status[e] = "none" /\ host
  /\ X!IssueGrant(e, AdmitGrant[e], Scope[e])
  /\ status' = [status EXCEPT ![e] = "queued"]
  /\ ops' = [ops EXCEPT ![e]["execute"] = "accepted"]
  /\ UNCHANGED <<rounds, run, authVars, appr, schedVars, up, nudges>>

\* ... for meeting.input
Input(e) ==
  /\ Serving /\ host /\ nudges < MaxNudges
  /\ status[e] = "needs_input" /\ ~GrantInactive(grantOf[e])
  /\ status' = [status EXCEPT ![e] = "planning"]
  /\ ops' = [ops EXCEPT ![e]["input"] = "accepted"]
  /\ nudges' = nudges + 1
  /\ UNCHANGED <<execVars, rounds, run, authVars, appr, schedVars, up>>

\* ... and for meeting.cancel
Cancel(e) ==
  /\ Serving /\ status[e] \notin Terminal \cup {"none"}
  /\ status' = [status EXCEPT ![e] = "cancelled"]
  /\ UNCHANGED <<execVars, rounds, run, authVars, userVars, schedVars, up, nudges>>

\* MeetingPluginOperationWorker._claim and _dispatch.  An execution that lost authority
\* lost it for one of its operations, not necessarily for the input's.
Dispatch(e, kind) ==
  /\ Serving /\ ops[e][kind] = "accepted"
  /\ host /\ (e \in auth \/ kind = "input")
  /\ ops' = Refreshed([ops EXCEPT ![e][kind] = "running"])
  /\ IF kind = "input" THEN Resume(e) ELSE Enqueue(e)
  /\ UNCHANGED <<execVars, runVars, authVars, appr, delayed, up, nudges>>

\* A mutant: only the operation is closed.
DispatchDeniedOnly(e, kind) ==
  /\ Serving /\ ops[e][kind] = "accepted"
  /\ ~host \/ e \notin auth
  /\ ops' = [Refreshed(ops) EXCEPT ![e][kind] = "closed"]
  /\ UNCHANGED <<execVars, runVars, authVars, appr, schedVars, up, nudges>>

\* _loop catches MeetingPluginDenied: the operation and its execution are cancelled.
DispatchDenied(e, kind) ==
  /\ Serving /\ ops[e][kind] = "accepted"
  /\ ~host \/ e \notin auth
  /\ ops' = [Refreshed(ops) EXCEPT ![e][kind] = "closed"]
  /\ status' = [status EXCEPT ![e] = IF @ \in Terminal THEN @ ELSE "cancelled"]
  /\ UNCHANGED <<execVars, rounds, run, authVars, appr, schedVars, up, nudges>>

\* _claim finds no accepted operation.
PollIdle ==
  /\ Serving /\ \A e \in Execs, kind \in OpKinds : ops[e][kind] # "accepted"
  /\ Refreshed(ops) # ops
  /\ ops' = Refreshed(ops)
  /\ UNCHANGED <<execVars, runVars, authVars, appr, schedVars, up, nudges>>

\* approve_assistant_action: a grant for the one candidate, then resume.
Approve(e, g) ==
  /\ Serving /\ appr[e] # NoKey /\ status[e] = "needs_input"
  /\ g # AdmitGrant[e]
  /\ X!IssueGrant(e, g, {appr[e]})
  /\ status' = [status EXCEPT ![e] = "planning"]
  /\ appr' = [appr EXCEPT ![e] = NoKey]
  /\ Resume(e)
  /\ UNCHANGED <<rounds, run, authVars, ops, delayed, up, nudges>>

\* reject_assistant_action
Reject(e) ==
  /\ Serving /\ appr[e] # NoKey /\ status[e] \notin Terminal
  /\ status' = [status EXCEPT ![e] = "cancelled"]
  /\ appr' = [appr EXCEPT ![e] = NoKey]
  /\ UNCHANGED <<execVars, rounds, run, authVars, ops, schedVars, up, nudges>>

UserStep(e) ==
  \/ Admit(e) \/ Input(e) \/ Cancel(e) \/ Reject(e)
  \/ \E g \in Grants : Approve(e, g)

WorkerStep(e) ==
  \E kind \in OpKinds : Dispatch(e, kind) \/ DispatchDenied(e, kind)

-----------------------------------------------------------------------------
(* What disturbs a run, and startup recovery *)

Nudge(kind) == kind \in Disturbances /\ nudges < MaxNudges /\ nudges' = nudges + 1

\* A permission, the authority epoch, an intent or a capability grant is withdrawn.
Revoke(e) ==
  /\ Nudge("revoke") /\ e \in auth /\ status[e] # "none"
  /\ auth' = auth \ {e}
  /\ UNCHANGED <<execVars, runVars, host, stale, userVars, schedVars, up>>

\* The plugin runtime leaves or regains ready.
HostDown ==
  /\ Nudge("host") /\ host /\ host' = FALSE
  /\ UNCHANGED <<execVars, runVars, auth, stale, userVars, schedVars, up>>

HostUp ==
  /\ ~host /\ host' = TRUE
  /\ UNCHANGED <<execVars, runVars, auth, stale, userVars, schedVars, up, nudges>>

\* The meeting state projector revises a confirmed candidate or its evidence.
Revise(e, k) ==
  /\ Nudge("revise") /\ status[e] # "none" /\ k \in Scope[e] \ stale[e]
  /\ stale' = [stale EXCEPT ![e] = @ \cup {k}]
  /\ UNCHANGED <<execVars, runVars, auth, host, userVars, schedVars, up>>

\* A grant expires; the admission grant and the intent share their expiry.
Expire(g) ==
  /\ Nudge("expire")
  /\ X!Expire(g)
  /\ auth' = IF g = AdmitGrant[GrantExec[g]] THEN auth \ {GrantExec[g]} ELSE auth
  /\ UNCHANGED <<runVars, host, stale, userVars, schedVars, up>>

Crash ==
  /\ up # "down" /\ Nudge("crash")
  /\ up' = "down"
  /\ IF \E e \in Execs : ~X!Quiet(e) THEN X!Crash ELSE UNCHANGED execVars
  /\ run' = [e \in Execs |-> Off]
  /\ sched' = [e \in Execs |-> "none"]
  /\ delayed' = {} /\ parked' = {}
  /\ UNCHANGED <<status, rounds, authVars, userVars>>

\* A mutant: executions interrupted while executing are not listed.
RecoverWaiting ==
  LET live == {e \in Execs : status[e] \in Active \ {"executing"}}
      again == {e \in live : Fenced(e) /\
                  status[e] \in {"queued", "waiting_external", "reconciling"}}
  IN /\ up = "down" /\ up' = "recovering"
     /\ IF \E e \in again : Pending(e) # {} THEN X!Recover(again) ELSE UNCHANGED execVars
     /\ status' = [e \in Execs |->
          IF e \in again /\ Pending(e) # {} THEN "reconciling" ELSE status[e]]
     /\ sched' = [e \in Execs |->
          IF e \in again THEN "queued" ELSE IF e \in live THEN "recovering" ELSE "none"]
     /\ UNCHANGED <<rounds, run, authVars, userVars, delayed, parked, nudges>>

\* The transaction of recover_startup: queued and externally waiting executions are
\* readmitted, the others isolated by the recovery coroutine.
Recover ==
  LET live == {e \in Execs : status[e] \in Active}
      again == {e \in live : Fenced(e) /\
                  status[e] \in {"queued", "waiting_external", "reconciling"}}
  IN /\ up = "down" /\ up' = "recovering"
     /\ IF \E e \in again : Pending(e) # {} THEN X!Recover(again) ELSE UNCHANGED execVars
     /\ status' = [e \in Execs |->
          IF e \in again /\ Pending(e) # {} THEN "reconciling" ELSE status[e]]
     /\ sched' = [e \in Execs |->
          IF e \in again THEN "queued" ELSE IF e \in live THEN "recovering" ELSE "none"]
     /\ UNCHANGED <<rounds, run, authVars, userVars, delayed, parked, nudges>>

\* recover_startup isolates one execution after the other.
RecoverNext(e) ==
  /\ up = "recovering" /\ sched[e] = "recovering" /\ \A f \in Execs : run[f] = Off
  /\ Goto(e, At("isolate"))
  /\ UNCHANGED <<execVars, status, rounds, authVars, userVars, schedVars, up, nudges>>

\* MeetingPluginOperationWorker._recover, then requests are served.
Serve ==
  /\ up = "recovering" /\ Yielded /\ \A e \in Execs : sched[e] # "recovering"
  /\ up' = "up"
  /\ ops' = [e \in Execs |-> [kind \in OpKinds |->
       IF Refreshed(ops)[e][kind] = "running" THEN "accepted" ELSE Refreshed(ops)[e][kind]]]
  /\ UNCHANGED <<execVars, runVars, authVars, appr, schedVars, nudges>>

World ==
  /\ \E g \in Grants, k \in Keys : X!Apply(g, k) \/ X!Lose(g, k)
  /\ UNCHANGED <<runVars, authVars, userVars, schedVars, up, nudges>>

-----------------------------------------------------------------------------
Init ==
  /\ X!Init
  /\ status = [e \in Execs |-> "none"]
  /\ rounds = [e \in Execs |-> 0]
  /\ auth = Execs /\ host = TRUE
  /\ stale = [e \in Execs |-> {}]
  /\ appr = [e \in Execs |-> NoKey]
  /\ ops = [e \in Execs |-> [kind \in OpKinds |-> "closed"]]
  /\ run = [e \in Execs |-> Off]
  /\ sched = [e \in Execs |-> "none"]
  /\ delayed = {} /\ parked = {}
  /\ up = "up" /\ nudges = 0

Next ==
  \/ \E e \in Execs : RunnerStep(e) \/ Start(e) \/ ResumeLater(e)
  \/ \E e \in Execs : UserStep(e) \/ WorkerStep(e) \/ RecoverNext(e)
  \/ \E e \in Execs : Revoke(e) \/ (\E k \in Keys : Revise(e, k))
  \/ \E g \in Grants : Expire(g)
  \/ HostDown \/ HostUp \/ PollIdle \/ Crash \/ Recover \/ Serve \/ World

\* Every await of the runner has a timeout, the event loop runs what is ready, the
\* operation worker polls, and a process that died is started again.
Fairness ==
  /\ \A e \in Execs : /\ WF_vars(RunnerStep(e)) /\ WF_vars(Start(e))
                      /\ WF_vars(ResumeLater(e)) /\ WF_vars(WorkerStep(e))
                      /\ WF_vars(RecoverNext(e))
  /\ WF_vars(Recover) /\ WF_vars(Serve)

Spec == Init /\ [][Next]_vars
FairSpec == Spec /\ Fairness

-----------------------------------------------------------------------------
\* Rows, coroutines and the scheduler have their types, and no execution plans more
\* rounds than its budget, over all its runs, inputs and restarts.
TypeOK ==
  /\ X!TypeOK
  /\ status \in [Execs -> Statuses]
  /\ rounds \in [Execs -> 0..MaxRounds]
  /\ auth \subseteq Execs /\ host \in BOOLEAN
  /\ stale \in [Execs -> SUBSET Keys]
  /\ appr \in [Execs -> Keys \cup {NoKey}]
  /\ ops \in [Execs -> [OpKinds -> {"closed", "accepted", "running"}]]
  /\ \A e \in Execs : run[e].todo \subseteq Keys /\ run[e].tries \in 0..MaxTries
  /\ sched \in [Execs -> {"none", "queued", "active", "recovering"}]
  /\ delayed \subseteq Execs /\ parked \subseteq Execs
  /\ up \in {"up", "down", "recovering"} /\ nudges \in 0..MaxNudges

\* Whatever was planned earlier, an external write is requested only while its
\* execution is executing with its authority intact, under an unexpired grant, for a
\* candidate that still is what the user confirmed (the fence and authorize_tool run
\* in the transaction of the request).
NothingStartsUnfenced ==
  [][\A g \in Grants, k \in Keys :
       call[g][k] = "none" /\ call'[g][k] # "none" =>
         LET e == GrantExec[g] IN
         /\ status[e] = "executing" /\ Fenced(e) /\ g \notin lapsed
         /\ k \in Scope[e] \ stale[e]]_vars

\* state_machine.ACTION_RUN_TRANSITIONS
Transitions ==
  [none |-> {"queued"},
   queued |-> {"planning", "failed", "cancelled"},
   planning |-> {"queued", "executing", "needs_input", "failed", "cancelled"},
   executing |-> {"observing", "waiting_external", "reconciling", "failed", "cancelled"},
   observing |-> {"queued", "planning", "completed", "partial", "failed", "cancelled"},
   waiting_external |-> {"observing", "reconciling", "failed", "cancelled"},
   reconciling |-> {"observing", "needs_input", "failed", "cancelled"},
   needs_input |-> {"planning", "failed", "cancelled"},
   completed |-> {}, partial |-> {}, failed |-> {}, cancelled |-> {}]

\* No interleaving of the runner with cancels, inputs, approvals and restarts attempts a
\* transition that the state machine refuses, and a terminal status is final.  Isolation
\* and startup recovery take several legal transitions in one transaction.
LegalTransitions ==
  [][\A e \in Execs : status'[e] # status[e] =>
       \/ status'[e] \in Transitions[status[e]]
       \/ /\ run[e].pc = "isolate" /\ status[e] \notin Parked
          /\ status'[e] = "needs_input"
       \/ /\ up = "down" /\ status[e] \in {"queued", "waiting_external"}
          /\ status'[e] = "reconciling"]_vars

\* Once requests are served again, a live execution whose runner is not at work has no
\* external write in requesting: a crash, a denial or a pause always leaves an outcome
\* that reconciliation takes up (_resume_external, reconcile_read_only, recover_startup).
RequestingIsServed ==
  up = "up" => \A g \in Grants, k \in Keys :
    LET e == GrantExec[g] IN
    call[g][k] = "requesting" /\ status[e] \notin Terminal => sched[e] = "active"

\* Someone will advance e: the scheduler, a sleeping resume or the operation worker.
Scheduled(e) ==
  sched[e] # "none" \/ e \in delayed \/ \E kind \in OpKinds : ops[e][kind] = "accepted"

\* Nothing has been requested yet under the grant of an approval.
ApprovedUnused(e) ==
  /\ status[e] = "planning" /\ grantOf[e] \notin {NoGrant, AdmitGrant[e]}
  /\ \A k \in Keys : call[grantOf[e]][k] = "none"

\* An execution in an active status is on its way to a worker, unless an input was
\* dispatched or an approval given to it while it was running (enqueue,
\* _schedule_resume, recover_startup).
NeverStranded ==
  up = "up" => \A e \in Execs :
    status[e] \in Active /\ ops[e]["input"] # "running" /\ ~ApprovedUnused(e) => Scheduled(e)

\* The same without the exceptions: what resume promises of a committed input.
InputReopens ==
  up = "up" => \A e \in Execs : status[e] \in Active => Scheduled(e)

\* No external write stays in requesting once its runner is gone.
EveryRequestRecovered ==
  up = "up" => \A g \in Grants, k \in Keys :
    call[g][k] = "requesting" => sched[GrantExec[g]] = "active"

\* Whatever runners, users and restarts do, the external-write path behaves as the
\* specification of ToolExecutor, so all that is proved of it holds here.
RefinesExecutor == X!Spec

\* Every confirmed execution ends or asks the user, through denials, waits for another
\* execution's write, retries and restarts (the loops of _run, _resume_external and the
\* scheduler are bounded).
Progress ==
  \A e \in Execs :
    LET dropped == ops[e]["input"] = "running" \/ ApprovedUnused(e)
    IN status[e] \in Active /\ ~dropped ~> status[e] \in Parked \/ dropped

\* No external write is left unattended and no active execution without someone who
\* will advance it.
RunSafe == TypeOK /\ RequestingIsServed /\ NeverStranded

\* Every request of a run is fenced and every change of its status legal.
RunSteps == NothingStartsUnfenced /\ LegalTransitions

=============================================================================

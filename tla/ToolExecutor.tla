---------------------------- MODULE ToolExecutor ----------------------------
(***************************************************************************)
(* The external-write path of the assistant: ToolExecutor                  *)
(* (assistant/tools/executor.py), the ActionGrant budget and the           *)
(* ExternalActionClaim (assistant/repository.py), the task.create adapter  *)
(* (task_system/) and the task system behind it.                           *)
(*                                                                         *)
(* A ToolCall is named by the grant it was requested under and its logical *)
(* action key: the idempotency key is built from exactly these two.  A     *)
(* claim is named by its key alone.  Every action below is one database    *)
(* transaction, which runs on the event loop without an await in it, or    *)
(* one step outside the process; the awaits of the adapter are the         *)
(* boundaries between them.                                                *)
(***************************************************************************)
EXTENDS Naturals, FiniteSets

CONSTANTS
  Execs,                \* assistant executions
  Keys,                 \* logical action keys, one per candidate lineage
  Grants,               \* identities of ActionGrant rows
  GrantExec,            \* the execution each grant is created for
  NoGrant

ASSUME GrantAssumption == NoGrant \notin Grants /\ GrantExec \in [Grants -> Execs]
ASSUME KeysAssumption == IsFiniteSet(Keys)

VARIABLES
  grantOf,              \* [Execs -> Grants \cup {NoGrant}], execution.grant_id
  gstat,                \* [Grants -> GrantStatus], grant.status
  lapsed,               \* the grants whose expires_at has passed
  covers,               \* [Grants -> SUBSET Keys], grant.candidate_ids
  used,                 \* [Grants -> Nat], grant.used_side_effects
  claim,                \* [Keys -> ClaimStatus], claim.status
  holder,               \* [Keys -> Grants \cup {NoGrant}], claim.tool_call_id
  call,                 \* [Grants -> [Keys -> CallStatus]], tool_call.status
  free,                 \* [Grants -> SUBSET Keys], results that confirmed 0 effects
  step,                 \* [Grants -> [Keys -> Steps]], where the coroutine awaits
  expected,             \* [Grants -> [Keys -> ClaimStatus]], read before the await
  wire,                 \* [Grants -> [Keys -> Wire]], the create mutation
  issues                \* [Keys -> Nat], issues that carry the key

vars == <<grantOf, gstat, lapsed, covers, used, claim, holder, call, free, step,
          expected, wire, issues>>

grantVars == <<grantOf, gstat, lapsed, covers, used>>
worldVars == <<wire, issues>>

GrantStatus == {"none", "active", "consumed", "expired"}
ClaimStatus == {"none", "requesting", "unknown", "succeeded", "failed_safe"}
CallStatus == {"none", "requesting", "unknown", "reconciling", "succeeded", "failed"}
Steps == {"idle", "search", "classify", "create", "reconcile"}
Wire == {"none", "sent", "applied", "lost"}

Unresolved == {"requesting", "unknown", "reconciling"}
ExecuteSteps == {"search", "classify", "create"}

\* grant.max_side_effects: admission and approval both allow one per candidate.
Budget(g) == Cardinality(covers[g])

\* A coroutine is inside ToolExecutor.execute for a write of execution e.
Executing(e) ==
  \E g \in Grants, k \in Keys : GrantExec[g] = e /\ step[g][k] \in ExecuteSteps

Quiet(e) ==
  \A g \in Grants, k \in Keys : GrantExec[g] = e => step[g][k] = "idle"

-----------------------------------------------------------------------------
Init ==
  /\ grantOf = [e \in Execs |-> NoGrant]
  /\ gstat = [g \in Grants |-> "none"]
  /\ lapsed = {}
  /\ covers = [g \in Grants |-> {}]
  /\ used = [g \in Grants |-> 0]
  /\ claim = [k \in Keys |-> "none"]
  /\ holder = [k \in Keys |-> NoGrant]
  /\ call = [g \in Grants |-> [k \in Keys |-> "none"]]
  /\ free = [g \in Grants |-> {}]
  /\ step = [g \in Grants |-> [k \in Keys |-> "idle"]]
  /\ expected = [g \in Grants |-> [k \in Keys |-> "none"]]
  /\ wire = [g \in Grants |-> [k \in Keys |-> "none"]]
  /\ issues = [k \in Keys |-> 0]

\* create_grant: at admission of meeting.execute, or when the user approves a
\* paused write; the execution is bound to the new grant in the same transaction.
IssueGrant(e, g, C) ==
  /\ GrantExec[g] = e
  /\ gstat[g] = "none"
  /\ C # {}
  /\ ~Executing(e)
  /\ grantOf' = [grantOf EXCEPT ![e] = g]
  /\ gstat' = [gstat EXCEPT ![g] = "active"]
  /\ covers' = [covers EXCEPT ![g] = C]
  /\ UNCHANGED <<lapsed, used, claim, holder, call, free, step, expected,
                 worldVars>>

\* grants.authorize_tool_use
Authorized(g, k) ==
  /\ g # NoGrant
  /\ gstat[g] = "active" /\ g \notin lapsed
  /\ k \in covers[g]
  /\ used[g] < Budget(g)

\* repository.consume_grant
ConsumeGrant(g) ==
  /\ used' = [used EXCEPT ![g] = @ + 1]
  /\ gstat' = [gstat EXCEPT ![g] = IF used[g] + 1 = Budget(g) THEN "consumed" ELSE @]

\* repository.release_grant_side_effect
ReleaseGrant(h) ==
  /\ gstat[h] \in {"active", "consumed"} /\ used[h] > 0
  /\ used' = [used EXCEPT ![h] = @ - 1]
  /\ gstat' = [gstat EXCEPT ![h] = IF h \in lapsed THEN "expired" ELSE "active"]

\* Mutants of Request: the claim of another call is ignored; the writes of one
\* execution run side by side, as its reads do.
RequestUnclaimed(e, k) ==
  LET g == grantOf[e] IN
  /\ Authorized(g, k)
  /\ call[g][k] = "none"
  /\ ~Executing(e)
  /\ ConsumeGrant(g)
  /\ claim' = [claim EXCEPT ![k] = "requesting"]
  /\ holder' = [holder EXCEPT ![k] = g]
  /\ call' = [call EXCEPT ![g][k] = "requesting"]
  /\ step' = [step EXCEPT ![g][k] = "search"]
  /\ UNCHANGED <<grantOf, lapsed, covers, free, expected, worldVars>>

RequestGathered(e, k) ==
  LET g == grantOf[e] IN
  /\ Authorized(g, k)
  /\ call[g][k] = "none"
  /\ claim[k] = "none"
  /\ ConsumeGrant(g)
  /\ claim' = [claim EXCEPT ![k] = "requesting"]
  /\ holder' = [holder EXCEPT ![k] = g]
  /\ call' = [call EXCEPT ![g][k] = "requesting"]
  /\ step' = [step EXCEPT ![g][k] = "search"]
  /\ UNCHANGED <<grantOf, lapsed, covers, free, expected, worldVars>>

\* The transaction of ToolExecutor.execute: no ToolCall to replay, the grant
\* authorizes, the claim is not another call's; budget, claim and ToolCall are
\* written together and only then is the adapter invoked.  The runner awaits the
\* writes of an execution one after the other.
Request(e, k) ==
  LET g == grantOf[e] IN
  /\ Authorized(g, k)
  /\ call[g][k] = "none"
  /\ claim[k] = "none"
  /\ ~Executing(e)
  /\ ConsumeGrant(g)
  /\ claim' = [claim EXCEPT ![k] = "requesting"]
  /\ holder' = [holder EXCEPT ![k] = g]
  /\ call' = [call EXCEPT ![g][k] = "requesting"]
  /\ step' = [step EXCEPT ![g][k] = "search"]
  /\ UNCHANGED <<grantOf, lapsed, covers, free, expected, worldVars>>

\* execute_candidate: the search for the exact action key found nothing.
SearchMiss(g, k) ==
  /\ step[g][k] = "search"
  /\ issues[k] = 0
  /\ step' = [step EXCEPT ![g][k] = "classify"]
  /\ UNCHANGED <<grantVars, claim, holder, call, free, expected, worldVars>>

\* execute_candidate: nothing similar is to be reused, the mutation is posted.
SendCreate(g, k) ==
  /\ step[g][k] = "classify"
  /\ wire' = [wire EXCEPT ![g][k] = "sent"]
  /\ step' = [step EXCEPT ![g][k] = "create"]
  /\ UNCHANGED <<grantVars, claim, holder, call, free, expected, issues>>

\* ToolExecutor._persist_result: ToolCall, then claim by compare-and-swap on the
\* status read before the await.
PersistCall(g, k, was, callTo, claimTo) ==
  /\ claim[k] = was /\ holder[k] = g
  /\ call' = [call EXCEPT ![g][k] = callTo]
  /\ claim' = [claim EXCEPT ![k] = claimTo]
  /\ step' = [step EXCEPT ![g][k] = "idle"]
  /\ expected' = [expected EXCEPT ![g][k] = "none"]
  /\ UNCHANGED <<grantOf, lapsed, covers, holder, worldVars>>

\* A mutant: an error of the mutation itself counts as a definite refusal.
ReturnsFreeAnywhere(g, k, callTo, claimTo) ==
  /\ step[g][k] \in ExecuteSteps
  /\ ReleaseGrant(grantOf[GrantExec[g]])
  /\ free' = [free EXCEPT ![g] = @ \cup {k}]
  /\ PersistCall(g, k, "requesting", callTo, claimTo)

\* A result with confirmed_side_effects = 0 gives the slot back to the grant the
\* execution has when the answer arrives.
ReturnsFree(g, k, callTo, claimTo) ==
  /\ step[g][k] \in {"search", "classify"}
  /\ ReleaseGrant(grantOf[GrantExec[g]])
  /\ free' = [free EXCEPT ![g] = @ \cup {k}]
  /\ PersistCall(g, k, "requesting", callTo, claimTo)

\* TaskNeedsInput, a key or candidate mismatch, several exact matches.
ReturnsRefused(g, k) == ReturnsFree(g, k, "failed", "failed_safe")

\* An existing task is reused instead of creating one.
ReturnsReused(g, k) == ReturnsFree(g, k, "succeeded", "succeeded")

\* The created task was read back.
ReturnsCreated(g, k) ==
  /\ step[g][k] = "create" /\ wire[g][k] = "applied"
  /\ UNCHANGED <<used, gstat, free>>
  /\ PersistCall(g, k, "requesting", "succeeded", "succeeded")

\* Mutants: an unknown outcome gives its slot back; a timeout is a failure.
ReturnsUnknownReleasing(g, k) ==
  /\ step[g][k] \in ExecuteSteps
  /\ ReleaseGrant(grantOf[GrantExec[g]])
  /\ UNCHANGED free
  /\ PersistCall(g, k, "requesting", "unknown", "unknown")

ReturnsTimedOut(g, k) ==
  /\ step[g][k] \in ExecuteSteps
  /\ UNCHANGED <<used, gstat, free>>
  /\ PersistCall(g, k, "requesting", "failed", "failed_safe")

\* A timeout or any exception of the adapter, at any of its awaits.
ReturnsUnknown(g, k) ==
  /\ step[g][k] \in ExecuteSteps
  /\ UNCHANGED <<used, gstat, free>>
  /\ PersistCall(g, k, "requesting", "unknown", "unknown")

-----------------------------------------------------------------------------
\* A mutant: reconcile does not return the stored result of a settled ToolCall.
BeginReconcileSettled(g, k) ==
  /\ call[g][k] \in {"unknown", "reconciling", "succeeded"}
  /\ step[g][k] = "idle"
  /\ expected' = [expected EXCEPT ![g][k] = claim[k]]
  /\ call' = [call EXCEPT ![g][k] = "reconciling"]
  /\ step' = [step EXCEPT ![g][k] = "reconcile"]
  /\ UNCHANGED <<grantVars, claim, holder, free, worldVars>>

\* The first transaction of ToolExecutor.reconcile.
BeginReconcile(g, k) ==
  /\ call[g][k] \in {"unknown", "reconciling"}
  /\ step[g][k] = "idle"
  /\ claim[k] \in {"requesting", "unknown"}
  /\ expected' = [expected EXCEPT ![g][k] = claim[k]]
  /\ call' = [call EXCEPT ![g][k] = "reconciling"]
  /\ step' = [step EXCEPT ![g][k] = "reconcile"]
  /\ UNCHANGED <<grantVars, claim, holder, free, worldVars>>

\* Exactly one issue carries the key and its title matches.
ReconcileFound(g, k) ==
  /\ step[g][k] = "reconcile"
  /\ issues[k] = 1
  /\ UNCHANGED <<used, gstat, free>>
  /\ PersistCall(g, k, expected[g][k], "succeeded", "succeeded")

\* None, several, another title, a timeout or an exception.
ReconcileUnknown(g, k) ==
  /\ step[g][k] = "reconcile"
  /\ UNCHANGED <<used, gstat, free>>
  /\ PersistCall(g, k, expected[g][k], "unknown", "unknown")

\* A requesting ToolCall that no coroutine serves becomes unknown
\* (_resume_external, reconcile_read_only).
Interrupt(e) ==
  /\ Quiet(e)
  /\ \E g \in Grants, k \in Keys : GrantExec[g] = e /\ call[g][k] = "requesting"
  /\ call' = [g \in Grants |-> [k \in Keys |->
       IF GrantExec[g] = e /\ call[g][k] = "requesting" THEN "unknown" ELSE call[g][k]]]
  /\ UNCHANGED <<grantVars, claim, holder, free, step, expected, worldVars>>

\* The transaction of recover_startup over the executions E it readmits.
Recover(E) ==
  /\ \A e \in Execs : Quiet(e)
  /\ \E g \in Grants, k \in Keys : GrantExec[g] \in E /\ call[g][k] \in Unresolved
  /\ call' = [g \in Grants |-> [k \in Keys |->
       IF GrantExec[g] \in E /\ call[g][k] \in Unresolved THEN "reconciling"
       ELSE call[g][k]]]
  /\ UNCHANGED <<grantVars, claim, holder, free, step, expected, worldVars>>

-----------------------------------------------------------------------------
\* External: the task system applies the mutation, even after the caller gave up.
Apply(g, k) ==
  /\ wire[g][k] = "sent"
  /\ wire' = [wire EXCEPT ![g][k] = "applied"]
  /\ issues' = [issues EXCEPT ![k] = @ + 1]
  /\ UNCHANGED <<grantVars, claim, holder, call, free, step, expected>>

\* External: the mutation never arrives, or is rejected.
Lose(g, k) ==
  /\ wire[g][k] = "sent"
  /\ wire' = [wire EXCEPT ![g][k] = "lost"]
  /\ UNCHANGED <<grantVars, claim, holder, call, free, step, expected, issues>>

\* The clock passes grant.expires_at.
Expire(g) ==
  /\ gstat[g] # "none"
  /\ g \notin lapsed
  /\ lapsed' = lapsed \cup {g}
  /\ UNCHANGED <<grantOf, gstat, covers, used, claim, holder, call, free, step,
                 expected, worldVars>>

\* The process dies: coroutines are gone, rows and requests on the wire are not.
Crash ==
  /\ step # [g \in Grants |-> [k \in Keys |-> "idle"]]
  /\ step' = [g \in Grants |-> [k \in Keys |-> "idle"]]
  /\ expected' = [g \in Grants |-> [k \in Keys |-> "none"]]
  /\ UNCHANGED <<grantVars, claim, holder, call, free, worldVars>>

ExecuteStep(g, k) ==
  \/ SearchMiss(g, k) \/ SendCreate(g, k)
  \/ ReturnsRefused(g, k) \/ ReturnsReused(g, k)
  \/ ReturnsCreated(g, k) \/ ReturnsUnknown(g, k)

ReconcileStep(g, k) ==
  BeginReconcile(g, k) \/ ReconcileFound(g, k) \/ ReconcileUnknown(g, k)

Next ==
  \/ \E e \in Execs, g \in Grants, C \in SUBSET Keys : IssueGrant(e, g, C)
  \/ \E e \in Execs, k \in Keys : Request(e, k)
  \/ \E g \in Grants, k \in Keys : ExecuteStep(g, k)
  \/ \E g \in Grants, k \in Keys : ReconcileStep(g, k)
  \/ \E e \in Execs : Interrupt(e)
  \/ \E E \in SUBSET Execs : Recover(E)
  \/ \E g \in Grants, k \in Keys : Apply(g, k) \/ Lose(g, k)
  \/ \E g \in Grants : Expire(g)
  \/ Crash

Spec == Init /\ [][Next]_vars

-----------------------------------------------------------------------------
\* The rows, coroutine positions and external state have their types.
TypeOK ==
  /\ grantOf \in [Execs -> Grants \cup {NoGrant}]
  /\ gstat \in [Grants -> GrantStatus]
  /\ lapsed \subseteq Grants
  /\ covers \in [Grants -> SUBSET Keys]
  /\ used \in [Grants -> Nat]
  /\ claim \in [Keys -> ClaimStatus]
  /\ holder \in [Keys -> Grants \cup {NoGrant}]
  /\ call \in [Grants -> [Keys -> CallStatus]]
  /\ free \in [Grants -> SUBSET Keys]
  /\ step \in [Grants -> [Keys -> Steps]]
  /\ expected \in [Grants -> [Keys -> ClaimStatus]]
  /\ wire \in [Grants -> [Keys -> Wire]]
  /\ issues \in [Keys -> Nat]

\* However many executions, grants, crashes and late answers a key meets, at most
\* one create mutation is ever posted for it and at most one issue carries it
\* (the claim row of ToolExecutor.execute, committed before the adapter runs).
OneIssue ==
  \A k \in Keys :
    /\ issues[k] <= 1
    /\ \A g, h \in Grants : wire[g][k] # "none" /\ wire[h][k] # "none" => g = h

\* A grant's budget bounds the mutations posted under it: every posted mutation
\* keeps its slot, answered or not, and the slots never exceed the confirmed
\* candidates (consume_grant and release_grant_side_effect around the await).
BudgetRespected ==
  \A g \in Grants :
    /\ Cardinality({k \in Keys : wire[g][k] # "none"}) <= used[g]
    /\ used[g] <= Budget(g)

\* The durable claim never misleads: failed_safe means no mutation was or will be
\* posted, succeeded with a side effect means its one issue exists
\* (_persist_result and the adapter's classification of outcomes).
ClaimTellsTruth ==
  \A k \in Keys : claim[k] # "none" =>
    /\ claim[k] = "failed_safe" => wire[holder[k]][k] = "none"
    /\ claim[k] = "succeeded" /\ k \notin free[holder[k]] => issues[k] = 1

\* No answer is lost to a failed compare-and-swap or a refused release: whenever a
\* coroutine awaits the adapter, _persist_result will find the claim as it was read,
\* still held by this ToolCall, and the grant able to take the slot back.
PersistNeverBlocked ==
  \A g \in Grants, k \in Keys :
    /\ step[g][k] \in ExecuteSteps =>
         /\ claim[k] = "requesting" /\ holder[k] = g
         /\ grantOf[GrantExec[g]] = g
         /\ gstat[g] \in {"active", "consumed"} /\ used[g] > 0
    /\ step[g][k] = "reconcile" => claim[k] = expected[g][k] /\ holder[k] = g

\* Once a claim is settled nothing about the key changes any more: not the claim,
\* not its ToolCall, not the number of issues (the terminal checks of execute,
\* reconcile and _persist_result).
SettledForever ==
  [][\A k \in Keys : claim[k] \in {"succeeded", "failed_safe"} =>
       /\ claim'[k] = claim[k] /\ holder'[k] = holder[k] /\ issues'[k] = issues[k]
       /\ call'[holder[k]][k] = call[holder[k]][k]]_vars

\* The claim and the task system, seen together, are the one-shot action promised
\* by OneShotAction.
PhaseOf(c) ==
  CASE c = "none" -> "idle"
    [] c \in {"requesting", "unknown"} -> "open"
    [] c = "succeeded" -> "confirmed"
    [] c = "failed_safe" -> "refused"

Promise == INSTANCE OneShotAction
  WITH phase <- [k \in Keys |-> PhaseOf(claim[k])], made <- issues

\* Every behaviour of the executor, its coroutines, crashes and late mutations
\* implements OneShotAction.
KeepsPromise == Promise!Spec

=============================================================================

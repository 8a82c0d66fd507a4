----------------------------- MODULE Deliberation -----------------------------
(***************************************************************************)
(* One Action Run's planning rounds: the read-only subagent branches with  *)
(* their durable rows, the critic that joins them, and the planner, all    *)
(* paid for out of one budget of model calls.  The runner counts in memory *)
(* while it runs, and counts again from the rows when it is resumed after  *)
(* the user's input or approval.                                           *)
(***************************************************************************)
EXTENDS Naturals, Sequences, FiniteSets, SequencesExt

CONSTANTS
  Roles,      \* SUBAGENT_ROLES, as configured
  PerBranch,  \* max_model_calls_per_branch
  CallBudget, \* max_model_calls
  RoundBudget,\* max_planning_rounds
  MaxPauses   \* bound: times the user answers

ASSUME DeliberationAssumption ==
  /\ CallBudget \in Nat /\ PerBranch \in Nat /\ RoundBudget \in Nat
  /\ Roles \in Seq(Range(Roles)) /\ \A k, n \in DOMAIN Roles : Roles[k] = Roles[n] => k = n

VARIABLES
  branches,   \* assistant_subagent_runs: [role, round, status, calls, blocks]
  dpc,        \* "planning", "branching", "deciding", "paused", "ended"
  allotted,   \* the model calls each row may make in this round
  counted,    \* progress.model_calls
  planned,    \* the plan steps' model_call_count, summed
  planSteps,  \* plan steps stored: the rounds so far
  seen,       \* kinds of observation the run has: "user", "search"
  writable,   \* CriticReview.external_writes_allowed
  written,    \* external writes the run went on to make
  spent,      \* history: model calls really made
  unrecorded, \* history: calls of plans that were never stored as a step
  pauses

deliberationVars == <<branches, dpc, allotted, counted, planned, planSteps, seen, writable, written, spent,
                      unrecorded, pauses>>

DeliberationInit ==
  /\ branches = <<>> /\ dpc = "planning" /\ allotted = <<>> /\ counted = 0 /\ planned = 0 /\ planSteps = 0
  /\ seen = {} /\ writable = FALSE /\ written = FALSE /\ spent = 0 /\ unrecorded = 0 /\ pauses = 0

\* The latest row of a role, 0 without one.
Latest(rows, role) ==
  LET own == {i \in DOMAIN rows : rows[i].role = role}
  IN IF own = {} THEN 0 ELSE CHOOSE i \in own : \A j \in own : j <= i

HadRefresh(role) == \E i \in DOMAIN branches : branches[i].role = role /\ branches[i].round > 1

\* _ensure_branches: one branch for a role, and one refresh after new observations.
Refreshes(role) ==
  /\ planSteps > 0 /\ ~HadRefresh(role)
  /\ \/ /\ "user" \in seen
        /\ branches[Latest(branches, role)].status # "completed" \/ branches[Latest(branches, role)].blocks
     \/ role = "linear_research" /\ "search" \in seen

NewRow(role) ==
  [role |-> role, round |-> planSteps + 1, status |-> "queued", calls |-> 0, blocks |-> FALSE]

\* The rows of the round.
Ensured ==
  LET upTo[n \in 0..Len(Roles)] ==
        IF n = 0 THEN branches
        ELSE IF Latest(branches, Roles[n]) = 0 \/ Refreshes(Roles[n])
             THEN Append(upTo[n - 1], NewRow(Roles[n])) ELSE upTo[n - 1]
  IN upTo[Len(Roles)]

\* run_for_execution: what a branch gets of the remaining calls, when others wait after it.
Share(have, waiting) ==
  LET fair == IF have > waiting + 1 THEN have - waiting ELSE 1
  IN IF have <= 0 THEN 0 ELSE IF fair < PerBranch THEN fair ELSE PerBranch

\* The calls that remain after the runnable branches of the first n roles got theirs.
Remaining(rows) ==
  LET runnable == {k \in DOMAIN Roles : rows[Latest(rows, Roles[k])].status = "queued"}
      left[n \in 0..Len(Roles)] ==
        IF n = 0 THEN CallBudget - counted
        ELSE left[n - 1] - IF n \in runnable
                           THEN Share(left[n - 1], Cardinality({k \in runnable : k > n})) ELSE 0
  IN left

Allot(rows, i) ==
  LET k == CHOOSE n \in DOMAIN Roles : Roles[n] = rows[i].role
  IN IF Latest(rows, rows[i].role) = i THEN Remaining(rows)[k - 1] - Remaining(rows)[k] ELSE 0

BeginRound ==
  /\ dpc = "planning" /\ planSteps < RoundBudget /\ counted < CallBudget
  /\ LET rows == Ensured
     IN /\ allotted' = [i \in DOMAIN rows |-> Allot(rows, i)]
        /\ branches' = [i \in DOMAIN rows |->
                          IF Allot(rows, i) > 0 THEN [rows[i] EXCEPT !.status = "running"] ELSE rows[i]]
  /\ dpc' = "branching"
  /\ UNCHANGED <<counted, planned, planSteps, seen, writable, written, spent, unrecorded, pauses>>

\* _run_branch: an analysis is stored; one that fails is tried again while calls are left.
BranchAnalyzes(i) ==
  /\ dpc = "branching" /\ branches[i].status = "running"
  /\ spent' = spent + 1
  /\ \/ \E blocks \in BOOLEAN :
          branches' = [branches EXCEPT ![i].status = "completed", ![i].calls = @ + 1, ![i].blocks = blocks]
     \/ branches' = [branches EXCEPT ![i].calls = @ + 1,
                        ![i].status = IF branches[i].calls + 1 = allotted[i] THEN "failed" ELSE "running"]
  /\ UNCHANGED <<dpc, allotted, counted, planned, planSteps, seen, writable, written, unrecorded, pauses>>

RowCalls(rows) ==
  LET upTo[n \in 0..Len(rows)] == IF n = 0 THEN 0 ELSE upTo[n - 1] + rows[n].calls
  IN upTo[Len(rows)]

\* EvidenceBoundCritic.review over the latest branch of every role.
CriticAllows ==
  \A k \in DOMAIN Roles :
    LET i == Latest(branches, Roles[k])
    IN i # 0 /\ branches[i].status = "completed" /\ ~branches[i].blocks

\* All branches are back: the new calls are counted, and without any left the run is partial.
JoinBranches ==
  /\ dpc = "branching" /\ \A i \in DOMAIN branches : branches[i].status # "running"
  /\ counted' = counted + RowCalls([i \in DOMAIN branches |->
                   IF allotted[i] > 0 THEN branches[i] ELSE [branches[i] EXCEPT !.calls = 0]])
  /\ writable' = CriticAllows
  /\ dpc' = IF counted' >= CallBudget THEN "ended" ELSE "deciding"
  /\ UNCHANGED <<branches, allotted, planned, planSteps, seen, written, spent, unrecorded, pauses>>

\* BoundedPlanner.decide: a second call repairs an answer that does not parse.
Plans(calls) ==
  /\ dpc = "deciding" /\ (calls = 1 \/ CallBudget - counted >= 2)
  /\ spent' = spent + calls /\ counted' = counted + calls

\* _persist_plan_step
StorePlan(calls) == planned' = planned + calls /\ planSteps' = planSteps + 1 /\ UNCHANGED unrecorded

\* A decision with read tools, whose observations join the next round.
PlanReads(calls, search) ==
  /\ Plans(calls) /\ StorePlan(calls)
  /\ seen' = IF search THEN seen \cup {"search"} ELSE seen
  /\ dpc' = "planning"
  /\ UNCHANGED <<branches, allotted, writable, written, pauses>>

\* A decision with an external write that its grant covers, once the critic allows writes;
\* until then the user is asked about the evidence.
PlanWrites(calls) ==
  /\ Plans(calls) /\ StorePlan(calls)
  /\ written' = (written \/ writable)
  /\ dpc' = IF writable THEN "planning" ELSE "paused"
  /\ UNCHANGED <<branches, allotted, seen, writable, pauses>>

\* _pause_if_external_write_unauthorized: the run waits for an approval, before the plan is stored.
PlanNeedsApproval(calls) ==
  /\ Plans(calls) /\ writable
  /\ unrecorded' = unrecorded + calls
  /\ dpc' = "paused"
  /\ UNCHANGED <<branches, allotted, planned, planSteps, seen, writable, written, pauses>>

PlanAsks(calls) ==
  /\ Plans(calls) /\ StorePlan(calls)
  /\ dpc' = "paused"
  /\ UNCHANGED <<branches, allotted, seen, writable, written, pauses>>

\* respond or complete; an answer that cannot be repaired ends the run as failed.
PlanEnds(calls) ==
  /\ Plans(calls)
  /\ StorePlan(calls) \/ UNCHANGED <<planned, planSteps, unrecorded>>
  /\ dpc' = "ended"
  /\ UNCHANGED <<branches, allotted, seen, writable, written, pauses>>

BudgetSpent ==
  /\ dpc = "planning" /\ (planSteps >= RoundBudget \/ counted >= CallBudget)
  /\ dpc' = "ended"
  /\ UNCHANGED <<branches, allotted, counted, planned, planSteps, seen, writable, written, spent,
                 unrecorded, pauses>>

\* Mutant: a resumed run counts the plans and forgets the branches.
ResumeRunForgets(input) ==
  /\ dpc = "paused" /\ pauses < MaxPauses
  /\ pauses' = pauses + 1
  /\ seen' = IF input THEN seen \cup {"user"} ELSE seen
  /\ counted' = planned
  /\ dpc' = "planning"
  /\ UNCHANGED <<branches, allotted, planned, planSteps, writable, written, spent, unrecorded>>

\* The user's input is stored, or the approval given; _load_progress counts from the rows.
ResumeRun(input) ==
  /\ dpc = "paused" /\ pauses < MaxPauses
  /\ pauses' = pauses + 1
  /\ seen' = IF input THEN seen \cup {"user"} ELSE seen
  /\ counted' = planned + RowCalls(branches)
  /\ dpc' = "planning"
  /\ UNCHANGED <<branches, allotted, planned, planSteps, writable, written, spent, unrecorded>>

DeliberationNext ==
  \/ BeginRound \/ JoinBranches \/ BudgetSpent
  \/ (\E i \in DOMAIN branches : BranchAnalyzes(i))
  \/ (\E calls \in 1..2 : PlanWrites(calls) \/ PlanNeedsApproval(calls) \/ PlanAsks(calls) \/ PlanEnds(calls))
  \/ (\E calls \in 1..2, search \in BOOLEAN : PlanReads(calls, search))
  \/ (\E input \in BOOLEAN : ResumeRun(input))

\* The runner goes on until it waits for the user; nobody has to answer.
DeliberationFairness ==
  WF_deliberationVars(DeliberationNext /\ dpc # "paused")

DeliberationSpec ==
  DeliberationInit /\ [][DeliberationNext]_deliberationVars /\ DeliberationFairness

-----------------------------------------------------------------------------
\* The runner's count is the truth about what it has stored: over any number of rounds,
\* retries, repairs and resumptions, the calls really made are those it counts, but for
\* the plans that were given up to an approval, and those it counts are in the budget.
CallsAccounted ==
  /\ counted <= CallBudget
  /\ spent <= CallBudget + unrecorded
  /\ \A i, j \in DOMAIN branches :
       (i # j /\ branches[i].role = branches[j].role /\ branches[i].round > 1) => branches[j].round = 1

\* The budget of model calls is a bound on the calls a run makes.
SpentWithinBudget == spent <= CallBudget

=============================================================================

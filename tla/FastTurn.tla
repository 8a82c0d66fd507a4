------------------------------- MODULE FastTurn -------------------------------
(***************************************************************************)
(* A question to the assistant: the Fast Turn that answers it within its   *)
(* rounds and its deadline, the meeting.ask operation (or the request of   *)
(* the older endpoint) it runs for, and the handoff that turns it into a   *)
(* queued Action Run in one transaction.  The runner's code runs on the    *)
(* event loop, so the deadline and other tasks come in only where it waits *)
(* for the model or a tool; the process may die between any two commits.   *)
(***************************************************************************)
EXTENDS Naturals

CONSTANTS
  TurnRounds,      \* max_model_rounds
  MaxTurnCrashes   \* bound: deaths of the API process

VARIABLES
  turn,       \* assistant_executions.status of the Fast Turn
  owner,      \* "operation", or "request" of the older endpoint; "none" before
  allow,      \* allow_handoff; the operation worker always sets it
  operation,  \* meeting_plugin_operations.status
  granted,    \* the authority of the operation still holds
  tpc,        \* the runner: "off", "begun", "framed", "planning", "tools", "late", "enqueue"
  tround,     \* planning rounds begun
  target,     \* the Action Run made by the handoff: "none", "queued"
  handedOver,  \* the Action Run scheduler has it
  accepting,  \* the scheduler is up and not stopping
  turnCrashes

turnVars == <<turn, owner, allow, operation, granted, tpc, tround, target, handedOver, accepting, turnCrashes>>

TurnEnded == {"completed", "handed_off", "failed", "cancelled"}

OperationEnded == {"completed", "failed", "cancelled"}

TurnInit ==
  /\ turn = "none" /\ owner = "none" /\ operation = "none" /\ allow = FALSE
  /\ granted = TRUE /\ tpc = "off" /\ tround = 0 /\ target = "none"
  /\ handedOver = FALSE /\ accepting = TRUE /\ turnCrashes = 0

\* The question is admitted, with its execution, or comes in as a request of its own.
AskQuestion(o, handoff) ==
  /\ turn = "none" /\ granted /\ accepting /\ (o = "operation" => handoff)
  /\ turn' = "received" /\ owner' = o /\ allow' = handoff
  /\ operation' = IF o = "operation" THEN "accepted" ELSE "none"
  /\ UNCHANGED <<granted, tpc, tround, target, handedOver, accepting, turnCrashes>>

\* check_db: an ended execution has no authority, an unowned Fast Turn may read.
Authorized == turn \notin TurnEnded /\ (owner = "operation" => granted)

\* _refresh_running, which _claim and _dispatch call.
OperationAfter(t) == IF t = "failed" THEN "failed" ELSE "completed"

\* The runner returns: the worker looks at the execution.
Returned(t) ==
  /\ turn' = t /\ tpc' = "off"
  /\ operation' = IF operation = "running" /\ t \in TurnEnded THEN OperationAfter(t) ELSE operation

\* _claim and _dispatch with its require_authority; or the request comes in.  A turn that
\* is no longer "received" is not run again.
BeginTurn ==
  /\ accepting /\ tpc = "off"
  /\ IF owner = "operation"
     THEN /\ operation = "accepted"
          /\ CASE ~granted -> /\ operation' = "cancelled" /\ UNCHANGED tpc
                              /\ turn' = IF turn \in TurnEnded THEN turn ELSE "cancelled"
               [] granted /\ turn # "received" -> operation' = OperationAfter(turn) /\ UNCHANGED <<tpc, turn>>
               [] OTHER -> operation' = "running" /\ tpc' = "begun" /\ UNCHANGED turn
     ELSE turn = "received" /\ tpc' = "begun" /\ UNCHANGED <<operation, turn>>
  /\ UNCHANGED <<owner, allow, granted, tround, target, handedOver, accepting, turnCrashes>>

\* The two commits of _build_context.
Contextualize ==
  /\ tpc = "begun"
  /\ IF Authorized THEN turn' = "contextualizing" /\ tpc' = "framed" /\ UNCHANGED operation
     ELSE Returned(IF turn \in TurnEnded THEN turn ELSE "failed")
  /\ UNCHANGED <<owner, allow, granted, tround, target, handedOver, accepting, turnCrashes>>

FreezeContext ==
  /\ tpc = "framed"
  /\ turn' = "deciding" /\ tpc' = "planning" /\ tround' = 1
  /\ UNCHANGED <<owner, allow, operation, granted, target, handedOver, accepting, turnCrashes>>

\* _fail_execution: what has ended is left as it is.
FailTurn == Returned(IF turn \in TurnEnded THEN turn ELSE "failed")

\* The planner answers; _check_authority comes first.
Respond ==
  /\ tpc = "planning"
  /\ IF Authorized THEN Returned("completed") ELSE FailTurn
  /\ UNCHANGED <<owner, allow, granted, tround, target, handedOver, accepting, turnCrashes>>

PlannerFails ==
  /\ tpc \in {"planning", "tools"}
  /\ FailTurn
  /\ UNCHANGED <<owner, allow, granted, tround, target, handedOver, accepting, turnCrashes>>

\* An invoke_tools decision; _transition_to_executing_reads.
InvokeTools ==
  /\ tpc = "planning"
  /\ IF Authorized
     THEN turn' = "executing_reads" /\ tpc' = "tools" /\ UNCHANGED operation
     ELSE FailTurn
  /\ UNCHANGED <<owner, allow, granted, tround, target, handedOver, accepting, turnCrashes>>

\* Mutant: the handoff does not look at the execution it comes from.
HandoffUnfenced ==
  /\ turn' = IF turn \in TurnEnded THEN turn ELSE "handed_off"
  /\ target' = "queued" /\ tpc' = "enqueue" /\ UNCHANGED operation

\* HandoffService.handoff: the fence, then the source's end and its target in one commit.
Handoff ==
  IF Authorized
  THEN turn' = "handed_off" /\ target' = "queued" /\ tpc' = "enqueue" /\ UNCHANGED operation
  ELSE UNCHANGED target /\ IF tpc = "late"
       THEN \* raised in the timeout's handler: no clause of _run catches it, the worker's _fail does
            /\ tpc' = "off" /\ operation' = IF operation = "running" THEN "cancelled" ELSE operation
            /\ turn' = IF turn \in TurnEnded \/ owner = "request" THEN turn ELSE "cancelled"
       ELSE FailTurn

HandOff ==
  /\ tpc = "planning"
  /\ IF allow THEN Handoff ELSE FailTurn /\ UNCHANGED target
  /\ UNCHANGED <<owner, allow, granted, tround, handedOver, accepting, turnCrashes>>

\* The tools have run: another round, or the budget of rounds is spent.
ToolsDone ==
  /\ tpc = "tools"
  /\ IF tround < TurnRounds
     THEN tpc' = "planning" /\ tround' = tround + 1 /\ UNCHANGED <<turn, operation, target>>
     ELSE /\ IF allow THEN Handoff ELSE FailTurn /\ UNCHANGED target
          /\ UNCHANGED tround
  /\ UNCHANGED <<owner, allow, granted, handedOver, accepting, turnCrashes>>

\* The deadline passes while the turn waits for the model or a tool.
TurnTimesOut ==
  /\ tpc \in {"planning", "tools"}
  /\ IF allow THEN tpc' = "late" /\ UNCHANGED <<turn, operation>> ELSE FailTurn
  /\ UNCHANGED <<owner, allow, granted, tround, target, handedOver, accepting, turnCrashes>>

HandoffAfterTimeout ==
  /\ tpc = "late"
  /\ Handoff
  /\ UNCHANGED <<owner, allow, granted, tround, handedOver, accepting, turnCrashes>>

\* _enqueue_after_commit; a scheduler that is stopping refuses, which changes no row.
EnqueueAfterCommit ==
  /\ tpc = "enqueue"
  /\ handedOver' = (handedOver \/ accepting)
  /\ Returned(turn)
  /\ UNCHANGED <<owner, allow, granted, tround, target, accepting, turnCrashes>>

\* meeting.cancel of the user, and the loss of the authority: disable, revoke, expiry.
CancelTurn ==
  /\ owner = "operation" /\ turn \notin TurnEnded \cup {"none"} /\ granted
  /\ turn' = "cancelled"
  /\ UNCHANGED <<owner, allow, operation, granted, tpc, tround, target, handedOver, accepting, turnCrashes>>

LoseAuthority ==
  /\ granted
  /\ granted' = FALSE
  /\ UNCHANGED <<turn, owner, allow, operation, tpc, tround, target, handedOver, accepting, turnCrashes>>

\* _claim of an idle worker: an execution ended by somebody else.
RefreshRunning ==
  /\ operation = "running" /\ tpc = "off" /\ turn \in TurnEnded
  /\ operation' = OperationAfter(turn)
  /\ UNCHANGED <<turn, owner, allow, granted, tpc, tround, target, handedOver, accepting, turnCrashes>>

SchedulerStops ==
  /\ accepting /\ turnCrashes < MaxTurnCrashes
  /\ accepting' = FALSE
  /\ UNCHANGED <<turn, owner, allow, operation, granted, tpc, tround, target, handedOver, turnCrashes>>

TurnCrash ==
  /\ turnCrashes < MaxTurnCrashes /\ tpc # "down"
  /\ turnCrashes' = turnCrashes + 1
  /\ tpc' = "down" /\ accepting' = FALSE /\ handedOver' = FALSE
  /\ UNCHANGED <<turn, owner, allow, operation, granted, tround, target>>

\* Mutant: running operations are left to whoever ran them.
TurnRestartIdle ==
  /\ tpc = "down"
  /\ tpc' = "off" /\ accepting' = TRUE
  /\ handedOver' = (target = "queued" /\ owner = "operation" /\ granted)
  /\ UNCHANGED <<turn, owner, allow, operation, granted, tround, target, turnCrashes>>

\* recover_startup schedules the queued Action Runs with authority; then the worker's _recover:
\* a model may have answered before the death, so a turn that had begun is not run again.
TurnRestart ==
  /\ tpc = "down"
  /\ tpc' = "off" /\ accepting' = TRUE
  /\ handedOver' = (target = "queued" /\ owner = "operation" /\ granted)
  /\ IF operation = "running"
     THEN CASE turn \in TurnEnded -> operation' = OperationAfter(turn) /\ UNCHANGED turn
            [] turn = "received"  -> operation' = "accepted" /\ UNCHANGED turn
            [] OTHER              -> operation' = "failed" /\ turn' = "failed"
     ELSE UNCHANGED <<operation, turn>>
  /\ UNCHANGED <<owner, allow, granted, tround, target, turnCrashes>>

TurnStep ==
  \/ BeginTurn \/ Contextualize \/ FreezeContext \/ HandoffAfterTimeout
  \/ EnqueueAfterCommit \/ RefreshRunning \/ TurnRestart
  \/ Respond \/ PlannerFails \/ InvokeTools \/ HandOff \/ ToolsDone \/ TurnTimesOut

TurnNext ==
  \/ TurnStep
  \/ \E o \in {"operation", "request"}, handoff \in BOOLEAN : AskQuestion(o, handoff)
  \/ CancelTurn \/ LoseAuthority \/ SchedulerStops \/ TurnCrash

\* The loop runs its tasks, the deadline passes, and a process that died is started again;
\* a scheduler that stops is followed by the end of its process.
TurnFairness == WF_turnVars(TurnStep) /\ WF_turnVars(~accepting /\ TurnCrash)

TurnSpec == TurnInit /\ [][TurnNext]_turnVars /\ TurnFairness

-----------------------------------------------------------------------------
\* A turn and its Action Run change hands in one transaction: there is a target exactly
\* when the turn was handed off, it is never made twice, and no turn that answered,
\* failed or was cancelled, or whose authority was gone before, has left one behind.
HandoffAtomic == (target # "none") <=> (turn = "handed_off")

\* A question asked through a plugin ends: the operation and its turn, through the
\* deadline, lost authority, cancellation and a crash at any commit.
QuestionEnds ==
  (operation \in {"accepted", "running"}) ~> (operation \in OperationEnded /\ turn \in TurnEnded)


=============================================================================

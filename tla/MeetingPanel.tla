------------------------------ MODULE MeetingPanel ------------------------------
(***************************************************************************)
(* MeetingSession of the meeting assistant plugin: a panel that shows what *)
(* the Host knows of a meeting.  Caption events are only hints; a worker   *)
(* refreshes the panel, and polls while an operation the user confirmed,   *)
(* or an execution it led to, is under way.  A refresh is a series of Host *)
(* reads with the Host moving on between them.  The pointers are saved at  *)
(* the Host, from which the panel goes on after the container has died.    *)
(***************************************************************************)
EXTENDS Naturals

CONSTANTS
  MaxHints,        \* bound: event batches and requests for a confirmation
  MaxPanelFaults,  \* bound: capability calls that fail; below the three failed rounds that end the polling
  MaxPanelDeaths   \* bound: deaths of the container

VARIABLES
  panelOperation,  \* the user's operation at the Host: "none", "accepted", "completed"
  execution,  \* the execution it led to: "none", "running", "ended"
  shown,      \* the Host's view: [version, content]; refused after a version it had already
  stored,     \* the saved pointers: [view, tracked]
  panel,      \* MeetingSession: "new", "open", "dead", "closed"
  memory,     \* its fields: [view, tracked, snapshot, published, error, notice, failures, dirty]
  worker,     \* _run: "none", "sleeping", "wants" the lock, "refreshing"
  command,    \* "none", "admitting", "saving", "wants" the lock for its refresh, "refreshing"
  round,      \* the refresh under the lock: [pc, snapshot, tracked]
  left        \* what is left of the bounds: [hints, faults, deaths]

panelVars == <<panelOperation, execution, shown, stored, panel, memory, worker, command, round, left>>

NoView == <<"nothing", FALSE, FALSE, FALSE>>

Fresh == [view |-> stored.view, tracked |-> stored.tracked, snapshot |-> "none", published |-> NoView,
          error |-> FALSE, notice |-> FALSE, failures |-> 0, dirty |-> FALSE]

NoRound == [pc |-> "none", snapshot |-> "none", tracked |-> FALSE]

PanelInit ==
  /\ panelOperation = "none" /\ execution = "none"
  /\ shown = [version |-> 0, content |-> NoView, refused |-> FALSE]
  /\ stored = [view |-> 0, tracked |-> FALSE]
  /\ panel = "new" /\ memory = Fresh
  /\ worker = "none" /\ command = "none" /\ round = NoRound
  /\ left = [hints |-> MaxHints, faults |-> MaxPanelFaults, deaths |-> MaxPanelDeaths]

\* The session's lock is held by a refresh or by a command.
Free == round.pc = "none" /\ command \notin {"admitting", "saving"}

\* _poll_needed
PollNeeded(m) == m.failures < 3 /\ (m.tracked \/ m.snapshot = "running")

\* build_meeting_view: what the user sees of it.
Content(m) == <<m.snapshot, m.tracked, m.error, m.notice>>

Fault == left.faults > 0 /\ left' = [left EXCEPT !.faults = @ - 1]

-----------------------------------------------------------------------------
\* _schedule: the worker is started unless it runs.
Scheduled(m) == worker' = IF worker = "none" /\ (m.dirty \/ PollNeeded(m)) THEN "wants" ELSE worker

\* open: the pointers are restored, and a first refresh begins.
OpenPanel ==
  /\ panel \in {"new", "dead"}
  /\ panel' = "open" /\ memory' = Fresh
  /\ worker' = "none" /\ command' = "refreshing"
  /\ round' = [NoRound EXCEPT !.pc = "reading"]
  /\ UNCHANGED <<panelOperation, execution, shown, stored, left>>

\* event_batch acknowledges at once and schedules a refresh.
EventHint ==
  /\ panel = "open" /\ left.hints > 0
  /\ left' = [left EXCEPT !.hints = @ - 1]
  /\ memory' = [memory EXCEPT !.dirty = TRUE]
  /\ Scheduled(memory')
  /\ UNCHANGED <<panelOperation, execution, shown, stored, panel, command, round>>

\* The two seconds are over, or the worker has just been started; then it has the lock.
WakePoll ==
  /\ worker = "sleeping"
  /\ worker' = "wants"
  /\ UNCHANGED <<panelOperation, execution, shown, stored, panel, memory, command, round, left>>

BeginRefresh ==
  /\ Free
  /\ \/ /\ worker = "wants" /\ worker' = "refreshing"
        /\ memory' = [memory EXCEPT !.dirty = FALSE] /\ UNCHANGED command
     \/ command = "wants" /\ command' = "refreshing" /\ UNCHANGED <<worker, memory>>
  /\ round' = [NoRound EXCEPT !.pc = "reading"]
  /\ UNCHANGED <<panelOperation, execution, shown, stored, panel, left>>

-----------------------------------------------------------------------------
\* meeting.state.query and meeting.operation.query (MeetingPluginReadService).
ReadSession == execution

OperationPending == panelOperation = "accepted"

\* _read_snapshot
ReadSnapshot ==
  /\ round.pc = "reading"
  /\ round' = [round EXCEPT !.pc = "asking", !.snapshot = ReadSession]
  /\ UNCHANGED <<panelOperation, execution, shown, stored, panel, memory, worker, command, left>>

\* Every answer has come: the last successful reading is replaced.
Taken(snapshot, tracked) ==
  /\ memory' = [memory EXCEPT !.snapshot = snapshot, !.tracked = tracked, !.error = FALSE]
  /\ round' = [round EXCEPT !.pc = "read"]

\* Mutant: the snapshot that was read before the operation was asked about is kept.
AskOperationOnce ==
  /\ round.pc = "asking"
  /\ Taken(round.snapshot, memory.tracked /\ OperationPending)
  /\ UNCHANGED <<panelOperation, execution, shown, stored, panel, worker, command, left>>

\* The operation that is tracked: when it has completed, the snapshot is read again.
AskOperation ==
  /\ round.pc = "asking"
  /\ IF memory.tracked /\ ~OperationPending
     THEN round' = [round EXCEPT !.pc = "rereading"] /\ UNCHANGED memory
     ELSE Taken(round.snapshot, memory.tracked)
  /\ UNCHANGED <<panelOperation, execution, shown, stored, panel, worker, command, left>>

ReadAgain ==
  /\ round.pc = "rereading"
  /\ Taken(ReadSession, FALSE)
  /\ UNCHANGED <<panelOperation, execution, shown, stored, panel, worker, command, left>>

ReadFails ==
  /\ round.pc \in {"reading", "asking", "rereading"} /\ Fault
  /\ memory' = [memory EXCEPT !.failures = @ + 1, !.error = TRUE]
  /\ round' = [round EXCEPT !.pc = "unread"]
  /\ UNCHANGED <<panelOperation, execution, shown, stored, panel, worker, command>>

-----------------------------------------------------------------------------
\* _save
Saved(m) == stored' = [view |-> m.view, tracked |-> m.tracked]

\* What follows a refresh: the worker looks whether to go on, a command or open is done.
RoundEnds(m) ==
  /\ round' = NoRound /\ memory' = m
  /\ IF worker = "refreshing"
     THEN /\ worker' = IF m.dirty THEN "wants" ELSE IF PollNeeded(m) THEN "sleeping" ELSE "none"
          /\ UNCHANGED command
     ELSE command' = "none" /\ Scheduled(m)

Succeeded(m) == [m EXCEPT !.failures = IF round.pc \in {"read", "reserved"} THEN 0 ELSE @]

\* _publish of a view that has not changed saves the pointers only.
PublishSame ==
  /\ round.pc \in {"read", "unread"} /\ Content(memory) = memory.published
  /\ Saved(memory)
  /\ RoundEnds(Succeeded(memory))
  /\ UNCHANGED <<panelOperation, execution, shown, panel, left>>

\* Mutant: the version is saved only with the next change of the pointers.
ReserveNothing ==
  /\ round.pc \in {"read", "unread"} /\ Content(memory) # memory.published
  /\ memory' = [memory EXCEPT !.view = @ + 1]
  /\ UNCHANGED stored
  /\ round' = [round EXCEPT !.pc = IF @ = "read" THEN "reserved" ELSE "reserved_unread"]
  /\ UNCHANGED <<panelOperation, execution, shown, panel, worker, command, left>>

\* _publish reserves the next version first.
ReserveVersion ==
  /\ round.pc \in {"read", "unread"} /\ Content(memory) # memory.published
  /\ memory' = [memory EXCEPT !.view = @ + 1]
  /\ Saved(memory')
  /\ round' = [round EXCEPT !.pc = IF @ = "read" THEN "reserved" ELSE "reserved_unread"]
  /\ UNCHANGED <<panelOperation, execution, shown, panel, worker, command, left>>

\* ui.publish: the Host takes a version it has not seen.
PublishPanel ==
  /\ round.pc \in {"reserved", "reserved_unread"}
  /\ shown' = IF memory.view > shown.version
              THEN [version |-> memory.view, content |-> Content(memory), refused |-> FALSE]
              ELSE [shown EXCEPT !.refused = TRUE]
  /\ RoundEnds(IF memory.view > shown.version
               THEN [Succeeded(memory) EXCEPT !.published = Content(memory)]
               ELSE [memory EXCEPT !.failures = @ + 1, !.error = TRUE])
  /\ UNCHANGED <<panelOperation, execution, stored, panel, left>>

\* The save fails, which leaves the version counted, or the publication does.
PublishFails ==
  /\ round.pc \in {"read", "unread", "reserved", "reserved_unread"} /\ Fault
  /\ RoundEnds([memory EXCEPT !.failures = @ + 1, !.error = TRUE,
                 !.view = IF round.pc \in {"read", "unread"} /\ Content(memory) # memory.published
                          THEN @ + 1 ELSE @])
  /\ UNCHANGED <<panelOperation, execution, shown, stored, panel>>

-----------------------------------------------------------------------------
\* A command that publishes a notice, under the lock all the time.
NoticePublished ==
  LET noted == [memory EXCEPT !.notice = TRUE]
  IN IF Content(noted) = memory.published
     THEN memory' = noted /\ Saved(noted) /\ UNCHANGED shown
     ELSE /\ memory' = [noted EXCEPT !.view = @ + 1, !.published = Content(noted)]
          /\ Saved(memory')
          /\ shown' = [version |-> memory'.view, content |-> Content(noted), refused |-> memory'.view <= shown.version]

\* An ACTION_COMMAND only asks the user to confirm it in the Host's own page.
AskConfirmation ==
  /\ panel = "open" /\ Free /\ command = "none" /\ left.hints > 0
  /\ left' = [left EXCEPT !.hints = @ - 1]
  /\ NoticePublished
  /\ UNCHANGED <<panelOperation, execution, panel, worker, command, round>>

\* _command "apply_action": the Host admits the operation the user has confirmed.
ApplyAction ==
  /\ panel = "open" /\ Free /\ command = "none" /\ panelOperation = "none"
  /\ command' = "admitting"
  /\ UNCHANGED <<panelOperation, execution, shown, stored, panel, memory, worker, round, left>>

Admitted ==
  /\ command = "admitting"
  /\ panelOperation' = "accepted" /\ command' = "saving"
  /\ memory' = [memory EXCEPT !.tracked = TRUE, !.notice = FALSE]
  /\ UNCHANGED <<execution, shown, stored, panel, worker, round, left>>

\* No answer: it is not asked again, whatever the Host did.
AdmissionUnknown ==
  /\ command = "admitting" /\ Fault
  /\ panelOperation' \in {"none", "accepted"} /\ command' = "none"
  /\ NoticePublished
  /\ UNCHANGED <<execution, panel, worker, round>>

\* The pointer is saved; a failure of that does not undo the admission.
TrackingSaved ==
  /\ command = "saving"
  /\ \/ Saved(memory) /\ UNCHANGED left
     \/ Fault /\ UNCHANGED stored
  /\ memory' = [memory EXCEPT !.dirty = TRUE]
  /\ command' = "none" /\ Scheduled(memory')
  /\ UNCHANGED <<panelOperation, execution, shown, panel, round>>

\* The commands that refresh, select or turn a page count the failures anew.
RefreshCommand ==
  /\ panel = "open" /\ Free /\ command = "none" /\ (memory.failures > 0 \/ memory.notice)
  /\ memory' = [memory EXCEPT !.failures = 0, !.notice = FALSE]
  /\ Saved(memory) /\ command' = "wants"
  /\ UNCHANGED <<panelOperation, execution, shown, panel, worker, round, left>>

-----------------------------------------------------------------------------
\* The Host: an operation completes with its answer, or with an execution that goes on.
OperationCompletes ==
  /\ panelOperation = "accepted"
  /\ panelOperation' = "completed" /\ execution' \in {"running", "ended"}
  /\ UNCHANGED <<shown, stored, panel, memory, worker, command, round, left>>

ExecutionEnds ==
  /\ execution = "running"
  /\ execution' = "ended"
  /\ UNCHANGED <<panelOperation, shown, stored, panel, memory, worker, command, round, left>>

\* close cancels the worker and the commands; so does the end of the container.
PanelGone(how) ==
  /\ panel = "open"
  /\ panel' = how /\ worker' = "none" /\ command' = "none" /\ round' = NoRound
  /\ UNCHANGED <<panelOperation, execution, shown, stored, memory>>

PanelCloses == PanelGone("closed") /\ UNCHANGED left

PanelDies == left.deaths > 0 /\ PanelGone("dead") /\ left' = [left EXCEPT !.deaths = @ - 1]

PluginStep ==
  \/ OpenPanel \/ WakePoll \/ BeginRefresh \/ ReadSnapshot \/ AskOperation \/ ReadAgain
  \/ PublishSame \/ ReserveVersion \/ PublishPanel \/ Admitted \/ TrackingSaved

HostStep == OperationCompletes \/ ExecutionEnds

PanelNext ==
  \/ PluginStep \/ HostStep \/ EventHint \/ AskConfirmation \/ ReadFails \/ PublishFails
  \/ ApplyAction \/ AdmissionUnknown \/ RefreshCommand \/ PanelCloses \/ PanelDies

\* The container is restarted and its sessions opened again, its tasks go on, and the
\* Host's operations and executions end.
PanelFairness == WF_panelVars(PluginStep) /\ WF_panelVars(HostStep)

PanelSpec == PanelInit /\ [][PanelNext]_panelVars /\ PanelFairness

-----------------------------------------------------------------------------
\* The Host never refuses a view: wherever the container dies between the reservation of
\* a version, its publication and the answer, the next publication has a greater one.
NeverRefused == ~shown.refused

\* An operation the panel tracks, admitted now or found in the saved pointers of a dead
\* container, is followed to its end: the poller does not stop between its completion and
\* the end of the execution it led to, however the Host moves between the reads.
EndRead == (panel = "open" /\ memory.tracked) ~> (memory.snapshot = "ended" \/ panel # "open")

\* A publication that fails stops the refreshing only after three failed rounds, as the
\* comment in refresh says: the end of a tracked operation is shown.
EndShown == stored.tracked ~> (shown.content[1] = "ended" \/ panel = "closed")
=============================================================================

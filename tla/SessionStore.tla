---------------------------- MODULE SessionStore ----------------------------
(***************************************************************************)
(* The columns of a sessions row that carry its lifecycle, and what every  *)
(* operation of SessionRepository does to them.  An operation is a         *)
(* function of the row its transaction has read; those that can raise have *)
(* a predicate that says when they do not.  Three threads of control write *)
(* the row: the caption worker's event loop, the API's event loop and an   *)
(* API endpoint in the thread pool.                                        *)
(***************************************************************************)
EXTENDS Naturals

CONSTANT Kinds   \* the sessions considered: a set of [hls, translated, transport]

ASSUME KindsAssumption == Kinds \subseteq [hls : BOOLEAN, translated : BOOLEAN, transport : BOOLEAN]

VARIABLES
  row,     \* the sessions row
  slot,    \* per thread of control, the transaction between its SELECT and its UPDATE
  kind,    \* [hls, translated, transport]: what the session was created as
  track,   \* the caption input's audio track is published in the room
  fault    \* history: the source route (media input, ASR) has failed

Normal == <<"created", "starting", "running", "finalizing", "completed">>

Terminal == {"completed", "failed", "cancelled"}

SessionStatus == {Normal[i] : i \in 1..5} \cup Terminal

TranslationStatus == {"disabled", "starting", "running", "completed", "failed"}

SourceStatus == {"starting", "running", "stopping", "stopped", "failed", "lost"}

CleanupStatus == {"not_started", "in_progress", "completed", "failed"}

StopReason == {"none", "user_requested", "room_closed", "worker_cancelled"}

Row == [status : SessionStatus, error : BOOLEAN, stop : StopReason,
        translation : TranslationStatus, source : SourceStatus, cleanup : CleanupStatus]

\* create: the row of a new session.
Created(translated) ==
  [status |-> "created", error |-> FALSE, stop |-> "none",
   translation |-> IF translated THEN "starting" ELSE "disabled",
   source |-> "starting", cleanup |-> "not_started"]

\* transition_session_status: what may follow a status.
MayBecome(current, target) ==
  \/ current = target
  \/ /\ current \notin Terminal
     /\ \/ target \in {"failed", "cancelled"}
        \/ \E i \in 1..4 : Normal[i] = current /\ Normal[i + 1] = target

Transition(r, target) == [r EXCEPT !.status = target]

\* start_replay and mark_transcribing walk a new session up to running.
CanStart(r) == r.status \in {"created", "starting", "running"}

StartReplay(r) == Transition(r, "running")

MarkTranscribing(r) == Transition(r, "running")

Complete(r) == [Transition(r, "completed") EXCEPT !.error = FALSE]

Fail(r) == [Transition(r, "failed") EXCEPT !.error = TRUE, !.stop = "none"]

\* The worker's own cancellation never replaces the reason that caused it.
Cancel(r, reason) ==
  [Transition(r, "cancelled") EXCEPT
     !.error = FALSE,
     !.stop = IF @ = "none" \/ reason # "worker_cancelled" THEN reason ELSE @]

MarkTranslationStarting(r) == [r EXCEPT !.translation = "starting"]

MarkTranslationActive(r) == [r EXCEPT !.translation = "running"]

BeginTranslationFinalizing(r) ==
  [r EXCEPT !.translation = IF @ \in {"completed", "failed", "disabled"} THEN @ ELSE "running"]

CompleteTranslation(r) == [r EXCEPT !.translation = IF @ = "failed" THEN @ ELSE "completed"]

FailTranslation(r) == [r EXCEPT !.translation = IF @ = "completed" THEN @ ELSE "failed"]

\* lifecycle_handler's last branch.
MarkSourceStarting(r) == [r EXCEPT !.source = "starting", !.cleanup = "not_started"]

MarkSourceRunning(r) ==
  IF r.source = "stopped" THEN r
  ELSE [r EXCEPT !.source = "running", !.cleanup = "not_started"]

MarkSourceStopping(r) ==
  IF r.source = "stopped" THEN r
  ELSE [r EXCEPT !.source = "stopping", !.cleanup = "in_progress"]

MarkSourceStopped(r) == [r EXCEPT !.source = "stopped", !.cleanup = "completed"]

MarkSourceCleanupFailed(r) ==
  [r EXCEPT !.source = IF @ = "stopped" THEN @ ELSE "failed", !.cleanup = "failed"]

MarkSourceLost(r) == [r EXCEPT !.source = "lost", !.cleanup = "failed"]

(***************************************************************************)
(* The driver begins a transaction at the first UPDATE, so the SELECT      *)
(* before it sees the row of its moment and the UPDATE sets only the       *)
(* columns the operation changed, on whatever row is there by then.        *)
(***************************************************************************)
Merged(r, seen, want) ==
  [c \in DOMAIN r |-> IF want[c] # seen[c] THEN want[c] ELSE r[c]]

Threads == {"worker", "loop", "thread"}

NoTxn == [open |-> FALSE]

Idle(t) == ~slot[t].open

\* The SELECT and the operation; then names the step that follows the commit.
Select(t, want, then) ==
  slot' = [slot EXCEPT ![t] = [open |-> TRUE, seen |-> row, want |-> want, then |-> then]]

\* The UPDATE and its commit.
Update(t) ==
  /\ slot[t].open
  /\ row' = Merged(row, slot[t].seen, slot[t].want)
  /\ slot' = [slot EXCEPT ![t] = NoTxn]

StoreInit ==
  /\ kind \in Kinds
  /\ row = Created(kind.translated)
  /\ slot = [t \in Threads |-> NoTxn]
  /\ track = FALSE /\ fault = FALSE

=============================================================================

--------------------------- MODULE CaptionWorker ----------------------------
(***************************************************************************)
(* The caption worker's task for one audio track: consume_replay_audio     *)
(* (consume_transport_audio in the mode without a provider), the           *)
(* ASR session that is its required route, the translation session that is *)
(* its optional one, and the two runtimes that persist their lifecycles.   *)
(*                                                                         *)
(* The task, the ASR event task and the translation event task share one   *)
(* event loop: between two awaits a step is atomic, except that another    *)
(* process may write the row between its SELECT and its UPDATE.  Every     *)
(* publication to the room may raise, with the failure of the step it ends.*)
(***************************************************************************)
EXTENDS SessionStore

CONSTANTS
  MaxFinals,   \* bound: Final results of the provider
  MaxUpsets    \* bound: failures, requests from outside and deaths of a process

ASSUME WorkerAssumption == MaxFinals \in Nat /\ MaxUpsets \in Nat

VARIABLES
  wpc,       \* the step of consume_replay_audio
  wterm,     \* WorkerCaptionRuntime._terminal
  asr,       \* the ASR event task: "off", "hello" (stream started unread), "live", "dead"
  pending,   \* provider results the event task has not read
  emitted,   \* provider results so far
  route,     \* the translation session: "none", "hello" (stream started unread), "open", "closed"
  trterm,    \* WorkerTranslationRuntime._terminal
  cause,     \* why the task left its main path: "none", "error" or "cancel"
  abort,     \* the source abort request: "none", "asked" or "answered"
  upsets,    \* failures, requests and deaths so far
  died       \* history: the worker process or the API process has died

workerVars == <<wpc, wterm, asr, pending, emitted, route, trterm, cause, abort, upsets, died>>

Steps == {"waiting", "opening", "connecting", "translating", "trConnecting", "streaming", "draining",
          "finalizing", "finishing", "completing", "completed", "trFinalizing", "trFinishing",
          "failing", "degrading", "aborting", "cleaning", "done"}

WorkerTypeOK ==
  /\ wpc \in Steps /\ wterm \in BOOLEAN /\ trterm \in BOOLEAN
  /\ asr \in {"off", "hello", "live", "dead"}
  /\ pending \in 0..MaxFinals /\ emitted \in 0..MaxFinals /\ upsets \in 0..MaxUpsets /\ died \in BOOLEAN
  /\ route \in {"none", "hello", "open", "closed"} /\ cause \in {"none", "error", "cancel"}
  /\ abort \in {"none", "asked", "answered"}

\* Something goes wrong, or somebody outside asks for something.
Upset == upsets < MaxUpsets /\ upsets' = upsets + 1

\* The worker runs no other step while its transaction is open.
At(step) == wpc = step /\ Idle("worker")

Goto(step) == wpc' = step

\* A write of the task; its step ends when the row is committed.
Persist(want, then) == Select("worker", want, then) /\ UNCHANGED wpc

\* on_track_subscribed: one task per track, with fresh runtimes.
Subscribe ==
  /\ At("waiting") /\ track
  /\ Goto("opening")
  /\ UNCHANGED <<row, slot, kind, track, fault, wterm, asr, pending, emitted, route, trterm,
                 cause, abort, died>>

\* The main path raises: the except clause of consume_replay_audio follows.
Raise(why) ==
  /\ Goto("failing")
  /\ cause' = why
  /\ fault' = (fault \/ why = "error")
  /\ asr' = IF asr = "off" THEN "off" ELSE "dead"

Leave(why) ==
  /\ Raise(why)
  /\ UNCHANGED <<row, slot, kind, track, wterm, pending, emitted, route, trterm, abort, died>>

MainOnly == <<kind, track, fault, wterm, asr, pending, emitted, route, trterm, cause, abort, died>>

\* start_replay, with mark_source_running unless the API owns the source.
StartReplayStep ==
  /\ At("opening")
  /\ IF CanStart(row)
     THEN /\ Persist(IF kind.hls THEN StartReplay(row) ELSE MarkSourceRunning(StartReplay(row)),
                     IF kind.transport THEN "streaming" ELSE "connecting")
          /\ UNCHANGED <<row, MainOnly>>
     ELSE Leave("error")

\* TranscriptionSession.start, its retries included.
ConnectAsr ==
  /\ At("connecting")
  /\ asr' = "hello"
  /\ Goto(IF kind.translated THEN "translating" ELSE "streaming")
  /\ UNCHANGED <<row, slot, kind, track, fault, wterm, pending, emitted, route, trterm,
                 cause, abort, died>>

AsrConnectFails == At("connecting") /\ Leave("error")

\* WorkerTranslationRuntime.start
StartTranslation ==
  /\ At("translating")
  /\ Persist(MarkTranslationStarting(row), "trConnecting")
  /\ UNCHANGED <<row, MainOnly>>

\* Mutant: a failed translation fails the session.
DegradeSession(then) ==
  IF trterm
  THEN Goto(then) /\ UNCHANGED <<slot, trterm>>
  ELSE Persist(Fail(row), then) /\ trterm' = TRUE

\* degrade_translation: WorkerTranslationRuntime.fail, which runs once.
Degrade(then) ==
  IF trterm
  THEN Goto(then) /\ UNCHANGED <<slot, trterm>>
  ELSE Persist(FailTranslation(row), then) /\ trterm' = TRUE

\* The translation session takes audio and events.
Translating == route \in {"hello", "open"}

\* TranslationSession.start: a failure degrades the translation and nothing else.
ConnectTranslation ==
  /\ At("trConnecting")
  /\ route' = "hello" /\ Goto("streaming")
  /\ UNCHANGED <<row, slot, kind, track, fault, wterm, asr, pending, emitted, trterm, cause,
                 abort, died>>

TranslationConnectFails ==
  /\ At("trConnecting")
  /\ Degrade("streaming")
  /\ UNCHANGED route
  /\ UNCHANGED <<row, kind, track, fault, wterm, asr, pending, emitted, cause, abort, died>>

\* AudioRouter.route: the source route refuses a frame (backpressure, dead sender).
SourceRouteFails == At("streaming") /\ Leave("error")

\* AudioRouter.route: the translation route refuses a frame and is deactivated.
TranslationRouteFails ==
  /\ At("streaming") /\ Translating
  /\ route' = "closed"
  /\ Degrade("streaming")
  /\ UNCHANGED <<row, kind, track, fault, wterm, asr, pending, emitted, cause, abort, died>>

\* iter_audio_events_until_stop ends with the track.
AudioEnds ==
  /\ At("streaming") /\ ~track /\ asr # "hello"
  /\ Goto(IF kind.transport THEN "draining" ELSE "finalizing")
  /\ UNCHANGED <<row, slot, MainOnly>>

\* consume_transport_audio: the frame sink consumes what it holds before the
\* session is finalised.
DrainSink ==
  /\ At("draining")
  /\ Goto("finalizing")
  /\ UNCHANGED <<row, slot, MainOnly>>

\* TransportFrameSink: its consumer has failed.
DrainFails == At("draining") /\ Leave("error")

\* _refresh_external_terminal_state, then the write unless the session has ended.
UnlessEnded(want, allowed, then) ==
  IF wterm
  THEN Goto(then) /\ UNCHANGED <<row, slot, MainOnly>>
  ELSE IF row.status \in Terminal
  THEN /\ wterm' = TRUE /\ Goto(then)
       /\ UNCHANGED <<row, slot, kind, track, fault, asr, pending, emitted, route, trterm,
                      cause, abort, died>>
  ELSE IF allowed
  THEN Persist(want, then) /\ UNCHANGED <<row, MainOnly>>
  ELSE Leave("error")

BeginFinalizing ==
  /\ At("finalizing")
  /\ UnlessEnded(Transition(row, "finalizing"), MayBecome(row.status, "finalizing"),
                 IF kind.transport THEN "completing" ELSE "finishing")

\* Mutant: finish cancels the event task as soon as the provider has finished.
FinishAsrAtOnce ==
  /\ At("finishing") /\ asr = "live"
  /\ asr' = "off" /\ Goto("completing")
  /\ UNCHANGED <<row, slot, kind, track, fault, wterm, pending, emitted, route, trterm,
                 cause, abort, died>>

\* TranscriptionSession.finish: drain the sender, finish the provider, then
\* wait for the event task to have read everything.
FinishAsr ==
  /\ At("finishing") /\ asr = "live" /\ pending = 0
  /\ asr' = "off" /\ Goto("completing")
  /\ UNCHANGED <<row, slot, kind, track, fault, wterm, pending, emitted, route, trterm,
                 cause, abort, died>>

\* finish raises: by itself, or because the event task has died before it.
FinishFails == At("finishing") /\ asr = "live" /\ Leave("error")

\* Mutant: finish waits for the end mark of an event task that has died.
FinishAfterErrorHangs == FALSE

FinishAfterError == At("finishing") /\ asr = "dead" /\ Leave("error")

CompleteStep ==
  /\ At("completing")
  /\ UnlessEnded(Complete(row), MayBecome(row.status, "completed"), "completed")

\* complete sets _terminal before it publishes; the publication may still raise.
CompletedStep ==
  /\ At("completed")
  /\ wterm' = TRUE
  /\ Goto(IF Translating THEN "trFinalizing" ELSE "cleaning")
  /\ UNCHANGED <<row, slot, kind, track, fault, asr, pending, emitted, route, trterm,
                 cause, abort, died>>

PublicationFails ==
  /\ At("completed")
  /\ wterm' = TRUE
  /\ Raise("error")
  /\ UNCHANGED <<row, slot, kind, track, pending, emitted, route, trterm, abort, died>>

\* begin_finalizing of the translation, skipped once its runtime is terminal.
FinalizeTranslation ==
  /\ At("trFinalizing")
  /\ IF trterm
     THEN Goto("trFinishing") /\ UNCHANGED slot
     ELSE Persist(BeginTranslationFinalizing(row), "trFinishing")
  /\ UNCHANGED <<row, MainOnly>>

\* TranslationSession.finish and complete, or the failure of either.
FinishTranslation ==
  /\ At("trFinishing")
  /\ IF trterm
     THEN Goto("cleaning") /\ UNCHANGED <<slot, trterm>>
     ELSE Persist(CompleteTranslation(row), "cleaning") /\ trterm' = TRUE
  /\ route' = "closed"
  /\ UNCHANGED <<row, kind, track, fault, wterm, asr, pending, emitted, cause, abort, died>>

TranslationFinishFails ==
  /\ At("trFinishing")
  /\ Degrade("cleaning")
  /\ route' = "closed"
  /\ UNCHANGED <<row, kind, track, fault, wterm, asr, pending, emitted, cause, abort, died>>

-----------------------------------------------------------------------------
\* handle_asr_event in the ASR event task; an exception ends that task.
EventAt == Idle("worker") /\ wpc \in {"translating", "trConnecting", "streaming", "finalizing", "finishing"}

AsrOnly == <<kind, track, wpc, emitted, route, trterm, cause, abort, died>>

StreamStarted ==
  /\ EventAt /\ asr = "hello"
  /\ IF wterm
     THEN asr' = "live" /\ UNCHANGED <<slot, fault>>
     ELSE IF CanStart(row)
     THEN asr' = "live" /\ Select("worker", MarkTranscribing(row), wpc) /\ UNCHANGED fault
     ELSE asr' = "dead" /\ fault' = TRUE /\ UNCHANGED slot
  /\ UNCHANGED <<row, wterm, pending, AsrOnly>>

\* fail, called for a STREAM_ERROR: a session that has ended meanwhile makes it raise.
StreamError ==
  /\ EventAt /\ asr = "live" /\ ~wterm
  /\ fault' = TRUE /\ asr' = "dead"
  /\ IF MayBecome(row.status, "failed")
     THEN wterm' = TRUE /\ Select("worker", Fail(row), wpc)
     ELSE UNCHANGED <<wterm, slot>>
  /\ UNCHANGED <<row, pending, AsrOnly>>

ProviderEmits ==
  /\ asr \in {"hello", "live"} /\ emitted < MaxFinals
  /\ wpc \in {"translating", "trConnecting", "streaming", "finalizing", "finishing"}
  /\ pending' = pending + 1 /\ emitted' = emitted + 1
  /\ UNCHANGED <<row, slot, kind, track, fault, wpc, wterm, asr, route, trterm, cause, abort, died>>

\* A Final result: persisted and published, or dropped once the runtime is
\* terminal; a failure of either ends the event task.
FinalResult ==
  /\ EventAt /\ asr = "live" /\ pending > 0
  /\ pending' = pending - 1
  /\ UNCHANGED <<row, slot, fault, asr, wterm, AsrOnly>>

FinalFails ==
  /\ EventAt /\ asr = "live" /\ pending > 0 /\ ~wterm
  /\ pending' = pending - 1
  /\ asr' = "dead" /\ fault' = TRUE
  /\ UNCHANGED <<row, slot, wterm, AsrOnly>>

\* handle_event in the translation event task.
TranslationActive ==
  /\ Idle("worker") /\ route = "hello"
  /\ route' = "open"
  /\ IF trterm THEN UNCHANGED slot ELSE Select("worker", MarkTranslationActive(row), wpc)
  /\ UNCHANGED <<row, wpc, kind, track, fault, wterm, asr, pending, emitted, trterm, cause, abort,
                 died>>

TranslationStreamError ==
  /\ Idle("worker") /\ Translating /\ ~trterm
  /\ Select("worker", FailTranslation(row), wpc)
  /\ trterm' = TRUE
  /\ UNCHANGED <<row, wpc, kind, track, fault, wterm, asr, pending, emitted, route, cause, abort, died>>

-----------------------------------------------------------------------------
\* drain_track_tasks cancels the task at an await of its main path.
CancelTask ==
  /\ Idle("worker")
  /\ wpc \in {"connecting", "translating", "trConnecting", "streaming", "draining", "finishing",
             "trFinishing"}
  /\ Leave("cancel")

\* caption_runtime.fail or cancel; its own failure is only logged.
Report ==
  /\ At("failing")
  /\ LET target == IF cause = "cancel" THEN "cancelled" ELSE "failed"
         want == IF cause = "cancel" THEN Cancel(row, "worker_cancelled") ELSE Fail(row)
     IN IF ~wterm /\ MayBecome(row.status, target)
        THEN Persist(want, "degrading")
        ELSE Goto("degrading") /\ UNCHANGED slot
  /\ UNCHANGED <<row, MainOnly>>

\* Mutant: a failed source route leaves the translation alone.
DegradeStepSkipped ==
  /\ At("degrading")
  /\ Goto("aborting")
  /\ UNCHANGED <<slot, trterm, route>>
  /\ UNCHANGED <<row, kind, track, fault, wterm, asr, pending, emitted, cause, abort, died>>

\* The failed source route takes the translation with it; a cancelled one does not.
DegradeStep ==
  /\ At("degrading")
  /\ IF cause = "error" /\ route # "none"
     THEN Degrade("aborting") /\ route' = "closed"
     ELSE Goto("aborting") /\ UNCHANGED <<slot, trterm, route>>
  /\ UNCHANGED <<row, kind, track, fault, wterm, asr, pending, emitted, cause, abort, died>>

\* request_source_abort, for a source the API owns.
AskAbort ==
  /\ At("aborting") /\ abort = "none"
  /\ IF kind.hls THEN abort' = "asked" /\ UNCHANGED wpc ELSE Goto("cleaning") /\ UNCHANGED abort
  /\ UNCHANGED <<row, slot, kind, track, fault, wterm, asr, pending, emitted, route, trterm, cause, died>>

\* The acknowledgement, or the timeout of the request.
AbortDone ==
  /\ At("aborting") /\ abort \in {"asked", "answered"}
  /\ Goto("cleaning")
  /\ UNCHANGED <<row, slot, MainOnly>>

\* complete_source_cleanup or fail_source_cleanup, then aclose.
CleanUp(want) ==
  /\ At("cleaning")
  /\ IF kind.hls THEN Goto("done") /\ UNCHANGED slot ELSE Persist(want, "done")
  /\ route' = IF Translating THEN "closed" ELSE route
  /\ asr' = IF asr = "off" THEN "off" ELSE "dead"
  /\ UNCHANGED <<row, kind, track, fault, wterm, pending, emitted, trterm, cause, abort, died>>

WorkerCommit ==
  /\ Update("worker")
  /\ Goto(slot["worker"].then)
  /\ UNCHANGED MainOnly

\* The process dies; the job is dispatched again and joins the room anew.
WorkerCrash ==
  /\ wpc \notin {"waiting", "done"}
  /\ died' = TRUE
  /\ slot' = [slot EXCEPT !["worker"] = NoTxn]
  /\ wpc' = "waiting" /\ wterm' = FALSE /\ asr' = "off" /\ pending' = 0
  /\ route' = "none" /\ trterm' = FALSE /\ cause' = "none" /\ abort' = "none"
  /\ fault' = TRUE
  /\ UNCHANGED <<row, kind, track, emitted>>

WorkerInit ==
  /\ wpc = "waiting" /\ wterm = FALSE /\ asr = "off" /\ pending = 0 /\ emitted = 0
  /\ route = "none" /\ trterm = FALSE /\ cause = "none" /\ abort = "none"
  /\ upsets = 0 /\ died = FALSE

\* The steps the task takes when nothing goes wrong with it, or after it has.
WorkerStep ==
  \/ Subscribe \/ StartReplayStep \/ ConnectAsr \/ StartTranslation \/ ConnectTranslation
  \/ AudioEnds \/ DrainSink \/ BeginFinalizing \/ FinishAsr \/ CompleteStep \/ CompletedStep
  \/ FinalizeTranslation \/ FinishTranslation \/ StreamStarted \/ FinalResult \/ TranslationActive
  \/ FinishAfterError \/ Report \/ DegradeStep \/ AskAbort \/ AbortDone
  \/ CleanUp(MarkSourceStopped(row)) \/ WorkerCommit

WorkerFault ==
  \/ AsrConnectFails \/ TranslationConnectFails \/ SourceRouteFails \/ TranslationRouteFails
  \/ DrainFails \/ FinishFails \/ PublicationFails \/ TranslationFinishFails \/ StreamError \/ FinalFails
  \/ TranslationStreamError \/ CancelTask \/ CleanUp(MarkSourceCleanupFailed(row)) \/ WorkerCrash

=============================================================================

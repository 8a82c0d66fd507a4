---------------------------- MODULE LiveSession -----------------------------
(***************************************************************************)
(* One caption session from its creation to its end: the caption worker,   *)
(* the API's input manager and the API endpoints that end a run, three     *)
(* writers of one sessions row in two processes.                           *)
(***************************************************************************)
EXTENDS CaptionWorker, HlsInput

workerPrivate == <<wpc, wterm, asr, pending, emitted, route, trterm, cause, abort, died>>

liveVars == <<row, slot, kind, track, fault, workerVars, inputVars>>

\* cancel_caption_run, and report_replay_terminal_status for a browser's replay.
CancelRun ==
  /\ Idle("thread") /\ row.status \notin Terminal
  /\ Select("thread", Cancel(row, "user_requested"), "none")
  /\ UNCHANGED <<row, kind, track, fault, workerPrivate, inputVars>>

ReplayFailed ==
  /\ Idle("thread") /\ ~kind.hls /\ MayBecome(row.status, "failed")
  /\ Select("thread", Fail(row), "none")
  /\ fault' = TRUE
  /\ UNCHANGED <<row, kind, track, workerPrivate, inputVars>>

ThreadCommit ==
  /\ Update("thread")
  /\ UNCHANGED <<kind, track, fault, workerPrivate, inputVars>>

\* The worker's request for an abort reaches abort_session_source.
AbortArrives ==
  /\ abort = "asked"
  /\ AskStop("abort")
  /\ abort' = "answered"
  /\ UNCHANGED <<wpc, wterm, asr, pending, emitted, route, trterm, cause, died>>

ApiCrash ==
  /\ ApiDies
  /\ died' = TRUE
  /\ UNCHANGED <<wpc, wterm, asr, pending, emitted, route, trterm, cause, abort>>

LiveInit == StoreInit /\ WorkerInit /\ InputInit

WorkerMoves == WorkerStep /\ UNCHANGED <<inputVars, upsets>>

InputMoves == InputStep /\ UNCHANGED <<workerPrivate, upsets>>

AbortMoves == AbortArrives /\ UNCHANGED upsets

ThreadMoves == ThreadCommit /\ UNCHANGED upsets

LiveMoves == WorkerMoves \/ InputMoves \/ AbortMoves \/ ThreadMoves

LiveNext ==
  \/ LiveMoves
  \/ (ProviderEmits /\ UNCHANGED <<inputVars, upsets>>)
  \/ (WorkerFault /\ Upset /\ UNCHANGED inputVars)
  \/ (InputFault /\ Upset /\ UNCHANGED workerPrivate)
  \/ ((CancelRun \/ ReplayFailed \/ ApiCrash) /\ Upset)

\* An await that can complete does, and every call has a timeout: the processes
\* keep taking steps.  Faults, requests and crashes owe nothing.
LiveFairness == WF_liveVars(LiveMoves)

LiveSpec == LiveInit /\ [][LiveNext]_liveVars /\ LiveFairness

-----------------------------------------------------------------------------
LiveTypeOK ==
  /\ row \in Row /\ kind \in Kinds
  /\ track \in BOOLEAN /\ fault \in BOOLEAN
  /\ WorkerTypeOK /\ InputTypeOK

\* A failed session always goes back to a failure of its source route (the media
\* input, the ASR provider, the worker): a translation that fails in any way, at any
\* moment of the transcription, degrades alone (degrade_translation).
TranslationFailsAlone == row.status = "failed" => fault

\* When a track's task has ended without being cancelled or killed, its
\* translation is not left "running": it completed, failed or never began.
TranslationSettled ==
  (wpc = "done" /\ cause # "cancel" /\ ~died) => row.translation # "running"

\* The task of a session that completed has read every result the provider
\* produced before it was finished: FinishAsr waits for the event task.
NothingLeftUnread ==
  (wpc \in {"completing", "completed", "trFinalizing", "trFinishing"}) => pending = 0

\* A source that no longer runs has an account of its cleanup: the row never stays
\* at "in_progress" or "not_started" once both its owners have finished.
SourceSettled ==
  (hpc = "gone" /\ wpc = "done" /\ stopper = NoStop /\ ~died /\ Idle("loop"))
    => row.cleanup \in {"completed", "failed"}

\* A session its worker has begun comes to a terminal status, whatever fails and
\* whoever stops it, as long as no process dies and the track does not stay in the
\* room after its source has gone.
SessionEnds ==
  (wpc = "opening") ~> (row.status \in Terminal \/ died \/ (hpc = "gone" /\ track))

\* The source is released when the row says that its cleanup completed.
CleanupTruthful == (row.cleanup = "completed" /\ kind.hls) => ~track

\* A session that has reached a terminal status keeps it.
TerminalIsFinal == [][row.status \in Terminal => row'.status = row.status]_liveVars

\* Through faults of the input, the providers and the Worker, stops by the user and
\* cancellations: a translation fails alone and is settled, no result is left unread
\* by a session that completes, and a source that has gone has an account of its cleanup.
LiveSafe ==
  /\ LiveTypeOK /\ TranslationFailsAlone /\ TranslationSettled
  /\ NothingLeftUnread /\ SourceSettled

=============================================================================

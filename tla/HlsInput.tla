------------------------------ MODULE HlsInput ------------------------------
(***************************************************************************)
(* The input of one caption session as the API process owns it: the        *)
(* HLSInputManager's task for an HLS source (start, _run, stop), the three *)
(* endpoints that stop it, and the reconciliation of a restarted API.  The *)
(* audio of any other source is a browser's track, which comes and goes.   *)
(*                                                                         *)
(* Everything here runs on the API's event loop: a step is atomic up to    *)
(* its next await, except for the SELECT/UPDATE window of its write.       *)
(***************************************************************************)
EXTENDS SessionStore

VARIABLES
  hpc,       \* the source task: "off", "launched", "connecting", "live", "failing",
             \* "cleaning", "cut" (cancelled inside its cleanup), "gone", "lost"
  stopper,   \* the call that holds the stop lock: <<who, step>>
  result     \* _completed: the remembered cleanup_status, or "none"

inputVars == <<hpc, stopper, result>>

NoStop == <<"none", "none">>

InputTypeOK ==
  /\ hpc \in {"off", "launched", "connecting", "live", "failing", "cleaning", "cut", "gone", "lost"}
  /\ stopper \in {"none", "stop", "abort", "close"} \X {"none", "locked", "waiting", "after"}
  /\ result \in {"none", "completed", "failed"}

InputInit == hpc = "off" /\ stopper = NoStop /\ result = "none"

LoopAt(step) == hpc = step /\ Idle("loop") /\ kind.hls

\* A task or a stop call of the loop writes the row and goes on with a step of its own.
RunWrites(want, pc) == Select("loop", want, <<"run", pc>>) /\ UNCHANGED hpc

StopWrites(want, step) == Select("loop", want, <<"stop", step>>) /\ UNCHANGED stopper

Registered == kind.hls /\ hpc \in {"launched", "connecting", "live", "failing", "cleaning", "cut"}

\* HLSInputManager.start
StartInput ==
  /\ LoopAt("off")
  /\ RunWrites(MarkSourceStarting(row), "launched")
  /\ UNCHANGED <<row, kind, track, fault, stopper, result>>

\* create_hls_input: the source or its token cannot be built.
StartFails ==
  /\ LoopAt("off") /\ MayBecome(row.status, "failed")
  /\ RunWrites(Fail(row), "gone")
  /\ fault' = TRUE
  /\ UNCHANGED <<row, kind, track, stopper, result>>

\* start, after its task has run to its first await.
MarkRunning ==
  /\ LoopAt("launched")
  /\ RunWrites(MarkSourceRunning(row), "connecting")
  /\ UNCHANGED <<row, kind, track, fault, stopper, result>>

\* HLSLiveSource.run: connect and publish.
Connect ==
  /\ LoopAt("connecting")
  /\ hpc' = "live" /\ track' = TRUE
  /\ UNCHANGED <<row, slot, kind, fault, stopper, result>>

\* HLSLiveSource.run raises, or the stream ends.  aclose makes it end without a report.
SourceFails ==
  /\ Idle("loop") /\ kind.hls /\ hpc \in {"connecting", "live"} /\ stopper[2] # "waiting"
  /\ hpc' = "failing" /\ fault' = TRUE
  /\ UNCHANGED <<row, slot, kind, track, stopper, result>>

SourceEnds ==
  /\ Idle("loop") /\ kind.hls
  /\ hpc = "live" \/ (hpc = "connecting" /\ stopper[2] = "waiting")
  /\ hpc' = "cleaning"
  /\ UNCHANGED <<row, slot, kind, track, fault, stopper, result>>

\* report_failure and failure_handler: once, and not while the session is being stopped.
ReportFailure ==
  /\ LoopAt("failing")
  /\ IF stopper[2] = "waiting" \/ row.status \in Terminal
     THEN hpc' = "cleaning" /\ UNCHANGED slot
     ELSE RunWrites(Fail(row), "cleaning")
  /\ UNCHANGED <<row, kind, track, fault, stopper, result>>

\* _cleanup: every step is tried; a step that raises is recorded.  The room
\* itself may have been deleted before.  Then _run's finally clause.
CleanSource ==
  /\ LoopAt("cleaning")
  /\ track' = FALSE /\ result' = "completed"
  /\ RunWrites(MarkSourceStopped(row), "gone")
  /\ UNCHANGED <<row, kind, fault, stopper>>

\* Mutant: a failed cleanup leaves the row as it is.
CleanupFailsUnmarked ==
  /\ LoopAt("cleaning")
  /\ track' \in {FALSE, track} /\ result' = "failed"
  /\ hpc' = "gone"
  /\ UNCHANGED <<row, slot, kind, fault, stopper>>

CleanupFails ==
  /\ LoopAt("cleaning")
  /\ track' \in {FALSE, track} /\ result' = "failed"
  /\ RunWrites(MarkSourceCleanupFailed(row), "gone")
  /\ UNCHANGED <<row, kind, fault, stopper>>

\* A cancellation inside _cleanup skips what is left of it and records no error.
CutCleanup ==
  /\ LoopAt("cut")
  /\ track' \in {FALSE, track}
  /\ result' = "completed"
  /\ RunWrites(MarkSourceStopped(row), "gone")
  /\ UNCHANGED <<row, kind, fault, stopper>>

-----------------------------------------------------------------------------
\* stop_hls_input, abort_session_source and close_room reach the manager; the
\* first persists the user's intent before it does.
AskStop(who) ==
  /\ Idle("loop") /\ stopper = NoStop /\ hpc # "lost"
  /\ who # "close" => kind.hls
  /\ stopper' = <<who, "locked">>
  /\ IF who = "stop" /\ row.status # "failed" /\ row.stop = "none"
     THEN Select("loop", [row EXCEPT !.stop = "user_requested"], <<"stop", "locked">>)
     ELSE UNCHANGED slot
  /\ UNCHANGED <<row, kind, track, fault, hpc, result>>

StopAt(step) == Idle("loop") /\ stopper[2] = step

\* stop: nothing registered, or the source is told to close.
EnterStop ==
  /\ StopAt("locked")
  /\ IF Registered
     THEN StopWrites(MarkSourceStopping(row), "waiting")
     ELSE stopper' = [stopper EXCEPT ![2] = "after"] /\ UNCHANGED slot
  /\ UNCHANGED <<row, kind, track, fault, hpc, result>>

\* The task has ended; a close that raised overrides what it recorded.
StopEnds ==
  /\ StopAt("waiting") /\ ~Registered
  /\ stopper' = [stopper EXCEPT ![2] = "after"]
  /\ UNCHANGED <<row, slot, kind, track, fault, hpc, result>>

CloseFails ==
  /\ StopAt("waiting") /\ ~Registered
  /\ StopWrites(MarkSourceCleanupFailed(row), "after")
  /\ result' = "failed"
  /\ UNCHANGED <<row, kind, track, fault, hpc>>

\* The task outlives the stop timeout and is cancelled where it stands.
StopTimeout ==
  /\ StopAt("waiting") /\ hpc \in {"connecting", "live", "failing", "cleaning"}
  /\ hpc' = IF hpc = "cleaning" THEN "cut" ELSE "cleaning"
  /\ UNCHANGED <<row, slot, kind, track, fault, stopper, result>>

\* HLSCleanupResult.released
Released == result # "none"

\* abort_session_source: the row after the stop.
Aborted(r) ==
  IF Released THEN MarkSourceStopped(r)
  ELSE IF r.source = "stopped" THEN r
  ELSE MarkSourceCleanupFailed(r)

FinishAbort ==
  /\ StopAt("after") /\ stopper[1] = "abort"
  /\ Select("loop", Aborted(row), <<"stop", "none">>)
  /\ UNCHANGED <<row, kind, track, fault, inputVars>>

\* close_room: the room is deleted with the tracks in it, then the run is cancelled.
FinishClose ==
  /\ StopAt("after") /\ stopper[1] = "close"
  /\ track' = FALSE
  /\ Select("loop", IF row.status \in Terminal THEN row ELSE Cancel(row, "room_closed"),
            <<"stop", "none">>)
  /\ UNCHANGED <<row, kind, fault, inputVars>>

FinishStop ==
  /\ StopAt("after") /\ stopper[1] = "stop"
  /\ stopper' = NoStop
  /\ UNCHANGED <<row, slot, kind, track, fault, hpc, result>>

LoopCommit ==
  /\ Update("loop")
  /\ LET then == slot["loop"].then
     IN IF then[1] = "run"
        THEN hpc' = then[2] /\ UNCHANGED stopper
        ELSE /\ stopper' = IF then[2] = "none" THEN NoStop ELSE [stopper EXCEPT ![2] = then[2]]
             /\ UNCHANGED hpc
  /\ UNCHANGED <<kind, track, fault, result>>

-----------------------------------------------------------------------------
\* The browser's track.
Publish ==
  /\ ~kind.hls /\ hpc = "off"
  /\ hpc' = "live" /\ track' = TRUE
  /\ UNCHANGED <<row, slot, kind, fault, stopper, result>>

Unpublish ==
  /\ ~kind.hls /\ hpc = "live"
  /\ hpc' = "gone" /\ track' = FALSE
  /\ UNCHANGED <<row, slot, kind, fault, stopper, result>>

\* The API process dies with its tasks, its requests and what it remembered.
ApiDies ==
  /\ slot' = [slot EXCEPT !["loop"] = NoTxn, !["thread"] = NoTxn]
  /\ stopper' = NoStop /\ result' = "none"
  /\ IF kind.hls /\ hpc # "off"
     THEN hpc' = "lost" /\ track' = FALSE /\ fault' = TRUE
     ELSE UNCHANGED <<hpc, track, fault>>
  /\ UNCHANGED <<row, kind>>

\* orphan_reconciler, when the API starts again.
Reconcile ==
  /\ LoopAt("lost")
  /\ IF row.status \in Terminal
     THEN hpc' = "gone" /\ UNCHANGED slot
     ELSE RunWrites(MarkSourceLost(Fail(row)), "gone")
  /\ UNCHANGED <<row, kind, track, fault, stopper, result>>

InputStep ==
  \/ StartInput \/ MarkRunning \/ Connect \/ SourceEnds \/ ReportFailure \/ CleanSource \/ CutCleanup
  \/ EnterStop \/ StopEnds \/ FinishAbort \/ FinishClose \/ FinishStop
  \/ LoopCommit \/ Publish \/ Unpublish \/ Reconcile

InputFault ==
  \/ StartFails \/ SourceFails \/ CleanupFails \/ CloseFails \/ StopTimeout
  \/ (\E who \in {"stop", "close"} : AskStop(who))

=============================================================================

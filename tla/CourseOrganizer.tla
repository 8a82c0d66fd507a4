-------------------------- MODULE CourseOrganizer --------------------------
(***************************************************************************)
(* One session of the course organizer plugin (plugin-sdk/examples/        *)
(* course-organizer), on the plugin SDK's runtime: events are merged into  *)
(* a pending window, saved and acknowledged; a background task turns the   *)
(* window into notes; the end of the session starts a job that publishes   *)
(* the final document.  The plugin's memory is lost when its process dies; *)
(* what survives is the Host's: the acknowledged cursor, the saved state,  *)
(* the shown view and the published documents.                             *)
(***************************************************************************)
EXTENDS Integers, Sequences, FiniteSets

CONSTANTS
  CourseLog,        \* the session's events, <<[kind, stream, revision], ...>>
  WindowSize,       \* pending streams that make a window ready
  WindowRetries,    \* Len(retry_delays_seconds)
  FinalRetries,     \* Len(final_retry_delays)
  Drafts,           \* contents the models may produce for a document
  MaxSaveFailures,  \* bound: refused or failed state.put calls
  MaxCourseDeaths,  \* bound: deaths of the plugin process
  MaxRetryCommands  \* bound: retry_final commands of the user

VARIABLES
  acked,     \* Host: last_acknowledged_sequence
  saved,     \* Host: the "course-session" state item
  savedAt,   \* Host: its version
  courseView,     \* Host: the published view
  published, \* Host: the content published under each job's key; 0 is none
  course,    \* "down" or "open"
  mem,       \* CourseSessionState
  base,      \* state_version
  holder,    \* who holds _lock with a state.put under way
  putting,   \* the state.put calls under way, by "locked" and "command"
  window,    \* the realtime task: pc, snapshot, attempts left
  finish,    \* the terminal task: pc, attempts left
  refused,   \* history: a session.open was refused
  saveFailures, courseDeaths, retryCommands

hostSide == <<acked, saved, savedAt, courseView, published>>
taskVars == <<holder, putting, window, finish>>
limits == <<saveFailures, courseDeaths, retryCommands>>
courseVars == <<hostSide, course, mem, base, taskVars, refused, limits>>

ASSUME CourseAssumption ==
  /\ CourseLog \in Seq({CourseLog[n] : n \in DOMAIN CourseLog})
  /\ \A n \in DOMAIN CourseLog : CourseLog[n].revision \in Nat
  /\ MaxRetryCommands \in Nat
  /\ 0 \notin Drafts

Streams == {CourseLog[n].stream : n \in DOMAIN CourseLog}

CourseJobs == 1..(MaxRetryCommands + 1)

NoPut == [expected |-> -1, value |-> <<>>]

NoWindow == [pc |-> "none", snapshot |-> [s \in Streams |-> 0], left |-> 0]

\* pending holds the revision waiting per stream, handled (history) the one
\* turned into notes, taken (history) the events merged; due is terminal_job_id.
FreshState == [seq |-> 0, pending |-> [s \in Streams |-> 0], handled |-> [s \in Streams |-> 0], taken |-> {},
          status |-> "ready", view |-> 1, due |-> FALSE, job |-> 1, final |-> "idle"]

\* What event_batch schedules once its state.put returns: nothing, the window
\* or the terminal task.
Batches == {"batch", "batch window", "batch end"}

CourseTypeOK ==
  /\ course \in {"down", "open"}
  /\ holder \in Batches \cup {"none", "window", "success", "failure"}
  /\ window.pc \in {"none", "model", "commit", "fallback", "retry", "repair"}
  /\ finish.pc \in {"none", "wait", "window", "publish", "recording", "done"}
  /\ published \in [CourseJobs -> Drafts \cup {0}]
  /\ acked \in 0..Len(CourseLog) /\ savedAt \in Nat

CourseInit ==
  /\ acked = 0 /\ saved = FreshState /\ savedAt = 0 /\ courseView = [version |-> 0, body |-> <<>>]
  /\ published = [j \in CourseJobs |-> 0]
  /\ course = "down" /\ mem = FreshState /\ base = 0
  /\ holder = "none" /\ putting = [p \in {"locked", "command"} |-> NoPut]
  /\ window = NoWindow /\ finish = [pc |-> "none", left |-> 0]
  /\ refused = FALSE /\ saveFailures = 0 /\ courseDeaths = 0 /\ retryCommands = 0

\* build_course_view, as far as two views can differ.
Body(m) == <<m.status, m.handled, m.final>>

Waiting(m) == {s \in Streams : m.pending[s] > 0}

\* window_ready over _preferred_fragments.
WindowReady(m) == Cardinality(Waiting(m)) >= WindowSize

Window(m) == [pc |-> "model", snapshot |-> m.pending, left |-> WindowRetries]

\* publish_view of the Host: a newer version, or the same view again.
Showable(m) == m.view > courseView.version \/ (m.view = courseView.version /\ Body(m) = courseView.body)

Show(m) == courseView' = IF Showable(m) THEN [version |-> m.view, body |-> Body(m)] ELSE courseView

\* _put_state: the whole state, as it is when the call is sent.
Send(who, m) == putting' = [putting EXCEPT ![who] = [expected |-> base, value |-> m]]

StoredState(who) == putting[who].expected = savedAt

\* CourseSession.open: the saved state, the durable cursor if it is ahead, a
\* view, and the job or the window that was interrupted.
Restored ==
  [saved EXCEPT !.seq = IF acked > saved.seq THEN acked ELSE saved.seq,
                !.status = IF saved.status = "processing" THEN "degraded" ELSE saved.status]

Open ==
  /\ course = "down" /\ Showable(Restored)
  /\ course' = "open" /\ Show(Restored)
  /\ IF ~Restored.due /\ WindowReady(Restored)
       THEN /\ mem' = [Restored EXCEPT !.status = "processing"]
            /\ saved' = mem' /\ savedAt' = savedAt + 1 /\ base' = savedAt + 1
            /\ window' = Window(Restored)
       ELSE /\ mem' = Restored /\ base' = savedAt /\ UNCHANGED <<saved, savedAt, window>>
  /\ finish' = IF Restored.due THEN [pc |-> "wait", left |-> FinalRetries] ELSE finish
  /\ UNCHANGED <<acked, published, holder, putting, refused, limits>>

\* The Host refuses the view of the restored state, and session.open raises.
OpenRefused ==
  /\ course = "down" /\ ~Showable(Restored)
  /\ refused' = TRUE
  /\ UNCHANGED <<hostSide, course, mem, base, taskVars, limits>>

\* _merge_pending: the newer revision of a stream waits.
MergeCourse(m, n) ==
  LET e == CourseLog[n]
  IN IF e.kind = "final" /\ e.revision > m.pending[e.stream]
       THEN [m EXCEPT !.pending[e.stream] = e.revision] ELSE m

\* One event of event_batch.
TakeEvent(m, n) ==
  IF n <= m.seq THEN m
  ELSE LET merged == MergeCourse([m EXCEPT !.seq = n, !.taken = @ \cup {n}], n)
       IN IF CourseLog[n].kind = "end" /\ ~merged.due
            THEN [merged EXCEPT !.due = TRUE, !.final = "generating"] ELSE merged

TakeBatch(through) ==
  LET taking[n \in acked..through] == IF n = acked THEN mem ELSE TakeEvent(taking[n - 1], n)
  IN taking[through]

Ends(m) == \E n \in m.taken \ mem.taken : CourseLog[n].kind = "end"

\* event_batch up to its state.put: the window is marked in the state that is
\* saved, and scheduled once it is.
EventBatch(through) ==
  /\ course = "open" /\ holder = "none" /\ through \in (acked + 1)..Len(CourseLog)
  /\ LET taken == TakeBatch(through)
         ends == Ends(taken) /\ finish.pc = "none"
         starts == window.pc = "none" /\ WindowReady(taken) /\ ~ends
     IN /\ taken # mem
        /\ mem' = [taken EXCEPT !.status = IF starts THEN "processing" ELSE @]
        /\ holder' = IF ends THEN "batch end" ELSE IF starts THEN "batch window" ELSE "batch"
        /\ Send("locked", mem')
  /\ UNCHANGED <<hostSide, course, base, window, finish, refused, limits>>

\* A batch that holds nothing new is acknowledged from memory.
EventBatchKnown(through) ==
  /\ course = "open" /\ holder = "none" /\ through \in (acked + 1)..Len(CourseLog)
  /\ TakeBatch(through) = mem
  /\ acked' = mem.seq
  /\ UNCHANGED <<saved, savedAt, courseView, published, course, mem, base, taskVars, refused, limits>>

\* The Host commits a state.put: the version advances and the caller learns it.
Commit(who) ==
  /\ StoredState(who)
  /\ saved' = putting[who].value /\ savedAt' = savedAt + 1 /\ base' = savedAt + 1
  /\ putting' = [putting EXCEPT ![who] = NoPut]

BatchSaved ==
  /\ holder \in Batches /\ Commit("locked")
  /\ holder' = "none" /\ acked' = mem.seq
  /\ finish' = IF holder = "batch end" THEN [pc |-> "wait", left |-> FinalRetries] ELSE finish
  /\ window' = IF holder = "batch window" THEN Window(putting["locked"].value) ELSE window
  /\ UNCHANGED <<courseView, published, course, mem, refused, limits>>

\* The put is refused (an outdated version) or fails; the handler raises.
PutLost(who) ==
  /\ putting[who] # NoPut
  /\ \/ StoredState(who) /\ saveFailures < MaxSaveFailures /\ saveFailures' = saveFailures + 1
     \/ ~StoredState(who) /\ UNCHANGED saveFailures
  /\ putting' = [putting EXCEPT ![who] = NoPut]

BatchFails ==
  /\ holder \in Batches /\ PutLost("locked") /\ holder' = "none"
  /\ UNCHANGED <<hostSide, course, mem, base, window, finish, refused, courseDeaths, retryCommands>>

\* Mutant: a stream leaves the window whatever revision waits.
WithoutStream(m, snapshot) ==
  [m EXCEPT !.pending = [s \in Streams |-> IF snapshot[s] > 0 THEN 0 ELSE m.pending[s]],
            !.handled = [s \in Streams |-> IF snapshot[s] > m.handled[s] THEN snapshot[s] ELSE m.handled[s]]]

\* _commit_window: what the snapshot held leaves the pending window, unless a
\* newer revision came meanwhile.
Without(m, snapshot) ==
  [m EXCEPT !.pending = [s \in Streams |-> IF m.pending[s] > snapshot[s] THEN m.pending[s] ELSE 0],
            !.handled = [s \in Streams |-> IF snapshot[s] > m.handled[s] THEN snapshot[s] ELSE m.handled[s]]]

\* A model answer, or the rule notes when it fails (fallback), or a later
\* answer that repairs them; each is committed under _lock.
WindowCommit(then) ==
  /\ course = "open" /\ holder = "none"
  /\ \/ window.pc = "model" /\ then \in {"commit", "fallback"}
     \/ window.pc = "retry" /\ then = "repair"
  /\ mem' = [(IF then = "repair" THEN mem ELSE Without(mem, window.snapshot)) EXCEPT
                !.status = IF then = "fallback" THEN "degraded" ELSE "ready", !.view = @ + 1]
  /\ window' = [window EXCEPT !.pc = then]
  /\ holder' = "window" /\ Send("locked", mem')
  /\ UNCHANGED <<hostSide, course, base, finish, refused, limits>>

\* _process_window returns; _run_terminal goes on when the window was its own.
WindowEnds ==
  /\ window' = NoWindow
  /\ finish' = IF finish.pc = "window" THEN [finish EXCEPT !.pc = "publish"] ELSE finish

WindowSaved ==
  /\ holder = "window" /\ Commit("locked") /\ holder' = "none" /\ Show(mem)
  /\ IF window.pc = "fallback" /\ window.left > 0
       THEN window' = [window EXCEPT !.pc = "retry"] /\ UNCHANGED finish
       ELSE WindowEnds
  /\ UNCHANGED <<acked, published, course, mem, refused, limits>>

\* The repair fails once more, and the retries run out.
RepairFails ==
  /\ course = "open" /\ window.pc = "retry"
  /\ IF window.left > 1
       THEN window' = [window EXCEPT !.left = @ - 1] /\ UNCHANGED finish
       ELSE WindowEnds
  /\ UNCHANGED <<hostSide, course, mem, base, holder, putting, refused, limits>>

\* The commit is not saved: the task ends with the exception, and the terminal
\* task too when it was running the window.
WindowLost ==
  /\ holder = "window" /\ PutLost("locked") /\ holder' = "none"
  /\ window' = NoWindow
  /\ finish' = IF finish.pc = "window" THEN [finish EXCEPT !.pc = "done"] ELSE finish
  /\ UNCHANGED <<hostSide, course, mem, base, refused, courseDeaths, retryCommands>>

\* _run_terminal: after the realtime task, the rest of the window, then the
\* document.
TerminalBegins ==
  /\ course = "open" /\ finish.pc = "wait" /\ window.pc = "none"
  /\ IF Waiting(mem) # {}
       THEN window' = Window(mem) /\ finish' = [finish EXCEPT !.pc = "window"]
       ELSE finish' = [finish EXCEPT !.pc = "publish"] /\ UNCHANGED window
  /\ UNCHANGED <<hostSide, course, mem, base, holder, putting, refused, limits>>

\* CourseFinalizer.run: document.publish under the job's key.  The key answers
\* again for the same content and refuses another.
Publish(draft) ==
  /\ course = "open" /\ finish.pc = "publish" /\ published[mem.job] \in {0, draft}
  /\ published' = [published EXCEPT ![mem.job] = draft]
  /\ finish' = [finish EXCEPT !.pc = "recording"]
  /\ UNCHANGED <<acked, saved, savedAt, courseView, course, mem, base, holder, putting, window, refused, limits>>

\* _record_final_success clears the job.
RecordSuccess ==
  /\ course = "open" /\ finish.pc = "recording" /\ holder = "none"
  /\ mem' = [mem EXCEPT !.due = FALSE, !.final = "ready", !.view = @ + 1]
  /\ finish' = [finish EXCEPT !.pc = "done"]
  /\ holder' = "success" /\ Send("locked", mem')
  /\ UNCHANGED <<hostSide, course, base, window, refused, limits>>

\* Mutant: a failed job is forgotten.
RecordFailureForgets ==
  /\ course = "open" /\ finish.pc = "publish" /\ holder = "none"
  /\ mem' = [mem EXCEPT !.due = FALSE, !.final = "waiting_retry", !.view = @ + 1]
  /\ holder' = "failure" /\ Send("locked", mem')
  /\ UNCHANGED <<hostSide, course, base, window, finish, refused, limits>>

\* _record_final_failure: the model, the Package or a key used with another
\* content.  The job stays.
RecordFailure ==
  /\ course = "open" /\ finish.pc = "publish" /\ holder = "none"
  /\ mem' = [mem EXCEPT !.final = "waiting_retry", !.view = @ + 1]
  /\ holder' = "failure" /\ Send("locked", mem')
  /\ UNCHANGED <<hostSide, course, base, window, finish, refused, limits>>

AfterFailure ==
  IF holder = "success" THEN finish
  ELSE IF finish.left > 0 THEN [finish EXCEPT !.left = @ - 1] ELSE [finish EXCEPT !.pc = "done"]

Recorded ==
  /\ holder \in {"success", "failure"} /\ Commit("locked") /\ holder' = "none" /\ Show(mem)
  /\ finish' = AfterFailure
  /\ UNCHANGED <<acked, published, course, mem, window, refused, limits>>

\* The outcome is not saved: the exception ends the terminal task.
RecordLost ==
  /\ holder \in {"success", "failure"} /\ PutLost("locked") /\ holder' = "none"
  /\ finish' = [finish EXCEPT !.pc = "done"]
  /\ UNCHANGED <<hostSide, course, mem, base, window, refused, courseDeaths, retryCommands>>

\* command("retry_final"): a new job, saved without _lock.
RetryFinal ==
  /\ course = "open" /\ mem.due /\ finish.pc \in {"none", "done"} /\ putting["command"] = NoPut
  /\ retryCommands < MaxRetryCommands /\ retryCommands' = retryCommands + 1
  /\ mem' = [mem EXCEPT !.job = retryCommands + 2, !.final = "generating", !.view = @ + 1]
  /\ Send("command", mem')
  /\ UNCHANGED <<hostSide, course, base, holder, window, finish, refused, saveFailures, courseDeaths>>

RetrySaved ==
  /\ putting["command"] # NoPut /\ Commit("command") /\ Show(mem)
  /\ finish' = IF finish.pc \in {"none", "done"} THEN [pc |-> "wait", left |-> FinalRetries] ELSE finish
  /\ UNCHANGED <<acked, published, course, mem, holder, window, refused, limits>>

RetryLost ==
  /\ PutLost("command")
  /\ UNCHANGED <<hostSide, course, mem, base, holder, window, finish, refused, courseDeaths, retryCommands>>

\* The plugin process dies; a put under way may have reached the Host.
CourseDies ==
  /\ course = "open" /\ courseDeaths < MaxCourseDeaths /\ courseDeaths' = courseDeaths + 1
  /\ course' = "down" /\ mem' = FreshState /\ base' = 0
  /\ holder' = "none" /\ putting' = [p \in {"locked", "command"} |-> NoPut]
  /\ window' = NoWindow /\ finish' = [pc |-> "none", left |-> 0]
  /\ \/ UNCHANGED <<saved, savedAt>>
     \/ \E p \in DOMAIN putting : putting[p] # NoPut /\ StoredState(p) /\ saved' = putting[p].value
                                  /\ savedAt' = savedAt + 1
  /\ UNCHANGED <<acked, courseView, published, refused, saveFailures, retryCommands>>

CourseNext ==
  \/ Open \/ OpenRefused
  \/ \E through \in DOMAIN CourseLog : EventBatch(through) \/ EventBatchKnown(through)
  \/ BatchSaved \/ BatchFails
  \/ \E then \in {"commit", "fallback", "repair"} : WindowCommit(then)
  \/ WindowSaved \/ RepairFails \/ WindowLost
  \/ TerminalBegins \/ \E draft \in Drafts : Publish(draft)
  \/ RecordSuccess \/ RecordFailure \/ Recorded \/ RecordLost
  \/ RetryFinal \/ RetrySaved \/ RetryLost
  \/ CourseDies

CourseSpec == CourseInit /\ [][CourseNext]_courseVars

-----------------------------------------------------------------------------

Kept(m) ==
  \A n \in m.taken :
    CourseLog[n].kind = "final" =>
      \/ m.pending[CourseLog[n].stream] >= CourseLog[n].revision
      \/ m.handled[CourseLog[n].stream] >= CourseLog[n].revision

\* A caption revision the plugin took is still waiting or has been turned into
\* notes, in memory and in the saved state, although revisions arrive while a
\* window is with the model and saves are refused (_commit_window).
RevisionsKept == Kept(mem) /\ Kept(saved)

Ended(m) == \E n \in m.taken : CourseLog[n].kind = "end"

\* The terminal job of an ended session is forgotten only when its document is
\* published, whatever fails, is refused or dies in between
\* (_record_final_failure, _record_final_success, open).
JobUntilPublished ==
  \A m \in {mem, saved} : Ended(m) /\ ~m.due => \E j \in CourseJobs : published[j] # 0

\* What the Host counts as acknowledged is in the saved state: "persist the
\* pending window through state.put before acknowledging its highest sequence".
AckedIsSaved == \A n \in 1..acked : n \in saved.taken

\* A session whose process died can be opened again.
Reopens == ~refused

\* Neither a caption revision nor the terminal job of a session is lost on the way
\* from the batch to the notes, through refused saves, retries and deaths.
CourseSafe == CourseTypeOK /\ RevisionsKept /\ JobUntilPublished

=============================================================================

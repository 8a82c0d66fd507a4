------------------------- MODULE MeetingProjection -------------------------
(***************************************************************************)
(* MeetingStateProjector (meeting_state/projector.py) and the admission    *)
(* policy that fences it (assistant/plugin_policy.py): final captions are  *)
(* scanned into per-session buffers, a worker extracts a batch, and one    *)
(* transaction advances the offsets and the Meeting State head.            *)
(*                                                                         *)
(* The projector, the user's activate and stop and the plugin's health     *)
(* run on one event loop and nothing is awaited under the projector's      *)
(* lock, so a step of it runs to its next real suspension: the pause of    *)
(* the poll, the wait for the queue, the extraction.  Captions and the end *)
(* of a session come from other processes and threads at any moment, in    *)
(* the middle of a poll too.                                               *)
(*                                                                         *)
(* The queue is what SessionQueue promises.  The texts, the items a batch  *)
(* yields and the freshness figures of the head are left out: of the head  *)
(* there remain its version and the revision of every caption in it.       *)
(***************************************************************************)
EXTENDS Integers, FiniteSets

CONSTANTS
  Sessions, Segments, Workers,
  Invalid,              \* the <<segment, revision>> that _snapshot refuses
  LateCommits,          \* a caption may become visible after the scan's window
  FastRestarts,         \* the runtime may restart between two polls
  DbErrors,             \* finish_if_drained may find the database locked
  MaxRevision, MaxEpoch, MaxFaults      \* bounds

ASSUME ProjectionAssumption ==
  /\ MaxRevision \in Nat \ {0} /\ MaxEpoch \in Nat /\ MaxFaults \in Nat
  /\ LateCommits \in BOOLEAN /\ FastRestarts \in BOOLEAN /\ DbErrors \in BOOLEAN
  /\ "idle" \notin Sessions /\ "dead" \notin Sessions  \* the markers of a worker without a batch

VARIABLES
  rev,                  \* [Sessions -> Caption], SegmentRecord.revision, 0 for none
  recent,               \* [Sessions -> SUBSET Segments], updated within the window
  life,                 \* [Sessions -> live | finalizing | ended], SessionRecord
  up,                   \* the plugin's runtime is ready
  meeting,              \* [Sessions -> Meetings], MeetingPluginSessionRecord
  offset,               \* [Sessions -> Caption], MeetingProjectionOffsetRecord
  head,                 \* [Sessions -> [version, content]], MeetingStateHeadRecord
  buffer,               \* [Sessions -> Buffers], _buffers
  seen,                 \* [Sessions -> Epochs], _seen_epochs
  scheduled,            \* SessionQueue's
  worker,               \* [Workers -> Jobs \cup {Idle, Dead}]
  waiters,              \* [Sessions -> SUBSET Targets], the pending of _waiters
  answered,             \* [Sessions -> Targets \cup {Unanswered}], the last one resolved
  faults                \* faults so far

database == <<rev, recent, life, up, meeting, offset, head>>
memory == <<buffer, seen, scheduled, worker, waiters, answered>>
vars == <<database, memory, faults>>

Caption == [Segments -> 0..MaxRevision]
None == [g \in Segments |-> 0]
NoEpoch == -1
Epochs == NoEpoch..MaxEpoch
NoBuffer == [epoch |-> NoEpoch, segs |-> None, prio |-> FALSE, ending |-> FALSE, retry |-> FALSE]
Idle == [session |-> "idle"]
Dead == [session |-> "dead"]
Unanswered == [epoch |-> NoEpoch, target |-> None]

Later(a, b) == [g \in Segments |-> IF a[g] < b[g] THEN b[g] ELSE a[g]]
Reaches(a, b) == \A g \in Segments: a[g] >= b[g]

\* A mutant: no session is ever recorded as in flight.
NothingInflight == {}

\* _inflight
Inflight == {worker[w].session : w \in Workers}

-----------------------------------------------------------------------------
(* Admission *)

\* eligible_session_ids; permission and binding are part of up.
Eligible(m, ready) == ready /\ m.mode \in {"active", "draining"}

\* admission(...).allowed
Allowed(m, ready, l) == Eligible(m, ready) /\ (l = "ended" => m.mode = "draining")

\* AnalysisAdmission.permits, on the rows as they are.
Permits(s, e) == Allowed(meeting[s], up, life[s]) /\ meeting[s].epoch = e

\* A mutant: the frontier of a session is not looked at.
WithinAny(m, batch) == TRUE

\* permits_segment for those revisions of a batch that are not 0.
Within(m, batch) ==
  \A g \in Segments: m.frozen /\ batch[g] # 0 => batch[g] = m.frontier[g]

PermitsBatch(s, batch) == Within(meeting[s], batch)

\* A mutant: any drained session is finished.
DrainedAny(m, done) == m.mode = "draining"

\* The test of finish_if_drained.
Drained(m, done) == m.mode = "draining" /\ Reaches(done, m.frontier)

-----------------------------------------------------------------------------
(* Buffers, waiters and the queue *)

\* _buffer_segments: the buffer of another epoch is dropped.
Buffered(b, e, segs) ==
  IF segs = None THEN b
  ELSE LET base == IF b.epoch = e THEN b ELSE [NoBuffer EXCEPT !.epoch = e]
       IN [base EXCEPT !.segs = Later(@, segs)]

\* Those of a set of waiting targets that _discard_buffer keeps.
Kept(targets, e) == {t \in targets : t.epoch # e}

\* A mutant: waiters of every activation are answered.
ResolvedAny(targets, e, done) == {t \in targets : Reaches(done, t.target)}

\* The targets _resolve_waiters answers, and those that stay pending.
Resolved(targets, e, done) == {t \in targets : t.epoch = e /\ Reaches(done, t.target)}
Pending(targets, e, allowed, done) ==
  {t \in targets : t.epoch = e /\ allowed /\ ~Reaches(done, t.target)}

\* A mutant: captions wait for a trigger however old they are.
ReadyOnTrigger(b, late) ==
  /\ b.segs # None
  /\ b.retry => late
  /\ b.prio \/ b.ending

\* The readiness test of _schedule_if_ready.  late: the backoff is over and the
\* oldest caption has waited long enough.
Ready(b, late) ==
  /\ b.segs # None
  /\ b.retry => late
  /\ b.prio \/ b.ending \/ late

\* _queue.put in the lane of the buffer.
Raised(lane, b) == IF b.prio THEN "priority" ELSE IF lane = "none" THEN "normal" ELSE lane

\* _schedule_if_ready for a session that is not in flight.
Scheduled(s, b, late) == IF Ready(b, late) THEN Raised(scheduled[s], b) ELSE scheduled[s]

-----------------------------------------------------------------------------
(* Captions, sessions, the user and the plugin *)

\* upsert_final: stamped before it waits for the write lock, visible after it.
FinalCaption(s, g) ==
  /\ life[s] # "ended" /\ rev[s][g] < MaxRevision
  /\ rev' = [rev EXCEPT ![s][g] = @ + 1]
  /\ \/ recent' = [recent EXCEPT ![s] = @ \cup {g}]
     \/ LateCommits /\ recent' = [recent EXCEPT ![s] = @ \ {g}]
  /\ UNCHANGED <<life, up, meeting, offset, head, memory, faults>>

\* begin_finalizing, complete, fail, cancel.
EndSession(s, l) ==
  /\ \/ l = "finalizing" /\ life[s] = "live"
     \/ l = "ended" /\ life[s] # "ended"
  /\ life' = [life EXCEPT ![s] = l]
  /\ UNCHANGED <<rev, recent, up, meeting, offset, head, memory, faults>>

\* A mutant: a state that no reader of the row knows.
StoppedUnknown(m) == [m EXCEPT !.mode = "stopped", !.epoch = @ + 1]

\* stop_analysis
Stopped(m) == [m EXCEPT !.mode = "inactive", !.epoch = @ + 1]

\* The user stops the analysis of a session.
Stop(s) ==
  /\ up /\ meeting[s].epoch < MaxEpoch
  /\ meeting' = [meeting EXCEPT ![s] = Stopped(@)]
  /\ UNCHANGED <<rev, recent, life, up, offset, head, memory, faults>>

\* disable_plugin: revoke_authority for every session.
Disable ==
  /\ up /\ up' = FALSE
  /\ \A s \in Sessions: meeting[s].epoch < MaxEpoch
  /\ meeting' = [s \in Sessions |-> Stopped(meeting[s])]
  /\ UNCHANGED <<rev, recent, life, offset, head, memory, faults>>

\* The plugin's container fails.
RuntimeDown ==
  /\ up /\ up' = FALSE
  /\ faults < MaxFaults /\ faults' = faults + 1
  /\ UNCHANGED <<rev, recent, life, meeting, offset, head, memory>>

\* It is ready again: not before a poll has passed, unless FastRestarts.
RuntimeReady ==
  /\ ~up /\ up' = TRUE
  /\ FastRestarts \/ \A s \in Sessions: seen[s] = NoEpoch
  /\ UNCHANGED <<rev, recent, life, meeting, offset, head, memory, faults>>

\* The process ends, or the projector's stop, and starts again.
Restart ==
  /\ faults < MaxFaults /\ faults' = faults + 1
  /\ buffer' = [s \in Sessions |-> NoBuffer]
  /\ seen' = [s \in Sessions |-> NoEpoch]
  /\ scheduled' = [s \in Sessions |-> "none"]
  /\ worker' = [w \in Workers |-> Idle]
  /\ waiters' = [s \in Sessions |-> {}]
  /\ UNCHANGED <<database, answered>>

-----------------------------------------------------------------------------
(* Catch-up *)

\* _validated_snapshots: the invalid ones are skipped by their offsets.
Skipped(pending) == [g \in Segments |-> IF <<g, pending[g]>> \in Invalid THEN pending[g] ELSE 0]
Valid(pending) == [g \in Segments |-> IF <<g, pending[g]>> \in Invalid THEN 0 ELSE pending[g]]
Backlog(s, done) == [g \in Segments |-> IF rev[s][g] > done[g] THEN rev[s][g] ELSE 0]

\* request_catch_up once the analysis of s has epoch e.
CatchUpAt(s, e, late) ==
  LET done == Later(offset[s], Skipped(Backlog(s, offset[s])))
      mine == waiters[s] \cup {[epoch |-> e, target |-> rev[s]]}
      b == [Buffered(buffer[s], e, Valid(Backlog(s, offset[s]))) EXCEPT !.epoch = e, !.prio = TRUE]
  IN /\ offset' = [offset EXCEPT ![s] = done]
     /\ buffer' = [buffer EXCEPT ![s] = b]
     /\ waiters' = [waiters EXCEPT ![s] = Pending(mine, e, TRUE, done)]
     /\ \/ Resolved(mine, e, done) = {} /\ UNCHANGED answered
        \/ \E t \in Resolved(mine, e, done): answered' = [answered EXCEPT ![s] = t]
     /\ scheduled' = IF Reaches(done, rev[s]) \/ s \in Inflight THEN scheduled
                     ELSE [scheduled EXCEPT ![s] = Scheduled(s, b, late)]
     /\ UNCHANGED <<rev, recent, life, up, head, seen, worker, faults>>

\* A freshness check or a fast answer asks for the backlog of an active session.
CatchUp(s, late) ==
  /\ Allowed(meeting[s], up, life[s]) /\ meeting[s].mode = "active"
  /\ CatchUpAt(s, meeting[s].epoch, late)
  /\ UNCHANGED meeting

\* confirm_action for meeting.analysis.activate, and its request_catch_up.
Activate(s, late) ==
  /\ up /\ life[s] = "live" /\ meeting[s].mode # "active" /\ meeting[s].epoch < MaxEpoch
  /\ meeting' = [meeting EXCEPT
       ![s] = [mode |-> "active", epoch |-> @.epoch + 1, frozen |-> FALSE, frontier |-> None]]
  /\ CatchUpAt(s, meeting[s].epoch + 1, late)

-----------------------------------------------------------------------------
(* The poll *)

\* The row of a session after the first transaction of scan_admissions.
Frozen(s) ==
  IF Eligible(meeting[s], up) /\ meeting[s].mode = "active" /\ life[s] = "ended"
  THEN [meeting[s] EXCEPT !.mode = "draining", !.frozen = TRUE, !.frontier = rev[s]]
  ELSE meeting[s]

\* The row after its finish_if_drained.
Scanned(s) ==
  IF up /\ Drained(Frozen(s), offset[s]) THEN [Frozen(s) EXCEPT !.mode = "completed"] ELSE Frozen(s)

Admitted(s) == Allowed(Scanned(s), up, life[s])

\* The sessions _scan_updates reads whatever its cursor is.
Backfill(s) == seen[s] # meeting[s].epoch \/ Scanned(s).mode = "draining"

\* The rows _scan_updates finds: the permitted captions beyond their offsets.
Found(s) ==
  [g \in Segments |->
     IF /\ Admitted(s) /\ rev[s][g] > offset[s][g]
        /\ g \in recent[s] \/ Backfill(s)
        /\ Scanned(s).frozen => rev[s][g] = Scanned(s).frontier[g]
     THEN rev[s][g] ELSE 0]

\* The buffer of a session after _buffer_segments and the finalizing mark; the
\* admission is read again, and the session may have ended since.
Polled(s, ended) ==
  LET b == IF Allowed(Scanned(s), up, ended)
           THEN Buffered(buffer[s], meeting[s].epoch, Valid(Found(s))) ELSE buffer[s]
  IN IF Admitted(s) /\ life[s] # "live" THEN [b EXCEPT !.ending = TRUE] ELSE b

\* One iteration of _poll_loop.  dying: the sessions that end in the middle of it;
\* keep: whether the captions of this window are in the next one too.
Poll(late, dying, keep) ==
  /\ life' = [s \in Sessions |-> IF s \in dying THEN "ended" ELSE life[s]]
  /\ meeting' = [s \in Sessions |-> Scanned(s)]
  /\ offset' = [s \in Sessions |-> Later(offset[s], Skipped(Found(s)))]
  /\ seen' = [s \in Sessions |-> IF Admitted(s) THEN meeting[s].epoch ELSE NoEpoch]
  /\ recent' = IF keep THEN recent ELSE [s \in Sessions |-> {}]
  /\ LET Held(s) == Polled(s, life'[s])
         Fits(s) == Allowed(Scanned(s), up, life'[s]) /\ Held(s).epoch = meeting[s].epoch
     IN /\ buffer' = [s \in Sessions |-> IF Fits(s) THEN Held(s) ELSE NoBuffer]
        /\ waiters' = [s \in Sessions |->
                         IF Fits(s) THEN waiters[s] ELSE Kept(waiters[s], Held(s).epoch)]
        /\ scheduled' = [s \in Sessions |->
                           IF Fits(s) /\ s \notin Inflight
                           THEN Scheduled(s, Held(s), late) ELSE scheduled[s]]
  /\ UNCHANGED <<rev, up, head, worker, answered, faults>>

-----------------------------------------------------------------------------
(* The workers *)

\* _discard_buffer
Discard(s, e) ==
  /\ buffer' = IF buffer[s].epoch = e THEN [buffer EXCEPT ![s] = NoBuffer] ELSE buffer
  /\ waiters' = [waiters EXCEPT ![s] = Kept(@, e)]

\* The batches _select_batch may return: the buffered captions up to a length.
Batches(b) ==
  {[g \in Segments |-> IF g \in picked THEN b.segs[g] ELSE 0] :
     picked \in (SUBSET {g \in Segments : b.segs[g] # 0}) \ {{}}}

\* _worker drops an entry whose session is in flight or has nothing buffered.
Skips(s) == s \in Inflight \/ buffer[s].segs = None

\* _worker up to the call of the extractor.
Take(w, s) ==
  /\ worker[w] = Idle /\ scheduled[s] # "none"
  /\ scheduled' = [scheduled EXCEPT ![s] = "none"]
  /\ \/ Skips(s) /\ UNCHANGED <<buffer, waiters, worker>>
     \/ /\ ~Skips(s) /\ ~Permits(s, buffer[s].epoch)
        /\ Discard(s, buffer[s].epoch) /\ UNCHANGED worker
     \/ /\ ~Skips(s) /\ Permits(s, buffer[s].epoch)
        /\ \E batch \in Batches(buffer[s]):
             \/ /\ PermitsBatch(s, batch)
                /\ worker' = [worker EXCEPT ![w] =
                     [session |-> s, epoch |-> buffer[s].epoch, batch |-> batch,
                      version |-> head[s].version]]
                /\ UNCHANGED <<buffer, waiters>>
             \/ /\ ~PermitsBatch(s, batch)
                /\ Discard(s, buffer[s].epoch) /\ UNCHANGED worker
  /\ UNCHANGED <<database, seen, answered, faults>>

\* The end of _worker's loop body: the session leaves _inflight with buffer b and
\* waiters ws, its row being m, and is scheduled again.
Release(s, b, ws, m, late) ==
  LET fits == Allowed(m, up, life[s]) /\ b.epoch = m.epoch
  IN /\ buffer' = [buffer EXCEPT ![s] = IF fits THEN b ELSE NoBuffer]
     /\ waiters' = [waiters EXCEPT ![s] = IF fits THEN ws ELSE Kept(ws, b.epoch)]
     /\ scheduled' = IF fits THEN [scheduled EXCEPT ![s] = Scheduled(s, b, late)] ELSE scheduled

\* A mutant: a batch acknowledges its captions whatever came in meanwhile.
AckAll(b, batch) ==
  LET left == [g \in Segments |-> IF batch[g] # 0 THEN 0 ELSE b.segs[g]]
  IN [b EXCEPT !.segs = left, !.retry = FALSE, !.prio = @ /\ left # None]

\* _acknowledge: a caption revised during the extraction stays buffered.
Ack(b, batch) ==
  LET left == [g \in Segments |-> IF b.segs[g] <= batch[g] THEN 0 ELSE b.segs[g]]
  IN [b EXCEPT !.segs = left, !.retry = FALSE, !.prio = @ /\ left # None]

\* A mutant: the fence looks at the state of the analysis and not at its epoch.
FencedOpen(w) ==
  LET s == worker[w].session
  IN Allowed(meeting[s], up, life[s]) /\ PermitsBatch(s, worker[w].batch)

\* fence and the frontier test of _commit_projection.
Fenced(w) ==
  LET s == worker[w].session
  IN Permits(s, worker[w].epoch) /\ PermitsBatch(s, worker[w].batch)

\* A mutant: the offset advances to the caption as it is now.
AdvancedToNewest(s, batch) ==
  [g \in Segments |-> IF batch[g] # 0 THEN rev[s][g] ELSE offset[s][g]]

\* advance_offset for the captions of a batch.
Advanced(s, batch) == Later(offset[s], batch)

\* The extraction of w has returned and its batch is committed, acknowledged,
\* and the session finished if this was the last of it.
Commit(w, late) ==
  LET s == worker[w].session
      batch == worker[w].batch
      done == Advanced(s, batch)
      last == Drained(meeting[s], done)
      b == IF buffer[s].epoch = worker[w].epoch THEN Ack(buffer[s], batch) ELSE buffer[s]
      ws == Pending(waiters[s], worker[w].epoch, TRUE, done)
  IN /\ Fenced(w) /\ head[s].version = worker[w].version
     /\ offset' = [offset EXCEPT ![s] = done]
     /\ head' = [head EXCEPT
          ![s] = [version |-> @.version + 1,
                  content |-> [g \in Segments |-> IF batch[g] # 0 THEN batch[g] ELSE @.content[g]]]]
     /\ \/ Resolved(waiters[s], worker[w].epoch, done) = {} /\ UNCHANGED answered
        \/ \E t \in Resolved(waiters[s], worker[w].epoch, done): answered' = [answered EXCEPT ![s] = t]
     /\ \/ /\ meeting' = IF last THEN [meeting EXCEPT ![s].mode = "completed"] ELSE meeting
           /\ worker' = [worker EXCEPT ![w] = Idle]
           /\ UNCHANGED faults
        \/ /\ last /\ DbErrors /\ faults < MaxFaults
           /\ faults' = faults + 1
           /\ worker' = [worker EXCEPT ![w] = Dead]
           /\ UNCHANGED meeting
     /\ Release(s, b, ws, meeting'[s], late)
     /\ UNCHANGED <<rev, recent, life, up, seen>>

\* The batch may no longer be committed: MeetingPluginDenied, before or after the
\* extraction, and any other error once the epoch is no longer permitted.
Refuse(w, late) ==
  LET s == worker[w].session
      e == worker[w].epoch
      b == IF buffer[s].epoch = e THEN NoBuffer ELSE buffer[s]
  IN /\ ~Fenced(w)
     /\ worker' = [worker EXCEPT ![w] = Idle]
     /\ Release(s, b, Kept(waiters[s], e), meeting[s], late)
     /\ UNCHANGED <<database, seen, answered, faults>>

\* The extraction fails, or the head has moved: the session backs off.
Fail(w, late) ==
  LET s == worker[w].session
      b == IF buffer[s].epoch = worker[w].epoch THEN [buffer[s] EXCEPT !.retry = TRUE] ELSE buffer[s]
  IN /\ Permits(s, worker[w].epoch)
     /\ \/ faults < MaxFaults /\ faults' = faults + 1
        \/ head[s].version # worker[w].version /\ UNCHANGED faults
     /\ worker' = [worker EXCEPT ![w] = Idle]
     /\ Release(s, b, waiters[s], meeting[s], late)
     /\ UNCHANGED <<database, seen, answered>>

Busy(w) == worker[w] \notin {Idle, Dead}
Extracted(w, late) == Busy(w) /\ (Commit(w, late) \/ Refuse(w, late) \/ Fail(w, late))

-----------------------------------------------------------------------------
Init ==
  /\ rev = [s \in Sessions |-> None] /\ offset = rev
  /\ recent = [s \in Sessions |-> {}]
  /\ life = [s \in Sessions |-> "live"] /\ up = TRUE
  /\ meeting = [s \in Sessions |-> [mode |-> "inactive", epoch |-> 0, frozen |-> FALSE, frontier |-> None]]
  /\ head = [s \in Sessions |-> [version |-> 0, content |-> None]]
  /\ buffer = [s \in Sessions |-> NoBuffer]
  /\ seen = [s \in Sessions |-> NoEpoch]
  /\ scheduled = [s \in Sessions |-> "none"]
  /\ worker = [w \in Workers |-> Idle]
  /\ waiters = [s \in Sessions |-> {}]
  /\ answered = [s \in Sessions |-> Unanswered]
  /\ faults = 0

User ==
  \/ \E s \in Sessions, late \in BOOLEAN: Activate(s, late) \/ CatchUp(s, late)
  \/ \E s \in Sessions: Stop(s)
  \/ Disable
Outside ==
  \/ \E s \in Sessions, g \in Segments: FinalCaption(s, g)
  \/ \E s \in Sessions, l \in {"finalizing", "ended"}: EndSession(s, l)
  \/ RuntimeDown \/ RuntimeReady \/ Restart
Projector ==
  \/ \E late, keep \in BOOLEAN, dying \in SUBSET {s \in Sessions : life[s] # "ended"}:
       Poll(late, dying, keep)
  \/ \E w \in Workers, s \in Sessions: Take(w, s)
  \/ \E w \in Workers, late \in BOOLEAN: Extracted(w, late)

Next == User \/ Outside \/ Projector
Spec == Init /\ [][Next]_vars

\* asyncio runs every ready task; a caption grows old and a backoff ends; the
\* extractor returns or times out; a container that failed is restarted.
Fairness ==
  /\ SF_vars(\E keep \in BOOLEAN: Poll(TRUE, {}, keep))
  /\ \A s \in Sessions: SF_vars(\E w \in Workers: Take(w, s))
  /\ \A w \in Workers: WF_vars(\E late \in BOOLEAN: Extracted(w, late))
  /\ WF_vars(RuntimeReady)
FairSpec == Spec /\ Fairness

-----------------------------------------------------------------------------
Targets == [epoch: Epochs, target: Caption]
Jobs == [session: Sessions, epoch: Epochs, batch: Caption, version: Nat]

TypeOK ==
  /\ rev \in [Sessions -> Caption] /\ offset \in [Sessions -> Caption]
  /\ recent \in [Sessions -> SUBSET Segments]
  /\ life \in [Sessions -> {"live", "finalizing", "ended"}] /\ up \in BOOLEAN
  /\ meeting \in [Sessions -> [mode: {"inactive", "active", "draining", "completed"},
                               epoch: 0..MaxEpoch, frozen: BOOLEAN, frontier: Caption]]
  /\ head \in [Sessions -> [version: Nat, content: Caption]]
  /\ buffer \in [Sessions -> [epoch: Epochs, segs: Caption, prio: BOOLEAN,
                              ending: BOOLEAN, retry: BOOLEAN]]
  /\ seen \in [Sessions -> Epochs]
  /\ scheduled \in [Sessions -> {"none", "normal", "priority"}]
  /\ worker \in [Workers -> Jobs \cup {Idle, Dead}]
  /\ waiters \in [Sessions -> SUBSET Targets] /\ answered \in [Sessions -> Targets]
  /\ faults \in 0..MaxFaults

(* One worker at a time extracts for a session, from the head as it is: the *)
(* conflict that _commit_projection guards against does not arise.          *)
SingleWriter ==
  \A w \in Workers: Busy(w) =>
    /\ worker[w].version = head[worker[w].session].version
    /\ \A v \in Workers \ {w}: worker[v].session # worker[w].session

(* A caption that waits for its projection is within the reach of the next  *)
(* scan or buffered in its newest revision: none is dropped on the way from *)
(* the cursor to the buffer and the commit.                                 *)
NothingForgotten ==
  \A s \in Sessions, g \in Segments:
    Allowed(meeting[s], up, life[s]) /\ rev[s][g] > offset[s][g] =>
      \/ seen[s] # meeting[s].epoch \/ meeting[s].mode = "draining" \/ g \in recent[s]
      \/ buffer[s].epoch = meeting[s].epoch /\ buffer[s].segs[g] = rev[s][g]

(* The head has of every caption the revision its offset says, but for the  *)
(* invalid ones that are skipped.                                           *)
HeadMatchesOffsets ==
  \A s \in Sessions, g \in Segments:
    head[s].content[g] = offset[s][g] \/ <<g, offset[s][g]>> \in Invalid

(* Analysis that ended on its own has projected the frozen frontier, all of *)
(* it and nothing else.                                                     *)
CompletedExactly ==
  \A s \in Sessions: meeting[s].mode = "completed" => offset[s] = meeting[s].frontier

(* A head changes only by a batch that was begun in the present activation: *)
(* what was extracted for a stopped one is never written.                   *)
OwnActivation ==
  [][\A s \in Sessions: head'[s] # head[s] =>
       /\ meeting[s].mode \in {"active", "draining"}
       /\ \E w \in Workers: worker[w].session = s /\ worker[w].epoch = meeting[s].epoch]_vars

(* Once the frontier of a session is frozen, only its revisions are written. *)
FrontierOnly ==
  [][\A s \in Sessions: meeting[s].mode = "draining" =>
       \A g \in Segments:
         head'[s].content[g] \in {head[s].content[g], meeting[s].frontier[g]}]_vars

(* A catch-up is answered when its revisions are projected, and by the      *)
(* activation that it was asked of.                                         *)
CatchUpHonest ==
  [][\A s \in Sessions: answered'[s] # answered[s] =>
       answered'[s].epoch = meeting'[s].epoch /\ Reaches(offset'[s], answered'[s].target)]_vars

(* Every caption of an active session is projected unless the analysis is   *)
(* stopped, and a session that ends is finished.                            *)
EventuallyProjected ==
  \A s \in Sessions:
    /\ \A g \in Segments:
         rev[s][g] > offset[s][g] /\ meeting[s].mode = "active" ~>
           rev[s][g] = offset[s][g] \/ meeting[s].mode = "inactive"
    /\ life[s] = "ended" /\ meeting[s].mode = "active" ~>
           meeting[s].mode \in {"completed", "inactive"}

(* The head, the offsets, the buffers and the workers agree in every       *)
(* interleaving of captions, polls, extractions, stops and faults.          *)
ProjectionSafe ==
  TypeOK /\ SingleWriter /\ HeadMatchesOffsets /\ CompletedExactly

(* What a step may do to a head and to those who wait for it.               *)
ProjectionSteps == OwnActivation /\ FrontierOnly /\ CatchUpHonest

=============================================================================

----------------------------- MODULE MediaBridge -----------------------------
(***************************************************************************)
(* The media event projector: final captions, final translations and the   *)
(* end of a session, rows that other processes write, become the ordered   *)
(* MediaEvents of its media session.  A projection reads the pending rows, *)
(* appends a batch of events and then advances the bridge offsets, in      *)
(* three transactions; _projection_lock keeps the poll loop and the        *)
(* catch-up requests of one process from overlapping.                      *)
(*                                                                         *)
(* A pass of the poll loop takes the oldest ScanLimit sessions in their    *)
(* order; an exception ends it for those behind.  One session is modelled  *)
(* in full, and of those ahead of it that each takes its turn or raises.   *)
(***************************************************************************)
EXTENDS Naturals, Sequences, SequencesExt

CONSTANTS
  Captions,     \* the logical ids of the session's segments and translations, in time order
  BatchSize,    \* ProjectorConfig.batch_size
  ScanLimit,    \* ProjectorConfig.scan_session_limit
  MaxOlder,     \* bound: sessions created before this one
  StatusWriters,   \* bound: transactions that read the status and write it
  MaxMediaFaults,  \* bound: exceptions in a projection
  MaxRevision,  \* bound: revisions of one caption
  MaxMediaCrashes  \* bound: deaths of the projecting process

\* An id is of a segment or a translation of the session, never one of its end.
ASSUME CaptionsAssumption ==
  /\ Captions \in Seq(Range(Captions))
  /\ Range(Captions) \cap {"terminal", "completed", "failed", "cancelled"} = {}
  /\ BatchSize \in Nat \ {0} /\ ScanLimit \in Nat \ {0} /\ MaxOlder \in Nat

VARIABLES
  captions,    \* segments and translation_segments: the final revision of each, 0 without one
  ended,       \* the terminal status of the sessions row, or "none"
  writers,     \* the transactions that have read a status that is not terminal and will write one
  statusReads, \* how many have read it so far
  older,       \* the number of sessions ahead of this one; no session is ever deleted
  mediaStatus, \* media_sessions.status, or "none" before the bridge row exists
  mediaEvents, \* media_events in sequence order: [source, logical, revision], the source of an end its status
  offsets,     \* media_bridge_offsets: processed_revision by source
  scan,        \* the sessions the pass has still to project, this one the last; 0 without a pass
  requested,   \* the projection at work is that of a catch-up request
  batch,       \* the items of the projection at work
  phase,       \* "idle", "loop", "read" or "persisted"
  mediaFaults,
  mediaCrashes

sessionRow == <<ended, writers, statusReads, older>>
bridge == <<mediaStatus, mediaEvents, offsets>>
projection == <<scan, requested, batch, phase>>
mediaBounds == <<mediaFaults, mediaCrashes>>

mediaVars == <<captions, sessionRow, bridge, projection, mediaBounds>>

MediaEnds == {"completed", "failed", "cancelled"}

Logical == Range(Captions)

Sources == Logical \cup MediaEnds

MediaInit ==
  /\ captions = [c \in Logical |-> 0] /\ ended = "none" /\ writers = 0 /\ statusReads = 0 /\ older \in 0..MaxOlder
  /\ mediaStatus = "none"
  /\ mediaEvents = <<>> /\ offsets = [s \in Sources |-> 0]
  /\ scan = 0 /\ requested = FALSE /\ batch = <<>> /\ phase = "idle"
  /\ mediaFaults = 0 /\ mediaCrashes = 0

\* upsert_final of the caption worker: only a higher revision is stored.
UpsertFinal(c) ==
  /\ captions[c] < MaxRevision
  /\ captions' = [captions EXCEPT ![c] = @ + 1]
  /\ UNCHANGED <<sessionRow, bridge, projection, mediaBounds>>

\* A writer of the sessions row reads a status that may still become another one.
WriterReads ==
  /\ ended = "none" /\ statusReads < StatusWriters
  /\ writers' = writers + 1 /\ statusReads' = statusReads + 1
  /\ UNCHANGED <<captions, ended, older, bridge, projection, mediaBounds>>

\* It writes what that status may become, over whatever the row says by then.
WriterCommits(s) ==
  /\ writers > 0
  /\ writers' = writers - 1 /\ ended' = s
  /\ UNCHANGED <<captions, statusReads, older, bridge, projection, mediaBounds>>

\* _list_session_ids: the pass comes to this session if it is among the oldest ScanLimit.
ListSessions ==
  /\ scan = 0 /\ older < ScanLimit
  /\ scan' = older + 1
  /\ UNCHANGED <<captions, sessionRow, bridge, requested, batch, phase, mediaBounds>>

\* The pass projects a session ahead of this one, to completion and under the lock.
ProjectOlder ==
  /\ scan > 1 /\ phase = "idle"
  /\ scan' = scan - 1
  /\ UNCHANGED <<captions, sessionRow, bridge, requested, batch, phase, mediaBounds>>

\* _project_session_serialized, from the pass or from a request, takes the lock.
ProjectOurs ==
  /\ scan = 1 /\ phase = "idle"
  /\ phase' = "loop"
  /\ UNCHANGED <<captions, sessionRow, bridge, scan, requested, batch, mediaBounds>>

RequestCatchUp ==
  /\ phase = "idle"
  /\ phase' = "loop" /\ requested' = TRUE
  /\ UNCHANGED <<captions, sessionRow, bridge, scan, batch, mediaBounds>>

\* The projection is left; the sessions the pass has behind this one are of no concern here.
LeaveProjection ==
  /\ phase' = "idle" /\ batch' = <<>> /\ requested' = FALSE
  /\ scan' = IF requested THEN scan ELSE 0

\* _read_pending_items: captions in time order, then the end of the session.
CaptionItem(c) == [source |-> c, logical |-> c, revision |-> captions[c]]

TerminalItem == [source |-> ended, logical |-> "terminal", revision |-> 1]

DueCaptions[n \in 0..Len(Captions)] ==
  IF n = 0 THEN <<>>
  ELSE LET c == Captions[n]
       IN IF offsets[c] < captions[c] THEN Append(DueCaptions[n - 1], CaptionItem(c))
                                      ELSE DueCaptions[n - 1]

TerminalDue == IF ended # "none" /\ offsets[ended] < 1 THEN <<TerminalItem>> ELSE <<>>

\* Mutant: of a session that has ended only the end is projected.
PendingItemsUntilEnd == IF ended = "none" THEN DueCaptions[Len(Captions)] ELSE TerminalDue

PendingItems == DueCaptions[Len(Captions)] \o TerminalDue

\* ensure_legacy_session_bridge, with _media_status; a cancelled session is still "active" there.
Bridged ==
  IF mediaStatus # "none" THEN mediaStatus
  ELSE IF ended \in {"completed", "failed"} THEN ended ELSE "active"

\* _project_session_to_completion: one turn of its loop begins, or the last one was empty.
ReadPending ==
  /\ phase = "loop"
  /\ IF PendingItems = <<>>
     THEN mediaStatus' = Bridged /\ LeaveProjection
     ELSE /\ batch' = SubSeq(PendingItems, 1, IF Len(PendingItems) < BatchSize
                                              THEN Len(PendingItems) ELSE BatchSize)
          /\ phase' = "read"
          /\ UNCHANGED <<mediaStatus, scan, requested>>
  /\ UNCHANGED <<captions, sessionRow, mediaEvents, offsets, mediaBounds>>

\* Mutant: an event that was appended before is appended again.
AppendEventAlways(seq, item) == Append(seq, item)

\* append_event: an event of that source, logical id and revision is appended once.
AppendEvent(seq, item) ==
  IF \E i \in DOMAIN seq : seq[i].logical = item.logical /\ seq[i].revision = item.revision
  THEN seq ELSE Append(seq, item)

\* The events after the first n items of the batch.
Persisted[n \in 0..Len(batch)] ==
  IF n = 0 THEN mediaEvents ELSE AppendEvent(Persisted[n - 1], batch[n])

PersistEventBatch ==
  /\ phase = "read"
  /\ mediaEvents' = Persisted[Len(batch)]
  /\ mediaStatus' = Bridged
  /\ phase' = "persisted"
  /\ UNCHANGED <<captions, sessionRow, offsets, scan, requested, batch, mediaBounds>>

\* Mutant: the offset is the caption's revision of the moment, not that of the event.
AdvanceOffsetNewest(offs, item) ==
  [offs EXCEPT ![item.source] = IF item.source \in Logical THEN captions[item.source] ELSE 1]

\* advance_bridge_offset for one item of the batch: it only goes up.
AdvanceOffset(offs, item) ==
  [offs EXCEPT ![item.source] = IF item.revision > @ THEN item.revision ELSE @]

\* The offsets after the first n items of the batch.
Advanced[n \in 0..Len(batch)] ==
  IF n = 0 THEN offsets ELSE AdvanceOffset(Advanced[n - 1], batch[n])

\* _advance_offsets, with the status of the media session when the end is among the items;
\* after a full batch the loop turns again.
AdvanceOffsets ==
  /\ phase = "persisted"
  /\ offsets' = Advanced[Len(batch)]
  /\ mediaStatus' = IF \E i \in DOMAIN batch : batch[i].logical = "terminal"
                    THEN batch[Len(batch)].source ELSE mediaStatus
  /\ IF Len(batch) < BatchSize THEN LeaveProjection
     ELSE phase' = "loop" /\ batch' = <<>> /\ UNCHANGED <<scan, requested>>
  /\ UNCHANGED <<captions, sessionRow, mediaEvents, mediaBounds>>

\* Any transaction of a projection may raise.  A session ahead that does so ends the pass.
ProjectionRaises ==
  /\ mediaFaults < MaxMediaFaults
  /\ mediaFaults' = mediaFaults + 1
  /\ \/ phase # "idle" /\ LeaveProjection
     \/ scan > 1 /\ phase = "idle" /\ scan' = 0 /\ UNCHANGED <<requested, batch, phase>>
  /\ UNCHANGED <<captions, sessionRow, bridge, mediaCrashes>>

\* The process dies between two of the transactions; the next one begins a new pass.
MediaCrash ==
  /\ mediaCrashes < MaxMediaCrashes /\ (phase # "idle" \/ scan > 0)
  /\ mediaCrashes' = mediaCrashes + 1
  /\ scan' = 0 /\ requested' = FALSE /\ phase' = "idle" /\ batch' = <<>>
  /\ UNCHANGED <<captions, sessionRow, bridge, mediaFaults>>

\* What the poll loop does, and the projection that holds the lock.
Projecting == ListSessions \/ ProjectOlder \/ ProjectOurs \/ ReadPending \/ PersistEventBatch \/ AdvanceOffsets

MediaNext ==
  \/ Projecting \/ RequestCatchUp \/ ProjectionRaises \/ MediaCrash
  \/ WriterReads \/ (\E s \in MediaEnds \cup {"none"} : WriterCommits(s))
  \/ (\E c \in Logical : UpsertFinal(c))

\* The poll loop begins a pass again and again and goes on with the one it has begun.  That
\* it comes to this session is not assumed: it depends on its place and on those ahead.
MediaFairness == WF_mediaVars(Projecting)

MediaSpec == MediaInit /\ [][MediaNext]_mediaVars /\ MediaFairness

-----------------------------------------------------------------------------
\* A caption's revisions become events at most once each and in their order, and there is
\* at most one event of an end, although events and offsets are committed apart, the
\* process may die between them, the caption change while it is projected and the row end
\* in one status after another.
ProjectedOnce ==
  \A i, j \in DOMAIN mediaEvents :
    (i < j /\ mediaEvents[i].logical = mediaEvents[j].logical)
      => mediaEvents[i].revision < mediaEvents[j].revision

\* An offset never runs ahead of the events: the revision of a caption that it says was
\* processed can be read, and so can an end of the session once one was processed.
OffsetsBehindEvents ==
  /\ \A c \in Logical : offsets[c] > 0 =>
       \E i \in DOMAIN mediaEvents : mediaEvents[i].logical = c /\ mediaEvents[i].revision = offsets[c]
  /\ \A s \in MediaEnds : offsets[s] > 0 =>
       \E i \in DOMAIN mediaEvents : mediaEvents[i].logical = "terminal"

\* The event of the end names the status whose processing is recorded.  Not so when a stale
\* writer ends the session a second time: append_event finds the first end and keeps it,
\* the offset of the second is stored and the media session takes its status.
EndEventTells ==
  \A s \in MediaEnds : offsets[s] > 0 =>
    \E i \in DOMAIN mediaEvents : mediaEvents[i].source = s

\* The last revision of every caption of a session that the scan reaches comes out, through
\* crashes, full batches, exceptions in it and ahead of it, and ends of the session before it.
LastRevisionProjected ==
  \A c \in Logical : (older < ScanLimit /\ captions[c] = MaxRevision) ~>
    (\E i \in DOMAIN mediaEvents : mediaEvents[i].logical = c /\ mediaEvents[i].revision = MaxRevision)

\* The same of every session.  Not so: nothing begins a pass that reaches beyond the limit.
EverySessionProjected ==
  \A c \in Logical : (captions[c] = MaxRevision) ~>
    (\E i \in DOMAIN mediaEvents : mediaEvents[i].logical = c /\ mediaEvents[i].revision = MaxRevision)

=============================================================================

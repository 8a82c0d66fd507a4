----------------------- MODULE MeetingProjectionProofs -----------------------
(***************************************************************************)
(* Proofs about the Meeting State projector: for every number of sessions, *)
(* captions and workers, every set of invalid captions and every bound.    *)
(***************************************************************************)
EXTENDS MeetingProjection, TLAPS

Buffers == [epoch : Epochs, segs : Caption, prio : BOOLEAN, ending : BOOLEAN, retry : BOOLEAN]

Meetings == [mode : {"inactive", "active", "draining", "completed"}, epoch : 0..MaxEpoch,
             frozen : BOOLEAN, frontier : Caption]

Heads == [version : Nat, content : Caption]

-----------------------------------------------------------------------------
(* The operators.                                                          *)

\* The empty caption vector and the empty buffer.
LEMMA Empties == /\ None \in Caption /\ NoBuffer \in Buffers /\ NoBuffer.epoch = NoEpoch
                 /\ NoEpoch \in Epochs /\ \A g \in Segments : None[g] = 0 /\ NoBuffer.segs[g] = 0
BY ProjectionAssumption DEF None, Caption, NoBuffer, Buffers, NoEpoch, Epochs

\* The later of two vectors is one of them at each caption, and not below either.
LEMMA LaterFacts ==
  ASSUME NEW a \in Caption, NEW b \in Caption
  PROVE  /\ Later(a, b) \in Caption
         /\ \A g \in Segments : /\ Later(a, b)[g] \in {a[g], b[g]}
                                /\ Later(a, b)[g] >= a[g] /\ Later(a, b)[g] >= b[g]
BY ProjectionAssumption DEF Later, Caption

\* A buffer whose captions change.
LEMMA BufferWith ==
  ASSUME NEW b \in Buffers, NEW segs \in Caption
  PROVE  LET c == [b EXCEPT !.segs = segs]
         IN c \in Buffers /\ c.epoch = b.epoch /\ c.segs = segs
BY DEF Buffers

\* _buffer_segments: each caption is the buffered, the new one or none, and a buffer
\* that takes captions is of their epoch and holds the later ones.
LEMMA BufferedFacts ==
  ASSUME NEW b \in Buffers, NEW e \in Epochs, NEW segs \in Caption
  PROVE  LET c == Buffered(b, e, segs)
         IN /\ c \in Buffers
            /\ \A g \in Segments : c.segs[g] \in {0, b.segs[g], segs[g]} /\ c.segs[g] >= segs[g]
            /\ segs = None => c = b
            /\ segs # None => c.epoch = e
            /\ b.epoch = e => c.epoch = e /\ \A g \in Segments : c.segs[g] >= b.segs[g]
<1> DEFINE base == IF b.epoch = e THEN b ELSE [NoBuffer EXCEPT !.epoch = e]
<1>1. base \in Buffers /\ base.epoch = e /\ (b.epoch = e => base = b) /\ \A g \in Segments : base.segs[g] \in {0, b.segs[g]}
  <2>1. CASE b.epoch = e
    BY <2>1
  <2>2. CASE b.epoch # e
    <3>1. [NoBuffer EXCEPT !.epoch = e] = [epoch |-> e, segs |-> None, prio |-> FALSE, ending |-> FALSE, retry |-> FALSE]
      <4> PICK f \in BOOLEAN : f = FALSE
        OBVIOUS
      <4>1. [[epoch |-> NoEpoch, segs |-> None, prio |-> f, ending |-> f, retry |-> f] EXCEPT !.epoch = e]
            = [epoch |-> e, segs |-> None, prio |-> f, ending |-> f, retry |-> f]
        OBVIOUS
      <4> QED
        BY <4>1, Zenon DEF NoBuffer
    <3> QED
      BY <2>2, <3>1, Empties DEF Buffers
  <2> QED
    BY <2>1, <2>2
<1>2. base.segs \in Caption /\ b.segs \in Caption
  BY <1>1 DEF Buffers
<1>3. Buffered(b, e, segs) = IF segs = None THEN b ELSE [base EXCEPT !.segs = Later(base.segs, segs)]
  BY DEF Buffered
<1> HIDE DEF base
<1>4. CASE segs = None
  BY <1>2, <1>3, <1>4, Empties, ProjectionAssumption DEF Caption
<1>5. CASE segs # None
  <2> PICK l : l = Later(base.segs, segs)
    OBVIOUS
  <2>1. l \in Caption /\ \A g \in Segments : l[g] \in {base.segs[g], segs[g]} /\ l[g] >= base.segs[g] /\ l[g] >= segs[g]
    BY <1>2, LaterFacts
  <2> PICK c : c = Buffered(b, e, segs)
    OBVIOUS
  <2>2. c \in Buffers /\ c.epoch = e /\ c.segs = l
    BY <1>1, <1>3, <1>5, <2>1, BufferWith
  <2> QED
    BY <1>1, <1>5, <2>1, <2>2
<1> QED
  BY <1>4, <1>5

\* _acknowledge: a caption no newer than the batch goes.
LEMMA AckFacts ==
  ASSUME NEW b \in Buffers, NEW batch \in Caption
  PROVE  /\ Ack(b, batch) \in Buffers /\ Ack(b, batch).epoch = b.epoch
         /\ \A g \in Segments : Ack(b, batch).segs[g] = IF b.segs[g] <= batch[g] THEN 0 ELSE b.segs[g]
<1> DEFINE left == [g \in Segments |-> IF b.segs[g] <= batch[g] THEN 0 ELSE b.segs[g]]
<1>1. left \in Caption /\ \A g \in Segments : left[g] = IF b.segs[g] <= batch[g] THEN 0 ELSE b.segs[g]
  BY ProjectionAssumption DEF Buffers, Caption
<1>2. Ack(b, batch) = [b EXCEPT !.segs = left, !.retry = FALSE, !.prio = b.prio /\ left # None]
  BY DEF Ack
<1> HIDE DEF left
<1>3. b = [epoch |-> b.epoch, segs |-> b.segs, prio |-> b.prio, ending |-> b.ending, retry |-> b.retry]
  BY DEF Buffers
<1> PICK p \in BOOLEAN : p = (b.prio /\ left # None)
  OBVIOUS
<1>4. Ack(b, batch) = [epoch |-> b.epoch, segs |-> left, prio |-> p, ending |-> b.ending, retry |-> FALSE]
  BY <1>2, <1>3
<1>5. Ack(b, batch) \in Buffers
  BY <1>1, <1>4 DEF Buffers
<1> QED
  BY <1>1, <1>4, <1>5

\* A buffer whose epoch or flags change.
LEMMA BufferFlags ==
  ASSUME NEW b \in Buffers, NEW e \in Epochs
  PROVE  /\ LET c == [b EXCEPT !.epoch = e, !.prio = TRUE] IN c \in Buffers /\ c.epoch = e /\ c.segs = b.segs
         /\ LET c == [b EXCEPT !.ending = TRUE] IN c \in Buffers /\ c.epoch = b.epoch /\ c.segs = b.segs
         /\ LET c == [b EXCEPT !.retry = TRUE] IN c \in Buffers /\ c.epoch = b.epoch /\ c.segs = b.segs
<1>1. b = [epoch |-> b.epoch, segs |-> b.segs, prio |-> b.prio, ending |-> b.ending, retry |-> b.retry]
  BY DEF Buffers
<1>2. b.epoch \in Epochs /\ b.segs \in Caption
  BY DEF Buffers
<1>3. PICK f1 \in BOOLEAN, f2 \in BOOLEAN, f3 \in BOOLEAN, t \in BOOLEAN :
        f1 = b.prio /\ f2 = b.ending /\ f3 = b.retry /\ t = TRUE
  BY DEF Buffers
<1>4. b = [epoch |-> b.epoch, segs |-> b.segs, prio |-> f1, ending |-> f2, retry |-> f3]
  BY <1>1, <1>3, Zenon
<1>p. PICK e0, s0 : e0 = b.epoch /\ s0 = b.segs
  OBVIOUS
<1>r. PICK r : r = [epoch |-> e0, segs |-> s0, prio |-> f1, ending |-> f2, retry |-> f3]
  OBVIOUS
<1>q1. [r EXCEPT !.epoch = e, !.prio = t] = [epoch |-> e, segs |-> s0, prio |-> t, ending |-> f2, retry |-> f3]
  <2>1. [r EXCEPT !.epoch = e] = [epoch |-> e, segs |-> s0, prio |-> f1, ending |-> f2, retry |-> f3]
    BY <1>r
  <2>2. [[epoch |-> e, segs |-> s0, prio |-> f1, ending |-> f2, retry |-> f3] EXCEPT !.prio = t]
        = [epoch |-> e, segs |-> s0, prio |-> t, ending |-> f2, retry |-> f3]
    OBVIOUS
  <2>3. [r EXCEPT !.epoch = e, !.prio = t] = [[r EXCEPT !.epoch = e] EXCEPT !.prio = t]
    OBVIOUS
  <2> QED
    BY <2>1, <2>2, <2>3, Zenon
<1>q2. [r EXCEPT !.ending = t] = [epoch |-> e0, segs |-> s0, prio |-> f1, ending |-> t, retry |-> f3]
  BY <1>r
<1>q3. [r EXCEPT !.retry = t] = [epoch |-> e0, segs |-> s0, prio |-> f1, ending |-> f2, retry |-> t]
  BY <1>r
<1>e. b = r
  BY <1>4, <1>r, <1>p, Zenon
<1>5. /\ [b EXCEPT !.epoch = e, !.prio = t] = [epoch |-> e, segs |-> s0, prio |-> t, ending |-> f2, retry |-> f3]
      /\ [b EXCEPT !.ending = t] = [epoch |-> e0, segs |-> s0, prio |-> f1, ending |-> t, retry |-> f3]
      /\ [b EXCEPT !.retry = t] = [epoch |-> e0, segs |-> s0, prio |-> f1, ending |-> f2, retry |-> t]
  BY <1>e, <1>q1, <1>q2, <1>q3, <1>p, Zenon
<1>6. /\ LET c == [b EXCEPT !.epoch = e, !.prio = t] IN c \in Buffers /\ c.epoch = e /\ c.segs = b.segs
      /\ LET c == [b EXCEPT !.ending = t] IN c \in Buffers /\ c.epoch = b.epoch /\ c.segs = b.segs
      /\ LET c == [b EXCEPT !.retry = t] IN c \in Buffers /\ c.epoch = b.epoch /\ c.segs = b.segs
  BY <1>2, <1>p, <1>5 DEF Buffers
<1> QED
  BY <1>3, <1>6, Zenon

\* The row of an analysis that is finished, and of one whose session has ended.
Finished(m) == [m EXCEPT !.mode = "completed"]

Froze(m, line) == [m EXCEPT !.mode = "draining", !.frozen = TRUE, !.frontier = line]

\* A row of the plugin's session that ends, completes or is frozen.
LEMMA MeetingRows ==
  ASSUME NEW m \in Meetings, NEW f \in Caption
  PROVE  /\ m.epoch < MaxEpoch => /\ Stopped(m) \in Meetings /\ Stopped(m).epoch = m.epoch + 1
                                 /\ Stopped(m).mode = "inactive"
         /\ /\ Finished(m) \in Meetings /\ Finished(m).mode = "completed"
            /\ Finished(m).epoch = m.epoch /\ Finished(m).frontier = m.frontier
         /\ /\ Froze(m, f) \in Meetings /\ Froze(m, f).mode = "draining"
            /\ Froze(m, f).epoch = m.epoch /\ Froze(m, f).frozen /\ Froze(m, f).frontier = f
<1>1. m = [mode |-> m.mode, epoch |-> m.epoch, frozen |-> m.frozen, frontier |-> m.frontier]
  BY DEF Meetings
<1>2. m.mode \in {"inactive", "active", "draining", "completed"} /\ m.epoch \in 0..MaxEpoch /\ m.frontier \in Caption
  BY DEF Meetings
<1>3. PICK z \in BOOLEAN, t \in BOOLEAN : z = m.frozen /\ t = TRUE
  BY DEF Meetings
<1>4. m = [mode |-> m.mode, epoch |-> m.epoch, frozen |-> z, frontier |-> m.frontier]
  BY <1>1, <1>3, Zenon
<1>p. PICK m0, e0, n0, f0 : m0 = m.mode /\ e0 = m.epoch /\ n0 = m.epoch + 1 /\ f0 = m.frontier
  OBVIOUS
<1>r. PICK r : r = [mode |-> m0, epoch |-> e0, frozen |-> z, frontier |-> f0]
  OBVIOUS
<1>q1. [r EXCEPT !.mode = "inactive", !.epoch = n0] = [mode |-> "inactive", epoch |-> n0, frozen |-> z, frontier |-> f0]
  <2>1. [r EXCEPT !.mode = "inactive"] = [mode |-> "inactive", epoch |-> e0, frozen |-> z, frontier |-> f0]
    BY <1>r
  <2>2. [[mode |-> "inactive", epoch |-> e0, frozen |-> z, frontier |-> f0] EXCEPT !.epoch = n0]
        = [mode |-> "inactive", epoch |-> n0, frozen |-> z, frontier |-> f0]
    OBVIOUS
  <2>3. [r EXCEPT !.mode = "inactive", !.epoch = n0] = [[r EXCEPT !.mode = "inactive"] EXCEPT !.epoch = n0]
    OBVIOUS
  <2> QED
    BY <2>1, <2>2, <2>3, Zenon
<1>q2. [r EXCEPT !.mode = "completed"] = [mode |-> "completed", epoch |-> e0, frozen |-> z, frontier |-> f0]
  BY <1>r
<1>q3. [r EXCEPT !.mode = "draining", !.frozen = t, !.frontier = f]
       = [mode |-> "draining", epoch |-> e0, frozen |-> t, frontier |-> f]
  <2>1. [r EXCEPT !.mode = "draining"] = [mode |-> "draining", epoch |-> e0, frozen |-> z, frontier |-> f0]
    BY <1>r
  <2>2. [[mode |-> "draining", epoch |-> e0, frozen |-> z, frontier |-> f0] EXCEPT !.frozen = t]
        = [mode |-> "draining", epoch |-> e0, frozen |-> t, frontier |-> f0]
    OBVIOUS
  <2>3. [[mode |-> "draining", epoch |-> e0, frozen |-> t, frontier |-> f0] EXCEPT !.frontier = f]
        = [mode |-> "draining", epoch |-> e0, frozen |-> t, frontier |-> f]
    OBVIOUS
  <2>4. [r EXCEPT !.mode = "draining", !.frozen = t, !.frontier = f]
        = [[[r EXCEPT !.mode = "draining"] EXCEPT !.frozen = t] EXCEPT !.frontier = f]
    OBVIOUS
  <2> QED
    BY <2>1, <2>2, <2>3, <2>4, Zenon
<1>e. m = r
  BY <1>4, <1>r, <1>p, Zenon
<1>5. /\ [m EXCEPT !.mode = "inactive", !.epoch = m.epoch + 1]
         = [mode |-> "inactive", epoch |-> n0, frozen |-> z, frontier |-> f0]
      /\ [m EXCEPT !.mode = "completed"] = [mode |-> "completed", epoch |-> e0, frozen |-> z, frontier |-> f0]
      /\ [m EXCEPT !.mode = "draining", !.frozen = t, !.frontier = f]
         = [mode |-> "draining", epoch |-> e0, frozen |-> t, frontier |-> f]
  BY <1>e, <1>q1, <1>q2, <1>q3, <1>p, Zenon
<1>6. m.epoch < MaxEpoch => m.epoch + 1 \in 0..MaxEpoch
  BY <1>2, ProjectionAssumption
<1>7. m.epoch < MaxEpoch => /\ Stopped(m) \in Meetings /\ Stopped(m).epoch = m.epoch + 1
                            /\ Stopped(m).mode = "inactive"
  BY <1>2, <1>p, <1>5, <1>6 DEF Stopped, Meetings
<1>8. /\ Finished(m) \in Meetings /\ Finished(m).mode = "completed"
      /\ Finished(m).epoch = m.epoch /\ Finished(m).frontier = m.frontier
  BY <1>2, <1>p, <1>5 DEF Meetings, Finished
<1>9. LET c == [m EXCEPT !.mode = "draining", !.frozen = t, !.frontier = f]
      IN c \in Meetings /\ c.mode = "draining" /\ c.epoch = m.epoch /\ c.frozen = t /\ c.frontier = f
  BY <1>2, <1>p, <1>5 DEF Meetings
<1>10. /\ Froze(m, f) \in Meetings /\ Froze(m, f).mode = "draining"
       /\ Froze(m, f).epoch = m.epoch /\ Froze(m, f).frozen /\ Froze(m, f).frontier = f
  BY <1>3, <1>9, Zenon DEF Froze
<1> QED
  BY <1>7, <1>8, <1>10

\* _validated_snapshots over captions beyond their offsets: an offset stays or moves
\* to an invalid caption, and what is passed on has an offset that stayed.
LEMMA SkipFacts ==
  ASSUME NEW off \in Caption, NEW p \in Caption, \A g \in Segments : p[g] = 0 \/ p[g] > off[g]
  PROVE  /\ Skipped(p) \in Caption /\ Valid(p) \in Caption /\ Later(off, Skipped(p)) \in Caption
         /\ \A g \in Segments :
              LET d == Later(off, Skipped(p))[g]
              IN /\ d \in {off[g], p[g]} /\ d >= off[g]
                 /\ d = off[g] \/ <<g, d>> \in Invalid
                 /\ Valid(p)[g] \in {0, p[g]}
                 /\ Valid(p)[g] # 0 => d = off[g]
                 /\ p[g] # 0 => d = p[g] \/ Valid(p)[g] = p[g]
<1>1. /\ Skipped(p) \in Caption /\ Valid(p) \in Caption
      /\ \A g \in Segments :
           /\ <<g, p[g]>> \in Invalid => (Skipped(p)[g] = p[g] /\ Valid(p)[g] = 0)
           /\ <<g, p[g]>> \notin Invalid => (Skipped(p)[g] = 0 /\ Valid(p)[g] = p[g])
  BY ProjectionAssumption DEF Skipped, Valid, Caption
<1>2. /\ Later(off, Skipped(p)) \in Caption
      /\ \A g \in Segments : /\ Later(off, Skipped(p))[g] \in {off[g], Skipped(p)[g]}
                             /\ Later(off, Skipped(p))[g] >= off[g] /\ Later(off, Skipped(p))[g] >= Skipped(p)[g]
  BY <1>1, LaterFacts
<1>3. ASSUME NEW g \in Segments
      PROVE  /\ Later(off, Skipped(p))[g] \in {off[g], p[g]} /\ Later(off, Skipped(p))[g] >= off[g]
             /\ Later(off, Skipped(p))[g] = off[g] \/ <<g, Later(off, Skipped(p))[g]>> \in Invalid
             /\ Valid(p)[g] \in {0, p[g]}
             /\ Valid(p)[g] # 0 => Later(off, Skipped(p))[g] = off[g]
             /\ p[g] # 0 => Later(off, Skipped(p))[g] = p[g] \/ Valid(p)[g] = p[g]
  <2>1. PICK o \in Nat, q \in Nat, k \in Nat, d \in Nat :
          o = off[g] /\ q = p[g] /\ k = Skipped(p)[g] /\ d = Later(off, Skipped(p))[g]
    BY <1>1, <1>2, ProjectionAssumption DEF Caption
  <2>2. d \in {o, k} /\ d >= o /\ d >= k /\ (q = 0 \/ q > o)
    BY <1>2, <2>1
  <2>3. CASE <<g, q>> \in Invalid
    <3>1. k = q /\ Valid(p)[g] = 0
      BY <1>1, <2>1, <2>3
    <3>2. (q = 0 => d = o) /\ (q # 0 => d = q)
      BY <2>2, <3>1
    <3> QED
      BY <2>1, <2>2, <2>3, <3>1, <3>2
  <2>4. CASE <<g, q>> \notin Invalid
    <3>1. k = 0 /\ Valid(p)[g] = q
      BY <1>1, <2>1, <2>4
    <3>2. d = o
      BY <2>2, <3>1
    <3> QED
      BY <2>1, <2>2, <3>1, <3>2
  <2> QED
    BY <2>3, <2>4
<1> QED
  BY <1>1, <1>2, <1>3

-----------------------------------------------------------------------------
(* The inductive invariant.                                                *)

Below(a, b) == \A g \in Segments : a[g] <= b[g]

\* What is to be projected is newer than the offset, unless a later caption was skipped.
Ahead(a, done) == \A g \in Segments : a[g] # 0 => done[g] < a[g] \/ <<g, done[g]>> \in Invalid

\* Offsets and buffers of a session never run before its captions.
CaptionsLead(s) ==
  /\ Below(offset[s], rev[s]) /\ Below(buffer[s].segs, rev[s])
  /\ Ahead(buffer[s].segs, offset[s])

\* The row of an analysis: only a frozen one drains, and never beyond its frontier.
RowFits(s) ==
  /\ meeting[s].mode = "active" => ~meeting[s].frozen
  /\ meeting[s].mode = "draining" => meeting[s].frozen /\ Below(offset[s], meeting[s].frontier)
  /\ meeting[s].mode = "completed" => offset[s] = meeting[s].frontier
  /\ seen[s] <= meeting[s].epoch

\* A batch at the extractor is of revisions the session has, ahead of its offsets.
BatchFits(w) ==
  Busy(w) => /\ Below(worker[w].batch, rev[worker[w].session])
             /\ Ahead(worker[w].batch, offset[worker[w].session])

SessionsFit == \A s \in Sessions : CaptionsLead(s) /\ RowFits(s)

ProjectionInv ==
  TypeOK /\ SingleWriter /\ HeadMatchesOffsets /\ SessionsFit /\ \A w \in Workers : BatchFits(w)

\* The types by their names.
LEMMA TypesAre ==
  TypeOK <=>
    /\ rev \in [Sessions -> Caption] /\ offset \in [Sessions -> Caption]
    /\ recent \in [Sessions -> SUBSET Segments]
    /\ life \in [Sessions -> {"live", "finalizing", "ended"}] /\ up \in BOOLEAN
    /\ meeting \in [Sessions -> Meetings] /\ head \in [Sessions -> Heads]
    /\ buffer \in [Sessions -> Buffers] /\ seen \in [Sessions -> Epochs]
    /\ scheduled \in [Sessions -> {"none", "normal", "priority"}]
    /\ worker \in [Workers -> Jobs \cup {Idle, Dead}]
    /\ waiters \in [Sessions -> SUBSET Targets] /\ answered \in [Sessions -> Targets]
    /\ faults \in 0..MaxFaults
BY DEF TypeOK, Meetings, Heads, Buffers

\* Nothing is captured, projected or under way at first.
LEMMA ProjectionStarts == Init => ProjectionInv
<1> SUFFICES ASSUME Init PROVE ProjectionInv
  OBVIOUS
<1>1. TypeOK
  <2>1. rev \in [Sessions -> Caption] /\ offset \in [Sessions -> Caption]
    BY Empties DEF Init
  <2>2. /\ recent \in [Sessions -> SUBSET Segments] /\ life \in [Sessions -> {"live", "finalizing", "ended"}]
        /\ seen \in [Sessions -> Epochs] /\ scheduled \in [Sessions -> {"none", "normal", "priority"}]
        /\ worker \in [Workers -> Jobs \cup {Idle, Dead}] /\ waiters \in [Sessions -> SUBSET Targets]
        /\ faults \in 0..MaxFaults
    BY Empties, ProjectionAssumption DEF Init
  <2>3. up \in BOOLEAN
    BY Zenon DEF Init
  <2>4. [mode |-> "inactive", epoch |-> 0, frozen |-> FALSE, frontier |-> None] \in Meetings
    BY Empties, ProjectionAssumption DEF Meetings
  <2>5. meeting \in [Sessions -> Meetings]
    BY <2>4, Zenon DEF Init
  <2>6. head \in [Sessions -> Heads]
    BY Empties DEF Init, Heads
  <2>7. buffer \in [Sessions -> Buffers]
    BY Empties DEF Init
  <2>8. answered \in [Sessions -> Targets]
    BY Empties DEF Init, Unanswered, Targets
  <2> QED
    BY <2>1, <2>2, <2>3, <2>5, <2>6, <2>7, <2>8, TypesAre
<1>2. \A w \in Workers : ~Busy(w)
  BY DEF Init, Busy
<1>3. SingleWriter /\ \A w \in Workers : BatchFits(w)
  BY <1>2 DEF SingleWriter, BatchFits
<1>4. HeadMatchesOffsets
  BY Empties DEF Init, HeadMatchesOffsets
<1>5. SessionsFit
  <2> SUFFICES ASSUME NEW s \in Sessions PROVE CaptionsLead(s) /\ RowFits(s)
    BY DEF SessionsFit
  <2>1. CaptionsLead(s)
    BY Empties DEF Init, CaptionsLead, Below, Ahead
  <2>2. meeting[s].mode = "inactive" /\ meeting[s].epoch = 0 /\ seen[s] = -1
    BY DEF Init, NoEpoch
  <2>3. RowFits(s)
    BY <2>2 DEF RowFits
  <2> QED
    BY <2>1, <2>3
<1> QED
  BY <1>1, <1>3, <1>4, <1>5 DEF ProjectionInv

\* The row of a stopped analysis.
LEMMA StoppedRow ==
  ASSUME NEW m \in Meetings, m.epoch < MaxEpoch
  PROVE  Stopped(m) \in Meetings /\ Stopped(m).epoch = m.epoch + 1 /\ Stopped(m).mode = "inactive"
<1> QED
  BY MeetingRows, Empties, Zenon

\* A caption may run ahead of everything.
LEMMA FinalCaptionStep ==
  ASSUME ProjectionInv, NEW s \in Sessions, NEW g \in Segments, FinalCaption(s, g)
  PROVE  ProjectionInv'
<1>0. UNCHANGED <<life, up, meeting, offset, head, memory, faults>>
  BY DEF FinalCaption
<1>a. rev \in [Sessions -> Caption] /\ offset \in [Sessions -> Caption] /\ buffer \in [Sessions -> Buffers]
      /\ recent \in [Sessions -> SUBSET Segments] /\ worker \in [Workers -> Jobs \cup {Idle, Dead}]
  BY TypesAre DEF ProjectionInv
<1>1. /\ rev[s][g] < MaxRevision /\ rev' = [rev EXCEPT ![s][g] = @ + 1]
      /\ recent' \in [Sessions -> SUBSET Segments]
  BY <1>a DEF FinalCaption
<1>2. rev' \in [Sessions -> Caption] /\ \A t \in Sessions : Below(rev[t], rev'[t])
  BY <1>a, <1>1, ProjectionAssumption DEF Caption, Below
<1>3. TypeOK'
  BY <1>0, <1>1, <1>2 DEF ProjectionInv, TypeOK, memory
<1>4. \A t \in Sessions : \A a \in Caption : Below(a, rev[t]) => Below(a, rev'[t])
  BY <1>a, <1>2, ProjectionAssumption DEF Below, Caption
<1>5. SessionsFit'
  <2> SUFFICES ASSUME NEW t \in Sessions PROVE CaptionsLead(t)' /\ RowFits(t)'
    BY DEF SessionsFit
  <2>1. buffer[t].segs \in Caption /\ offset[t] \in Caption
    BY <1>a DEF Buffers
  <2>2. CaptionsLead(t)'
    BY <2>1, <1>0, <1>4 DEF ProjectionInv, SessionsFit, CaptionsLead, memory
  <2>3. RowFits(t)'
    BY <1>0 DEF ProjectionInv, SessionsFit, RowFits, memory
  <2> QED
    BY <2>2, <2>3
<1>6. \A w \in Workers : BatchFits(w)'
  <2> SUFFICES ASSUME NEW w \in Workers, Busy(w)
               PROVE  Below(worker[w].batch, rev'[worker[w].session]) /\ Ahead(worker[w].batch, offset[worker[w].session])
    BY <1>0 DEF BatchFits, Busy, memory
  <2>1. worker[w].batch \in Caption /\ worker[w].session \in Sessions
    BY <1>a DEF Busy, Jobs
  <2> QED
    BY <2>1, <1>4 DEF ProjectionInv, BatchFits
<1> QED
  BY <1>0, <1>3, <1>5, <1>6 DEF ProjectionInv, SingleWriter, HeadMatchesOffsets, Busy, memory

\* Steps of which the invariant sees nothing but a type.
LEMMA QuietSteps ==
  ASSUME ProjectionInv,
         \/ \E s \in Sessions, l \in {"finalizing", "ended"} : EndSession(s, l)
         \/ RuntimeDown \/ RuntimeReady
  PROVE  ProjectionInv'
<1>0. UNCHANGED <<rev, recent, meeting, offset, head, memory>>
  BY DEF EndSession, RuntimeDown, RuntimeReady
<1>1. life' \in [Sessions -> {"live", "finalizing", "ended"}] /\ faults' \in 0..MaxFaults
  <2>1. life \in [Sessions -> {"live", "finalizing", "ended"}] /\ faults \in 0..MaxFaults
    BY TypesAre DEF ProjectionInv
  <2>2. CASE \E s \in Sessions, l \in {"finalizing", "ended"} : EndSession(s, l)
    BY <2>1, <2>2 DEF EndSession
  <2>3. CASE RuntimeDown \/ RuntimeReady
    <3>1. life' = life /\ (faults' = faults \/ (faults < MaxFaults /\ faults' = faults + 1))
      BY <2>3, Zenon DEF RuntimeDown, RuntimeReady
    <3> QED
      BY <2>1, <3>1, ProjectionAssumption
  <2> QED
    BY <2>2, <2>3
<1>2. up' \in BOOLEAN
  BY Zenon DEF EndSession, RuntimeDown, RuntimeReady, ProjectionInv, TypeOK
<1>3. TypeOK'
  BY <1>0, <1>1, <1>2 DEF ProjectionInv, TypeOK, memory
<1> QED
  BY <1>0, <1>3 DEF ProjectionInv, SingleWriter, HeadMatchesOffsets, SessionsFit, CaptionsLead, RowFits, BatchFits,
     Busy, memory

\* Stopping an analysis, one or all, makes its row inactive.
LEMMA StopSteps ==
  ASSUME ProjectionInv, (\E s \in Sessions : Stop(s)) \/ Disable
  PROVE  ProjectionInv'
<1>0. UNCHANGED <<rev, recent, life, offset, head, memory, faults>>
  BY DEF Stop, Disable
<1>a. meeting \in [Sessions -> Meetings] /\ seen \in [Sessions -> Epochs]
  BY TypesAre DEF ProjectionInv
<1>b. \A t \in Sessions : meeting[t].epoch \in 0..MaxEpoch /\ seen[t] <= meeting[t].epoch
  BY <1>a DEF ProjectionInv, SessionsFit, RowFits, Meetings
<1>1. \A t \in Sessions : meeting'[t] # meeting[t] =>
        meeting[t].epoch < MaxEpoch /\ meeting'[t] = Stopped(meeting[t])
  BY <1>a DEF Stop, Disable
<1>2. \A t \in Sessions : meeting'[t] \in Meetings
  BY <1>a, <1>1, StoppedRow
<1>3. meeting' \in [Sessions -> Meetings]
  <2>1. DOMAIN meeting' = Sessions /\ meeting' = [t \in Sessions |-> meeting'[t]]
    BY <1>a DEF Stop, Disable
  <2> QED
    BY <1>2, <2>1
<1>4. TypeOK'
  <2>1. up' \in BOOLEAN
    BY Zenon DEF Stop, Disable, ProjectionInv, TypeOK
  <2> QED
    BY <1>0, <1>3, <2>1, TypesAre DEF ProjectionInv, TypeOK, Meetings, memory
<1>5. SessionsFit'
  <2> SUFFICES ASSUME NEW t \in Sessions PROVE CaptionsLead(t)' /\ RowFits(t)'
    BY DEF SessionsFit
  <2>1. CaptionsLead(t)'
    BY <1>0 DEF ProjectionInv, SessionsFit, CaptionsLead, memory
  <2>2. CASE meeting'[t] = meeting[t]
    BY <2>1, <2>2, <1>0 DEF ProjectionInv, SessionsFit, RowFits, memory
  <2>3. CASE meeting[t].epoch < MaxEpoch /\ meeting'[t] = Stopped(meeting[t])
    <3>1. meeting'[t].mode = "inactive" /\ meeting'[t].epoch = meeting[t].epoch + 1
      BY <2>3, <1>a, StoppedRow
    <3>2. seen'[t] <= meeting'[t].epoch
      BY <3>1, <1>0, <1>a, <1>b, ProjectionAssumption DEF Epochs, NoEpoch, memory
    <3> QED
      BY <2>1, <3>1, <3>2 DEF RowFits
  <2> QED
    BY <1>1, <2>2, <2>3
<1> QED
  BY <1>0, <1>4, <1>5 DEF ProjectionInv, SingleWriter, HeadMatchesOffsets, BatchFits, Busy, memory

\* The lanes of the queue.
LEMMA ScheduledTyped ==
  ASSUME NEW s \in Sessions, NEW b, NEW late, scheduled[s] \in {"none", "normal", "priority"}
  PROVE  Scheduled(s, b, late) \in {"none", "normal", "priority"}
BY DEF Scheduled, Raised

\* A skipped caption leaves what is under way ahead.
LEMMA SkipKeepsAhead ==
  ASSUME NEW a, NEW off, NEW done, Ahead(a, off),
         \A g \in Segments : done[g] = off[g] \/ <<g, done[g]>> \in Invalid
  PROVE  Ahead(a, done)
BY DEF Ahead

\* A restart forgets what was in memory.
LEMMA RestartStep == ASSUME ProjectionInv, Restart PROVE ProjectionInv'
<1>0. UNCHANGED <<rev, recent, life, up, meeting, offset, head, answered>>
  BY DEF Restart, database
<1>1. \A w \in Workers : ~Busy(w)'
  BY DEF Restart, Busy
<1>2. TypeOK'
  <2>1. /\ buffer' \in [Sessions -> Buffers] /\ seen' \in [Sessions -> Epochs]
        /\ scheduled' \in [Sessions -> {"none", "normal", "priority"}]
        /\ worker' \in [Workers -> Jobs \cup {Idle, Dead}] /\ waiters' \in [Sessions -> SUBSET Targets]
    BY Empties DEF Restart
  <2>2. faults' \in 0..MaxFaults
    BY ProjectionAssumption DEF Restart, ProjectionInv, TypeOK
  <2> QED
    BY <1>0, <2>1, <2>2 DEF ProjectionInv, TypeOK, Buffers
<1>3. SessionsFit'
  <2> SUFFICES ASSUME NEW s \in Sessions PROVE CaptionsLead(s)' /\ RowFits(s)'
    BY DEF SessionsFit
  <2>1. rev[s] \in Caption /\ meeting[s].epoch \in 0..MaxEpoch
    BY TypesAre DEF ProjectionInv, Meetings
  <2>2. buffer'[s] = NoBuffer /\ seen'[s] = NoEpoch
    BY DEF Restart
  <2>3. CaptionsLead(s)'
    BY <2>1, <2>2, <1>0, Empties, ProjectionAssumption
       DEF ProjectionInv, SessionsFit, CaptionsLead, Below, Ahead, Caption
  <2>4. RowFits(s)'
    BY <2>1, <2>2, <1>0, ProjectionAssumption DEF ProjectionInv, SessionsFit, RowFits, NoEpoch
  <2> QED
    BY <2>3, <2>4
<1> QED
  BY <1>0, <1>1, <1>2, <1>3 DEF ProjectionInv, SingleWriter, HeadMatchesOffsets, BatchFits

\* What CatchUpAt makes of the offset and the buffer of its session.
LEMMA CaughtUp ==
  ASSUME ProjectionInv, NEW s \in Sessions, NEW e \in 0..MaxEpoch, NEW late, CatchUpAt(s, e, late)
  PROVE  \E done \in Caption, b \in Buffers :
           /\ offset' = [offset EXCEPT ![s] = done] /\ buffer' = [buffer EXCEPT ![s] = b]
           /\ Below(done, rev[s]) /\ Below(b.segs, rev[s]) /\ Ahead(b.segs, done) /\ b.epoch = e
           /\ \A g \in Segments : done[g] = offset[s][g] \/ <<g, done[g]>> \in Invalid
           /\ \A g \in Segments : rev[s][g] > done[g] => b.segs[g] = rev[s][g]
           /\ scheduled' \in [Sessions -> {"none", "normal", "priority"}]
           /\ waiters' \in [Sessions -> SUBSET Targets] /\ answered' \in [Sessions -> Targets]
           /\ \A t \in Sessions : answered'[t] # answered[t] =>
                t = s /\ answered'[s].epoch = e /\ Reaches(done, answered'[s].target)
<1>1. PICK r \in Caption : r = rev[s]
  BY TypesAre DEF ProjectionInv
<1>2. PICK o \in Caption : o = offset[s]
  BY TypesAre DEF ProjectionInv
<1>3. PICK b0 \in Buffers : b0 = buffer[s]
  BY TypesAre DEF ProjectionInv
<1>4. PICK p : p = Backlog(s, o)
  OBVIOUS
<1>5. p \in Caption /\ \A g \in Segments : (p[g] = 0 /\ ~(r[g] > o[g])) \/ (p[g] = r[g] /\ r[g] > o[g])
  BY <1>1, <1>4, ProjectionAssumption DEF Backlog, Caption
<1>6. \A g \in Segments : r[g] \in Nat /\ o[g] \in Nat /\ b0.segs[g] \in Nat /\ o[g] <= r[g] /\ b0.segs[g] <= r[g]
  BY <1>1, <1>2, <1>3, ProjectionAssumption DEF ProjectionInv, SessionsFit, CaptionsLead, Below, Caption, Buffers
<1>7. \A g \in Segments : p[g] = 0 \/ p[g] > o[g]
  BY <1>5
<1>8. PICK done : done = Later(o, Skipped(p))
  OBVIOUS
<1>9. PICK v : v = Valid(p)
  OBVIOUS
<1>10. /\ done \in Caption /\ v \in Caption
       /\ \A g \in Segments : /\ done[g] \in {o[g], p[g]} /\ done[g] >= o[g]
                              /\ done[g] = o[g] \/ <<g, done[g]>> \in Invalid
                              /\ v[g] \in {0, p[g]} /\ (v[g] # 0 => done[g] = o[g])
                              /\ p[g] # 0 => done[g] = p[g] \/ v[g] = p[g]
  BY <1>5, <1>7, <1>8, <1>9, SkipFacts, ZenonT(30)
<1>11. PICK c : c = Buffered(b0, e, v)
  OBVIOUS
<1>12. e \in Epochs
  BY ProjectionAssumption DEF Epochs, NoEpoch
<1>13. /\ c \in Buffers
       /\ \A g \in Segments : c.segs[g] \in {0, b0.segs[g], v[g]} /\ c.segs[g] >= v[g]
  BY <1>10, <1>11, <1>12, BufferedFacts
<1>14. PICK b : b = [c EXCEPT !.epoch = e, !.prio = TRUE]
  OBVIOUS
<1>15. b \in Buffers /\ b.epoch = e /\ b.segs = c.segs
  BY <1>12, <1>13, <1>14, BufferFlags, Zenon
<1>16. offset' = [offset EXCEPT ![s] = done] /\ buffer' = [buffer EXCEPT ![s] = b]
  BY <1>2, <1>3, <1>4, <1>8, <1>9, <1>11, <1>14, Zenon DEF CatchUpAt
<1>n. \A g \in Segments : done[g] \in Nat /\ p[g] \in Nat /\ v[g] \in Nat
  BY <1>5, <1>10, ProjectionAssumption DEF Caption
<1>17. Below(done, rev[s]) /\ Below(b.segs, rev[s])
  <2> SUFFICES ASSUME NEW g \in Segments PROVE done[g] <= r[g] /\ c.segs[g] <= r[g]
    BY <1>1, <1>15 DEF Below
  <2>1. p[g] <= r[g] /\ o[g] <= r[g] /\ b0.segs[g] <= r[g] /\ r[g] \in Nat
    BY <1>5, <1>6
  <2>0. v[g] \in {0, p[g]} /\ done[g] \in {o[g], p[g]} /\ c.segs[g] \in {0, b0.segs[g], v[g]}
    BY <1>10, <1>13
  <2>2. v[g] <= r[g]
    BY <2>0, <2>1
  <2> QED
    BY <2>0, <2>1, <2>2
<1>18. Ahead(b.segs, done)
  <2> SUFFICES ASSUME NEW g \in Segments, b.segs[g] # 0 PROVE done[g] < b.segs[g] \/ <<g, done[g]>> \in Invalid
    BY DEF Ahead
  <2>1. CASE b.segs[g] = b0.segs[g]
    <3>1. o[g] < b0.segs[g] \/ <<g, o[g]>> \in Invalid
      BY <1>2, <1>3, <2>1 DEF ProjectionInv, SessionsFit, CaptionsLead, Ahead
    <3> QED
      BY <2>1, <3>1, <1>10
  <2>2. CASE b.segs[g] = v[g]
    BY <2>2, <1>5, <1>6, <1>10
  <2> QED
    BY <2>1, <2>2, <1>13, <1>15
<1>19. \A g \in Segments : rev[s][g] > done[g] => b.segs[g] = rev[s][g]
  <2> SUFFICES ASSUME NEW g \in Segments, r[g] > done[g] PROVE b.segs[g] = r[g]
    BY <1>1
  <2>a. o[g] <= done[g] /\ r[g] \in Nat /\ o[g] \in Nat /\ done[g] \in Nat
    BY <1>6, <1>10, <1>n
  <2>1. p[g] = r[g] /\ p[g] # 0 /\ done[g] # p[g]
    BY <2>a, <1>5
  <2>2. v[g] = r[g]
    BY <2>1, <1>10
  <2>3. b.segs[g] >= r[g] /\ b.segs[g] \in {0, b0.segs[g], r[g]}
    BY <2>2, <1>13, <1>15
  <2> QED
    BY <2>3, <1>6
<1>20. scheduled' \in [Sessions -> {"none", "normal", "priority"}]
  <2>1. scheduled \in [Sessions -> {"none", "normal", "priority"}]
    BY TypesAre DEF ProjectionInv
  <2>2. \A b1 : Scheduled(s, b1, late) \in {"none", "normal", "priority"}
    BY <2>1, ScheduledTyped
  <2>3. scheduled' = scheduled \/ \E b1 : scheduled' = [scheduled EXCEPT ![s] = Scheduled(s, b1, late)]
    BY Zenon DEF CatchUpAt
  <2> QED
    BY <2>1, <2>2, <2>3
<1>21. /\ waiters' \in [Sessions -> SUBSET Targets] /\ answered' \in [Sessions -> Targets]
       /\ \A t \in Sessions : answered'[t] # answered[t] =>
            t = s /\ answered'[s].epoch = e /\ Reaches(done, answered'[s].target)
  <2>1. PICK mine : mine = waiters[s] \cup {[epoch |-> e, target |-> r]}
    OBVIOUS
  <2>2. mine \subseteq Targets
    <3>1. [epoch |-> e, target |-> r] \in Targets
      BY <1>1, <1>12 DEF Targets
    <3> QED
      BY <2>1, <3>1, TypesAre DEF ProjectionInv
  <2>3. waiters' = [waiters EXCEPT ![s] = Pending(mine, e, TRUE, done)]
    BY <2>1, <1>1, <1>2, <1>4, <1>8, Zenon DEF CatchUpAt
  <2>4. answered' = answered \/ \E t \in Resolved(mine, e, done) : answered' = [answered EXCEPT ![s] = t]
    BY <2>1, <1>1, <1>2, <1>4, <1>8, Zenon DEF CatchUpAt
  <2>5. Pending(mine, e, TRUE, done) \subseteq Targets
    BY <2>2 DEF Pending
  <2>6. \A t \in Resolved(mine, e, done) : t \in Targets /\ t.epoch = e /\ Reaches(done, t.target)
    BY <2>2 DEF Resolved
  <2>7. waiters \in [Sessions -> SUBSET Targets] /\ answered \in [Sessions -> Targets]
    BY TypesAre DEF ProjectionInv
  <2> QED
    BY <2>3, <2>4, <2>5, <2>6, <2>7
<1> QED
  BY <1>10, <1>2, <1>15, <1>16, <1>17, <1>18, <1>19, <1>20, <1>21

\* A catch-up, alone or with the activation it belongs to.
LEMMA CatchUpSteps ==
  ASSUME ProjectionInv, NEW s \in Sessions, NEW late, CatchUp(s, late) \/ Activate(s, late)
  PROVE  ProjectionInv'
<1>t. /\ rev \in [Sessions -> Caption] /\ offset \in [Sessions -> Caption]
      /\ buffer \in [Sessions -> Buffers] /\ meeting \in [Sessions -> Meetings]
      /\ seen \in [Sessions -> Epochs] /\ worker \in [Workers -> Jobs \cup {Idle, Dead}]
  BY TypesAre DEF ProjectionInv
<1>a. meeting[s].epoch \in 0..MaxEpoch /\ seen[s] \in Epochs /\ seen[s] <= meeting[s].epoch
  BY <1>t DEF ProjectionInv, SessionsFit, RowFits, Meetings
<1>1. PICK e \in 0..MaxEpoch :
        /\ CatchUpAt(s, e, late) /\ meeting' \in [Sessions -> Meetings]
        /\ \A t \in Sessions : t # s => meeting'[t] = meeting[t]
        /\ meeting'[s].mode = "active" /\ meeting'[s].frozen = FALSE /\ meeting'[s].epoch = e /\ seen[s] <= e
  <2>1. CASE CatchUp(s, late)
    <3>1. meeting' = meeting /\ CatchUpAt(s, meeting[s].epoch, late) /\ meeting[s].mode = "active"
      BY <2>1 DEF CatchUp
    <3>2. meeting[s].frozen = FALSE
      BY <3>1, <1>t DEF ProjectionInv, SessionsFit, RowFits, Meetings
    <3> QED
      BY <3>1, <3>2, <1>t, <1>a
  <2>2. CASE Activate(s, late)
    <3>1. PICK m : m = [mode |-> "active", epoch |-> meeting[s].epoch + 1, frozen |-> FALSE, frontier |-> None]
      OBVIOUS
    <3>2. meeting[s].epoch < MaxEpoch /\ CatchUpAt(s, meeting[s].epoch + 1, late) /\ meeting' = [meeting EXCEPT ![s] = m]
      BY <2>2, <3>1 DEF Activate
    <3>3. meeting[s].epoch + 1 \in 0..MaxEpoch /\ seen[s] <= meeting[s].epoch + 1
      BY <3>2, <1>a, ProjectionAssumption DEF Epochs, NoEpoch
    <3>4. m \in Meetings /\ m.mode = "active" /\ m.epoch = meeting[s].epoch + 1 /\ m.frozen = FALSE
      BY <3>1, <3>3, Empties DEF Meetings
    <3>5. meeting' \in [Sessions -> Meetings] /\ meeting'[s] = m /\ \A t \in Sessions : t # s => meeting'[t] = meeting[t]
      BY <3>2, <3>4, <1>t
    <3> QED
      BY <3>2, <3>3, <3>4, <3>5
  <2> QED
    BY <2>1, <2>2
<1>2. PICK done \in Caption, b \in Buffers :
           /\ offset' = [offset EXCEPT ![s] = done] /\ buffer' = [buffer EXCEPT ![s] = b]
           /\ Below(done, rev[s]) /\ Below(b.segs, rev[s]) /\ Ahead(b.segs, done) /\ b.epoch = e
           /\ \A g \in Segments : done[g] = offset[s][g] \/ <<g, done[g]>> \in Invalid
           /\ scheduled' \in [Sessions -> {"none", "normal", "priority"}]
           /\ waiters' \in [Sessions -> SUBSET Targets] /\ answered' \in [Sessions -> Targets]
  BY <1>1, CaughtUp
<1>3. UNCHANGED <<rev, recent, life, up, head, seen, worker, faults>>
  BY <1>1 DEF CatchUpAt
<1>4. TypeOK'
  <2>1. offset' \in [Sessions -> Caption] /\ buffer' \in [Sessions -> Buffers]
    BY <1>2, <1>t
  <2> QED
    BY <2>1, <1>1, <1>2, <1>3, Zenon DEF ProjectionInv, TypeOK, Buffers, Meetings
<1>5. HeadMatchesOffsets'
  <2> SUFFICES ASSUME NEW t \in Sessions, NEW g \in Segments
               PROVE  head[t].content[g] = offset'[t][g] \/ <<g, offset'[t][g]>> \in Invalid
    BY <1>3 DEF HeadMatchesOffsets
  <2>1. head[t].content[g] = offset[t][g] \/ <<g, offset[t][g]>> \in Invalid
    BY DEF ProjectionInv, HeadMatchesOffsets
  <2>2. offset'[t][g] = offset[t][g] \/ <<g, offset'[t][g]>> \in Invalid
    BY <1>2, <1>t
  <2> QED
    BY <2>1, <2>2
<1>6. SessionsFit'
  <2> SUFFICES ASSUME NEW t \in Sessions PROVE CaptionsLead(t)' /\ RowFits(t)'
    BY DEF SessionsFit
  <2>1. CASE t = s
    <3>1. offset'[t] = done /\ buffer'[t] = b
      BY <2>1, <1>2, <1>t
    <3>2. CaptionsLead(t)'
      BY <2>1, <3>1, <1>2, <1>3 DEF CaptionsLead
    <3>3. RowFits(t)'
      BY <2>1, <1>1, <1>3 DEF RowFits
    <3> QED
      BY <3>2, <3>3
  <2>2. CASE t # s
    <3>1. offset'[t] = offset[t] /\ buffer'[t] = buffer[t] /\ meeting'[t] = meeting[t]
      BY <2>2, <1>1, <1>2, <1>t
    <3> QED
      BY <3>1, <1>3 DEF ProjectionInv, SessionsFit, CaptionsLead, RowFits
  <2> QED
    BY <2>1, <2>2
<1>7. \A w \in Workers : BatchFits(w)'
  <2> SUFFICES ASSUME NEW w \in Workers, Busy(w)
               PROVE  Below(worker[w].batch, rev[worker[w].session]) /\ Ahead(worker[w].batch, offset'[worker[w].session])
    BY <1>3 DEF BatchFits, Busy
  <2>1. PICK t \in Sessions : t = worker[w].session
    BY <1>t DEF Busy, Jobs
  <2>2. Below(worker[w].batch, rev[t]) /\ Ahead(worker[w].batch, offset[t])
    BY <2>1 DEF ProjectionInv, BatchFits
  <2>3. \A g \in Segments : offset'[t][g] = offset[t][g] \/ <<g, offset'[t][g]>> \in Invalid
    BY <1>2, <1>t
  <2> QED
    BY <2>1, <2>2, <2>3, SkipKeepsAhead
<1>8. SingleWriter'
  BY <1>3 DEF ProjectionInv, SingleWriter, Busy
<1> QED
  BY <1>4, <1>5, <1>6, <1>7, <1>8 DEF ProjectionInv

\* What a poll makes of one session: the row is frozen and perhaps completed, what
\* it finds is ahead of the offset, and a completed or refused session finds nothing.
LEMMA Scan ==
  ASSUME ProjectionInv, NEW s \in Sessions
  PROVE  /\ Scanned(s) \in Meetings /\ Scanned(s).epoch = meeting[s].epoch
         /\ Found(s) \in Caption
         /\ \A g \in Segments : Found(s)[g] = 0 \/ (Found(s)[g] = rev[s][g] /\ Found(s)[g] > offset[s][g])
         /\ Scanned(s).mode = "active" => ~Scanned(s).frozen
         /\ Scanned(s).mode = "draining" => /\ Scanned(s).frozen /\ Below(offset[s], Scanned(s).frontier)
                                            /\ Below(Found(s), Scanned(s).frontier)
         /\ Scanned(s).mode = "completed" => offset[s] = Scanned(s).frontier
         /\ Scanned(s).mode \in {"completed", "inactive"} => \A g \in Segments : Found(s)[g] = 0
<1>t. rev[s] \in Caption /\ offset[s] \in Caption /\ meeting[s] \in Meetings
  BY TypesAre DEF ProjectionInv
<1>f. Frozen(s) \in {meeting[s], Froze(meeting[s], rev[s])}
  BY Zenon DEF Frozen, Froze
<1>1. PICK f \in Meetings : f = Frozen(s)
  BY <1>f, <1>t, MeetingRows
<1>2. /\ f.epoch = meeting[s].epoch
      /\ f.mode = "active" => ~f.frozen
      /\ f.mode = "draining" => f.frozen /\ Below(offset[s], f.frontier)
      /\ f.mode = "completed" => offset[s] = f.frontier
  <2>1. CASE f = meeting[s]
    BY <2>1 DEF ProjectionInv, SessionsFit, RowFits
  <2>2. CASE f = Froze(meeting[s], rev[s])
    <3>1. f.mode = "draining" /\ f.epoch = meeting[s].epoch /\ f.frozen /\ f.frontier = rev[s]
      BY <2>2, <1>t, MeetingRows
    <3> QED
      BY <3>1 DEF ProjectionInv, SessionsFit, CaptionsLead
  <2> QED
    BY <1>1, <1>f, <2>1, <2>2
<1>s. Scanned(s) = f \/ (Scanned(s) = Finished(f) /\ Drained(f, offset[s]))
  BY <1>1, Zenon DEF Scanned, Finished
<1>3. PICK m \in Meetings : m = Scanned(s)
  BY <1>s, <1>t, MeetingRows
<1>4. /\ m.epoch = meeting[s].epoch
      /\ m.mode = "active" => ~m.frozen
      /\ m.mode = "draining" => m.frozen /\ Below(offset[s], m.frontier)
      /\ m.mode = "completed" => offset[s] = m.frontier
  <2>1. CASE m = f
    BY <2>1, <1>2
  <2>2. CASE m = Finished(f) /\ Drained(f, offset[s])
    <3>1. m.mode = "completed" /\ m.epoch = f.epoch /\ m.frontier = f.frontier
      BY <2>2, <1>t, MeetingRows
    <3>2. offset[s] = f.frontier
      <4>1. \A g \in Segments : offset[s][g] >= f.frontier[g] /\ offset[s][g] <= f.frontier[g]
        BY <2>2, <1>2 DEF Drained, Reaches, Below
      <4>2. f.frontier \in Caption
        BY DEF Meetings
      <4>3. \A g \in Segments : offset[s][g] = f.frontier[g]
        BY <4>1, <4>2, <1>t, ProjectionAssumption DEF Caption
      <4> QED
        BY <4>2, <4>3, <1>t DEF Caption
    <3> QED
      BY <3>1, <3>2, <1>2
  <2> QED
    BY <1>3, <1>s, <2>1, <2>2
<1>5. /\ Found(s) \in Caption
      /\ \A g \in Segments : /\ Found(s)[g] = 0 \/ (Found(s)[g] = rev[s][g] /\ Found(s)[g] > offset[s][g])
                             /\ Found(s)[g] # 0 => Admitted(s) /\ (m.frozen => rev[s][g] = m.frontier[g])
  BY <1>3, <1>t, ProjectionAssumption DEF Found, Caption
<1>6. m.mode = "draining" => Below(Found(s), m.frontier)
  <2>1. m.frontier \in Caption
    BY DEF Meetings
  <2> QED
    BY <1>4, <1>5, <2>1, <1>t, ProjectionAssumption DEF Below, Caption
<1>7. m.mode \in {"completed", "inactive"} => \A g \in Segments : Found(s)[g] = 0
  BY <1>3, <1>5 DEF Admitted, Allowed, Eligible
<1> QED
  BY <1>3, <1>4, <1>5, <1>6, <1>7

\* The buffer of a session after a poll.
LEMMA PolledFacts ==
  ASSUME ProjectionInv, NEW s \in Sessions, NEW l
  PROVE  LET h == Polled(s, l)
             v == Valid(Found(s))
         IN /\ h \in Buffers
            /\ \A g \in Segments : h.segs[g] \in {0, buffer[s].segs[g], v[g]}
            /\ Allowed(Scanned(s), up, l) =>
                 /\ \A g \in Segments : h.segs[g] >= v[g]
                 /\ v # None => h.epoch = meeting[s].epoch
                 /\ buffer[s].epoch = meeting[s].epoch =>
                      h.epoch = meeting[s].epoch /\ \A g \in Segments : h.segs[g] >= buffer[s].segs[g]
<1>1. PICK b \in Buffers : b = buffer[s]
  BY TypesAre DEF ProjectionInv
<1>2. PICK e \in Epochs : e = meeting[s].epoch
  BY TypesAre, ProjectionAssumption DEF ProjectionInv, Meetings, Epochs, NoEpoch
<1>3. PICK v \in Caption : v = Valid(Found(s))
  BY Scan, TypesAre, SkipFacts DEF ProjectionInv
<1>4. PICK c : c = IF Allowed(Scanned(s), up, l) THEN Buffered(b, e, v) ELSE b
  OBVIOUS
<1>5. /\ c \in Buffers
      /\ \A g \in Segments : c.segs[g] \in {0, b.segs[g], v[g]}
      /\ Allowed(Scanned(s), up, l) =>
           /\ \A g \in Segments : c.segs[g] >= v[g]
           /\ v # None => c.epoch = e
           /\ b.epoch = e => c.epoch = e /\ \A g \in Segments : c.segs[g] >= b.segs[g]
  <2>1. CASE Allowed(Scanned(s), up, l)
    <3>1. c = Buffered(b, e, v)
      BY <2>1, <1>4
    <3> QED
      BY <3>1, BufferedFacts
  <2>2. CASE ~Allowed(Scanned(s), up, l)
    BY <2>2, <1>4
  <2> QED
    BY <2>1, <2>2
<1>6. PICK d : d = [c EXCEPT !.ending = TRUE]
  OBVIOUS
<1>7. d \in Buffers /\ d.epoch = c.epoch /\ d.segs = c.segs
  BY <1>2, <1>5, <1>6, BufferFlags, Zenon
<1>8. Polled(s, l) \in {c, d}
  BY <1>1, <1>2, <1>3, <1>4, <1>6, Zenon DEF Polled
<1>9. PICK h : h = Polled(s, l)
  OBVIOUS
<1>10. h \in Buffers /\ h.epoch = c.epoch /\ h.segs = c.segs
  BY <1>5, <1>7, <1>8, <1>9
<1>11. /\ \A g \in Segments : h.segs[g] \in {0, b.segs[g], v[g]}
       /\ Allowed(Scanned(s), up, l) =>
           /\ \A g \in Segments : h.segs[g] >= v[g]
           /\ v # None => h.epoch = e
           /\ b.epoch = e => h.epoch = e /\ \A g \in Segments : h.segs[g] >= b.segs[g]
  BY <1>5, <1>10
<1> QED
  BY <1>1, <1>2, <1>3, <1>9, <1>10, <1>11, Zenon

\* What a poll leaves of one session.
LEMMA PolledSession ==
  ASSUME ProjectionInv, NEW s \in Sessions, NEW late, NEW dying, NEW keep, Poll(late, dying, keep)
  PROVE  /\ meeting'[s] = Scanned(s)
         /\ offset'[s] = Later(offset[s], Skipped(Found(s)))
         /\ seen'[s] \in {meeting[s].epoch, NoEpoch} /\ seen'[s] \in Epochs
         /\ buffer'[s] \in {Polled(s, life'[s]), NoBuffer}
         /\ Allowed(Scanned(s), up, life'[s]) /\ Polled(s, life'[s]).epoch = meeting[s].epoch =>
              buffer'[s] = Polled(s, life'[s])
         /\ Admitted(s) => seen'[s] = meeting[s].epoch
         /\ waiters'[s] \subseteq waiters[s]
         /\ scheduled'[s] \in {"none", "normal", "priority"}
<1>1. meeting[s].epoch \in Epochs /\ scheduled[s] \in {"none", "normal", "priority"}
  BY TypesAre, ProjectionAssumption DEF ProjectionInv, Meetings, Epochs, NoEpoch
<1>2. seen'[s] \in {meeting[s].epoch, NoEpoch} /\ (Admitted(s) => seen'[s] = meeting[s].epoch)
  BY DEF Poll
<1>3. waiters'[s] \subseteq waiters[s]
  BY DEF Poll, Kept
<1>4. \A b : Scheduled(s, b, late) \in {"none", "normal", "priority"}
  BY <1>1, ScheduledTyped
<1>5. scheduled'[s] = scheduled[s] \/ \E b : scheduled'[s] = Scheduled(s, b, late)
  BY Zenon DEF Poll
<1>6. /\ buffer'[s] \in {Polled(s, life'[s]), NoBuffer}
      /\ Allowed(Scanned(s), up, life'[s]) /\ Polled(s, life'[s]).epoch = meeting[s].epoch =>
              buffer'[s] = Polled(s, life'[s])
  BY Zenon DEF Poll
<1>7. meeting'[s] = Scanned(s) /\ offset'[s] = Later(offset[s], Skipped(Found(s)))
  BY DEF Poll
<1> QED
  BY <1>1, <1>2, <1>3, <1>4, <1>5, <1>6, <1>7, Empties

\* The session of a poll keeps its invariant, and its offset moves only past what is skipped.
LEMMA PollRow ==
  ASSUME ProjectionInv, NEW s \in Sessions, NEW late, NEW dying, NEW keep, Poll(late, dying, keep)
  PROVE  /\ offset'[s] \in Caption /\ buffer'[s] \in Buffers
         /\ \A g \in Segments : offset'[s][g] = offset[s][g] \/ <<g, offset'[s][g]>> \in Invalid
         /\ CaptionsLead(s)' /\ RowFits(s)'
<1>0. rev' = rev
  BY DEF Poll
<1>1. PICK r \in Caption, o \in Caption, b0 \in Buffers : r = rev[s] /\ o = offset[s] /\ b0 = buffer[s]
  BY TypesAre DEF ProjectionInv
<1>2. PICK p \in Caption : p = Found(s)
  BY Scan
<1>3. \A g \in Segments : p[g] = 0 \/ (p[g] = r[g] /\ p[g] > o[g])
  BY <1>1, <1>2, Scan
<1>4. \A g \in Segments : r[g] \in Nat /\ o[g] \in Nat /\ b0.segs[g] \in Nat /\ o[g] <= r[g] /\ b0.segs[g] <= r[g]
  BY <1>1, ProjectionAssumption DEF ProjectionInv, SessionsFit, CaptionsLead, Below, Caption, Buffers
<1>5. PICK done, v : done = Later(o, Skipped(p)) /\ v = Valid(p)
  OBVIOUS
<1>6. /\ done \in Caption /\ v \in Caption
      /\ \A g \in Segments : /\ done[g] \in {o[g], p[g]} /\ done[g] >= o[g]
                             /\ done[g] = o[g] \/ <<g, done[g]>> \in Invalid
                             /\ v[g] \in {0, p[g]} /\ (v[g] # 0 => done[g] = o[g])
  BY <1>3, <1>5, SkipFacts, ZenonT(30)
<1>7. offset'[s] = done
  BY <1>1, <1>2, <1>5, PolledSession
<1>8. PICK b \in Buffers : b = buffer'[s] /\ \A g \in Segments : b.segs[g] \in {0, b0.segs[g], v[g]}
  <2>1. PICK l : l = life'[s]
    OBVIOUS
  <2>2. PICK h \in Buffers : h = Polled(s, l) /\ \A g \in Segments : h.segs[g] \in {0, b0.segs[g], v[g]}
    BY <1>1, <1>2, <1>5, PolledFacts
  <2>3. buffer'[s] \in {h, NoBuffer}
    BY <2>1, <2>2, PolledSession
  <2> QED
    BY <2>2, <2>3, Empties
<1>n. \A g \in Segments : p[g] \in Nat /\ done[g] \in Nat /\ v[g] \in Nat
  BY <1>6, ProjectionAssumption DEF Caption
<1>9. CaptionsLead(s)'
  <2>1. Below(done, r) /\ Below(b.segs, r)
    <3> SUFFICES ASSUME NEW g \in Segments PROVE done[g] <= r[g] /\ b.segs[g] <= r[g]
      BY DEF Below
    <3>1. p[g] <= r[g] /\ o[g] <= r[g] /\ b0.segs[g] <= r[g] /\ r[g] \in Nat
      BY <1>3, <1>4
    <3>2. v[g] \in {0, p[g]} /\ done[g] \in {o[g], p[g]} /\ b.segs[g] \in {0, b0.segs[g], v[g]}
      BY <1>6, <1>8
    <3> QED
      BY <3>1, <3>2
  <2>2. Ahead(b.segs, done)
    <3> SUFFICES ASSUME NEW g \in Segments, b.segs[g] # 0 PROVE done[g] < b.segs[g] \/ <<g, done[g]>> \in Invalid
      BY DEF Ahead
    <3>1. CASE b.segs[g] = b0.segs[g]
      <4>1. o[g] < b0.segs[g] \/ <<g, o[g]>> \in Invalid
        BY <1>1, <3>1 DEF ProjectionInv, SessionsFit, CaptionsLead, Ahead
      <4> QED
        BY <3>1, <4>1, <1>6
    <3>2. CASE b.segs[g] = v[g]
      BY <3>2, <1>3, <1>4, <1>6
    <3> QED
      BY <3>1, <3>2, <1>8
  <2> QED
    BY <2>1, <2>2, <1>0, <1>1, <1>7, <1>8 DEF CaptionsLead
<1>10. RowFits(s)'
  <2>1. PICK m \in Meetings : m = Scanned(s)
    BY Scan
  <2>2. meeting'[s] = m
    BY <2>1, PolledSession
  <2>3. m.mode = "active" => ~m.frozen
    BY <2>1, Scan
  <2>4. m.mode = "draining" => m.frozen /\ Below(done, m.frontier)
    <3> SUFFICES ASSUME m.mode = "draining" PROVE m.frozen /\ Below(done, m.frontier)
      OBVIOUS
    <3>1. m.frozen /\ Below(o, m.frontier) /\ Below(p, m.frontier)
      BY <2>1, <1>1, <1>2, Scan
    <3> QED
      BY <3>1, <1>6 DEF Below
  <2>5. m.mode = "completed" => done = m.frontier
    <3> SUFFICES ASSUME m.mode = "completed" PROVE done = m.frontier
      OBVIOUS
    <3>1. o = m.frontier /\ \A g \in Segments : p[g] = 0
      BY <2>1, <1>1, <1>2, Scan
    <3>2. \A g \in Segments : done[g] = o[g]
      <4> SUFFICES ASSUME NEW g \in Segments PROVE done[g] = o[g]
        OBVIOUS
      <4>1. done[g] \in {o[g], p[g]} /\ done[g] >= o[g] /\ p[g] = 0 /\ o[g] \in Nat
        BY <3>1, <1>4, <1>6
      <4> QED
        BY <4>1
    <3> QED
      BY <3>1, <3>2, <1>6 DEF Caption
  <2>6. seen'[s] <= m.epoch
    <3>1. m.epoch \in 0..MaxEpoch /\ m.epoch = meeting[s].epoch /\ seen'[s] \in {meeting[s].epoch, NoEpoch}
      BY <2>1, Scan, PolledSession DEF Meetings
    <3> QED
      BY <3>1, ProjectionAssumption DEF NoEpoch
  <2> QED
    BY <2>2, <2>3, <2>4, <2>5, <2>6, <1>7 DEF RowFits
<1>11. /\ offset'[s] \in Caption /\ buffer'[s] \in Buffers
       /\ \A g \in Segments : offset'[s][g] = offset[s][g] \/ <<g, offset'[s][g]>> \in Invalid
  BY <1>1, <1>6, <1>7, <1>8
<1> QED
  BY <1>9, <1>10, <1>11, Zenon

\* The skips of a poll touch neither the head nor a batch; the workers stay.
LEMMA PollStep ==
  ASSUME ProjectionInv, NEW late, NEW dying, NEW keep, Poll(late, dying, keep)
  PROVE  ProjectionInv'
<1>0. UNCHANGED <<rev, up, head, worker, answered, faults>>
  BY DEF Poll
<1>1. TypeOK'
  <2>1. rev' \in [Sessions -> Caption] /\ head' \in [Sessions -> Heads] /\ worker' \in [Workers -> Jobs \cup {Idle, Dead}]
        /\ answered' \in [Sessions -> Targets] /\ faults' \in 0..MaxFaults
    BY <1>0, TypesAre DEF ProjectionInv
  <2>2. up' \in BOOLEAN
    BY <1>0, Zenon DEF ProjectionInv, TypeOK
  <2>3. recent' \in [Sessions -> SUBSET Segments]
    BY TypesAre DEF ProjectionInv, Poll
  <2>4. life' \in [Sessions -> {"live", "finalizing", "ended"}]
    BY TypesAre DEF ProjectionInv, Poll
  <2>5. meeting' \in [Sessions -> Meetings]
    <3>1. meeting' = [s \in Sessions |-> Scanned(s)]
      BY DEF Poll
    <3> QED
      BY <3>1, Scan
  <2>6. offset' \in [Sessions -> Caption]
    <3>1. offset' = [s \in Sessions |-> offset'[s]]
      BY DEF Poll
    <3> QED
      BY <3>1, PollRow
  <2>7. buffer' \in [Sessions -> Buffers]
    <3>1. buffer' = [s \in Sessions |-> buffer'[s]]
      BY Zenon DEF Poll
    <3> QED
      BY <3>1, PollRow
  <2>8. seen' \in [Sessions -> Epochs]
    <3>1. seen' = [s \in Sessions |-> seen'[s]]
      BY DEF Poll
    <3> QED
      BY <3>1, PolledSession
  <2>9. scheduled' \in [Sessions -> {"none", "normal", "priority"}]
    <3>1. scheduled' = [s \in Sessions |-> scheduled'[s]]
      BY Zenon DEF Poll
    <3> QED
      BY <3>1, PolledSession
  <2>10. waiters' \in [Sessions -> SUBSET Targets]
    <3>1. waiters' = [s \in Sessions |-> waiters'[s]]
      BY Zenon DEF Poll
    <3>2. waiters \in [Sessions -> SUBSET Targets]
      BY TypesAre DEF ProjectionInv
    <3> QED
      BY <3>1, <3>2, PolledSession
  <2> QED
    BY <2>1, <2>2, <2>3, <2>4, <2>5, <2>6, <2>7, <2>8, <2>9, <2>10, Zenon DEF TypeOK, Meetings, Heads, Buffers
<1>2. HeadMatchesOffsets'
  <2> SUFFICES ASSUME NEW t \in Sessions, NEW g \in Segments
               PROVE  head[t].content[g] = offset'[t][g] \/ <<g, offset'[t][g]>> \in Invalid
    BY <1>0 DEF HeadMatchesOffsets
  <2>1. head[t].content[g] = offset[t][g] \/ <<g, offset[t][g]>> \in Invalid
    BY DEF ProjectionInv, HeadMatchesOffsets
  <2>2. offset'[t][g] = offset[t][g] \/ <<g, offset'[t][g]>> \in Invalid
    BY PollRow
  <2> QED
    BY <2>1, <2>2
<1>3. SessionsFit'
  BY PollRow DEF SessionsFit
<1>4. \A w \in Workers : BatchFits(w)'
  <2> SUFFICES ASSUME NEW w \in Workers, Busy(w)
               PROVE  Below(worker[w].batch, rev[worker[w].session]) /\ Ahead(worker[w].batch, offset'[worker[w].session])
    BY <1>0 DEF BatchFits, Busy
  <2>1. PICK t \in Sessions : t = worker[w].session
    BY TypesAre DEF ProjectionInv, Busy, Jobs
  <2>2. Below(worker[w].batch, rev[t]) /\ Ahead(worker[w].batch, offset[t])
    BY <2>1 DEF ProjectionInv, BatchFits
  <2>3. \A g \in Segments : offset'[t][g] = offset[t][g] \/ <<g, offset'[t][g]>> \in Invalid
    BY PollRow
  <2> QED
    BY <2>1, <2>2, <2>3, SkipKeepsAhead
<1>5. SingleWriter'
  BY <1>0 DEF ProjectionInv, SingleWriter, Busy
<1> QED
  BY <1>1, <1>2, <1>3, <1>4, <1>5 DEF ProjectionInv

\* A worker that takes a session drops its buffer, extracts a batch of it or does nothing.
LEMMA TakeStep ==
  ASSUME ProjectionInv, NEW w \in Workers, NEW s \in Sessions, Take(w, s)
  PROVE  ProjectionInv'
<1>0. UNCHANGED <<database, seen, answered, faults>> /\ scheduled' = [scheduled EXCEPT ![s] = "none"] /\ worker[w] = Idle
  BY DEF Take
<1>t. /\ rev \in [Sessions -> Caption] /\ buffer \in [Sessions -> Buffers] /\ head \in [Sessions -> Heads]
      /\ worker \in [Workers -> Jobs \cup {Idle, Dead}] /\ waiters \in [Sessions -> SUBSET Targets]
      /\ scheduled \in [Sessions -> {"none", "normal", "priority"}]
  BY TypesAre DEF ProjectionInv
<1>1. /\ buffer' = buffer \/ buffer' = [buffer EXCEPT ![s] = NoBuffer]
      /\ waiters' = waiters \/ waiters' = [waiters EXCEPT ![s] = Kept(waiters[s], buffer[s].epoch)]
  BY Zenon DEF Take, Discard
<1>2. /\ buffer' \in [Sessions -> Buffers]
      /\ \A t \in Sessions : buffer'[t] = buffer[t] \/ buffer'[t] = NoBuffer
  BY <1>1, <1>t, Empties
<1>3. waiters' \in [Sessions -> SUBSET Targets]
  <2>1. Kept(waiters[s], buffer[s].epoch) \subseteq Targets
    BY <1>t DEF Kept
  <2> QED
    BY <2>1, <1>1, <1>t
<1>4. scheduled' \in [Sessions -> {"none", "normal", "priority"}]
  BY <1>0, <1>t
<1>5. worker' = worker \/
        \E batch \in Batches(buffer[s]) :
          s \notin Inflight /\ worker' = [worker EXCEPT ![w] = [session |-> s, epoch |-> buffer[s].epoch, batch |-> batch,
                                                                 version |-> head[s].version]]
  BY Zenon DEF Take, Skips
<1>6. /\ worker' \in [Workers -> Jobs \cup {Idle, Dead}]
      /\ \A v \in Workers : worker'[v] # worker[v] =>
           /\ v = w /\ s \notin Inflight /\ worker'[v].session = s /\ worker'[v].version = head[s].version
           /\ Below(worker'[v].batch, buffer[s].segs)
           /\ \A g \in Segments : worker'[v].batch[g] \in {0, buffer[s].segs[g]}
  <2>1. CASE worker' = worker
    BY <2>1, <1>t
  <2>2. CASE worker' # worker
    <3>1. PICK batch \in Batches(buffer[s]) : \E job :
            /\ job = [session |-> s, epoch |-> buffer[s].epoch, batch |-> batch, version |-> head[s].version]
            /\ s \notin Inflight /\ worker' = [worker EXCEPT ![w] = job]
      BY <2>2, <1>5, Zenon
    <3>j. PICK job : /\ job = [session |-> s, epoch |-> buffer[s].epoch, batch |-> batch, version |-> head[s].version]
                     /\ s \notin Inflight /\ worker' = [worker EXCEPT ![w] = job]
      BY <3>1
    <3>2. batch \in Caption /\ \A g \in Segments : batch[g] \in {0, buffer[s].segs[g]} /\ batch[g] <= buffer[s].segs[g]
      <4>1. PICK b \in Buffers : b = buffer[s]
        BY <1>t
      <4>2. b.segs \in Caption
        BY DEF Buffers
      <4>3. PICK picked : batch = [g \in Segments |-> IF g \in picked THEN b.segs[g] ELSE 0]
        BY <4>1 DEF Batches
      <4> QED
        BY <4>1, <4>2, <4>3, ProjectionAssumption DEF Caption
    <3>3. job \in Jobs
      BY <3>j, <3>2, <1>t DEF Jobs, Buffers, Heads
    <3>4. worker' \in [Workers -> Jobs \cup {Idle, Dead}] /\ worker'[w] = job /\ \A v \in Workers \ {w} : worker'[v] = worker[v]
      BY <3>j, <3>3, <1>t
    <3>5. job.session = s /\ job.version = head[s].version /\ job.batch = batch
      BY <3>j
    <3> QED
      BY <3>j, <3>2, <3>4, <3>5 DEF Below
  <2> QED
    BY <2>1, <2>2
<1>7. TypeOK'
  BY <1>0, <1>2, <1>3, <1>4, <1>6, Zenon DEF ProjectionInv, TypeOK, Buffers, database
<1>8. SessionsFit'
  <2> SUFFICES ASSUME NEW t \in Sessions PROVE CaptionsLead(t)' /\ RowFits(t)'
    BY DEF SessionsFit
  <2>1. CASE buffer'[t] = buffer[t]
    BY <2>1, <1>0 DEF ProjectionInv, SessionsFit, CaptionsLead, RowFits, database
  <2>2. CASE buffer'[t] = NoBuffer
    <3>1. \A g \in Segments : rev[t][g] \in Nat
      BY <1>t, ProjectionAssumption DEF Caption
    <3>2. CaptionsLead(t)'
      BY <2>2, <3>1, <1>0, Empties DEF ProjectionInv, SessionsFit, CaptionsLead, Below, Ahead, database
    <3> QED
      BY <3>2, <1>0 DEF ProjectionInv, SessionsFit, RowFits, database
  <2> QED
    BY <1>2, <2>1, <2>2
<1>9. \A v \in Workers : BatchFits(v)'
  <2> SUFFICES ASSUME NEW v \in Workers, worker'[v] \notin {Idle, Dead}
               PROVE  Below(worker'[v].batch, rev[worker'[v].session]) /\ Ahead(worker'[v].batch, offset[worker'[v].session])
    BY <1>0 DEF BatchFits, Busy, database
  <2>1. CASE worker'[v] = worker[v]
    BY <2>1 DEF ProjectionInv, BatchFits, Busy
  <2>2. CASE worker'[v] # worker[v]
    <3>1. worker'[v].session = s /\ \A g \in Segments : worker'[v].batch[g] \in {0, buffer[s].segs[g]}
      BY <2>2, <1>6
    <3>2. Below(buffer[s].segs, rev[s]) /\ Ahead(buffer[s].segs, offset[s])
      BY DEF ProjectionInv, SessionsFit, CaptionsLead
    <3>3. \A g \in Segments : rev[s][g] \in Nat
      BY <1>t, ProjectionAssumption DEF Caption
    <3> QED
      BY <3>1, <3>2, <3>3 DEF Below, Ahead
  <2> QED
    BY <2>1, <2>2
<1>10. SingleWriter'
  <2> SUFFICES ASSUME NEW v \in Workers, worker'[v] \notin {Idle, Dead}
               PROVE  /\ worker'[v].version = head[worker'[v].session].version
                      /\ \A u \in Workers \ {v} : worker'[u].session # worker'[v].session
    BY <1>0 DEF SingleWriter, Busy, database
  <2>1. ASSUME NEW u \in Workers, worker'[u] = worker[u] PROVE worker'[u].session \in Inflight
    BY <2>1 DEF Inflight
  <2>2. CASE \A u \in Workers : worker'[u] = worker[u]
    BY <2>2 DEF ProjectionInv, SingleWriter, Busy
  <2>3. CASE worker'[w] # worker[w]
    <3>1. s \notin Inflight /\ worker'[w].session = s /\ worker'[w].version = head[s].version
      BY <2>3, <1>6
    <3>2. \A u \in Workers \ {w} : worker'[u] = worker[u] /\ worker'[u].session # s
      BY <2>1, <3>1, <1>6
    <3>3. CASE v = w
      BY <3>1, <3>2, <3>3
    <3>4. CASE v # w
      BY <3>1, <3>2, <3>4 DEF ProjectionInv, SingleWriter, Busy
    <3> QED
      BY <3>3, <3>4
  <2> QED
    BY <1>6, <2>2, <2>3
<1>11. HeadMatchesOffsets'
  BY <1>0 DEF ProjectionInv, HeadMatchesOffsets, database
<1> QED
  BY <1>7, <1>8, <1>9, <1>10, <1>11 DEF ProjectionInv

\* The end of a worker's loop body keeps the buffer b of its session or drops it.
LEMMA Released ==
  ASSUME TypeOK, NEW s \in Sessions, NEW b \in Buffers, NEW ws \in SUBSET Targets, NEW m, NEW late,
         Release(s, b, ws, m, late)
  PROVE  /\ buffer' \in [Sessions -> Buffers] /\ waiters' \in [Sessions -> SUBSET Targets]
         /\ scheduled' \in [Sessions -> {"none", "normal", "priority"}]
         /\ \A t \in Sessions : t # s => buffer'[t] = buffer[t]
         /\ buffer'[s] = NoBuffer \/ (buffer'[s] = b /\ b.epoch = m.epoch)
         /\ Allowed(m, up, life[s]) /\ b.epoch = m.epoch => buffer'[s] = b
<1>t. /\ buffer \in [Sessions -> Buffers] /\ waiters \in [Sessions -> SUBSET Targets]
      /\ scheduled \in [Sessions -> {"none", "normal", "priority"}]
  BY TypesAre
<1>1. PICK fits \in BOOLEAN : fits = (Allowed(m, up, life[s]) /\ b.epoch = m.epoch)
  OBVIOUS
<1>2. /\ buffer' = [buffer EXCEPT ![s] = IF fits THEN b ELSE NoBuffer]
      /\ waiters' = [waiters EXCEPT ![s] = IF fits THEN ws ELSE Kept(ws, b.epoch)]
      /\ scheduled' = scheduled \/ scheduled' = [scheduled EXCEPT ![s] = Scheduled(s, b, late)]
  BY <1>1, Zenon DEF Release
<1>3. Kept(ws, b.epoch) \subseteq Targets
  BY DEF Kept
<1>4. scheduled' \in [Sessions -> {"none", "normal", "priority"}]
  BY <1>2, <1>t, ScheduledTyped
<1>5. waiters' \in [Sessions -> SUBSET Targets]
  BY <1>2, <1>3, <1>t
<1>6. /\ buffer' \in [Sessions -> Buffers] /\ \A t \in Sessions : t # s => buffer'[t] = buffer[t]
      /\ buffer'[s] = IF fits THEN b ELSE NoBuffer
  BY <1>2, <1>t, Empties
<1> QED
  BY <1>1, <1>4, <1>5, <1>6, Zenon

\* A batch that is given up leaves the buffer of its session, changed or dropped.
LEMMA ReleaseStep ==
  ASSUME ProjectionInv, NEW w \in Workers, NEW s \in Sessions, NEW b \in Buffers, NEW ws \in SUBSET Targets, NEW late,
         \A g \in Segments : b.segs[g] \in {0, buffer[s].segs[g]},
         Release(s, b, ws, meeting[s], late), worker' = [worker EXCEPT ![w] = Idle],
         UNCHANGED <<database, seen, answered>>, faults' \in 0..MaxFaults
  PROVE  ProjectionInv'
<1>t. /\ rev \in [Sessions -> Caption] /\ buffer \in [Sessions -> Buffers]
      /\ worker \in [Workers -> Jobs \cup {Idle, Dead}]
  BY TypesAre DEF ProjectionInv
<1>1. /\ buffer' \in [Sessions -> Buffers] /\ waiters' \in [Sessions -> SUBSET Targets]
      /\ scheduled' \in [Sessions -> {"none", "normal", "priority"}]
      /\ \A t \in Sessions : t # s => buffer'[t] = buffer[t]
      /\ buffer'[s] \in {NoBuffer, b}
  BY Released DEF ProjectionInv
<1>2. worker' \in [Workers -> Jobs \cup {Idle, Dead}] /\ worker'[w] = Idle /\ \A v \in Workers \ {w} : worker'[v] = worker[v]
  BY <1>t
<1>3. TypeOK'
  BY <1>1, <1>2, Zenon DEF ProjectionInv, TypeOK, Buffers, database
<1>4. SessionsFit'
  <2> SUFFICES ASSUME NEW t \in Sessions PROVE CaptionsLead(t)' /\ RowFits(t)'
    BY DEF SessionsFit
  <2>1. RowFits(t)'
    BY DEF ProjectionInv, SessionsFit, RowFits, database
  <2>2. CASE t # s
    BY <1>1, <2>1, <2>2 DEF ProjectionInv, SessionsFit, CaptionsLead, database
  <2>3. CASE t = s
    <3>1. \A g \in Segments : buffer'[s].segs[g] \in {0, buffer[s].segs[g]}
      BY <1>1, Empties
    <3>2. \A g \in Segments : rev[s][g] \in Nat
      BY <1>t, ProjectionAssumption DEF Caption
    <3> QED
      BY <2>1, <2>3, <3>1, <3>2 DEF ProjectionInv, SessionsFit, CaptionsLead, Below, Ahead, database
  <2> QED
    BY <2>2, <2>3
<1>5. \A v \in Workers : Busy(v)' => Busy(v) /\ worker'[v] = worker[v]
  BY <1>2 DEF Busy
<1>6. \A v \in Workers : BatchFits(v)'
  BY <1>5 DEF ProjectionInv, BatchFits, database
<1>7. SingleWriter'
  <2> SUFFICES ASSUME NEW v \in Workers, worker'[v] \notin {Idle, Dead}
               PROVE  /\ worker'[v].version = head[worker'[v].session].version
                      /\ \A u \in Workers \ {v} : worker'[u].session # worker'[v].session
    BY DEF SingleWriter, Busy, database
  <2>1. worker'[v] = worker[v] /\ worker[v].session \in Sessions /\ Busy(v)
    BY <1>2, <1>t DEF Jobs, Busy
  <2>2. Idle.session \notin Sessions
    BY ProjectionAssumption DEF Idle
  <2> QED
    BY <1>2, <2>1, <2>2 DEF ProjectionInv, SingleWriter
<1>8. HeadMatchesOffsets'
  BY DEF ProjectionInv, HeadMatchesOffsets, database
<1> QED
  BY <1>3, <1>4, <1>6, <1>7, <1>8 DEF ProjectionInv

\* A batch refused or failed.
LEMMA GivenUp ==
  ASSUME ProjectionInv, NEW w \in Workers, NEW late, Busy(w), Refuse(w, late) \/ Fail(w, late)
  PROVE  ProjectionInv'
<1>t. /\ buffer \in [Sessions -> Buffers] /\ waiters \in [Sessions -> SUBSET Targets]
      /\ worker \in [Workers -> Jobs \cup {Idle, Dead}] /\ faults \in 0..MaxFaults
  BY TypesAre DEF ProjectionInv
<1>1. PICK s \in Sessions : s = worker[w].session
  BY <1>t DEF Busy, Jobs
<1>2. faults' \in 0..MaxFaults
  <2>1. faults' = faults \/ (faults < MaxFaults /\ faults' = faults + 1)
    BY Zenon DEF Refuse, Fail
  <2> QED
    BY <2>1, <1>t, ProjectionAssumption
<1>3. worker' = [worker EXCEPT ![w] = Idle] /\ UNCHANGED <<database, seen, answered>>
  BY Zenon DEF Refuse, Fail
<1>4. CASE Refuse(w, late)
  <2>1. PICK b : b = IF buffer[s].epoch = worker[w].epoch THEN NoBuffer ELSE buffer[s]
    OBVIOUS
  <2>2. Release(s, b, Kept(waiters[s], worker[w].epoch), meeting[s], late)
    BY <1>1, <1>4, <2>1, Zenon DEF Refuse
  <2>3. b \in Buffers /\ \A g \in Segments : b.segs[g] \in {0, buffer[s].segs[g]}
    BY <1>t, <2>1, Empties
  <2>4. Kept(waiters[s], worker[w].epoch) \subseteq Targets
    BY <1>t DEF Kept
  <2> QED
    BY <1>2, <1>3, <2>2, <2>3, <2>4, ReleaseStep
<1>5. CASE Fail(w, late)
  <2>0. PICK r : r = [buffer[s] EXCEPT !.retry = TRUE]
    OBVIOUS
  <2>1. PICK b : b = IF buffer[s].epoch = worker[w].epoch THEN r ELSE buffer[s]
    OBVIOUS
  <2>2. Release(s, b, waiters[s], meeting[s], late)
    BY <1>1, <1>5, <2>0, <2>1, Zenon DEF Fail
  <2>e. buffer[s] \in Buffers /\ waiters[s] \subseteq Targets
    BY <1>t
  <2>r. r \in Buffers /\ r.segs = buffer[s].segs
    BY <2>e, <2>0, BufferFlags, Empties, Zenon
  <2>3. b \in Buffers /\ \A g \in Segments : b.segs[g] \in {0, buffer[s].segs[g]}
    BY <2>e, <2>1, <2>r
  <2> QED
    BY <1>2, <1>3, <2>2, <2>3, <2>e, ReleaseStep
<1> QED
  BY <1>4, <1>5

\* A row that may be written, and what becomes of it when the batch was the last.
CommittedRow(s, m, done) ==
  \/ m = meeting[s]
  \/ m = Finished(meeting[s]) /\ Drained(meeting[s], done)

\* What a commit does, in the terms of its session, its batch and what they become.
Outcome(w, s, batch, done, m, h) ==
  /\ s = worker[w].session /\ batch = worker[w].batch
  /\ meeting[s].epoch = worker[w].epoch /\ Allowed(meeting[s], up, life[s]) /\ Within(meeting[s], batch)
  /\ \A g \in Segments : done[g] \in {offset[s][g], batch[g]} /\ done[g] >= offset[s][g] /\ done[g] >= batch[g]
  /\ offset' = [offset EXCEPT ![s] = done]
  /\ head' = [head EXCEPT ![s] = h]
  /\ \A g \in Segments : h.content[g] = IF batch[g] # 0 THEN batch[g] ELSE head[s].content[g]
  /\ meeting' = [meeting EXCEPT ![s] = m] /\ CommittedRow(s, m, done) /\ m.epoch = meeting[s].epoch
  /\ worker' = [worker EXCEPT ![w] = Idle] \/ worker' = [worker EXCEPT ![w] = Dead]

\* What it leaves of the buffer, and whom it answers.
Aftermath(s, batch, done, m) ==
  /\ \A t \in Sessions : t # s => buffer'[t] = buffer[t]
  /\ \/ buffer'[s] = NoBuffer
     \/ buffer'[s] = Ack(buffer[s], batch) /\ buffer[s].epoch = meeting[s].epoch
  /\ Allowed(m, up, life[s]) /\ buffer[s].epoch = meeting[s].epoch => buffer'[s] = Ack(buffer[s], batch)
  /\ \A t \in Sessions : answered'[t] # answered[t] =>
       t = s /\ answered'[s].epoch = meeting[s].epoch /\ Reaches(done, answered'[s].target)

\* The commit of a batch.
LEMMA Committed ==
  ASSUME ProjectionInv, NEW w \in Workers, NEW late, Busy(w), Commit(w, late)
  PROVE  /\ \E s \in Sessions, batch \in Caption, done \in Caption, m \in Meetings, h \in Heads :
              Outcome(w, s, batch, done, m, h) /\ Aftermath(s, batch, done, m)
         /\ buffer' \in [Sessions -> Buffers] /\ waiters' \in [Sessions -> SUBSET Targets]
         /\ scheduled' \in [Sessions -> {"none", "normal", "priority"}]
         /\ answered' \in [Sessions -> Targets] /\ faults' \in 0..MaxFaults
<1>t. /\ buffer \in [Sessions -> Buffers] /\ waiters \in [Sessions -> SUBSET Targets]
      /\ worker \in [Workers -> Jobs \cup {Idle, Dead}] /\ faults \in 0..MaxFaults
      /\ offset \in [Sessions -> Caption] /\ head \in [Sessions -> Heads] /\ meeting \in [Sessions -> Meetings]
      /\ answered \in [Sessions -> Targets]
  BY TypesAre DEF ProjectionInv
<1>1. PICK s \in Sessions, batch \in Caption, e \in Epochs :
        s = worker[w].session /\ batch = worker[w].batch /\ e = worker[w].epoch
  BY <1>t DEF Busy, Jobs
<1>2. PICK done \in Caption :
        /\ done = Advanced(s, batch)
        /\ \A g \in Segments : done[g] \in {offset[s][g], batch[g]} /\ done[g] >= offset[s][g] /\ done[g] >= batch[g]
  BY <1>t, LaterFacts DEF Advanced
<1>3. PICK b : b = IF buffer[s].epoch = e THEN Ack(buffer[s], batch) ELSE buffer[s]
  OBVIOUS
<1>4. b \in Buffers /\ b.epoch = buffer[s].epoch
  BY <1>t, <1>3, AckFacts
<1>5. PICK ws : ws = Pending(waiters[s], e, TRUE, done)
  OBVIOUS
<1>6. ws \in SUBSET Targets
  BY <1>t, <1>5 DEF Pending
<1>7. meeting[s].epoch = e /\ Allowed(meeting[s], up, life[s]) /\ Within(meeting[s], batch)
  BY <1>1, Zenon DEF Commit, Fenced, Permits, PermitsBatch
<1>8. PICK h : h = [version |-> head[s].version + 1,
                    content |-> [g \in Segments |-> IF batch[g] # 0 THEN batch[g] ELSE head[s].content[g]]]
  OBVIOUS
<1>9. h \in Heads /\ \A g \in Segments : h.content[g] = IF batch[g] # 0 THEN batch[g] ELSE head[s].content[g]
  BY <1>8, <1>t DEF Heads, Caption
<1>10. head' = [head EXCEPT ![s] = h] /\ offset' = [offset EXCEPT ![s] = done]
  BY <1>1, <1>2, <1>8, Zenon DEF Commit
<1>11. PICK m \in Meetings : meeting' = [meeting EXCEPT ![s] = m] /\ CommittedRow(s, m, done) /\ m.epoch = meeting[s].epoch
  <2>1. PICK m0 \in Meetings : m0 = meeting[s]
    BY <1>t
  <2>2. \/ meeting' = meeting
        \/ Drained(m0, done) /\ meeting' = [meeting EXCEPT ![s] = Finished(m0)]
    BY <1>1, <1>2, <2>1, Zenon DEF Commit, Finished
  <2>3. Finished(m0) \in Meetings /\ Finished(m0).epoch = m0.epoch
    BY Empties, MeetingRows
  <2>4. CASE meeting' = meeting
    <3>1. meeting' = [meeting EXCEPT ![s] = m0]
      BY <2>1, <2>4, <1>t
    <3> QED
      BY <2>1, <3>1 DEF CommittedRow
  <2>5. CASE Drained(m0, done) /\ meeting' = [meeting EXCEPT ![s] = Finished(m0)]
    BY <2>1, <2>3, <2>5 DEF CommittedRow
  <2> QED
    BY <2>2, <2>4, <2>5
<1>12. Release(s, b, ws, m, late)
  <2>1. Release(s, b, ws, meeting'[s], late)
    BY <1>1, <1>2, <1>3, <1>5, Zenon DEF Commit
  <2>2. meeting'[s] = m
    BY <1>11, <1>t
  <2> QED
    BY <2>1, <2>2, Zenon
<1>13. /\ buffer' \in [Sessions -> Buffers] /\ waiters' \in [Sessions -> SUBSET Targets]
       /\ scheduled' \in [Sessions -> {"none", "normal", "priority"}]
       /\ \A t \in Sessions : t # s => buffer'[t] = buffer[t]
       /\ buffer'[s] = NoBuffer \/ (buffer'[s] = b /\ b.epoch = m.epoch)
       /\ Allowed(m, up, life[s]) /\ b.epoch = m.epoch => buffer'[s] = b
  BY <1>4, <1>6, <1>12, Released DEF ProjectionInv
<1>14. /\ buffer'[s] = NoBuffer \/ (buffer'[s] = Ack(buffer[s], batch) /\ buffer[s].epoch = meeting[s].epoch)
       /\ Allowed(m, up, life[s]) /\ buffer[s].epoch = meeting[s].epoch => buffer'[s] = Ack(buffer[s], batch)
  BY <1>3, <1>4, <1>7, <1>11, <1>13
<1>15. worker' = [worker EXCEPT ![w] = Idle] \/ worker' = [worker EXCEPT ![w] = Dead]
  BY Zenon DEF Commit
<1>16. faults' \in 0..MaxFaults
  <2>1. faults' = faults \/ (faults < MaxFaults /\ faults' = faults + 1)
    BY Zenon DEF Commit
  <2> QED
    BY <2>1, <1>t, ProjectionAssumption
<1>17. /\ answered' \in [Sessions -> Targets]
       /\ \A t \in Sessions : answered'[t] # answered[t] =>
                t = s /\ answered'[s].epoch = meeting[s].epoch /\ Reaches(done, answered'[s].target)
  <2>1. answered' = answered \/ \E t \in Resolved(waiters[s], e, done) : answered' = [answered EXCEPT ![s] = t]
    BY <1>1, <1>2, Zenon DEF Commit
  <2>2. \A t \in Resolved(waiters[s], e, done) : t \in Targets /\ t.epoch = e /\ Reaches(done, t.target)
    BY <1>t DEF Resolved
  <2> QED
    BY <2>1, <2>2, <1>7, <1>t
<1>18. Outcome(w, s, batch, done, m, h)
  BY <1>1, <1>2, <1>7, <1>9, <1>10, <1>11, <1>15, Zenon DEF Outcome
<1>19. Aftermath(s, batch, done, m)
  BY <1>13, <1>14, <1>17, Zenon DEF Aftermath
<1> QED
  BY <1>9, <1>13, <1>16, <1>17, <1>18, <1>19, Zenon

\* A commit moves the offsets of its session to the batch, within the frontier.
LEMMA CommitStep ==
  ASSUME ProjectionInv, NEW w \in Workers, NEW late, Busy(w), Commit(w, late)
  PROVE  ProjectionInv'
<1>t. /\ rev \in [Sessions -> Caption] /\ offset \in [Sessions -> Caption] /\ head \in [Sessions -> Heads]
      /\ meeting \in [Sessions -> Meetings] /\ buffer \in [Sessions -> Buffers]
      /\ worker \in [Workers -> Jobs \cup {Idle, Dead}]
  BY TypesAre, SMTT(30) DEF ProjectionInv
<1>0. UNCHANGED <<rev, recent, life, up, seen>>
  BY DEF Commit
<1>1. PICK s \in Sessions, batch \in Caption, done \in Caption, m \in Meetings, h \in Heads :
        Outcome(w, s, batch, done, m, h) /\ Aftermath(s, batch, done, m)
  BY Committed
<1>2. /\ offset' = [offset EXCEPT ![s] = done] /\ head' = [head EXCEPT ![s] = h]
      /\ meeting' = [meeting EXCEPT ![s] = m]
  BY <1>1 DEF Outcome
<1>3. /\ offset' \in [Sessions -> Caption] /\ head' \in [Sessions -> Heads] /\ meeting' \in [Sessions -> Meetings]
      /\ offset'[s] = done /\ head'[s] = h /\ meeting'[s] = m
      /\ \A t \in Sessions : t # s => offset'[t] = offset[t] /\ head'[t] = head[t] /\ meeting'[t] = meeting[t]
  BY <1>2, <1>t
<1>4. worker' \in [Workers -> Jobs \cup {Idle, Dead}] /\ worker'[w] \in {Idle, Dead} /\ \A v \in Workers \ {w} : worker'[v] = worker[v]
  BY <1>1, <1>t DEF Outcome
<1>5. TypeOK'
  BY <1>0, <1>3, <1>4, Committed, Zenon DEF ProjectionInv, TypeOK, Meetings, Heads, Buffers
<1>n. \A g \in Segments : rev[s][g] \in Nat /\ offset[s][g] \in Nat /\ batch[g] \in Nat /\ done[g] \in Nat
  BY <1>t, ProjectionAssumption DEF Caption
<1>d. \A g \in Segments : done[g] \in {offset[s][g], batch[g]} /\ done[g] >= offset[s][g] /\ done[g] >= batch[g]
  BY <1>1 DEF Outcome
<1>6. \A g \in Segments : /\ offset[s][g] <= rev[s][g] /\ batch[g] <= rev[s][g]
                          /\ batch[g] # 0 => offset[s][g] < batch[g] \/ <<g, offset[s][g]>> \in Invalid
  <2>1. Below(batch, rev[s]) /\ Ahead(batch, offset[s])
    BY <1>1 DEF ProjectionInv, BatchFits, Outcome
  <2>2. Below(offset[s], rev[s])
    BY DEF ProjectionInv, SessionsFit, CaptionsLead
  <2> QED
    BY <2>1, <2>2 DEF Below, Ahead
<1>7. CaptionsLead(s)'
  <2>1. Below(done, rev[s])
    BY <1>6, <1>d DEF Below
  <2>2. CASE buffer'[s] = NoBuffer
    BY <2>1, <2>2, <1>0, <1>3, <1>n, Empties DEF CaptionsLead, Below, Ahead
  <2>3. CASE buffer'[s] = Ack(buffer[s], batch)
    <3>1. PICK b0 \in Buffers : b0 = buffer[s]
      BY <1>t
    <3>2. PICK b \in Buffers : b = Ack(b0, batch) /\ \A g \in Segments : b.segs[g] = IF b0.segs[g] <= batch[g] THEN 0 ELSE b0.segs[g]
      BY AckFacts
    <3>3. Below(b0.segs, rev[s]) /\ Ahead(b0.segs, offset[s])
      BY <3>1 DEF ProjectionInv, SessionsFit, CaptionsLead
    <3>n. \A g \in Segments : b0.segs[g] \in Nat
      BY ProjectionAssumption DEF Buffers, Caption
    <3>4. Below(b.segs, rev[s])
      BY <3>2, <3>3, <1>n DEF Below
    <3>5. Ahead(b.segs, done)
      <4> SUFFICES ASSUME NEW g \in Segments, b.segs[g] # 0 PROVE done[g] < b.segs[g] \/ <<g, done[g]>> \in Invalid
        BY DEF Ahead
      <4>1. b.segs[g] = b0.segs[g] /\ batch[g] < b0.segs[g]
        BY <3>2, <3>n, <1>n
      <4>2. offset[s][g] < b0.segs[g] \/ <<g, offset[s][g]>> \in Invalid
        BY <3>3, <4>1 DEF Ahead
      <4>3. CASE done[g] = offset[s][g]
        BY <4>1, <4>2, <4>3
      <4>4. CASE done[g] = batch[g]
        BY <4>1, <4>4
      <4> QED
        BY <4>3, <4>4, <1>d
    <3>6. buffer'[s] = b
      BY <2>3, <3>1, <3>2
    <3> QED
      BY <2>1, <3>4, <3>5, <3>6, <1>0, <1>3 DEF CaptionsLead
  <2> QED
    BY <1>1, <2>2, <2>3 DEF Aftermath
<1>8. RowFits(s)'
  <2>1. PICK m0 \in Meetings : m0 = meeting[s]
    BY <1>t
  <2>2. /\ m0.mode = "active" => ~m0.frozen
        /\ m0.mode = "draining" => m0.frozen /\ Below(offset[s], m0.frontier)
        /\ seen[s] <= m0.epoch
    BY <2>1 DEF ProjectionInv, SessionsFit, RowFits
  <2>3. m0.mode = "draining" => Below(done, m0.frontier)
    <3> SUFFICES ASSUME m0.mode = "draining", NEW g \in Segments PROVE done[g] <= m0.frontier[g]
      BY DEF Below
    <3>0. m0.frontier[g] \in Nat
      BY ProjectionAssumption DEF Meetings, Caption
    <3>1. offset[s][g] <= m0.frontier[g]
      BY <2>2 DEF Below
    <3>2. batch[g] # 0 => batch[g] = m0.frontier[g]
      BY <1>1, <2>1, <2>2 DEF Outcome, Within
    <3> QED
      BY <3>0, <3>1, <3>2, <1>d
  <2>4. CASE m = m0
    <3>1. m0.mode # "completed"
      BY <1>1, <2>1 DEF Outcome, Allowed, Eligible
    <3> QED
      BY <2>2, <2>3, <2>4, <3>1, <1>0, <1>3 DEF RowFits
  <2>5. CASE m = Finished(m0) /\ Drained(m0, done)
    <3>1. m.mode = "completed" /\ m.frontier = m0.frontier /\ m.epoch = m0.epoch
      BY <2>5, <1>t, MeetingRows
    <3>2. \A g \in Segments : done[g] = m0.frontier[g]
      <4>1. \A g \in Segments : done[g] >= m0.frontier[g] /\ done[g] <= m0.frontier[g]
        BY <2>3, <2>5 DEF Drained, Reaches, Below
      <4>2. \A g \in Segments : m0.frontier[g] \in Nat
        BY ProjectionAssumption DEF Meetings, Caption
      <4> QED
        BY <4>1, <4>2, <1>n
    <3>3. done = m0.frontier
      BY <3>2 DEF Meetings, Caption
    <3> QED
      BY <2>2, <3>1, <3>3, <1>0, <1>3 DEF RowFits
  <2> QED
    BY <1>1, <2>1, <2>4, <2>5 DEF Outcome, CommittedRow
<1>9. SessionsFit'
  <2> SUFFICES ASSUME NEW t \in Sessions PROVE CaptionsLead(t)' /\ RowFits(t)'
    BY DEF SessionsFit
  <2>1. CASE t = s
    BY <2>1, <1>7, <1>8
  <2>2. CASE t # s
    <3>1. offset'[t] = offset[t] /\ meeting'[t] = meeting[t] /\ buffer'[t] = buffer[t]
      BY <2>2, <1>1, <1>3 DEF Aftermath
    <3> QED
      BY <3>1, <1>0 DEF ProjectionInv, SessionsFit, CaptionsLead, RowFits
  <2> QED
    BY <2>1, <2>2
<1>10. HeadMatchesOffsets'
  <2> SUFFICES ASSUME NEW t \in Sessions, NEW g \in Segments
               PROVE  head'[t].content[g] = offset'[t][g] \/ <<g, offset'[t][g]>> \in Invalid
    BY DEF HeadMatchesOffsets
  <2>1. head[t].content[g] = offset[t][g] \/ <<g, offset[t][g]>> \in Invalid
    BY DEF ProjectionInv, HeadMatchesOffsets
  <2>2. CASE t # s
    BY <2>1, <2>2, <1>3
  <2>3. CASE t = s
    <3>1. h.content[g] = IF batch[g] # 0 THEN batch[g] ELSE head[s].content[g]
      BY <1>1 DEF Outcome
    <3>2. CASE batch[g] = 0
      <4>1. done[g] = offset[s][g]
        BY <3>2, <1>d, <1>n
      <4> QED
        BY <2>1, <2>3, <3>1, <3>2, <4>1, <1>3
    <3>3. CASE batch[g] # 0
      <4>1. done[g] = batch[g] \/ (done[g] = offset[s][g] /\ <<g, offset[s][g]>> \in Invalid)
        BY <3>3, <1>6, <1>d, <1>n
      <4> QED
        BY <2>3, <3>1, <3>3, <4>1, <1>3
    <3> QED
      BY <3>2, <3>3
  <2> QED
    BY <2>2, <2>3
<1>11. ASSUME NEW v \in Workers, worker'[v] \notin {Idle, Dead}
       PROVE  /\ v # w /\ worker'[v] = worker[v] /\ Busy(v) /\ worker[v].session \in Sessions
              /\ worker[v].session # s
  <2>1. v # w /\ worker'[v] = worker[v] /\ Busy(v)
    BY <1>4, <1>11 DEF Busy
  <2>2. worker[v].session \in Sessions
    BY <2>1, <1>t DEF Busy, Jobs
  <2>3. worker[w].session = s
    BY <1>1 DEF Outcome
  <2> QED
    BY <2>1, <2>2, <2>3 DEF ProjectionInv, SingleWriter
<1>12. \A v \in Workers : BatchFits(v)'
  <2> SUFFICES ASSUME NEW v \in Workers, worker'[v] \notin {Idle, Dead}
               PROVE  Below(worker'[v].batch, rev[worker'[v].session]) /\ Ahead(worker'[v].batch, offset'[worker'[v].session])
    BY <1>0 DEF BatchFits, Busy
  <2> QED
    BY <1>3, <1>11 DEF ProjectionInv, BatchFits
<1>13. SingleWriter'
  <2> SUFFICES ASSUME NEW v \in Workers, worker'[v] \notin {Idle, Dead}
               PROVE  /\ worker'[v].version = head'[worker'[v].session].version
                      /\ \A u \in Workers \ {v} : worker'[u].session # worker'[v].session
    BY DEF SingleWriter, Busy
  <2>1. /\ v # w /\ worker'[v] = worker[v] /\ Busy(v) /\ worker[v].session \in Sessions
        /\ worker[v].session # s
    BY <1>11
  <2>2. Idle.session \notin Sessions /\ Dead.session \notin Sessions
    BY ProjectionAssumption DEF Idle, Dead
  <2>3. \A u \in Workers \ {v} : worker'[u].session # worker[v].session
    BY <2>1, <2>2, <1>4 DEF ProjectionInv, SingleWriter
  <2> QED
    BY <2>1, <2>3, <1>3 DEF ProjectionInv, SingleWriter
<1> QED
  BY <1>5, <1>9, <1>10, <1>12, <1>13 DEF ProjectionInv

\* Every step keeps the invariant.
LEMMA ProjectionKept == ProjectionInv /\ [Next]_vars => ProjectionInv'
<1> SUFFICES ASSUME ProjectionInv, [Next]_vars PROVE ProjectionInv'
  OBVIOUS
<1>1. CASE User
  BY <1>1, CatchUpSteps, StopSteps DEF User
<1>2. CASE Outside
  BY <1>2, FinalCaptionStep, QuietSteps, RestartStep DEF Outside
<1>3. CASE Projector
  BY <1>3, PollStep, TakeStep, CommitStep, GivenUp DEF Projector, Extracted
<1>4. CASE UNCHANGED vars
  BY <1>4 DEF vars, database, memory, ProjectionInv, TypeOK, SingleWriter, HeadMatchesOffsets, SessionsFit,
     CaptionsLead, RowFits, BatchFits, Busy
<1> QED
  BY <1>1, <1>2, <1>3, <1>4 DEF Next

\* The invariant holds in every execution.
LEMMA ProjectionAlways == Spec => []ProjectionInv
<1>1. Init => ProjectionInv
  BY ProjectionStarts
<1>2. ProjectionInv /\ [Next]_vars => ProjectionInv'
  BY ProjectionKept
<1> QED
  BY <1>1, <1>2, PTL DEF Spec

\* The head, the offsets, the buffers and the workers of the projector agree whatever
\* the order of captions, polls, extractions, stops, restarts and faults: a head is
\* written by one worker at a time from the version it read, its content is what the
\* offsets say, and an analysis that ends on its own has projected its frontier.
THEOREM ProjectionSafeHolds == Spec => []ProjectionSafe
<1>1. ProjectionInv => ProjectionSafe
  BY DEF ProjectionInv, ProjectionSafe, SessionsFit, RowFits, CompletedExactly
<1> QED
  BY <1>1, ProjectionAlways, PTL

-----------------------------------------------------------------------------
(* What a step may do.                                                     *)

\* Only a commit writes a head, and besides it only a catch-up answers.
LEMMA Writers ==
  ASSUME ProjectionInv, [Next]_vars
  PROVE  \/ \E w \in Workers, late \in BOOLEAN : Busy(w) /\ Commit(w, late)
         \/ head' = head /\ answered' = answered
         \/ head' = head /\ \E s \in Sessions, late \in BOOLEAN : CatchUp(s, late) \/ Activate(s, late)
<1>1. CASE User
  <2>1. (\E s \in Sessions, late \in BOOLEAN : CatchUp(s, late) \/ Activate(s, late)) \/ (\E s \in Sessions : Stop(s)) \/ Disable
    BY <1>1, Zenon DEF User
  <2>2. CASE \E s \in Sessions, late \in BOOLEAN : CatchUp(s, late) \/ Activate(s, late)
    <3>1. \E s, e, late : CatchUpAt(s, e, late)
      BY <2>2, Zenon DEF CatchUp, Activate
    <3>2. head' = head
      BY <3>1 DEF CatchUpAt
    <3> QED
      BY <2>2, <3>2
  <2>3. CASE (\E s \in Sessions : Stop(s)) \/ Disable
    BY <2>3 DEF Stop, Disable, memory
  <2> QED
    BY <2>1, <2>2, <2>3
<1>2. CASE Outside
  <2>1. head' = head /\ answered' = answered
    BY <1>2, Zenon DEF Outside, FinalCaption, EndSession, RuntimeDown, RuntimeReady, Restart, memory, database
  <2> QED
    BY <2>1
<1>3. CASE Projector
  BY <1>3, Zenon DEF Projector, Extracted, Poll, Take, Refuse, Fail, database
<1>4. CASE UNCHANGED vars
  BY <1>4 DEF vars, database, memory
<1> QED
  BY <1>1, <1>2, <1>3, <1>4 DEF Next

\* A head is written in the activation its batch was begun in, and within a frozen frontier.
LEMMA HeadSteps ==
  ASSUME ProjectionInv, [Next]_vars, NEW s \in Sessions
  PROVE  /\ head'[s] # head[s] => /\ meeting[s].mode \in {"active", "draining"}
                                  /\ \E w \in Workers : worker[w].session = s /\ worker[w].epoch = meeting[s].epoch
         /\ meeting[s].mode = "draining" =>
              \A g \in Segments : head'[s].content[g] \in {head[s].content[g], meeting[s].frontier[g]}
<1>1. CASE head' = head
  BY <1>1
<1>2. CASE head' # head
  <2>1. PICK w \in Workers, late \in BOOLEAN : Busy(w) /\ Commit(w, late)
    BY <1>2, Writers
  <2>2. PICK t \in Sessions, batch \in Caption, done \in Caption, m \in Meetings, h \in Heads :
          Outcome(w, t, batch, done, m, h)
    BY <2>1, Committed
  <2>3. head \in [Sessions -> Heads]
    BY TypesAre DEF ProjectionInv
  <2>4. head' = [head EXCEPT ![t] = h]
    BY <2>2 DEF Outcome
  <2>5. CASE s # t
    BY <2>3, <2>4, <2>5
  <2>6. CASE s = t
    <3>1. head'[s] = h /\ \A g \in Segments : h.content[g] = IF batch[g] # 0 THEN batch[g] ELSE head[s].content[g]
      BY <2>2, <2>3, <2>4, <2>6 DEF Outcome
    <3>2. /\ worker[w].session = s /\ worker[w].epoch = meeting[s].epoch
          /\ meeting[s].mode \in {"active", "draining"}
          /\ \A g \in Segments : meeting[s].frozen /\ batch[g] # 0 => batch[g] = meeting[s].frontier[g]
      BY <2>2, <2>6 DEF Outcome, Allowed, Eligible, Within
    <3>3. meeting[s].mode = "draining" => meeting[s].frozen
      BY DEF ProjectionInv, SessionsFit, RowFits
    <3> QED
      BY <3>1, <3>2, <3>3
  <2> QED
    BY <2>5, <2>6
<1> QED
  BY <1>1, <1>2

\* Whoever is answered has what it asked for, from the activation it asked.
LEMMA AnswerSteps ==
  ASSUME ProjectionInv, [Next]_vars, NEW s \in Sessions, answered'[s] # answered[s]
  PROVE  answered'[s].epoch = meeting'[s].epoch /\ Reaches(offset'[s], answered'[s].target)
<1>t. meeting \in [Sessions -> Meetings] /\ offset \in [Sessions -> Caption]
  BY TypesAre DEF ProjectionInv
<1>1. CASE \E w \in Workers, late \in BOOLEAN : Busy(w) /\ Commit(w, late)
  <2>1. PICK w \in Workers, late \in BOOLEAN : Busy(w) /\ Commit(w, late)
    BY <1>1
  <2>2. PICK t \in Sessions, batch \in Caption, done \in Caption, m \in Meetings, h \in Heads :
          Outcome(w, t, batch, done, m, h) /\ Aftermath(t, batch, done, m)
    BY <2>1, Committed
  <2>3. s = t /\ answered'[s].epoch = meeting[s].epoch /\ Reaches(done, answered'[s].target)
    BY <2>2 DEF Aftermath
  <2>4. meeting'[s] = m /\ m.epoch = meeting[s].epoch /\ offset'[s] = done
    BY <1>t, <2>2, <2>3 DEF Outcome
  <2> QED
    BY <2>3, <2>4
<1>2. CASE \E t \in Sessions, late \in BOOLEAN : CatchUp(t, late) \/ Activate(t, late)
  <2>1. PICK t \in Sessions, late \in BOOLEAN : CatchUp(t, late) \/ Activate(t, late)
    BY <1>2
  <2>2. PICK e \in 0..MaxEpoch : CatchUpAt(t, e, late) /\ meeting'[t].epoch = e
    <3>1. meeting[t].epoch \in 0..MaxEpoch
      BY <1>t DEF Meetings
    <3>2. CASE CatchUp(t, late)
      BY <3>1, <3>2 DEF CatchUp
    <3>3. CASE Activate(t, late)
      <4>1. PICK m : m = [mode |-> "active", epoch |-> meeting[t].epoch + 1, frozen |-> FALSE, frontier |-> None]
        OBVIOUS
      <4>2. meeting[t].epoch < MaxEpoch /\ CatchUpAt(t, meeting[t].epoch + 1, late) /\ meeting' = [meeting EXCEPT ![t] = m]
        BY <3>3, <4>1 DEF Activate
      <4>3. meeting'[t] = m /\ m.epoch = meeting[t].epoch + 1
        BY <4>1, <4>2, <1>t
      <4>4. meeting[t].epoch + 1 \in 0..MaxEpoch
        BY <3>1, <4>2, ProjectionAssumption
      <4> QED
        BY <4>2, <4>3, <4>4
    <3> QED
      BY <2>1, <3>2, <3>3
  <2>3. PICK done \in Caption : /\ offset' = [offset EXCEPT ![t] = done]
                                /\ \A u \in Sessions : answered'[u] # answered[u] =>
                                     u = t /\ answered'[t].epoch = e /\ Reaches(done, answered'[t].target)
    BY <2>2, CaughtUp
  <2>4. s = t /\ answered'[s].epoch = e /\ Reaches(done, answered'[s].target)
    BY <2>3
  <2>5. offset'[s] = done
    BY <1>t, <2>3, <2>4
  <2> QED
    BY <2>2, <2>4, <2>5
<1> QED
  BY <1>1, <1>2, Writers

\* What a step may do to a head and to those who wait for it: nothing extracted for a
\* stopped activation is written, a frozen frontier is not overrun, and a catch-up is
\* answered with its captions projected, by the activation it was asked of.
THEOREM ProjectionStepsHold == Spec => ProjectionSteps
<1>1. ProjectionInv /\ [Next]_vars =>
        \A s \in Sessions : head'[s] # head[s] =>
          /\ meeting[s].mode \in {"active", "draining"}
          /\ \E w \in Workers : worker[w].session = s /\ worker[w].epoch = meeting[s].epoch
  BY HeadSteps
<1>2. ProjectionInv /\ [Next]_vars =>
        \A s \in Sessions : meeting[s].mode = "draining" =>
          \A g \in Segments : head'[s].content[g] \in {head[s].content[g], meeting[s].frontier[g]}
  BY HeadSteps
<1>3. ProjectionInv /\ [Next]_vars =>
        \A s \in Sessions : answered'[s] # answered[s] =>
          answered'[s].epoch = meeting'[s].epoch /\ Reaches(offset'[s], answered'[s].target)
  BY AnswerSteps
<1>4. Spec => OwnActivation
  BY <1>1, ProjectionAlways, PTL DEF Spec, OwnActivation
<1>5. Spec => FrontierOnly
  BY <1>2, ProjectionAlways, PTL DEF Spec, FrontierOnly
<1>6. Spec => CatchUpHonest
  BY <1>3, ProjectionAlways, PTL DEF Spec, CatchUpHonest
<1> QED
  BY <1>4, <1>5, <1>6 DEF ProjectionSteps

-----------------------------------------------------------------------------
(* No caption is forgotten between the scan and the commit, as long as a   *)
(* caption becomes visible within the window of the scan and the runtime   *)
(* does not restart between two polls.                                     *)

\* A caption g of s that waits for its projection.
Waits(s, g) == Allowed(meeting[s], up, life[s]) /\ rev[s][g] > offset[s][g]

\* The next scan reads it.
InReach(s, g) == seen[s] # meeting[s].epoch \/ meeting[s].mode = "draining" \/ g \in recent[s]

\* It is buffered in its newest revision for the present activation.
IsBuffered(s, g) == buffer[s].epoch = meeting[s].epoch /\ buffer[s].segs[g] = rev[s][g]

Remembered(s, g) == Waits(s, g) => InReach(s, g) \/ IsBuffered(s, g)

\* The property, caption by caption.
LEMMA RememberedAll == NothingForgotten <=> \A s \in Sessions, g \in Segments : Remembered(s, g)
BY DEF NothingForgotten, Remembered, Waits, InReach, IsBuffered

\* What happens outside the projector leaves a caption within reach.
LEMMA OutsideRemembers ==
  ASSUME ~LateCommits, ~FastRestarts, ProjectionInv, NothingForgotten, NEW s \in Sessions, NEW g \in Segments, Outside
  PROVE  Remembered(s, g)'
<1>r. Remembered(s, g)
  BY RememberedAll
<1>1. CASE \E t \in Sessions, k \in Segments : FinalCaption(t, k)
  <2>1. PICK t \in Sessions, k \in Segments : FinalCaption(t, k)
    BY <1>1
  <2>2. /\ rev \in [Sessions -> Caption] /\ recent \in [Sessions -> SUBSET Segments]
        /\ rev' = [rev EXCEPT ![t][k] = @ + 1] /\ recent' = [recent EXCEPT ![t] = @ \cup {k}]
        /\ UNCHANGED <<life, up, meeting, offset, seen, buffer>>
    BY <2>1, TypesAre DEF FinalCaption, memory, ProjectionInv
  <2>3. CASE s = t /\ g = k
    BY <2>2, <2>3 DEF Remembered, InReach
  <2>4. CASE ~(s = t /\ g = k)
    <3>1. rev'[s][g] = rev[s][g]
      BY <2>2, <2>4 DEF Caption
    <3>2. recent[s] \subseteq recent'[s]
      BY <2>2
    <3> QED
      BY <1>r, <2>2, <3>1, <3>2 DEF Remembered, Waits, InReach, IsBuffered
  <2> QED
    BY <2>3, <2>4
<1>2. CASE \E t \in Sessions, l \in {"finalizing", "ended"} : EndSession(t, l)
  <2>1. /\ UNCHANGED <<rev, recent, up, meeting, offset, seen, buffer>>
        /\ life'[s] = life[s] \/ life'[s] = "ended" \/ (life[s] = "live" /\ life'[s] = "finalizing")
    BY <1>2, TypesAre DEF EndSession, memory, ProjectionInv
  <2>2. Waits(s, g)' => Waits(s, g)
    BY <2>1 DEF Waits, Allowed, Eligible
  <2> QED
    BY <1>r, <2>1, <2>2 DEF Remembered, InReach, IsBuffered
<1>3. CASE RuntimeDown
  BY <1>3, Zenon DEF RuntimeDown, Remembered, Waits, Allowed, Eligible
<1>4. CASE RuntimeReady \/ Restart
  <2>1. seen'[s] = NoEpoch /\ meeting' = meeting
    BY <1>4 DEF RuntimeReady, Restart, memory, database
  <2>2. meeting[s].epoch # NoEpoch
    BY TypesAre, ProjectionAssumption DEF ProjectionInv, Meetings, NoEpoch
  <2> QED
    BY <2>1, <2>2 DEF Remembered, InReach
<1> QED
  BY <1>1, <1>2, <1>3, <1>4 DEF Outside

\* A stopped analysis waits for nothing; an activation and a catch-up buffer what there is.
LEMMA UserRemembers ==
  ASSUME ProjectionInv, NothingForgotten, NEW s \in Sessions, NEW g \in Segments, User
  PROVE  Remembered(s, g)'
<1>r. Remembered(s, g)
  BY RememberedAll
<1>t. meeting \in [Sessions -> Meetings] /\ offset \in [Sessions -> Caption] /\ buffer \in [Sessions -> Buffers]
  BY TypesAre DEF ProjectionInv
<1>1. CASE (\E t \in Sessions : Stop(t)) \/ Disable
  <2>1. /\ UNCHANGED <<rev, recent, life, offset, seen, buffer>>
        /\ meeting'[s] = meeting[s] \/ meeting'[s] = Stopped(meeting[s])
        /\ up' = up \/ up' = FALSE
    BY <1>1, <1>t DEF Stop, Disable, memory
  <2>2. CASE meeting'[s] = meeting[s]
    <3>1. Waits(s, g)' => Waits(s, g)
      BY <2>1, <2>2, Zenon DEF Waits, Allowed, Eligible
    <3> QED
      BY <1>r, <2>1, <2>2, <3>1 DEF Remembered, InReach, IsBuffered
  <2>3. CASE meeting'[s] = Stopped(meeting[s])
    <3>1. meeting'[s].mode = "inactive"
      <4>1. meeting[s].epoch < MaxEpoch \/ meeting'[s] = meeting[s]
        BY <1>1, <1>t DEF Stop, Disable
      <4>2. CASE meeting[s].epoch < MaxEpoch
        BY <2>3, <4>2, <1>t, StoppedRow
      <4>3. CASE meeting'[s] = meeting[s]
        <5>1. PICK m \in Meetings : m = meeting[s]
          BY <1>t
        <5>2. Stopped(m).mode = "inactive"
          BY <5>1 DEF Stopped, Meetings
        <5> QED
          BY <2>3, <5>1, <5>2
      <4> QED
        BY <4>1, <4>2, <4>3
    <3> QED
      BY <3>1 DEF Remembered, Waits, Allowed, Eligible
  <2> QED
    BY <2>1, <2>2, <2>3
<1>2. CASE \E t \in Sessions, late \in BOOLEAN : CatchUp(t, late) \/ Activate(t, late)
  <2>1. PICK t \in Sessions, late \in BOOLEAN : CatchUp(t, late) \/ Activate(t, late)
    BY <1>2
  <2>2. PICK e \in 0..MaxEpoch : /\ CatchUpAt(t, e, late) /\ meeting'[t].epoch = e
                                 /\ s # t => meeting'[s] = meeting[s]
    <3>1. meeting[t].epoch \in 0..MaxEpoch
      BY <1>t DEF Meetings
    <3>2. CASE CatchUp(t, late)
      BY <3>1, <3>2 DEF CatchUp
    <3>3. CASE Activate(t, late)
      <4>1. PICK m : m = [mode |-> "active", epoch |-> meeting[t].epoch + 1, frozen |-> FALSE, frontier |-> None]
        OBVIOUS
      <4>2. meeting[t].epoch < MaxEpoch /\ CatchUpAt(t, meeting[t].epoch + 1, late) /\ meeting' = [meeting EXCEPT ![t] = m]
        BY <3>3, <4>1 DEF Activate
      <4>3. meeting'[t] = m /\ m.epoch = meeting[t].epoch + 1 /\ (s # t => meeting'[s] = meeting[s])
        BY <4>1, <4>2, <1>t
      <4>4. meeting[t].epoch + 1 \in 0..MaxEpoch
        BY <3>1, <4>2, ProjectionAssumption
      <4> QED
        BY <4>2, <4>3, <4>4
    <3> QED
      BY <2>1, <3>2, <3>3
  <2>3. PICK done \in Caption, b \in Buffers :
          /\ offset' = [offset EXCEPT ![t] = done] /\ buffer' = [buffer EXCEPT ![t] = b] /\ b.epoch = e
          /\ \A k \in Segments : rev[t][k] > done[k] => b.segs[k] = rev[t][k]
    BY <2>2, CaughtUp
  <2>4. UNCHANGED <<rev, recent, life, up, seen>>
    BY <2>2 DEF CatchUpAt
  <2>5. CASE s = t
    <3>1. offset'[s] = done /\ buffer'[s] = b /\ meeting'[s].epoch = e
      BY <2>2, <2>3, <2>5, <1>t
    <3> QED
      BY <2>3, <2>4, <2>5, <3>1 DEF Remembered, Waits, IsBuffered
  <2>6. CASE s # t
    <3>1. offset'[s] = offset[s] /\ buffer'[s] = buffer[s] /\ meeting'[s] = meeting[s]
      BY <2>2, <2>3, <2>6, <1>t
    <3> QED
      BY <1>r, <2>4, <3>1 DEF Remembered, Waits, InReach, IsBuffered
  <2> QED
    BY <2>5, <2>6
<1> QED
  BY <1>1, <1>2 DEF User

\* A poll buffers or skips what it finds, and it finds what is not buffered yet.
LEMMA PollRemembers ==
  ASSUME ProjectionInv, NothingForgotten, NEW s \in Sessions, NEW g \in Segments,
         NEW late, NEW dying, NEW keep, Poll(late, dying, keep)
  PROVE  Remembered(s, g)'
<1> SUFFICES ASSUME Waits(s, g)', meeting'[s].mode # "draining" PROVE IsBuffered(s, g)'
  BY DEF Remembered, InReach
<1>r. Remembered(s, g)
  BY RememberedAll
<1>0. rev' = rev /\ up' = up
  BY DEF Poll
<1>1. PICK r \in Caption, o \in Caption, b0 \in Buffers : r = rev[s] /\ o = offset[s] /\ b0 = buffer[s]
  BY TypesAre DEF ProjectionInv
<1>2. PICK p \in Caption : p = Found(s)
  BY Scan
<1>3. PICK done, v : done = Later(o, Skipped(p)) /\ v = Valid(p)
  OBVIOUS
<1>4. offset'[s] = done /\ meeting'[s] = Scanned(s) /\ meeting'[s].epoch = meeting[s].epoch
  BY <1>1, <1>2, <1>3, PolledSession, Scan
<1>5. /\ done \in Caption /\ v \in Caption /\ done[g] >= o[g] /\ v[g] \in {0, p[g]}
      /\ p[g] # 0 => done[g] = p[g] \/ v[g] = p[g]
  <2>1. \A k \in Segments : p[k] = 0 \/ p[k] > o[k]
    BY <1>1, <1>2, Scan
  <2> QED
    BY <1>3, <2>1, SkipFacts, ZenonT(30)
<1>6. Allowed(Scanned(s), up, life'[s]) /\ up /\ r[g] > done[g]
  BY <1>0, <1>1, <1>4 DEF Waits, Allowed, Eligible
<1>7. Scanned(s).mode = "active" /\ ~Scanned(s).frozen /\ life'[s] # "ended"
  BY <1>4, <1>6, Scan DEF Allowed, Eligible
<1>8. life[s] # "ended"
  BY <1>7 DEF Poll
<1>9. Scanned(s) = meeting[s] /\ Admitted(s)
  <2>1. Frozen(s) = meeting[s]
    BY <1>8, Zenon DEF Frozen
  <2>2. Scanned(s) \in {Frozen(s), Finished(Frozen(s))}
    BY Zenon DEF Scanned, Finished
  <2>3. PICK m \in Meetings : m = meeting[s]
    BY TypesAre DEF ProjectionInv
  <2>4. Finished(m).mode = "completed"
    BY Empties, MeetingRows
  <2>5. Scanned(s) = meeting[s]
    BY <1>7, <2>1, <2>2, <2>3, <2>4
  <2> QED
    BY <1>6, <1>8, <2>5 DEF Admitted, Allowed
<1>n. r[g] \in Nat /\ o[g] \in Nat /\ done[g] \in Nat /\ v[g] \in Nat /\ b0.segs[g] \in Nat /\ r[g] # 0
  <2>1. r[g] \in Nat /\ o[g] \in Nat /\ done[g] \in Nat /\ v[g] \in Nat /\ b0.segs[g] \in Nat
    BY <1>1, <1>5, ProjectionAssumption DEF Caption, Buffers
  <2> QED
    BY <2>1, <1>6
<1>10. r[g] > o[g]
  BY <1>n, <1>5, <1>6
<1>11. Waits(s, g)
  BY <1>1, <1>6, <1>8, <1>9, <1>10 DEF Waits, Allowed
<1>12. PICK h \in Buffers : h = Polled(s, life'[s])
  BY PolledFacts
<1>13. /\ h.segs[g] >= v[g]
       /\ v # None => h.epoch = meeting[s].epoch
       /\ b0.epoch = meeting[s].epoch => h.epoch = meeting[s].epoch /\ h.segs[g] >= b0.segs[g]
  <2>1. PICK l : l = life'[s]
    OBVIOUS
  <2> QED
    BY <2>1, <1>1, <1>2, <1>3, <1>6, <1>12, PolledFacts
<1>14. h.epoch = meeting[s].epoch /\ h.segs[g] >= r[g]
  <2>1. CASE g \in recent[s] \/ Backfill(s)
    <3>1. p[g] = r[g]
      BY <2>1, <1>1, <1>2, <1>7, <1>9, <1>10 DEF Found
    <3>2. v[g] = r[g]
      BY <3>1, <1>5, <1>6, <1>n
    <3>3. v # None
      BY <3>2, <1>n, Empties
    <3> QED
      BY <3>2, <3>3, <1>13
  <2>2. CASE ~(g \in recent[s] \/ Backfill(s))
    <3>1. seen[s] = meeting[s].epoch /\ meeting[s].mode = "active"
      BY <2>2, <1>7, <1>9 DEF Backfill
    <3>2. IsBuffered(s, g)
      BY <2>2, <3>1, <1>11, <1>r DEF Remembered, InReach
    <3>3. b0.epoch = meeting[s].epoch /\ b0.segs[g] = r[g]
      BY <3>2, <1>1 DEF IsBuffered
    <3> QED
      BY <3>3, <1>13
  <2> QED
    BY <2>1, <2>2
<1>15. buffer'[s] = h
  BY <1>6, <1>12, <1>14, PolledSession
<1>16. h.segs[g] <= r[g]
  BY <1>0, <1>1, <1>15, PollRow DEF CaptionsLead, Below
<1>17. h.segs[g] = r[g]
  <2>1. h.segs[g] \in Nat
    BY ProjectionAssumption DEF Caption, Buffers
  <2> QED
    BY <2>1, <1>n, <1>14, <1>16
<1> QED
  BY <1>0, <1>1, <1>4, <1>14, <1>15, <1>17 DEF IsBuffered

\* A step of a worker keeps the caption in the buffer, unless its revision is projected
\* by it, the analysis is over or drains, or the buffer is of another activation.
LEMMA WorkerRemembers ==
  ASSUME NothingForgotten, NEW s \in Sessions, NEW g \in Segments,
         UNCHANGED <<rev, recent, life, up, seen>>, offset'[s] = offset[s], meeting'[s] = meeting[s],
         \/ buffer'[s].epoch = buffer[s].epoch /\ buffer'[s].segs[g] = buffer[s].segs[g]
         \/ buffer[s].epoch # meeting[s].epoch
         \/ meeting[s].mode = "draining"
         \/ ~Allowed(meeting[s], up, life[s])
  PROVE  Remembered(s, g)'
<1>1. Remembered(s, g)
  BY RememberedAll
<1> QED
  BY <1>1 DEF Remembered, Waits, InReach, IsBuffered

\* A frozen row that is permitted drains.
LEMMA FrozenDrains ==
  ASSUME ProjectionInv, NEW s \in Sessions, NEW batch, Allowed(meeting[s], up, life[s]), ~Within(meeting[s], batch)
  PROVE  meeting[s].mode = "draining"
BY DEF ProjectionInv, SessionsFit, RowFits, Within, Allowed, Eligible

\* A worker that takes a session drops no caption that is still to be projected.
LEMMA TakeRemembers ==
  ASSUME ProjectionInv, NothingForgotten, NEW s \in Sessions, NEW g \in Segments,
         NEW w \in Workers, NEW t \in Sessions, Take(w, t)
  PROVE  Remembered(s, g)'
<1>0. UNCHANGED <<rev, recent, life, up, seen, offset, meeting>>
  BY DEF Take, database
<1>t. buffer \in [Sessions -> Buffers]
  BY TypesAre DEF ProjectionInv
<1>1. \/ buffer' = buffer
      \/ buffer' = [buffer EXCEPT ![t] = NoBuffer] /\ ~Permits(t, buffer[t].epoch)
      \/ buffer' = [buffer EXCEPT ![t] = NoBuffer] /\ Permits(t, buffer[t].epoch)
           /\ \E batch : ~Within(meeting[t], batch)
  BY Zenon DEF Take, Discard, PermitsBatch
<1>2. CASE buffer'[s] = buffer[s]
  BY <1>0, <1>2, WorkerRemembers
<1>3. CASE buffer'[s] # buffer[s]
  <2>1. s = t
    BY <1>1, <1>3, <1>t
  <2>2. CASE ~Permits(t, buffer[t].epoch)
    BY <1>0, <2>1, <2>2, WorkerRemembers DEF Permits
  <2>3. CASE Permits(t, buffer[t].epoch) /\ \E batch : ~Within(meeting[t], batch)
    <3>1. meeting[s].mode = "draining"
      BY <2>1, <2>3, FrozenDrains DEF Permits
    <3> QED
      BY <1>0, <3>1, WorkerRemembers
  <2> QED
    BY <1>1, <1>3, <2>2, <2>3
<1> QED
  BY <1>2, <1>3

\* So does one that gives its batch up.
LEMMA GivenUpRemembers ==
  ASSUME ProjectionInv, NothingForgotten, NEW s \in Sessions, NEW g \in Segments,
         NEW w \in Workers, NEW late, Busy(w), Refuse(w, late) \/ Fail(w, late)
  PROVE  Remembered(s, g)'
<1>t. /\ buffer \in [Sessions -> Buffers] /\ waiters \in [Sessions -> SUBSET Targets]
      /\ worker \in [Workers -> Jobs \cup {Idle, Dead}]
  BY TypesAre DEF ProjectionInv
<1>0. UNCHANGED <<rev, recent, life, up, seen, offset, meeting>>
  BY Zenon DEF Refuse, Fail, database
<1>1. PICK t \in Sessions : t = worker[w].session
  BY <1>t DEF Busy, Jobs
<1>e. PICK e : e = worker[w].epoch
  OBVIOUS
<1>2. \E b \in Buffers, ws \in SUBSET Targets :
        /\ Release(t, b, ws, meeting[t], late)
        /\ \/ b.epoch = buffer[t].epoch /\ b.segs = buffer[t].segs
           \/ buffer[t].epoch # meeting[t].epoch \/ meeting[t].mode = "draining" \/ ~Allowed(meeting[t], up, life[t])
  <2>1. CASE Refuse(w, late)
    <3>1. PICK b : b = IF buffer[t].epoch = e THEN NoBuffer ELSE buffer[t]
      OBVIOUS
    <3>2. Release(t, b, Kept(waiters[t], e), meeting[t], late)
      BY <1>1, <1>e, <2>1, <3>1, Zenon DEF Refuse
    <3>3. b \in Buffers /\ Kept(waiters[t], e) \in SUBSET Targets
      BY <1>t, <3>1, Empties DEF Kept
    <3>4. ~(Permits(t, e) /\ Within(meeting[t], worker[w].batch))
      BY <1>1, <1>e, <2>1, Zenon DEF Refuse, Fenced, PermitsBatch
    <3>5. CASE buffer[t].epoch = e /\ e = meeting[t].epoch /\ Allowed(meeting[t], up, life[t])
      <4>1. meeting[t].mode = "draining"
        BY <3>4, <3>5, FrozenDrains DEF Permits
      <4> QED
        BY <3>2, <3>3, <4>1
    <3>6. CASE buffer[t].epoch # e
      BY <3>1, <3>2, <3>3, <3>6
    <3>7. CASE buffer[t].epoch = e /\ (e # meeting[t].epoch \/ ~Allowed(meeting[t], up, life[t]))
      BY <3>2, <3>3, <3>7
    <3> QED
      BY <3>5, <3>6, <3>7
  <2>2. CASE Fail(w, late)
    <3>0. PICK r : r = [buffer[t] EXCEPT !.retry = TRUE]
      OBVIOUS
    <3>1. PICK b : b = IF buffer[t].epoch = e THEN r ELSE buffer[t]
      OBVIOUS
    <3>2. Release(t, b, waiters[t], meeting[t], late)
      BY <1>1, <1>e, <2>2, <3>0, <3>1, Zenon DEF Fail
    <3>3. buffer[t] \in Buffers /\ waiters[t] \in SUBSET Targets
      BY <1>t
    <3>4. r \in Buffers /\ r.segs = buffer[t].segs /\ r.epoch = buffer[t].epoch
      BY <3>0, <3>3, BufferFlags, Empties, Zenon
    <3> QED
      BY <3>1, <3>2, <3>3, <3>4
  <2> QED
    BY <2>1, <2>2
<1>3. PICK b \in Buffers, ws \in SUBSET Targets :
        /\ Release(t, b, ws, meeting[t], late)
        /\ \/ b.epoch = buffer[t].epoch /\ b.segs = buffer[t].segs
           \/ buffer[t].epoch # meeting[t].epoch \/ meeting[t].mode = "draining" \/ ~Allowed(meeting[t], up, life[t])
  BY <1>2
<1>4. /\ s # t => buffer'[s] = buffer[s]
      /\ Allowed(meeting[t], up, life[t]) /\ b.epoch = meeting[t].epoch => buffer'[t] = b
  BY <1>3, Released DEF ProjectionInv
<1>5. CASE s # t
  BY <1>0, <1>4, <1>5, WorkerRemembers
<1>6. CASE s = t
  BY <1>0, <1>3, <1>4, <1>6, WorkerRemembers
<1> QED
  BY <1>5, <1>6

\* A commit takes out of the buffer what it projects.
LEMMA CommitRemembers ==
  ASSUME ProjectionInv, NothingForgotten, NEW s \in Sessions, NEW g \in Segments,
         NEW w \in Workers, NEW late, Busy(w), Commit(w, late)
  PROVE  Remembered(s, g)'
<1>t. /\ rev \in [Sessions -> Caption] /\ offset \in [Sessions -> Caption]
      /\ meeting \in [Sessions -> Meetings] /\ buffer \in [Sessions -> Buffers]
  BY TypesAre DEF ProjectionInv
<1>0. UNCHANGED <<rev, recent, life, up, seen>>
  BY DEF Commit
<1>1. PICK t \in Sessions, batch \in Caption, done \in Caption, m \in Meetings, h \in Heads :
        Outcome(w, t, batch, done, m, h) /\ Aftermath(t, batch, done, m)
  BY Committed
<1>2. /\ offset' = [offset EXCEPT ![t] = done] /\ meeting' = [meeting EXCEPT ![t] = m]
      /\ CommittedRow(t, m, done) /\ m.epoch = meeting[t].epoch
      /\ done[g] >= offset[t][g] /\ done[g] >= batch[g]
  BY <1>1 DEF Outcome
<1>3. CASE s # t
  <2>1. offset'[s] = offset[s] /\ meeting'[s] = meeting[s] /\ buffer'[s] = buffer[s]
    BY <1>1, <1>2, <1>3, <1>t DEF Aftermath
  <2> QED
    BY <1>0, <2>1, WorkerRemembers
<1>4. CASE s = t
  <2> SUFFICES ASSUME Waits(s, g)', ~InReach(s, g)' PROVE IsBuffered(s, g)'
    BY DEF Remembered
  <2>1. offset'[s] = done /\ meeting'[s] = m
    BY <1>2, <1>4, <1>t
  <2>2. Allowed(m, up, life[s]) /\ rev[s][g] > done[g]
    BY <2>1, <1>0 DEF Waits
  <2>3. m = meeting[s]
    <3>1. PICK m0 \in Meetings : m0 = meeting[s]
      BY <1>t
    <3>2. Finished(m0).mode = "completed"
      BY Empties, MeetingRows
    <3> QED
      BY <3>1, <3>2, <2>2, <1>2, <1>4 DEF CommittedRow, Allowed, Eligible
  <2>n. /\ rev[s][g] \in Nat /\ offset[s][g] \in Nat /\ batch[g] \in Nat /\ done[g] \in Nat
    BY <1>t, ProjectionAssumption DEF Caption
  <2>4. IsBuffered(s, g)
    <3>1. Waits(s, g)
      BY <2>2, <2>3, <2>n, <1>2, <1>4 DEF Waits
    <3>2. ~InReach(s, g)
      BY <2>1, <2>3, <1>0 DEF InReach
    <3> QED
      BY <3>1, <3>2, RememberedAll DEF Remembered
  <2>5. buffer'[s] = Ack(buffer[s], batch)
    BY <2>2, <2>3, <2>4, <1>1, <1>4 DEF Aftermath, IsBuffered
  <2>6. PICK b0 \in Buffers : b0 = buffer[s]
    BY <1>t
  <2>7. Ack(b0, batch).epoch = b0.epoch /\ Ack(b0, batch).segs[g] = IF b0.segs[g] <= batch[g] THEN 0 ELSE b0.segs[g]
    BY AckFacts
  <2>8. b0.segs[g] = rev[s][g] /\ b0.epoch = meeting[s].epoch
    BY <2>4, <2>6 DEF IsBuffered
  <2>9. ~(rev[s][g] <= batch[g])
    BY <2>2, <2>n, <1>2
  <2>10. buffer'[s].epoch = meeting[s].epoch /\ buffer'[s].segs[g] = rev[s][g]
    BY <2>5, <2>6, <2>7, <2>8, <2>9
  <2> QED
    BY <2>1, <2>3, <2>10, <1>0 DEF IsBuffered
<1> QED
  BY <1>3, <1>4

\* Every step remembers.
LEMMA NothingLost ==
  ASSUME ~LateCommits, ~FastRestarts
  PROVE  ProjectionInv /\ NothingForgotten /\ [Next]_vars => NothingForgotten'
<1> SUFFICES ASSUME ProjectionInv, NothingForgotten, [Next]_vars PROVE NothingForgotten'
  OBVIOUS
<1> SUFFICES ASSUME NEW s \in Sessions, NEW g \in Segments PROVE Remembered(s, g)'
  BY DEF NothingForgotten, Remembered, Waits, InReach, IsBuffered
<1>1. CASE User
  BY <1>1, UserRemembers
<1>2. CASE Outside
  BY <1>2, OutsideRemembers
<1>3. CASE Projector
  BY <1>3, PollRemembers, TakeRemembers, GivenUpRemembers, CommitRemembers DEF Projector, Extracted
<1>4. CASE UNCHANGED vars
  BY <1>4, RememberedAll DEF vars, database, memory, Remembered, Waits, InReach, IsBuffered
<1> QED
  BY <1>1, <1>2, <1>3, <1>4 DEF Next

\* Where captions become visible within the window of the scan and the runtime does not
\* come back between two polls, no caption of a permitted analysis is forgotten on its
\* way from the cursor to the buffer and the commit.  Without either hypothesis the
\* projector does lose captions.
THEOREM NothingForgottenHolds ==
  ASSUME ~LateCommits, ~FastRestarts
  PROVE  Spec => []NothingForgotten
<1>1. Init => NothingForgotten
  <2> SUFFICES ASSUME Init, NEW s \in Sessions PROVE meeting[s].mode = "inactive"
    BY DEF NothingForgotten, Allowed, Eligible
  <2> QED
    BY DEF Init
<1>2. ProjectionInv /\ NothingForgotten /\ [Next]_vars => NothingForgotten'
  BY NothingLost
<1> QED
  BY <1>1, <1>2, ProjectionAlways, PTL DEF Spec

=============================================================================

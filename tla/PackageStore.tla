----------------------------- MODULE PackageStore -----------------------------
(***************************************************************************)
(* The results of one session: Packages frozen from its final captions or  *)
(* from an approved transcript revision, the revisions people write on top *)
(* of a Package, and the pages in which a consumer reads a Package.  Every *)
(* request runs in a thread of its own: it reads without a lock, and takes *)
(* the database's write lock with its first INSERT or UPDATE, which it     *)
(* keeps until it commits.  The unique constraints decide what was raced.  *)
(***************************************************************************)
EXTENDS Naturals, Sequences, FiniteSets, SequencesExt

CONSTANTS
  Segments,      \* the session's caption segments, in time order
  Requests,      \* threads with a request
  MaxPackages,   \* bound: rows of result_packages
  MaxRevisions,  \* bound: rows of transcript_revisions
  PageLimit,     \* the smaller of a reader's limit and max_page_items
  PageBytes      \* max_page_bytes; an item has as many bytes as segments

VARIABLES
  finals,     \* the segments with a final row
  packages,   \* result_packages in version order: [status, raw, items, revision, base]
  revisions,  \* transcript_revisions in version order: [status, base, items]
  request,    \* what each thread has read: [op, on, version, items, approved]
  reading     \* a consumer's pages: [package, after, got]

ASSUME PackagesAssumption == Segments \in Seq(Range(Segments)) /\ PageLimit \in Nat /\ PageBytes \in Nat

packageVars == <<finals, packages, revisions, request, reading>>

NoRequest == [op |-> "none", on |-> 0, version |-> 0, items |-> <<>>, approved |-> {}]

NotReading == [package |-> 0, after |-> 0, got |-> <<>>]

PackagesInit ==
  /\ finals = {} /\ packages = <<>> /\ revisions = <<>>
  /\ request = [q \in Requests |-> NoRequest] /\ reading = NotReading

FinalSegment(s) ==
  /\ s \notin finals
  /\ finals' = finals \cup {s}
  /\ UNCHANGED <<packages, revisions, request, reading>>

-----------------------------------------------------------------------------
\* A transcript document: each item stands for a set of source segments.
Covers(items) == UNION Range(items)

\* normalize_timeline: one item for a final segment, in time order.
Timeline[n \in 0..Len(Segments)] ==
  IF n = 0 THEN <<>>
  ELSE IF Segments[n] \in finals THEN Append(Timeline[n - 1], {Segments[n]}) ELSE Timeline[n - 1]

RawItems == Timeline[Len(Segments)]

\* PackageValidator.validate: a baseline has its raw source only, which is the effective one.
EffectiveSource(raw, items, revision) == revision = 0 => items = raw

\* PackageValidator.validate: the approved source keeps the raw one's segments.  The timeline
\* and evidence indexes are derived from the effective source by the builder itself.
ValidPackage(raw, items, revision) ==
  EffectiveSource(raw, items, revision) /\ (revision # 0 => Covers(items) = Covers(raw))

Reads(q, op, on, version, items, approved) ==
  /\ request[q] = NoRequest
  /\ request' = [request EXCEPT ![q] = [op |-> op, on |-> on, version |-> version, items |-> items,
                                        approved |-> approved]]
  /\ UNCHANGED <<finals, packages, revisions, reading>>

RequestDone(q) == request' = [request EXCEPT ![q] = NoRequest]

\* build_baseline up to its first INSERT.
BaselineReads(q) ==
  /\ finals # {} /\ Len(packages) < MaxPackages
  /\ Reads(q, "baseline", 0, Len(packages) + 1, RawItems, {})

\* build_from_revision up to its first INSERT.
BuildReads(q, r) ==
  /\ revisions[r].status = "approved" /\ Len(packages) < MaxPackages
  /\ Reads(q, "build", r, Len(packages) + 1, revisions[r].items, {})

\* Mutant: freeze leaves the Package that was current as it is.
FrozenBeside(package) == Append(packages, package)

\* create_building, the documents, validate and freeze, which supersedes the frozen one.
Frozen(package) ==
  [p \in 1..Len(packages) + 1 |->
     IF p = Len(packages) + 1 THEN package
     ELSE [packages[p] EXCEPT !.status = IF @ = "frozen" THEN "superseded" ELSE @]]

\* The unique constraint on (session, version) turns the later of two builds away.
Stored(q, raw, base) ==
  LET it == request[q]
  IN /\ packages' = IF it.version = Len(packages) + 1 /\ ValidPackage(raw, it.items, it.on)
                    THEN Frozen([status |-> "frozen", raw |-> raw, items |-> it.items,
                                 revision |-> it.on, base |-> base])
                    ELSE packages
     /\ RequestDone(q)
     /\ UNCHANGED <<finals, revisions, reading>>

\* build_baseline goes on
BuildPackage(q) == request[q].op = "baseline" /\ Stored(q, request[q].items, 0)

\* build_from_revision goes on, with the raw source of the revision's Package
RebuildPackage(q) ==
  /\ request[q].op = "build"
  /\ LET base == revisions[request[q].on].base IN Stored(q, packages[base].raw, base)

-----------------------------------------------------------------------------
\* create_from_package: the Package's effective source becomes the first content.
RevisionFromPackage(q, p) ==
  /\ Len(revisions) < MaxRevisions
  /\ Reads(q, "revise", p, Len(revisions) + 1, packages[p].items, {})

\* Mutant: an edited version is not compared with the raw source.
RevisionVersionUnchecked(q, r, items) ==
  /\ Len(revisions) < MaxRevisions
  /\ Reads(q, "revise", revisions[r].base, Len(revisions) + 1, items, {})

\* create_version with _validate_against_package: items may be merged, split and moved,
\* the segments they stand for are those of the raw source.
RevisionVersion(q, r, items) ==
  /\ Len(revisions) < MaxRevisions
  /\ Covers(items) = Covers(packages[revisions[r].base].raw)
  /\ Reads(q, "revise", revisions[r].base, Len(revisions) + 1, items, {})

\* The rows' constraints: a version is new in its session and language.
RevisionFree(v) == v = Len(revisions) + 1

\* RevisionRepository.create; the unique constraint on (session, language, version).
CreateRevision(q) ==
  LET it == request[q]
  IN /\ it.op = "revise"
     /\ revisions' = IF RevisionFree(it.version)
                     THEN Append(revisions, [status |-> "saved", base |-> it.on, items |-> it.items])
                     ELSE revisions
     /\ RequestDone(q)
     /\ UNCHANGED <<finals, packages, reading>>

ApprovedRevisions == {r \in DOMAIN revisions : revisions[r].status = "approved"}

\* approve: the target and the approved ones, as they are read.
RevisionApproveReads(q, r) ==
  /\ revisions[r].status = "saved"
  /\ Reads(q, "approve", r, 0, <<>>, ApprovedRevisions \ {r})

\* approve: their UPDATEs; the partial unique index allows one approved revision.
RevisionApproves(q) ==
  LET it == request[q]
  IN /\ it.op = "approve"
     /\ revisions' = IF ApprovedRevisions \subseteq it.approved \cup {it.on}
                     THEN [r \in DOMAIN revisions |->
                             IF r = it.on THEN [revisions[r] EXCEPT !.status = "approved"]
                             ELSE IF r \in it.approved THEN [revisions[r] EXCEPT !.status = "superseded"]
                             ELSE revisions[r]]
                     ELSE revisions
     /\ RequestDone(q)
     /\ UNCHANGED <<finals, packages, reading>>

-----------------------------------------------------------------------------
\* delivery_page: items of the frozen documents from after on, until the page is full.
FlatItems(p) == packages[p].raw \o IF packages[p].revision = 0 THEN <<>> ELSE packages[p].items

Bytes(items, n) ==
  LET upTo[k \in 0..n] == IF k = 0 THEN 0 ELSE upTo[k - 1] + Cardinality(items[k])
  IN upTo[n]

PageFrom(flat, after) ==
  LET rest == SubSeq(flat, after + 1, Len(flat))
      fits == {n \in 0..Len(rest) : n <= PageLimit /\ Bytes(rest, n) <= PageBytes}
  IN SubSeq(rest, 1, CHOOSE n \in fits : \A m \in fits : m <= n)

OpenPackage(p) ==
  /\ reading.package = 0
  /\ reading' = [package |-> p, after |-> 0, got |-> <<>>]
  /\ UNCHANGED <<finals, packages, revisions, request>>

Done == Len(Segments) * 4 + 1  \* next_after_item = None

\* Mutant: the next page starts a whole limit further on, though bytes may end a page.
DeliveryPageFull ==
  LET flat == FlatItems(reading.package)
      page == PageFrom(flat, reading.after)
      next == reading.after + PageLimit
  IN /\ reading.package # 0 /\ reading.after # Done /\ page # <<>>
     /\ reading' = [reading EXCEPT !.got = @ \o page,
                                   !.after = IF next >= Len(flat) THEN Done ELSE next]
     /\ UNCHANGED <<finals, packages, revisions, request>>

\* One page; an item that fills no page is refused, which the reader sees as an error.
DeliveryPage ==
  LET flat == FlatItems(reading.package)
      page == PageFrom(flat, reading.after)
      next == reading.after + Len(page)
  IN /\ reading.package # 0 /\ reading.after # Done /\ page # <<>>
     /\ reading' = [reading EXCEPT !.got = @ \o page,
                                   !.after = IF next >= Len(flat) THEN Done ELSE next]
     /\ UNCHANGED <<finals, packages, revisions, request>>

PackagesNext ==
  \/ (\E s \in Range(Segments) : FinalSegment(s))
  \/ (\E q \in Requests : BaselineReads(q) \/ BuildPackage(q) \/ RebuildPackage(q)
                      \/ CreateRevision(q) \/ RevisionApproves(q))
  \/ (\E q \in Requests, r \in DOMAIN revisions : BuildReads(q, r) \/ RevisionApproveReads(q, r))
  \/ (\E q \in Requests, p \in DOMAIN packages : RevisionFromPackage(q, p))
  \/ (\E q \in Requests, r \in DOMAIN revisions :
        \E items \in {<<finals>>, [i \in DOMAIN revisions[r].items |-> revisions[r].items[1]]} :
          RevisionVersion(q, r, items))
  \/ (\E p \in DOMAIN packages : OpenPackage(p))
  \/ DeliveryPage

PackagesSpec == PackagesInit /\ [][PackagesNext]_packageVars

-----------------------------------------------------------------------------
\* The results of a session have one current state: the newest Package is the frozen
\* one and every older one is superseded, and at most one revision is approved, with
\* any number of builds and approvals racing between their reads and their writes.
OneCurrentResult ==
  /\ \A p \in DOMAIN packages : packages[p].status = IF p = Len(packages) THEN "frozen" ELSE "superseded"
  /\ Cardinality(ApprovedRevisions) <= 1

\* However often a transcript is revised and packaged again while captions still arrive,
\* no source segment is lost or added: a Package's text stands for the segments of its
\* raw source, and its raw source is that of the Package its revision was based on.
SegmentsPreserved ==
  /\ \A p \in DOMAIN packages :
       /\ Covers(packages[p].items) = Covers(packages[p].raw)
       /\ packages[p].revision # 0 => packages[p].raw = packages[packages[p].base].raw
  /\ \A r \in DOMAIN revisions : Covers(revisions[r].items) = Covers(packages[revisions[r].base].raw)

\* A reader that has reached the last page has had every item of the Package once, in
\* order, whatever was built, superseded or approved between two of its pages.
PagesWhole ==
  reading.package # 0 =>
    LET flat == FlatItems(reading.package)
    IN IF reading.after = Done THEN reading.got = flat
       ELSE reading.got = SubSeq(flat, 1, reading.after)

\* One current result, no segment lost and whole pages, under racing builds,
\* revisions, approvals and readers.
PackagesSafe == OneCurrentResult /\ SegmentsPreserved /\ PagesWhole

=============================================================================

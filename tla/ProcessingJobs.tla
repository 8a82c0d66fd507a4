---------------------------- MODULE ProcessingJobs ----------------------------
(***************************************************************************)
(* Derived artifacts of one Package: the job runner (its queue, its worker *)
(* tasks and their rows), the workflows that ask a model about one chunk   *)
(* of the source after the other, and the review endpoints, which run in   *)
(* threads beside the event loop and share the derived_artifacts table     *)
(* with it.  A workflow's answer is what it cites: a sequence of sets of   *)
(* source items, one for each section, point, chapter or reviewed claim.   *)
(***************************************************************************)
EXTENDS Naturals, Sequences, FiniteSets, SequencesExt

CONSTANTS
  Jobs,          \* job ids
  Workers,       \* the _worker tasks (concurrency)
  JobKinds,      \* the artifact kinds each job may be asked for
  ItemChars,     \* the Package's effective source: the length of each item
  MaxItems,      \* max_items_per_chunk
  MaxChars,      \* max_input_chars
  MaxRetries,    \* max_retries of a completion
  Reviewers,     \* requests of people, each in a thread
  MaxArtifacts,  \* bound: rows of derived_artifacts
  MaxJobCrashes  \* bound: deaths and stops of the API process

VARIABLES
  jobs,       \* processing_jobs: [status, kind, target, result]
  jobQueue,   \* _queue
  userCancelled, \* _user_cancelled
  runner,     \* "off", "on"
  work,       \* the task of each worker: [pc, job, chunk, attempt, cited, version]
  artifacts,  \* derived_artifacts: [kind, target, version, status, parent, cited, job]
  review,     \* each reviewer's request: [pc, artifact, cited, version]
  jobCrashes

\* Artifacts of people name no job, an idle worker none either.
ASSUME JobsAssumption == "none" \notin Jobs

jobVars == <<jobs, jobQueue, userCancelled, runner, work, artifacts, review, jobCrashes>>

Complete == {"clean_script", "refined_translation"}  \* requires_complete_source

NoWork == [pc |-> "waiting", job |-> "none", chunk |-> 0, attempt |-> 0, cited |-> <<>>, version |-> 0]

NoReview == [pc |-> "idle", artifact |-> 0, cited |-> <<>>, version |-> 0]

NoJob == [status |-> "none", kind |-> "none", target |-> 0, result |-> 0]

JobsInit ==
  /\ jobs = [j \in Jobs |-> NoJob]
  /\ jobQueue = <<>> /\ userCancelled = {} /\ runner = "on"
  /\ work = [w \in Workers |-> NoWork]
  /\ artifacts = <<>> /\ review = [r \in Reviewers |-> NoReview] /\ jobCrashes = 0

-----------------------------------------------------------------------------
\* chunk_items: item by item, a chunk is closed when it is full or would get too long.
Chunked(acc, i, chars) ==
  IF Len(acc.current) >= MaxItems
     \/ (acc.current # <<>> /\ acc.chars + chars[i] > MaxChars)
  THEN [chunks |-> Append(acc.chunks, acc.current), current |-> <<i>>, chars |-> chars[i]]
  ELSE [acc EXCEPT !.current = Append(@, i), !.chars = @ + chars[i]]

ChunkItems(chars) ==
  LET upTo[n \in 0..Len(chars)] ==
        IF n = 0 THEN [chunks |-> <<>>, current |-> <<>>, chars |-> 0]
        ELSE Chunked(upTo[n - 1], n, chars)
      all == upTo[Len(chars)]
  IN IF all.current = <<>> THEN all.chunks ELSE Append(all.chunks, all.current)

SourceChunks == ChunkItems(ItemChars)

Items == 1..Len(ItemChars)

Cites(answer) == UNION Range(answer)

CitesOnce(answer) == \A i, j \in DOMAIN answer : i # j => answer[i] \cap answer[j] = {}

\* A section, point or chapter has its items, none of them twice.
NoneEmpty(answer) == answer # <<>> /\ \A i \in DOMAIN answer : answer[i] # {}

\* The _parse_chunk of each workflow: the text workflows owe every item of the chunk once,
\* the other two may leave items out, a fact review owes one verdict for each claim.
ParseCleanScript(chunk, answer) ==
  NoneEmpty(answer) /\ Cites(answer) = Range(chunk) /\ CitesOnce(answer)

ParseRefinedTranslation(chunk, answer) ==
  NoneEmpty(answer) /\ Cites(answer) = Range(chunk) /\ CitesOnce(answer)

ParseSummary(chunk, answer) == NoneEmpty(answer) /\ Cites(answer) \subseteq Range(chunk)

ParseChapterOutline(chunk, answer) == NoneEmpty(answer) /\ Cites(answer) \subseteq Range(chunk)

ParseTimelineFactReview(chunk, answer) ==
  Len(answer) = Len(chunk) /\ Cites(answer) \subseteq Items

ParseChunk(kind, chunk, answer) ==
  \/ kind = "clean_script" /\ ParseCleanScript(chunk, answer)
  \/ kind = "refined_translation" /\ ParseRefinedTranslation(chunk, answer)
  \/ kind = "summary" /\ ParseSummary(chunk, answer)
  \/ kind = "chapter_outline" /\ ParseChapterOutline(chunk, answer)
  \/ kind = "timeline_fact_review" /\ ParseTimelineFactReview(chunk, answer)

\* The run of each workflow: the chunks it asks about one after the other, the sections of
\* their answers being put together in this order.
CleanScriptRun == SourceChunks

RefinedTranslationRun == SourceChunks

SummaryRun == SourceChunks

ChapterOutlineRun == SourceChunks

\* _target_claims: one claim for each section, point or chapter of the target.
TargetClaims(target) == [i \in DOMAIN artifacts[target].cited |-> 1]

TimelineFactReviewRun(target) == ChunkItems(TargetClaims(target))

\* A fact review is about an artifact of one of the other kinds; the others take no target.
TargetFits(job) == job.target # 0 => artifacts[job.target].kind # "timeline_fact_review"

ChunksOf(job) ==
  CASE job.kind = "clean_script" -> CleanScriptRun
    [] job.kind = "refined_translation" -> RefinedTranslationRun
    [] job.kind = "summary" -> SummaryRun
    [] job.kind = "chapter_outline" -> ChapterOutlineRun
    [] job.kind = "timeline_fact_review" -> TimelineFactReviewRun(job.target)

\* The entries that bring evidence; a claim without support brings none.
Evidence(cited) == {i \in DOMAIN cited : cited[i] # {}}

\* EvidenceValidator.validate over the whole draft.
ValidEvidence(kind, cited) ==
  IF Evidence(cited) = {} THEN kind = "timeline_fact_review"
  ELSE /\ Cites(cited) \subseteq Items
       /\ kind \in Complete => Cites(cited) = Items /\ CitesOnce(cited)

\* The answers a model may give about a chunk: external.
Foreign == Len(ItemChars) + 1

Answers(chunk) ==
  LET some == SUBSET (Range(chunk) \cup {Foreign})
  IN {<<s>> : s \in some} \cup {<<Range(chunk), Range(chunk)>>}
     \cup {[i \in DOMAIN chunk |-> {chunk[i]}], [i \in DOMAIN chunk |-> {}]}

-----------------------------------------------------------------------------
\* The synchronous code of the loop, from next_version to the commit, lets no other task run.
LoopFree == \A w \in Workers : work[w].pc # "storing"

\* artifact_identity_key
SameIdentity(a, kind, target) == artifacts[a].kind = kind /\ artifacts[a].target = target

NextVersion(kind, target) ==
  Cardinality({a \in DOMAIN artifacts : SameIdentity(a, kind, target)}) + 1

\* Mutant: no unique constraint.
Untaken(kind, target, v) == FALSE

\* The unique constraint on (package, identity, version).
VersionTaken(kind, target, v) ==
  \E a \in DOMAIN artifacts : SameIdentity(a, kind, target) /\ artifacts[a].version = v

\* create_queued
Queued(kind, target) == [status |-> "queued", kind |-> kind, target |-> target, result |-> 0]

\* submit: the row, its commit, then the queue.
Submit(j, kind, target) ==
  /\ runner = "on" /\ LoopFree /\ jobs[j].status = "none"
  /\ (kind = "timeline_fact_review") <=> (target # 0)
  /\ jobs' = [jobs EXCEPT ![j] = Queued(kind, target)]
  /\ jobQueue' = Append(jobQueue, j)
  /\ UNCHANGED <<userCancelled, runner, work, artifacts, review, jobCrashes>>

Unfinished(j) == jobs[j].status \in {"queued", "running"}

\* mark_cancelled
Cancelled(j) == jobs' = [jobs EXCEPT ![j].status = "cancelled"]

\* cancel: the row and its commit, then the active task.
CancelJob(j) ==
  /\ LoopFree /\ Unfinished(j) /\ Cancelled(j)
  /\ LET active == {w \in Workers : work[w].job = j}
     IN /\ work' = [w \in Workers |-> IF w \in active THEN NoWork ELSE work[w]]
        /\ userCancelled' = IF active = {} THEN userCancelled \cup {j} ELSE userCancelled
  /\ UNCHANGED <<jobQueue, runner, artifacts, review, jobCrashes>>

\* _worker: the next id, whose execution is a task of its own.
TakeJob(w) ==
  /\ runner = "on" /\ LoopFree /\ work[w].pc = "waiting" /\ jobQueue # <<>>
  /\ jobQueue' = Tail(jobQueue)
  /\ work' = [work EXCEPT ![w] = [NoWork EXCEPT !.pc = "taken", !.job = Head(jobQueue)]]
  /\ UNCHANGED <<jobs, userCancelled, runner, artifacts, review, jobCrashes>>

\* The worker's finally clause.
Released(w) ==
  /\ work' = [work EXCEPT ![w] = NoWork]
  /\ userCancelled' = userCancelled \ {work[w].job}

\* mark_failed, of a queued or running row.
Failed(w) ==
  LET j == work[w].job
  IN /\ jobs' = [jobs EXCEPT ![j].status = IF Unfinished(j) THEN "failed" ELSE @]
     /\ Released(w)

\* _execute_job begins: mark_running takes a queued row only, and the workflow refuses a
\* target that does not fit before it asks anything.
MarkRunning(w) ==
  LET j == work[w].job
  IN /\ LoopFree /\ work[w].pc = "taken"
     /\ IF jobs[j].status = "queued" /\ ~TargetFits(jobs[j]) THEN Failed(w)
        ELSE IF jobs[j].status = "queued"
        THEN /\ jobs' = [jobs EXCEPT ![j].status = "running"]
             /\ work' = [work EXCEPT ![w].pc = "asking", ![w].chunk = 1]
             /\ UNCHANGED userCancelled
        ELSE Released(w) /\ UNCHANGED jobs
     /\ UNCHANGED <<jobQueue, runner, artifacts, review, jobCrashes>>

\* complete_and_parse: an answer that parses; then the next chunk, or the draft is whole.
ChunkAnswered(w) ==
  LET job == jobs[work[w].job]
      chunks == ChunksOf(job)
  IN /\ LoopFree /\ work[w].pc = "asking"
     /\ \E answer \in Answers(chunks[work[w].chunk]) :
          /\ ParseChunk(job.kind, chunks[work[w].chunk], answer)
          /\ work' = [work EXCEPT ![w].cited = @ \o answer, ![w].attempt = 0,
                                  ![w].chunk = IF @ = Len(chunks) THEN @ ELSE @ + 1,
                                  ![w].pc = IF work[w].chunk = Len(chunks) THEN "drafted" ELSE "asking"]
     /\ UNCHANGED <<jobs, jobQueue, userCancelled, runner, artifacts, review, jobCrashes>>

\* An answer that does not parse, or a request that failed: again, until the retries are spent.
ChunkFails(w) ==
  /\ LoopFree /\ work[w].pc = "asking"
  /\ \/ /\ \E answer \in Answers(ChunksOf(jobs[work[w].job])[work[w].chunk]) :
             ~ParseChunk(jobs[work[w].job].kind, ChunksOf(jobs[work[w].job])[work[w].chunk], answer)
        /\ work[w].attempt < MaxRetries
        /\ work' = [work EXCEPT ![w].attempt = @ + 1]
        /\ UNCHANGED <<jobs, userCancelled>>
     \/ Failed(w)  \* the last attempt, or an error that is not retryable
  /\ UNCHANGED <<jobQueue, runner, artifacts, review, jobCrashes>>

\* generate goes on: the evidence of the draft, and the version it will have.
Validate(w) ==
  LET job == jobs[work[w].job]
  IN /\ LoopFree /\ work[w].pc = "drafted"
     /\ IF ValidEvidence(job.kind, work[w].cited)
        THEN /\ work' = [work EXCEPT ![w].pc = "storing",
                                     ![w].version = NextVersion(job.kind, job.target)]
             /\ UNCHANGED <<jobs, userCancelled>>
        ELSE Failed(w)
     /\ UNCHANGED <<jobQueue, runner, artifacts, review, jobCrashes>>

\* create_generated
Generated(w) ==
  LET j == work[w].job
  IN [kind |-> jobs[j].kind, target |-> jobs[j].target, version |-> work[w].version,
      status |-> "generated", parent |-> jobs[j].target, cited |-> work[w].cited, job |-> j]

\* mark_completed
Completed(j, a) == jobs' = [jobs EXCEPT ![j].status = "completed", ![j].result = a]

\* Mutant: the artifact is committed before the job's row is marked.
StoreResultApart(w) ==
  LET job == jobs[work[w].job]
  IN /\ work[w].pc = "storing"
     /\ ~VersionTaken(job.kind, job.target, work[w].version)
     /\ artifacts' = Append(artifacts, Generated(w)) /\ Released(w)
     /\ UNCHANGED <<jobs, jobQueue, runner, review, jobCrashes>>

\* create_generated, the row read again, mark_completed: one transaction.
StoreResult(w) ==
  LET j == work[w].job
      job == jobs[j]
  IN /\ work[w].pc = "storing"
     /\ IF VersionTaken(job.kind, job.target, work[w].version)
        THEN Failed(w) /\ UNCHANGED artifacts
        ELSE /\ Released(w)
             /\ IF job.status = "running"
                THEN artifacts' = Append(artifacts, Generated(w)) /\ Completed(j, Len(artifacts) + 1)
                ELSE UNCHANGED <<jobs, artifacts>>
     /\ UNCHANGED <<jobQueue, runner, review, jobCrashes>>

\* stop, or the death of the process: what ran is gone; after stop the queue is still there.
StopRunner ==
  /\ runner = "on" /\ jobCrashes < MaxJobCrashes
  /\ runner' = "off" /\ jobCrashes' = jobCrashes + 1
  /\ work' = [w \in Workers |-> NoWork] /\ userCancelled' = {}
  /\ jobQueue' \in {jobQueue, <<>>}
  /\ UNCHANGED <<jobs, artifacts, review>>

\* recover_interrupted
Recovered == [j \in Jobs |-> IF Unfinished(j) THEN [jobs[j] EXCEPT !.status = "failed"] ELSE jobs[j]]

\* start
StartRunner ==
  /\ runner = "off"
  /\ runner' = "on" /\ jobs' = Recovered
  /\ UNCHANGED <<jobQueue, userCancelled, work, artifacts, review, jobCrashes>>

-----------------------------------------------------------------------------
\* _PROVENANCE_FIELDS: what an edit has to repeat, entry by entry.
Provenance(a) == artifacts[a].cited

\* The edits a reviewer may send: the citations as they are, or with the first one emptied.
HumanEdits(a) == {Provenance(a), [i \in DOMAIN Provenance(a) |-> IF i = 1 THEN {} ELSE Provenance(a)[i]]}

\* Mutant: the provenance fields are not compared, only the length of the list.
SameTopology(a, cited) == Len(cited) = Len(artifacts[a].cited)

\* _validate_human_content: the same list, the provenance of each entry untouched; the
\* texts the edit may change are not told apart here.
ValidHumanContent(a, cited) == cited = Provenance(a)

\* ArtifactReviewService.create_version: the parent, the edit against it, the version.
EditReads(r, a, cited) ==
  /\ review[r].pc = "idle" /\ Len(artifacts) < MaxArtifacts
  /\ ValidHumanContent(a, cited)
  /\ review' = [review EXCEPT ![r] = [pc |-> "editing", artifact |-> a, cited |-> cited,
                                      version |-> NextVersion(artifacts[a].kind, artifacts[a].target)]]
  /\ UNCHANGED <<jobs, jobQueue, userCancelled, runner, work, artifacts, jobCrashes>>

\* create_human_version: the INSERT; the loser of a race gets 409.
EditWrites(r) ==
  LET parent == artifacts[review[r].artifact]
  IN /\ review[r].pc = "editing"
     /\ artifacts' = IF VersionTaken(parent.kind, parent.target, review[r].version) THEN artifacts
                     ELSE Append(artifacts, [parent EXCEPT !.version = review[r].version,
                                   !.status = "reviewed", !.parent = review[r].artifact,
                                   !.cited = review[r].cited, !.job = "none"])
     /\ review' = [review EXCEPT ![r] = NoReview]
     /\ UNCHANGED <<jobs, jobQueue, userCancelled, runner, work, jobCrashes>>

\* approve_artifact: the row and its checks.
ApproveReads(r, a) ==
  /\ review[r].pc = "idle" /\ artifacts[a].status \in {"generated", "reviewed"}
  /\ review' = [review EXCEPT ![r] = [pc |-> "approving", artifact |-> a, cited |-> <<>>, version |-> 0]]
  /\ UNCHANGED <<jobs, jobQueue, userCancelled, runner, work, artifacts, jobCrashes>>

\* The UPDATE of the approved one, then of this row, whatever it has become meanwhile.
ApproveWrites(r) ==
  LET a == review[r].artifact
  IN /\ review[r].pc = "approving"
     /\ artifacts' = [b \in DOMAIN artifacts |->
          IF b = a THEN [artifacts[b] EXCEPT !.status = "approved"]
          ELSE IF SameIdentity(b, artifacts[a].kind, artifacts[a].target) /\ artifacts[b].status = "approved"
          THEN [artifacts[b] EXCEPT !.status = "superseded"]
          ELSE artifacts[b]]
     /\ review' = [review EXCEPT ![r] = NoReview]
     /\ UNCHANGED <<jobs, jobQueue, userCancelled, runner, work, jobCrashes>>

JobStep ==
  \/ (\E w \in Workers : TakeJob(w) \/ MarkRunning(w)
                     \/ ChunkAnswered(w) \/ Validate(w) \/ StoreResult(w))
  \/ StartRunner

JobsNext ==
  \/ JobStep
  \/ (\E w \in Workers : ChunkFails(w))
  \/ (\E j \in Jobs, target \in {0} \cup DOMAIN artifacts : \E kind \in JobKinds[j] : Submit(j, kind, target))
  \/ (\E j \in Jobs : CancelJob(j))
  \/ StopRunner
  \/ (\E r \in Reviewers, a \in DOMAIN artifacts : \E cited \in HumanEdits(a) : EditReads(r, a, cited))
  \/ (\E r \in Reviewers, a \in DOMAIN artifacts : ApproveReads(r, a))
  \/ (\E r \in Reviewers : EditWrites(r) \/ ApproveWrites(r))

\* The loop runs its tasks, and a stopped process is started again.
JobsFairness == WF_jobVars(JobStep)

JobsSpec == JobsInit /\ [][JobsNext]_jobVars /\ JobsFairness

-----------------------------------------------------------------------------
\* A job and its artifact are one: a completed job names the one artifact made by it,
\* and a job that was cancelled, failed or interrupted has left none, however the
\* cancellation, the stop and the reviewers' threads fall.
JobMatchesArtifact ==
  \A j \in Jobs :
    LET made == {a \in DOMAIN artifacts : artifacts[a].job = j}
    IN IF jobs[j].status = "completed" THEN made = {jobs[j].result} ELSE made = {}

\* Whatever the model answers, an artifact cites only items of its Package, and a clean
\* script or a translation cites every one of them exactly once across its chunks.
EvidenceComplete ==
  \A a \in DOMAIN artifacts :
    /\ Cites(artifacts[a].cited) \subseteq Items
    /\ artifacts[a].kind \in Complete => /\ Cites(artifacts[a].cited) = Items
                                         /\ CitesOnce(artifacts[a].cited)

\* One approved version of an identity, and no version twice.
OneApproved ==
  \A a, b \in DOMAIN artifacts :
    (a # b /\ SameIdentity(a, artifacts[b].kind, artifacts[b].target))
      => /\ artifacts[a].version # artifacts[b].version
         /\ ~(artifacts[a].status = "approved" /\ artifacts[b].status = "approved")

\* approve says: a superseded Artifact cannot be approved.
SupersededStays ==
  [][\A a \in DOMAIN artifacts : artifacts[a].status = "superseded" => artifacts'[a].status = "superseded"]_jobVars

\* Jobs, artifacts and reviews agree, whatever the model answers, the users cancel
\* and the reviewers' threads interleave.
JobsSafe == JobMatchesArtifact /\ EvidenceComplete /\ OneApproved

=============================================================================

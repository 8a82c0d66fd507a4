--------------------------- MODULE ActionCandidates ---------------------------
(***************************************************************************)
(* What the projector makes of a meeting's final captions: the items of    *)
(* its Meeting State and its action candidates, changed by the operations  *)
(* a model proposes and CandidateMergePolicy checks, in one transaction    *)
(* per batch.  Beside it Action Runs make external tasks of candidates:    *)
(* they read a candidate, search the task system and only then mark it.    *)
(* One projection at a time writes a session (MeetingProjection), and one  *)
(* call at a time holds the claim of an action key (ToolExecutor).         *)
(***************************************************************************)
EXTENDS Naturals, Sequences, FiniteSets

CONSTANTS
  CaptionIds,     \* segments of the session
  MaxCaption,     \* bound: revisions of each segment
  Titles,         \* normalised title and deliverable; 0 is an unresolved one
  Dues,           \* due dates; 0 is a missing one
  MaxCandidates,  \* bound: rows of action_candidates
  TaskRuns        \* task.create calls, one at a time each

VARIABLES
  caption,     \* SegmentRecord.revision of the final segments, 0 before
  processed,   \* MeetingProjectionOffsetRecord: the revision projected last
  notes,       \* topics, entities, decisions, highlights, conflicts: [text, at]
  candidates,  \* action_candidates with their current revision, oldest first
  projecting,  \* the batch at the model: its revisions, or NoBatch
  taskRun,     \* each call: [pc, on, revision, title, due]
  claimed,     \* candidates whose action key has a claim
  tasks        \* the task system: a sequence of [key, title, due]

candidateVars == <<caption, processed, notes, candidates, projecting, taskRun, claimed, tasks>>

NoBatch == [s \in {} |-> 0]

NoTask == [pc |-> "idle", on |-> 0, revision |-> 0, title |-> 0, due |-> 0]

CandidatesInit ==
  /\ caption = [s \in CaptionIds |-> 0] /\ processed = [s \in CaptionIds |-> 0]
  /\ notes = {} /\ candidates = <<>> /\ projecting = NoBatch
  /\ taskRun = [r \in TaskRuns |-> NoTask] /\ claimed = {} /\ tasks = <<>>

FinalizeCaption(s) ==
  /\ caption[s] < MaxCaption[s]
  /\ caption' = [caption EXCEPT ![s] = @ + 1]
  /\ UNCHANGED <<processed, notes, candidates, projecting, taskRun, claimed, tasks>>

\* The projector reads a batch of captions that are newer than their offsets.
ReadBatch(batch) ==
  /\ projecting = NoBatch /\ batch # {}
  /\ \A s \in batch : caption[s] > processed[s]
  /\ projecting' = [s \in batch |-> caption[s]]
  /\ UNCHANGED <<caption, processed, notes, candidates, taskRun, claimed, tasks>>

-----------------------------------------------------------------------------
\* _validate_current_evidence: the batch still is what the captions say.
CurrentEvidence == \A s \in DOMAIN projecting : caption[s] = projecting[s]

\* caption_evidence_message: the captions of the batch an item cites, at the revisions read.
CaptionEvidence(from) == [s \in from |-> projecting[s]]

\* materialize_candidate_content: a value is grounded in captions of the batch only.
Content(title, due, from) == [title |-> title, due |-> due, at |-> CaptionEvidence(from)]

\* _readiness
Readiness(content) == IF content.title # 0 THEN "recordable" ELSE "detected"

\* stable_candidate_id: the origin, the proposed content and the ids of its captions,
\* whatever their revisions.
Identity(origin, content) == <<origin, content.title, content.due, DOMAIN content.at>>

WithIdentity(rows, id) == {c \in DOMAIN rows : rows[c].id = id}

\* create_candidate
Candidate(origin, content) ==
  [id |-> Identity(origin, content), content |-> content, readiness |-> Readiness(content), revision |-> 1,
   status |-> "active", execution |-> "not_requested", by |-> 0]

\* _create: a candidate with this id is taken as it is.
Create(rows, origin, content) ==
  IF WithIdentity(rows, Identity(origin, content)) # {} THEN rows
  ELSE Append(rows, Candidate(origin, content))

\* append_candidate_revision
Revised(row, content) ==
  [row EXCEPT !.content = content, !.readiness = Readiness(content), !.revision = @ + 1]

\* supersede_candidate
Superseded(row, survivor) == [row EXCEPT !.status = "superseded", !.by = survivor]

\* _revise
MayRevise(c) == candidates[c].status = "active" /\ candidates[c].execution # "executing"

Revise(c, content) == [candidates EXCEPT ![c] = Revised(@, content)]

\* Mutant: any candidate that nobody executes may be merged or split.
MayReshapeUnrequested(c) == candidates[c].execution = "not_requested"

\* _merge and _split take active candidates nobody has asked to execute.
MayReshape(c) == candidates[c].status = "active" /\ candidates[c].execution = "not_requested"

\* _safe_merge: the same deliverable, and no date that contradicts another.
SafeMerge(a, b) ==
  /\ a.title # 0 /\ a.title = b.title
  /\ a.due = 0 \/ b.due = 0 \/ a.due = b.due

\* _merge_content, with _merge_grounded for each value: a known one wins, the evidence is joined.
MergeContent(a, b) ==
  [title |-> a.title, due |-> IF a.due = 0 THEN b.due ELSE a.due,
   at |-> [s \in DOMAIN a.at \cup DOMAIN b.at |-> IF s \in DOMAIN b.at THEN b.at[s] ELSE a.at[s]]]

\* _merge: the older one survives.
Merge(c, d) ==
  [candidates EXCEPT ![c] = Revised(@, MergeContent(@.content, candidates[d].content)),
                     ![d] = Superseded(@, c)]

\* _split: the parts are new candidates of this parent, the first one succeeds it.
Split(c, first, second) ==
  LET rows == Create(Create(candidates, <<c, 1>>, first), <<c, 2>>, second)
  IN [rows EXCEPT ![c] = Superseded(@, CHOOSE p \in WithIdentity(rows, Identity(<<c, 1>>, first)) : TRUE)]

\* _cancel, which an execution under way does not prevent.
Cancel(c) == [candidates EXCEPT ![c] = [Revised(@, @.content) EXCEPT !.status = "cancelled"]]

\* _apply_operation: what one proposed operation makes of the rows; without one they stay
\* (bound: one operation a batch).
Proposals == [title : Titles, due : Dues, from : SUBSET DOMAIN projecting \ {{}}]

Proposed(p) == Content(p.title, p.due, p.from)

Applied ==
  {candidates}
  \cup {Create(candidates, <<0, 0>>, Proposed(p)) : p \in Proposals}
  \cup {Revise(c, Proposed(p)) : c \in {d \in DOMAIN candidates : MayRevise(d)}, p \in Proposals}
  \cup {Merge(pair[1], pair[2]) : pair \in {e \in (DOMAIN candidates) \X (DOMAIN candidates) :
          /\ e[1] < e[2] /\ MayReshape(e[1]) /\ MayReshape(e[2])
          /\ SafeMerge(candidates[e[1]].content, candidates[e[2]].content)}}
  \cup {Split(c, Proposed(p), Proposed(q)) :
          c \in {d \in DOMAIN candidates : MayReshape(d)}, p \in Proposals, q \in Proposals}
  \cup {Cancel(c) : c \in {d \in DOMAIN candidates : candidates[d].status = "active"}}

\* Mutant: an item goes only when all its captions are projected again.
RetainedPartly == {n \in notes : ~(DOMAIN n.at \subseteq DOMAIN projecting)}

\* _merge_items: an item with a caption of the batch goes.
Retained == {n \in notes : DOMAIN n.at \cap DOMAIN projecting = {}}

\* _state_item and _entity: its captions and their revisions.
StateItem(from) == [at |-> CaptionEvidence(from)]

MergeMeetingState(from) == Retained \cup {StateItem(f) : f \in from}

\* advance_offset, for each segment of the batch.
Advanced == [s \in CaptionIds |-> IF s \in DOMAIN projecting THEN projecting[s] ELSE processed[s]]

\* _commit_projection: the candidates, merge_meeting_state and the offsets, in one commit.
CommitBatch(rows, from) ==
  /\ projecting # NoBatch /\ CurrentEvidence /\ Len(rows) <= MaxCandidates
  /\ candidates' = rows
  /\ notes' = MergeMeetingState(from)
  /\ processed' = Advanced
  /\ projecting' = NoBatch
  /\ UNCHANGED <<caption, taskRun, claimed, tasks>>

\* The model fails, or one proposed operation is refused: nothing of the batch is kept.
BatchFailed ==
  /\ projecting # NoBatch
  /\ projecting' = NoBatch
  /\ UNCHANGED <<caption, processed, notes, candidates, taskRun, claimed, tasks>>

-----------------------------------------------------------------------------
\* The claim of a candidate's action key is taken once and for ever (ToolExecutor);
\* _prepare_candidate then needs an active and recordable candidate.
Actionable(c) == candidates[c].status = "active" /\ candidates[c].readiness = "recordable"

\* The candidate as _load_candidate reads it, at the revision the run asks for.
Loaded(c) ==
  [pc |-> "searching", on |-> c, revision |-> candidates[c].revision,
   title |-> candidates[c].content.title, due |-> candidates[c].content.due]

\* The candidate is read, and the searches of the task system are under way.
PrepareCandidate(r, c) ==
  /\ taskRun[r].pc = "idle" /\ c \notin claimed
  /\ taskRun' = IF Actionable(c) THEN [taskRun EXCEPT ![r] = Loaded(c)] ELSE taskRun
  /\ claimed' = claimed \cup {c}
  /\ UNCHANGED <<caption, processed, notes, candidates, projecting, tasks>>

\* TaskSystemAdapter.search: by the action key, by the title.
WithKey(c) == {t \in DOMAIN tasks : tasks[t].key = c}

Titled(title) == {t \in DOMAIN tasks : tasks[t].title = title}

DatesFit(a, b) == a = 0 \/ b = 0 \/ a = b

\* _classify: the same title and a date that fits is the same task when the subagents agree;
\* the same title with a date that does not fit is for the user to decide.
Duplicate(r) == \E t \in Titled(taskRun[r].title) : DatesFit(tasks[t].due, taskRun[r].due)

Ambiguous(r) == \E t \in Titled(taskRun[r].title) : ~DatesFit(tasks[t].due, taskRun[r].due)

\* The two searches are back: a task is reused, the user is asked, or the candidate is marked.
ReuseTask(r) ==
  /\ taskRun[r].pc = "searching" /\ (WithKey(taskRun[r].on) # {} \/ Duplicate(r))
  /\ taskRun' = [taskRun EXCEPT ![r].pc = "reading"]
  /\ UNCHANGED <<caption, processed, notes, candidates, projecting, claimed, tasks>>

AskAboutTask(r) ==
  /\ taskRun[r].pc = "searching" /\ Ambiguous(r)
  /\ taskRun' = [taskRun EXCEPT ![r] = NoTask]
  /\ UNCHANGED <<caption, processed, notes, candidates, projecting, claimed, tasks>>

\* _mark_candidate_executing and _mark_candidate_executed look at the execution only.
Marked(c, execution) == candidates' = [candidates EXCEPT ![c].execution = execution]

BeginCreate(r) ==
  LET c == taskRun[r].on
  IN /\ taskRun[r].pc = "searching" /\ WithKey(c) = {} /\ ~Ambiguous(r)
     /\ taskRun' = [taskRun EXCEPT ![r].pc = "creating"]
     /\ Marked(c, "executing")
     /\ UNCHANGED <<caption, processed, notes, projecting, claimed, tasks>>

\* adapter.create: the task is made and answered, or the outcome is unknown.
CreateTask(r, made, answered) ==
  /\ taskRun[r].pc = "creating" /\ (answered => made)
  /\ tasks' = IF made THEN Append(tasks, [key |-> taskRun[r].on, title |-> taskRun[r].title, due |-> taskRun[r].due])
              ELSE tasks
  /\ taskRun' = [taskRun EXCEPT ![r].pc = IF answered THEN "reading" ELSE "unknown"]
  /\ UNCHANGED <<caption, processed, notes, candidates, projecting, claimed>>

\* The read-back, and _mark_candidate_executed.
TaskRead(r) ==
  /\ taskRun[r].pc = "reading"
  /\ taskRun' = [taskRun EXCEPT ![r] = NoTask]
  /\ Marked(taskRun[r].on, "executed")
  /\ UNCHANGED <<caption, processed, notes, projecting, claimed, tasks>>

\* reconcile_candidate finds the task by its key; the candidate is left as "executing".
\* A revision that came in between (a cancellation) makes it raise instead.
ReconcileTask(r) ==
  /\ taskRun[r].pc = "unknown"
  /\ candidates[taskRun[r].on].revision = taskRun[r].revision /\ WithKey(taskRun[r].on) # {}
  /\ taskRun' = [taskRun EXCEPT ![r] = NoTask]
  /\ UNCHANGED <<caption, processed, notes, candidates, projecting, claimed, tasks>>

CandidatesNext ==
  \/ (\E s \in CaptionIds : FinalizeCaption(s))
  \/ (\E batch \in SUBSET CaptionIds : ReadBatch(batch))
  \/ (\E rows \in Applied, from \in SUBSET (SUBSET DOMAIN projecting \ {{}}) :
        Cardinality(from) <= 1 /\ CommitBatch(rows, from))
  \/ BatchFailed
  \/ (\E r \in TaskRuns, c \in DOMAIN candidates : PrepareCandidate(r, c))
  \/ (\E r \in TaskRuns : \/ ReuseTask(r) \/ AskAboutTask(r) \/ BeginCreate(r)
                          \/ TaskRead(r) \/ ReconcileTask(r))
  \/ (\E r \in TaskRuns, made, answered \in BOOLEAN : CreateTask(r, made, answered))

CandidatesSpec == CandidatesInit /\ [][CandidatesNext]_candidateVars

-----------------------------------------------------------------------------
\* Every item of the Meeting State rests on the caption revisions projected last: a
\* revised caption that is projected again takes all items that cite it along, also
\* those which cite other captions, and a batch that failed takes none.
NotesCurrent == \A n \in notes : \A s \in DOMAIN n.at : n.at[s] = processed[s]

\* Whoever follows a superseded candidate to its successor, through any sequence of
\* merges, splits and cancellations, comes to one that is not superseded.
SuccessorExists ==
  LET reach[n \in 0..Len(candidates)] ==
        IF n = 0 THEN {c \in DOMAIN candidates : candidates[c].status # "superseded"}
        ELSE reach[n - 1] \cup {c \in DOMAIN candidates : candidates[c].by \in reach[n - 1]}
  IN reach[Len(candidates)] = DOMAIN candidates

\* The design says candidates are merged or split only while none of them has entered
\* external execution.
SupersededUnexecuted ==
  \A c \in DOMAIN candidates : candidates[c].status = "superseded" => candidates[c].execution = "not_requested"

\* The items rest on what was projected last, and no chain of successors ends at a
\* superseded candidate.
CandidatesSafe == NotesCurrent /\ SuccessorExists

=============================================================================

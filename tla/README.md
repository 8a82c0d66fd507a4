# Matinier: a TLA+ model of the captioning host, its meeting assistant and its plugins

Matinier (LiveCaption Studio) captions live audio, projects the captions into a
Meeting State, lets a private assistant answer questions and, after an explicit
confirmation, create tasks in an external task system, makes Packages and derived
artifacts of the transcript, and runs third-party plugins in containers.  Its
backend is asyncio Python over SQLite: most of what can go wrong goes wrong between
two awaits, two transactions or two lives of a process.  This directory models those
places.

All paths are relative to `src/backend/app/` unless they begin with `src/` or
`docs/` (`src/docs/`).

## 1. Inventory

### 1.1 The parts, their state and what makes them correct

**Captions.**  A caption session is one `sessions` row written by the caption worker
(another process), the API's event loop (HLS input) and API threads (cancel, replay
failure).  The worker drives an ASR session, which it needs, and a translation
session, which it does not; both stream audio through a bounded queue to a remote
task.  Final captions become rows, and the media projector makes ordered media events
of them.  Hard: every write is a SELECT and an UPDATE with another process in between;
a failure, a stop and the end of the audio race; the projector commits events and
offsets in two transactions, and its scan takes the oldest sessions one after another.
Correct when the translation fails alone, a finished session has read and persisted
everything, every session ends, and every final revision of a session the scan reaches is
one event.

**Meeting State.**  The projector scans final captions, buffers them per session, takes
sessions from a queue of two heaps, sends a batch to a model and commits what it
proposes, under an activation with an epoch and a frozen frontier.  The merge policy
turns a proposal into notes and action candidates with a lineage.  Hard: revisions that
arrive while a batch is out, activations that change under it, a scan window over
`updated_at`, candidates replaced while a run executes them.

**Assistant.**  A question is a Fast Turn with a deadline, which may hand over to an
Action Run in one transaction.  A run freezes a context, lets read-only branches, a
critic and a planner deliberate within one budget of model calls, and executes tools;
an external write goes through a grant, a claim per logical key and a ToolCall.  The
scheduler runs executions, startup recovery picks up those a death left.  Hard: the
create is applied after its timeout, two executions race for one candidate, anything
may be revoked between two transactions, and a run that returns the wrong status is
never driven again.

**Processing.**  Jobs ask a model about one chunk of a Package after the other and write
derived artifacts; people review and approve these, write transcript revisions and build
new Packages.  Hard: reviewers are threads beside the worker's loop, a job may be
cancelled between the check of its row and its commit, versions are numbered by reading
the highest.

**Plugins.**  The supervisor keeps one container per enabled version, restores its
sessions after a death and delivers events with an acknowledged cursor over a JSON-RPC
pipe; the broker serves capability calls behind idempotency keys and grants;
installations are two-phase tickets, and an update migrates the state.  Two example
plugins (course organizer, meeting assistant) keep saved state and a view at the Host.
Hard: an acknowledgement that is lost or older than the plugin; scopes of an earlier
life; a session opened half-way; the lock given up for a model call; writes during a
migration.

### 1.2 Interactions

```
 caption worker --rows--> media projector --events--> PluginHost ==RPC==> plugin ==RPC==> broker
   |        ^ HLS input, API threads                                        |
   +--rows--> Meeting State projector --state, candidates--> Action Run --> ToolExecutor --> task system
   |                  ^ activate, stop                        ^ admit, input, approve, cancel, handoff
   |                  +----------- host actions --------------+-- Fast Turn
   +--rows--> Packages --> revisions, processing jobs --> artifacts
```

The API's runners, projector, operation worker and supervisor share one event loop and
interleave where a coroutine awaits.  Plain `def` endpoints run in the thread pool; the
media projector runs in threads under `_projection_lock`; the caption worker is another
process.  SQLite (WAL, busy timeout 5 s) has one writer at a time.

### 1.3 Not modelled

* What a model answers, a user types or a remote service decides: nondeterministic
  choices.  Prompts, the parsing of answers and text normalisation are inside these
  choices.
* File formats, signatures, JSON schemas, hashes, exporters, subtitle formatting:
  pure and sequential, no state.
* Replay, audio decoding, chunking of samples, HTTP, GraphQL and websocket transport,
  the URL policy of HLS: I/O.
* Read endpoints, history views, traces and metrics: nothing decides on them.
* Diagnostics, evaluation, migrations, scripts, and the frontend (rendering; its
  reducers keep no state that survives a reload).
* Host actions (`plugins/host_actions.py`) appear only as the admission of a confirmed
  operation in `ActionRun` and of an analysis in `MeetingProjection`; previews and
  intents of their own, and document delivery, do not.
* The reconcilers of partial captions (`captions/reconciler.py`) and the pairing of
  translated text: their loops compare texts character by character.

`PROJECT.json` lists every component with its sources, status and what its model
leaves out.

## 2. Modules

| Module | Models | Composition |
|---|---|---|
| `OneShotAction` | what the assistant promises about one external change | implemented by `ToolExecutor` |
| `ToolExecutor` | `assistant/tools/executor.py`, grants, claims, ToolCalls, the mutation on its way | implements `OneShotAction` (`KeepsPromise`) |
| `ToolExecutorProofs` | theorems | extends it |
| `ActionRun` | runner, execution guard, operations and their worker, approval, recovery | `X == INSTANCE ToolExecutor`: its tool steps are `ToolExecutor`'s, and it implements it (`RefinesExecutor`) |
| `ActionRunProofs` | theorems about the life of a run and about its planning | extends `ActionRun` and `ActionPlanning`; `XP == INSTANCE ToolExecutorProofs` |
| `ActionScheduler` | `assistant/action_scheduler.py` in full | a run is a returned status or an exception |
| `MeetingContext` | context builder and the guard before a write | one run's planning and writing |
| `Deliberation` | planner, branches, critic and the budget of model calls | one run's rounds |
| `ActionPlanning` | the two together | extends both |
| `FastTurn` | Fast Turn, question operation, handoff | |
| `SessionQueue`, `FairSessionQueue` | what the projector expects of its queue; the two heaps with stale entries and the burst counter | the second implements the first (`ImplementsQueue`) |
| `MeetingProjection` | scan, buffers, workers, commit, activation, catch-up | uses `SessionQueue`'s schedule |
| `MeetingProjectionProofs` | theorems | extends it |
| `ActionCandidates` | merge policy, notes, candidates, their lineage, the task runs beside it | |
| `SessionStore` | columns of a `sessions` row and every operation on them, with the SELECT/UPDATE window | |
| `CaptionWorker`, `HlsInput` | the worker's task for a track; the input manager and the endpoints that stop it | each extends `SessionStore` |
| `LiveSession` | both writers and the API threads on one row | extends both |
| `SpeechSession` | session, provider and remote task, for ASR and translation | |
| `MediaBridge` | rows to media events: the pass over the oldest sessions and the catch-up requests, the writers of the status | one session in full, those ahead of it as a number |
| `ProcessingJobs` | jobs, workflows, artifacts, reviewers | |
| `PackageStore` | Packages, revisions, paged delivery | |
| `PluginHost` | supervisor, dispatcher, binding rows and one plugin | |
| `PluginHostProofs` | theorems | extends it |
| `RpcPeer` | both ends of the JSON-RPC pipe | |
| `CapabilityBroker` | capability calls, keys, quota, fetches, model calls | a hop of a fetch is resolved twice |
| `PluginUpdate` | tickets, confirmation, launch, migration, disable, uninstall | |
| `CourseOrganizer`, `MeetingPanel` | the two example plugins and what the Host keeps for them | |
| `MC*` | values of the constants; `MCToolExecutor`, `MCRecords`, `MCProtocols` and `MCLiveSession` put several components in one run | extend them |
| `CaptionsProofs`, `RecordsProofs`, `ProtocolsProofs` | theorems about these components and their compositions | extend `MCLiveSession`, `MCRecords`, `MCProtocols` |
| `Loops` | no part of the system: induction, loops, sums and ranks, as lemmas | used by the proofs |

How the code becomes actions:

* A database transaction of the API's event loop is one action: it has no await inside.
  A transaction of a thread or another process takes SQLite's write lock with its first
  write only; where it reads before that, its read and its write are two actions
  (`Select` and the commit actions of `SessionStore`, the requests of `PackageStore`,
  the reviewers of `ProcessingJobs`).  `begin_write` takes the lock first: one action.
* Between two awaits a coroutine is not interrupted by others of its loop.  Where a
  component never awaits under its lock the lock disappears into the action; where it
  does (`managed.lock`, the broker's write lock around a model call, the panel's lock)
  the holder is a variable.
* A crash keeps the variables that stand for rows and resets those that stand for
  memory.  What is on its way outside the process stays on its way.
* Texts are sizes or versions; what the code compares (equal, earlier, covers) is kept.
* In `ToolExecutor` a ToolCall is named by its grant and its key, because its
  idempotency key is built from exactly these two; a claim by its key alone.
* In `MeetingProjection` whether the scan's window still reaches a caption is the set
  `recent`.  Three switches bound the environment: `LateCommits` (a caption may wait
  for the write lock longer than the window looks back), `FastRestarts` (the plugin's
  runtime restarts between two polls), `DbErrors` (the transaction after the worker's
  handler fails).
* In `PluginHost` an event is whether its type is subscribed; a scope is a session and
  a generation; `loose` counts containers no process handle refers to.  `PluginUpdate`
  calls them `orphans`: `running` is what `managed.process` refers to, and a launch whose
  `plugin.initialize` raises (`LaunchFails`) adds to the first and not to the second.
* In `MediaBridge` a writer of the session's status is a read that found it open
  (`WriterReads`) and a later write of any status (`WriterCommits`), which may overwrite an
  end by another or take it back.  A pass is the number of sessions it has still to project
  (`scan`), the modelled one the last.  It never comes to a session that is not among the
  oldest `ScanLimit`, and an exception in a session ahead ends it (`ProjectionRaises`).
* In `CapabilityBroker` what a name resolves to is a set, and each hop of a fetch takes one
  element of it when the broker checks and one, perhaps another, when the HTTP client
  connects (`Hops`).

Every definition's source lines are in `PROJECT.json` under `map`.  Operators
introduced by a comment "A mutant" are used by no specification: they are plausible
bugs against which a property was tried.

## 3. Runs

`tlc -config X.cfg M` for each.  Where components share no state in the models,
one run checks several of them: its variable `part` says which component a behaviour
follows, the others keep their initial state.  Properties that belong together are
conjunctions of named parts; each part has its comment and most have a mutant of
their own.

| Run | Instance | Shows |
|---|---|---|
| `executor` | 2 executions with a grant each, 2 keys; 2 captions, one of them revised, 2 rounds; 7 model calls, 2 branches, 2 pauses | at most one issue per key, budgets kept, claims truthful, no answer dropped, settled is for ever, implements `OneShotAction`; `PlanningSafe` (model calls are accounted for over every pause, the context fits its budgets), `PlannedOnCurrent` (a write starts from the context as it is) |
| `run_contended` | 2 executions confirmed for one candidate, a crash | `RefinesExecutor`, and under fairness both end or ask the user (`Progress`) |
| `run_single` | 1 execution, 2 candidates, 2 grants, 2 rounds, revocation, runtime stop, revision, expiry, crash | `RunSafe`: every requesting ToolCall has somebody to serve it and no execution is stranded; `RunSteps`: no write starts unfenced, no illegal transition |
| `projection` | 1 caption with 3 revisions (one invalid), 2 workers, 3 epochs, a fault, every switch on | `ProjectionSafe`: one writer, head and offsets agree, completion is exact; `ProjectionSteps`: a delta lands only in its activation and frontier, catch-up answers are honest |
| `projection_fair` | 1 caption, 2 revisions, 1 worker, 3 epochs, a fault | nothing is forgotten between scan, buffer and offset; everything is projected in the end |
| `plugin_host` | 2 sessions (up to 2 events and none), batch 2, 1 restart, 2 faults, 2 toggles | `HostSafe`: no subscribed event skipped, a retry never refused, scopes current, a stopped plugin quiet; `CatchesUp` |
| `live` | an HLS input with translation and a browser track in transport mode, 2 upsets; a provider session with 2 chunks, a retry; a caption with 2 revisions, a scan limit of 2 and up to 2 older sessions, 2 status writers, an exception, a crash | `CaptionsSafe`: the translation fails alone and is settled, nothing is left unread, the source is settled (`LiveSafe`), one event per revision, at most one of an end although the row may end twice, and offsets behind events; `CompletedMeansAll`; `SessionEnds`, `FinishReturns`; `LastRevisionProjected` of a session the scan reaches |
| `records` | see `MCRecords.cfg` | `JobsSafe` (a job and its artifact agree, evidence is complete, one approved artifact), `PackagesSafe` (one current result, no segment lost or invented, pages add up to the Package), `CandidatesSafe` (notes rest on the revision projected last, every superseded candidate leads to a live successor), `BrokerSafe` (a key has one effect, quota held, every hop of a fetch is in the grant and was resolved to public addresses before it was contacted), `UpdateSafe` (a preferred version is ready, a ticket is used once, no failed candidate stays under supervision), `CourseSafe` (a caption revision the plugin took is pending or in its notes, the final job lasts until it has published) |
| `protocols` | 3 sessions, burst 2; 2 ids, 2 workers; 2 turn rounds; 2 calls; one panel with a fault and a death | the queue (`ScheduledIsQueued`, `BurstBounded`, `Served`, `ImplementsQueue`), the scheduler (`SchedulerSafe`, `Advances`), `AnswersSafe` (an RPC answer belongs to its call, a handoff is atomic), the Fast Turn (`QuestionEnds`), RPC (`CallsEnd`), the panel (`NeverRefused`, `EndRead`) |
| `run_cancelled`, `plugin_orphan`, `context_stale` | smallest that show it | the findings of section 6 |

The passing runs have between 40,000 (`projection_fair`) and 680,000 (`records`) distinct
states.

### Bounds

Two executions and two keys are what contention needs: a claim has one holder and every
other execution meets it the same way; the theorems remove the bound.  One round and one
reconciliation try let a run wait for a foreign write, give up and be resumed; a second
round lets it plan again after an answer.  Three revisions are one in the head, one with
the extractor, one in the buffer; three epochs are an activation, the one that replaces
it and one more start.  Two upsets let one hide the other.  In `live` the media session has
none, one or two sessions ahead of it and the scan takes two, so that it is the first, the
last that is reached or beyond the limit; a batch of one makes every batch a full one, and
the end of the session competes with a revision for it; two status writers are what it
takes to end twice.  In `records` one host resolves now to public and now to private
addresses and the other is outside the grant.  In `plugin_host` two events
fill a batch of two, so that partial and full rounds both happen, and the second session
makes a restore fail half-way.  In `records` there are always two of what races (jobs,
reviewers, requests, confirmers, tickets, idempotency keys) and one death; 3 units of
quota hold one of two items whole and the other only in its smaller form; a caption log ends with the end of the
session, so that the final job runs.  Counters named `Max...` bound inputs and faults in
guards; `MaxHeap` bounds stale entries.

Deadlock is checked where the system never stops (`projection`, `projection_fair`).
`CHECK_DEADLOCK FALSE` is said where it may: executions, jobs, turns and sessions end,
and the bounded faults, events and requests run out.

### Fairness

Waits in this code have timeouts and loops poll, which is what weak fairness of a step
asks.  Users, deaths, faults and everything a remote task does are never fair.

* `ActionRun`: a coroutine that can run is run, sleeping resumes wake, the operation
  worker polls, startup recovery goes on.
* `ActionScheduler`: some worker takes from a non-empty queue, each worker finishes its
  run (runs are bounded by their budgets), sleepers wake.
* `FairSessionQueue`: a worker calls `get`.
* `MeetingProjection`: polls recur and every scheduled session is taken.  Both are
  strong because other actions disable them now and then (a worker is busy, the runtime
  is down), and the queue's own fairness, proved and checked in `FairSessionQueue`,
  justifies it for a session.  The extractor answers or fails within its timeout.
  `LateCommits` and `FastRestarts` are off: with them on the property is false
  (section 6) or depends on a restart faster than a poll.
* `PluginHost`: waiters of `managed.lock` get it (strong: `asyncio.Lock` serves them in
  order), RPCs are answered or time out, the dispatcher polls.
* `LiveSession`, `SpeechSession`: some step of the worker, the input manager or the
  session's tasks that can be taken is taken; the remote task may stay silent, and the
  session's own timeouts answer for it.
* `MediaBridge`: `_poll_loop` begins one pass after the other, goes on with the one it has
  begun, and a projection in the lock is carried on (`Projecting`).  Nothing is assumed of
  a single session: whether a pass comes to it follows from its place, from the limit and
  from the exceptions ahead of it, of which there are finitely many (`MaxMediaFaults`).  A
  session whose projection never stops raising holds up those behind it for good, and a
  session beyond the limit is not reached while no session is deleted
  (`EverySessionProjected`, section 6).
* `FastTurn`: the runner goes on; a process that is shutting down ends.  `RpcPeer`: read
  loops read and timeouts expire.  `MeetingPanel`: the plugin's loop goes on and the Host
  finishes what it has accepted.
* In the joint runs one weak fairness condition covers the alternatives of several parts;
  as a behaviour follows one part, it says of each what its own condition says.

## 4. Proofs

Checked by TLAPS for every value of the constants.

**`ToolExecutorProofs`.**  Assumes `GrantAssumption` (a grant belongs to one execution)
and `KeysAssumption` (finitely many keys, so that budgets count).  None of the properties
is inductive: that no second create is sent depends on who holds the claim, what the
holder's coroutine has read and what is on the wire.  `IInv` adds to `TypeOK`:

* `HolderInv`: a claim has a holder exactly when it is not `none`, and a ToolCall exists
  exactly for the holder of its key;
* `StepInv`: before the create is posted nothing of the ToolCall is on the wire; a
  coroutine inside `execute` has a ToolCall in `requesting`, one inside `reconcile` has
  one in `reconciling` and the claim it read before its await;
* `ClaimInv`: the claim follows the status of its ToolCall;
* `WireInv`: only the holder of a key has sent its mutation, a ToolCall that ended
  without an effect never sent one, and `issues` counts the applied ones;
* `GrantInv`: `used` is the number of keys that hold a slot (`Charged`), and every
  ToolCall is for a candidate its grant covers;
* `WriterInv`: one write of an execution is inside `execute` at a time, under the grant
  the execution has.

`Init => IInv`, one lemma per action for `IInv /\ Next => IInv'`, and from it `Typing`,
`OneIssueHolds`, `BudgetHolds`, `ClaimTruth`, `PersistUnblocked`, the action property
`SettledHolds` and the refinement `Refinement` (every step of the executor opens, makes,
confirms or refuses one key, or stutters).

**`ActionRunProofs`.**  Assumes `ActionRunAssumption` only: any number of executions, grants
and candidates, any scope, any of the disturbances.  The argument has two layers.

* `LocalInv` speaks of this module's rows and coroutines: their types (`RowsInv`), what the
  status of an execution says about where its coroutine is (`StatusFits`: before each await
  and after it, and that every status a walk is about to write may follow the last one),
  and where the scheduler has it (`PlaceFits`).  It is inductive by itself and says that
  every step is a step of `ToolExecutor` or leaves its variables alone:
  `RefinesExecutorHolds`.  With it the theorems of `ToolExecutorProofs` hold of whole runs
  (`ExecutorInvariant`, `RunsKeepExecutorSafe`).
* `RunInv` adds, with the executor's `IInv` as a fact, who will advance an execution in an
  active status (`DrivenFits`) and whom each ToolCall in `requesting` or `reconciling`
  belongs to (`CallsFit`): one coroutine, one recovery, or one execution that only startup
  recovery will find.  `RunSafeHolds` follows; `RunStepsHold` takes the step properties
  (fenced requests, legal transitions) from `LocalInv`.

The planning of a run has an invariant of its own, for `PlanningSpec`, in which the rounds
and the context take their steps in any order; the run `executor` follows one of them at a
time.

* `RunPlansWithinBudgets`, from `DeliberationAssumption` (the budgets are numbers, a role is
  configured once) and `ContextAssumption`.  That the count of model calls is right is not
  inductive: it is in three places, a number in memory, the stored plans and the rows of the
  branches, and a resumed run has the last two only.  `DeliberationInv` says how they agree
  between rounds (`CountKept`) and, while branches are out, that the calls allotted fit into
  what is left (`RoundKept`: `AllotsWithin` follows `run_for_execution` over the roles) and
  that the rows of earlier rounds are counted already; `RoundSums` is how the two kinds of
  rows add up at the join.  `RolesKept` is the one refresh of a role.
  The context: `Build` goes through the items in the order of their scores.  `BeforeOrders`
  and `RankedIs` say that this order is total, so that `Ranked` is an item of the meeting at
  each turn; `AddStep` that a turn keeps the size, the messages and the closure of
  `ContextSoFar`; `BuildIs` is the loop, and `TailWithin` what `LastCaptions` has put in
  before the first item.
* `WritesOnCurrentContext`: the guard builds a second context and compares hashes.  As equal
  hashes mean equal items and messages, what `BuildIs` says of the one built now holds of the
  one planned from: its decisions are current and the last captions are among its messages.
  A caption that was last when the plan was made and is in an old revision now can only be
  there still if a candidate cites that revision; whence the exception in the property, and
  `TailCurrent` (section 6), which TLC refutes.

**`MeetingProjectionProofs`.**  Assumes `ProjectionAssumption`; that no session is called
`idle` or `dead` is part of it, since these mark a worker without a batch.
`ProjectionInv` adds to the checked `SingleWriter` and `HeadMatchesOffsets` that offsets,
buffers and batches never run ahead of the captions and, where not empty, are newer than the
offset unless the caption was skipped as invalid (`CaptionsLead`, `BatchFits`), and that only
a frozen analysis drains, never beyond its frontier (`RowFits`).  `ProjectionSafeHolds` and
`ProjectionStepsHold` hold with every switch on.  `NothingForgottenHolds` has the two
hypotheses `~LateCommits` and `~FastRestarts`; with either on, TLC finds the caption that is
forgotten (section 6).

**`PluginHostProofs`.**  `HostSafeHolds`, for any log, batch size, number of sessions and
bounds.  `LockInv` and `ScopesOwned` say what can be going on while the lock is held.
`SessionInv` is the core: every number that is taken for acknowledged somewhere (the
plugin's state, its saved state, the binding in memory, a restore's copy: `Marks`) lies
within reach of the batch that would be read from the durable cursor, and the plugin has
every event up to it.  That is why a redelivery after any loss is neither refused nor
short.

**`CaptionsProofs`.**  One part for each component of `MCLiveSession`, then the composition.

* `CompletedMeansAllHolds`: chunks are counted from the queue through the sender, and the
  remote task's messages are numbered, so that log, wire and the reader's queue are
  consecutive pieces of one stream (`QueueOk`, `LogOk`, `WireOk`, `ReadOk`).
* `LiveSafeHolds`, from `KindsAssumption` and `WorkerAssumption`.  The session row has three
  writers (the Worker, its translation worker, requests), and each holds a copy over a
  commit.  `LiveInv` says which columns each writes (`OwnedColumns`: translation and cleanup
  have one writer each), what a transaction that is open will leave there (`Going`,
  `LastTranslation`), and what the Worker's place says about results it has not read.
* `ProjectionHolds`, from `CaptionsAssumption`.  A batch is folded into the events and into
  the offsets by recursive functions, about which `Loops` is used.  `MediaInv` says that
  while a batch is held no event is of a later revision than its item (`Below`), so that
  what is appended comes in order.  Of an end there is one event, whichever of the ends
  came first, and the offset of any end means that this event exists: a second one finds it
  and appends nothing.
* `CaptionsCompleteAll` and `CaptionsSafeHolds` are the same in the composition.

**`RecordsProofs`.**  Six services, each with an invariant of its own, then `MCRecords`
(`RecordsKeepUpdateSafe`, `RecordsKeepServices`).

* `UpdateSafeHolds`: a ticket that recorded a package can be consumed no more, a confirmation
  under way holds its ticket's version, and what runs under supervision beside the preferred
  version belongs to a confirmation that migrates it.  Of the containers nobody supervises it
  says nothing: `NoOrphanCandidate` is false (section 6).
* `BrokerSafeHolds`, from `BrokerAssumption`.  `BrokerInv`: a key without a row has no effect,
  a model call under way belongs to a pending row (`KeyState`), and what the plugin was told
  is what a completed row holds (`ToldRows`).  `QuotaInv`: what the transaction measures under
  the writer's lock is the sum of the items afterwards (`TotalIs`, `TotalChanges`).  What a
  fetch contacts was checked hop by hop, whatever each name resolves to and when; that the
  client reaches an address of the check is not claimed (`PublicReached`, section 6).
* `JobsSafeHolds`, from `JobsAssumption`.  A copy that a worker or a reviewer has read may be
  out of date; `Submitted`, `DraftsValid` and `ReviewsFit` say what of it still holds
  when it is written back.
* `PackagesSafeHolds`, from `PackagesAssumption`.  `RequestFits` says what a request that has
  read may rely on, `GrowthKeeps` that a revision's inputs stay a part of the captions while
  these grow, and `PagesRead` that the pages read so far are the document's front.
* `CandidatesSafeHolds`.  That supersession leads to a live candidate is induction on `Ranks`,
  a bound on how far each row is from the end of its chain; a merge, a split and a revision
  each keep such a bound (`MergeKeeps`, `SplitKeeps`, `ReviseKeeps`, `ChainsEnd`).
* `CourseSafeHolds`, from `CourseAssumption`.  Three copies of the plugin's state exist: in its
  memory, with the Host, and on the way between.  `CourseInv` says of each that it lasts
  (`Lasting`: no caption or job that the Host takes for acknowledged is missing from it).
  `BatchLasts` is induction on the events of a batch, `PublishedFirst` the order of the end.

**`ProtocolsProofs`.**  Of `FairSessionQueue`, from `QueueAssumption`: `QueueInv` is `TypeOK`,
the entry each scheduled session has in its heap, `passed <= streak` and
`passed <= PriorityBurst`.  `get` counts priority batches in `streak`, and tying the history
of a wait to it is what makes the burst bound inductive.  `QueueInvariance`,
`ScheduledQueued`, `BurstHolds`, `QueueRefinement`.  Of the others: `HandoffHolds`, `OwnAnswerHolds` (a request is in a pipe at most once
and only before its handler begins, a response only after that handler is done),
`NeverRefusedHolds`, `SchedulerSafeHolds` (an id is in the queue once, which ties the queue to
its set), and `AnswersSafeHolds` for the composition.

**`Loops`.**  What the others need of data.  `LeastNumber`: a set of numbers has a least one;
`LoopInduction`: what each turn of a loop preserves holds after all of them, a set of turns
standing for the predicate; `LoopRuns`: a recursive function over the turns is what its
equation says.  `SumsExist`, `SumsAre`, `SumAny` and `SumsAgree` say of the sum over a finite
set, which is defined by choosing an element, that the choice does not matter.  `SumOfTurns`,
`SumsBelow` and `SumAt` are about sums along a sequence, and `RanksTaken` says that in a finite
set with a total order every rank from 1 to the number of elements is taken by one element.

What attempts to prove, and comparing the models with the code again, corrected:

* the bound `crashes <= MaxRestarts + 1` of `PluginHost!TypeOK` held in the run's instance
  only: crashes of a plugin that is disabled and enabled again are counted on
  (`plugins/supervisor.py:594`);
* `ActionRun!NeverStranded` is false beyond the run's bounds: an approval given during the
  read-only pass is dropped like an input (section 6, `InputReopens`);
* `Deliberation` shared the remaining calls among the branches in the order of their rows;
  the code does so in the order of the roles (`assistant/subagents.py:150`), which differs
  once a role was refreshed;
* `PlannedOnCurrent` said that every caption a write was planned from is current; true only
  without a candidate that cites the old revision, which the instance's sizes had excluded
  (section 6, `TailCurrent`);
* `MediaBridge` let a session end once and took it for granted that each session is scanned
  again; offsets of ends and the reach of the scan are now stated as the code gives them
  (section 6, `EndEventTells`, `EverySessionProjected`);
* `PluginUpdate` stopped every failed candidate, and `CapabilityBroker` resolved a name once
  and for all (section 6, `NoOrphanCandidate`, `PublicReached`);
* markers that a session's name could equal, and the assumptions of `ToolExecutor` that
  `ActionRun` had not stated for its instance.

Only model-checked:

* all liveness (`Progress`, `Advances`, `Served`, `EventuallyProjected`, `CatchesUp`,
  `SessionEnds`, `FinishReturns`, `LastRevisionProjected`, `QuestionEnds`, `CallsEnd`,
  `EndRead`), which the prover does not reach: it needs `ENABLED` for the fairness.

Every invariant and every action property of the passing runs is stated by a theorem.

## 5. What the properties are for

Section `hazards` of `PROJECT.json` lists the places in the code that a test hardly
reaches, at their line, with the properties that would notice.  Two have none:
the caption that becomes visible behind the scan's window
(`persistence/segments.py:44`, see below) and the preview of a host action
(`plugins/host_actions.py:313`), whose component is only an admission here.

## 6. Findings

Runs that end in a violation:

1. `run_cancelled` (`assistant/recovery.py:25`): an execution cancelled while its create
   is in flight is not among the statuses startup recovery lists; after a crash its
   ToolCall and claim stay `requesting` and block the key for good.
2. `plugin_orphan` (`plugins/supervisor.py:442`): a `plugin.initialize` that times out
   leaves its container running without an owner; the next enable starts a second one.
3. `context_stale` (`assistant/action_runner.py:235`): the guard before an external write
   judges by the freshness of the snapshot the plan was made from, so that a write goes
   through although the Meeting State has fallen behind since.

The modules also define these properties, which are false of the code as it is.  They
belong to no run and are kept for whoever changes these lines:

| Property | Where | What happens |
|---|---|---|
| `ActionRun!InputReopens` | `assistant/action_scheduler.py:106` | an input committed while an isolated run still awaits its read-only reconciliation is dropped by `enqueue`; the execution stays in `planning` until a restart.  An approval given then is lost the same way, which is why `NeverStranded` and `Progress` except an approval nobody has used (`ApprovedUnused`) |
| `MeetingProjection!EventuallyProjected` with `LateCommits` | `persistence/segments.py:44` | a caption stamped before its transaction waits for the write lock appears behind the 2 s window and is projected only when something backfills |
| `ActionCandidates!SupersededUnexecuted` | `meeting_state/candidates.py:566` | a merge or split proposed while a run executes a candidate supersedes it all the same |
| `Deliberation!SpentWithinBudget` | `assistant/action_runner.py:576` | the calls of a plan given up for an approval are in no row and are not counted after the resume; `CallsAccounted` says that nothing else escapes the count |
| `MeetingContext!SelectedStay` | `assistant/action_runner.py:209` | a mark the user selected may be gone from the rebuilt context |
| `MeetingContext!TailCurrent` | `assistant/context.py:451` | a caption revised after the plan may no longer fit the share of the budget kept for the last captions; if a candidate cites the old revision, the old text is a message of the rebuilt context as well, the hashes agree and the write goes through |
| `LiveSession!TerminalIsFinal` | `captions/runtime.py:198` | a terminal status read as running is overwritten by a writer of another process |
| `MediaBridge!EndEventTells` | `media/projector.py:336` | the row ends a second time with another status: `append_event` finds the event of the first end and appends none (`media/repository.py:84`), but the offset of the second is stored and the media session takes its status |
| `MediaBridge!EverySessionProjected` | `media/projector.py:158` | a session that is not among the oldest 100 is never reached by the poll loop, only by a catch-up request |
| `LiveSession!CleanupTruthful` | `hls/manager.py:206` | the row may say that the cleanup completed while the track is still in the room |
| `ProcessingJobs!SupersededStays` | `artifacts/repository.py:185` | two approvals may bring a superseded artifact back |
| `PluginUpdate!DisabledIsStopped` | `plugins/bootstrap.py:861` | a disable during an update leaves the new version running, the status having been read before the wait |
| `PluginUpdate!NoOrphanCandidate` | `plugins/supervisor.py:442` | the container of a candidate whose `plugin.initialize` raises or times out has no `managed.process`, so that the disable of the failed update (`plugins/bootstrap.py:913`) stops nothing; `docs/plugin-operations.md:199` says the candidate is stopped.  Run `plugin_orphan` shows the same window of `enable` |
| `CapabilityBroker!PublicReached` | `plugins/bootstrap.py:1214` | the name is resolved and checked at `plugins/broker.py:407` and resolved again when the client connects; an answer that changed in between is not checked, whereas `docs/plugin-security.md:40` says that private addresses are refused |
| `PluginUpdate!NoWriteLost` | `plugins/bootstrap.py` | what the old version writes during the migration is lost |
| `RpcPeer!ClosedIsQuiet` | `plugins/rpc.py:205` | a handler started while the peer closes outlives it |
| `CourseOrganizer!AckedIsSaved` | `src/plugin-sdk/examples/course-organizer/course_organizer/session.py:288` | after a failed save the redelivered batch is taken for seen and acknowledged |
| `CourseOrganizer!Reopens` | same module | after a death during a window the saved view version is behind the Host's, and opening is refused |
| `MeetingPanel!EndShown` | `src/plugin-sdk/examples/meeting-assistant/meeting_assistant/session.py:178` | the final state is read and the pointer dropped, but a failed publication is not repeated |

Seen while modelling, stated in no property:

* A stale queue entry whose session is scheduled again in the same lane counts again
  (`meeting_state/projector.py:161`).
* A raising run ends its scheduler worker (`assistant/action_scheduler.py:157`);
  `finish_if_drained` outside the handler ends a projector worker
  (`meeting_state/projector.py:620`).  Both need a failing database.
* `disable` that overtakes the container check of `enable` leaves a disabled installation
  with a running container (`plugins/bootstrap.py:462`); one failing launch at startup
  keeps the event dispatcher of every plugin from starting (`plugins/bootstrap.py:272`); a
  launch that fails in the handling of a crash is not tried again
  (`plugins/supervisor.py:613`).
* A Host that dies during a model call leaves a pending row whose key is refused for ever
  (`plugins/broker.py:452`); a failed fetch does not spend `max_calls`.
* A Fast Turn of the older endpoint that a death cuts off stays non-terminal; an exception
  inside `_handoff_after_timeout` escapes `_run` (`assistant/fast_runner.py:192`).
* After a reconciled create the candidate stays `executing`
  (`task_system/service.py:520`); a candidate re-created with the identity of a cancelled
  one is silently the cancelled one.
* A final document whose job is run again with other content is refused under its key.

## 7. Where to go on

1. Previews and intents of the host actions, composed with `ActionRun`'s admission.
2. `MediaBridge`'s events as the log of `PluginHost`, and `CourseOrganizer` as its plugin.
3. The caption reconcilers as operators against a reference definition.

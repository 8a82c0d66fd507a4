---------------------------- MODULE MeetingContext ----------------------------
(***************************************************************************)
(* The context an Action Run plans from: ContextBuilder freezes the user's *)
(* goal, the marks and candidates she selected, the items of the Meeting   *)
(* State that fit a budget and the last final captions into a snapshot,    *)
(* and RelevantContextGuard compares it with the meeting once more before  *)
(* an external write.  Meanwhile people speak, captions are revised, the   *)
(* projector folds them into the Meeting State or fails, and time passes.  *)
(* Sizes are in units of text; a caption's two texts count as one size.    *)
(***************************************************************************)
EXTENDS Integers, Sequences, FiniteSets, SequencesExt

CONSTANTS
  Utterances,      \* segments of the session, numbered
  TextSize,      \* size of the text of each revision of a caption
  Overlap,       \* tokens each caption shares with the goal
  Revisions,     \* bound: revisions of each caption
  ItemSize,      \* size of an item's own payload
  GoalSize,      \* size of the goal
  MaxSize,       \* ContextSizeBudget.max_chars
  MaxStateItems,      \* ContextSizeBudget.max_state_items
  MaxTail,       \* ContextSizeBudget.max_tail_segments
  MaxMessages,   \* ContextSizeBudget.max_evidence_messages
  MaxMarks,      \* bound: marks the user makes
  PlanRounds     \* ActionRunBudget.max_planning_rounds

\* ContextSizeBudget bounds its fields from below; a goal is a user's message, whose
\* length the API bounds by less than the context may take.
ASSUME ContextAssumption ==
  /\ Utterances \subseteq Nat /\ Overlap \in [Utterances -> Nat] /\ Revisions \in [Utterances -> Nat]
  /\ \A c \in Utterances : \A r \in 1..Revisions[c] : TextSize[c][r] \in Nat
  /\ ItemSize \in Nat /\ GoalSize \in Nat /\ MaxSize \in Nat /\ GoalSize <= MaxSize
  /\ MaxStateItems \in Nat /\ MaxTail \in Nat \ {0} /\ MaxMessages \in Nat \ {0}

VARIABLES
  heard,       \* SegmentRecord.revision of the final captions, 0 before
  order,      \* final captions by finalized_at, which a revision renews
  folded,     \* MeetingProjectionOffsetRecord.processed_revision, 0 before
  aged,       \* pending captions last updated more than stale_after_seconds ago
  known,      \* the items of the Meeting State head: [category, key, at]
  headLate,   \* MeetingStateHeadRecord.lag_ms is past stale_after_seconds
  analysing,  \* can_request_catch_up: the projector runs, the session is active
  marks,      \* meeting_marks: the caption revision each was made from
  plan        \* the Action Run: [pc, rounds, chosen, wanted, snapshot]

contextVars == <<heard, order, folded, aged, known, headLate, analysing, marks, plan>>

Refused == [ok |-> FALSE]

ContextInit ==
  /\ heard = [c \in Utterances |-> 0] /\ order = <<>> /\ folded = [c \in Utterances |-> 0]
  /\ aged = {} /\ known = {} /\ headLate = FALSE /\ analysing = TRUE /\ marks = {}
  /\ plan = [pc |-> "none", rounds |-> 0, chosen |-> {}, wanted |-> {},
             snapshot |-> Refused, target |-> <<>>]

-----------------------------------------------------------------------------
\* The meeting, its projector and its users.

Unfolded == {c \in Utterances : heard[c] > folded[c]}

\* The meeting is followed until the run has written or ended.
Followed == plan.pc \notin {"writing", "partial", "failed"}

Without(s, c) ==
  IF \E i \in DOMAIN s : s[i] = c THEN RemoveAt(s, CHOOSE i \in DOMAIN s : s[i] = c) ELSE s

\* A caption becomes final or is revised: its finalized_at and updated_at are new.
Say(c) ==
  /\ Followed /\ heard[c] < Revisions[c]
  /\ heard' = [heard EXCEPT ![c] = @ + 1]
  /\ order' = Append(Without(order, c), c)
  /\ aged' = aged \ {c}
  /\ UNCHANGED <<folded, known, headLate, analysing, marks, plan>>

\* Time passes: the captions age in the order in which they were updated.
Ages(c) ==
  /\ Followed /\ c \in Unfolded \ aged
  /\ \E i \in DOMAIN order : order[i] = c /\ \A j \in 1..(i - 1) : order[j] \notin Unfolded \ aged
  /\ aged' = aged \cup {c}
  /\ UNCHANGED <<heard, order, folded, known, headLate, analysing, marks, plan>>

\* The head after caption c was folded: the decision read from it before goes, the
\* candidate stays with the evidence it has unless it is made or revised again.
Fold(c, found) ==
  {i \in known : i.key # c \/ (i.category = "action_candidates" /\ i.category \notin found)}
    \cup {[category |-> k, key |-> c, at |-> heard[c]] : k \in found}

Project(c, found) ==
  /\ Followed /\ analysing /\ c \in Unfolded
  /\ folded' = [folded EXCEPT ![c] = heard[c]]
  /\ known' = Fold(c, found)
  /\ headLate' \in IF Unfolded = {c} THEN {FALSE} ELSE BOOLEAN
  /\ aged' = aged \ {c}
  /\ UNCHANGED <<heard, order, analysing, marks, plan>>

\* record_projection_error: the lag is recorded, the last good state stays.
ProjectionFails ==
  /\ Followed /\ analysing /\ Unfolded # {}
  /\ headLate' = (Unfolded \cap aged # {})
  /\ headLate' # headLate
  /\ UNCHANGED <<heard, order, folded, aged, known, analysing, marks, plan>>

\* The projector stops, or the session is not analysed any more.
AnalysisEnds ==
  /\ Followed /\ analysing
  /\ analysing' = FALSE
  /\ UNCHANGED <<heard, order, folded, aged, known, headLate, marks, plan>>

\* create_meeting_mark: a mark cites the current revision of its caption.  Only marks
\* made before the run was submitted can be selected for it.
CreateMark(c) ==
  /\ heard[c] > 0 /\ <<c, heard[c]>> \notin marks 
  /\ plan.pc = "none" /\ Cardinality(marks) < MaxMarks
  /\ marks' = marks \cup {<<c, heard[c]>>}
  /\ UNCHANGED <<heard, order, folded, aged, known, headLate, analysing, plan>>

-----------------------------------------------------------------------------
\* read_meeting_state: how fresh the state is now.
Status ==
  CASE Unfolded = {} -> "ready"
    [] Unfolded # {} /\ (headLate \/ Unfolded \cap aged # {}) -> "stale"
    [] OTHER -> "lagging"

\* Identities of evidence messages name the caption and its revision.
CaptionMessage(c, r) == <<"caption", c, r>>
MarkMessage(m) == <<"mark", m[1], m[2]>>
GoalMessage == <<"goal", 0, 0>>

MarkItem(m) == [category |-> "marks", key |-> m[1], at |-> m[2]]

Forced(i, wanted) ==
  i.category = "marks" \/ (i.category = "action_candidates" /\ i.key \in wanted)

\* _score: forced items first, then by tokens shared with the goal, category and key.
Score(i, wanted) ==
  LET categoryRank == [action_candidates |-> 0, decisions |-> 1, marks |-> 2]
  IN  <<IF Forced(i, wanted) THEN 1 ELSE 0, Overlap[i.key], categoryRank[i.category],
        i.key, i.at>>

Before(s, t) ==
  \E n \in 1..Len(s) : s[n] > t[n] /\ \A k \in 1..(n - 1) : s[k] = t[k]

\* The items as the builder goes through them: the n-th, and how many.
Ranked(items, wanted, n) ==
  CHOOSE i \in items :
    Cardinality({j \in items : Before(Score(j, wanted), Score(i, wanted))}) = n - 1

RankedCount(items, chosen) ==
  LET most == MaxStateItems + Cardinality(chosen)
  IN  IF Cardinality(items) < most THEN Cardinality(items) ELSE most

\* What an item cites: frozen with marks and candidates, the caption as it is otherwise.
Cited(i) ==
  CASE i.category = "marks" -> {CaptionMessage(i.key, i.at), MarkMessage(<<i.key, i.at>>)}
    [] OTHER -> {CaptionMessage(i.key, i.at)}

MessageSize(m) == IF m[1] = "caption" THEN TextSize[m[2]][m[3]] ELSE ItemSize

SizeOf(messages) ==
  LET sum[s \in SUBSET messages] ==
        IF s = {} THEN 0 ELSE LET m == CHOOSE x \in s : TRUE IN MessageSize(m) + sum[s \ {m}]
  IN  sum[messages]

\* A decision whose caption has another revision than it was read from is left out.
Current(i) == i.category # "decisions" \/ heard[i.key] = i.at

-----------------------------------------------------------------------------
TailLimit == IF MaxTail < MaxMessages - 1 THEN MaxTail ELSE MaxMessages - 1

\* The last captions, newest first, each counted twice, within 60 % of the budget;
\* the newest one alone when none fits, if the budget takes it.  <<>> refuses.
LastCaptions ==
  LET few == IF Len(order) < TailLimit THEN Len(order) ELSE TailLimit
      most == (6 * MaxSize) \div 10 - GoalSize
      limit == IF most < 0 THEN 0 ELSE most
      newest(n) == order[Len(order) - n + 1]
      cost(c) == 2 * TextSize[c][heard[c]]
      take[n \in 0..few] ==
        IF n = 0 THEN [kept |-> {}, size |-> 0]
        ELSE LET t == take[n - 1] c == newest(n)
             IN  IF t.size + cost(c) > limit THEN t
                 ELSE [kept |-> t.kept \cup {c}, size |-> t.size + cost(c)]
  IN  CASE few = 0 \/ take[few].kept # {} -> [ok |-> TRUE, kept |-> take[few].kept]
        [] few > 0 /\ take[few].kept = {} /\ cost(newest(1)) + GoalSize <= MaxSize ->
             [ok |-> TRUE, kept |-> {newest(1)}]
        [] OTHER -> Refused

\* Mutant: only the size is looked at.
FitsSize(acc, cost, messages) == acc.size + cost <= MaxSize

Fits(acc, cost, messages) ==
  acc.size + cost <= MaxSize /\ Cardinality(acc.messages \cup messages) <= MaxMessages

\* One item: skipped when out of date, or when it does not fit unless it was selected.
Add(acc, i, wanted) ==
  LET cost == ItemSize + SizeOf(Cited(i) \ acc.messages)
  IN  CASE ~acc.ok \/ ~Current(i) -> acc
        [] acc.ok /\ Current(i) /\ Fits(acc, cost, Cited(i)) ->
             [acc EXCEPT !.items = @ \cup {i}, !.size = @ + cost,
                         !.messages = @ \cup Cited(i), !.refs = @ \cup Cited(i)]
        [] OTHER -> IF Forced(i, wanted) THEN [acc EXCEPT !.ok = FALSE] ELSE acc

\* build_sync, with the selected marks and candidates, at this moment.
Build(chosen, wanted) ==
  LET items == {MarkItem(m) : m \in chosen} \cup known
      tail == {CaptionMessage(c, heard[c]) : c \in LastCaptions.kept}
      start == [ok |-> TRUE, items |-> {}, size |-> GoalSize + 2 * SizeOf(tail),
                messages |-> {GoalMessage} \cup tail, refs |-> {GoalMessage},
                tail |-> tail, status |-> Status]
      built[n \in 0..RankedCount(items, chosen)] ==
        IF n = 0 THEN start ELSE Add(built[n - 1], Ranked(items, wanted, n), wanted)
      found == {i.key : i \in {j \in known : j.category = "action_candidates"}}
  IN  IF ~LastCaptions.ok \/ ~(wanted \subseteq found) THEN Refused
      ELSE built[RankedCount(items, chosen)]

\* Mutant: the captions of the tail do not count.
HashOfItems(s) == <<s.items, s.refs>>

\* _canonical_hash: the items, the references and every message with its revision.
Hash(s) == <<s.items, s.refs, s.messages>>

-----------------------------------------------------------------------------
\* The Action Run.  Submitting it freezes its first context.
SubmitRun(chosen, wanted) ==
  /\ plan.pc = "none" /\ chosen \subseteq marks
  /\ LET s == Build(chosen, wanted)
     IN  /\ s.ok
         /\ plan' = [plan EXCEPT !.pc = "planning", !.chosen = chosen, !.wanted = wanted,
                                 !.snapshot = s]
  /\ UNCHANGED <<heard, order, folded, aged, known, headLate, analysing, marks>>

\* The planner proposes an external write.
PlanWrite ==
  /\ plan.pc = "planning" /\ plan.rounds < PlanRounds
  /\ plan' = [plan EXCEPT !.pc = "checking", !.rounds = @ + 1]
  /\ UNCHANGED <<heard, order, folded, aged, known, headLate, analysing, marks>>

RunsOut ==
  /\ plan.pc = "planning" /\ plan.rounds = PlanRounds
  /\ plan' = [plan EXCEPT !.pc = "partial"]
  /\ UNCHANGED <<heard, order, folded, aged, known, headLate, analysing, marks>>

\* RelevantContextGuard.check asks the projector to catch up, when it can.
AskCatchUp ==
  /\ plan.pc = "checking" /\ analysing
  /\ plan' = [plan EXCEPT !.pc = "waiting", !.target = heard]
  /\ UNCHANGED <<heard, order, folded, aged, known, headLate, analysing, marks>>

\* target.wait raises on the timeout or when analysis ends: the run fails.
CatchUpFails ==
  /\ plan.pc = "waiting"
  /\ plan' = [plan EXCEPT !.pc = "failed", !.target = <<>>]
  /\ UNCHANGED <<heard, order, folded, aged, known, headLate, analysing, marks>>

\* The context is built again, from the goal alone, and compared.  A changed one is
\* kept and planned from; otherwise the old one's freshness decides.
Recheck ==
  /\ \/ plan.pc = "checking" /\ ~analysing
     \/ plan.pc = "waiting" /\ \A c \in Utterances : folded[c] >= plan.target[c]
  /\ LET fresh == Build({}, {})
         changed == ~fresh.ok \/ Hash(fresh) # Hash(plan.snapshot)
         judged == IF changed THEN fresh ELSE plan.snapshot
     IN  plan' = [plan EXCEPT !.target = <<>>,
                   !.snapshot = IF fresh.ok THEN judged ELSE @,
                   !.pc = CASE ~fresh.ok -> "failed"
                            [] fresh.ok /\ judged.status = "stale" -> "needs_input"
                            [] fresh.ok /\ judged.status # "stale" /\ changed -> "planning"
                            [] OTHER -> "writing"]
  /\ UNCHANGED <<heard, order, folded, aged, known, headLate, analysing, marks>>

\* The user answers a run that waits for the meeting to catch up.
Reply ==
  /\ plan.pc = "needs_input"
  /\ plan' = [plan EXCEPT !.pc = "planning"]
  /\ UNCHANGED <<heard, order, folded, aged, known, headLate, analysing, marks>>

ContextNext ==
  \/ \E c \in Utterances : Say(c)
  \/ \E c \in Utterances : Ages(c)
  \/ \E c \in Utterances, found \in SUBSET {"decisions", "action_candidates"} : Project(c, found)
  \/ ProjectionFails
  \/ AnalysisEnds
  \/ \E c \in Utterances : CreateMark(c)
  \/ \E chosen \in SUBSET marks, wanted \in SUBSET Utterances : SubmitRun(chosen, wanted)
  \/ PlanWrite
  \/ RunsOut
  \/ AskCatchUp
  \/ CatchUpFails
  \/ Recheck
  \/ Reply

ContextSpec == ContextInit /\ [][ContextNext]_contextVars

-----------------------------------------------------------------------------
\* The context a run plans from is within its budget and closed: every message an item
\* refers to is one of its messages (context.py, build_sync).
ContextBounded ==
  plan.snapshot.ok =>
    /\ plan.snapshot.size <= MaxSize
    /\ Cardinality(plan.snapshot.messages) <= MaxMessages
    /\ plan.snapshot.refs \subseteq plan.snapshot.messages

\* An external write is let through only when what its plan rests on is what the meeting
\* says now: the last captions are among its messages, its decisions cite the captions as
\* they are, and so is every caption it saw last, unless a candidate cites the revision it
\* was made from (action_runner.py, check).
PlannedOnCurrent ==
  [][plan.pc # "writing" /\ plan'.pc = "writing" =>
       /\ \A c \in LastCaptions.kept : CaptionMessage(c, heard[c]) \in plan.snapshot.messages
       /\ \A i \in plan.snapshot.items : Current(i)
       /\ \A m \in plan.snapshot.tail :
            heard[m[2]] = m[3]
            \/ \E i \in plan.snapshot.items : i.category = "action_candidates" /\ m \in Cited(i)]_contextVars

\* No external write from captions that were revised since.
TailCurrent ==
  [][plan.pc # "writing" /\ plan'.pc = "writing" =>
       \A m \in plan.snapshot.tail : heard[m[2]] = m[3]]_contextVars

\* No external write while the Meeting State is behind the meeting for too long: the
\* run plans again or asks (action_runner.py, check).
WritesFresh ==
  [][plan.pc # "writing" /\ plan'.pc = "writing" => Status # "stale"]_contextVars

\* The marks and candidates the user selected are in the context her run writes from.
SelectedStay ==
  plan.pc = "writing" =>
    /\ \A m \in plan.chosen : MarkItem(m) \in plan.snapshot.items
    /\ \A c \in plan.wanted :
         \E i \in plan.snapshot.items : i.category = "action_candidates" /\ i.key = c

=============================================================================

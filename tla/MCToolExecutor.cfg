CONSTANTS
  e1 = e1
  e2 = e2
  g1 = g1
  g2 = g2
  k1 = k1
  k2 = k2
  Execs = {e1, e2}
  Keys = {k1, k2}
  Grants = {g1, g2}
  NoGrant = NoGrant
  GrantExec <- ContendedGrants
  Utterances = {1, 2}
  TextSize <- mcTextSize
  Overlap <- mcOverlap
  Revisions <- mcRevisions
  ItemSize = 1
  GoalSize = 1
  MaxSize = 10
  MaxStateItems = 2
  MaxTail = 2
  MaxMessages = 3
  MaxMarks = 1
  PlanRounds = 2
  Roles <- mcRoles
  PerBranch = 2
  CallBudget = 7
  RoundBudget = 3
  MaxPauses = 2
SPECIFICATION WritesSpec
SYMMETRY KeySymmetry
CHECK_DEADLOCK FALSE
INVARIANTS OneIssue BudgetRespected ClaimTellsTruth PersistNeverBlocked PlanningSafe
PROPERTIES SettledForever KeepsPromise PlannedOnCurrent

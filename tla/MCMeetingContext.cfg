SPECIFICATION ContextSpec
CONSTANTS
  Utterances = {1, 2}
  TextSize <- mcTextSize
  Overlap <- mcOverlap
  Revisions <- mcRevisions
  MaxMarks = 1
  ItemSize = 1
  GoalSize = 1
  MaxSize = 10
  MaxStateItems = 2
  MaxTail = 2
  MaxMessages = 3
  PlanRounds = 2
PROPERTIES WritesFresh
CHECK_DEADLOCK FALSE

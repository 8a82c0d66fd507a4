SPECIFICATION ProtocolsSpec
CONSTANTS
  s1 = s1
  s2 = s2
  s3 = s3
  Sessions = {s1, s2, s3}
  NoSession = NoSession
  PriorityBurst = 2
  MaxHeap = 3
  x1 = x1
  x2 = x2
  w1 = w1
  w2 = w2
  NoId = NoId
  Ids = {x1, x2}
  Workers = {w1, w2}
  MaxRaises = 1
  MaxDelayed = 1
  TurnRounds = 2
  MaxTurnCrashes = 2
  Calls = {1, 2}
  MaxPending = 2
  MaxHints = 1
  MaxPanelFaults = 1
  MaxPanelDeaths = 1
CHECK_DEADLOCK FALSE
INVARIANTS ScheduledIsQueued BurstBounded SchedulerSafe AnswersSafe NeverRefused
PROPERTIES ImplementsQueue Served Advances QuestionEnds CallsEnd EndRead

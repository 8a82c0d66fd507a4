CONSTANTS
  m1 = m1
  m2 = m2
  Sessions = {m1, m2}
  NoSession = NoSession
  BatchSize = 2
  MaxRestarts = 1
  MaxEvents <- TwoLogs
  MaxFaults = 2
  MaxToggles = 2
SPECIFICATION FairSpec
CHECK_DEADLOCK FALSE
INVARIANTS HostSafe
PROPERTIES CatchesUp

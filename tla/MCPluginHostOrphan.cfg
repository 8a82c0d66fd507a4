CONSTANTS
  m1 = m1
  m2 = m2
  Sessions = {m1}
  NoSession = NoSession
  BatchSize = 2
  MaxRestarts = 1
  MaxEvents <- OneLog
  MaxFaults = 2
  MaxToggles = 3
SPECIFICATION Spec
CHECK_DEADLOCK FALSE
INVARIANTS OneContainer

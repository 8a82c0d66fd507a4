CONSTANTS
  e1 = e1
  e2 = e2
  g1 = g1
  g2 = g2
  k1 = k1
  k2 = k2
  NoGrant = NoGrant
  NoKey = NoKey
  Execs = {e1, e2}
  Keys = {k1}
  Grants = {g1, g2}
  GrantExec <- ContendedGrants
  AdmitGrant <- ContendedAdmission
  Scope <- ContendedScope
  Disturbances = {"crash"}
  MaxRounds = 1
  MaxTries = 1
  MaxNudges = 1
SPECIFICATION FairSpec
CHECK_DEADLOCK FALSE
PROPERTIES RefinesExecutor Progress

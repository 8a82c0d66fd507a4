CONSTANTS
  e1 = e1
  e2 = e2
  g1 = g1
  g2 = g2
  k1 = k1
  k2 = k2
  NoGrant = NoGrant
  NoKey = NoKey
  Execs = {e1}
  Keys = {k1}
  Grants = {g1, g2}
  GrantExec <- SingleGrants
  AdmitGrant <- SingleAdmission
  Scope <- OneScope
  Disturbances = {"crash"}
  MaxRounds = 1
  MaxTries = 1
  MaxNudges = 1
SPECIFICATION Spec
CHECK_DEADLOCK FALSE
INVARIANTS EveryRequestRecovered

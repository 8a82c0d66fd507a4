CONSTANTS
  s1 = s1
  s2 = s2
  g1 = g1
  g2 = g2
  w1 = w1
  w2 = w2
  Sessions = {s1}
  Segments = {g1}
  Workers = {w1, w2}
  Invalid <- SecondInvalid
  LateCommits = TRUE
  FastRestarts = TRUE
  DbErrors = TRUE
  MaxRevision = 3
  MaxEpoch = 3
  MaxFaults = 1
SPECIFICATION Spec
INVARIANTS ProjectionSafe
PROPERTIES ProjectionSteps

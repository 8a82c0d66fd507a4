SPECIFICATION CaptionsSpec
CONSTANTS
  Kinds <- mcKinds
  MaxFinals = 1
  MaxUpsets = 2
  StartupRetries = 1
  QueueMax = 2
  MaxChunks = 2
  MaxResults = 1
  Captions <- mcCaptions
  BatchSize = 1
  MaxRevision = 2
  ScanLimit = 2
  MaxOlder = 2
  StatusWriters = 2
  MaxMediaFaults = 1
  MaxMediaCrashes = 1
INVARIANTS CaptionsSafe CompletedMeansAll
PROPERTIES SessionEnds FinishReturns LastRevisionProjected
CHECK_DEADLOCK FALSE

SPECIFICATION RecordsSpec
CONSTANTS
  Jobs = {"j1", "j2"}
  Workers = {"w1"}
  JobKinds <- mcJobKinds
  ItemChars <- mcItemChars
  MaxItems = 2
  MaxChars = 2
  MaxRetries = 1
  Reviewers = {"r1", "r2"}
  MaxArtifacts = 2
  MaxJobCrashes = 1
  Segments <- mcSegments
  Requests = {"q1", "q2"}
  MaxPackages = 2
  MaxRevisions = 2
  PageLimit = 3
  PageBytes = 3
  CaptionIds = {"a", "b"}
  MaxCaption <- mcMaxCaption
  Titles = {1}
  Dues = {1, 2}
  MaxCandidates = 3
  TaskRuns = {"r1"}
  CallKeys = {"k1", "k2"}
  Bodies = {1, 2}
  StateItems = {"i1", "i2"}
  StateQuota = 3
  Hosts = {"good", "other"}
  Resolves <- mcResolves
  GrantedHosts = {"good"}
  FetchCalls = 1
  MaxRedirects = 1
  ModelSlots = 1
  MaxRequests = 3
  MaxHostDeaths = 1
  v1 = v1
  v2 = v2
  Versions = {v1, v2}
  NoVersion = NoVersion
  Tickets = {1, 2}
  Confirmers = {1, 2}
  MaxStateWrites = 1
  MaxRemovals = 1
  MaxUpdateDeaths = 1
  CourseLog <- mcCourseLog
  WindowSize = 1
  WindowRetries = 1
  FinalRetries = 1
  Drafts = {1, 2}
  MaxSaveFailures = 1
  MaxCourseDeaths = 1
  MaxRetryCommands = 1
CHECK_DEADLOCK FALSE
INVARIANTS JobsSafe PackagesSafe CandidatesSafe BrokerSafe UpdateSafe CourseSafe

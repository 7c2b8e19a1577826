SPECIFICATION SuiteSpec
CONSTANTS
  Names = {"dev", "qa"}
  NewNames = {"qa", "copy"}
  Resolutions = {"overwrite", "rename"}
  StreamLines = 1
  Cancels = FALSE
  Emergencies = FALSE
  Resets = TRUE
  MaxPolicies = 4
  MaxExecs = 3
  MaxExceptions = 0
  MaxStreams = 1
  MaxEdits = 0
  MaxLines = 4
  RingSize = 2
  ChannelSize = 1
  FlushSize = 2
  MaxHistory = 4
  MaxSeen = 5
  SeenTrim = 2
  MaxRetries = 1
  MaxFaults = 2
  MaxOpens = 2
  Crowded = TRUE
  Policies = {1, 2}
  Places = {"list", "detail"}
  MaxRuns = 2
  MaxToggles = 0
  MaxMoves = 0
INVARIANTS LogExact  DatabaseSound RoutesSound RunsAreOwn
PROPERTY KeepsLifecycle
CHECK_DEADLOCK FALSE

SPECIFICATION SuiteSpec
CONSTANTS
  Procs = {"p1", "p2"}
  Phases = {"e1"}
  Nodes = {"n1", "n2"}
  Pods = {"a", "b"}
  Protected = {}
  Critical = {"b"}
  Home <- Placement
  Concurrency = 1
  Overlap = FALSE
  Roaming = FALSE
  CleanupFails = TRUE
  MaxPhases = 1
  MaxFaults = 1
  MaxCrashes = 0
  MaxLosses = 1
  MaxMeddling = 1
  MaxJoins = 1
  MaxUid = 2
  Users = {"ann", "bob"}
  Filters = {"", "ann"}
  BufSize = 1
  ExportPage = 1
  ExportMax = 2
  TablePage = 1
  Fields = {}
  Snapshots <- NoImages
  Racing = FALSE
  PageOpen = TRUE
  Hasty = FALSE
  SlowHandlers = FALSE
  MaxEntries = 2
  MaxHandlers = 1
  MaxFailures = 0
  MaxCleans = 1
INVARIANTS DrainSafe TrailComplete ExceptionsSound
CHECK_DEADLOCK FALSE

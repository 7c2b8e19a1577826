SPECIFICATION SuiteSpec
CONSTANTS
  Tabs = {"tab"}
  MaxOps = 2
  MaxFaults = 2
  MaxLosses = 1
  Namespaces = {"kube-system", "team"}
  Typed <- RawNumbers
  BusyEdits = FALSE
  BusyLeave = FALSE
  MaxEdits = 2
  MaxSaves = 2
  MaxVisits = 2
  MaxOther = 1
  Ids = {1, 2}
  FadingClicks = FALSE
  TzChanges = FALSE
  MaxOpenings = 2
  MaxTyped = 1
  MaxOthers = 1
  Names = {"a", "b"}
  Bodies = {1, 2}
  MaxSessions = 1
  MaxCalls = 2
  MaxRequests = 4
  MaxRemote = 2
  Accounts = {"ada", "bo"}
  Seed <- Roles
  Pages = {"overview", "users"}
  AuthOff = FALSE
  MaxLogins = 1
  MaxNet = 2
  MaxPolls = 1
  MaxWrites = 1
  MaxNetFaults = 0
INVARIANTS CacheOwned EditorSound ImportSound FormHonest OutcomeTruthful
CHECK_DEADLOCK FALSE

SPECIFICATION SuiteSpec
CONSTANTS
  Builders = {1, 2}
  Delay = 1
  WireSize = 1
  Busy = FALSE
  MaxChanges = 1
  MaxSaved = 0
  MaxPolicies = 0
  MaxRefetch = 0
  MaxDrops = 0
INVARIANTS OverviewCurrent DashboardTruthful FeedTruthful ViewerTruthful TablesTruthful ScheduleExact
CHECK_DEADLOCK FALSE

SPECIFICATION SuiteSpec
CONSTANTS
  Ids = {1}
  Hours = 2
  DayLength = 1
  MaxCalls = 1
  MaxOps = 2
  MaxRefused = 1
PROPERTIES OverIsFinal EventuallyShown EndsEventually CordonsRecovered OverviewConverges
CHECK_DEADLOCK FALSE

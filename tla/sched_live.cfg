SPECIFICATION FairSpec
CONSTANTS
  Policies = {p1}
  NoPolicy = NoPolicy
  Runs = {r1, r2}
  Ticks = {t1}
  MaxGen = 2
  MaxFaults = 1
  MaxRequests = 1
  AutoWake = TRUE
  DBErrors = FALSE
  ScopedRuns = FALSE
  Overrun = FALSE
  Emergencies = TRUE
PROPERTIES TransitionsEnd ExecutionsFinish Converges

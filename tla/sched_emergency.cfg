SPECIFICATION Spec
CONSTANTS
  Policies = {p1}
  NoPolicy = NoPolicy
  Runs = {r1, r2}
  Ticks = {t1, t2}
  MaxGen = 2
  MaxFaults = 0
  MaxRequests = 1
  AutoWake = TRUE
  DBErrors = FALSE
  ScopedRuns = FALSE
  Overrun = FALSE
  Emergencies = TRUE
INVARIANT EmergencyQuiet
CHECK_DEADLOCK FALSE

SPECIFICATION Spec
CONSTANTS
  Policies = {p1}
  NoPolicy = NoPolicy
  Runs = {r1, r2}
  Ticks = {t1, t2}
  MaxGen = 2
  MaxFaults = 2
  MaxRequests = 1
  AutoWake = TRUE
  DBErrors = TRUE
  ScopedRuns = FALSE
  Overrun = TRUE
  Emergencies = TRUE
SYMMETRY SlotSymmetry
INVARIANTS TypeOK ExclusiveExecution InflightExact
CHECK_DEADLOCK FALSE

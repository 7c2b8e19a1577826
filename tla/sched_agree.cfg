SPECIFICATION Spec
CONSTANTS
  Policies = {p1}
  NoPolicy = NoPolicy
  Runs = {r1, r2}
  Ticks = {t1}
  MaxGen = 2
  MaxFaults = 2
  MaxRequests = 1
  AutoWake = TRUE
  DBErrors = FALSE
  ScopedRuns = TRUE
  Overrun = FALSE
  Emergencies = TRUE
SYMMETRY SlotSymmetry
INVARIANT CacheAgrees

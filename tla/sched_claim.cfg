SPECIFICATION Spec
CONSTANTS
  Policies = {p1}
  NoPolicy = NoPolicy
  Runs = {r1, r2}
  Ticks = {t1}
  MaxGen = 1
  MaxFaults = 2
  MaxRequests = 2
  AutoWake = TRUE
  DBErrors = TRUE
  ScopedRuns = FALSE
  Overrun = FALSE
  Emergencies = FALSE
SYMMETRY SlotSymmetry
INVARIANT ClaimHeld
CHECK_DEADLOCK FALSE

SPECIFICATION Spec
CONSTANTS
  Workloads = {w1, w2}
  NoWorkload = NoWorkload
  Slots = {s1, s2, s3}
  NoSlot = NoSlot
  Replicas = {0, 1, 3}
  MaxFaults = 2
  MaxMeddling = 1
SYMMETRY RowSymmetry
INVARIANTS TypeOK BaselineKept NodesAfterSleep SleepSuccessComplete WakeSuccessExact

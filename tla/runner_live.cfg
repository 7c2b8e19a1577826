SPECIFICATION ScheduleSpec
CONSTANTS
  Workloads = {w1}
  NoWorkload = NoWorkload
  Slots = {s1}
  NoSlot = NoSlot
  Replicas = {0, 1}
  MaxFaults = 1
  MaxMeddling = 2
  Configs <- Settings
PROPERTIES EventuallyRestored EventuallyAsleep

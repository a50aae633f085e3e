SPECIFICATION Spec
CONSTANTS
  j1 = j1
  j2 = j2
  j3 = j3
  Job = {j1, j2, j3}
  Run = {r1, r2, r3}
  Config <- QueueConfigs
  Environment <- QueueEnvironment
  Input <- QueueInput
  Restored <- NeverRan
  MaxNow = 0
  MaxMailbox = 1
  NoRun = NoRun
  NoJob = NoJob
  NoSchedule = NoSchedule
SYMMETRY QueueSymmetry
INVARIANTS
  OneRunPerJob
  SlotAccounting
PROPERTIES
  ParallelLimit
  CancelIsIsolated
  ImplementsLifecycle

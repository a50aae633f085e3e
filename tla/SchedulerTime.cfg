SPECIFICATION FairSpec
CONSTANTS
  j1 = j1
  j2 = j2
  j3 = j3
  Job = {j1, j2}
  Run = {r1, r2}
  Config <- TimeConfigs
  Environment <- TimeEnvironment
  Input <- TimeInput
  Restored <- RanAtZero
  MaxNow = 2
  MaxMailbox = 1
  NoRun = NoRun
  NoJob = NoJob
  NoSchedule = NoSchedule
INVARIANTS
  NoOccurrenceLost
PROPERTIES
  QueuedIsDecided
  ShutdownEnds

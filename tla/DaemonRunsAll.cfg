SPECIFICATION Spec
CONSTANTS
  j1 = j1
  j2 = j2
  r1 = r1
  r2 = r2
  c1 = c1
  c2 = c2
  NoJob = NoJob
  Job = {j1, j2}
  Run = {r1, r2}
  Client = {c1, c2}
  Capacity = 2
SYMMETRY DaemonSymmetry
INVARIANTS
  RunningIsTracked
  ActiveIsCurrent
  HandledIsDurable
  StopIsSaved
  SkippedIsRemembered

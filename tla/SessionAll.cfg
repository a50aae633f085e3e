SPECIFICATION Spec
CONSTANTS
  c1 = c1
  c2 = c2
  p1 = p1
  p2 = p2
  Client = {c1, c2}
  Boot = Boot
  Timer = Timer
  Pass = {p1, p2}
  NoPass = NoPass
  MaxBusy = 2
SYMMETRY SessionSymmetry
INVARIANTS
  LockIsWhole
  UnlockIsWhole
  StartUpSettles
  CacheFollows
  CommitIsHeard

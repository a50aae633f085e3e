SPECIFICATION FairSpec
CHECK_DEADLOCK FALSE
CONSTANTS
  f1 = f1
  f2 = f2
  f3 = f3
  Files = {f1, f2, f3}
  Runs = {r1, r2}
  Cap = 1
  None = None
  MaxChunks = 2
  Plays <- MCPlays
INVARIANTS
  UpToDateIsSame
  EndedIsHonest
  TempsAreSwept
PROPERTIES
  RunEnds

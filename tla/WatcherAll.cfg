SPECIFICATION FairSpec
CONSTANTS
  Debounce = 2
  Multiplier = 3
  MinInterval = 8
  None = None
  MaxRequests = 2
INVARIANTS
  FiresOnTime
  ChangeIsHeld
PROPERTIES
  ChurnIsSaved

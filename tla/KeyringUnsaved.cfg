SPECIFICATION Spec
CONSTANTS
    Generated = {r1}
    Keep = 3
    MaxGen = 1
    MaxKey = 2
    MaxChanges = 0
    MaxFaults = 2
INVARIANT KeyIsSaved

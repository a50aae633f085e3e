SPECIFICATION Spec
CONSTANTS
    Generated = {}
    Derived = {d1, d2}
    NoRepo = NoRepo
    Keep = 3
    MaxGen = 3
    MaxKey = 0
    MaxChanges = 1
    MaxFaults = 2
INVARIANTS OldKeysHeld LeftBehindIsNamed MovedUnderCover MarkedIsMoved
INVARIANTS PausedIsNamed
SYMMETRY RotationSymmetry

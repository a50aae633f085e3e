SPECIFICATION Spec
CONSTANTS
    Generated = {r1, r2}
    Keep = 3
    MaxGen = 2
    MaxKey = 2
    MaxChanges = 2
    MaxFaults = 2
INVARIANTS KeyStays KeyIsSomewhere
SYMMETRY KeyringSymmetry

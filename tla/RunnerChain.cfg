SPECIFICATION Spec
CONSTANTS
  d1 = d1
  d2 = d2
  d3 = d3
  d4 = d4
  d5 = d5
  d6 = d6
  d7 = d7
  d8 = d8
  d9 = d9
  gone = gone
  Dest = {d1, d2, d3, d4, d5, d6, d7, d8, d9}
  NoDest = NoDest
  MaxDepth = 8
  MaxAttempts = 3
  Request <- ChainRequests
INVARIANTS
  RootIsFound

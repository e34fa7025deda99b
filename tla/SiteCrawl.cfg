CONSTANTS
  u1 = u1  u2 = u2
  NoUrl = NoUrl
  Urls = {u1, u2}
  Lengths = {2}
  MaxPages = 3
  Cap = 2
  Attempts = 2
  MaxTime = 2
  MaxVersion = 2
  MaxDays = 2
  MaxMarks = 2
  MaxFaults = 1
SPECIFICATION Spec
INVARIANTS SkipIsSafe  CapHolds 
SYMMETRY UrlSymmetry

CONSTANTS
  Jobs = {j1, j2}
  Workers = {w1, w2}
  Repairs = {r1, r2}
  NoJob = NoJob
  MaxEntries = 3
SPECIFICATION Spec
SYMMETRY Symmetry
INVARIANTS
  NeverLost
  RunsOnceUnlessDoubled
CHECK_DEADLOCK FALSE

CONSTANTS
  MaxRun = 3
  PartialRuns = {2}
  Vins = {v1, v2}
  Series = {s1, s2}
  NoSeries = NoSeries
SPECIFICATION Spec
SYMMETRY Symmetry
INVARIANTS RunsInv Settled
PROPERTIES NeverShrinks
CHECK_DEADLOCK FALSE

CONSTANTS
  MaxRun = 2
  PartialRuns = {2}
  Vins = {v1, v2}
  Series = {s1}
  NoSeries = NoSeries
SPECIFICATION Spec
SYMMETRY Symmetry
INVARIANT CarriedForward
CHECK_DEADLOCK FALSE

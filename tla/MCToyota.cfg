CONSTANTS
  MaxRun = 2
  MaxChanges = 2
  PageSize = 2
  Vins = {v1, v2, v3}
  Models = {m1, m2}
  NoModel = NoModel
SPECIFICATION Spec
SYMMETRY Symmetry
INVARIANTS TypeOK
PROPERTIES CompleteIsExact HiddenAfterFullRead ShownUnlessFuller
CHECK_DEADLOCK FALSE

CONSTANTS
  NoJob = NoJob
  IngestJobs = {i1, i2}
  GeocodeJobs = {}
  Requests = {r1}
SPECIFICATION FairSpec
INVARIANTS
  VerdictIsTrue
  VerdictStands
  LeftAlone
PROPERTIES
  HistorySafety
  RowsClose
  LiveSettles
CHECK_DEADLOCK FALSE

CONSTANTS
  NoJob = NoJob
  IngestJobs = {}
  GeocodeJobs = {g1, g2}
  Requests = {r1}
SPECIFICATION FairSpec
INVARIANTS
  CancelIsFresh
PROPERTIES
  GeocodeFinal
  LiveSettles
CHECK_DEADLOCK FALSE

CONSTANTS
  DealerThreads = {d1, d2}
  ZipThreads = {z1}
  AddressQueries = 2
  Candidates = 2
  GoogleMost = 2
  ZipQueries = 2
  Interval <- Interval2
SPECIFICATION FairSourcesSpec
INVARIANTS
  RequestsTakeTurns
PROPERTIES
  EveryThreadEnds
CHECK_DEADLOCK FALSE

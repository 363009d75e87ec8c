CONSTANTS
  NoJob = NoJob
  IngestJobs = {i1}
  GeocodeJobs = {g1, g2}
  Requests = {r1}
SPECIFICATION FairSpec
INVARIANTS
  ThreadsInv
  IngestVerdictStands
  CancelledWasAsked
  StuckIsUnprepared
PROPERTIES
  ReportedRunsClose

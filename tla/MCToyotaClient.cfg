CONSTANTS
  MaxRetries = 5
  MaxRefreshes = 1
  Cooldown = 5
  PostDelay = 1
  RetryBackoff = 1
  RateBackoff = 3
  MaxRequests = 2
  MaxExpiries = 2
SPECIFICATION FairClientSpec
INVARIANTS
  SiteIsSpared
  FailsForCause
PROPERTIES
  EveryRequestEnds
CHECK_DEADLOCK FALSE

CONSTANTS
  Dealers = {1, 2, 3}
  MaxWorkers = 2
  CommitEvery = 2
  GeoAnswers <- Answers3
  Before <- Before3
  Orders <- Orders3
  MaxSyncs = 1
  MaxAdmin = 1
SPECIFICATION FairSpec
INVARIANTS
  AnswersAreKept
  CancelIsPrompt
PROPERTIES
  CompleteRowsStay
  BatchEnds
CHECK_DEADLOCK FALSE

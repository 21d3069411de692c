CONSTANTS
  MaxJobs = 2
  Budgets = {0, 1, 2, 3}
  RETRY_DELAY_MS = 2
  MaxTime = 1
  MaxBack = 2
  MaxAbandons = 1
  Capacity = 2
  ClientFrames <- SmallFrames
  MaxSends = 4
SPECIFICATION TokioSpec
INVARIANTS LeasesHaveOneHolder OnlyEarlyEndingsAreRefused AnswersFollowTheFrames
PROPERTIES IdleMeansSettled CallsReturn SessionsEnd
CHECK_DEADLOCK FALSE

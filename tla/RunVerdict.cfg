CONSTANTS
  Steps = 2
  Quota = 20
SPECIFICATION FairSpec
INVARIANTS PassIsBacked CancellationIsReported
PROPERTIES UnfinishedIsNotEvaluated RunEnds
CHECK_DEADLOCK FALSE

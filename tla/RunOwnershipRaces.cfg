CONSTANTS
  Runs = {r1}
  Recoverers = {w1, w2}
  Nobody = Nobody
  MaxBoot = 0
  OperatorWaits = FALSE
SPECIFICATION FairSpec
PROPERTIES
  VerdictIsFinal
  LockIsReleased
  RemovalNeedsDeadVMM
CHECK_DEADLOCK FALSE

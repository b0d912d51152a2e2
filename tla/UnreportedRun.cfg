CONSTANTS
  Runs = {r1}
  Recoverers = {w1}
  Nobody = Nobody
  MaxBoot = 1
  OperatorWaits = TRUE
SPECIFICATION Spec
INVARIANTS
  InterruptedIsReported
CHECK_DEADLOCK FALSE

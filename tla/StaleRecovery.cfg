CONSTANTS
  Runs = {r1}
  Recoverers = {w1}
  Nobody = Nobody
  MaxBoot = 1
  OperatorWaits = FALSE
SPECIFICATION Spec
INVARIANTS
  DiskOutlivesVMM
CHECK_DEADLOCK FALSE

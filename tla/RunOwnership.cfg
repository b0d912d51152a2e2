CONSTANTS
  Runs = {r1, r2}
  Recoverers = {w1}
  Nobody = Nobody
  MaxBoot = 1
  OperatorWaits = TRUE
SYMMETRY Symmetry
SPECIFICATION Spec
INVARIANTS
  OneUnresolvedRun
  CompleteMeansGone
  ExitZeroIsBacked
PROPERTIES
  KeepsCustody
CHECK_DEADLOCK FALSE

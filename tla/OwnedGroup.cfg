SPECIFICATION FairSpec
CONSTANTS
  Leader = l
  Children = {c1, c2, c3}
  MaxScans = 2
INVARIANTS
  NoForeignSignal
  CleanTermination
PROPERTIES
  TerminateReturns
  KillReaps
CHECK_DEADLOCK FALSE

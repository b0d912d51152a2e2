SPECIFICATION FairSpec
CONSTANTS
  Watcher = watcher
  Callers = {watcher, cleanup}
  Nobody = nobody
INVARIANTS
  StoppedMeansDead
  NoStraySignal
  BorrowedErrorKilled
  KillIsRequested
PROPERTIES
  OwnedVMMEnds
  CallersReturn
CHECK_DEADLOCK FALSE

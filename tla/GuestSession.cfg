SPECIFICATION FairSpec
CONSTANTS
  Services = {a, b, c}
  NoService = none
  ServiceLimit = 2
  MaxSteps = 6
INVARIANTS
  NoReplay
  NoGuardRefusal
  PassMeansHealthy
PROPERTIES
  AgentEnds
  CallsEnd
CHECK_DEADLOCK FALSE

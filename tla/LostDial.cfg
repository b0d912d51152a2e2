SPECIFICATION Spec
CONSTANTS
  Services = {a}
  NoService = none
  ServiceLimit = 1
  MaxSteps = 2
INVARIANT
  RetryCanSucceed
CHECK_DEADLOCK FALSE

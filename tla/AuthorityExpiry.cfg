CONSTANTS
  Request <- MCRequest
  NoRequest = NoRequest
  MaxTime = 3
  MaxInvocations = 4
SPECIFICATION Spec
INVARIANTS AtMostOnce OutcomeIsTruthful
PROPERTIES EffectIsAuthorized LeftoverBlocks
CHECK_DEADLOCK FALSE

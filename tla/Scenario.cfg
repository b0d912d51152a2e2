\* One scenario from its validation to its assertion results.
SPECIFICATION Spec
CONSTANTS
  MaxDepth = 4
  MaxExponent = 2
  MaxPointer = 6
  Plans <- MCPlans
  MS = 2
  Limits <- MCLimits
  Actions = {"run"}
  Services = {"s", "t", "u"}
  Allowance = 2
  Termination = 1
  From = 10
  Until = 14
  Outputs <- MCOutputs
  Skews <- MCSkews
  Decodes <- Decodable
  Available <- AvailablePointer
  Judgement <- Judged
INVARIANTS
  TypeOK
  DeadlinesNest
  HostAgreesWithGuest
  ResultsAreTrue
  ReferencesResolve
  ResultsAreKept
\* A rejected, failed or completed scenario stops.
CHECK_DEADLOCK FALSE

SPECIFICATION FairSpec
CONSTANTS
  Clients = {c1, c2}
  Tokens <- MCTokens
  Workers = {1, 2}
  MaxConns = 2
  MaxTime = 2
INVARIANTS
  LedgerBalances
  EffectWasAuthorized
  AnswersAreTrue
PROPERTIES
  PassesEnd
CHECK_DEADLOCK FALSE

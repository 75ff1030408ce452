SPECIFICATION FairSpec
CONSTANTS
  DefaultInitial = 2
  DefaultMax = 4
  DefaultFactor = 2
  DefaultReset = 2
  DefaultPushAttempts = 3
  Omitted = Omitted
  Malformed = Malformed
  Blocks <- MCBlocks
  CounterCap = 4
INVARIANT BudgetKept
INVARIANT OpenMatchesSession
INVARIANT LadderGrows
PROPERTY CancelIsNotFailure
PROPERTY FlappingGivesUp
PROPERTY CancelledReturns
PROPERTY ImplementsLifecycle

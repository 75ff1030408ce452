SPECIFICATION FairSpec
CONSTANTS
  Clients = {c1, c2}
  Wedged = {c2}
  MaxMsgs = 2
  MaxSessions = 2
INVARIANT ReleasedIsFree
INVARIANT SessionIsOver
INVARIANT SuccessIsTrue
PROPERTY CancelledReturns

SPECIFICATION FairSpec
CONSTANTS
  Clients = {c1, c2}
  Wedged = {}
  MaxMsgs = 2
  MaxSessions = 2
PROPERTY RunReturnsOnCancel

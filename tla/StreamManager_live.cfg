SPECIFICATION FairSpec
CONSTANTS
  p1 = p1
  a = a
  r1 = r1
  r2 = r2
  Ids = {1, 2}
  Ports = {p1}
  NoPort = NoPort
  Pipes = {a}
  Requests = {r1, r2}
  Main = Main
  Free = Free
  None = None
  Timeouts = FALSE
  SkipKeys = FALSE
  MaxBoots = 1
PROPERTY RequestsAnswered
PROPERTY StopAllReturns

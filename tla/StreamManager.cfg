SPECIFICATION Spec
CONSTANTS
  p1 = p1
  a = a
  b = b
  r1 = r1
  r2 = r2
  Ids = {1, 2}
  Ports = {p1}
  NoPort = NoPort
  Pipes = {a, b}
  Requests = {r1, r2}
  Main = Main
  Free = Free
  None = None
  Timeouts = TRUE
  SkipKeys = TRUE
  MaxBoots = 2
SYMMETRY Symmetry
INVARIANT ClaimsConsistent
INVARIANT BoundByHolder
INVARIANT LeastIdWins
INVARIANT StoredIsRegistered
PROPERTY ImplementsRegistry

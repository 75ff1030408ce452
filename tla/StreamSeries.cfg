SPECIFICATION Spec
CONSTANTS
  r1 = r1
  r2 = r2
  r3 = r3
  r4 = r4
  h1 = h1
  h2 = h2
  Requests = {r1, r2, r3, r4}
  Handlers = {h1, h2}
  Capacities = {1, 2}
  NoDedup = NoDedup
  Absent = Absent
  Free = Free
SYMMETRY Symmetry
INVARIANT StateIffRegistered
INVARIANT NoDedupAfterRemove
CHECK_DEADLOCK FALSE

SPECIFICATION Spec
CONSTANTS
  low = low
  high = high
  null = null
  p1 = p1
  p2 = p2
  Hashes <- MCHashes
  Events <- MCHashes
  Body <- MCBody
  Null = {null}
  Value <- MCValue
  TTL = 1
  Probes = {low}
  CacheSize = 2
  MaxTime = 2
  Never = Never
  NaN = NaN
  NoValue = NoValue
  Publishers = {p1, p2}
  Delta = 2
  Buffer = 1
  Free = Free
PROPERTY RetryGetsThrough

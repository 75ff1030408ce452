SPECIFICATION FairSpec
CONSTANTS
  g1 = g1
  g2 = g2
  Events = {e1, e2}
  Binary = {}
  Late = {e2}
  Gens = {g1, g2}
  Batching = {g1, g2}
  FirstGen = g1
  Callers = {c1, c2}
  MaxBatchSize <- Sizes
  None = None
INVARIANT TypeOK
INVARIANT RetireIsLossless
INVARIANT PublishedAtMostOnce
INVARIANT AcknowledgedIsHeld
PROPERTY RetireReturns
PROPERTY AcceptedIsFlushed
PROPERTY NoWorkerLeaks
PROPERTY ImplementsHandover

SPECIFICATION Spec
CONSTANTS
  c1 = c1
  c2 = c2
  Clients <- TwoClients
  Keys <- TwoKeys
  Policies <- OnlyAlways
  Windows <- Unbounded
  MaxBatch = 2
  MaxSubmits = 2
  MaxLives = 2
INVARIANT DurableBeforeVisible
CHECK_DEADLOCK FALSE

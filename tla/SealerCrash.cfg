SPECIFICATION FairSpec
CONSTANTS
  c1 = c1
  c2 = c2
  Clients <- TwoClients
  Keys <- TwoKeys
  Policies <- BothPolicies
  Windows <- NoneOrOne
  MaxBatch = 2
  MaxSubmits = 4
  MaxLives = 3
INVARIANTS TypeOK AlwaysRetriesSafe
PROPERTIES RepliesTrue PublishIsDurable DurableSpec SubmitReturns
CHECK_DEADLOCK FALSE

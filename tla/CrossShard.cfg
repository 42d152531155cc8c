SPECIFICATION Spec
CONSTANTS
  s1 = s1
  s2 = s2
  x0 = x0
  x1 = x1
  usd = usd
  eur = eur
  k1 = k1
  k2 = k2
  k3 = k3
  Shards <- TwoShards
  Xids <- OneXid
  Currencies <- TwoCurrencies
  Epochs = {1, 2, 4}
  Movements <- SomeMovements
  EarlierLogs <- NoneOrAnother
  Coordinators <- ThreeCoordinators
SYMMETRY CoordinatorSymmetry
INVARIANTS TypeOK ToldIsRecorded CoordinatorsAgree SameAtEveryAnchor
PROPERTY AtomicCommitSpec
CHECK_DEADLOCK FALSE

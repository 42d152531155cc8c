CONSTANTS
  j1 = j1
  j2 = j2
  j3 = j3
  Joiners <- ThreeJoiners
  MaxWaiters = 2
SPECIFICATION Spec
INVARIANTS TypeOK PlacesMatch PublishReachesAll
PROPERTIES JoinedInTimeLeaves PromiseSpec
CHECK_DEADLOCK FALSE

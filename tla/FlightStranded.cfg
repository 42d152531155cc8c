CONSTANTS
  j1 = j1
  j2 = j2
  j3 = j3
  Joiners <- ThreeJoiners
  MaxWaiters = 2
SPECIFICATION Spec
PROPERTY NobodyStranded
CHECK_DEADLOCK FALSE

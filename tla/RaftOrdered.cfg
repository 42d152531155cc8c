SPECIFICATION Spec
CONSTANTS
  n1 = n1
  n2 = n2
  n3 = n3
  None = None
  Nodes <- ThreeNodes
  Reorder = FALSE
  Bounds <- OrderedBounds
SYMMETRY NodeSymmetry
VIEW Live
INVARIANTS TypeOK ElectionSafety LogMatching HistoriesAgree CommittedStaysInLog
  MatchIsHeld CommittedCannotBeOutvoted
CHECK_DEADLOCK FALSE

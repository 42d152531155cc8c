SPECIFICATION Spec
CONSTANTS
  n1 = n1
  n2 = n2
  n3 = n3
  None = None
  Nodes <- ThreeNodes
  Reorder = TRUE
  Bounds <- ReorderedBounds
SYMMETRY NodeSymmetry
VIEW Live
INVARIANT CommittedStaysInLog
CHECK_DEADLOCK FALSE

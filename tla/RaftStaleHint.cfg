SPECIFICATION Spec
CONSTANTS
  n1 = n1
  n2 = n2
  n3 = n3
  None = None
  Nodes <- ThreeNodes
  Reorder = FALSE
  Bounds <- HintBounds
ACTION_CONSTRAINT StaleHint
INVARIANT CommittedStaysInLog
CHECK_DEADLOCK FALSE

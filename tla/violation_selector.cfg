SPECIFICATION Spec
CONSTANTS
  Conns = {c1, c2}
  Kinds <- MCKinds
  MaxFrames = 2
  MaxGone = 1
  None = None
INVARIANTS
  SelectorSurvives
CHECK_DEADLOCK FALSE

SPECIFICATION FairSpec
CONSTANTS
  Conns = {c1, c2}
  Kinds <- MCKinds
  MaxFrames = 2
  MaxGone = 1
  None = None
INVARIANTS
  TypeOK
  InOrder
  NothingForgotten
PROPERTIES
  EveryMessageWritten
CHECK_DEADLOCK FALSE

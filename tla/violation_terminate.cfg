SPECIFICATION FairSpec
CONSTANTS
  Conns = {c1, c2}
  Kinds <- MCKinds
  MaxFrames = 2
  MaxGone = 0
  None = None
PROPERTIES
  TerminatedIsClosed
CHECK_DEADLOCK FALSE

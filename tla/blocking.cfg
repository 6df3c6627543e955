SPECIFICATION FairSpec
CONSTANTS
  Others = {t1, t2}
  Self = Self
  Capacity = 1
  Lengths = {1, 3}
  MaxWork = 4
INVARIANTS
  TypeOK
  FramesWhole
  AtMostOnce
  AloneArrives
PROPERTIES
  SentIsDecoded
CHECK_DEADLOCK FALSE

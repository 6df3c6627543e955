SPECIFICATION FairSpec
CONSTANTS
  Actors = {h1, h2, h3}
  Threads = {t1, t2}
  MaxTasks = 3
  None = None
INVARIANTS
  TypeOK
  OneAtATime
PROPERTIES
  ImplementsQueues
  EveryTaskRuns
CHECK_DEADLOCK FALSE

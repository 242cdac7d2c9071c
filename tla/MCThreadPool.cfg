\* Three workers, four tasks.
CONSTANTS
  Workers = {w1, w2, w3}
  MaxTasks = 4
SPECIFICATION FairSpec
INVARIANTS WakeupPerTask
PROPERTIES ImplementsTaskQueue TasksTaken StopReturns
CHECK_DEADLOCK FALSE

\* The reactor: two callers, two channels, three functors.
CONSTANTS
  Callers = {t1, t2}
  Channels = {c1, c2}
  WakeupChannel = wakeup
  MaxFunctors = 3
SPECIFICATION FairSpec
INVARIANTS NoLostWakeup
PROPERTIES ImplementsTaskQueue FunctorsRun QuitEnds WakeupDrained
CHECK_DEADLOCK FALSE

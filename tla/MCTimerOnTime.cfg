\* Are timers called, and the timerfd armed, at the time that was asked for?
CONSTANTS
  Timers = {1, 2}
  Delays = {0, 2}
  Intervals = {1, 2}
  MaxTime = 4
  MaxQueue = 2
SPECIFICATION Spec
PROPERTIES OnTime
CHECK_DEADLOCK FALSE

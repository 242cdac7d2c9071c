\* Is the timerfd armed again for a timer that expires before all the others?  One of
\* the timers may repeat, every four units.
CONSTANTS
  Timers = {1, 2}
  Delays = {2}
  Intervals = {4}
  MaxTime = 8
  MaxQueue = 1
SPECIFICATION Spec
PROPERTIES EarlierTimerArms

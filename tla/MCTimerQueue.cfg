\* Two timers, one-shot or repeating, until time 4.
CONSTANTS
  Timers = {1, 2}
  Delays = {0, 2}
  Intervals = {1, 2}
  MaxTime = 4
  MaxQueue = 2
SPECIFICATION Spec
INVARIANTS TimerfdArmed Ownership CancelIsFinal 
PROPERTIES FirstRunOnTime DueTimersTaken

\* Does a repeating timer ever run before its expiration?
CONSTANTS
  Timers = {1, 2}
  Delays = {0, 2}
  Intervals = {1, 2}
  MaxTime = 4
  MaxQueue = 2
SPECIFICATION Spec
PROPERTIES NeverEarly

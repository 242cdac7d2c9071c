\* Is everything appended before stop() in the file when the consumer has ended?
CONSTANTS
  Capacity = 3
  MaxBacklog = 3
  MaxMessages = 9
  RollSize = 5
  FlushInterval = 0
  CheckEvery = 3
  Day = 2
  StdioSize = 4
  MaxTime = 3
SPECIFICATION Spec
INVARIANTS WrittenAtStop
CHECK_DEADLOCK FALSE

\* Buffers of two messages, a backlog of three buffers, nine messages; a file of six
\* and one day of two seconds, of which the clock sees one and a half.
CONSTANTS
  Capacity = 3
  MaxBacklog = 3
  MaxMessages = 9
  RollSize = 5
  FlushInterval = 0
  CheckEvery = 3
  Day = 2
  StdioSize = 4
  MaxTime = 3
SPECIFICATION FairSpec
INVARIANTS AllInOrder BuffersReady RolledAtMidnight
PROPERTIES LossOnlyInBurst MessagesWritten
CHECK_DEADLOCK FALSE

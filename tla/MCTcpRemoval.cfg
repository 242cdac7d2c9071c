\* Is a channel always quiet when it is removed?  Another thread calls, and the server may
\* be destroyed.
CONSTANTS
  Users = {u1}
  CrossThread = {"send", "shutdown"}
  ServerMayDie = TRUE
  MsgLen = 2
  SndBuf = 1
  MaxSends = 1
  MaxInput = 1
SPECIFICATION Spec
INVARIANTS RemovedWhenQuiet
CHECK_DEADLOCK FALSE

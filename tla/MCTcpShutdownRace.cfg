\* Another thread's shutdown may store kDisconnecting over kDisconnected; the server
\* lives on.
CONSTANTS
  Users = {u1}
  CrossThread = {"send", "shutdown"}
  ServerMayDie = FALSE
  MsgLen = 2
  SndBuf = 1
  MaxSends = 1
  MaxInput = 1
SPECIFICATION Spec
INVARIANTS RemovedWhenQuiet
CHECK_DEADLOCK FALSE

\* One connection: the I/O loop, the base loop and one other thread that calls it;
\* the server may be destroyed meanwhile.
CONSTANTS
  Users = {u1}
  CrossThread = {"send", "shutdown"}
  ServerMayDie = TRUE
  MsgLen = 2
  SndBuf = 1
  MaxSends = 2
  MaxInput = 1
SPECIFICATION FairSpec
INVARIANTS NoFailure StreamInOrder FlushedBeforeShutdown CallbackProtocol NeverFreedInUse
PROPERTIES PeerLeftIsReleased ShutdownCompletes
CHECK_DEADLOCK FALSE

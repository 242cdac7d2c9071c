\* Two clients on one I/O thread of the server, two calls of one and one of the other.
CONSTANTS
  c1 = c1
  c2 = c2
  t1 = t1
  Base = 3
  ByteOrder = "LittleEndian"
  CodeBytes = 1
  Clients = {c1, c2}
  Threads = {t1}
  ThreadOf <- MCThreadOf
  Types <- MCTypes
  ResultType <- MCResultType
  Run <- MCRun
  NotBound <- MCNotBound
  Calls <- MCCalls
  Uninit <- MCUninit
  NoCall = NoCall
  MaxTries = 1
  MaxCalls <- MCMaxCalls
SPECIFICATION FairSpec
INVARIANTS WholeCallsAnswered WholeAnswersRead
PROPERTIES CallsReturn
CHECK_DEADLOCK FALSE

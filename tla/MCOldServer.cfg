\* No I/O thread or one; two clients; two descriptors for them and one request, or
\* one descriptor, which is used again or missing, and two requests; an answer does
\* not fit into an empty socket.
CONSTANTS
  MaxThreads = 1
  MaxClients = 2
  MaxFds = 2
  MaxLoad = 3
  SockSize = 1
  ReplySize = 2
SPECIFICATION OldFairSpec
INVARIANTS AnswersWhole NothingDangles
PROPERTIES GoneAreFreed ShutdownHappens
CHECK_DEADLOCK FALSE

\* No I/O thread, one or two; three descriptors, four clients, one file of
\* another thread.
CONSTANTS
  MaxThreadNum = 2
  Limit = 3
  MaxClients = 4
  MaxOthers = 1
SPECIFICATION FairSpec
INVARIANTS DescriptorsOwned
PROPERTIES ClientsServed
CHECK_DEADLOCK FALSE

\* Two connections of one thread, two requests on one and one on the other.
CONSTANTS
  c1 = c1
  c2 = c2
  page = page
  missing = missing
  Conns = {c1, c2}
  Paths = {page, missing}
  ClosingPaths = {missing}
  Requests <- MCRequests
  NoConn = NoConn
  NoPath = NoPath
  MaxRequests <- MCMaxRequests
SPECIFICATION Spec
INVARIANTS ContextReady WholeRequestsAnswered
CHECK_DEADLOCK FALSE

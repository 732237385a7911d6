SPECIFICATION FairSpec
CONSTANTS
  Conn = {c1}
  Fd = {f1}
  NumEpolls = 1
  Asking = {c1}
  Requests = 2
  MaxRequests <- MCMaxRequests
  None = None
PROPERTIES RequestsAreHandled PassEnds
CHECK_DEADLOCK FALSE

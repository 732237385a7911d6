SPECIFICATION FairSpec
CONSTANTS
  Conn = {c1, c2}
  Fd = {f1}
  NumEpolls = 2
  Asking = {c1}
  Requests = 1
  MaxRequests <- MCMaxRequests
  None = None
INVARIANTS NoDanglingPointer SocketIsOwn OneWorkerPerConnection SizeStillThere
PROPERTIES IteratorsStayValid DeadPeerIsReclaimed
CHECK_DEADLOCK FALSE

SPECIFICATION FairSpec
CONSTANTS
  Conn = {c1, c2}
  Fd = {f1}
  Mortal = {c1}
  Busy = {c1}
  Slow = {c1}
  Rounds = 2
  MaxRounds <- MCMaxRounds
  MaxKilled = 1
  Epoll = {e1, e2}
  BufferSize = 1
  None = None
INVARIANTS
  NoDanglingPointer
  AnsweredOnce
PROPERTIES
  ClientIsAnswered
  DeadClientIsReclaimed
CHECK_DEADLOCK FALSE

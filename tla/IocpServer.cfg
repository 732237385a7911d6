CONSTANTS
  Conn = {c1}
  Mortal = {c1}
  Busy = {c1}
  Rounds = 2
  MaxRounds <- MCMaxRounds
  MaxKilled = 1
  Port = {p1}
  listener = listener
  push = push
  None = None
SPECIFICATION FairSpec
INVARIANTS
  WriteLockHasOneOwner
  OneReadAtATime
  AnsweredOnce
PROPERTIES
  ForgottenForGood
  ClientIsAnswered
  DeadClientIsReclaimed
CHECK_DEADLOCK FALSE

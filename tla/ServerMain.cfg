SPECIFICATION MainsSpec
CONSTANTS
  listener = listener
  sCSessionMgr = sCSessionMgr
  worker = worker
  Thread = {listener, sCSessionMgr, worker}
  WorkThreads <- MCWorkThreads
  Used <- MCUsed
INVARIANTS
  AcceptsOnlyWhenReady
  SessionsOutliveListener
PROPERTIES
  StopSticks
  EndsWhenTold
CHECK_DEADLOCK FALSE

SPECIFICATION Spec
CONSTANTS
  Thread <- MCThread
  Kinds <- MCKinds
  MaxDepth = 2
  Nobody = Nobody
  Size = 2
  Length <- MCLength
  MaxWritten = 5
  MaxSent = 7
  MaxGarbage = 3
INVARIANTS
  CopiesStayInside
  SentInOrder
PROPERTIES
  ImplementsSendQueue
  EveryoneGetsIn
CHECK_DEADLOCK FALSE

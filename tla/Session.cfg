SPECIFICATION Spec
CONSTANT MaxAsked = 5
INVARIANTS AnswersInOrder HeapIsOwned
PROPERTIES EveryPacketIsAnswered
CHECK_DEADLOCK FALSE

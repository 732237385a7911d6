SPECIFICATION BuffersSpec
CONSTANTS
  Byte = {x, y}
  Size = 4
  Zero = x
  RingSize = 5
INVARIANTS IInv
PROPERTIES ImplementsFifo FifoExceptAtTheEdges

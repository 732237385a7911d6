SPECIFICATION FairSpec
CONSTANTS
  HeaderSize = 2
  BufferSize = 5
  TemporySize = 4
  PacketSize <- MCPacketSize
  MaxSent = 8
INVARIANT NeverSpins
PROPERTIES ImplementsChannel EveryPacketArrives
CHECK_DEADLOCK FALSE

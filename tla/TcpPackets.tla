----------------------------- MODULE TcpPackets -----------------------------
(***************************************************************************)
(* The packets of the demo protocol as the client declares them.  Client   *)
(* and servers have a declaration each, and send its bytes as they are.    *)
(***************************************************************************)
EXTENDS Naturals

\* enum ENUM_OPCODE.
SMSG_A == 0
CMSG_A == 1
SMSG_B == 2
CMSG_B == 3

\* opcode_ and size_, four bytes each, and a buffer of n bytes, packed.
NetPacket(opcode, n) == [opcode_ |-> opcode, size_ |-> 4 + 4 + n]

SNetPacketA == NetPacket(SMSG_A, 16)
SNetPacketB == NetPacket(SMSG_B, 32)
CNetPacketA == NetPacket(CMSG_A, 16)
CNetPacketB == NetPacket(CMSG_B, 32)
=============================================================================

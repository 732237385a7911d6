--------------------------- MODULE MCPacketReader ---------------------------
(***************************************************************************)
(* TLC instance of PacketReader: packets of the size of a header, of an    *)
(* odd size, and of the size of the whole buffer.                          *)
(***************************************************************************)
EXTENDS PacketReader

MCPacketSize == {2, 3, 5}
=============================================================================

--------------------------- MODULE PacketChannel ---------------------------
(***************************************************************************)
(* What the receiving half of a connection promises the session: packets   *)
(* arrive whole, once, and in the order in which the peer sent them.       *)
(* PacketReader is shown to implement this module.                         *)
(*                                                                         *)
(* A byte of the stream is known by its position, the first one is 1.      *)
(***************************************************************************)
EXTENDS Integers, Sequences

CONSTANTS
  PacketSize, \* the sizes a packet may have
  MaxSent     \* bound: no packet is sent once so many bytes have been

VARIABLES
  packets,    \* the size of the packet that starts at a position
  sent,       \* number of bytes sent
  delivered   \* the packets handed over, each a sequence of positions

Bytes(at, size) == [i \in 1..size |-> at + i - 1]

\* The position behind the last byte of the last packet.
After(seq) ==
  IF seq = <<>> THEN 1
  ELSE LET last == seq[Len(seq)] IN last[Len(last)] + 1

Init == packets = [p \in {} |-> 0] /\ sent = 0 /\ delivered = <<>>

Send(size) ==
  /\ sent < MaxSent
  /\ packets' = [p \in DOMAIN packets \cup {sent + 1} |->
                   IF p = sent + 1 THEN size ELSE packets[p]]
  /\ sent' = sent + size
  /\ UNCHANGED delivered

Deliver ==
  LET at == After(delivered)
  IN  /\ at \in DOMAIN packets
      /\ delivered' = Append(delivered, Bytes(at, packets[at]))
      /\ UNCHANGED <<packets, sent>>

Next == Deliver \/ \E size \in PacketSize : Send(size)

Spec == Init /\ [][Next]_<<packets, sent, delivered>>
=============================================================================

---------------------------- MODULE PacketReader ----------------------------
(***************************************************************************)
(* How a worker turns the byte stream of a connection into packets:        *)
(* CTcpConnection::Read, onRead and getPacketFromReadBuffer.  The network  *)
(* delivers the stream in arbitrary pieces.  The read buffer is the queue  *)
(* of ByteFifo, which CircularBuffer implements.                           *)
(*                                                                         *)
(* A byte is represented by its position in the stream.  The session is    *)
(* active: only the worker itself could kill it.                           *)
(***************************************************************************)
EXTENDS Integers, Sequences

CONSTANTS
  HeaderSize,   \* sizeof(NetPacketHeader)
  BufferSize,   \* the size of readBuffer_
  TemporySize,  \* sizeof(temporyReadBuffer_)
  PacketSize,   \* the values of size_ in the packets the peer sends
  MaxSent       \* bound: no packet is sent once so many bytes have been

ASSUME ConstantsAssumption ==
  /\ HeaderSize \in Nat \ {0}
  /\ BufferSize \in Nat \ {0}
  /\ TemporySize \in Nat \ {0}
  /\ PacketSize \subseteq HeaderSize..BufferSize

VARIABLES
  packets,    \* the size_ in the header that starts at a position
  sent,       \* bytes the peer has sent
  arrived,    \* bytes that have reached the socket
  received,   \* bytes recv has returned
  readBuffer, \* what readBuffer_ holds
  delivered,  \* what was given to pushPacket
  pc,         \* where the worker is
  short       \* recv returned less than it was asked for

peerVars == <<packets, sent, arrived>>
vars == <<peerVars, received, readBuffer, delivered, pc, short>>

Buffer == INSTANCE ByteFifo WITH Byte <- Nat, Capacity <- BufferSize,
                                 queue <- readBuffer

GetFreeSpaceSize == BufferSize - Len(readBuffer)
GetUsedSpaceSize == Len(readBuffer)

MIN(x, y) == IF x < y THEN x ELSE y

Init ==
  /\ packets = [p \in {} |-> 0]
  /\ sent = 0 /\ arrived = 0 /\ received = 0
  /\ readBuffer = <<>>
  /\ delivered = <<>>
  /\ pc = "wait" /\ short = FALSE

-----------------------------------------------------------------------------
\* The peer sends a packet; its size_ tells its length.
Send(size) ==
  /\ sent < MaxSent
  /\ packets' = [p \in DOMAIN packets \cup {sent + 1} |->
                   IF p = sent + 1 THEN size ELSE packets[p]]
  /\ sent' = sent + size
  /\ UNCHANGED <<arrived, received, readBuffer, delivered, pc, short>>

\* Some more of the stream gets through.
Arrive ==
  /\ arrived' \in (arrived + 1)..sent
  /\ UNCHANGED <<packets, sent, received, readBuffer, delivered, pc, short>>

-----------------------------------------------------------------------------
\* The worker is told that there is input.
Read ==
  /\ pc = "wait" /\ received < arrived
  /\ pc' = "recv"
  /\ UNCHANGED <<peerVars, received, readBuffer, delivered, short>>

\* What recv is asked for.
size == MIN(TemporySize, GetFreeSpaceSize)

\* recv returns what there is, up to that size.  With size = 0 the loop of
\* Read goes round without calling it.
Recv ==
  LET len == MIN(size, arrived - received)
  IN  /\ pc = "recv" /\ size > 0 /\ len > 0
      /\ Buffer!Put([i \in 1..len |-> received + i])
      /\ received' = received + len
      /\ short' = (len < size)
      /\ pc' = "onRead"
      /\ UNCHANGED <<peerVars, delivered>>

RecvNothing ==
  /\ pc = "recv" /\ size > 0 /\ received = arrived
  /\ pc' = "wait"
  /\ UNCHANGED <<peerVars, received, readBuffer, delivered, short>>

\* The size_ of the header read from the front of the buffer: what the peer
\* wrote there or, if no packet starts there, any number.
HeaderSays ==
  IF readBuffer[1] \in DOMAIN packets THEN {packets[readBuffer[1]]}
  ELSE 0..BufferSize

\* Mutant: a packet that ends where the buffer ends is waited for.
IsCompleteLate(n) == GetUsedSpaceSize > n

IsComplete(n) == GetUsedSpaceSize >= n

\* getPacketFromReadBuffer returns a packet, onRead pushes it and goes on.
GetPacket ==
  /\ pc = "onRead" /\ GetUsedSpaceSize >= HeaderSize
  /\ \E n \in HeaderSays :
    /\ IsComplete(n)
    /\ Buffer!Take(n)
    /\ delivered' = Append(delivered, SubSeq(readBuffer, 1, n))
  /\ UNCHANGED <<peerVars, received, pc, short>>

\* Mutant: onRead takes at most one packet.
NoPacketAfterOne ==
  /\ pc = "onRead"
  /\ pc' = IF short THEN "wait" ELSE "recv"
  /\ UNCHANGED <<peerVars, received, readBuffer, delivered, short>>

\* Mutant: reading the header of an incomplete packet removes it.
NoPacketLosingHeader ==
  /\ pc = "onRead"
  /\ \/ GetUsedSpaceSize < HeaderSize /\ UNCHANGED readBuffer
     \/ /\ GetUsedSpaceSize >= HeaderSize
        /\ \E n \in HeaderSays : ~IsComplete(n)
        /\ Buffer!Take(HeaderSize)
  /\ pc' = IF short THEN "wait" ELSE "recv"
  /\ UNCHANGED <<peerVars, received, delivered, short>>

\* It returns NULL; Read ends if recv came short, and asks again otherwise.
NoPacket ==
  /\ pc = "onRead"
  /\ \/ GetUsedSpaceSize < HeaderSize
     \/ /\ GetUsedSpaceSize >= HeaderSize
        /\ \E n \in HeaderSays : ~IsComplete(n)
  /\ pc' = IF short THEN "wait" ELSE "recv"
  /\ UNCHANGED <<peerVars, received, readBuffer, delivered, short>>

Worker == Read \/ Recv \/ RecvNothing \/ GetPacket \/ NoPacket

Next ==
  \/ \E n \in PacketSize : Send(n)
  \/ Arrive
  \/ Worker

Spec == Init /\ [][Next]_vars

\* The network delivers, and the worker runs.
FairSpec == Spec /\ WF_vars(Arrive) /\ WF_vars(Worker)

-----------------------------------------------------------------------------
Channel == INSTANCE PacketChannel

\* The session gets the packets whole, once and in order, however the network
\* cuts the stream into pieces and wherever the buffer wraps round or fills.
ImplementsChannel == Channel!Spec

\* Every packet that was sent gets to the session: none is left in the buffer
\* because nothing follows it.
EveryPacketArrives ==
  \A p \in 1..(MaxSent + BufferSize) :
    p \in DOMAIN packets ~>
      \E i \in 1..Len(delivered) : delivered[i][1] = p

\* The loop of Read has room to receive into; with a full buffer it would go
\* round for ever, since only it could make room.
NeverSpins == pc = "recv" => size > 0

-----------------------------------------------------------------------------
(* The inductive invariant.                                                *)

TypeOK ==
  /\ packets \in [DOMAIN packets -> PacketSize]
  /\ sent \in Nat /\ arrived \in 0..sent /\ received \in 0..arrived
  /\ readBuffer \in Seq(Nat) /\ Len(readBuffer) \in 0..BufferSize
  /\ delivered \in Seq(Seq(Nat))
  /\ pc \in {"wait", "recv", "onRead"}
  /\ short \in BOOLEAN

\* Bytes that have left the buffer.
taken == received - Len(readBuffer)

\* Each packet is followed by another one or by the end of the stream.
StreamOK ==
  /\ 1 \in DOMAIN packets \cup {sent + 1}
  /\ \A p \in DOMAIN packets :
       /\ p \in 1..sent /\ p + packets[p] <= sent + 1
       /\ p + packets[p] \in DOMAIN packets \cup {sent + 1}

\* The buffer holds what was received and not taken, in order.
BufferOK ==
  /\ taken >= 0
  /\ \A i \in 1..Len(readBuffer) : readBuffer[i] = taken + i

\* Packets were taken whole: the buffer starts with a header, the session has
\* everything before it.
AlignedOK ==
  /\ taken + 1 \in DOMAIN packets \cup {sent + 1}
  /\ Channel!After(delivered) = taken + 1

\* Outside onRead no complete packet is left in the buffer.
RestOK ==
  pc # "onRead" =>
    \/ Len(readBuffer) < HeaderSize
    \/ /\ taken + 1 \in DOMAIN packets
       /\ Len(readBuffer) < packets[taken + 1]

IInv == TypeOK /\ StreamOK /\ BufferOK /\ AlignedOK /\ RestOK
=============================================================================

------------------------ MODULE PacketReader_proofs ------------------------
(***************************************************************************)
(* Proofs about PacketReader, for every packet size that fits the buffer:  *)
(* packets reach the session whole, once and in order, and the loop of     *)
(* Read always has room to receive into.                                   *)
(***************************************************************************)
EXTENDS PacketReader, SequenceTheorems, TLAPS

USE ConstantsAssumption

\* A packet is at least a header long and fits the buffer.
LEMMA PacketFits ==
  \A m \in PacketSize : m \in Nat /\ 1 <= m /\ m <= BufferSize
  OBVIOUS

\* A stream of nothing, an empty buffer.
LEMMA InitIInv == Init => IInv
<1>. SUFFICES ASSUME Init PROVE IInv
  OBVIOUS
<1>0. /\ sent = 0 /\ arrived = 0 /\ received = 0 /\ pc = "wait"
      /\ readBuffer = <<>> /\ delivered = <<>>
      /\ packets = [p \in {} |-> 0] /\ short \in BOOLEAN
  BY Zenon DEF Init
<1>1. DOMAIN packets = {}
  BY <1>0, Zenon
<1>2. packets \in [DOMAIN packets -> PacketSize]
  BY <1>0
<1>3. Len(readBuffer) = 0
  BY <1>0
<1>4. taken = 0
  <2>1. received = 0
    BY <1>0, Zenon
  <2>2. taken = 0 - 0
    BY <2>1, <1>3, Zenon DEF taken
  <2>. QED
    BY <2>2
<1>5. TypeOK
  <2>1. delivered \in Seq(Seq(Nat)) /\ readBuffer \in Seq(Nat)
    BY <1>0
  <2>2. Len(readBuffer) \in 0..BufferSize
    BY <1>3
  <2>3. /\ sent \in Nat /\ arrived \in 0..sent /\ received \in 0..arrived
        /\ pc \in {"wait", "recv", "onRead"}
    BY <1>0
  <2>. QED
    BY <2>1, <2>2, <2>3, <1>0, <1>2, Zenon DEF TypeOK
<1>6. StreamOK
  BY <1>0, <1>1 DEF StreamOK
<1>7. BufferOK
  BY <1>3, <1>4 DEF BufferOK
<1>8. AlignedOK
  BY <1>0, <1>1, <1>4 DEF AlignedOK, Channel!After
<1>9. RestOK
  BY <1>3 DEF RestOK
<1>. QED
  BY <1>5, <1>6, <1>7, <1>8, <1>9 DEF IInv

\* A packet is added behind the last one.
LEMMA SendIInv ==
  ASSUME IInv, NEW n \in PacketSize, Send(n)
  PROVE  IInv'
<1>. USE DEF IInv, Send
<1>0. n \in Nat /\ n >= 1 /\ sent \in Nat
  BY DEF TypeOK
<1>1. TypeOK'
  BY <1>0 DEF TypeOK
<1>2. StreamOK'
  <2>1. \A p \in DOMAIN packets :
          p \in Nat /\ packets[p] \in Nat /\ packets[p] = packets'[p]
    <3>. SUFFICES ASSUME NEW p \in DOMAIN packets
                  PROVE  /\ p \in Nat /\ packets[p] \in Nat
                         /\ packets[p] = packets'[p]
      OBVIOUS
    <3>0. packets[p] \in PacketSize
      <4>1. packets \in [DOMAIN packets -> PacketSize]
        BY Zenon DEF TypeOK
      <4>. QED
        BY <4>1, Zenon
    <3>1. packets[p] \in PacketSize /\ p \in 1..sent
      BY <3>0 DEF StreamOK
    <3>2. packets[p] \in Nat
      BY <3>1, PacketFits, Zenon
    <3>3. packets[p] = packets'[p]
      <4>1. p # sent + 1
        BY <1>0, <3>1
      <4>. QED
        BY <4>1
    <3>. QED
      BY <1>0, <3>1, <3>2, <3>3
  <2>2. /\ DOMAIN packets' = DOMAIN packets \cup {sent + 1}
        /\ packets'[sent + 1] = n /\ sent' = sent + n
    OBVIOUS
  <2>3. 1 \in DOMAIN packets' \cup {sent' + 1}
    BY <2>2 DEF StreamOK
  <2>4. ASSUME NEW p \in DOMAIN packets'
        PROVE  /\ p \in 1..sent' /\ p + packets'[p] <= sent' + 1
               /\ p + packets'[p] \in DOMAIN packets' \cup {sent' + 1}
    <3>1. CASE p \in DOMAIN packets
      <4>1. /\ p \in 1..sent /\ p + packets[p] <= sent + 1
            /\ p + packets[p] \in DOMAIN packets \cup {sent + 1}
        BY <3>1 DEF StreamOK
      <4>. QED
        BY <1>0, <2>1, <2>2, <3>1, <4>1
    <3>2. CASE p = sent + 1
      BY <1>0, <2>2, <3>2
    <3>. QED
      BY <2>2, <3>1, <3>2
  <2>. QED
    BY <2>3, <2>4 DEF StreamOK
<1>3. BufferOK'
  BY DEF BufferOK, taken
<1>4. taken + 1 \in DOMAIN packets \cup {sent + 1}
      /\ \A p \in DOMAIN packets : p # sent + 1
  BY <1>0 DEF AlignedOK, StreamOK
<1>5. AlignedOK'
  BY <1>0, <1>4 DEF AlignedOK, taken, Channel!After
<1>6. RestOK'
  BY <1>0, <1>4 DEF RestOK, taken
<1>. QED
  BY <1>1, <1>2, <1>3, <1>5, <1>6

\* The steps that move no byte out of the socket or the buffer.
LEMMA QuietIInv ==
  ASSUME IInv, Arrive \/ Read \/ RecvNothing \/ UNCHANGED vars
  PROVE  IInv'
<1>. USE DEF IInv, vars, peerVars, Arrive, Read, RecvNothing
<1>1. TypeOK'
  BY DEF TypeOK
<1>2. StreamOK' /\ BufferOK' /\ AlignedOK'
  BY DEF StreamOK, BufferOK, AlignedOK, taken, Channel!After
<1>3. RestOK'
  BY DEF RestOK, taken
<1>. QED
  BY <1>1, <1>2, <1>3

\* What recv returns continues what is in the buffer.
LEMMA RecvIInv ==
  ASSUME IInv, Recv
  PROVE  IInv'
<1>. DEFINE len == MIN(size, arrived - received)
            block == [i \in 1..len |-> received + i]
<1>. USE DEF IInv, peerVars
<1>1. /\ len \in Nat /\ len > 0
      /\ received + len <= arrived
      /\ Len(readBuffer) + len <= BufferSize
      /\ received' = received + len
      /\ readBuffer' = readBuffer \o block
      /\ pc' = "onRead" /\ short' \in BOOLEAN
      /\ UNCHANGED <<packets, sent, arrived, delivered>>
  BY DEF Recv, Buffer!Put, TypeOK, MIN, size, GetFreeSpaceSize
<1>0. /\ received \in Nat /\ readBuffer \in Seq(Nat) /\ Len(readBuffer) \in Nat
      /\ taken \in Nat /\ received = taken + Len(readBuffer)
  BY DEF TypeOK, BufferOK, taken
<1>. HIDE DEF len
<1>2. block \in Seq(Nat) /\ Len(block) = len
  BY <1>0, <1>1
<1>3. /\ readBuffer' \in Seq(Nat) /\ Len(readBuffer') = Len(readBuffer) + len
      /\ \A i \in 1..Len(readBuffer') :
           readBuffer'[i] = IF i <= Len(readBuffer) THEN readBuffer[i]
                            ELSE block[i - Len(readBuffer)]
  BY <1>1, <1>2 DEF TypeOK
<1>4. taken' = taken
  BY <1>1, <1>3 DEF taken, TypeOK
<1>5. TypeOK'
  BY <1>1, <1>3 DEF TypeOK
<1>6. BufferOK'
  <2>. SUFFICES ASSUME NEW i \in 1..Len(readBuffer')
                PROVE  readBuffer'[i] = taken + i
    BY <1>0, <1>4 DEF BufferOK
  <2>0. i \in Nat /\ i >= 1 /\ i <= Len(readBuffer) + len
    BY <1>0, <1>1, <1>3
  <2>1. CASE i <= Len(readBuffer)
    <3>1. readBuffer[i] = taken + i
      BY <2>0, <2>1, <1>0 DEF BufferOK
    <3>. QED
      BY <2>0, <2>1, <3>1, <1>3
  <2>2. CASE i > Len(readBuffer)
    <3>1. i - Len(readBuffer) \in 1..len
      BY <2>0, <2>2, <1>0, <1>1
    <3>2. readBuffer'[i] = block[i - Len(readBuffer)]
      <4>1. ~(i <= Len(readBuffer))
        BY <2>0, <2>2, <1>0
      <4>. QED
        BY <4>1, <1>3
    <3>3. block[i - Len(readBuffer)] = received + (i - Len(readBuffer))
      BY <3>1
    <3>. QED
      BY <2>0, <3>2, <3>3, <1>0
  <2>. QED
    BY <2>0, <2>1, <2>2, <1>0
<1>7. StreamOK' /\ AlignedOK' /\ RestOK'
  BY <1>1, <1>4 DEF StreamOK, AlignedOK, RestOK, Channel!After
<1>. QED
  BY <1>5, <1>6, <1>7

-----------------------------------------------------------------------------
\* When the buffer holds a header, it is that of the packet which starts at
\* its front, and all the packet's bytes that are there follow.
LEMMA FrontIsPacket ==
  ASSUME IInv, GetUsedSpaceSize >= HeaderSize
  PROVE  /\ readBuffer[1] = taken + 1
         /\ taken + 1 \in DOMAIN packets
         /\ HeaderSays = {packets[taken + 1]}
         /\ packets[taken + 1] \in PacketSize
<1>1. Len(readBuffer) >= 1 /\ readBuffer[1] = taken + 1
  <2>1. Len(readBuffer) \in Nat /\ Len(readBuffer) >= 1 /\ taken \in Nat
    BY DEF IInv, TypeOK, BufferOK, GetUsedSpaceSize, taken
  <2>2. \A i \in 1..Len(readBuffer) : readBuffer[i] = taken + i
    BY DEF IInv, BufferOK
  <2>3. 1 \in 1..Len(readBuffer)
    BY <2>1
  <2>. QED
    BY <2>1, <2>2, <2>3
<1>2. taken + 1 # sent + 1
  BY <1>1 DEF IInv, TypeOK, taken
<1>3. taken + 1 \in DOMAIN packets
  BY <1>2 DEF IInv, AlignedOK
<1>. QED
  BY <1>1, <1>3 DEF HeaderSays, IInv, TypeOK

\* What getPacketFromReadBuffer does with it.
LEMMA GetPacketEffect ==
  ASSUME IInv, GetPacket
  PROVE  LET n == packets[taken + 1]
         IN  /\ n \in PacketSize /\ n \in Nat /\ 1 <= n /\ n <= Len(readBuffer)
             /\ readBuffer' = SubSeq(readBuffer, n + 1, Len(readBuffer))
             /\ SubSeq(readBuffer, 1, n) = Channel!Bytes(taken + 1, n)
             /\ delivered' = Append(delivered, Channel!Bytes(taken + 1, n))
<1>. DEFINE n == packets[taken + 1]
<1>1. /\ n \in PacketSize /\ n \in Nat /\ 1 <= n /\ n <= Len(readBuffer)
      /\ readBuffer' = SubSeq(readBuffer, n + 1, Len(readBuffer))
      /\ delivered' = Append(delivered, SubSeq(readBuffer, 1, n))
  <2>1. /\ GetUsedSpaceSize >= HeaderSize
        /\ \E m \in HeaderSays :
             /\ IsComplete(m) /\ Buffer!Take(m)
             /\ delivered' = Append(delivered, SubSeq(readBuffer, 1, m))
    BY DEF GetPacket
  <2>2. HeaderSays = {n} /\ n \in PacketSize
    BY <2>1, FrontIsPacket
  <2>3. /\ IsComplete(n) /\ Buffer!Take(n)
        /\ delivered' = Append(delivered, SubSeq(readBuffer, 1, n))
    BY <2>1, <2>2
  <2>4. n \in Nat /\ 1 <= n
    BY <2>2, PacketFits, Zenon
  <2>. HIDE DEF n
  <2>. QED
    BY <2>2, <2>3, <2>4 DEF IsComplete, GetUsedSpaceSize, Buffer!Take, IInv,
       TypeOK
<1>2. SubSeq(readBuffer, 1, n) = Channel!Bytes(taken + 1, n)
  <2>1. readBuffer \in Seq(Nat) /\ taken \in Nat
    BY DEF IInv, TypeOK, BufferOK, taken
  <2>2. SubSeq(readBuffer, 1, n) = [i \in 1..n |-> readBuffer[i]]
    BY <1>1, <2>1
  <2>3. \A i \in 1..n : readBuffer[i] = taken + 1 + i - 1
    BY <1>1, <2>1 DEF IInv, BufferOK
  <2>. QED
    BY <2>2, <2>3 DEF Channel!Bytes
<1>. QED
  BY <1>1, <1>2

\* A whole packet moves from the buffer to the session.
LEMMA GetPacketIInv ==
  ASSUME IInv, GetPacket
  PROVE  IInv'
<1>. DEFINE n == packets[taken + 1]
            packet == Channel!Bytes(taken + 1, n)
<1>0. /\ n \in Nat /\ 1 <= n /\ n <= Len(readBuffer)
      /\ readBuffer' = SubSeq(readBuffer, n + 1, Len(readBuffer))
      /\ delivered' = Append(delivered, packet)
  BY GetPacketEffect
<1>1. /\ pc = "onRead" /\ taken + 1 \in DOMAIN packets
      /\ UNCHANGED <<packets, sent, arrived, received, pc, short>>
  BY FrontIsPacket DEF GetPacket, peerVars
<1>2. /\ readBuffer \in Seq(Nat) /\ taken \in Nat /\ received \in Nat
      /\ delivered \in Seq(Seq(Nat)) /\ received = taken + Len(readBuffer)
      /\ Len(readBuffer) \in 0..BufferSize
  BY DEF IInv, TypeOK, BufferOK, taken
<1>. HIDE DEF n
<1>3. /\ readBuffer' \in Seq(Nat) /\ Len(readBuffer') = Len(readBuffer) - n
      /\ \A i \in 1..Len(readBuffer') : readBuffer'[i] = readBuffer[n + i]
  <2>1. n + 1 \in 1..(Len(readBuffer) + 1)
    BY <1>0, <1>2
  <2>. QED
    <3>1. /\ n + 1 \in Int /\ Len(readBuffer) \in Int
          /\ \A i \in (n + 1)..Len(readBuffer) : readBuffer[i] \in Nat
      <4>1. n \in Nat /\ Len(readBuffer) \in Nat /\ readBuffer \in Seq(Nat)
        BY <1>0, <1>2
      <4>2. \A i \in 1..Len(readBuffer) : readBuffer[i] \in Nat
        BY <4>1
      <4>3. (n + 1)..Len(readBuffer) \subseteq 1..Len(readBuffer)
        BY <4>1
      <4>. QED
        BY <4>1, <4>2, <4>3
    <3>2. /\ readBuffer' \in Seq(Nat)
          /\ Len(readBuffer') = IF n + 1 <= Len(readBuffer)
                                THEN Len(readBuffer) - (n + 1) + 1 ELSE 0
          /\ \A i \in 1..Len(readBuffer) - (n + 1) + 1 :
               readBuffer'[i] = readBuffer[n + 1 + i - 1]
      BY <3>1, <1>0, SubSeqProperties
    <3>. HIDE DEF n
    <3>3. Len(readBuffer') = Len(readBuffer) - n
      BY <1>0, <1>2, <3>2
    <3>4. ASSUME NEW i \in 1..Len(readBuffer')
          PROVE  readBuffer'[i] = readBuffer[n + i]
      <4>1. i \in 1..Len(readBuffer) - (n + 1) + 1 /\ n + 1 + i - 1 = n + i
        BY <3>3, <1>0, <1>2
      <4>. QED
        BY <4>1, <3>2
    <3>. QED
      BY <3>2, <3>3, <3>4
<1>4. taken' = taken + n
  <2>1. taken' = received' - Len(readBuffer')
    BY DEF taken
  <2>2. /\ received' = taken + Len(readBuffer)
        /\ Len(readBuffer') = Len(readBuffer) - n
    BY <1>1, <1>2, <1>3
  <2>3. taken \in Nat /\ Len(readBuffer) \in Nat /\ n \in Nat
    BY <1>0, <1>2
  <2>. HIDE DEF n
  <2>. QED
    BY <2>1, <2>2, <2>3
<1>5. packet \in Seq(Nat) /\ Len(packet) = n /\ packet[n] = taken + n
  BY <1>0, <1>2 DEF Channel!Bytes
<1>. HIDE DEF packet
<1>6. /\ delivered' \in Seq(Seq(Nat))
      /\ Len(delivered') = Len(delivered) + 1
      /\ delivered'[Len(delivered) + 1] = packet
  BY <1>0, <1>2, <1>5
<1>7. TypeOK'
  <2>1. Len(readBuffer') \in 0..BufferSize
    BY <1>0, <1>2, <1>3
  <2>. QED
    BY <2>1, <1>1, <1>3, <1>6 DEF IInv, TypeOK
<1>8. BufferOK'
  <2>. SUFFICES ASSUME NEW i \in 1..Len(readBuffer')
                PROVE  readBuffer'[i] = taken + n + i
    <3>1. taken' >= 0
      BY <1>0, <1>2, <1>4
    <3>. QED
      BY <3>1, <1>4 DEF BufferOK
  <2>1. n + i \in 1..Len(readBuffer)
    BY <1>0, <1>2, <1>3
  <2>2. readBuffer[n + i] = taken + (n + i)
    BY <2>1 DEF IInv, BufferOK
  <2>. QED
    BY <1>0, <1>2, <1>3, <2>2
<1>9. taken + 1 + n \in DOMAIN packets \cup {sent + 1}
  BY <1>1 DEF IInv, StreamOK, n
<1>10. AlignedOK'
  <2>1. delivered' # <<>>
    BY <1>2, <1>6
  <2>2. Channel!After(delivered)' = packet[Len(packet)] + 1
    BY <2>1, <1>6 DEF Channel!After
  <2>. QED
    BY <2>2, <1>0, <1>1, <1>2, <1>4, <1>5, <1>9 DEF AlignedOK
<1>11. StreamOK' /\ RestOK'
  BY <1>1 DEF IInv, StreamOK, RestOK
<1>. QED
  BY <1>7, <1>8, <1>10, <1>11 DEF IInv

\* onRead stops only when less than a packet is left.
LEMMA NoPacketIInv ==
  ASSUME IInv, NoPacket
  PROVE  IInv'
<1>. USE DEF IInv, NoPacket, peerVars
<1>1. TypeOK'
  BY DEF TypeOK
<1>2. StreamOK' /\ BufferOK' /\ AlignedOK'
  BY DEF StreamOK, BufferOK, AlignedOK, taken, Channel!After
<1>3. RestOK'
  <2>1. CASE Len(readBuffer) < HeaderSize
    BY <2>1 DEF RestOK
  <2>2. CASE GetUsedSpaceSize >= HeaderSize
    BY <2>2, FrontIsPacket DEF RestOK, IsComplete, GetUsedSpaceSize, TypeOK,
       taken
  <2>. QED
    BY <2>1, <2>2 DEF GetUsedSpaceSize, TypeOK
<1>. QED
  BY <1>1, <1>2, <1>3

-----------------------------------------------------------------------------
\* The inductive invariant holds in every reachable state: the buffer starts
\* with a header, holds the stream in order, and no complete packet is left
\* in it outside onRead.
THEOREM InvariantTheorem == Spec => []IInv
<1>1. IInv /\ [Next]_vars => IInv'
  BY SendIInv, QuietIInv, RecvIInv, GetPacketIInv, NoPacketIInv
     DEF Next, Worker
<1>. QED
  BY InitIInv, <1>1, PTL DEF Spec

\* Read never finds the buffer full: its loop always calls recv.
THEOREM NeverSpinsTheorem == Spec => []NeverSpins
<1>1. IInv => NeverSpins
  <2>. SUFFICES ASSUME IInv, pc = "recv" PROVE size > 0
    BY DEF NeverSpins
  <2>1. Len(readBuffer) \in Nat /\ Len(readBuffer) < BufferSize
    <3>1. CASE Len(readBuffer) < HeaderSize
      <4>1. taken + 1 \in DOMAIN packets \/ Len(readBuffer) = 0
        BY DEF IInv, TypeOK, AlignedOK, taken
      <4>2. CASE Len(readBuffer) = 0
        BY <4>2
      <4>3. CASE taken + 1 \in DOMAIN packets
        BY <3>1, <4>3 DEF IInv, TypeOK
      <4>. QED
        BY <4>1, <4>2, <4>3
    <3>2. CASE taken + 1 \in DOMAIN packets
               /\ Len(readBuffer) < packets[taken + 1]
      BY <3>2 DEF IInv, TypeOK
    <3>. QED
      BY <3>1, <3>2 DEF IInv, RestOK
  <2>. QED
    BY <2>1 DEF size, MIN, GetFreeSpaceSize
<1>. QED
  BY InvariantTheorem, <1>1, PTL

\* The session gets the packets the peer sent, whole, once and in order.
THEOREM ChannelTheorem == Spec => ImplementsChannel
<1>1. Init => Channel!Init
  BY DEF Init, Channel!Init
<1>2. IInv /\ [Next]_vars => [Channel!Next]_<<packets, sent, delivered>>
  <2>. SUFFICES ASSUME IInv, [Next]_vars
                PROVE  [Channel!Next]_<<packets, sent, delivered>>
    OBVIOUS
  <2>1. ASSUME NEW n \in PacketSize, Send(n) PROVE Channel!Next
    BY <2>1 DEF Send, Channel!Next, Channel!Send
  <2>2. CASE GetPacket
    <3>1. delivered' = Append(delivered,
                              Channel!Bytes(taken + 1, packets[taken + 1]))
      BY <2>2, GetPacketEffect
    <3>2. taken + 1 \in DOMAIN packets /\ UNCHANGED <<packets, sent>>
      BY <2>2, FrontIsPacket DEF GetPacket, peerVars
    <3>3. Channel!Deliver
      BY <3>1, <3>2 DEF Channel!Deliver, IInv, AlignedOK
    <3>. QED
      BY <3>3 DEF Channel!Next
  <2>3. CASE Arrive \/ Read \/ Recv \/ RecvNothing \/ NoPacket
             \/ UNCHANGED vars
    BY <2>3 DEF Arrive, Read, Recv, RecvNothing, NoPacket, vars, peerVars
  <2>. QED
    BY <2>1, <2>2, <2>3 DEF Next, Worker
<1>. QED
  BY InvariantTheorem, <1>1, <1>2, PTL DEF Spec, ImplementsChannel, Channel!Spec
=============================================================================

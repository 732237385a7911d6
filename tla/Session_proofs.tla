--------------------------- MODULE Session_proofs ---------------------------
(***************************************************************************)
(* Answers in order and packets with one owner, however many packets       *)
(* arrive, and whenever the session is killed.                             *)
(***************************************************************************)
EXTENDS Session, SequenceTheorems, TLAPS

Pc == {"check", "update", "lock", "loop", "handle", "delete", "pop", "deleted"}

TypeOK ==
  /\ packetList_ \in Seq(Nat)
  /\ sendBuffer_ \in Seq({SNetPacketA, SNetPacketB})
  /\ asked \in Seq(Request)
  /\ worker \in {"idle", "push", "gone"}
  /\ pc \in Pc /\ iter \in Nat

\* The packet that is at the front of the list, or would be: an answered one
\* stays there until it has been freed and popped.
First == IF pc \in {"delete", "pop"} THEN Len(sendBuffer_)
         ELSE Len(sendBuffer_) + 1

\* The newest one that has been pushed.
Last == IF worker = "push" THEN Len(asked) - 1 ELSE Len(asked)

\* The list holds the packets from the one to the other.
ListOK ==
  /\ Last \in Nat
  /\ First <= Last + 1
  /\ Len(packetList_) = Last + 1 - First
  /\ \A i \in 1..Len(packetList_) : packetList_[i] = First + i - 1

\* The iterator of update is at the front while a packet is worked on.
IterOK == pc \in {"handle", "delete", "pop"} => First <= Last /\ iter = First

\* Beside the packets in the list only the one the worker has is on the heap.
HeapOK == heap = (IF pc = "pop" THEN First + 1 ELSE First)..Len(asked)

AnswersOK ==
  \A i \in 1..Len(sendBuffer_) : sendBuffer_[i] = AnswerTo(asked[i])

\* The inductive invariant.
IInv == TypeOK /\ ListOK /\ IterOK /\ HeapOK /\ AnswersOK

-----------------------------------------------------------------------------
\* Server and client declare the same packets, and tell them apart.
LEMMA SamePackets ==
  /\ CNetPacketA = Client!CNetPacketA /\ CNetPacketB = Client!CNetPacketB
  /\ SNetPacketA = Client!SNetPacketA /\ SNetPacketB = Client!SNetPacketB
  /\ CNetPacketA.opcode_ = ENUM_OPCODE.CMSG_A
  /\ CNetPacketB.opcode_ = ENUM_OPCODE.CMSG_B
  /\ ENUM_OPCODE.CMSG_A # ENUM_OPCODE.CMSG_B
  BY DEF CNetPacketA, CNetPacketB, SNetPacketA, SNetPacketB, NetPacket,
     ENUM_OPCODE, Client!CNetPacketA, Client!CNetPacketB, Client!SNetPacketA,
     Client!SNetPacketB, Client!NetPacket, Client!CMSG_A, Client!CMSG_B,
     Client!SMSG_A, Client!SMSG_B

\* A new session has nothing to do.
LEMMA InitIInv == Init => IInv
  BY DEF Init, IInv, TypeOK, Pc, ListOK, First, Last, IterOK, HeapOK,
     AnswersOK, NULL

-----------------------------------------------------------------------------
(* The worker.                                                             *)

\* The new packet is the worker's, behind those in the list.
LEMMA GetPacketIInv == ASSUME IInv, GetPacket PROVE IInv'
<1>. USE DEF IInv, TypeOK
<1>1. PICK r \in Request : asked' = Append(asked, r)
  BY DEF GetPacket
<1>2. /\ Len(asked') = Len(asked) + 1
      /\ \A i \in 1..Len(asked) : asked'[i] = asked[i]
  BY <1>1
<1>3. TypeOK'
  BY <1>1 DEF GetPacket
<1>4. First' = First /\ Last' = Last
  BY <1>2 DEF GetPacket, First, Last
<1>5. ListOK' /\ IterOK'
  BY <1>4 DEF GetPacket, ListOK, IterOK
<1>6. HeapOK'
  <2>1. heap' = heap \cup {Len(asked) + 1}
    BY <1>2 DEF GetPacket
  <2>2. Last = Len(asked) /\ First \in Nat /\ pc' = pc
    BY DEF GetPacket, Last, First
  <2>. QED  BY <1>2, <1>4, <2>1, <2>2 DEF HeapOK, ListOK, IterOK
<1>7. Len(sendBuffer_) <= Len(asked)
  BY DEF ListOK, IterOK, First, Last
<1>8. AnswersOK'
  BY <1>2, <1>7 DEF GetPacket, AnswersOK
<1>. QED  BY <1>3, <1>5, <1>6, <1>8

\* The packet moves from the worker to the end of the list.
LEMMA PushPacketIInv == ASSUME IInv, PushPacket PROVE IInv'
<1>. USE DEF IInv, TypeOK
<1>1. TypeOK'
  BY DEF PushPacket
<1>2. /\ Last' = Last + 1 /\ Last' = Len(asked)
      /\ First' = First /\ First \in Nat
  BY DEF PushPacket, First, Last
<1>3. /\ Len(packetList_') = Len(packetList_) + 1
      /\ \A i \in 1..Len(packetList_) : packetList_'[i] = packetList_[i]
      /\ packetList_'[Len(packetList_) + 1] = Len(asked)
  BY DEF PushPacket
<1>4. ListOK'
  <2>1. \A i \in 1..Len(packetList_') : packetList_'[i] = First + i - 1
    BY <1>2, <1>3 DEF ListOK
  <2>. QED  BY <1>2, <1>3, <2>1 DEF ListOK
<1>5. IterOK' /\ HeapOK' /\ AnswersOK'
  BY <1>2 DEF IterOK, HeapOK, AnswersOK, ListOK, PushPacket, First
<1>. QED  BY <1>1, <1>4, <1>5

\* Killing the session moves no packet.
LEMMA KillIInv == ASSUME IInv, Kill PROVE IInv'
  BY DEF IInv, TypeOK, Kill, ListOK, IterOK, HeapOK, AnswersOK, First, Last

-----------------------------------------------------------------------------
(* The session thread.                                                     *)

\* Between two packets the thread only looks.
LEMMA LookIInv ==
  ASSUME IInv, CheckSession \/ UpdateSkipped \/ Update \/ Lock PROVE IInv'
  BY DEF IInv, TypeOK, Pc, CheckSession, UpdateSkipped, Update, Lock, ListOK,
     IterOK, HeapOK, AnswersOK, First, Last

\* The iterator is at the front of a list that is not empty.
LEMMA LoopIInv == ASSUME IInv, Loop PROVE IInv'
<1>. USE DEF IInv, TypeOK
<1>1. First' = First /\ Last' = Last
  BY DEF Loop, First, Last
<1>2. CASE HasPacket
  <2>1. Len(packetList_) > 0 /\ begin = packetList_[1]
    BY <1>2 DEF HasPacket, begin
  <2>2. First \in Nat
    BY DEF First
  <2>3. First <= Last /\ begin = First
    BY <2>1, <2>2 DEF ListOK
  <2>. QED
    BY <1>1, <1>2, <2>2, <2>3 DEF Loop, Pc, ListOK, IterOK, HeapOK, AnswersOK
<1>3. CASE ~HasPacket
  BY <1>1, <1>3 DEF Loop, Pc, ListOK, IterOK, HeapOK, AnswersOK
<1>. QED  BY <1>2, <1>3

\* The handler of the first packet that is not answered answers it.
LEMMA ProcessMsgIInv == ASSUME IInv, ProcessMsg PROVE IInv'
<1>. USE DEF IInv, TypeOK
<1>1. /\ First <= Last /\ iter = First /\ First = Len(sendBuffer_) + 1
      /\ Last <= Len(asked) /\ iter \in 1..Len(asked)
  BY DEF ProcessMsg, IterOK, ListOK, First, Last
<1>2. asked[iter] \in Request
  BY <1>1
<1>3. sendBuffer_' = Append(sendBuffer_, AnswerTo(asked[iter]))
  BY <1>2, SamePackets
     DEF ProcessMsg, ProcessCAMsg, ProcessCBMsg, AnswerTo, Request
<1>4. AnswerTo(asked[iter]) \in {SNetPacketA, SNetPacketB}
  BY SamePackets DEF AnswerTo
<1>5. /\ Len(sendBuffer_') = Len(sendBuffer_) + 1
      /\ \A i \in 1..Len(sendBuffer_) : sendBuffer_'[i] = sendBuffer_[i]
      /\ sendBuffer_'[Len(sendBuffer_) + 1] = AnswerTo(asked[iter])
  BY <1>3, <1>4
<1>6. TypeOK'
  BY <1>3, <1>4 DEF ProcessMsg, Pc
<1>7. First' = First /\ Last' = Last
  BY <1>1, <1>5 DEF ProcessMsg, First, Last
<1>8. ListOK' /\ IterOK' /\ HeapOK'
  BY <1>1, <1>7 DEF ProcessMsg, ListOK, IterOK, HeapOK
<1>9. AnswersOK'
  BY <1>1, <1>5 DEF ProcessMsg, AnswersOK
<1>. QED  BY <1>6, <1>8, <1>9

\* The packet that is freed is the lowest on the heap.
LEMMA DeleteIInv == ASSUME IInv, Delete PROVE IInv'
<1>. USE DEF IInv, TypeOK
<1>1. First' = First /\ Last' = Last /\ iter = First /\ First \in Nat
  BY DEF Delete, First, Last, IterOK
<1>2. HeapOK'
  BY <1>1 DEF Delete, HeapOK
<1>. QED
  BY <1>1, <1>2 DEF Delete, Pc, ListOK, IterOK, AnswersOK

\* What is popped has been answered and freed.
LEMMA PopFrontIInv == ASSUME IInv, PopFront PROVE IInv'
<1>. USE DEF IInv, TypeOK
<1>1. First' = First + 1 /\ Last' = Last /\ First \in Nat /\ First <= Last
  BY DEF PopFront, First, Last, IterOK
<1>2. Len(packetList_) > 0
  BY <1>1 DEF ListOK
<1>3. /\ packetList_' \in Seq(Nat)
      /\ Len(packetList_') = Len(packetList_) - 1
      /\ \A i \in 1..Len(packetList_') : packetList_'[i] = packetList_[i + 1]
  BY <1>2 DEF PopFront
<1>4. TypeOK'
  BY <1>3 DEF PopFront, Pc, NULL
<1>5. ListOK'
  BY <1>1, <1>3 DEF ListOK
<1>6. IterOK' /\ HeapOK' /\ AnswersOK'
  BY <1>1 DEF PopFront, IterOK, HeapOK, AnswersOK
<1>. QED  BY <1>4, <1>5, <1>6

\* Every step of either thread keeps the list between the packets that have
\* been answered and those that are still the worker's.
THEOREM InvariantTheorem == Spec => []IInv
<1>1. IInv /\ [Next]_vars => IInv'
  <2> SUFFICES ASSUME IInv, [Next]_vars PROVE IInv'
    OBVIOUS
  <2>1. CASE UNCHANGED vars
    BY <2>1 DEF vars, IInv, TypeOK, ListOK, IterOK, HeapOK, AnswersOK, First,
       Last
  <2>2. CASE Worker
    BY <2>2, GetPacketIInv, PushPacketIInv, KillIInv DEF Worker
  <2>3. CASE SessionThread
    BY <2>3, LookIInv, LoopIInv, ProcessMsgIInv, DeleteIInv, PopFrontIInv
       DEF SessionThread
  <2>. QED  BY <2>1, <2>2, <2>3 DEF Next
<1>. QED  BY <1>1, InitIInv, PTL DEF Spec

-----------------------------------------------------------------------------
(* What the invariant says of the properties of Session.                   *)

\* The answers are those to the packets, one each and in their order, whatever
\* worker and session thread do between two steps of each other.
THEOREM AnswersTheorem == Spec => []AnswersInOrder
<1>1. IInv => AnswersInOrder
  <2> SUFFICES ASSUME IInv PROVE AnswersInOrder
    OBVIOUS
  <2>. USE DEF IInv, TypeOK
  <2>1. Len(sendBuffer_) <= Len(asked)
    BY DEF ListOK, IterOK, First, Last
  <2>2. pc = "handle" => asked[iter] \in {CNetPacketA, CNetPacketB}
    <3>1. pc = "handle" => iter \in 1..Len(asked)
      BY DEF IterOK, ListOK, First, Last
    <3>. QED  BY <3>1, SamePackets DEF Request
  <2>. QED  BY <2>1, <2>2 DEF AnswersInOrder, AnswersOK
<1>. QED  BY <1>1, InvariantTheorem, PTL

\* What is on the heap is in the list or the worker's, once, and what a deleted
\* session leaves there is what it has not answered.
THEOREM HeapTheorem == Spec => []HeapIsOwned
<1>1. IInv => HeapIsOwned
  <2> SUFFICES ASSUME IInv PROVE HeapIsOwned
    OBVIOUS
  <2>. USE DEF IInv, TypeOK
  <2>1. First \in Nat /\ Last \in Nat /\ First <= Last + 1
    BY DEF ListOK, First
  <2>2. Listed = First..Last
    <3>1. \A i \in DOMAIN packetList_ : packetList_[i] \in First..Last
      BY <2>1 DEF ListOK
    <3>2. \A p \in First..Last :
            /\ p - First + 1 \in DOMAIN packetList_
            /\ packetList_[p - First + 1] = p
      BY <2>1 DEF ListOK
    <3>. QED  BY <3>1, <3>2 DEF Listed
  <2>3. Last..Len(asked) \ {Last} = InHand
    BY <2>1 DEF InHand, Last
  <2>4. heap = (Listed \ (IF pc = "pop" THEN {iter} ELSE {})) \cup InHand
    <3>1. CASE pc = "pop"
      BY <3>1, <2>1, <2>2 DEF HeapOK, IterOK, InHand, Last
    <3>2. CASE pc # "pop"
      BY <3>2, <2>1, <2>2 DEF HeapOK, InHand, Last
    <3>. QED  BY <3>1, <3>2
  <2>5. pc \in {"handle", "delete"} => iter \in heap
    BY <2>1 DEF HeapOK, IterOK, Last
  <2>6. pc = "deleted" => heap = (Len(sendBuffer_) + 1)..Len(asked)
    BY DEF HeapOK, First
  <2>. QED  BY <2>4, <2>5, <2>6 DEF HeapIsOwned
<1>. QED  BY <1>1, InvariantTheorem, PTL
=============================================================================

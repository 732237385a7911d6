------------------------------ MODULE Session -------------------------------
(***************************************************************************)
(* A Session between the two threads that use it: the worker that cuts     *)
(* packets from the stream and pushes them, and kills the session in the   *)
(* end, and the session thread that handles and frees them, and destroys   *)
(* the session.  A packet on the heap is named by its number in the stream.*)
(***************************************************************************)
EXTENDS Naturals, Sequences

CONSTANT MaxAsked  \* bound: how many packets arrive

ASSUME MaxAskedAssumption == MaxAsked \in Nat

VARIABLES
  state_,           \* "active" or "disable"
  mutex_,           \* update holds it
  packetList_,
  sendBuffer_,      \* the answers written into it so far
  asked,            \* the packets that have arrived
  heap,             \* those that are on the heap
  worker,           \* where the worker is: "idle", "push", "gone"
  pc, iter          \* where the session thread is, and its iterator

vars == <<state_, mutex_, packetList_, sendBuffer_, asked, heap, worker, pc,
          iter>>

\* Mutant: the opcodes are numbered with the server's own first.
ServerFirst == [SMSG_A |-> 0, SMSG_B |-> 1, CMSG_A |-> 2, CMSG_B |-> 3]

\* The packets as the server declares them, opcode_ and size_.
ENUM_OPCODE == [SMSG_A |-> 0, CMSG_A |-> 1, SMSG_B |-> 2, CMSG_B |-> 3]

NetPacket(opcode, n) == [opcode_ |-> ENUM_OPCODE[opcode], size_ |-> 4 + 4 + n]

SNetPacketA == NetPacket("SMSG_A", 16)
SNetPacketB == NetPacket("SMSG_B", 32)
CNetPacketA == NetPacket("CMSG_A", 16)
CNetPacketB == NetPacket("CMSG_B", 32)

\* What clients send, and the answers they know.
Client == INSTANCE TcpPackets

Request == {Client!CNetPacketA, Client!CNetPacketB}

NULL == 0
isActive == state_ = "active"

Init ==
  /\ state_ = "active" /\ mutex_ = FALSE
  /\ packetList_ = <<>> /\ sendBuffer_ = <<>>
  /\ asked = <<>> /\ heap = {}
  /\ worker = "idle"
  /\ pc = "check" /\ iter = NULL

-----------------------------------------------------------------------------
(* The worker.  It alone kills the session, so that isActive in onRead and *)
(* in Close cannot change under it.                                        *)

\* getPacketFromReadBuffer finds a packet and copies it to the heap.
GetPacket ==
  /\ worker = "idle" /\ isActive /\ Len(asked) < MaxAsked
  /\ \E r \in Request : asked' = Append(asked, r)
  /\ heap' = heap \cup {Len(asked')}
  /\ worker' = "push"
  /\ UNCHANGED <<state_, mutex_, packetList_, sendBuffer_, pc, iter>>

PushPacket ==
  /\ worker = "push" /\ ~mutex_
  /\ packetList_' = Append(packetList_, Len(asked))
  /\ worker' = "idle"
  /\ UNCHANGED <<state_, mutex_, sendBuffer_, asked, heap, pc, iter>>

\* Close.  The worker never comes back to this connection.
Kill ==
  /\ worker = "idle" /\ isActive
  /\ state_' = "disable"
  /\ worker' = "gone"
  /\ UNCHANGED <<mutex_, packetList_, sendBuffer_, asked, heap, pc, iter>>

Worker == GetPacket \/ PushPacket \/ Kill

-----------------------------------------------------------------------------
(* The session thread: checkSession and update of the manager, as far as   *)
(* they are about this session.                                            *)

\* checkSession, and the test in update of the manager: a session found
\* inactive by the one is deleted, one found so by the other is not updated.
CheckSession ==
  /\ pc = "check"
  /\ pc' = IF isActive THEN "update" ELSE "deleted"
  /\ UNCHANGED <<state_, mutex_, packetList_, sendBuffer_, asked, heap, worker,
                 iter>>

UpdateSkipped ==
  /\ pc = "update" /\ ~isActive
  /\ pc' = "check"
  /\ UNCHANGED <<state_, mutex_, packetList_, sendBuffer_, asked, heap, worker,
                 iter>>

\* Session::update.
Update ==
  /\ pc = "update" /\ isActive
  /\ pc' = "lock"
  /\ UNCHANGED <<state_, mutex_, packetList_, sendBuffer_, asked, heap, worker,
                 iter>>

Lock ==
  /\ pc = "lock"
  /\ mutex_' = TRUE
  /\ pc' = "loop"
  /\ UNCHANGED <<state_, packetList_, sendBuffer_, asked, heap, worker, iter>>

HasPacket == isActive /\ packetList_ # <<>>

begin == IF packetList_ = <<>> THEN NULL ELSE Head(packetList_)

\* Mutant: the mutex is not released at the end of the loop.
LoopKeepsLock ==
  /\ pc = "loop"
  /\ IF HasPacket
     THEN pc' = "handle" /\ iter' = begin
     ELSE pc' = "check" /\ UNCHANGED iter
  /\ UNCHANGED <<state_, mutex_, packetList_, sendBuffer_, asked, heap, worker>>

Loop ==
  /\ pc = "loop"
  /\ IF HasPacket
     THEN pc' = "handle" /\ iter' = begin /\ UNCHANGED mutex_
     ELSE pc' = "check" /\ mutex_' = FALSE /\ UNCHANGED iter
  /\ UNCHANGED <<state_, packetList_, sendBuffer_, asked, heap, worker>>

ProcessCAMsg ==
  /\ asked[iter].opcode_ = ENUM_OPCODE.CMSG_A
  /\ sendBuffer_' = Append(sendBuffer_, SNetPacketA)

ProcessCBMsg ==
  /\ asked[iter].opcode_ = ENUM_OPCODE.CMSG_B
  /\ sendBuffer_' = Append(sendBuffer_, SNetPacketB)

\* The handler of the packet's opcode writes its answer.
ProcessMsg ==
  /\ pc = "handle"
  /\ ProcessCAMsg \/ ProcessCBMsg
  /\ pc' = "delete"
  /\ UNCHANGED <<state_, mutex_, packetList_, asked, heap, worker, iter>>

\* Mutant: a packet is not freed if the session has been killed meanwhile.
DeleteIfActive ==
  /\ pc = "delete"
  /\ heap' = IF isActive THEN heap \ {iter} ELSE heap
  /\ pc' = "pop"
  /\ UNCHANGED <<state_, mutex_, packetList_, sendBuffer_, asked, worker, iter>>

Delete ==
  /\ pc = "delete"
  /\ heap' = heap \ {iter}
  /\ pc' = "pop"
  /\ UNCHANGED <<state_, mutex_, packetList_, sendBuffer_, asked, worker, iter>>

PopFront ==
  /\ pc = "pop"
  /\ packetList_' = Tail(packetList_)
  /\ pc' = "loop" /\ iter' = NULL
  /\ UNCHANGED <<state_, mutex_, sendBuffer_, asked, heap, worker>>

SessionThread ==
  \/ CheckSession \/ UpdateSkipped \/ Update \/ Lock \/ Loop \/ ProcessMsg
  \/ Delete \/ PopFront

Next == Worker \/ SessionThread

\* Both threads are scheduled, and the worker gets the mutex that update
\* releases again and again.
Spec ==
  /\ Init /\ [][Next]_vars
  /\ WF_vars(SessionThread) /\ SF_vars(PushPacket)

-----------------------------------------------------------------------------
(* Properties                                                              *)

AnswerTo(r) == IF r = Client!CNetPacketA THEN Client!SNetPacketA
               ELSE Client!SNetPacketB

\* The answers are those to the packets that have arrived, in their order, one
\* each, while worker and session thread work on the list in turns, and they
\* are what the client's own declarations expect.  What a handler casts to its
\* type of packet is one.
AnswersInOrder ==
  /\ Len(sendBuffer_) <= Len(asked)
  /\ \A i \in 1..Len(sendBuffer_) : sendBuffer_[i] = AnswerTo(asked[i])
  /\ pc = "handle" => asked[iter] \in {CNetPacketA, CNetPacketB}

Listed == {packetList_[i] : i \in DOMAIN packetList_}
InHand == IF worker = "push" THEN {Len(asked)} ELSE {}

\* What is on the heap has one owner, the list or the worker, so that it is
\* freed once and not used afterwards.  What a deleted session leaves behind is
\* what it has not answered: destroy frees the connection and no packet.
HeapIsOwned ==
  /\ heap = (Listed \ (IF pc = "pop" THEN {iter} ELSE {})) \cup InHand
  /\ pc \in {"handle", "delete"} => iter \in heap
  /\ pc = "deleted" => heap = (Len(sendBuffer_) + 1)..Len(asked)

\* Every packet is answered, unless the session is killed.
EveryPacketIsAnswered ==
  \A i \in 1..MaxAsked :
    Len(asked) >= i ~> Len(sendBuffer_) >= i \/ ~isActive
=============================================================================

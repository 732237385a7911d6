------------------------- MODULE EpollServer_proofs -------------------------
(***************************************************************************)
(* Proofs about EpollServer, for every number of connections, descriptor   *)
(* numbers, epolls and requests: IInv is inductive, one lemma for each     *)
(* action, and the safety properties follow from it.                       *)
(***************************************************************************)
EXTENDS EpollServer, TLAPS

USE ConstantsAssumption
    DEF IInv, Interest, Event, Mapped, kernelVars, dataVars, objectVars,
        sharedVars, listenerVars, workerVars, pushVars, sessionVars,
        threadVars, notListener, notWorker, notPush, notSession

\* The invariant holds before the first connection.
LEMMA InitIInv == Init => IInv
  BY DEF Init, Epoll, TypeOK, ObjectsOK, ConnectionsOK, RegistrationsOK,
         CurrentOK, ClosingOK, BatchOK, PushOK, ListenerOK, SessionsOK,
         ReadLocksOK, SizeStillThere

\* It mentions no state but the variables.
LEMMA StutterIInv ==
  ASSUME IInv, UNCHANGED vars
  PROVE  IInv'
<1>1. (TypeOK /\ ObjectsOK /\ ConnectionsOK /\ RegistrationsOK)'
  BY DEF vars, TypeOK, ObjectsOK, ConnectionsOK, RegistrationsOK
<1>2. (CurrentOK /\ ClosingOK /\ BatchOK /\ PushOK /\ ListenerOK)'
  BY DEF vars, CurrentOK, ClosingOK, BatchOK, PushOK, ListenerOK
<1>3. (SessionsOK /\ ReadLocksOK /\ SizeStillThere)'
  BY DEF vars, SessionsOK, ReadLocksOK, SizeStillThere
<1>. QED
  BY <1>1, <1>2, <1>3

-----------------------------------------------------------------------------
(* What the invariant says of the connection a thread works on.            *)

\* A worker inside its loop has a live connection of its own epoll in hand.
LEMMA CurrentFacts ==
  ASSUME IInv, NEW e \in Epoll, wpc[e] # "next"
  PROVE  /\ wcur[e] \in Conn
         /\ active[wcur[e]]
         /\ sock[wcur[e]] \in Fd
         /\ epollFd[wcur[e]] = e
  BY DEF TypeOK, ObjectsOK, CurrentOK

\* The connection the push thread works on is live and in the map.
LEMMA PushFacts ==
  ASSUME IInv, ppc \notin {"idle", "scan"}
  PROVE  /\ pcur \in Conn
         /\ active[pcur]
         /\ sock[pcur] \in Fd
         /\ epollFd[pcur] \in Epoll
         /\ connections[sock[pcur]] = pcur
  BY DEF TypeOK, ConnectionsOK, PushOK

\* Changing one entry of a table of rows.
LEMMA UpdateEntry ==
  ASSUME NEW S, NEW T, NEW V, NEW table \in [S -> [T -> V]],
         NEW s \in S, NEW t \in T, NEW v \in V
  PROVE  LET new == [table EXCEPT ![s][t] = v]
         IN  /\ new \in [S -> [T -> V]]
             /\ \A x \in S, y \in T :
                  new[x][y] = IF x = s /\ y = t THEN v ELSE table[x][y]
<1>. DEFINE row == [table[s] EXCEPT ![t] = v]
<1>1. row \in [T -> V]
  OBVIOUS
<1>2. [table EXCEPT ![s] = row] \in [S -> [T -> V]]
  BY <1>1
<1>. QED
  BY <1>1, <1>2

\* Rearming touches one registration at most, an existing one, and makes it
\* point to the connection that rearms.
LEMMA RearmEffect ==
  ASSUME IInv, NEW c \in Conn, epollFd[c] \in Epoll, sock[c] \in Fd, Rearm(c)
  PROVE  /\ watched' \in [Epoll -> [Fd -> Conn \cup {None}]]
         /\ mask' \in [Epoll -> [Fd -> SUBSET Interest]]
         /\ \A e \in Epoll, f \in Fd :
              \/ watched'[e][f] = watched[e][f] /\ mask'[e][f] = mask[e][f]
              \/ /\ e = epollFd[c] /\ f = sock[c]
                 /\ watched[e][f] # None /\ watched'[e][f] = c
<1>1. CASE ModSucceeds(c)
  <2>1. /\ watched' = [watched EXCEPT ![epollFd[c]][sock[c]] = c]
        /\ mask' = [mask EXCEPT ![epollFd[c]][sock[c]] = epollEvent[c]]
        /\ watched[epollFd[c]][sock[c]] # None
    BY <1>1 DEF Rearm, ModSucceeds
  <2>2. /\ watched \in [Epoll -> [Fd -> Conn \cup {None}]]
        /\ mask \in [Epoll -> [Fd -> SUBSET Interest]]
        /\ epollEvent[c] \in SUBSET Interest
    BY DEF TypeOK
  <2>3. /\ watched' \in [Epoll -> [Fd -> Conn \cup {None}]]
        /\ \A e \in Epoll, f \in Fd :
             watched'[e][f] = IF e = epollFd[c] /\ f = sock[c]
                                THEN c ELSE watched[e][f]
    BY <2>1, <2>2, UpdateEntry
  <2>4. /\ mask' \in [Epoll -> [Fd -> SUBSET Interest]]
        /\ \A e \in Epoll, f \in Fd :
             mask'[e][f] = IF e = epollFd[c] /\ f = sock[c]
                             THEN epollEvent[c] ELSE mask[e][f]
    BY <2>1, <2>2, UpdateEntry
  <2>. QED
    BY <2>1, <2>3, <2>4
<1>2. CASE ~ModSucceeds(c)
  BY <1>2 DEF Rearm, TypeOK
<1>. QED
  BY <1>1, <1>2

\* A step of a worker that is not between close and kill, and changes nobody
\* else's place, keeps ClosingOK.
LEMMA ClosingFrame ==
  ASSUME IInv, NEW e \in Epoll, wpc[e] \notin {"remove", "kill"},
         \A d \in Epoll \ {e} : wpc'[d] = wpc[d] /\ wcur'[d] = wcur[d],
         UNCHANGED <<fdTable, sock, active>>
  PROVE  ClosingOK'
<1>. SUFFICES ASSUME NEW c \in Conn, active[c], fdTable[sock[c]] # c
              PROVE  \E d \in Epoll : /\ wpc'[d] \in {"remove", "kill"}
                                      /\ wcur'[d] = c
  BY DEF ClosingOK
<1>1. PICK d \in Epoll : wpc[d] \in {"remove", "kill"} /\ wcur[d] = c
  BY DEF ClosingOK
<1>. QED
  BY <1>1

-----------------------------------------------------------------------------
(* The peers.                                                              *)

\* A request only adds to a receive queue.
LEMMA AskIInv ==
  ASSUME IInv, NEW c \in Conn, Ask(c)
  PROVE  IInv'
<1>1. TypeOK'
  BY DEF Ask, TypeOK
<1>2. (ObjectsOK /\ ConnectionsOK /\ RegistrationsOK /\ CurrentOK /\
      ClosingOK /\ BatchOK /\ PushOK /\ ListenerOK /\ SessionsOK /\
      ReadLocksOK /\ SizeStillThere)'
  BY DEF Ask, ObjectsOK, ConnectionsOK, RegistrationsOK, CurrentOK, ClosingOK,
     BatchOK, PushOK, ListenerOK, SessionsOK, ReadLocksOK, SizeStillThere
<1>. QED
  BY <1>1, <1>2

\* A hang-up is not seen by the server before the next event.
LEMMA HangupIInv ==
  ASSUME IInv, NEW c \in Conn, Hangup(c)
  PROVE  IInv'
<1>1. TypeOK'
  BY DEF Hangup, TypeOK
<1>2. (ObjectsOK /\ ConnectionsOK /\ RegistrationsOK /\ CurrentOK /\
      ClosingOK /\ BatchOK /\ PushOK /\ ListenerOK /\ SessionsOK /\
      ReadLocksOK /\ SizeStillThere)'
  BY DEF Hangup, ObjectsOK, ConnectionsOK, RegistrationsOK, CurrentOK,
     ClosingOK, BatchOK, PushOK, ListenerOK, SessionsOK, ReadLocksOK,
     SizeStillThere
<1>. QED
  BY <1>1, <1>2

-----------------------------------------------------------------------------
(* The listener.                                                           *)

\* A number that is given out had no socket, so nothing but a connection
\* between close and kill still remembers it.
LEMMA AcceptIInv ==
  ASSUME IInv, NEW c \in Conn, NEW f \in Fd, Accept(c, f)
  PROVE  IInv'
<1>1. TypeOK'
  BY DEF Accept, TypeOK
<1>2. ObjectsOK'
  BY DEF Accept, TypeOK, ObjectsOK
<1>3. ConnectionsOK'
  BY DEF Accept, TypeOK, ConnectionsOK, ObjectsOK
<1>4. RegistrationsOK'
  BY DEF Accept, TypeOK, RegistrationsOK, ObjectsOK
<1>5. CurrentOK'
  BY DEF Accept, TypeOK, CurrentOK, ObjectsOK
<1>6. ClosingOK'
  BY DEF Accept, TypeOK, ClosingOK
<1>7. BatchOK'
  BY DEF Accept, TypeOK, BatchOK
<1>8. PushOK'
  BY DEF Accept, TypeOK, PushOK, ConnectionsOK, ObjectsOK
<1>9. ListenerOK'
  BY DEF Accept, TypeOK, ListenerOK, ObjectsOK, SessionsOK
<1>10. SessionsOK'
  BY DEF Accept, SessionsOK
<1>11. (ReadLocksOK /\ SizeStillThere)'
  BY DEF Accept, ReadLocksOK, SizeStillThere
<1>. QED
  BY <1>1, <1>2, <1>3, <1>4, <1>5, <1>6, <1>7, <1>8, <1>9, <1>10, <1>11

\* The session thread gets a session it cannot have met before.
LEMMA AddSessionIInv ==
  ASSUME IInv, AddSession
  PROVE  IInv'
<1>1. TypeOK'
  BY DEF AddSession, enqueue, TypeOK, ListenerOK
<1>2. ListenerOK'
  BY DEF AddSession, enqueue, ListenerOK
<1>3. SessionsOK'
  BY DEF AddSession, enqueue, TypeOK, SessionsOK, ListenerOK, ObjectsOK
<1>4. (ObjectsOK /\ ConnectionsOK /\ RegistrationsOK /\ CurrentOK /\
      ClosingOK /\ BatchOK /\ PushOK /\ ReadLocksOK /\ SizeStillThere)'
  BY DEF AddSession, enqueue, ObjectsOK, ConnectionsOK, RegistrationsOK,
     CurrentOK, ClosingOK, BatchOK, PushOK, ReadLocksOK, SizeStillThere
<1>. QED
  BY <1>1, <1>2, <1>3, <1>4

\* Map and registration get a connection that owns its number; what is in
\* the way is an entry of the predecessor that is just being removed.
LEMMA AddConnectionIInv ==
  ASSUME IInv, AddConnection
  PROVE  IInv'
<1>1. TypeOK'
  <2>1. lcur \in Conn /\ sock[lcur] \in Fd
    BY DEF AddConnection, Regist, TypeOK, ObjectsOK, ListenerOK
  <2>2. iocpIndex' \in Epoll
    BY DEF AddConnection, Regist, TypeOK, Epoll
  <2>3. /\ [watched EXCEPT ![iocpIndex][sock[lcur]] = lcur]
              \in [Epoll -> [Fd -> Conn \cup {None}]]
        /\ [mask EXCEPT ![iocpIndex][sock[lcur]] = {"IN"}]
              \in [Epoll -> [Fd -> SUBSET Interest]]
    BY <2>1, UpdateEntry DEF TypeOK
  <2>4. /\ watched' \in [Epoll -> [Fd -> Conn \cup {None}]]
        /\ mask' \in [Epoll -> [Fd -> SUBSET Interest]]
    BY <2>3 DEF AddConnection, Regist, TypeOK
  <2>. QED
    BY <2>1, <2>2, <2>4 DEF AddConnection, Regist, TypeOK
<1>2. ObjectsOK'
  BY DEF AddConnection, Regist, MutexFree, TypeOK, ObjectsOK, ListenerOK
<1>3. ConnectionsOK'
  BY DEF AddConnection, Regist, MutexFree, TypeOK, ConnectionsOK, ListenerOK,
     ObjectsOK
<1>4. RegistrationsOK'
  <2>1. /\ lcur \in Conn /\ sock[lcur] \in Fd /\ active[lcur]
        /\ fdTable[sock[lcur]] = lcur /\ epollFd[lcur] = None
    BY DEF AddConnection, Regist, TypeOK, ObjectsOK, ListenerOK
  <2>2. ASSUME NEW e \in Epoll, NEW f \in Fd
        PROVE  \/ watched'[e][f] = watched[e][f] /\ mask'[e][f] = mask[e][f]
               \/ e = iocpIndex /\ f = sock[lcur] /\ watched'[e][f] = lcur
    BY <2>1 DEF AddConnection, Regist, TypeOK
  <2>. QED
    BY <2>1, <2>2 DEF AddConnection, Regist, TypeOK, RegistrationsOK
<1>5. CurrentOK'
  BY DEF AddConnection, Regist, MutexFree, TypeOK, CurrentOK, ListenerOK,
     ObjectsOK
<1>6. BatchOK'
  BY DEF AddConnection, Regist, MutexFree, TypeOK, BatchOK, ListenerOK,
     ObjectsOK
<1>7. PushOK'
  BY DEF AddConnection, Regist, MutexFree, PushOK
<1>8. ListenerOK'
  BY DEF AddConnection, Regist, MutexFree, ListenerOK
<1>9. (ClosingOK /\ SessionsOK /\ ReadLocksOK /\ SizeStillThere)'
  BY DEF AddConnection, Regist, ClosingOK, SessionsOK, ReadLocksOK,
     SizeStillThere
<1>. QED
  BY <1>1, <1>2, <1>3, <1>4, <1>5, <1>6, <1>7, <1>8, <1>9

-----------------------------------------------------------------------------
(* The workers.                                                            *)

\* A batch is made of registrations of this epoll, each of which points to a
\* connection that is not in hand.
LEMMA EpollWaitIInv ==
  ASSUME IInv, NEW e \in Epoll, EpollWait(e)
  PROVE  IInv'
<1>1. TypeOK'
  BY DEF EpollWait, Ready, Reportable, TypeOK, RegistrationsOK
<1>2. RegistrationsOK'
  BY DEF EpollWait, Ready, Reportable, RegistrationsOK
<1>3. BatchOK'
  BY DEF EpollWait, Ready, Reportable, TypeOK, BatchOK, RegistrationsOK,
     ObjectsOK, CurrentOK
<1>4. (ObjectsOK /\ ConnectionsOK /\ CurrentOK /\ ClosingOK /\ PushOK /\
      ListenerOK /\ SessionsOK /\ ReadLocksOK /\ SizeStillThere)'
  BY DEF EpollWait, ObjectsOK, ConnectionsOK, CurrentOK, ClosingOK, PushOK,
     ListenerOK, SessionsOK, ReadLocksOK, SizeStillThere
<1>. QED
  BY <1>1, <1>2, <1>3, <1>4

\* From the batch to the hand: still a connection with a socket of its own.
LEMMA NextEventIInv ==
  ASSUME IInv, NEW e \in Epoll, NextEvent(e)
  PROVE  IInv'
<1>1. TypeOK'
  BY DEF NextEvent, TypeOK
<1>2. RegistrationsOK'
  BY DEF NextEvent, RegistrationsOK
<1>3. CurrentOK'
  BY DEF NextEvent, TypeOK, CurrentOK, BatchOK, ObjectsOK
<1>4. ClosingOK'
  <2>1. /\ wpc[e] \notin {"remove", "kill"}
        /\ \A d \in Epoll \ {e} : wpc'[d] = wpc[d] /\ wcur'[d] = wcur[d]
        /\ UNCHANGED <<fdTable, sock, active>>
    BY DEF NextEvent, TypeOK
  <2>. QED
    BY <2>1, ClosingFrame
<1>5. BatchOK'
  BY DEF NextEvent, TypeOK, BatchOK
<1>6. ReadLocksOK'
  BY DEF NextEvent, ReadLocksOK
<1>7. SizeStillThere'
  BY DEF NextEvent, SizeStillThere
<1>8. (ObjectsOK /\ ConnectionsOK /\ PushOK /\ ListenerOK /\ SessionsOK)'
  BY DEF NextEvent, ObjectsOK, ConnectionsOK, PushOK, ListenerOK, SessionsOK
<1>. QED
  BY <1>1, <1>2, <1>3, <1>4, <1>5, <1>6, <1>7, <1>8

\* The read lock is taken by the worker that goes on to recv.
LEMMA ReadLockIInv ==
  ASSUME IInv, NEW e \in Epoll, ReadLock(e)
  PROVE  IInv'
<1>1. TypeOK'
  BY DEF ReadLock, AfterRead, Outcome, TypeOK, CurrentOK
<1>2. RegistrationsOK'
  BY DEF ReadLock, AfterRead, Outcome, RegistrationsOK
<1>3. CurrentOK'
  BY DEF ReadLock, AfterRead, Outcome, CurrentOK
<1>4. ClosingOK'
  BY ClosingFrame DEF ReadLock, AfterRead, Outcome, TypeOK
<1>5. ReadLocksOK'
  BY DEF ReadLock, AfterRead, Outcome, TypeOK, ReadLocksOK
<1>6. SizeStillThere'
  BY DEF ReadLock, AfterRead, Outcome, SizeStillThere
<1>7. (ObjectsOK /\ ConnectionsOK /\ BatchOK /\ PushOK /\ ListenerOK /\
      SessionsOK)'
  BY DEF ReadLock, ObjectsOK, ConnectionsOK, BatchOK, PushOK, ListenerOK,
     SessionsOK
<1>. QED
  BY <1>1, <1>2, <1>3, <1>4, <1>5, <1>6, <1>7

\* Reading moves requests from the socket to the session.
LEMMA RecvIInv ==
  ASSUME IInv, NEW e \in Epoll, Recv(e)
  PROVE  IInv'
<1>1. TypeOK'
  BY DEF Recv, AfterRead, Outcome, Updating, TypeOK, CurrentOK
<1>2. RegistrationsOK'
  BY DEF Recv, AfterRead, Outcome, Updating, RegistrationsOK
<1>3. CurrentOK'
  BY DEF Recv, AfterRead, Outcome, Updating, CurrentOK
<1>4. ClosingOK'
  <2>1. /\ wpc[e] \notin {"remove", "kill"}
        /\ \A d \in Epoll \ {e} : wpc'[d] = wpc[d] /\ wcur'[d] = wcur[d]
        /\ UNCHANGED <<fdTable, sock, active>>
    BY DEF Recv, TypeOK
  <2>. QED
    BY <2>1, ClosingFrame
<1>5. ReadLocksOK'
  BY DEF Recv, AfterRead, Outcome, Updating, TypeOK, ReadLocksOK
<1>6. SizeStillThere'
  BY DEF Recv, AfterRead, Outcome, Updating, SizeStillThere
<1>7. (ObjectsOK /\ ConnectionsOK /\ BatchOK /\ PushOK /\ ListenerOK /\
      SessionsOK)'
  BY DEF Recv, ObjectsOK, ConnectionsOK, BatchOK, PushOK, ListenerOK,
     SessionsOK
<1>. QED
  BY <1>1, <1>2, <1>3, <1>4, <1>5, <1>6, <1>7

\* Read ends with the read lock released.
LEMMA RecvNothingIInv ==
  ASSUME IInv, NEW e \in Epoll, RecvNothing(e)
  PROVE  IInv'
<1>1. TypeOK'
  BY DEF RecvNothing, AfterRead, Outcome, TypeOK, CurrentOK
<1>2. RegistrationsOK'
  BY DEF RecvNothing, AfterRead, Outcome, RegistrationsOK
<1>3. CurrentOK'
  BY DEF RecvNothing, AfterRead, Outcome, CurrentOK
<1>4. ClosingOK'
  <2>1. /\ wpc[e] \notin {"remove", "kill"}
        /\ \A d \in Epoll \ {e} : wpc'[d] = wpc[d] /\ wcur'[d] = wcur[d]
        /\ UNCHANGED <<fdTable, sock, active>>
    BY DEF RecvNothing, TypeOK
  <2>. QED
    BY <2>1, ClosingFrame
<1>5. ReadLocksOK'
  BY DEF RecvNothing, AfterRead, Outcome, TypeOK, ReadLocksOK
<1>6. SizeStillThere'
  BY DEF RecvNothing, AfterRead, Outcome, SizeStillThere
<1>7. (ObjectsOK /\ ConnectionsOK /\ BatchOK /\ PushOK /\ ListenerOK /\
      SessionsOK)'
  BY DEF RecvNothing, ObjectsOK, ConnectionsOK, BatchOK, PushOK, ListenerOK,
     SessionsOK
<1>. QED
  BY <1>1, <1>2, <1>3, <1>4, <1>5, <1>6, <1>7

\* The size read is the size there is.
LEMMA WriteSizeIInv ==
  ASSUME IInv, NEW e \in Epoll, WriteSize(e)
  PROVE  IInv'
<1>1. TypeOK'
  BY DEF WriteSize, TypeOK, CurrentOK
<1>2. RegistrationsOK'
  BY DEF WriteSize, RegistrationsOK
<1>3. CurrentOK'
  BY DEF WriteSize, CurrentOK
<1>4. ClosingOK'
  BY ClosingFrame DEF WriteSize, TypeOK
<1>5. ReadLocksOK'
  BY DEF WriteSize, ReadLocksOK
<1>6. SizeStillThere'
  BY DEF WriteSize, TypeOK, SizeStillThere, CurrentOK
<1>7. (ObjectsOK /\ ConnectionsOK /\ BatchOK /\ PushOK /\ ListenerOK /\
      SessionsOK)'
  BY DEF WriteSize, ObjectsOK, ConnectionsOK, BatchOK, PushOK, ListenerOK,
     SessionsOK
<1>. QED
  BY <1>1, <1>2, <1>3, <1>4, <1>5, <1>6, <1>7

\* No other worker takes from this send buffer.
LEMMA SendIInv ==
  ASSUME IInv, NEW e \in Epoll, Send(e)
  PROVE  IInv'
<1>1. TypeOK'
  <2>1. sendBuffer' \in [Conn -> Nat]
    BY CurrentFacts DEF Send, RemoveSendData, TypeOK, SizeStillThere
  <2>. QED
    BY <2>1, CurrentFacts DEF Send, RemoveSendData, TypeOK
<1>2. RegistrationsOK'
  BY DEF Send, RemoveSendData, RegistrationsOK
<1>3. CurrentOK'
  BY DEF Send, RemoveSendData, CurrentOK
<1>4. ClosingOK'
  BY ClosingFrame DEF Send, RemoveSendData, TypeOK
<1>5. ReadLocksOK'
  BY DEF Send, RemoveSendData, ReadLocksOK
<1>6. SizeStillThere'
  BY DEF Send, RemoveSendData, TypeOK, SizeStillThere, CurrentOK
<1>7. (ObjectsOK /\ ConnectionsOK /\ BatchOK /\ PushOK /\ ListenerOK /\
      SessionsOK)'
  BY DEF Send, RemoveSendData, ObjectsOK, ConnectionsOK, BatchOK, PushOK,
     ListenerOK, SessionsOK
<1>. QED
  BY <1>1, <1>2, <1>3, <1>4, <1>5, <1>6, <1>7

\* Nothing was sent, nothing is taken.
LEMMA SendAgainIInv ==
  ASSUME IInv, NEW e \in Epoll, SendAgain(e)
  PROVE  IInv'
<1>1. TypeOK'
  BY DEF SendAgain, TypeOK, CurrentOK
<1>2. RegistrationsOK'
  BY DEF SendAgain, RegistrationsOK
<1>3. CurrentOK'
  BY DEF SendAgain, CurrentOK
<1>4. ClosingOK'
  BY ClosingFrame DEF SendAgain, TypeOK
<1>5. ReadLocksOK'
  BY DEF SendAgain, ReadLocksOK
<1>6. SizeStillThere'
  BY DEF SendAgain, TypeOK, SizeStillThere
<1>7. (ObjectsOK /\ ConnectionsOK /\ BatchOK /\ PushOK /\ ListenerOK /\
      SessionsOK)'
  BY DEF SendAgain, ObjectsOK, ConnectionsOK, BatchOK, PushOK, ListenerOK,
     SessionsOK
<1>. QED
  BY <1>1, <1>2, <1>3, <1>4, <1>5, <1>6, <1>7

\* After an error the worker turns to Close.
LEMMA SendFailsIInv ==
  ASSUME IInv, NEW e \in Epoll, SendFails(e)
  PROVE  IInv'
<1>1. TypeOK'
  BY DEF SendFails, TypeOK
<1>2. RegistrationsOK'
  BY DEF SendFails, RegistrationsOK
<1>3. CurrentOK'
  BY DEF SendFails, CurrentOK
<1>4. ClosingOK'
  BY ClosingFrame DEF SendFails, TypeOK
<1>5. ReadLocksOK'
  BY DEF SendFails, ReadLocksOK
<1>6. SizeStillThere'
  BY DEF SendFails, TypeOK, SizeStillThere
<1>7. (ObjectsOK /\ ConnectionsOK /\ BatchOK /\ PushOK /\ ListenerOK /\
      SessionsOK)'
  BY DEF SendFails, ObjectsOK, ConnectionsOK, BatchOK, PushOK, ListenerOK,
     SessionsOK
<1>. QED
  BY <1>1, <1>2, <1>3, <1>4, <1>5, <1>6, <1>7

\* Releasing the write lock moves no pointer.
LEMMA WriteReleaseIInv ==
  ASSUME IInv, NEW e \in Epoll, WriteRelease(e)
  PROVE  IInv'
<1>1. TypeOK'
  BY DEF WriteRelease, Outcome, TypeOK, CurrentOK
<1>2. RegistrationsOK'
  BY DEF WriteRelease, Outcome, RegistrationsOK
<1>3. CurrentOK'
  BY DEF WriteRelease, Outcome, CurrentOK
<1>4. ClosingOK'
  BY ClosingFrame DEF WriteRelease, Outcome, TypeOK
<1>5. ReadLocksOK'
  BY DEF WriteRelease, Outcome, ReadLocksOK
<1>6. SizeStillThere'
  BY DEF WriteRelease, Outcome, SizeStillThere
<1>7. (ObjectsOK /\ ConnectionsOK /\ BatchOK /\ PushOK /\ ListenerOK /\
      SessionsOK)'
  BY DEF WriteRelease, ObjectsOK, ConnectionsOK, BatchOK, PushOK, ListenerOK,
     SessionsOK
<1>. QED
  BY <1>1, <1>2, <1>3, <1>4, <1>5, <1>6, <1>7

\* The events are stored in an object that is live.
LEMMA WorkerStoreIInv ==
  ASSUME IInv, NEW e \in Epoll, WorkerStore(e)
  PROVE  IInv'
<1>1. TypeOK'
  BY DEF WorkerStore, TypeOK, CurrentOK
<1>2. RegistrationsOK'
  BY DEF WorkerStore, RegistrationsOK
<1>3. CurrentOK'
  BY DEF WorkerStore, CurrentOK
<1>4. ClosingOK'
  BY ClosingFrame DEF WorkerStore, TypeOK
<1>5. ReadLocksOK'
  BY DEF WorkerStore, ReadLocksOK
<1>6. SizeStillThere'
  BY DEF WorkerStore, SizeStillThere
<1>7. (ObjectsOK /\ ConnectionsOK /\ BatchOK /\ PushOK /\ ListenerOK /\
      SessionsOK)'
  BY DEF WorkerStore, ObjectsOK, ConnectionsOK, BatchOK, PushOK, ListenerOK,
     SessionsOK
<1>. QED
  BY <1>1, <1>2, <1>3, <1>4, <1>5, <1>6, <1>7

\* Rearming points the registration to the connection it belongs to.
LEMMA WorkerCtlIInv ==
  ASSUME IInv, NEW e \in Epoll, WorkerCtl(e)
  PROVE  IInv'
<1>1. TypeOK'
  <2>1. Rearm(wcur[e]) /\ wpc[e] # "next"
    BY DEF WorkerCtl
  <2>2. /\ watched' \in [Epoll -> [Fd -> Conn \cup {None}]]
        /\ mask' \in [Epoll -> [Fd -> SUBSET Interest]]
    BY <2>1, CurrentFacts, RearmEffect
  <2>3. /\ wpc' = [wpc EXCEPT ![e] = "next"]
        /\ wcur' = [wcur EXCEPT ![e] = None]
        /\ wevs' = [wevs EXCEPT ![e] = {}]
        /\ UNCHANGED <<fdTable, unread, peerOpen, asked, objectVars,
                       sharedVars, listenerVars, wbatch, wok, wsize,
                       pushVars, sessionVars>>
    BY DEF WorkerCtl
  <2>. QED
    BY <2>2, <2>3 DEF TypeOK
<1>2. RegistrationsOK'
  <2>1. Rearm(wcur[e]) /\ wpc[e] # "next"
    BY DEF WorkerCtl
  <2>2. \A d \in Epoll, f \in Fd :
          \/ watched'[d][f] = watched[d][f] /\ mask'[d][f] = mask[d][f]
          \/ /\ d = epollFd[wcur[e]] /\ f = sock[wcur[e]]
             /\ watched'[d][f] = wcur[e]
    BY <2>1, CurrentFacts, RearmEffect
  <2>3. /\ wcur[e] \in Conn /\ active[wcur[e]] /\ epollFd[wcur[e]] = e
        /\ fdTable[sock[wcur[e]]] = wcur[e]
    BY <2>1, CurrentFacts DEF WorkerCtl, CurrentOK
  <2>. QED
    BY <2>2, <2>3 DEF WorkerCtl, TypeOK, RegistrationsOK
<1>3. CurrentOK'
  BY DEF WorkerCtl, Rearm, ModSucceeds, TypeOK, CurrentOK
<1>4. ClosingOK'
  BY ClosingFrame DEF WorkerCtl, TypeOK
<1>5. BatchOK'
  BY DEF WorkerCtl, Rearm, ModSucceeds, TypeOK, BatchOK
<1>6. ReadLocksOK'
  BY DEF WorkerCtl, Rearm, ModSucceeds, ReadLocksOK
<1>7. SizeStillThere'
  BY DEF WorkerCtl, Rearm, ModSucceeds, SizeStillThere
<1>8. (ObjectsOK /\ ConnectionsOK /\ PushOK /\ ListenerOK /\ SessionsOK)'
  BY DEF WorkerCtl, ObjectsOK, ConnectionsOK, PushOK, ListenerOK, SessionsOK
<1>. QED
  BY <1>1, <1>2, <1>3, <1>4, <1>5, <1>6, <1>7, <1>8

\* close takes the number out of every epoll; the connection is now between
\* close and kill.
LEMMA CloseSocketIInv ==
  ASSUME IInv, NEW e \in Epoll, CloseSocket(e)
  PROVE  IInv'
<1>1. TypeOK'
  BY DEF CloseSocket, TypeOK, CurrentOK, ObjectsOK
<1>2. ObjectsOK'
  BY DEF CloseSocket, ObjectsOK
<1>3. RegistrationsOK'
  BY DEF CloseSocket, TypeOK, RegistrationsOK
<1>4. CurrentOK'
  <2>1. /\ wcur[e] \in Conn /\ sock[wcur[e]] \in Fd /\ epollFd[wcur[e]] = e
        /\ fdTable[sock[wcur[e]]] = wcur[e]
    BY CurrentFacts DEF CloseSocket, CurrentOK
  <2>2. ASSUME NEW d \in Epoll \ {e}, wcur[d] # None
        PROVE  /\ active[wcur[d]] /\ epollFd[wcur[d]] = d
               /\ sock[wcur[d]] \in Fd /\ wcur[d] # wcur[e]
               /\ fdTable'[sock[wcur[d]]] = wcur[d]
                    <=> fdTable[sock[wcur[d]]] = wcur[d]
    BY <2>1, <2>2 DEF CloseSocket, TypeOK, ObjectsOK, CurrentOK
  <2>. QED
    BY <2>1, <2>2 DEF CloseSocket, TypeOK, CurrentOK
<1>5. ClosingOK'
  <2>. SUFFICES ASSUME NEW c \in Conn, active[c], fdTable'[sock[c]] # c
                PROVE  \E d \in Epoll : /\ wpc'[d] \in {"remove", "kill"}
                                        /\ wcur'[d] = c
    BY DEF CloseSocket, ClosingOK
  <2>1. CASE c = wcur[e]
    BY <2>1 DEF CloseSocket, TypeOK
  <2>2. CASE fdTable[sock[c]] = c
    <3>1. sock[c] = sock[wcur[e]]
      BY <2>2, CurrentFacts DEF CloseSocket, TypeOK, ObjectsOK
    <3>2. c = wcur[e]
      BY <2>2, <3>1, CurrentFacts DEF CloseSocket, CurrentOK
    <3>. QED
      BY <3>2, <2>1
  <2>3. CASE c # wcur[e] /\ fdTable[sock[c]] # c
    <3>1. PICK d \in Epoll : wpc[d] \in {"remove", "kill"} /\ wcur[d] = c
      BY <2>3 DEF ClosingOK
    <3>2. d # e
      BY <3>1 DEF CloseSocket
    <3>. QED
      BY <3>1, <3>2 DEF CloseSocket, TypeOK
  <2>. QED
    BY <2>1, <2>2, <2>3
<1>6. BatchOK'
  <2>1. /\ wcur[e] \in Conn /\ sock[wcur[e]] \in Fd /\ epollFd[wcur[e]] = e
        /\ fdTable[sock[wcur[e]]] = wcur[e]
    BY CurrentFacts DEF CloseSocket, CurrentOK
  <2>2. ASSUME NEW d \in Epoll, NEW ev \in wbatch[d]
        PROVE  /\ ev.ptr \in Conn /\ ev.ptr # wcur[e]
               /\ sock[ev.ptr] \in Fd
               /\ fdTable[sock[ev.ptr]] = ev.ptr
    BY <2>1 DEF TypeOK, ObjectsOK, BatchOK
  <2>. QED
    BY <2>1, <2>2 DEF CloseSocket, TypeOK, BatchOK
<1>7. ListenerOK'
  <2>1. /\ wcur[e] \in Conn /\ sock[wcur[e]] \in Fd /\ epollFd[wcur[e]] = e
        /\ fdTable[sock[wcur[e]]] = wcur[e]
    BY CurrentFacts DEF CloseSocket, CurrentOK
  <2>2. lcur # None => /\ lcur # wcur[e]
                       /\ fdTable[sock[lcur]] = lcur
                       /\ sock[lcur] \in Fd
    BY <2>1 DEF TypeOK, ObjectsOK, ListenerOK
  <2>. QED
    BY <2>1, <2>2 DEF CloseSocket, TypeOK, ListenerOK
<1>8. ReadLocksOK'
  BY DEF CloseSocket, ReadLocksOK
<1>9. SizeStillThere'
  BY DEF CloseSocket, SizeStillThere
<1>10. (ConnectionsOK /\ PushOK /\ SessionsOK)'
  BY DEF CloseSocket, ConnectionsOK, PushOK, SessionsOK
<1>. QED
  BY <1>1, <1>2, <1>3, <1>4, <1>5, <1>6, <1>7, <1>8, <1>9, <1>10

\* What goes away is the map entry and the registration of the NUMBER, its
\* own or its successor's; either may be missing.
LEMMA RemoveConnectionIInv ==
  ASSUME IInv, NEW e \in Epoll, RemoveConnection(e)
  PROVE  IInv'
<1>1. TypeOK'
  BY DEF RemoveConnection, UnRegist, MutexFree, TypeOK, CurrentOK, ObjectsOK
<1>2. ConnectionsOK'
  BY DEF RemoveConnection, UnRegist, MutexFree, ConnectionsOK
<1>3. RegistrationsOK'
  <2>1. wcur[e] \in Conn /\ sock[wcur[e]] \in Fd /\ epollFd[wcur[e]] = e
    BY CurrentFacts DEF RemoveConnection, UnRegist
  <2>2. \A d \in Epoll, f \in Fd :
          /\ watched'[d][f] = IF d = e /\ f = sock[wcur[e]] THEN None
                              ELSE watched[d][f]
          /\ mask'[d][f] = IF d = e /\ f = sock[wcur[e]] THEN {}
                           ELSE mask[d][f]
    BY <2>1 DEF RemoveConnection, UnRegist, TypeOK
  <2>3. \A f \in Fd : watched[e][f] = wcur[e] /\ wcur[e] # None
                        => f = sock[wcur[e]]
    BY <2>1 DEF RegistrationsOK
  <2>4. /\ \A d \in Epoll \ {e} : wpc'[d] = wpc[d]
        /\ UNCHANGED <<fdTable, wcur, active, sock, epollFd>>
    BY DEF RemoveConnection, UnRegist, TypeOK
  <2>. QED
    BY <2>1, <2>2, <2>3, <2>4 DEF RegistrationsOK
<1>4. CurrentOK'
  BY DEF RemoveConnection, UnRegist, MutexFree, TypeOK, CurrentOK, ObjectsOK
<1>5. ClosingOK'
  BY DEF RemoveConnection, UnRegist, MutexFree, TypeOK, ClosingOK
<1>6. PushOK'
  BY DEF RemoveConnection, UnRegist, MutexFree, PushOK
<1>7. ReadLocksOK'
  BY DEF RemoveConnection, UnRegist, MutexFree, ReadLocksOK
<1>8. SizeStillThere'
  BY DEF RemoveConnection, UnRegist, MutexFree, SizeStillThere
<1>9. (ObjectsOK /\ BatchOK /\ ListenerOK /\ SessionsOK)'
  BY DEF RemoveConnection, UnRegist, ObjectsOK, BatchOK, ListenerOK, SessionsOK
<1>. QED
  BY <1>1, <1>2, <1>3, <1>4, <1>5, <1>6, <1>7, <1>8, <1>9

\* When the session is killed nothing but the session lists knows it.
LEMMA KillIInv ==
  ASSUME IInv, NEW e \in Epoll, Kill(e)
  PROVE  IInv'
<1>1. TypeOK'
  BY DEF Kill, TypeOK, CurrentOK
<1>2. ObjectsOK'
  BY DEF Kill, TypeOK, ObjectsOK, CurrentOK
<1>3. ConnectionsOK'
  BY DEF Kill, TypeOK, ConnectionsOK, CurrentOK
<1>4. RegistrationsOK'
  BY DEF Kill, TypeOK, RegistrationsOK, CurrentOK
<1>5. CurrentOK'
  BY DEF Kill, TypeOK, CurrentOK
<1>6. ClosingOK'
  BY DEF Kill, TypeOK, ClosingOK
<1>7. BatchOK'
  BY DEF Kill, TypeOK, BatchOK, CurrentOK
<1>8. ListenerOK'
  BY DEF Kill, TypeOK, ListenerOK, CurrentOK
<1>9. ReadLocksOK'
  BY DEF Kill, ReadLocksOK
<1>10. SizeStillThere'
  BY DEF Kill, SizeStillThere
<1>11. (PushOK /\ SessionsOK)'
  BY DEF Kill, PushOK, SessionsOK
<1>. QED
  BY <1>1, <1>2, <1>3, <1>4, <1>5, <1>6, <1>7, <1>8, <1>9, <1>10, <1>11

-----------------------------------------------------------------------------
(* The push thread.                                                        *)

\* The pass starts with the map as it is.
LEMMA PassBeginIInv ==
  ASSUME IInv, PassBegin
  PROVE  IInv'
<1>1. TypeOK'
  BY DEF PassBegin, TypeOK
<1>2. PushOK'
  BY DEF PassBegin, PushOK
<1>3. (ObjectsOK /\ ConnectionsOK /\ RegistrationsOK /\ CurrentOK /\
      ClosingOK /\ BatchOK /\ ListenerOK /\ SessionsOK /\ ReadLocksOK /\
      SizeStillThere)'
  BY DEF PassBegin, ObjectsOK, ConnectionsOK, RegistrationsOK, CurrentOK,
     ClosingOK, BatchOK, ListenerOK, SessionsOK, ReadLocksOK, SizeStillThere
<1>. QED
  BY <1>1, <1>2, <1>3

\* Moving on in the map.
LEMMA ScanSkipIInv ==
  ASSUME IInv, NEW f \in Fd, ScanSkip(f)
  PROVE  IInv'
<1>1. TypeOK'
  BY DEF ScanSkip, TypeOK
<1>2. PushOK'
  BY DEF ScanSkip, PushOK
<1>3. (ObjectsOK /\ ConnectionsOK /\ RegistrationsOK /\ CurrentOK /\
      ClosingOK /\ BatchOK /\ ListenerOK /\ SessionsOK /\ ReadLocksOK /\
      SizeStillThere)'
  BY DEF ScanSkip, ObjectsOK, ConnectionsOK, RegistrationsOK, CurrentOK,
     ClosingOK, BatchOK, ListenerOK, SessionsOK, ReadLocksOK, SizeStillThere
<1>. QED
  BY <1>1, <1>2, <1>3

\* Taking a connection out of the map's hands, under the mutex.
LEMMA ScanTakeIInv ==
  ASSUME IInv, NEW f \in Fd, ScanTake(f)
  PROVE  IInv'
<1>1. TypeOK'
  BY DEF ScanTake, TypeOK, PushOK, ConnectionsOK
<1>2. PushOK'
  BY DEF ScanTake, TypeOK, PushOK, ConnectionsOK
<1>3. (ObjectsOK /\ ConnectionsOK /\ RegistrationsOK /\ CurrentOK /\
      ClosingOK /\ BatchOK /\ ListenerOK /\ SessionsOK /\ ReadLocksOK /\
      SizeStillThere)'
  BY DEF ScanTake, ObjectsOK, ConnectionsOK, RegistrationsOK, CurrentOK,
     ClosingOK, BatchOK, ListenerOK, SessionsOK, ReadLocksOK, SizeStillThere
<1>. QED
  BY <1>1, <1>2, <1>3

\* The write lock decides whether the push thread goes on.
LEMMA PushAcquireIInv ==
  ASSUME IInv, PushAcquire
  PROVE  IInv'
<1>1. TypeOK'
  BY DEF PushAcquire, TypeOK, PushOK
<1>2. PushOK'
  BY DEF PushAcquire, PushOK
<1>3. (ObjectsOK /\ ConnectionsOK /\ RegistrationsOK /\ CurrentOK /\
      ClosingOK /\ BatchOK /\ ListenerOK /\ SessionsOK /\ ReadLocksOK /\
      SizeStillThere)'
  BY DEF PushAcquire, ObjectsOK, ConnectionsOK, RegistrationsOK, CurrentOK,
     ClosingOK, BatchOK, ListenerOK, SessionsOK, ReadLocksOK, SizeStillThere
<1>. QED
  BY <1>1, <1>2, <1>3

\* Looking at the send buffer changes no pointer.
LEMMA PushCheckIInv ==
  ASSUME IInv, PushCheck
  PROVE  IInv'
<1>1. TypeOK'
  BY DEF PushCheck, TypeOK
<1>2. PushOK'
  BY DEF PushCheck, PushOK
<1>3. (ObjectsOK /\ ConnectionsOK /\ RegistrationsOK /\ CurrentOK /\
      ClosingOK /\ BatchOK /\ ListenerOK /\ SessionsOK /\ ReadLocksOK /\
      SizeStillThere)'
  BY DEF PushCheck, ObjectsOK, ConnectionsOK, RegistrationsOK, CurrentOK,
     ClosingOK, BatchOK, ListenerOK, SessionsOK, ReadLocksOK, SizeStillThere
<1>. QED
  BY <1>1, <1>2, <1>3

\* The lock that is taken is one of a live connection.
LEMMA PushTakeIInv ==
  ASSUME IInv, PushTake
  PROVE  IInv'
<1>1. TypeOK'
  <2>1. pcur \in Conn
    BY PushFacts DEF PushTake
  <2>2. writeLock' \in [Conn -> BOOLEAN]
    BY <2>1 DEF PushTake, TypeOK
  <2>3. pevents' \in SUBSET Interest
    BY DEF PushTake
  <2>. QED
    BY <2>2, <2>3 DEF PushTake, TypeOK
<1>2. PushOK'
  BY DEF PushTake, PushOK
<1>3. (ObjectsOK /\ ConnectionsOK /\ RegistrationsOK /\ CurrentOK /\
      ClosingOK /\ BatchOK /\ ListenerOK /\ SessionsOK /\ ReadLocksOK /\
      SizeStillThere)'
  BY DEF PushTake, ObjectsOK, ConnectionsOK, RegistrationsOK, CurrentOK,
     ClosingOK, BatchOK, ListenerOK, SessionsOK, ReadLocksOK, SizeStillThere
<1>. QED
  BY <1>1, <1>2, <1>3

\* The events are stored in an object that is live.
LEMMA PushStoreIInv ==
  ASSUME IInv, PushStore
  PROVE  IInv'
<1>1. TypeOK'
  BY DEF PushStore, TypeOK, PushOK
<1>2. PushOK'
  BY DEF PushStore, PushOK
<1>3. (ObjectsOK /\ ConnectionsOK /\ RegistrationsOK /\ CurrentOK /\
      ClosingOK /\ BatchOK /\ ListenerOK /\ SessionsOK /\ ReadLocksOK /\
      SizeStillThere)'
  BY DEF PushStore, ObjectsOK, ConnectionsOK, RegistrationsOK, CurrentOK,
     ClosingOK, BatchOK, ListenerOK, SessionsOK, ReadLocksOK, SizeStillThere
<1>. QED
  BY <1>1, <1>2, <1>3

\* Rearming from the push thread: the connection is in the map, so it is not
\* killed, and the registration it may overwrite is of the same number.
LEMMA PushCtlIInv ==
  ASSUME IInv, PushCtl
  PROVE  IInv'
<1>1. TypeOK'
  BY PushFacts, RearmEffect DEF PushCtl, TypeOK
<1>2. RegistrationsOK'
  <2>1. \/ fdTable[sock[pcur]] = pcur
        \/ wpc[epollFd[pcur]] = "remove" /\ wcur[epollFd[pcur]] = pcur
    BY PushFacts DEF PushCtl, TypeOK, ClosingOK, CurrentOK
  <2>2. /\ \A e \in Epoll, f \in Fd :
             \/ watched'[e][f] = watched[e][f] /\ mask'[e][f] = mask[e][f]
             \/ /\ e = epollFd[pcur] /\ f = sock[pcur]
                /\ watched'[e][f] = pcur
        /\ pcur # None
    BY PushFacts, RearmEffect DEF PushCtl
  <2>3. active[pcur] /\ UNCHANGED <<active, sock, epollFd, fdTable, wpc, wcur>>
    BY PushFacts DEF PushCtl, objectVars, dataVars, notPush, workerVars
  <2>. QED
    BY <2>1, <2>2, <2>3 DEF RegistrationsOK
<1>3. PushOK'
  BY DEF PushCtl, Rearm, ModSucceeds, PushOK
<1>4. (ObjectsOK /\ ConnectionsOK /\ CurrentOK /\ ClosingOK /\ BatchOK /\
      ListenerOK /\ SessionsOK /\ ReadLocksOK /\ SizeStillThere)'
  BY DEF PushCtl, ObjectsOK, ConnectionsOK, CurrentOK, ClosingOK, BatchOK,
     ListenerOK, SessionsOK, ReadLocksOK, SizeStillThere
<1>. QED
  BY <1>1, <1>2, <1>3, <1>4

\* The mutex is released with nothing in hand.
LEMMA PassEndIInv ==
  ASSUME IInv, PassEnd
  PROVE  IInv'
<1>1. TypeOK'
  BY DEF PassEnd, TypeOK
<1>2. PushOK'
  BY DEF PassEnd, PushOK
<1>3. (ObjectsOK /\ ConnectionsOK /\ RegistrationsOK /\ CurrentOK /\
      ClosingOK /\ BatchOK /\ ListenerOK /\ SessionsOK /\ ReadLocksOK /\
      SizeStillThere)'
  BY DEF PassEnd, ObjectsOK, ConnectionsOK, RegistrationsOK, CurrentOK,
     ClosingOK, BatchOK, ListenerOK, SessionsOK, ReadLocksOK, SizeStillThere
<1>. QED
  BY <1>1, <1>2, <1>3

-----------------------------------------------------------------------------
(* The session thread.                                                     *)

\* Waiting sessions are live and not in the list yet.
LEMMA DrainIInv ==
  ASSUME IInv, Drain
  PROVE  IInv'
<1>1. TypeOK'
  BY DEF Drain, deEnqueue, TypeOK
<1>2. ListenerOK'
  BY DEF Drain, deEnqueue, ListenerOK
<1>3. SessionsOK'
  BY DEF Drain, deEnqueue, SessionsOK
<1>4. (ObjectsOK /\ ConnectionsOK /\ RegistrationsOK /\ CurrentOK /\
      ClosingOK /\ BatchOK /\ PushOK /\ ReadLocksOK /\ SizeStillThere)'
  BY DEF Drain, deEnqueue, ObjectsOK, ConnectionsOK, RegistrationsOK, CurrentOK,
     ClosingOK, BatchOK, PushOK, ReadLocksOK, SizeStillThere
<1>. QED
  BY <1>1, <1>2, <1>3, <1>4

\* An active session stays.
LEMMA SweepKeepIInv ==
  ASSUME IInv, NEW c \in Conn, SweepKeep(c)
  PROVE  IInv'
<1>1. TypeOK'
  BY DEF SweepKeep, TypeOK
<1>2. SessionsOK'
  BY DEF SweepKeep, SessionsOK
<1>3. (ObjectsOK /\ ConnectionsOK /\ RegistrationsOK /\ CurrentOK /\
      ClosingOK /\ BatchOK /\ PushOK /\ ListenerOK /\ ReadLocksOK /\
      SizeStillThere)'
  BY DEF SweepKeep, ObjectsOK, ConnectionsOK, RegistrationsOK, CurrentOK,
     ClosingOK, BatchOK, PushOK, ListenerOK, ReadLocksOK, SizeStillThere
<1>. QED
  BY <1>1, <1>2, <1>3

\* A session that has been killed is in no other place than the session list.
LEMMA SweepFreeIInv ==
  ASSUME IInv, NEW c \in Conn, SweepFree(c)
  PROVE  IInv'
<1>1. TypeOK'
  BY DEF SweepFree, TypeOK
<1>2. ObjectsOK'
  BY DEF SweepFree, ObjectsOK
<1>3. ConnectionsOK'
  BY DEF SweepFree, ConnectionsOK
<1>4. RegistrationsOK'
  BY DEF SweepFree, RegistrationsOK
<1>5. CurrentOK'
  BY DEF SweepFree, CurrentOK
<1>6. ClosingOK'
  BY DEF SweepFree, TypeOK, ClosingOK
<1>7. BatchOK'
  BY DEF SweepFree, BatchOK
<1>8. PushOK'
  BY DEF SweepFree, TypeOK, PushOK, ConnectionsOK
<1>9. ListenerOK'
  BY DEF SweepFree, ListenerOK
<1>10. SessionsOK'
  BY DEF SweepFree, SessionsOK
<1>11. ReadLocksOK'
  BY DEF SweepFree, ReadLocksOK
<1>12. SizeStillThere'
  BY DEF SweepFree, TypeOK, SizeStillThere, CurrentOK, ObjectsOK
<1>. QED
  BY <1>1, <1>2, <1>3, <1>4, <1>5, <1>6, <1>7, <1>8, <1>9, <1>10, <1>11, <1>12

\* From checkSession to the loop of update.
LEMMA SweepDoneIInv ==
  ASSUME IInv, SweepDone
  PROVE  IInv'
<1>1. TypeOK'
  BY DEF SweepDone, TypeOK
<1>2. SessionsOK'
  BY DEF SweepDone, SessionsOK
<1>3. (ObjectsOK /\ ConnectionsOK /\ RegistrationsOK /\ CurrentOK /\
      ClosingOK /\ BatchOK /\ PushOK /\ ListenerOK /\ ReadLocksOK /\
      SizeStillThere)'
  BY DEF SweepDone, ObjectsOK, ConnectionsOK, RegistrationsOK, CurrentOK,
     ClosingOK, BatchOK, PushOK, ListenerOK, ReadLocksOK, SizeStillThere
<1>. QED
  BY <1>1, <1>2, <1>3

\* A killed session is passed over.
LEMMA UpdateSkipIInv ==
  ASSUME IInv, NEW c \in Conn, UpdateSkip(c)
  PROVE  IInv'
<1>1. TypeOK'
  BY DEF UpdateSkip, TypeOK
<1>2. SessionsOK'
  BY DEF UpdateSkip, SessionsOK
<1>3. (ObjectsOK /\ ConnectionsOK /\ RegistrationsOK /\ CurrentOK /\
      ClosingOK /\ BatchOK /\ PushOK /\ ListenerOK /\ ReadLocksOK /\
      SizeStillThere)'
  BY DEF UpdateSkip, ObjectsOK, ConnectionsOK, RegistrationsOK, CurrentOK,
     ClosingOK, BatchOK, PushOK, ListenerOK, ReadLocksOK, SizeStillThere
<1>. QED
  BY <1>1, <1>2, <1>3

\* Only this thread removes from the list, so the session stays there.
LEMMA UpdateEnterIInv ==
  ASSUME IInv, NEW c \in Conn, UpdateEnter(c)
  PROVE  IInv'
<1>1. TypeOK'
  BY DEF UpdateEnter, TypeOK
<1>2. SessionsOK'
  BY DEF UpdateEnter, SessionsOK
<1>3. (ObjectsOK /\ ConnectionsOK /\ RegistrationsOK /\ CurrentOK /\
      ClosingOK /\ BatchOK /\ PushOK /\ ListenerOK /\ ReadLocksOK /\
      SizeStillThere)'
  BY DEF UpdateEnter, ObjectsOK, ConnectionsOK, RegistrationsOK, CurrentOK,
     ClosingOK, BatchOK, PushOK, ListenerOK, ReadLocksOK, SizeStillThere
<1>. QED
  BY <1>1, <1>2, <1>3

\* A handler adds to the send buffer and never takes from it.
LEMMA HandleIInv ==
  ASSUME IInv, Handle
  PROVE  IInv'
<1>1. TypeOK'
  BY DEF Handle, TypeOK, SessionsOK
<1>2. SessionsOK'
  BY DEF Handle, SessionsOK
<1>3. SizeStillThere'
  BY DEF Handle, TypeOK, SizeStillThere
<1>4. (ObjectsOK /\ ConnectionsOK /\ RegistrationsOK /\ CurrentOK /\
      ClosingOK /\ BatchOK /\ PushOK /\ ListenerOK /\ ReadLocksOK)'
  BY DEF Handle, ObjectsOK, ConnectionsOK, RegistrationsOK, CurrentOK,
     ClosingOK, BatchOK, PushOK, ListenerOK, ReadLocksOK
<1>. QED
  BY <1>1, <1>2, <1>3, <1>4

\* A notification is a flag.
LEMMA NotifyIInv ==
  ASSUME IInv, Notify
  PROVE  IInv'
<1>1. TypeOK'
  BY DEF Notify, PushSend, TypeOK, SessionsOK
<1>2. SessionsOK'
  BY DEF Notify, PushSend, SessionsOK
<1>3. (ObjectsOK /\ ConnectionsOK /\ RegistrationsOK /\ CurrentOK /\
      ClosingOK /\ BatchOK /\ PushOK /\ ListenerOK /\ ReadLocksOK /\
      SizeStillThere)'
  BY DEF Notify, PushSend, ObjectsOK, ConnectionsOK, RegistrationsOK, CurrentOK,
     ClosingOK, BatchOK, PushOK, ListenerOK, ReadLocksOK, SizeStillThere
<1>. QED
  BY <1>1, <1>2, <1>3

\* The session is let go.
LEMMA UpdateLeaveIInv ==
  ASSUME IInv, UpdateLeave
  PROVE  IInv'
<1>1. TypeOK'
  BY DEF UpdateLeave, TypeOK
<1>2. SessionsOK'
  BY DEF UpdateLeave, SessionsOK
<1>3. (ObjectsOK /\ ConnectionsOK /\ RegistrationsOK /\ CurrentOK /\
      ClosingOK /\ BatchOK /\ PushOK /\ ListenerOK /\ ReadLocksOK /\
      SizeStillThere)'
  BY DEF UpdateLeave, ObjectsOK, ConnectionsOK, RegistrationsOK, CurrentOK,
     ClosingOK, BatchOK, PushOK, ListenerOK, ReadLocksOK, SizeStillThere
<1>. QED
  BY <1>1, <1>2, <1>3

-----------------------------------------------------------------------------
\* Every step keeps the invariant.
LEMMA NextIInv ==
  ASSUME IInv, Next
  PROVE  IInv'
<1>1. CASE Peer
  BY <1>1, AskIInv, HangupIInv DEF Peer
<1>2. CASE Listener
  BY <1>2, AcceptIInv, AddSessionIInv, AddConnectionIInv DEF Listener
<1>3. ASSUME NEW e \in Epoll, Worker(e)
      PROVE  IInv'
  BY <1>3, EpollWaitIInv, NextEventIInv, ReadLockIInv, RecvIInv,
     RecvNothingIInv, WriteSizeIInv, SendIInv, SendAgainIInv, SendFailsIInv,
     WriteReleaseIInv, WorkerStoreIInv, WorkerCtlIInv, CloseSocketIInv,
     RemoveConnectionIInv, KillIInv DEF Worker
<1>4. CASE Push
  BY <1>4, PassBeginIInv, ScanSkipIInv, ScanTakeIInv, PushAcquireIInv,
     PushCheckIInv, PushTakeIInv, PushStoreIInv, PushCtlIInv, PassEndIInv
     DEF Push
<1>5. CASE SessionThread
  BY <1>5, DrainIInv, SweepKeepIInv, SweepFreeIInv, SweepDoneIInv,
     UpdateSkipIInv, UpdateEnterIInv, HandleIInv, NotifyIInv, UpdateLeaveIInv
     DEF SessionThread
<1>. QED
  BY <1>1, <1>2, <1>3, <1>4, <1>5 DEF Next

\* The inductive invariant holds in every reachable state; with it the type
\* invariant and, as one of its parts, SizeStillThere.
THEOREM InvariantTheorem == Spec => []IInv
<1>1. IInv /\ [Next]_vars => IInv'
  BY NextIInv, StutterIInv
<1>. QED
  BY InitIInv, <1>1, PTL DEF Spec

\* The map is changed only by a thread that holds the mutex.
LEMMA MapGuarded ==
  ASSUME Next, ppc # "idle"
  PROVE  connections' = connections
<1>1. CASE Peer
  BY <1>1 DEF Peer, Ask, Hangup
<1>2. CASE Listener
  BY <1>2 DEF Listener, Accept, AddSession, enqueue, AddConnection, Regist,
     MutexFree
<1>3. ASSUME NEW e \in Epoll, Worker(e)
      PROVE  connections' = connections
  BY <1>3 DEF Worker, EpollWait, NextEvent, ReadLock, Recv, RecvNothing,
     WriteSize, Send, SendAgain, SendFails, WriteRelease, WorkerStore,
     WorkerCtl, CloseSocket, RemoveConnection, MutexFree, Kill
<1>4. CASE Push
  BY <1>4 DEF Push, PassBegin, ScanSkip, ScanTake, PushAcquire, PushCheck,
     PushTake, PushStore, PushCtl, PassEnd
<1>5. CASE SessionThread
  BY <1>5 DEF SessionThread, Drain, deEnqueue, SweepKeep, SweepFree,
     SweepDone, UpdateSkip, UpdateEnter, Handle, Notify, UpdateLeave
<1>. QED
  BY <1>1, <1>2, <1>3, <1>4, <1>5 DEF Next

\* The push thread's iterators stay valid for the whole of its pass.
THEOREM IteratorsTheorem == Spec => IteratorsStayValid
<1>1. IInv /\ [Next]_vars =>
        [ppc # "idle" /\ ppc' # "idle" => connections' = connections
                                          /\ ptodo \subseteq Mapped]_vars
  <2>. SUFFICES ASSUME IInv, Next, ppc # "idle"
                PROVE  connections' = connections /\ ptodo \subseteq Mapped
    OBVIOUS
  <2>. QED
    BY MapGuarded DEF PushOK
<1>. QED
  BY InvariantTheorem, <1>1, PTL DEF Spec, IteratorsStayValid

\* Every variable stays in its range, for every value of the constants.
THEOREM TypeTheorem == Spec => []TypeOK
<1>1. IInv => TypeOK
  OBVIOUS
<1>. QED
  BY InvariantTheorem, <1>1, PTL

\* No thread can reach a deleted connection or session, however descriptor
\* numbers are reused: what is not in the session lists has not been killed,
\* and what has not been killed is not deleted.
THEOREM NoDanglingPointerTheorem == Spec => []NoDanglingPointer
<1>1. IInv => NoDanglingPointer
  <2>. SUFFICES ASSUME IInv, NEW c \in Referenced
                PROVE  c \in Conn /\ mem[c] = "live"
    BY DEF NoDanglingPointer
  <2>1. c \in Conn
    BY DEF Referenced
  <2>2. CASE c \in waiting \cup sessionList \cup stodo \cup {scur}
    BY <2>1, <2>2 DEF SessionsOK
  <2>3. CASE c \in {lcur, pcur}
    BY <2>1, <2>3 DEF TypeOK, ObjectsOK, ConnectionsOK, PushOK, ListenerOK
  <2>4. CASE \E f \in Fd : \/ connections[f] = c
                           \/ \E e \in Epoll : watched[e][f] = c
    BY <2>1, <2>4 DEF ObjectsOK, ConnectionsOK, RegistrationsOK
  <2>5. CASE \E e \in Epoll : c \in InHand(e)
    BY <2>1, <2>5 DEF InHand, ObjectsOK, CurrentOK, BatchOK
  <2>. QED
    BY <2>1, <2>2, <2>3, <2>4, <2>5 DEF Referenced
<1>. QED
  BY InvariantTheorem, <1>1, PTL

\* A worker never works on a descriptor number that has passed to another
\* connection.
THEOREM SocketIsOwnTheorem == Spec => []SocketIsOwn
<1>1. IInv => SocketIsOwn
  BY DEF CurrentOK, SocketIsOwn
<1>. QED
  BY InvariantTheorem, <1>1, PTL

\* No two workers have the same connection in hand: each knows only
\* connections of its own epoll.
THEOREM OneWorkerTheorem == Spec => []OneWorkerPerConnection
<1>1. IInv => OneWorkerPerConnection
  BY DEF OneWorkerPerConnection, InHand, CurrentOK, BatchOK
<1>. QED
  BY InvariantTheorem, <1>1, PTL

\* TryAcquireReadLock never fails: the lock is held only inside Read, and
\* only one worker reads a connection.
THEOREM ReadLockTheorem == Spec => []ReadLockIsFree
<1>1. IInv => ReadLockIsFree
  <2>. SUFFICES ASSUME IInv, NEW e \in Epoll,
                       wpc[e] = "read", readLock[wcur[e]]
                PROVE  FALSE
    BY DEF ReadLockIsFree
  <2>1. wcur[e] \in Conn /\ epollFd[wcur[e]] = e
    BY CurrentFacts
  <2>2. PICK d \in Epoll : wpc[d] = "recv" /\ wcur[d] = wcur[e]
    BY <2>1 DEF ReadLocksOK
  <2>3. epollFd[wcur[d]] = d
    BY <2>2, CurrentFacts
  <2>. QED
    BY <2>1, <2>2, <2>3
<1>. QED
  BY InvariantTheorem, <1>1, PTL

\* What Write hands to send is still in the send buffer.
THEOREM SizeStillThereTheorem == Spec => []SizeStillThere
<1>1. IInv => SizeStillThere
  OBVIOUS
<1>. QED
  BY InvariantTheorem, <1>1, PTL
=============================================================================

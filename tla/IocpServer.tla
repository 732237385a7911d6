----------------------------- MODULE IocpServer -----------------------------
(***************************************************************************)
(* The completion port server: the listener, one worker per completion     *)
(* port, the push thread and the session thread, serving the clients of    *)
(* TcpClient.  A worker is named by its port.                              *)
(*                                                                         *)
(* startNextRead, startNextWrite and close of CTcpConnection are called by *)
(* several threads: at[t] says where thread t is in them and with which    *)
(* connection.  A request and its answer are counted, the order of the     *)
(* bytes is the subject of SyncBuffer and PacketReader.                    *)
(***************************************************************************)
EXTENDS TcpClient, Sequences, FiniteSets

CONSTANTS Port, listener, push, None

ASSUME ThreadAssumption ==
  /\ Port # {} /\ IsFiniteSet(Port)
  /\ listener # push /\ Port \cap {listener, push} = {}
  /\ None \notin Conn \cup Port \cup {listener, push}

Thread == Port \cup {listener, push}

VARIABLES
  session,       \* the Session and its connection: "none", "active",
                 \* "disabled", "deleted"
  open,          \* the sockets of the server
  connections_,  \* the map of the manager
  mutex_,        \* the owner of its mutex
  iocp,          \* the port of a connection
  readOp, writeOp, \* overlapped operations: "none", "pending", "queued"
  writeLen,      \* how many answers the last WSASend was given
  completions,   \* what each port has queued
  writeLock_, pushSend_,
  packetList_, sendBuffer_, \* of the session: requests, answers
  at,            \* the threads
  scan,          \* push thread: what is left of its pass
  spc, scur, todo, \* session thread: where, with which session, what is left
  watingSesion_, sessionList_

connVars == <<session, open, iocp>>
mgrVars == <<connections_, mutex_>>
opVars == <<readOp, writeOp, writeLen, completions>>
sendVars == <<writeLock_, pushSend_>>
bufVars == <<packetList_, sendBuffer_>>
sessionVars == <<spc, scur, todo, watingSesion_, sessionList_>>
vars == <<clientVars, connVars, mgrVars, opVars, sendVars, bufVars, at, scan,
          sessionVars>>

Idle == [pc |-> "idle", conn |-> None, len |-> 0]

Init ==
  /\ ClientInit
  /\ session = [c \in Conn |-> "none"]
  /\ open = [c \in Conn |-> FALSE]
  /\ connections_ = {} /\ mutex_ = None
  /\ iocp = [c \in Conn |-> None]
  /\ readOp = [c \in Conn |-> "none"] /\ writeOp = [c \in Conn |-> "none"]
  /\ writeLen = [c \in Conn |-> 0]
  /\ completions = [p \in Port |-> <<>>]
  /\ writeLock_ = [c \in Conn |-> FALSE] /\ pushSend_ = [c \in Conn |-> FALSE]
  /\ packetList_ = [c \in Conn |-> 0] /\ sendBuffer_ = [c \in Conn |-> 0]
  /\ at = [t \in Thread |-> Idle] /\ scan = {}
  /\ spc = "drain" /\ scur = None /\ todo = {}
  /\ watingSesion_ = {} /\ sessionList_ = {}

At(t, pc) == at[t].pc = pc
Goes(t, pc) == at' = [at EXCEPT ![t].pc = pc]

\* startNextRead, startNextWrite or close returns to the loop of the thread.
\* The push thread goes on with the next connection, or begins again if
\* doPushSend returned false; the listener leaves addConnection.
Returns(t, result) ==
  IF t = listener
  THEN /\ Goes(t, "addSession") /\ mutex_' = None /\ UNCHANGED scan
  ELSE IF t = push
       THEN /\ at' = [at EXCEPT ![t] = [Idle EXCEPT !.pc = "scan"]]
            /\ scan' = IF result THEN scan \ {at[t].conn} ELSE connections_
            /\ UNCHANGED mutex_
       ELSE /\ at' = [at EXCEPT ![t] = Idle] /\ UNCHANGED <<mutex_, scan>>

-----------------------------------------------------------------------------
(* The listener.                                                           *)

Accept(c) ==
  /\ At(listener, "idle") /\ session[c] = "none" /\ client[c] # "connect"
  /\ session' = [session EXCEPT ![c] = "active"]
  /\ open' = [open EXCEPT ![c] = TRUE]
  /\ at' = [at EXCEPT ![listener] = [pc |-> "add", conn |-> c, len |-> 0]]
  /\ UNCHANGED <<clientVars, iocp, mgrVars, opVars, sendVars, bufVars, scan,
                 sessionVars>>

\* The ports are given out in turn: to the one that was given to the fewest.
Given(p) == Cardinality({c \in Conn : iocp[c] = p})

\* addConnection, up to startNextRead(0), which it calls with the mutex held.
AddConnection ==
  /\ At(listener, "add") /\ mutex_ = None
  /\ LET c == at[listener].conn IN
     /\ mutex_' = listener
     /\ connections_' = connections_ \cup {c}
     /\ \E p \in Port : /\ \A q \in Port : Given(p) <= Given(q)
                        /\ iocp' = [iocp EXCEPT ![c] = p]
  /\ Goes(listener, "recv")
  /\ UNCHANGED <<clientVars, session, open, opVars, sendVars, bufVars, scan,
                 sessionVars>>

\* CSyncQueue, as watingSesion_ is used.
enqueue(item) == watingSesion_' = watingSesion_ \cup {item}

AddSession ==
  /\ At(listener, "addSession")
  /\ enqueue(at[listener].conn)
  /\ at' = [at EXCEPT ![listener] = Idle]
  /\ UNCHANGED <<clientVars, connVars, mgrVars, opVars, sendVars, bufVars,
                 scan, spc, scur, todo, sessionList_>>

Listener == (\E c \in Conn : Accept(c)) \/ AddConnection \/ AddSession

-----------------------------------------------------------------------------
(* Operations of CTcpConnection that a thread is in.                       *)

\* An overlapped call fails if the socket is closed or the client gone.
CallFails(c) == ~open[c] \/ client[c] = "gone"

\* startNextRead, its end.
WSARecv(t) ==
  /\ At(t, "recv")
  /\ LET c == at[t].conn IN
     \/ /\ open[c]
        /\ readOp' = [readOp EXCEPT ![c] = "pending"]
        /\ Returns(t, TRUE)
     \/ /\ CallFails(c)
        /\ Goes(t, "closesocket") /\ UNCHANGED <<readOp, mutex_, scan>>
  /\ UNCHANGED <<clientVars, connVars, connections_, writeOp, writeLen,
                 completions, sendVars, bufVars, sessionVars>>

\* Mutant: with what was written all that has come since is removed.
RemoveAllSendData(t) ==
  /\ At(t, "remove")
  /\ sendBuffer_' = [sendBuffer_ EXCEPT ![at[t].conn] = 0]
  /\ Goes(t, "remain")
  /\ UNCHANGED <<clientVars, connVars, mgrVars, opVars, sendVars, packetList_,
                 scan, sessionVars>>

\* startNextWrite: first what was written is removed ...
RemoveSendData(t) ==
  /\ At(t, "remove")
  /\ sendBuffer_' = [sendBuffer_ EXCEPT ![at[t].conn] = @ - at[t].len]
  /\ Goes(t, "remain")
  /\ UNCHANGED <<clientVars, connVars, mgrVars, opVars, sendVars, packetList_,
                 scan, sessionVars>>

\* ... then, if there is nothing more, the lock is released ...
RemainSendData(t) ==
  /\ At(t, "remain")
  /\ Goes(t, IF sendBuffer_[at[t].conn] = 0 THEN "release" ELSE "send")
  /\ UNCHANGED <<clientVars, connVars, mgrVars, opVars, sendVars, bufVars,
                 scan, sessionVars>>

\* Mutant: startNextWrite returns with the lock.
ReleaseForgotten(t) ==
  /\ At(t, "release")
  /\ Returns(t, TRUE)
  /\ UNCHANGED <<clientVars, connVars, connections_, opVars, sendVars,
                 bufVars, sessionVars>>

ReleaseWriteLock(t) ==
  /\ At(t, "release")
  /\ writeLock_' = [writeLock_ EXCEPT ![at[t].conn] = FALSE]
  /\ Returns(t, TRUE)
  /\ UNCHANGED <<clientVars, connVars, connections_, opVars, pushSend_,
                 bufVars, sessionVars>>

\* ... else all that is in the buffer is sent.
WSASend(t) ==
  /\ At(t, "send")
  /\ LET c == at[t].conn IN
     \/ /\ open[c]
        /\ writeOp' = [writeOp EXCEPT ![c] = "pending"]
        /\ writeLen' = [writeLen EXCEPT ![c] = sendBuffer_[c]]
        /\ Returns(t, TRUE)
     \/ /\ CallFails(c)
        /\ Goes(t, "closesocket")
        /\ UNCHANGED <<writeOp, writeLen, mutex_, scan>>
  /\ UNCHANGED <<clientVars, connVars, connections_, readOp, completions,
                 sendVars, bufVars, sessionVars>>

\* Mutant: the connection stays in the map.
CloseKeepsEntry(t) ==
  /\ At(t, "closesocket")
  /\ open' = [open EXCEPT ![at[t].conn] = FALSE]
  /\ Goes(t, "kill")
  /\ UNCHANGED <<clientVars, session, iocp, mgrVars, opVars, sendVars, bufVars,
                 scan, sessionVars>>

\* close.
CloseSocket(t) ==
  /\ At(t, "closesocket")
  /\ open' = [open EXCEPT ![at[t].conn] = FALSE]
  /\ Goes(t, "erase")
  /\ UNCHANGED <<clientVars, session, iocp, mgrVars, opVars, sendVars, bufVars,
                 scan, sessionVars>>

\* The mutex is recursive: the push thread and the listener hold it already.
RemoveConnection(t) ==
  /\ At(t, "erase") /\ mutex_ \in {None, t}
  /\ connections_' = connections_ \ {at[t].conn}
  /\ Goes(t, "kill")
  /\ UNCHANGED <<clientVars, connVars, mutex_, opVars, sendVars, bufVars, scan,
                 sessionVars>>

Kill(t) ==
  /\ At(t, "kill")
  /\ LET c == at[t].conn IN
     session' = [session EXCEPT ![c] = IF @ = "active" THEN "disabled" ELSE @]
  /\ Returns(t, FALSE)
  /\ UNCHANGED <<clientVars, open, iocp, connections_, opVars, sendVars,
                 bufVars, sessionVars>>

Connection(t) ==
  \/ WSARecv(t) \/ RemoveSendData(t) \/ RemainSendData(t)
  \/ ReleaseWriteLock(t) \/ WSASend(t)
  \/ CloseSocket(t) \/ RemoveConnection(t) \/ Kill(t)

-----------------------------------------------------------------------------
(* A worker: CIOCPWorkThread::Kernel.                                      *)

\* Mutant: the end of the stream is not looked for.
HandlerWithoutEnd(r) ==
  IF r.result = "ok"
  THEN CASE r.op = "write" -> "remove"
         [] r.op = "read" /\ r.len > 0 -> "data"
         [] r.op = "read" /\ r.len = 0 -> "idle"
  ELSE IF r.result = "deleted" THEN "closesocket" ELSE "idle"

\* The handler of a completion: a read with its data, the end of the stream, a
\* write, and the error that means that the client is gone.  Any other error
\* is dropped, and the operation with it.
Handler(r) ==
  IF r.result = "ok"
  THEN CASE r.op = "write" -> "remove"
         [] r.op = "read" /\ r.len > 0 -> "data"
         [] r.op = "read" /\ r.len = 0 -> "closesocket"
  ELSE IF r.result = "deleted" THEN "closesocket" ELSE "idle"

GetQueuedCompletionStatus(p) ==
  /\ At(p, "idle") /\ completions[p] # <<>>
  /\ LET r == Head(completions[p]) IN
     /\ at' = [at EXCEPT ![p] =
                 IF Handler(r) = "idle" THEN Idle
                 ELSE [pc |-> Handler(r), conn |-> r.conn, len |-> r.len]]
     /\ IF r.op = "read"
        THEN readOp' = [readOp EXCEPT ![r.conn] = "none"] /\ UNCHANGED writeOp
        ELSE writeOp' = [writeOp EXCEPT ![r.conn] = "none"] /\ UNCHANGED readOp
  /\ completions' = [completions EXCEPT ![p] = Tail(@)]
  /\ UNCHANGED <<clientVars, connVars, mgrVars, writeLen, sendVars, bufVars,
                 scan, sessionVars>>

\* startNextRead: what a killed session receives is dropped.
StartNextRead(p) ==
  /\ At(p, "data")
  /\ Goes(p, IF session[at[p].conn] = "active" THEN "onRead" ELSE "recv")
  /\ UNCHANGED <<clientVars, connVars, mgrVars, opVars, sendVars, bufVars,
                 scan, sessionVars>>

\* Session::mutex_ is held by update.
Updating(c) == spc \in {"handle", "notify"} /\ scur = c

\* Session::pushPacket, under the mutex of the session.
pushPacket(c) ==
  /\ ~Updating(c)
  /\ packetList_' = [packetList_ EXCEPT ![c] = @ + 1]

\* onRead finds a packet in the buffer, and then no more.
OnRead(p) ==
  /\ At(p, "onRead") /\ at[p].len > 0
  /\ pushPacket(at[p].conn)
  /\ at' = [at EXCEPT ![p].len = @ - 1]
  /\ UNCHANGED <<clientVars, connVars, mgrVars, opVars, sendVars, sendBuffer_,
                 scan, sessionVars>>

\* Mutant: the next read is started only if there was nothing.
NoPacketReturns(p) ==
  /\ At(p, "onRead") /\ at[p].len = 0
  /\ at' = [at EXCEPT ![p] = Idle]
  /\ UNCHANGED <<clientVars, connVars, mgrVars, opVars, sendVars, bufVars,
                 scan, sessionVars>>

NoPacket(p) ==
  /\ At(p, "onRead") /\ at[p].len = 0
  /\ Goes(p, "recv")
  /\ UNCHANGED <<clientVars, connVars, mgrVars, opVars, sendVars, bufVars,
                 scan, sessionVars>>

Worker(p) ==
  \/ GetQueuedCompletionStatus(p) \/ StartNextRead(p) \/ OnRead(p)
  \/ NoPacket(p) \/ Connection(p)

-----------------------------------------------------------------------------
(* The push thread.                                                        *)

PassBegin ==
  /\ At(push, "idle") /\ mutex_ = None
  /\ mutex_' = push
  /\ scan' = connections_
  /\ Goes(push, "scan")
  /\ UNCHANGED <<clientVars, connVars, connections_, opVars, sendVars, bufVars,
                 sessionVars>>

PassEnd ==
  /\ At(push, "scan") /\ scan = {}
  /\ mutex_' = None
  /\ at' = [at EXCEPT ![push] = Idle]
  /\ UNCHANGED <<clientVars, connVars, connections_, opVars, sendVars, bufVars,
                 scan, sessionVars>>

\* doPushSend reads pushSend_ ...
DoPushSend ==
  /\ At(push, "scan")
  /\ \E c \in scan :
       IF pushSend_[c]
       THEN /\ at' = [at EXCEPT ![push] =
                        [pc |-> "clear", conn |-> c, len |-> 0]]
            /\ UNCHANGED scan
       ELSE scan' = scan \ {c} /\ UNCHANGED at
  /\ UNCHANGED <<clientVars, connVars, mgrVars, opVars, sendVars, bufVars,
                 sessionVars>>

\* ... resets it ...
ClearPushSend ==
  /\ At(push, "clear")
  /\ pushSend_' = [pushSend_ EXCEPT ![at[push].conn] = FALSE]
  /\ Goes(push, "acquire")
  /\ UNCHANGED <<clientVars, connVars, mgrVars, opVars, writeLock_, bufVars,
                 scan, sessionVars>>

\* Mutant: the lock is not asked for.
AcquireAlways ==
  /\ At(push, "acquire")
  /\ writeLock_' = [writeLock_ EXCEPT ![at[push].conn] = TRUE]
  /\ Goes(push, "remain")
  /\ UNCHANGED <<clientVars, connVars, mgrVars, opVars, pushSend_, bufVars,
                 scan, sessionVars>>

compareAndSwap(c) ==
  /\ ~writeLock_[c]
  /\ writeLock_' = [writeLock_ EXCEPT ![c] = TRUE]

\* ... and starts a write if no other is under way.
TryAcquireWriteLock ==
  /\ At(push, "acquire")
  /\ LET c == at[push].conn IN
     \/ compareAndSwap(c) /\ Goes(push, "remain") /\ UNCHANGED <<mutex_, scan>>
     \/ writeLock_[c] /\ Returns(push, TRUE) /\ UNCHANGED writeLock_
  /\ UNCHANGED <<clientVars, connVars, connections_, opVars, pushSend_, bufVars,
                 sessionVars>>

Push == PassBegin \/ PassEnd \/ DoPushSend \/ ClearPushSend
        \/ TryAcquireWriteLock \/ Connection(push)

-----------------------------------------------------------------------------
(* The session thread.                                                     *)

serverVars == <<clientVars, connVars, mgrVars, opVars, at, scan>>

\* CSyncQueue::deEnqueue, called until the queue is empty.
deEnqueue ==
  /\ sessionList_' = sessionList_ \cup watingSesion_
  /\ watingSesion_' = {}

\* checkSession takes the waiting sessions over ...
CheckWaiting ==
  /\ spc = "drain"
  /\ deEnqueue
  /\ todo' = sessionList_'
  /\ spc' = "check"
  /\ UNCHANGED <<serverVars, sendVars, bufVars, scur>>

\* Session::destroy deletes the connection, and its caller the session.
destroy(c) == session' = [session EXCEPT ![c] = "deleted"]

\* ... and deletes those that are no longer active, with their connections.
CheckSession ==
  /\ spc = "check"
  /\ \E c \in todo :
       /\ todo' = todo \ {c}
       /\ IF session[c] = "disabled"
          THEN /\ destroy(c)
               /\ sessionList_' = sessionList_ \ {c}
          ELSE UNCHANGED <<session, sessionList_>>
  /\ UNCHANGED <<clientVars, open, iocp, mgrVars, opVars, at, scan, sendVars,
                 bufVars, spc, scur, watingSesion_>>

Checked ==
  /\ spc = "check" /\ todo = {}
  /\ spc' = "update" /\ todo' = sessionList_
  /\ UNCHANGED <<serverVars, sendVars, bufVars, scur, watingSesion_,
                 sessionList_>>

\* update: the active ones handle their packets.
Update ==
  /\ spc = "update"
  /\ \E c \in todo :
       /\ todo' = todo \ {c}
       /\ IF session[c] = "active" THEN spc' = "handle" /\ scur' = c
          ELSE UNCHANGED <<spc, scur>>
  /\ UNCHANGED <<serverVars, sendVars, bufVars, watingSesion_, sessionList_>>

Updated ==
  /\ spc = "update" /\ todo = {}
  /\ spc' = "drain"
  /\ UNCHANGED <<serverVars, sendVars, bufVars, scur, todo, watingSesion_,
                 sessionList_>>

HasPacket == session[scur] = "active" /\ packetList_[scur] > 0

\* A handler writes its answer ...
ProcessMsg ==
  /\ spc = "handle" /\ HasPacket
  /\ sendBuffer_' = [sendBuffer_ EXCEPT ![scur] = @ + 1]
  /\ spc' = "notify"
  /\ UNCHANGED <<serverVars, sendVars, packetList_, scur, todo, watingSesion_,
                 sessionList_>>

pushSend(c) == pushSend_' = [pushSend_ EXCEPT ![c] = TRUE]

\* ... and tells the push thread; the packet is popped.
PushSend ==
  /\ spc = "notify"
  /\ pushSend(scur)
  /\ packetList_' = [packetList_ EXCEPT ![scur] = @ - 1]
  /\ spc' = "handle"
  /\ UNCHANGED <<serverVars, writeLock_, sendBuffer_, scur, todo,
                 watingSesion_, sessionList_>>

SessionUpdated ==
  /\ spc = "handle" /\ ~HasPacket
  /\ spc' = "update" /\ scur' = None
  /\ UNCHANGED <<serverVars, sendVars, bufVars, todo, watingSesion_,
                 sessionList_>>

SessionThread ==
  \/ CheckWaiting \/ CheckSession \/ Checked \/ Update \/ Updated
  \/ ProcessMsg \/ PushSend \/ SessionUpdated

-----------------------------------------------------------------------------
(* The network and the system.                                             *)

Complete(c, op, result, len) ==
  completions' = [completions EXCEPT ![iocp[c]] =
    Append(@, [op |-> op, conn |-> c, result |-> result, len |-> len])]

\* How an operation fails: the client is gone, or the socket was closed here.
Failure(c) ==
  (IF client[c] = "gone" \/ ~open[c] THEN {"deleted"} ELSE {})
  \cup (IF ~open[c] THEN {"other"} ELSE {})

ReadCompletes(c) ==
  /\ readOp[c] = "pending"
  /\ \/ /\ open[c] /\ (requests[c] > 0 \/ client[c] = "gone")
        /\ Complete(c, "read", "ok", requests[c])
        /\ requests' = [requests EXCEPT ![c] = 0]
     \/ /\ \E f \in Failure(c) : Complete(c, "read", f, 0)
        /\ UNCHANGED requests
  /\ readOp' = [readOp EXCEPT ![c] = "queued"]
  /\ UNCHANGED <<client, rounds, answers, received, connVars, mgrVars, writeOp,
                 writeLen, at, scan, sendVars, bufVars, sessionVars>>

\* A write completes when the client has what was sent: SO_SNDBUF is 0, and
\* what the client sends afterwards acknowledges it.
WriteCompletes(c) ==
  /\ writeOp[c] = "pending"
  /\ \/ /\ open[c]
        /\ \E k \in 1..writeLen[c] :
             /\ Complete(c, "write", "ok", k)
             /\ answers' = [answers EXCEPT ![c] = @ + k]
     \/ /\ \E f \in Failure(c) : Complete(c, "write", f, 0)
        /\ UNCHANGED answers
  /\ writeOp' = [writeOp EXCEPT ![c] = "queued"]
  /\ UNCHANGED <<client, rounds, requests, received, connVars, mgrVars, readOp,
                 writeLen, at, scan, sendVars, bufVars, sessionVars>>

Network == \E c \in Conn : ReadCompletes(c) \/ WriteCompletes(c)

-----------------------------------------------------------------------------

\* A worker, the push thread or the listener holds a pointer to a connection,
\* or an operation will bring one back.
Holders(c) == {t \in Thread : at[t].conn = c}

\* The pointer is used after the deletion; what follows is undefined and not
\* modelled.
Dangling == \E c \in Conn : session[c] = "deleted" /\ Holders(c) # {}

Clients == UNCHANGED <<connVars, mgrVars, opVars, at, scan, sendVars, bufVars,
                       sessionVars>>

Next ==
  /\ ~Dangling
  /\ \/ Client /\ Clients
     \/ Listener \/ Connection(listener)
     \/ \E p \in Port : Worker(p)
     \/ Push \/ SessionThread \/ Network

Spec == Init /\ [][Next]_vars

\* Every thread is scheduled, the network brings what is sent, and a client
\* goes on until it is killed.  Whoever waits for a mutex that is free again
\* and again gets it.
Fairness ==
  /\ \A c \in Conn : WF_vars(~Dangling /\ ClientStep(c) /\ Clients)
                   /\ WF_vars(~Dangling /\ ReadCompletes(c))
                   /\ WF_vars(~Dangling /\ WriteCompletes(c))
  /\ WF_vars(~Dangling /\ (Listener \/ Connection(listener)))
  /\ SF_vars(~Dangling /\ AddConnection)
  /\ \A p \in Port : /\ WF_vars(~Dangling /\ Worker(p))
                     /\ SF_vars(~Dangling /\ RemoveConnection(p))
                     /\ SF_vars(~Dangling /\ OnRead(p))
  /\ WF_vars(~Dangling /\ Push) /\ SF_vars(~Dangling /\ PassBegin)
  /\ WF_vars(~Dangling /\ SessionThread)

FairSpec == Spec /\ Fairness

-----------------------------------------------------------------------------
(* Properties                                                              *)

In(t, c, pcs) == at[t].conn = c /\ at[t].pc \in pcs
Closing(c) == \E t \in Thread : In(t, c, {"closesocket", "erase", "kill"})

Writers(c) == {t \in Thread : In(t, c, {"remove", "remain", "release", "send"})}
Writes(c) == Cardinality(Writers(c)) + (IF writeOp[c] = "none" THEN 0 ELSE 1)

\* The structure writeIoData_ and the memory of the send buffer belong to one
\* write at a time: writeLock_ is taken while an operation is outstanding or a
\* thread is in startNextWrite, it passes from the one to the other without
\* being released, and it is not left behind on a connection that works.
WriteLockHasOneOwner ==
  \A c \in Conn :
    /\ Writes(c) <= 1
    /\ Writes(c) = 1 => writeLock_[c]
    /\ writeLock_[c] /\ open[c] /\ ~Closing(c) => Writes(c) = 1

Readers(c) == {t \in Thread : In(t, c, {"recv", "data", "onRead"})}
Reads(c) == Cardinality(Readers(c)) + (IF readOp[c] = "none" THEN 0 ELSE 1)

\* The same of readIoData_ and the read buffer, which nothing locks: from its
\* registration on a connection that works has one read under way, never two
\* and never none.
OneReadAtATime ==
  \A c \in Conn :
    /\ Reads(c) <= 1
    /\ c \in connections_ /\ open[c] /\ ~Closing(c) => Reads(c) = 1

\* The one element of S, or 0 if there is none.
TheOnly(S) == IF S = {} THEN 0 ELSE CHOOSE x \in S : TRUE

\* The lengths of what is queued and of what is in the hand of a thread: there
\* is one of each at most, as the two properties above say.
Queued ==
  UNION {{completions[p][i] : i \in DOMAIN completions[p]} : p \in Port}
QueuedLen(c, op) ==
  TheOnly({r.len : r \in {q \in Queued : q.op = op /\ q.conn = c}})
HeldLen(c, pcs) == TheOnly({at[t].len : t \in {u \in Thread : In(u, c, pcs)}})

\* Every request is answered once: it is on its way, read, with the session, or
\* its answer is in the send buffer or with the client.  What the client
\* has stays in the send buffer until the worker learns of it.
AnsweredOnce ==
  \A c \in Conn : client[c] # "gone" =>
    Asked(c) =
      requests[c] + QueuedLen(c, "read") + HeldLen(c, {"data", "onRead"})
      + packetList_[c] - (IF spc = "notify" /\ scur = c THEN 1 ELSE 0)
      + sendBuffer_[c] - QueuedLen(c, "write") - HeldLen(c, {"remove"})
      + answers[c] + received[c]

\* Nothing leads back to a deleted connection any more.
Forgotten(c) ==
  session[c] = "deleted" /\ Holders(c) = {}
  /\ readOp[c] = "none" /\ writeOp[c] = "none"

\* Only a thread that was with the connection when its session was deleted, or
\* an operation that was outstanding then, can use it afterwards: once both
\* are gone no thread finds it in the map and no port reports an operation of
\* it again.
ForgottenForGood == [][\A c \in Conn : Forgotten(c) => Forgotten(c)']_vars

\* Each round of the client ends, whatever wake-ups of the push thread are lost
\* between the last look at the send buffer and the release of the lock.
ClientIsAnswered ==
  \A c \in Conn : client[c] = "recv" ~> client[c] # "recv" \/ Dangling

\* The connection of a client that is gone is deleted in the end.
DeadClientIsReclaimed ==
  \A c \in Conn :
    client[c] = "gone" /\ session[c] # "none" ~>
      session[c] = "deleted" \/ Dangling
=============================================================================

---------------------------- MODULE InlineServer ----------------------------
(***************************************************************************)
(* The epoll server without push and session thread (singlethread): each   *)
(* worker, after its batch of events, runs CSessionMgr::update itself, and *)
(* an answer is sent by the handler that writes it.  sessionList_ is       *)
(* common to the workers and not locked.                                   *)
(*                                                                         *)
(* A worker is named by its epoll.  What is undefined is not modelled: the *)
(* system stops in a state whose fate says why.                            *)
(*                                                                         *)
(* The system calls name a socket by its descriptor number, which a new    *)
(* connection may get as soon as the old one has closed it.                *)
(***************************************************************************)
EXTENDS TcpClient, FiniteSets

CONSTANTS
  Epoll,
  Fd,         \* the descriptor numbers
  Slow,       \* the clients whose socket may take less than is sent
  BufferSize, \* how many answers the send buffer has room for
  None

ASSUME ServerAssumption ==
  /\ Epoll # {} /\ IsFiniteSet(Epoll)
  /\ Slow \subseteq Conn /\ BufferSize \in Nat \ {0}
  /\ None \notin Conn \cup Epoll \cup Fd

VARIABLES
  session,      \* the Session and its connection: "none", "active",
                \* "disabled", "deleted"
  socket_,      \* the number of a connection, also after it was closed
  open,         \* its socket is not closed
  epollFd,      \* the epoll of a connection
  registered,   \* the sockets their epolls know
  armed,        \* its one-shot registration will report an event
  connections_,
  holder,       \* the owner of Session::mutex_
  packetList_, sendBuffer_, \* of the session: requests, answers
  lpc, lcur,    \* the listener: where, with which connection
  at,           \* the workers: where, with which connection, packets to push
  batch,        \* the events they have not yet looked at
  todo,         \* the sessions their loops have not yet come to
  watingSesion_, sessionList_,
  fate,         \* "runs", "race", "SIGPIPE"
  foreign       \* history: the answers for others a client was sent

connVars ==
  <<session, socket_, open, epollFd, registered, armed, connections_>>
bufVars == <<holder, packetList_, sendBuffer_>>
listenerVars == <<lpc, lcur>>
workerVars == <<at, batch, todo>>
listVars == <<watingSesion_, sessionList_, fate, foreign>>
vars == <<clientVars, connVars, bufVars, listenerVars, workerVars, listVars>>

Init ==
  /\ ClientInit
  /\ session = [c \in Conn |-> "none"]
  /\ socket_ = [c \in Conn |-> None] /\ open = [c \in Conn |-> FALSE]
  /\ epollFd = [c \in Conn |-> None]
  /\ registered = {} /\ armed = [c \in Conn |-> FALSE]
  /\ connections_ = {}
  /\ holder = [c \in Conn |-> None]
  /\ packetList_ = [c \in Conn |-> 0] /\ sendBuffer_ = [c \in Conn |-> 0]
  /\ lpc = "idle" /\ lcur = None
  /\ at = [w \in Epoll |-> [pc |-> "wait", conn |-> None, len |-> 0]]
  /\ batch = [w \in Epoll |-> {}] /\ todo = [w \in Epoll |-> {}]
  /\ watingSesion_ = {} /\ sessionList_ = {} /\ fate = "runs"
  /\ foreign = [c \in Conn |-> 0]

-----------------------------------------------------------------------------
(* The listener.                                                           *)

\* The connections, open or not, that a descriptor number stands for.
Numbered(f) == {c \in Conn : socket_[c] = f}
Opened(f) == {c \in Numbered(f) : open[c]}

\* The kernel gives a number that is not in use.
Accept(c, f) ==
  /\ lpc = "idle" /\ session[c] = "none" /\ client[c] # "connect"
  /\ Opened(f) = {}
  /\ session' = [session EXCEPT ![c] = "active"]
  /\ socket_' = [socket_ EXCEPT ![c] = f]
  /\ open' = [open EXCEPT ![c] = TRUE]
  /\ lpc' = "addSession" /\ lcur' = c
  /\ UNCHANGED <<clientVars, epollFd, registered, armed, connections_, bufVars,
                 workerVars, listVars>>

\* CSyncQueue, as watingSesion_ is used.
enqueue(item) == watingSesion_' = watingSesion_ \cup {item}

AddSession ==
  /\ lpc = "addSession"
  /\ enqueue(lcur)
  /\ lpc' = "addConnection"
  /\ UNCHANGED <<clientVars, connVars, bufVars, lcur, workerVars, sessionList_,
                 fate, foreign>>

\* The epolls are given out in turn: to the one that was given to the fewest.
Given(w) == Cardinality({c \in Conn : epollFd[c] = w})

Regist(c) ==
  /\ registered' = registered \cup {c}
  /\ armed' = [armed EXCEPT ![c] = TRUE]

\* insert does nothing if the map has an entry with the number.
AddConnection ==
  /\ lpc = "addConnection"
  /\ connections_' =
       connections_ \cup IF Numbered(socket_[lcur]) \cap connections_ = {}
                         THEN {lcur} ELSE {}
  /\ \E w \in Epoll : /\ \A v \in Epoll : Given(w) <= Given(v)
                      /\ epollFd' = [epollFd EXCEPT ![lcur] = w]
  /\ Regist(lcur)
  /\ lpc' = "idle" /\ lcur' = None
  /\ UNCHANGED <<clientVars, session, socket_, open, bufVars, workerVars,
                 listVars>>

Listener ==
  (\E c \in Conn, f \in Fd : Accept(c, f)) \/ AddSession \/ AddConnection

-----------------------------------------------------------------------------
(* A worker: the events of a batch.                                        *)

At(w, pc) == at[w].pc = pc
Goes(w, pc) == at' = [at EXCEPT ![w].pc = pc]
BackTo(w, pc) == at' = [at EXCEPT ![w] = [pc |-> pc, conn |-> None, len |-> 0]]

Reportable(w) ==
  {c \in Conn : epollFd[c] = w /\ armed[c] /\ open[c]
                /\ (requests[c] > 0 \/ client[c] = "gone")}

\* What is ready is reported and disarmed; after half a second, nothing.
EpollWait(w) ==
  /\ At(w, "wait")
  /\ batch' = [batch EXCEPT ![w] =
                 {[conn |-> c, hup |-> client[c] = "gone"] :
                    c \in Reportable(w)}]
  /\ armed' = [c \in Conn |-> armed[c] /\ c \notin Reportable(w)]
  /\ Goes(w, "events")
  /\ UNCHANGED <<clientVars, session, socket_, open, epollFd, registered,
                 connections_, bufVars, listenerVars, todo, listVars>>

\* Mutant: EPOLLRDHUP is not looked at.
NextEventReads(w) ==
  /\ At(w, "events")
  /\ \E e \in batch[w] :
       /\ batch' = [batch EXCEPT ![w] = @ \ {e}]
       /\ at' = [at EXCEPT ![w] = [pc |-> "recv", conn |-> e.conn, len |-> 0]]
  /\ UNCHANGED <<clientVars, connVars, bufVars, listenerVars, todo, listVars>>

\* A client that was gone has been reported by EPOLLRDHUP.
NextEvent(w) ==
  /\ At(w, "events")
  /\ \E e \in batch[w] :
       /\ batch' = [batch EXCEPT ![w] = @ \ {e}]
       /\ at' = [at EXCEPT ![w] = [pc |-> IF e.hup THEN "close" ELSE "recv",
                                  conn |-> e.conn, len |-> 0]]
  /\ UNCHANGED <<clientVars, connVars, bufVars, listenerVars, todo, listVars>>

\* Read: a session that was killed drops what it receives.  A full buffer is
\* followed by another recv.
Recv(w) ==
  /\ At(w, "recv")
  /\ LET c == at[w].conn IN
     /\ requests[c] > 0
     /\ requests' = [requests EXCEPT ![c] = 0]
     /\ at' = [at EXCEPT ![w].pc = "onRead",
                         ![w].len = IF session[c] = "active" THEN requests[c]
                                    ELSE 0]
  /\ UNCHANGED <<client, rounds, answers, received, connVars, bufVars,
                 listenerVars, batch, todo, listVars>>

\* EAGAIN, or the end of the stream: with the errno of an earlier call recv
\* returning 0 can pass for EAGAIN.
RecvNothing(w) ==
  /\ At(w, "recv")
  /\ requests[at[w].conn] = 0 \/ client[at[w].conn] = "gone"
  /\ \E pc \in {"rearm"} \cup
               (IF client[at[w].conn] = "gone" THEN {"close"} ELSE {}) :
       Goes(w, pc)
  /\ UNCHANGED <<clientVars, connVars, bufVars, listenerVars, batch, todo,
                 listVars>>

\* Session::pushPacket, under the mutex of the session.
pushPacket(c) ==
  /\ holder[c] = None
  /\ packetList_' = [packetList_ EXCEPT ![c] = @ + 1]

\* onRead finds a packet in the buffer, and then no more.
OnRead(w) ==
  /\ At(w, "onRead") /\ at[w].len > 0
  /\ pushPacket(at[w].conn)
  /\ at' = [at EXCEPT ![w].len = @ - 1]
  /\ UNCHANGED <<clientVars, connVars, holder, sendBuffer_, listenerVars, batch,
                 todo, listVars>>

NoPacket(w) ==
  /\ At(w, "onRead") /\ at[w].len = 0
  /\ Goes(w, "rearm") \/ Goes(w, "recv")
  /\ UNCHANGED <<clientVars, connVars, bufVars, listenerVars, batch, todo,
                 listVars>>

\* Mutant: the registration is not armed again.
RearmForgotten(w) ==
  /\ At(w, "rearm")
  /\ BackTo(w, "events")
  /\ UNCHANGED <<clientVars, connVars, bufVars, listenerVars, batch, todo,
                 listVars>>

\* A socket the epoll does not know is not armed.
ModifyRegistInfo(w) ==
  /\ At(w, "rearm")
  /\ armed' = [armed EXCEPT ![at[w].conn] = at[w].conn \in registered]
  /\ BackTo(w, "events")
  /\ UNCHANGED <<clientVars, session, socket_, open, epollFd, registered,
                 connections_, bufVars, listenerVars, batch, todo, listVars>>

\* The registrations of some sockets end.
Forget(cs) ==
  /\ registered' = registered \ cs
  /\ armed' = [c \in Conn |-> armed[c] /\ c \notin cs]

\* Mutant: the session is killed first.
CloseSocketKills(w) ==
  /\ At(w, "close")
  /\ open' = [open EXCEPT ![at[w].conn] = FALSE]
  /\ session' = [session EXCEPT ![at[w].conn] = "disabled"]
  /\ Forget({at[w].conn})
  /\ Goes(w, "erase")
  /\ UNCHANGED <<clientVars, socket_, epollFd, connections_, bufVars,
                 listenerVars, batch, todo, listVars>>

\* The end of a socket ends its registration.
CloseSocket(w) ==
  /\ At(w, "close")
  /\ open' = [open EXCEPT ![at[w].conn] = FALSE]
  /\ Forget({at[w].conn})
  /\ Goes(w, "erase")
  /\ UNCHANGED <<clientVars, session, socket_, epollFd, connections_, bufVars,
                 listenerVars, batch, todo, listVars>>

\* What has the number by now loses its registration, if it is with the same
\* epoll: the number of a connection that was closed may be that of a new one.
UnRegist(c) == Forget({d \in Opened(socket_[c]) : epollFd[d] = epollFd[c]})

\* The map drops its entry for the number.
RemoveConnection(w) ==
  /\ At(w, "erase")
  /\ UnRegist(at[w].conn)
  /\ connections_' = connections_ \ Numbered(socket_[at[w].conn])
  /\ Goes(w, "kill")
  /\ UNCHANGED <<clientVars, session, socket_, open, epollFd, bufVars,
                 listenerVars, batch, todo, listVars>>

Kill(w) ==
  /\ At(w, "kill")
  /\ session' = [session EXCEPT ![at[w].conn] = "disabled"]
  /\ BackTo(w, "events")
  /\ UNCHANGED <<clientVars, socket_, open, epollFd, registered, armed,
                 connections_, bufVars, listenerVars, batch, todo, listVars>>

BatchEnd(w) ==
  /\ At(w, "events") /\ batch[w] = {}
  /\ Goes(w, "drain")
  /\ UNCHANGED <<clientVars, connVars, bufVars, listenerVars, batch, todo,
                 listVars>>

Events(w) ==
  \/ EpollWait(w) \/ NextEvent(w) \/ Recv(w) \/ RecvNothing(w) \/ OnRead(w)
  \/ NoPacket(w) \/ ModifyRegistInfo(w) \/ CloseSocket(w)
  \/ RemoveConnection(w) \/ Kill(w) \/ BatchEnd(w)

-----------------------------------------------------------------------------
(* A worker: CSessionMgr::update.                                          *)

\* The worker reads or is about to change the session list.
InList(w) == at[w].pc \in {"append", "check", "update", "lock", "handle",
                          "send", "pop", "stuck"}

\* A change of the list while another worker is in it.
Changes(w) ==
  fate' = IF \E v \in Epoll \ {w} : InList(v) THEN "race" ELSE fate

\* checkSession looks whether sessions are waiting ...
CheckWaiting(w) ==
  /\ At(w, "drain")
  /\ IF watingSesion_ # {} THEN Goes(w, "append") /\ UNCHANGED todo
     ELSE Goes(w, "check") /\ todo' = [todo EXCEPT ![w] = sessionList_]
  /\ UNCHANGED <<clientVars, connVars, bufVars, listenerVars, batch, listVars>>

\* CSyncQueue::deEnqueue, called until the queue is empty.
deEnqueue ==
  /\ sessionList_' = sessionList_ \cup watingSesion_
  /\ watingSesion_' = {}

\* ... appends them ...
AppendWaiting(w) ==
  /\ At(w, "append")
  /\ deEnqueue
  /\ todo' = [todo EXCEPT ![w] = sessionList_']
  /\ Goes(w, "check")
  /\ Changes(w)
  /\ UNCHANGED <<clientVars, connVars, bufVars, listenerVars, batch, foreign>>

\* Session::destroy deletes the connection, and its caller the session.
destroy(c) == session' = [session EXCEPT ![c] = "deleted"]

\* ... and deletes those that were killed.
CheckSession(w) ==
  /\ At(w, "check")
  /\ \E c \in todo[w] :
       /\ todo' = [todo EXCEPT ![w] = @ \ {c}]
       /\ IF session[c] = "disabled"
          THEN /\ destroy(c)
               /\ sessionList_' = sessionList_ \ {c}
               /\ Changes(w)
          ELSE UNCHANGED <<session, sessionList_, fate>>
  /\ UNCHANGED <<clientVars, socket_, open, epollFd, registered, armed,
                 connections_, bufVars, listenerVars, at, batch, watingSesion_,
                 foreign>>

Checked(w) ==
  /\ At(w, "check") /\ todo[w] = {}
  /\ Goes(w, "update")
  /\ todo' = [todo EXCEPT ![w] = sessionList_]
  /\ UNCHANGED <<clientVars, connVars, bufVars, listenerVars, batch, listVars>>

Update(w) ==
  /\ At(w, "update")
  /\ \E c \in todo[w] :
       /\ todo' = [todo EXCEPT ![w] = @ \ {c}]
       /\ IF session[c] = "active"
          THEN at' = [at EXCEPT ![w].pc = "lock", ![w].conn = c]
          ELSE UNCHANGED at
  /\ UNCHANGED <<clientVars, connVars, bufVars, listenerVars, batch, listVars>>

Updated(w) ==
  /\ At(w, "update") /\ todo[w] = {}
  /\ Goes(w, "wait")
  /\ UNCHANGED <<clientVars, connVars, bufVars, listenerVars, batch, todo,
                 listVars>>

\* Mutant: the mutex is not taken.
LockNothing(w) ==
  /\ At(w, "lock")
  /\ Goes(w, "handle")
  /\ UNCHANGED <<clientVars, connVars, bufVars, listenerVars, batch, todo,
                 listVars>>

\* Session::update.
Lock(w) ==
  /\ At(w, "lock") /\ holder[at[w].conn] = None
  /\ holder' = [holder EXCEPT ![at[w].conn] = w]
  /\ Goes(w, "handle")
  /\ UNCHANGED <<clientVars, connVars, packetList_, sendBuffer_, listenerVars,
                 batch, todo, listVars>>

HasPacket(c) == session[c] = "active" /\ packetList_[c] > 0

getFreeSize(c) == BufferSize - sendBuffer_[c]

\* CSyncBuffer::resize locks the mutex that write already holds, and which is
\* not recursive: it never returns.
resize(w) == Goes(w, "stuck") /\ UNCHANGED sendBuffer_

\* CSyncBuffer::write, with what comes after it.
write(w, c, pc) ==
  IF getFreeSize(c) > 0
  THEN sendBuffer_' = [sendBuffer_ EXCEPT ![c] = @ + 1] /\ Goes(w, pc)
  ELSE resize(w)

\* Session::pushSendPacket writes to the send buffer and calls Write itself.
pushSendPacket(w) == write(w, at[w].conn, "send")

\* A handler makes its answer.
ProcessMsg(w) ==
  /\ At(w, "handle")
  /\ HasPacket(at[w].conn)
  /\ pushSendPacket(w)
  /\ UNCHANGED <<clientVars, connVars, holder, packetList_, listenerVars, batch,
                 todo, listVars>>

removeSendData(c, k) == sendBuffer_' = [sendBuffer_ EXCEPT ![c] = @ - k]

\* Write sends all that is in the buffer, or, to a slow client, less: to the
\* connection that has the number by now.
Send(w) ==
  /\ At(w, "send")
  /\ LET c == at[w].conn IN
     \E d \in Opened(socket_[c]) :
     \E k \in IF d \in Slow THEN 0..sendBuffer_[c] ELSE {sendBuffer_[c]} :
       /\ answers' = [answers EXCEPT ![d] = @ + k]
       /\ foreign' = [foreign EXCEPT ![d] = IF d = c THEN @ ELSE @ + k]
       /\ removeSendData(c, k)
  /\ Goes(w, "pop")
  /\ UNCHANGED <<client, rounds, requests, received, connVars, holder,
                 packetList_, listenerVars, batch, todo, watingSesion_,
                 sessionList_, fate>>

\* Write fails, which pushSendPacket does not look at; a send to a client that
\* is gone can also end the process, which does not ignore SIGPIPE.
SendFails(w) ==
  /\ At(w, "send")
  /\ LET peers == Opened(socket_[at[w].conn]) IN
     \/ peers = {} /\ UNCHANGED fate
     \/ \E d \in peers : client[d] = "gone" /\ fate' \in {fate, "SIGPIPE"}
  /\ Goes(w, "pop")
  /\ UNCHANGED <<clientVars, connVars, bufVars, listenerVars, batch, todo,
                 watingSesion_, sessionList_, foreign>>

Pop(w) ==
  /\ At(w, "pop")
  /\ packetList_' = [packetList_ EXCEPT ![at[w].conn] = @ - 1]
  /\ Goes(w, "handle")
  /\ UNCHANGED <<clientVars, connVars, holder, sendBuffer_, listenerVars, batch,
                 todo, listVars>>

SessionUpdated(w) ==
  /\ At(w, "handle") /\ ~HasPacket(at[w].conn)
  /\ holder' = [holder EXCEPT ![at[w].conn] = None]
  /\ BackTo(w, "update")
  /\ UNCHANGED <<clientVars, connVars, packetList_, sendBuffer_, listenerVars,
                 batch, todo, listVars>>

Sessions(w) ==
  \/ CheckWaiting(w) \/ AppendWaiting(w) \/ CheckSession(w) \/ Checked(w)
  \/ Update(w) \/ Updated(w) \/ Lock(w) \/ ProcessMsg(w) \/ Send(w)
  \/ SendFails(w) \/ Pop(w) \/ SessionUpdated(w)

-----------------------------------------------------------------------------

notClient ==
  <<connVars, bufVars, listenerVars, workerVars, listVars>>

\* What client c does, if it is not killed.
ClientAlone(c) == ClientStep(c) /\ UNCHANGED notClient

Next ==
  /\ fate = "runs"
  /\ \/ Client /\ UNCHANGED notClient
     \/ Listener
     \/ \E w \in Epoll : Events(w) \/ Sessions(w)

Spec == Init /\ [][Next]_vars

\* Every thread is scheduled, and a client goes on until it is killed.  Whoever
\* waits for the mutex of a session that is free again and again gets it.
Fairness ==
  /\ \A c \in Conn : WF_vars(fate = "runs" /\ ClientAlone(c))
  /\ WF_vars(fate = "runs" /\ Listener)
  /\ \A w \in Epoll : /\ WF_vars(fate = "runs" /\ (Events(w) \/ Sessions(w)))
                      /\ SF_vars(fate = "runs" /\ OnRead(w))
                      /\ SF_vars(fate = "runs" /\ Lock(w))

FairSpec == Spec /\ Fairness

-----------------------------------------------------------------------------
(* Properties                                                              *)

\* As long as no worker changes the session list under another, nobody uses a
\* deleted connection: only the worker of its epoll closes it, and kill is the
\* last that worker does with it.
NoDanglingPointer ==
  fate = "runs" =>
    \A c \in Conn : session[c] = "deleted" =>
      \A w \in Epoll : /\ at[w].conn # c /\ c \notin todo[w]
                       /\ \A e \in batch[w] : e.conn # c

\* Packets that the worker of the epoll of c has received and not yet pushed.
Pushing(c) ==
  LET w == epollFd[c] IN
    IF w # None /\ At(w, "onRead") /\ at[w].conn = c THEN at[w].len ELSE 0

\* How many workers handle a packet of c.
Handled(c) ==
  Cardinality({w \in Epoll : at[w].conn = c /\ at[w].pc \in {"send", "pop"}})

\* A connection that has the number of c was closed, its client gone.
Succeeds(c) ==
  \E d \in Numbered(socket_[c]) \ {c} : ~open[d] /\ client[d] = "gone"

\* Every request is answered once, however many workers run update: one of them
\* at a time handles it, and it is on its way, read, with the session, or its
\* answer is in the send buffer or with the client.  A client can be sent more
\* than that, what a worker still had to answer to a client that is gone, but
\* only if its connection has the number of that client's.
AnsweredOnce ==
  \A c \in Conn : client[c] # "gone" /\ fate = "runs" =>
    /\ Handled(c) <= 1
    /\ Asked(c) + foreign[c] =
         requests[c] + Pushing(c) + packetList_[c] - Handled(c)
         + sendBuffer_[c] + answers[c] + received[c]
    /\ foreign[c] > 0 => Succeeds(c)

\* An answer is left in the send buffer, as the socket took less than was sent;
\* nothing ever watches for a socket that can be written to again.
LeftOver(c) ==
  /\ sendBuffer_[c] > 0
  /\ \A w \in Epoll : ~(At(w, "send") /\ at[w].conn = c)

\* The registration of an open connection was ended with that of the connection
\* whose number it has got: no epoll will report it.
Overtaken(c) == open[c] /\ epollFd[c] # None /\ c \notin registered

\* There is no number for a connection.
Refused(c) == session[c] = "none" /\ \A f \in Fd : Opened(f) # {}

\* Each round of a client ends, unless there was no number for its connection,
\* its registration was ended with another's, or its socket has once taken less
\* than was sent.
ClientIsAnswered ==
  \A c \in Conn :
    client[c] = "recv" ~>
      client[c] # "recv" \/ Refused(c) \/ Overtaken(c) \/ LeftOver(c)
        \/ fate # "runs"

\* The connection of a client that is gone is deleted in the end, unless its
\* registration was ended with another's or a worker is stuck in resize for
\* what a client has not taken.
DeadClientIsReclaimed ==
  \A c \in Conn :
    client[c] = "gone" /\ session[c] # "none" ~>
      \/ session[c] = "deleted"
      \/ Overtaken(c)
      \/ \E w \in Epoll : At(w, "stuck")
      \/ fate # "runs"
=============================================================================

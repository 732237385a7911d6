------------------------ MODULE InlineServer_proofs -------------------------
(***************************************************************************)
(* The server whose workers also handle, for any number of connections and *)
(* workers and any size of the send buffer: as long as no worker changes   *)
(* the session list under another, nobody uses a deleted connection, and   *)
(* every request is handled by one worker and answered once.               *)
(***************************************************************************)
EXTENDS InlineServer, FiniteSetTheorems, TLAPS

\* A worker that has a connection in hand for an event, or a session to update.
EventAt == {"recv", "onRead", "rearm", "close", "erase", "kill"}
HandlerAt == {"lock", "handle", "send", "pop", "stuck"}
Pc == EventAt \cup HandlerAt
      \cup {"wait", "events", "drain", "append", "check", "update"}

ClientTypeOK ==
  /\ client \in [Conn -> {"connect", "sendA", "sendB", "recv", "gone"}]
  /\ rounds \in [Conn -> Nat]
  /\ requests \in [Conn -> Nat] /\ answers \in [Conn -> Nat]
  /\ received \in [Conn -> Nat]

ConnTypeOK ==
  /\ session \in [Conn -> {"none", "active", "disabled", "deleted"}]
  /\ socket_ \in [Conn -> Fd \cup {None}]
  /\ open \in [Conn -> BOOLEAN]
  /\ registered \subseteq Conn /\ armed \in [Conn -> BOOLEAN]
  /\ epollFd \in [Conn -> Epoll \cup {None}]
  /\ connections_ \subseteq Conn
  /\ holder \in [Conn -> Epoll \cup {None}]
  /\ packetList_ \in [Conn -> Nat] /\ sendBuffer_ \in [Conn -> Nat]
  /\ lpc \in {"idle", "addSession", "addConnection"}
  /\ lpc # "idle" => lcur \in Conn

WorkerTypeOK ==
  /\ at \in [Epoll -> [pc : Pc, conn : Conn \cup {None}, len : Nat]]
  /\ batch \in [Epoll -> SUBSET [conn : Conn, hup : BOOLEAN]]
  /\ todo \in [Epoll -> SUBSET Conn]

ListTypeOK ==
  /\ watingSesion_ \subseteq Conn /\ sessionList_ \subseteq Conn
  /\ fate \in {"runs", "race", "SIGPIPE"}
  /\ foreign \in [Conn -> Nat]

TypeOK == ClientTypeOK /\ ConnTypeOK /\ WorkerTypeOK /\ ListTypeOK

\* A worker has a connection in hand exactly in those places, and looks at its
\* events before it comes to the sessions.
WorkerOK ==
  \A w \in Epoll :
    /\ at[w].conn = None <=> at[w].pc \notin EventAt \cup HandlerAt
    /\ batch[w] # {} => at[w].pc \in {"events"} \cup EventAt
    /\ todo[w] # {} => at[w].pc \in {"check", "update"} \cup HandlerAt

\* A session is in one list once the listener has put it there, until it is
\* deleted; a worker only goes to sessions of the list.
ListsOK ==
  /\ watingSesion_ \cap sessionList_ = {}
  /\ \A c \in watingSesion_ \cup sessionList_ :
       session[c] \in {"active", "disabled"}
  /\ \A w \in Epoll :
       /\ todo[w] \subseteq sessionList_
       /\ at[w].pc \in HandlerAt => at[w].conn \in sessionList_
  /\ lpc = "addSession" => lcur \notin watingSesion_ \cup sessionList_

\* The registration of a connection is armed, or its event is with the worker
\* of its epoll, and with nobody else; nothing of it is left after kill.
EventsOK ==
  /\ lpc # "idle" => session[lcur] = "active" /\ epollFd[lcur] = None
  /\ \A c \in Conn :
       /\ epollFd[c] = None => session[c] \in {"none", "active"}
       /\ epollFd[c] # None => session[c] # "none"
       /\ armed[c] => session[c] = "active" /\ epollFd[c] # None
  /\ \A w \in Epoll :
       /\ \A e \in batch[w] :
            /\ epollFd[e.conn] = w /\ ~armed[e.conn]
            /\ session[e.conn] = "active"
            /\ \A f \in batch[w] : e.conn = f.conn => e = f
       /\ at[w].pc \in EventAt =>
            /\ epollFd[at[w].conn] = w /\ ~armed[at[w].conn]
            /\ session[at[w].conn] = "active"
            /\ \A e \in batch[w] : e.conn # at[w].conn

\* The mutex of a session.
HolderOK ==
  /\ \A w \in Epoll, c \in Conn :
       holder[c] = w <=>
         at[w].conn = c /\ at[w].pc \in {"handle", "send", "pop", "stuck"}
  /\ \A w \in Epoll :
       at[w].pc \in {"send", "pop"} => packetList_[at[w].conn] > 0

\* The inductive invariant.
IInv ==
  /\ TypeOK
  /\ fate = "runs" => WorkerOK /\ ListsOK /\ EventsOK /\ HolderOK

USE ServerAssumption, ClientAssumption
    DEF At, Goes, BackTo, connVars, bufVars, listenerVars, workerVars, listVars,
        clientVars

-----------------------------------------------------------------------------
\* Before the first connection.
LEMMA InitIInv == Init => IInv
<1>. SUFFICES ASSUME Init PROVE IInv
  OBVIOUS
<1>. USE DEF Init
<1>1. TypeOK
  BY DEF ClientInit, TypeOK, ClientTypeOK, ConnTypeOK, WorkerTypeOK,
     ListTypeOK, Pc
<1>2. WorkerOK /\ ListsOK
  BY DEF WorkerOK, ListsOK, EventAt, HandlerAt
<1>3. EventsOK /\ HolderOK
  BY DEF EventsOK, HolderOK, EventAt
<1>. QED  BY <1>1, <1>2, <1>3 DEF IInv

\* The invariant mentions no state but the variables.
LEMMA StutterIInv == ASSUME IInv, UNCHANGED vars PROVE IInv'
<1>. USE DEF vars
<1>1. TypeOK'
  BY DEF IInv, TypeOK, ClientTypeOK, ConnTypeOK, WorkerTypeOK, ListTypeOK
<1>2. fate = "runs" => WorkerOK' /\ ListsOK'
  BY DEF IInv, WorkerOK, ListsOK
<1>3. fate = "runs" => EventsOK' /\ HolderOK'
  BY DEF IInv, EventsOK, HolderOK
<1>. QED  BY <1>1, <1>2, <1>3 DEF IInv

\* As long as the server runs: what the steps start from and lead to.
Inv == TypeOK /\ WorkerOK /\ ListsOK /\ EventsOK /\ HolderOK

\* Worker w goes on to pc with what it has in hand.
LEMMA GoesEffect ==
  ASSUME WorkerTypeOK, NEW w \in Epoll, NEW pc \in Pc, Goes(w, pc)
  PROVE  /\ at' \in [Epoll -> [pc : Pc, conn : Conn \cup {None}, len : Nat]]
         /\ at'[w].pc = pc /\ at'[w].conn = at[w].conn /\ at'[w].len = at[w].len
         /\ \A u \in Epoll : u # w => at'[u] = at[u]
  BY DEF WorkerTypeOK

\* Worker w goes on to pc and has nothing in hand.
LEMMA BackToEffect ==
  ASSUME WorkerTypeOK, NEW w \in Epoll, NEW pc \in Pc, BackTo(w, pc)
  PROVE  /\ at' \in [Epoll -> [pc : Pc, conn : Conn \cup {None}, len : Nat]]
         /\ at'[w].pc = pc /\ at'[w].conn = None /\ at'[w].len = 0
         /\ \A u \in Epoll : u # w => at'[u] = at[u]
  BY DEF WorkerTypeOK

\* What a worker has in hand is a connection that is in its epoll, or in the
\* list.
LEMMA InHand ==
  ASSUME Inv, NEW w \in Epoll, at[w].pc \in EventAt \cup HandlerAt
  PROVE  at[w].conn \in Conn
  BY DEF Inv, TypeOK, WorkerTypeOK, WorkerOK

-----------------------------------------------------------------------------
(* The listener and the clients.                                           *)

\* The socket of c is accepted.
LEMMA AcceptInv ==
  ASSUME Inv, NEW c \in Conn, NEW f \in Fd, Accept(c, f) PROVE Inv'
<1>. USE DEF Accept, Inv
<1>1. /\ session'[c] = "active" /\ session[c] = "none"
      /\ \A d \in Conn : d # c => session'[d] = session[d]
  BY DEF TypeOK, ConnTypeOK
<1>2. TypeOK'
  BY DEF TypeOK, ClientTypeOK, ConnTypeOK, WorkerTypeOK, ListTypeOK
<1>3. WorkerOK' /\ HolderOK'
  BY DEF WorkerOK, HolderOK
<1>4. ListsOK'
  BY <1>1 DEF ListsOK, TypeOK, ListTypeOK
<1>5. EventsOK'
  <2>1. epollFd[c] = None
    BY <1>1 DEF EventsOK
  <2>2. \A d \in Conn : session[d] = "active" => session'[d] = "active"
    BY <1>1
  <2>3. \A w \in Epoll : \A e \in batch[w] : e.conn \in Conn
    BY DEF TypeOK, WorkerTypeOK
  <2>. QED  BY <1>1, <2>1, <2>2, <2>3, InHand DEF EventsOK
<1>. QED  BY <1>2, <1>3, <1>4, <1>5

\* The session waits to be put in the list.
LEMMA AddSessionInv == ASSUME Inv, AddSession PROVE Inv'
<1>. USE DEF AddSession, enqueue, Inv
<1>1. TypeOK'
  BY DEF TypeOK, ClientTypeOK, ConnTypeOK, WorkerTypeOK, ListTypeOK
<1>2. WorkerOK' /\ HolderOK'
  BY DEF WorkerOK, HolderOK
<1>3. ListsOK'
  BY DEF ListsOK, EventsOK
<1>4. EventsOK'
  BY DEF EventsOK
<1>. QED  BY <1>1, <1>2, <1>3, <1>4

\* Its events go to one of the workers.
LEMMA AddConnectionInv == ASSUME Inv, AddConnection PROVE Inv'
<1>. USE DEF AddConnection, Regist, Inv
<1>1. PICK w \in Epoll : epollFd' = [epollFd EXCEPT ![lcur] = w]
  OBVIOUS
<1>2. /\ lcur \in Conn /\ epollFd[lcur] = None /\ ~armed[lcur]
      /\ session[lcur] = "active"
  BY DEF TypeOK, ConnTypeOK, EventsOK
<1>3. /\ epollFd'[lcur] = w /\ armed'[lcur]
      /\ \A d \in Conn :
           d # lcur => epollFd'[d] = epollFd[d] /\ armed'[d] = armed[d]
  BY <1>1, <1>2 DEF TypeOK, ConnTypeOK
<1>4. TypeOK'
  BY <1>1, <1>2
     DEF TypeOK, ClientTypeOK, ConnTypeOK, WorkerTypeOK, ListTypeOK
<1>5. WorkerOK' /\ HolderOK' /\ ListsOK'
  BY DEF WorkerOK, HolderOK, ListsOK
<1>6. EventsOK'
  <2>1. \A v \in Epoll : \A e \in batch[v] : e.conn \in Conn
    BY DEF TypeOK, WorkerTypeOK
  <2>. QED  BY <1>2, <1>3, <2>1, InHand DEF EventsOK
<1>. QED  BY <1>4, <1>5, <1>6

\* A client changes nothing but what is on its way.
LEMMA ClientInv ==
  ASSUME Inv, Client, UNCHANGED notClient PROVE Inv'
<1>. USE DEF notClient, Inv
<1>1. ClientTypeOK'
  BY DEF Client, ClientStep, Connect, SendA, SendB, SendRequest, Receive,
     Killed, TypeOK, ClientTypeOK
<1>2. TypeOK'
  BY <1>1 DEF TypeOK, ConnTypeOK, WorkerTypeOK, ListTypeOK
<1>3. WorkerOK' /\ HolderOK' /\ ListsOK' /\ EventsOK'
  BY DEF WorkerOK, HolderOK, ListsOK, EventsOK
<1>. QED  BY <1>2, <1>3

-----------------------------------------------------------------------------
(* A worker: the events of a batch.                                        *)

\* What is ready is reported to the worker of its epoll, and disarmed.
LEMMA EpollWaitInv == ASSUME Inv, NEW w \in Epoll, EpollWait(w) PROVE Inv'
<1>. USE DEF EpollWait, Inv
<1>1. /\ at' \in [Epoll -> [pc : Pc, conn : Conn \cup {None}, len : Nat]]
      /\ at'[w].pc = "events" /\ at'[w].conn = at[w].conn
      /\ \A u \in Epoll : u # w => at'[u] = at[u]
  BY GoesEffect DEF TypeOK, Pc
<1>2. /\ batch'[w] = {[conn |-> c, hup |-> client[c] = "gone"] :
                        c \in Reportable(w)}
      /\ \A u \in Epoll : u # w => batch'[u] = batch[u]
      /\ \A c \in Conn : armed'[c] = (armed[c] /\ c \notin Reportable(w))
  BY DEF TypeOK, WorkerTypeOK
<1>3. \A c \in Reportable(w) :
        c \in Conn /\ epollFd[c] = w /\ armed[c] /\ session[c] = "active"
  BY DEF Reportable, EventsOK
<1>4. \A u \in Epoll : \A e \in batch[u] : e.conn \in Conn
  BY DEF TypeOK, WorkerTypeOK
<1>5. \A e \in batch'[w] : e.conn \in Reportable(w)
                           /\ e = [conn |-> e.conn,
                                   hup |-> client[e.conn] = "gone"]
  BY <1>2
<1>6. TypeOK'
  <2>1. batch'[w] \subseteq [conn : Conn, hup : BOOLEAN]
    <3>1. \A c \in Conn : (client[c] = "gone") \in BOOLEAN
      OBVIOUS
    <3>2. ASSUME NEW c \in Reportable(w)
          PROVE  [conn |-> c, hup |-> client[c] = "gone"]
                   \in [conn : Conn, hup : BOOLEAN]
      BY <1>3, <3>1
    <3>3. ASSUME NEW e \in batch'[w]
          PROVE  e \in [conn : Conn, hup : BOOLEAN]
      <4>1. PICK c \in Reportable(w) :
              e = [conn |-> c, hup |-> client[c] = "gone"]
        BY <1>2, <3>3
      <4>. QED  BY ONLY <3>2, <4>1
    <3>. QED  BY <3>3
  <2>2. batch' \in [Epoll -> SUBSET [conn : Conn, hup : BOOLEAN]]
    BY <2>1 DEF TypeOK, WorkerTypeOK
  <2>3. armed' \in [Conn -> BOOLEAN]
    BY DEF TypeOK, ConnTypeOK
  <2>. QED
    BY <1>1, <2>2, <2>3
       DEF TypeOK, ClientTypeOK, ConnTypeOK, WorkerTypeOK, ListTypeOK
<1>7. WorkerOK'
  BY <1>1, <1>2 DEF WorkerOK, EventAt, HandlerAt
<1>8. ListsOK' /\ HolderOK'
  BY <1>1 DEF ListsOK, HolderOK, HandlerAt
<1>9. EventsOK'
  <2>1. \A c \in Conn : armed'[c] => armed[c]
    BY <1>2
  <2>2. \A e \in batch'[w] :
          /\ epollFd[e.conn] = w /\ ~armed'[e.conn]
          /\ session[e.conn] = "active"
          /\ \A f \in batch'[w] : e.conn = f.conn => e = f
    <3>1. \A e \in batch'[w] : /\ epollFd[e.conn] = w /\ ~armed'[e.conn]
                               /\ session[e.conn] = "active"
      BY <1>2, <1>3, <1>5
    <3>2. \A e, f \in batch'[w] : e.conn = f.conn => e = f
      BY <1>5
    <3>. QED  BY <3>1, <3>2
  <2>. QED  BY <1>1, <1>2, <1>4, <2>1, <2>2, InHand DEF EventsOK, EventAt
<1>. QED  BY <1>6, <1>7, <1>8, <1>9

\* The worker takes an event of its batch.
LEMMA NextEventInv == ASSUME Inv, NEW w \in Epoll, NextEvent(w) PROVE Inv'
<1>. USE DEF NextEvent, Inv
<1>1. PICK e \in batch[w] :
        /\ batch' = [batch EXCEPT ![w] = @ \ {e}]
        /\ at' = [at EXCEPT ![w] = [pc |-> IF e.hup THEN "close" ELSE "recv",
                                   conn |-> e.conn, len |-> 0]]
  OBVIOUS
<1>2. /\ e.conn \in Conn /\ e.conn # None
      /\ batch'[w] = batch[w] \ {e}
      /\ \A u \in Epoll : u # w => batch'[u] = batch[u] /\ at'[u] = at[u]
      /\ at'[w].pc \in {"close", "recv"} /\ at'[w].conn = e.conn
      /\ at' \in [Epoll -> [pc : Pc, conn : Conn \cup {None}, len : Nat]]
  BY <1>1 DEF TypeOK, WorkerTypeOK, Pc, EventAt
<1>3. TypeOK'
  BY <1>1, <1>2 DEF TypeOK, ClientTypeOK, ConnTypeOK, WorkerTypeOK, ListTypeOK
<1>4. WorkerOK'
  BY <1>2 DEF WorkerOK, EventAt, HandlerAt
<1>5. ListsOK' /\ HolderOK'
  BY <1>2 DEF ListsOK, HolderOK, HandlerAt
<1>6. EventsOK'
  <2>1. /\ epollFd[e.conn] = w /\ ~armed[e.conn] /\ session[e.conn] = "active"
        /\ \A f \in batch'[w] : f.conn # e.conn
    BY <1>1, <1>2 DEF EventsOK
  <2>2. \A u \in Epoll : batch'[u] \subseteq batch[u]
    BY <1>2
  <2>. QED  BY <1>2, <2>1, <2>2 DEF EventsOK
<1>. QED  BY <1>3, <1>4, <1>5, <1>6

\* A worker goes on with its event, and nothing else is changed than what
\* packets are where.
LEMMA EventGoes ==
  ASSUME Inv, NEW w \in Epoll, TypeOK', at[w].pc \in EventAt,
         at'[w].pc \in EventAt, at'[w].conn = at[w].conn,
         \A u \in Epoll : u # w => at'[u] = at[u],
         UNCHANGED <<connVars, holder, listenerVars, batch, todo,
                     watingSesion_, sessionList_>>,
         \A c \in Conn : packetList_'[c] >= packetList_[c]
  PROVE  Inv'
<1>. USE DEF Inv
<1>1. WorkerOK'
  BY DEF WorkerOK, EventAt, HandlerAt
<1>2. ListsOK' /\ EventsOK'
  BY DEF ListsOK, EventsOK, EventAt, HandlerAt
<1>3. HolderOK'
  <2>1. \A u \in Epoll : at[u].pc \in {"send", "pop"} =>
          /\ packetList_[at[u].conn] \in Nat
          /\ packetList_'[at[u].conn] \in Nat
          /\ packetList_'[at[u].conn] >= packetList_[at[u].conn]
    BY InHand DEF TypeOK, ConnTypeOK, HandlerAt
  <2>. QED  BY <2>1 DEF HolderOK, EventAt
<1>. QED  BY <1>1, <1>2, <1>3

\* recv takes what has come; the end of the stream, or nothing.
LEMMA RecvInv ==
  ASSUME Inv, NEW w \in Epoll, Recv(w) \/ RecvNothing(w) PROVE Inv'
<1>. USE DEF Inv
<1>1. at[w].conn \in Conn /\ at[w].pc = "recv"
  BY InHand DEF Recv, RecvNothing, EventAt
<1>2. /\ at' \in [Epoll -> [pc : Pc, conn : Conn \cup {None}, len : Nat]]
      /\ at'[w].pc \in EventAt /\ at'[w].conn = at[w].conn
      /\ \A u \in Epoll : u # w => at'[u] = at[u]
  <2>1. CASE Recv(w)
    <3>1. requests[at[w].conn] \in Nat
      BY <1>1 DEF TypeOK, ClientTypeOK
    <3>2. PICK k \in Nat : at' = [at EXCEPT ![w].pc = "onRead", ![w].len = k]
      BY <2>1, <3>1 DEF Recv
    <3>3. at'[w] = [at[w] EXCEPT !.pc = "onRead", !.len = k]
          /\ \A u \in Epoll : u # w => at'[u] = at[u]
      BY <3>2 DEF TypeOK, WorkerTypeOK
    <3>4. at[w] \in [pc : Pc, conn : Conn \cup {None}, len : Nat]
      BY DEF TypeOK, WorkerTypeOK
    <3>5. at'[w] \in [pc : Pc, conn : Conn \cup {None}, len : Nat]
          /\ at'[w].pc = "onRead" /\ at'[w].conn = at[w].conn
      <4>1. "onRead" \in Pc /\ k \in Nat
        BY DEF Pc, EventAt
      <4>. HIDE DEF Pc
      <4>. QED  BY ONLY <3>3, <3>4, <4>1
    <3>6. at' \in [Epoll -> [pc : Pc, conn : Conn \cup {None}, len : Nat]]
      BY ONLY <3>2, <3>3, <3>5, TypeOK DEF TypeOK, WorkerTypeOK
    <3>. QED  BY <3>3, <3>5, <3>6 DEF EventAt
  <2>2. CASE RecvNothing(w)
    BY <2>2, GoesEffect DEF RecvNothing, TypeOK, Pc, EventAt
  <2>. QED  BY <2>1, <2>2
<1>3. ClientTypeOK'
  <2>1. CASE Recv(w)
    BY <1>1, <2>1 DEF Recv, TypeOK, ClientTypeOK
  <2>2. CASE RecvNothing(w)
    BY <2>2 DEF RecvNothing, TypeOK, ClientTypeOK
  <2>. QED  BY <2>1, <2>2
<1>4. UNCHANGED <<connVars, bufVars, listenerVars, batch, todo, listVars>>
  BY DEF Recv, RecvNothing
<1>5. TypeOK'
  BY <1>2, <1>3, <1>4 DEF TypeOK, ConnTypeOK, WorkerTypeOK, ListTypeOK
<1>6. \A c \in Conn : packetList_'[c] >= packetList_[c]
  BY <1>4 DEF TypeOK, ConnTypeOK
<1>. QED  BY <1>1, <1>2, <1>4, <1>5, <1>6, EventGoes DEF EventAt

\* A packet of what has been received is pushed, or there is no more.
LEMMA OnReadInv ==
  ASSUME Inv, NEW w \in Epoll, OnRead(w) \/ NoPacket(w) PROVE Inv'
<1>. USE DEF Inv
<1>1. at[w].conn \in Conn /\ at[w].pc = "onRead" /\ at[w].len \in Nat
  BY InHand DEF OnRead, NoPacket, EventAt, TypeOK, WorkerTypeOK
<1>2. /\ at' \in [Epoll -> [pc : Pc, conn : Conn \cup {None}, len : Nat]]
      /\ at'[w].pc \in EventAt /\ at'[w].conn = at[w].conn
      /\ \A u \in Epoll : u # w => at'[u] = at[u]
  <2>1. CASE OnRead(w)
    BY <1>1, <2>1 DEF OnRead, TypeOK, WorkerTypeOK, EventAt
  <2>2. CASE NoPacket(w)
    BY <2>2, GoesEffect DEF NoPacket, TypeOK, Pc, EventAt
  <2>. QED  BY <2>1, <2>2
<1>3. /\ packetList_' \in [Conn -> Nat]
      /\ \A c \in Conn : packetList_'[c] >= packetList_[c]
  BY <1>1 DEF OnRead, NoPacket, pushPacket, TypeOK, ConnTypeOK
<1>4. /\ UNCHANGED <<clientVars, connVars, holder, sendBuffer_, listenerVars>>
      /\ UNCHANGED <<batch, todo, listVars>>
  BY DEF OnRead, NoPacket
<1>5. TypeOK'
  BY <1>2, <1>3, <1>4
     DEF TypeOK, ClientTypeOK, ConnTypeOK, WorkerTypeOK, ListTypeOK
<1>. QED  BY <1>1, <1>2, <1>3, <1>4, <1>5, EventGoes DEF EventAt

\* The worker is done with a connection that stays.
LEMMA RearmInv ==
  ASSUME Inv, NEW w \in Epoll, ModifyRegistInfo(w) PROVE Inv'
<1>. USE DEF ModifyRegistInfo, Inv
<1>1. at[w].conn \in Conn /\ at[w].pc = "rearm"
  BY InHand DEF EventAt
<1>2. /\ at' \in [Epoll -> [pc : Pc, conn : Conn \cup {None}, len : Nat]]
      /\ at'[w].pc = "events" /\ at'[w].conn = None
      /\ \A u \in Epoll : u # w => at'[u] = at[u]
  BY BackToEffect DEF TypeOK, Pc
<1>3. /\ armed' \in [Conn -> BOOLEAN]
      /\ \A d \in Conn : d # at[w].conn => armed'[d] = armed[d]
  BY <1>1 DEF TypeOK, ConnTypeOK
<1>4. TypeOK'
  BY <1>2, <1>3
     DEF TypeOK, ClientTypeOK, ConnTypeOK, WorkerTypeOK, ListTypeOK
<1>5. WorkerOK'
  BY <1>1, <1>2 DEF WorkerOK, EventAt, HandlerAt
<1>6. ListsOK' /\ HolderOK'
  BY <1>1, <1>2 DEF ListsOK, HolderOK, HandlerAt
<1>7. EventsOK'
  <2>1. \A u \in Epoll : \A e \in batch[u] : e.conn \in Conn
    BY DEF TypeOK, WorkerTypeOK
  <2>2. /\ epollFd[at[w].conn] = w /\ session[at[w].conn] = "active"
        /\ \A e \in batch[w] : e.conn # at[w].conn
    BY <1>1 DEF EventsOK, EventAt
  <2>. QED  BY <1>1, <1>2, <1>3, <2>1, <2>2, InHand DEF EventsOK, EventAt
<1>. QED  BY <1>4, <1>5, <1>6, <1>7

\* The socket is closed, and the connection taken out of the map.
LEMMA CloseInv ==
  ASSUME Inv, NEW w \in Epoll, CloseSocket(w) \/ RemoveConnection(w)
  PROVE  Inv'
<1>. USE DEF CloseSocket, RemoveConnection, Inv
<1>1. at[w].conn \in Conn /\ at[w].pc \in {"close", "erase"}
  BY InHand DEF EventAt
<1>2. /\ at' \in [Epoll -> [pc : Pc, conn : Conn \cup {None}, len : Nat]]
      /\ at'[w].pc \in {"erase", "kill"} /\ at'[w].conn = at[w].conn
      /\ \A u \in Epoll : u # w => at'[u] = at[u]
  BY GoesEffect DEF TypeOK, Pc, EventAt
<1>3. /\ open' \in [Conn -> BOOLEAN] /\ connections_' \subseteq Conn
      /\ registered' \subseteq Conn /\ armed' \in [Conn -> BOOLEAN]
      /\ \A c \in Conn : armed'[c] => armed[c]
  <2>1. PICK cs :
          /\ registered' = registered \ cs
          /\ armed' = [c \in Conn |-> armed[c] /\ c \notin cs]
    <3>1. CASE CloseSocket(w)
      BY <3>1 DEF Forget
    <3>2. CASE RemoveConnection(w)
      BY <3>2 DEF Forget, UnRegist
    <3>. QED  BY <3>1, <3>2
  <2>2. \A c \in Conn : (armed[c] /\ c \notin cs) \in BOOLEAN
    BY DEF TypeOK, ConnTypeOK
  <2>3. open' \in [Conn -> BOOLEAN] /\ connections_' \subseteq Conn
    BY <1>1 DEF TypeOK, ConnTypeOK
  <2>. QED  BY <2>1, <2>2, <2>3 DEF TypeOK, ConnTypeOK
<1>4. /\ UNCHANGED <<clientVars, session, socket_, epollFd, bufVars>>
      /\ UNCHANGED <<listenerVars, batch, todo, listVars>>
  OBVIOUS
<1>5. TypeOK'
  BY <1>2, <1>3, <1>4
     DEF TypeOK, ClientTypeOK, ConnTypeOK, WorkerTypeOK, ListTypeOK
<1>6. WorkerOK'
  BY <1>1, <1>2, <1>4 DEF WorkerOK, EventAt, HandlerAt
<1>7. ListsOK' /\ HolderOK'
  BY <1>1, <1>2, <1>4 DEF ListsOK, HolderOK, HandlerAt
<1>8. EventsOK'
  <2>1. \A u \in Epoll : \A e \in batch[u] : e.conn \in Conn
    BY DEF TypeOK, WorkerTypeOK
  <2>. QED
    BY <1>1, <1>2, <1>3, <1>4, <2>1, InHand DEF EventsOK, EventAt
<1>. QED  BY <1>5, <1>6, <1>7, <1>8

\* kill is the last that the worker does with a connection.
LEMMA KillInv == ASSUME Inv, NEW w \in Epoll, Kill(w) PROVE Inv'
<1>. USE DEF Kill, Inv
<1>1. /\ at[w].conn \in Conn /\ at[w].pc = "kill"
      /\ epollFd[at[w].conn] = w /\ ~armed[at[w].conn]
      /\ session[at[w].conn] = "active"
      /\ \A e \in batch[w] : e.conn # at[w].conn
  BY InHand DEF EventAt, EventsOK
<1>2. /\ at' \in [Epoll -> [pc : Pc, conn : Conn \cup {None}, len : Nat]]
      /\ at'[w].pc = "events" /\ at'[w].conn = None
      /\ \A u \in Epoll : u # w => at'[u] = at[u]
  BY BackToEffect DEF TypeOK, Pc
<1>3. /\ session' \in [Conn -> {"none", "active", "disabled", "deleted"}]
      /\ session'[at[w].conn] = "disabled"
      /\ \A d \in Conn : d # at[w].conn => session'[d] = session[d]
  BY <1>1 DEF TypeOK, ConnTypeOK
<1>4. TypeOK'
  BY <1>2, <1>3
     DEF TypeOK, ClientTypeOK, ConnTypeOK, WorkerTypeOK, ListTypeOK
<1>5. WorkerOK'
  BY <1>1, <1>2 DEF WorkerOK, EventAt, HandlerAt
<1>6. ListsOK'
  <2>1. \A c \in watingSesion_ \cup sessionList_ :
          session'[c] \in {"active", "disabled"}
    BY <1>3 DEF ListsOK, TypeOK, ListTypeOK
  <2>. QED  BY <1>1, <1>2, <2>1 DEF ListsOK, HandlerAt
<1>7. HolderOK'
  BY <1>1, <1>2 DEF HolderOK
<1>8. EventsOK'
  <2>1. \A u \in Epoll : \A e \in batch[u] : e.conn \in Conn
    BY DEF TypeOK, WorkerTypeOK
  <2>2. lpc # "idle" => lcur \in Conn /\ lcur # at[w].conn
    BY <1>1 DEF EventsOK, TypeOK, ConnTypeOK
  <2>. QED  BY <1>1, <1>2, <1>3, <2>1, <2>2, InHand DEF EventsOK, EventAt
<1>. QED  BY <1>4, <1>5, <1>6, <1>7, <1>8

\* After the last event of the batch the worker comes to the sessions.
LEMMA BatchEndInv == ASSUME Inv, NEW w \in Epoll, BatchEnd(w) PROVE Inv'
<1>. USE DEF BatchEnd, Inv
<1>1. /\ at' \in [Epoll -> [pc : Pc, conn : Conn \cup {None}, len : Nat]]
      /\ at'[w].pc = "drain" /\ at'[w].conn = at[w].conn
      /\ \A u \in Epoll : u # w => at'[u] = at[u]
  BY GoesEffect DEF TypeOK, Pc
<1>2. TypeOK'
  BY <1>1 DEF TypeOK, ClientTypeOK, ConnTypeOK, WorkerTypeOK, ListTypeOK
<1>3. WorkerOK' /\ ListsOK'
  BY <1>1 DEF WorkerOK, ListsOK, EventAt, HandlerAt
<1>4. EventsOK' /\ HolderOK'
  BY <1>1 DEF EventsOK, HolderOK, EventAt
<1>. QED  BY <1>2, <1>3, <1>4

\* What a worker does with its events keeps the invariant.
LEMMA EventsInv == ASSUME Inv, NEW w \in Epoll, Events(w) PROVE Inv'
  BY EpollWaitInv, NextEventInv, RecvInv, OnReadInv, RearmInv, CloseInv,
     KillInv, BatchEndInv
     DEF Events

-----------------------------------------------------------------------------
(* A worker: the sessions.                                                 *)

\* The worker looks at the lists and changes none.
LEMMA LookInv ==
  ASSUME Inv, NEW w \in Epoll,
         CheckWaiting(w) \/ Checked(w) \/ Update(w) \/ Updated(w)
  PROVE  Inv'
<1>. USE DEF CheckWaiting, Checked, Update, Updated, Inv
<1>1. /\ at[w].pc \in {"drain", "check", "update"} /\ batch[w] = {}
      /\ at[w].conn = None
      /\ UNCHANGED <<clientVars, connVars, bufVars, listenerVars, batch>>
      /\ UNCHANGED listVars
  BY DEF WorkerOK, EventAt, HandlerAt
<1>2. /\ at' \in [Epoll -> [pc : Pc, conn : Conn \cup {None}, len : Nat]]
      /\ \A u \in Epoll : u # w => at'[u] = at[u]
      /\ \/ /\ at'[w].pc \in {"append", "check", "update", "wait"}
            /\ at'[w].conn = None
         \/ at'[w].pc = "lock" /\ at'[w].conn \in todo[w]
  <2>1. CASE CheckWaiting(w) \/ Checked(w) \/ Updated(w)
    BY <1>1, <2>1, GoesEffect DEF TypeOK, Pc
  <2>2. CASE Update(w)
    BY <1>1, <2>2 DEF TypeOK, WorkerTypeOK, Pc, HandlerAt
  <2>. QED  BY <2>1, <2>2
<1>3. /\ todo' \in [Epoll -> SUBSET Conn]
      /\ \A u \in Epoll : u # w => todo'[u] = todo[u]
      /\ todo'[w] \subseteq sessionList_
      /\ at'[w].pc \in {"append", "wait"} => todo'[w] = {}
  <2>1. \A u \in Epoll : todo[u] \subseteq sessionList_
    BY DEF ListsOK
  <2>2. at[w].pc = "drain" => todo[w] = {}
    BY DEF WorkerOK, HandlerAt
  <2>3. CASE CheckWaiting(w)
    <3>1. /\ todo \in [Epoll -> SUBSET Conn] /\ sessionList_ \subseteq Conn
          /\ todo[w] = {}
      BY <2>2, <2>3 DEF TypeOK, WorkerTypeOK, ListTypeOK
    <3>2. CASE watingSesion_ # {}
      <4>1. todo' = todo
        BY <2>3, <3>2
      <4>. QED  BY <2>1, <3>1, <4>1
    <3>3. CASE watingSesion_ = {}
      <4>1. /\ at'[w].pc = "check"
            /\ todo' = [todo EXCEPT ![w] = sessionList_]
        BY <2>3, <3>3, GoesEffect DEF TypeOK, Pc
      <4>. QED  BY ONLY <3>1, <4>1
    <3>. QED  BY <3>2, <3>3
  <2>4. CASE Checked(w)
    <3>1. at'[w].pc = "update"
      BY <2>4, GoesEffect DEF TypeOK, Pc
    <3>2. /\ todo \in [Epoll -> SUBSET Conn] /\ sessionList_ \subseteq Conn
          /\ todo' = [todo EXCEPT ![w] = sessionList_]
      BY <2>4 DEF TypeOK, WorkerTypeOK, ListTypeOK
    <3>. QED  BY ONLY <3>1, <3>2
  <2>6. CASE Updated(w)
    BY <2>1, <2>6, GoesEffect DEF TypeOK, WorkerTypeOK, ListTypeOK, Pc
  <2>5. CASE Update(w)
    BY <1>2, <2>1, <2>5 DEF TypeOK, WorkerTypeOK, ListTypeOK
  <2>. QED  BY <2>3, <2>4, <2>5, <2>6
<1>4. TypeOK'
  BY <1>1, <1>2, <1>3
     DEF TypeOK, ClientTypeOK, ConnTypeOK, WorkerTypeOK, ListTypeOK
<1>5. \A c \in todo[w] : c \in Conn /\ c # None /\ c \in sessionList_
  BY DEF TypeOK, WorkerTypeOK, ListsOK
<1>6. WorkerOK'
  BY <1>1, <1>2, <1>3, <1>5 DEF WorkerOK, EventAt, HandlerAt
<1>7. ListsOK'
  BY <1>1, <1>2, <1>3, <1>5 DEF ListsOK, HandlerAt
<1>8. EventsOK'
  BY <1>1, <1>2, <1>3 DEF EventsOK, EventAt
<1>9. HolderOK'
  BY <1>1, <1>2 DEF HolderOK
<1>. QED  BY <1>4, <1>6, <1>7, <1>8, <1>9

\* The worker appends the sessions that wait to the list.
LEMMA AppendInv ==
  ASSUME Inv, NEW w \in Epoll, AppendWaiting(w) PROVE Inv'
<1>. USE DEF AppendWaiting, deEnqueue, Changes, Inv
<1>1. /\ at' \in [Epoll -> [pc : Pc, conn : Conn \cup {None}, len : Nat]]
      /\ at'[w].pc = "check" /\ at'[w].conn = at[w].conn
      /\ \A u \in Epoll : u # w => at'[u] = at[u]
  BY GoesEffect DEF TypeOK, Pc
<1>2. /\ todo' \in [Epoll -> SUBSET Conn] /\ todo'[w] = sessionList_'
      /\ \A u \in Epoll : u # w => todo'[u] = todo[u]
  BY DEF TypeOK, WorkerTypeOK, ListTypeOK
<1>3. fate' \in {"runs", "race", "SIGPIPE"}
  BY DEF TypeOK, ListTypeOK
<1>4. TypeOK'
  BY <1>1, <1>2, <1>3
     DEF TypeOK, ClientTypeOK, ConnTypeOK, WorkerTypeOK, ListTypeOK
<1>5. WorkerOK'
  BY <1>1, <1>2 DEF WorkerOK, EventAt, HandlerAt
<1>6. ListsOK'
  BY <1>1, <1>2 DEF ListsOK, HandlerAt
<1>7. EventsOK' /\ HolderOK'
  BY <1>1 DEF EventsOK, HolderOK, EventAt
<1>. QED  BY <1>4, <1>5, <1>6, <1>7

\* A session that was killed is deleted; no other worker has it then, unless
\* one is in the list.
LEMMA CheckSessionInv ==
  ASSUME Inv, NEW w \in Epoll, CheckSession(w)
  PROVE  TypeOK' /\ (fate' = "runs" => Inv')
<1>. USE DEF CheckSession, destroy, Changes, Inv
<1>1. PICK c \in todo[w] :
        /\ todo' = [todo EXCEPT ![w] = @ \ {c}]
        /\ IF session[c] = "disabled"
           THEN /\ session' = [session EXCEPT ![c] = "deleted"]
                /\ sessionList_' = sessionList_ \ {c}
                /\ Changes(w)
           ELSE UNCHANGED <<session, sessionList_, fate>>
  OBVIOUS
<1>2. c \in Conn /\ c \in sessionList_ /\ at[w].pc = "check"
  BY DEF TypeOK, WorkerTypeOK, ListsOK
<1>3. /\ todo' \in [Epoll -> SUBSET Conn] /\ todo'[w] = todo[w] \ {c}
      /\ \A u \in Epoll : u # w => todo'[u] = todo[u]
  BY <1>1 DEF TypeOK, WorkerTypeOK
<1>4. TypeOK'
  <2>1. ListTypeOK'
    BY <1>1 DEF TypeOK, ListTypeOK
  <2>2. session' \in [Conn -> {"none", "active", "disabled", "deleted"}]
    BY <1>1, <1>2 DEF TypeOK, ConnTypeOK
  <2>. QED
    BY <1>3, <2>1, <2>2 DEF TypeOK, ClientTypeOK, ConnTypeOK, WorkerTypeOK
<1>5. WorkerOK' /\ HolderOK'
  BY <1>3 DEF WorkerOK, HolderOK
<1>6. ASSUME fate' = "runs" PROVE ListsOK' /\ EventsOK'
  <2>1. CASE session[c] # "disabled"
    <3>1. UNCHANGED <<session, sessionList_>>
      BY <1>1, <2>1
    <3>2. \A u \in Epoll : todo'[u] \subseteq todo[u]
      BY <1>3
    <3>. QED  BY <3>1, <3>2 DEF ListsOK, EventsOK
  <2>2. CASE session[c] = "disabled"
    <3>1. /\ session'[c] = "deleted"
          /\ \A d \in Conn : d # c => session'[d] = session[d]
          /\ sessionList_' = sessionList_ \ {c}
      BY <1>1, <1>2, <2>2 DEF TypeOK, ConnTypeOK
    <3>2. \A u \in Epoll \ {w} : ~InList(u)
      BY <1>1, <1>6, <2>2
    <3>3. \A u \in Epoll \ {w} : at[u].pc \notin HandlerAt /\ todo[u] = {}
      BY <3>2 DEF InList, HandlerAt, WorkerOK
    <3>4. at[w].pc \notin HandlerAt \cup EventAt
      BY <1>2 DEF HandlerAt, EventAt
    <3>5. ListsOK'
      <4>1. watingSesion_ \cap sessionList_ = {} /\ c \notin watingSesion_
        BY <1>2 DEF ListsOK
      <4>2. \A d \in watingSesion_ \cup sessionList_' :
              d \in Conn /\ session'[d] \in {"active", "disabled"}
        BY <3>1, <4>1 DEF ListsOK, TypeOK, ListTypeOK
      <4>3. \A u \in Epoll : todo'[u] \subseteq sessionList_'
        BY <1>3, <3>1, <3>3 DEF ListsOK
      <4>. QED  BY <3>1, <3>3, <3>4, <4>1, <4>2, <4>3 DEF ListsOK
    <3>6. EventsOK'
      <4>1. \A u \in Epoll : \A e \in batch[u] : e.conn \in Conn /\ e.conn # c
        BY <2>2 DEF TypeOK, WorkerTypeOK, EventsOK
      <4>2. \A u \in Epoll : at[u].pc \in EventAt =>
              at[u].conn \in Conn /\ at[u].conn # c
        BY <2>2, InHand DEF EventsOK
      <4>3. lpc # "idle" => lcur \in Conn /\ lcur # c
        BY <2>2 DEF EventsOK, TypeOK, ConnTypeOK
      <4>4. epollFd[c] # None /\ ~armed[c]
        BY <1>2, <2>2 DEF EventsOK
      <4>. QED  BY <3>1, <4>1, <4>2, <4>3, <4>4 DEF EventsOK
    <3>. QED  BY <3>5, <3>6
  <2>. QED  BY <2>1, <2>2
<1>. QED  BY <1>4, <1>5, <1>6

\* The worker that takes the mutex of a session, and gives it back.
LEMMA LockInv ==
  ASSUME Inv, NEW w \in Epoll, Lock(w) \/ SessionUpdated(w) PROVE Inv'
<1>. USE DEF Lock, SessionUpdated, Inv
<1>1. /\ at[w].conn \in Conn /\ at[w].pc \in {"lock", "handle"}
      /\ at[w].pc = "lock" => holder[at[w].conn] = None
      /\ at[w].pc = "handle" => holder[at[w].conn] = w
      /\ UNCHANGED <<clientVars, connVars, packetList_, sendBuffer_>>
      /\ UNCHANGED <<listenerVars, batch, todo, listVars>>
  BY InHand DEF HandlerAt, HolderOK
<1>2. /\ at' \in [Epoll -> [pc : Pc, conn : Conn \cup {None}, len : Nat]]
      /\ \A u \in Epoll : u # w => at'[u] = at[u]
      /\ at[w].pc = "lock" => at'[w].pc = "handle" /\ at'[w].conn = at[w].conn
      /\ at[w].pc = "handle" => at'[w].pc = "update" /\ at'[w].conn = None
  <2>1. CASE Lock(w)
    BY <2>1, GoesEffect DEF TypeOK, Pc, HandlerAt
  <2>2. CASE SessionUpdated(w)
    BY <2>2, BackToEffect DEF TypeOK, Pc
  <2>. QED  BY <2>1, <2>2
<1>3. /\ holder' \in [Conn -> Epoll \cup {None}]
      /\ at[w].pc = "lock" => holder'[at[w].conn] = w
      /\ at[w].pc = "handle" => holder'[at[w].conn] = None
      /\ \A d \in Conn : d # at[w].conn => holder'[d] = holder[d]
  BY <1>1 DEF TypeOK, ConnTypeOK
<1>4. TypeOK'
  BY <1>1, <1>2, <1>3
     DEF TypeOK, ClientTypeOK, ConnTypeOK, WorkerTypeOK, ListTypeOK
<1>5. WorkerOK' /\ ListsOK'
  BY <1>1, <1>2 DEF WorkerOK, ListsOK, EventAt, HandlerAt
<1>6. EventsOK'
  BY <1>1, <1>2 DEF EventsOK, EventAt
<1>7. HolderOK'
  <2>1. ASSUME NEW u \in Epoll, NEW d \in Conn
        PROVE  holder'[d] = u <=>
                 /\ at'[u].conn = d
                 /\ at'[u].pc \in {"handle", "send", "pop", "stuck"}
    <3>1. CASE d # at[w].conn
      BY <1>1, <1>2, <1>3, <3>1 DEF HolderOK
    <3>2. CASE d = at[w].conn
      BY <1>1, <1>2, <1>3, <3>2 DEF HolderOK
    <3>. QED  BY <3>1, <3>2
  <2>2. \A u \in Epoll :
          at'[u].pc \in {"send", "pop"} => packetList_[at'[u].conn] > 0
    BY <1>1, <1>2 DEF HolderOK
  <2>. QED  BY <1>1, <2>1, <2>2 DEF HolderOK
<1>. QED  BY <1>4, <1>5, <1>6, <1>7

\* A worker that has the mutex goes on with the session.
LEMMA HandlerGoes ==
  ASSUME Inv, NEW w \in Epoll, TypeOK',
         at[w].pc \in {"handle", "send", "pop"},
         at'[w].pc \in {"handle", "send", "pop", "stuck"},
         at'[w].conn = at[w].conn,
         \A u \in Epoll : u # w => at'[u] = at[u],
         UNCHANGED <<connVars, holder, listenerVars, batch, todo,
                     watingSesion_, sessionList_>>,
         \A c \in Conn : c # at[w].conn => packetList_'[c] = packetList_[c],
         at'[w].pc \in {"send", "pop"} => packetList_'[at[w].conn] > 0
  PROVE  Inv'
<1>. USE DEF Inv
<1>1. WorkerOK' /\ ListsOK'
  BY DEF WorkerOK, ListsOK, EventAt, HandlerAt
<1>2. EventsOK'
  BY DEF EventsOK, EventAt
<1>3. HolderOK'
  <2>1. at[w].conn \in Conn /\ holder[at[w].conn] = w
    BY InHand DEF HandlerAt, HolderOK
  <2>2. ASSUME NEW u \in Epoll, at'[u].pc \in {"send", "pop"}
        PROVE  packetList_'[at'[u].conn] > 0
    <3>1. CASE u # w
      <4>1. at[u].conn \in Conn /\ holder[at[u].conn] = u
        BY <2>2, <3>1, InHand DEF HandlerAt, HolderOK
      <4>. QED  BY <2>1, <2>2, <3>1, <4>1 DEF HolderOK
    <3>2. CASE u = w
      BY <2>2, <3>2
    <3>. QED  BY <3>1, <3>2
  <2>. QED  BY <2>2 DEF HolderOK
<1>. QED  BY <1>1, <1>2, <1>3

\* k answers of c are sent to d.
Sent(c, d, k) ==
  /\ open[d] /\ socket_[d] = socket_[c]
  /\ answers' = [answers EXCEPT ![d] = @ + k]
  /\ foreign' = [foreign EXCEPT ![d] = IF d = c THEN @ ELSE @ + k]
  /\ sendBuffer_' = [sendBuffer_ EXCEPT ![c] = @ - k]

\* What Send does, whatever the socket takes.
LEMMA SendEffect ==
  ASSUME NEW w \in Epoll, NEW c \in Conn, at[w].conn = c, Send(w),
         sendBuffer_ \in [Conn -> Nat]
  PROVE  \E d \in Conn, k \in 0..sendBuffer_[c] : Sent(c, d, k)
<1>1. PICK d \in Opened(socket_[c]) :
        \E k \in IF d \in Slow THEN 0..sendBuffer_[c] ELSE {sendBuffer_[c]} :
          /\ answers' = [answers EXCEPT ![d] = @ + k]
          /\ foreign' = [foreign EXCEPT ![d] = IF d = c THEN @ ELSE @ + k]
          /\ removeSendData(c, k)
  BY DEF Send
<1>2. d \in Conn /\ open[d] /\ socket_[d] = socket_[c]
  BY <1>1 DEF Opened, Numbered
<1>3. (IF d \in Slow THEN 0..sendBuffer_[c] ELSE {sendBuffer_[c]})
        \subseteq 0..sendBuffer_[c]
  OBVIOUS
<1>. QED  BY ONLY <1>1, <1>2, <1>3 DEF removeSendData, Sent

\* A handler makes its answer, Write sends what it can, the packet is popped.
LEMMA HandleInv ==
  ASSUME Inv, NEW w \in Epoll,
         ProcessMsg(w) \/ Send(w) \/ SendFails(w) \/ Pop(w)
  PROVE  TypeOK' /\ (fate' = "runs" => Inv')
<1>. USE DEF Inv
<1>1. at[w].conn \in Conn /\ at[w].pc \in {"handle", "send", "pop"}
  BY InHand DEF ProcessMsg, Send, SendFails, Pop, HandlerAt
<1>2. PICK c \in Conn : c = at[w].conn
  BY <1>1
<1>3. /\ at' \in [Epoll -> [pc : Pc, conn : Conn \cup {None}, len : Nat]]
      /\ at'[w].pc \in {"handle", "send", "pop", "stuck"}
      /\ at'[w].conn = at[w].conn
      /\ \A u \in Epoll : u # w => at'[u] = at[u]
  <2>1. PICK pc \in {"handle", "send", "pop", "stuck"} : Goes(w, pc)
    BY DEF ProcessMsg, Send, SendFails, Pop, pushSendPacket, write, resize
  <2>2. pc \in Pc
    BY DEF Pc, HandlerAt
  <2>. QED  BY <2>1, <2>2, GoesEffect DEF TypeOK
<1>4. UNCHANGED <<connVars, holder, listenerVars, batch, todo, watingSesion_,
                  sessionList_, client, rounds, requests, received>>
  BY DEF ProcessMsg, Send, SendFails, Pop
<1>5. /\ packetList_' \in [Conn -> Nat]
      /\ \A d \in Conn : d # c => packetList_'[d] = packetList_[d]
      /\ at'[w].pc \in {"send", "pop"} => packetList_'[c] > 0
  <2>1. packetList_ \in [Conn -> Nat]
    BY DEF TypeOK, ConnTypeOK
  <2>2. CASE ProcessMsg(w)
    BY <1>2, <2>1, <2>2 DEF ProcessMsg, HasPacket
  <2>3. CASE Send(w) \/ SendFails(w)
    BY <1>1, <1>2, <2>1, <2>3 DEF Send, SendFails, HolderOK
  <2>4. CASE Pop(w)
    <3>1. packetList_[c] > 0
      BY <1>2, <2>4 DEF Pop, HolderOK
    <3>2. at'[w].pc = "handle"
      BY <2>4 DEF Pop, TypeOK, WorkerTypeOK
    <3>. QED  BY <1>2, <2>1, <2>4, <3>1, <3>2 DEF Pop
  <2>. QED  BY <2>2, <2>3, <2>4
<1>6. /\ sendBuffer_' \in [Conn -> Nat] /\ answers' \in [Conn -> Nat]
      /\ foreign' \in [Conn -> Nat]
  <2>1. /\ sendBuffer_ \in [Conn -> Nat] /\ answers \in [Conn -> Nat]
        /\ foreign \in [Conn -> Nat]
    BY DEF TypeOK, ConnTypeOK, ClientTypeOK, ListTypeOK
  <2>2. CASE ProcessMsg(w)
    BY <1>2, <2>1, <2>2 DEF ProcessMsg, pushSendPacket, write, resize
  <2>3. CASE Send(w)
    <3>1. PICK d \in Conn, k \in 0..sendBuffer_[c] : Sent(c, d, k)
      BY <1>2, <2>1, <2>3, SendEffect
    <3>. QED  BY ONLY <2>1, <3>1, c \in Conn DEF Sent
  <2>4. CASE SendFails(w) \/ Pop(w)
    BY <2>1, <2>4 DEF SendFails, Pop
  <2>. QED  BY <2>2, <2>3, <2>4
<1>7. fate' \in {"runs", "race", "SIGPIPE"}
  BY DEF ProcessMsg, Send, SendFails, Pop, TypeOK, ListTypeOK
<1>8. TypeOK'
  BY <1>3, <1>4, <1>5, <1>6, <1>7
     DEF TypeOK, ClientTypeOK, ConnTypeOK, WorkerTypeOK, ListTypeOK
<1>. QED  BY <1>1, <1>2, <1>3, <1>4, <1>5, <1>8, HandlerGoes

\* What a worker does with the sessions keeps the invariant as long as no other
\* worker is in the list when it changes.
LEMMA SessionsInv ==
  ASSUME Inv, NEW w \in Epoll, Sessions(w)
  PROVE  TypeOK' /\ (fate' = "runs" => Inv')
<1>1. CASE CheckWaiting(w) \/ Checked(w) \/ Update(w) \/ Updated(w)
  BY <1>1, LookInv DEF Inv
<1>2. CASE AppendWaiting(w)
  BY <1>2, AppendInv DEF Inv
<1>3. CASE CheckSession(w)
  BY <1>3, CheckSessionInv
<1>4. CASE Lock(w) \/ SessionUpdated(w)
  BY <1>4, LockInv DEF Inv
<1>5. CASE ProcessMsg(w) \/ Send(w) \/ SendFails(w) \/ Pop(w)
  BY <1>5, HandleInv
<1>. QED  BY <1>1, <1>2, <1>3, <1>4, <1>5 DEF Sessions

\* So does every step.
LEMMA NextInv ==
  ASSUME Inv, Next PROVE TypeOK' /\ (fate' = "runs" => Inv')
<1>1. CASE Client /\ UNCHANGED notClient
  BY <1>1, ClientInv DEF Inv
<1>2. CASE Listener
  BY <1>2, AcceptInv, AddSessionInv, AddConnectionInv DEF Listener, Inv
<1>3. ASSUME NEW w \in Epoll, Events(w) \/ Sessions(w)
      PROVE  TypeOK' /\ (fate' = "runs" => Inv')
  BY <1>3, EventsInv, SessionsInv DEF Inv
<1>. QED  BY <1>1, <1>2, <1>3 DEF Next

\* The inductive invariant holds of every behaviour.
THEOREM InvariantTheorem == Spec => []IInv
<1>1. IInv /\ [Next]_vars => IInv'
  <2>1. IInv /\ Next => IInv'
    BY NextInv DEF Next, IInv, Inv
  <2>. QED  BY <2>1, StutterIInv
<1>. QED  BY <1>1, InitIInv, PTL DEF Spec

\* Nobody uses a deleted connection as long as no worker changes the session
\* list under another: the worker of its epoll, which alone closes it, is done
\* with it when it is killed, and who deletes it is alone in the list.
THEOREM NoDanglingTheorem == Spec => []NoDanglingPointer
<1>1. IInv => NoDanglingPointer
  <2>. SUFFICES ASSUME IInv, fate = "runs", NEW c \in Conn,
                       session[c] = "deleted", NEW w \in Epoll
                PROVE  /\ at[w].conn # c /\ c \notin todo[w]
                       /\ \A e \in batch[w] : e.conn # c
    BY DEF NoDanglingPointer
  <2>1. WorkerOK /\ ListsOK /\ EventsOK
    BY DEF IInv
  <2>2. c \notin sessionList_ /\ c # None
    BY <2>1 DEF ListsOK
  <2>3. at[w].conn # c
    BY <2>1, <2>2 DEF WorkerOK, ListsOK, EventsOK
  <2>4. c \notin todo[w]
    BY <2>1, <2>2 DEF ListsOK
  <2>5. \A e \in batch[w] : e.conn # c
    BY <2>1 DEF EventsOK
  <2>. QED  BY <2>3, <2>4, <2>5
<1>. QED  BY <1>1, InvariantTheorem, PTL

-----------------------------------------------------------------------------
(* The descriptor numbers.                                                 *)

\* The number of an open connection is its own, and only the connection of a
\* client that is gone is closed.
SocketsOK ==
  /\ \A c \in Conn :
       /\ session[c] = "none" <=> socket_[c] = None
       /\ open[c] => session[c] # "none"
       /\ session[c] # "none" /\ ~open[c] => client[c] = "gone"
  /\ \A c, d \in Conn : open[c] /\ open[d] /\ socket_[c] = socket_[d] => c = d
  /\ \A w \in Epoll :
       /\ at[w].pc = "close" => client[at[w].conn] = "gone"
       /\ \A e \in batch[w] : e.hup => client[e.conn] = "gone"

\* Who was sent an answer for another has the number of one that was closed.
ForeignOK ==
  \A c \in Conn : foreign[c] > 0 => session[c] # "none" /\ Succeeds(c)

\* A step that neither accepts a connection, nor closes one, nor sends: what
\* worker w then does with a client that is gone.
LEMMA SocketsKept ==
  ASSUME TypeOK, SocketsOK, ForeignOK, UNCHANGED <<socket_, open, foreign>>,
         \A c \in Conn : session'[c] = "none" <=> session[c] = "none",
         \A c \in Conn : client[c] = "gone" => client'[c] = "gone",
         \A w \in Epoll :
           /\ at'[w].pc = "close" => client'[at'[w].conn] = "gone"
           /\ \A e \in batch'[w] : e.hup => client'[e.conn] = "gone"
  PROVE  SocketsOK' /\ ForeignOK'
<1>1. SocketsOK'
  BY DEF SocketsOK
<1>2. \A c \in Conn : Succeeds(c) => Succeeds(c)'
  BY DEF Succeeds, Numbered
<1>3. ForeignOK'
  BY <1>2 DEF ForeignOK
<1>. QED  BY <1>1, <1>3

\* The same of a step that leaves the clients alone, and takes no event.
LEMMA SocketsSame ==
  ASSUME Inv, SocketsOK, ForeignOK,
         UNCHANGED <<clientVars, socket_, open, foreign, batch>>,
         \A c \in Conn : session'[c] = "none" <=> session[c] = "none",
         NEW w \in Epoll, \A u \in Epoll : u # w => at'[u] = at[u],
         at'[w].pc # "close"
  PROVE  SocketsOK' /\ ForeignOK'
  BY SocketsKept DEF Inv, SocketsOK

\* A new connection has a number that no open connection has.
LEMMA AcceptSockets ==
  ASSUME Inv, SocketsOK, ForeignOK, NEW c \in Conn, NEW f \in Fd, Accept(c, f)
  PROVE  SocketsOK' /\ ForeignOK'
<1>. USE DEF Accept
<1>1. /\ socket_ \in [Conn -> Fd \cup {None}] /\ open \in [Conn -> BOOLEAN]
      /\ session' [c] = "active" /\ socket_'[c] = f /\ open'[c]
      /\ f # None /\ session[c] = "none" /\ ~open[c]
      /\ \A d \in Conn : d # c => /\ session'[d] = session[d]
                                 /\ socket_'[d] = socket_[d]
                                 /\ open'[d] = open[d]
  BY DEF Inv, TypeOK, ConnTypeOK, SocketsOK
<1>2. \A d \in Conn : open[d] => socket_[d] # f
  BY DEF Opened, Numbered
<1>3. SocketsOK'
  BY <1>1, <1>2 DEF SocketsOK
<1>4. ASSUME NEW d \in Conn, foreign[d] > 0
      PROVE  session'[d] # "none" /\ Succeeds(d)'
  <2>1. session[d] # "none" /\ Succeeds(d) /\ d # c
    BY <1>1, <1>4 DEF ForeignOK
  <2>2. PICK e \in Conn \ {d} :
          socket_[e] = socket_[d] /\ ~open[e] /\ client[e] = "gone"
    BY <2>1 DEF Succeeds, Numbered
  <2>3. e # c
    BY <1>1, <2>1, <2>2 DEF SocketsOK
  <2>. QED  BY <1>1, <2>1, <2>2, <2>3 DEF Succeeds, Numbered
<1>. QED  BY <1>3, <1>4 DEF ForeignOK

\* A client that is gone does not come back.
LEMMA ClientSockets ==
  ASSUME Inv, SocketsOK, ForeignOK, Client, UNCHANGED notClient
  PROVE  SocketsOK' /\ ForeignOK'
<1>1. \A c \in Conn : client[c] = "gone" => client'[c] = "gone"
  BY DEF Client, ClientStep, Connect, SendA, SendB, SendRequest, Receive,
     Killed, Inv, TypeOK, ClientTypeOK
<1>2. \A w \in Epoll :
        /\ at[w].pc = "close" => at[w].conn \in Conn
        /\ \A e \in batch[w] : e.conn \in Conn
  BY InHand DEF EventAt, Inv, TypeOK, WorkerTypeOK
<1>3. \A w \in Epoll :
        /\ at'[w].pc = "close" => client'[at'[w].conn] = "gone"
        /\ \A e \in batch'[w] : e.hup => client'[e.conn] = "gone"
  BY <1>1, <1>2 DEF notClient, SocketsOK
<1>. QED  BY <1>1, <1>3, SocketsKept DEF notClient, Inv

\* A worker comes to close only a client that is gone.
LEMMA EventSockets ==
  ASSUME Inv, SocketsOK, ForeignOK, NEW w \in Epoll,
         EpollWait(w) \/ NextEvent(w) \/ RecvNothing(w)
  PROVE  SocketsOK' /\ ForeignOK'
<1>1. UNCHANGED <<clientVars, session, socket_, open, foreign>>
  BY DEF EpollWait, NextEvent, RecvNothing
<1>2. /\ at'[w].pc = "close" => client[at'[w].conn] = "gone"
      /\ \A e \in batch'[w] : e.hup => client[e.conn] = "gone"
      /\ \A u \in Epoll : u # w => at'[u] = at[u] /\ batch'[u] = batch[u]
  <2>1. CASE EpollWait(w)
    <3>1. /\ at'[w].pc = "events"
          /\ batch'[w] = {[conn |-> c, hup |-> client[c] = "gone"] :
                            c \in Reportable(w)}
          /\ \A u \in Epoll : u # w => at'[u] = at[u] /\ batch'[u] = batch[u]
      BY <2>1 DEF EpollWait, Inv, TypeOK, WorkerTypeOK
    <3>2. ASSUME NEW e \in batch'[w], e.hup
          PROVE  client[e.conn] = "gone"
      <4>1. PICK c \in Reportable(w) :
              e = [conn |-> c, hup |-> client[c] = "gone"]
        BY <3>1
      <4>2. e.conn = c /\ e.hup = (client[c] = "gone")
        BY ONLY <4>1
      <4>. QED  BY <3>2, <4>2
    <3>. QED  BY <3>1, <3>2
  <2>2. CASE NextEvent(w)
    <3>1. PICK e \in batch[w] :
            /\ batch' = [batch EXCEPT ![w] = @ \ {e}]
            /\ at' = [at EXCEPT
                        ![w] = [pc |-> IF e.hup THEN "close" ELSE "recv",
                                conn |-> e.conn, len |-> 0]]
      BY <2>2 DEF NextEvent
    <3>2. e.hup => client[e.conn] = "gone"
      BY DEF SocketsOK
    <3>3. /\ at'[w].pc = (IF e.hup THEN "close" ELSE "recv")
          /\ at'[w].conn = e.conn /\ batch'[w] \subseteq batch[w]
          /\ \A u \in Epoll : u # w => at'[u] = at[u] /\ batch'[u] = batch[u]
      BY <3>1 DEF Inv, TypeOK, WorkerTypeOK
    <3>. QED  BY <3>2, <3>3 DEF SocketsOK
  <2>3. CASE RecvNothing(w)
    <3>1. /\ at'[w].pc = "close" => client[at[w].conn] = "gone"
          /\ at'[w].conn = at[w].conn /\ batch' = batch
          /\ \A u \in Epoll : u # w => at'[u] = at[u]
      BY <2>3 DEF RecvNothing, Inv, TypeOK, WorkerTypeOK
    <3>. QED  BY <3>1 DEF SocketsOK
  <2>. QED  BY <2>1, <2>2, <2>3
<1>. QED  BY <1>1, <1>2, SocketsKept DEF Inv, SocketsOK

\* Its connection is closed; who had the number of a closed one still has.
LEMMA CloseSockets ==
  ASSUME Inv, SocketsOK, ForeignOK, NEW w \in Epoll, CloseSocket(w)
  PROVE  SocketsOK' /\ ForeignOK'
<1>. USE DEF CloseSocket
<1>1. /\ at[w].conn \in Conn /\ client[at[w].conn] = "gone"
      /\ at'[w].pc = "erase" /\ at'[w].conn = at[w].conn
      /\ \A u \in Epoll : u # w => at'[u] = at[u]
  BY InHand DEF EventAt, SocketsOK, Inv, TypeOK, WorkerTypeOK
<1>2. \A c \in Conn :
        open'[c] = (open[c] /\ c # at[w].conn)
  BY DEF Inv, TypeOK, ConnTypeOK
<1>3. SocketsOK'
  BY <1>1, <1>2 DEF SocketsOK
<1>4. \A c \in Conn : Succeeds(c) => Succeeds(c)'
  BY <1>2 DEF Succeeds, Numbered
<1>. QED  BY <1>3, <1>4 DEF ForeignOK

\* An answer goes to another connection only if that has got the number of the
\* one that was asked.
LEMMA SendSockets ==
  ASSUME Inv, SocketsOK, ForeignOK, NEW w \in Epoll, Send(w)
  PROVE  SocketsOK' /\ ForeignOK'
<1>. USE DEF Send
<1>1. /\ at[w].conn \in Conn /\ session[at[w].conn] # "none"
      /\ at'[w].pc = "pop"
      /\ \A u \in Epoll : u # w => at'[u] = at[u]
  BY InHand DEF HandlerAt, Inv, ListsOK, TypeOK, WorkerTypeOK
<1>2. PICK c \in Conn : c = at[w].conn
  BY <1>1
<1>3. /\ sendBuffer_ \in [Conn -> Nat] /\ foreign \in [Conn -> Nat]
  BY DEF Inv, TypeOK, ConnTypeOK, ListTypeOK
<1>4. PICK d \in Conn, k \in 0..sendBuffer_[c] : Sent(c, d, k)
  BY <1>2, <1>3, SendEffect
<1>5. SocketsOK'
  BY <1>1 DEF SocketsOK
<1>6. \A e \in Conn : Succeeds(e)' <=> Succeeds(e)
  BY DEF Succeeds, Numbered
<1>7. ASSUME NEW e \in Conn, foreign'[e] > 0
      PROVE  session[e] # "none" /\ Succeeds(e)
  <2>1. CASE foreign'[e] = foreign[e]
    BY <1>7, <2>1 DEF ForeignOK
  <2>2. CASE foreign'[e] # foreign[e]
    <3>1. e = d /\ e # c
      BY <1>3, <1>4, <2>2 DEF Sent
    <3>2. open[d] /\ socket_[d] = socket_[c]
      BY <1>4 DEF Sent
    <3>3. ~open[c] /\ client[c] = "gone" /\ session[d] # "none"
      BY <1>1, <1>2, <3>1, <3>2 DEF SocketsOK
    <3>. QED  BY <3>1, <3>2, <3>3 DEF Succeeds, Numbered
  <2>. QED  BY <2>1, <2>2
<1>. QED  BY <1>5, <1>6, <1>7 DEF ForeignOK

\* The sessions that are killed or deleted were accepted before.
LEMMA KillSockets ==
  ASSUME Inv, SocketsOK, ForeignOK, NEW w \in Epoll,
         Kill(w) \/ CheckSession(w)
  PROVE  SocketsOK' /\ ForeignOK'
<1>1. CASE Kill(w)
  <2>1. session[at[w].conn] = "active" /\ at[w].conn \in Conn
    BY <1>1, InHand DEF Kill, Inv, EventsOK, EventAt
  <2>2. \A c \in Conn : session'[c] = "none" <=> session[c] = "none"
    BY <1>1, <2>1 DEF Kill, Inv, TypeOK, ConnTypeOK
  <2>3. at'[w].pc # "close" /\ \A u \in Epoll : u # w => at'[u] = at[u]
    BY <1>1 DEF Kill, Inv, TypeOK, WorkerTypeOK
  <2>. QED  BY <1>1, <2>2, <2>3, SocketsSame DEF Kill
<1>2. CASE CheckSession(w)
  <2>1. \A c \in Conn : session'[c] = "none" <=> session[c] = "none"
    BY <1>2 DEF CheckSession, destroy, Inv, TypeOK, ConnTypeOK, WorkerTypeOK
  <2>. QED  BY <1>2, <2>1, SocketsSame DEF CheckSession
<1>. QED  BY <1>1, <1>2

\* The other steps of a worker.
LEMMA WorkerSockets ==
  ASSUME Inv, SocketsOK, ForeignOK, NEW w \in Epoll, Events(w) \/ Sessions(w)
  PROVE  SocketsOK' /\ ForeignOK'
<1>1. CASE EpollWait(w) \/ NextEvent(w) \/ RecvNothing(w)
  BY <1>1, EventSockets
<1>2. CASE CloseSocket(w)
  BY <1>2, CloseSockets
<1>3. CASE Send(w)
  BY <1>3, SendSockets
<1>4. CASE Kill(w) \/ CheckSession(w)
  BY <1>4, KillSockets
<1>5. ASSUME NEW pc \in Pc \ {"close"}, Goes(w, pc) \/ BackTo(w, pc),
             UNCHANGED <<client, session, socket_, open, foreign, batch>>
      PROVE  SocketsOK' /\ ForeignOK'
  <2>1. at'[w].pc = pc /\ \A u \in Epoll : u # w => at'[u] = at[u]
    BY <1>5, GoesEffect, BackToEffect DEF Inv, TypeOK
  <2>2. \A u \in Epoll :
          /\ at'[u].pc = "close" => client'[at'[u].conn] = "gone"
          /\ \A e \in batch'[u] : e.hup => client'[e.conn] = "gone"
    BY <1>5, <2>1 DEF SocketsOK
  <2>. QED  BY <1>5, <2>2, SocketsKept DEF Inv
<1>6. CASE NoPacket(w) \/ ModifyRegistInfo(w) \/ RemoveConnection(w)
           \/ BatchEnd(w)
  BY <1>5, <1>6
     DEF NoPacket, ModifyRegistInfo, RemoveConnection, BatchEnd, Pc, EventAt
<1>7. CASE CheckWaiting(w) \/ AppendWaiting(w) \/ Checked(w) \/ Updated(w)
  BY <1>5, <1>7 DEF CheckWaiting, AppendWaiting, Checked, Updated, Pc
<1>8. CASE Lock(w) \/ ProcessMsg(w) \/ SendFails(w) \/ Pop(w)
           \/ SessionUpdated(w)
  BY <1>5, <1>8
     DEF Lock, ProcessMsg, pushSendPacket, write, resize, SendFails, Pop,
         SessionUpdated, Pc, HandlerAt
<1>9. CASE Recv(w) \/ OnRead(w) \/ Update(w)
  <2>1. /\ UNCHANGED <<client, session, socket_, open, foreign, batch>>
        /\ at'[w].pc # "close"
        /\ \A u \in Epoll : u # w => at'[u] = at[u]
    BY <1>9 DEF Recv, OnRead, Update, Inv, TypeOK, WorkerTypeOK
  <2>2. \A u \in Epoll :
          /\ at'[u].pc = "close" => client'[at'[u].conn] = "gone"
          /\ \A e \in batch'[u] : e.hup => client'[e.conn] = "gone"
    BY <2>1 DEF SocketsOK
  <2>. QED  BY <2>1, <2>2, SocketsKept DEF Inv
<1>. QED
  BY <1>1, <1>2, <1>3, <1>4, <1>6, <1>7, <1>8, <1>9 DEF Events, Sessions

\* The listener registers what it has accepted.
LEMMA ListenerSockets ==
  ASSUME Inv, SocketsOK, ForeignOK, Listener
  PROVE  SocketsOK' /\ ForeignOK'
<1>1. CASE AddSession \/ AddConnection
  <2>1. UNCHANGED <<client, session, socket_, open, foreign, at, batch>>
    BY <1>1 DEF AddSession, AddConnection
  <2>2. \A u \in Epoll :
          /\ at'[u].pc = "close" => client'[at'[u].conn] = "gone"
          /\ \A e \in batch'[u] : e.hup => client'[e.conn] = "gone"
    BY <2>1 DEF SocketsOK
  <2>. QED  BY <2>1, <2>2, SocketsKept DEF Inv
<1>. QED  BY <1>1, AcceptSockets DEF Listener

\* The numbers are in order in every behaviour, also after the last step that
\* the server makes.
LEMMA SocketsTheorem == Spec => [](SocketsOK /\ ForeignOK)
<1>1. Init => SocketsOK /\ ForeignOK
  BY DEF Init, SocketsOK, ForeignOK
<1>2. IInv /\ SocketsOK /\ ForeignOK /\ [Next]_vars => SocketsOK' /\ ForeignOK'
  <2>. SUFFICES ASSUME IInv, SocketsOK, ForeignOK, [Next]_vars
                PROVE  SocketsOK' /\ ForeignOK'
    OBVIOUS
  <2>1. CASE UNCHANGED vars
    BY <2>1 DEF vars, SocketsOK, ForeignOK, Succeeds, Numbered
  <2>2. CASE Next
    <3>1. Inv
      BY <2>2 DEF Next, IInv, Inv
    <3>. QED
      BY <2>2, <3>1, ClientSockets, ListenerSockets, WorkerSockets DEF Next
  <2>. QED  BY <2>1, <2>2
<1>. QED  BY <1>1, <1>2, InvariantTheorem, PTL DEF Spec

-----------------------------------------------------------------------------
(* Every request is answered once.                                         *)

\* The right-hand side of AnsweredOnce, and the workers that handle c.
Balance(c) ==
  requests[c] + Pushing(c) + packetList_[c] - Handled(c) + sendBuffer_[c]
  + answers[c] + received[c]

Handling(w, c) == at[w].conn = c /\ at[w].pc \in {"send", "pop"}

\* Only the owner of its mutex handles a session.
HandledOK ==
  \A c \in Conn :
    /\ Pushing(c) \in Nat /\ Handled(c) \in {0, 1}
    /\ Handled(c) = 1 <=> \E w \in Epoll : Handling(w, c)

\* The invariant says so ...
LEMMA HandledOnce == Inv => HandledOK
<1>. SUFFICES ASSUME Inv, NEW c \in Conn
              PROVE  /\ Pushing(c) \in Nat /\ Handled(c) \in {0, 1}
                     /\ Handled(c) = 1 <=> \E w \in Epoll : Handling(w, c)
  BY DEF HandledOK
<1>. DEFINE S == {w \in Epoll : Handling(w, c)}
<1>1. Pushing(c) \in Nat
  BY DEF Pushing, Inv, TypeOK, ConnTypeOK, WorkerTypeOK
<1>2. Handled(c) = Cardinality(S)
  BY DEF Handled, Handling
<1>3. \A w \in S : holder[c] = w
  BY DEF Inv, HolderOK, Handling
<1>4. CASE S = {}
  <2>1. Handled(c) = 0
    BY <1>2, <1>4, FS_EmptySet
  <2>. QED  BY <1>1, <1>4, <2>1
<1>5. CASE S # {}
  <2>1. PICK w : S = {w}
    <3>1. \A u, v \in S : u = v
      BY ONLY <1>3
    <3>. HIDE DEF S
    <3>2. PICK u : u \in S
      BY <1>5
    <3>3. S = {u}
      BY ONLY <3>1, <3>2
    <3>. QED  BY <3>3
  <2>2. Cardinality({w}) = 1
    BY FS_Singleton
  <2>. QED  BY <1>1, <1>2, <1>5, <2>1, <2>2
<1>. QED  BY <1>4, <1>5

\* ... also of the next state.
LEMMA HandledOnceNext == Inv' => HandledOK'
  BY HandledOnce, PTL

\* The balance is one of natural numbers ...
LEMMA BalanceNat ==
  ASSUME Inv, NEW c \in Conn
  PROVE  /\ requests[c] \in Nat /\ answers[c] \in Nat /\ received[c] \in Nat
         /\ packetList_[c] \in Nat /\ sendBuffer_[c] \in Nat
         /\ rounds[c] \in Nat /\ foreign[c] \in Nat
         /\ Pushing(c) \in Nat /\ Handled(c) \in Nat /\ Asked(c) \in Nat
<1>1. /\ requests[c] \in Nat /\ answers[c] \in Nat /\ received[c] \in Nat
      /\ packetList_[c] \in Nat /\ sendBuffer_[c] \in Nat
      /\ rounds[c] \in Nat /\ foreign[c] \in Nat
  BY DEF Inv, TypeOK, ClientTypeOK, ConnTypeOK, ListTypeOK
<1>2. Pushing(c) \in Nat /\ Handled(c) \in Nat
  BY HandledOnce DEF HandledOK
<1>3. Asked(c) \in Nat
  BY <1>1 DEF Asked
<1>. QED  BY <1>1, <1>2, <1>3

\* ... also after a step.
LEMMA BalanceNatNext ==
  ASSUME Inv', NEW c \in Conn
  PROVE  /\ requests'[c] \in Nat /\ answers'[c] \in Nat
         /\ received'[c] \in Nat /\ foreign'[c] \in Nat
         /\ packetList_'[c] \in Nat /\ sendBuffer_'[c] \in Nat
         /\ Pushing(c)' \in Nat /\ Handled(c)' \in Nat
<1>1. /\ requests'[c] \in Nat /\ answers'[c] \in Nat
      /\ received'[c] \in Nat /\ foreign'[c] \in Nat
      /\ packetList_'[c] \in Nat /\ sendBuffer_'[c] \in Nat
  BY DEF Inv, TypeOK, ClientTypeOK, ConnTypeOK, ListTypeOK
<1>2. HandledOK'
  BY HandledOnceNext
<1>. QED  BY <1>1, <1>2 DEF HandledOK

\* What the client of c has asked for, and what it was sent for others.
Balanced ==
  \A c \in Conn : client[c] # "gone" => Asked(c) + foreign[c] = Balance(c)

\* What a step moves inside the server, and from there to a client, does not
\* change the balance of c.
LEMMA Moved ==
  ASSUME Inv, Inv', NEW c \in Conn, UNCHANGED <<client, rounds, received>>,
         requests'[c] + Pushing(c)' + packetList_'[c] - Handled(c)'
           + sendBuffer_'[c] + answers'[c] + foreign[c]
         = requests[c] + Pushing(c) + packetList_[c] - Handled(c)
           + sendBuffer_[c] + answers[c] + foreign'[c],
         Asked(c) + foreign[c] = Balance(c)
  PROVE  Asked(c)' + foreign'[c] = Balance(c)'
<1>1. Asked(c)' = Asked(c)
  BY DEF Asked
<1>2. Balance(c) = requests[c] + Pushing(c) + packetList_[c] - Handled(c)
                     + sendBuffer_[c] + answers[c] + received[c]
  BY DEF Balance
<1>3. Balance(c)' = requests'[c] + Pushing(c)' + packetList_'[c] - Handled(c)'
                      + sendBuffer_'[c] + answers'[c] + received[c]
  BY DEF Balance
<1>4. /\ requests[c] \in Nat /\ answers[c] \in Nat /\ received[c] \in Nat
      /\ packetList_[c] \in Nat /\ sendBuffer_[c] \in Nat
      /\ foreign[c] \in Nat
      /\ Pushing(c) \in Nat /\ Handled(c) \in Nat /\ Asked(c) \in Nat
  BY BalanceNat
<1>5. /\ requests'[c] \in Nat /\ answers'[c] \in Nat /\ foreign'[c] \in Nat
      /\ packetList_'[c] \in Nat /\ sendBuffer_'[c] \in Nat
      /\ Pushing(c)' \in Nat /\ Handled(c)' \in Nat
  BY BalanceNatNext
<1>. DEFINE X == requests[c] + Pushing(c) + packetList_[c] - Handled(c)
                 + sendBuffer_[c] + answers[c]
            Y == requests'[c] + Pushing(c)' + packetList_'[c] - Handled(c)'
                 + sendBuffer_'[c] + answers'[c]
<1>6. X \in Int /\ Y \in Int
  BY ONLY <1>4, <1>5
<1>7. /\ Y + foreign[c] = X + foreign'[c]
      /\ Asked(c) + foreign[c] = X + received[c]
      /\ Balance(c)' = Y + received[c]
  BY <1>2, <1>3
<1>. HIDE DEF X, Y
<1>8. Asked(c) + foreign'[c] = Y + received[c]
  BY ONLY <1>4, <1>5, <1>6, <1>7
<1>. QED  BY <1>1, <1>7, <1>8

\* Worker w only changes what it has in hand itself.
LEMMA OthersSame ==
  ASSUME Inv, Inv', NEW w \in Epoll, NEW c \in Conn,
         \A u \in Epoll : u # w => at'[u] = at[u],
         UNCHANGED epollFd
  PROVE  /\ (Handling(w, c)' <=> Handling(w, c)) => Handled(c)' = Handled(c)
         /\ epollFd[c] # w => Pushing(c)' = Pushing(c)
         /\ at[w].pc # "onRead" /\ at'[w].pc # "onRead" =>
              Pushing(c)' = Pushing(c)
<1>1. (Handling(w, c)' <=> Handling(w, c)) => Handled(c)' = Handled(c)
  <2>. SUFFICES ASSUME Handling(w, c)' <=> Handling(w, c)
                PROVE  Handled(c)' = Handled(c)
    OBVIOUS
  <2>1. \A u \in Epoll : Handling(u, c)' <=> Handling(u, c)
    BY DEF Handling
  <2>2. /\ Handled(c) \in {0, 1} /\ Handled(c)' \in {0, 1}
        /\ Handled(c) = 1 <=> \E u \in Epoll : Handling(u, c)
        /\ Handled(c)' = 1 <=> \E u \in Epoll : Handling(u, c)'
    <3>1. HandledOK /\ HandledOK'
      BY HandledOnce, HandledOnceNext
    <3>. QED  BY <3>1 DEF HandledOK
  <2>. QED  BY ONLY <2>1, <2>2
<1>2. epollFd[c] # w => Pushing(c)' = Pushing(c)
  BY DEF Pushing, Inv, TypeOK, ConnTypeOK
<1>3. at[w].pc # "onRead" /\ at'[w].pc # "onRead" => Pushing(c)' = Pushing(c)
  BY DEF Pushing, Inv, TypeOK, ConnTypeOK
<1>. QED  BY <1>1, <1>2, <1>3

\* The requests of a client and what it receives.
LEMMA ClientBalance ==
  ASSUME Inv, Inv', fate = "runs", Balanced, Client, UNCHANGED notClient
  PROVE  Balanced'
<1>. USE DEF notClient
<1>. SUFFICES ASSUME NEW c \in Conn, client'[c] # "gone"
              PROVE  Asked(c)' + foreign'[c] = Balance(c)'
  BY DEF Balanced
<1>1. client[c] # "gone"
  BY DEF Client, ClientStep, Connect, SendA, SendB, SendRequest, Receive,
     Killed, Inv, TypeOK, ClientTypeOK
<1>2. Asked(c) + foreign[c] = Balance(c)
  BY <1>1 DEF Balanced
<1>3. /\ Pushing(c)' = Pushing(c) /\ Handled(c)' = Handled(c)
      /\ foreign'[c] = foreign[c]
  BY DEF Pushing, Handled
<1>4. /\ requests[c] \in Nat /\ answers[c] \in Nat /\ received[c] \in Nat
      /\ packetList_[c] \in Nat /\ sendBuffer_[c] \in Nat /\ rounds[c] \in Nat
      /\ Pushing(c) \in Nat /\ Handled(c) \in Nat /\ foreign[c] \in Nat
  BY BalanceNat
<1>5. /\ Asked(c)' - Asked(c) =
           (requests'[c] + answers'[c] + received'[c])
           - (requests[c] + answers[c] + received[c])
      /\ requests'[c] \in Nat /\ answers'[c] \in Nat /\ received'[c] \in Nat
  <2>1. PICK d \in Conn : ClientStep(d) \/ Killed(d)
    BY DEF Client
  <2>. USE DEF Inv, TypeOK, ClientTypeOK
  <2>2. CASE d # c
    <3>1. /\ client'[c] = client[c] /\ rounds'[c] = rounds[c]
          /\ requests'[c] = requests[c] /\ answers'[c] = answers[c]
          /\ received'[c] = received[c]
      BY <2>1, <2>2 DEF ClientStep, Connect, SendA, SendB, SendRequest, Receive,
         Killed
    <3>. QED  BY <3>1, <1>4 DEF Asked
  <2>3. CASE d = c
    <3>1. CASE Connect(c)
      BY <3>1, <1>4 DEF Connect, Asked
    <3>2. CASE SendA(c)
      BY <3>2, <1>4 DEF SendA, SendRequest, Asked
    <3>3. CASE SendB(c)
      BY <3>3, <1>4 DEF SendB, SendRequest, Asked
    <3>4. CASE Receive(c)
      BY <3>4, <1>4 DEF Receive, Asked
    <3>5. ~Killed(c)
      BY DEF Killed
    <3>. QED  BY <2>1, <2>3, <3>1, <3>2, <3>3, <3>4, <3>5 DEF ClientStep
  <2>. QED  BY <2>2, <2>3
<1>6. Asked(c) \in Nat /\ Asked(c)' \in Nat
  BY <1>4 DEF Asked, Inv, TypeOK, ClientTypeOK
<1>7. Balance(c) = requests[c] + Pushing(c) + packetList_[c] - Handled(c)
                     + sendBuffer_[c] + answers[c] + received[c]
  BY DEF Balance
<1>8. Balance(c)' = requests'[c] + Pushing(c) + packetList_[c] - Handled(c)
                      + sendBuffer_[c] + answers'[c] + received'[c]
  BY <1>3 DEF Balance
<1>. QED  BY ONLY <1>2, <1>3, <1>4, <1>5, <1>6, <1>7, <1>8

\* A step of worker w that moves nothing of any connection.
LEMMA NothingMoved ==
  ASSUME Inv, Inv', fate = "runs", fate' = "runs", Balanced,
         NEW w \in Epoll,
         \A u \in Epoll : u # w => at'[u] = at[u],
         UNCHANGED <<clientVars, epollFd, packetList_, sendBuffer_, foreign>>,
         \A c \in Conn : Handling(w, c)' <=> Handling(w, c),
         /\ at[w].pc = "onRead" => at[w].len = 0
         /\ at'[w].pc # "onRead"
  PROVE  Balanced'
<1>. SUFFICES ASSUME NEW c \in Conn, client'[c] # "gone"
              PROVE  Asked(c)' + foreign'[c] = Balance(c)'
  BY DEF Balanced
<1>1. Asked(c) + foreign[c] = Balance(c)
  BY DEF Balanced
<1>2. Handled(c)' = Handled(c)
  BY OthersSame
<1>3. Pushing(c)' = Pushing(c)
  BY DEF Pushing, Inv, TypeOK, ConnTypeOK
<1>. QED  BY <1>1, <1>2, <1>3, Moved

\* The listener moves nothing either.
LEMMA ListenerBalance ==
  ASSUME Inv, Inv', fate = "runs", fate' = "runs", Balanced, Listener
  PROVE  Balanced'
<1>. SUFFICES ASSUME NEW c \in Conn, client'[c] # "gone"
              PROVE  Asked(c)' + foreign'[c] = Balance(c)'
  BY DEF Balanced
<1>1. /\ UNCHANGED <<clientVars, packetList_, sendBuffer_, foreign, at>>
      /\ \/ epollFd'[c] = epollFd[c]
         \/ c = lcur /\ epollFd[c] = None /\ epollFd'[c] \in Epoll
  <2>1. CASE \E d \in Conn, f \in Fd : Accept(d, f)
    BY <2>1 DEF Accept
  <2>2. CASE AddSession
    BY <2>2 DEF AddSession
  <2>3. CASE AddConnection
    <3>1. PICK v \in Epoll : epollFd' = [epollFd EXCEPT ![lcur] = v]
      BY <2>3 DEF AddConnection
    <3>2. lcur \in Conn /\ epollFd[lcur] = None
      BY <2>3 DEF AddConnection, Inv, EventsOK, TypeOK, ConnTypeOK
    <3>. QED
      BY <2>3, <3>1, <3>2 DEF AddConnection, Inv, TypeOK, ConnTypeOK
  <2>. QED  BY <2>1, <2>2, <2>3 DEF Listener
<1>2. Handled(c)' = Handled(c)
  BY <1>1 DEF Handled
<1>3. Pushing(c)' = Pushing(c)
  <2>1. CASE epollFd'[c] = epollFd[c]
    BY <1>1, <2>1 DEF Pushing
  <2>2. CASE epollFd'[c] # epollFd[c]
    <3>1. \A v \in Epoll : ~(at[v].pc = "onRead" /\ at[v].conn = c)
      BY <1>1, <2>2 DEF Inv, EventsOK, EventAt
    <3>. QED  BY <1>1, <2>2, <3>1 DEF Pushing
  <2>. QED  BY <2>1, <2>2
<1>4. Asked(c) + foreign[c] = Balance(c)
  BY <1>1 DEF Balanced
<1>. QED  BY <1>1, <1>2, <1>3, <1>4, Moved

\* recv moves what has come from the socket to the worker, pushPacket a packet
\* of it from the worker to the session.
LEMMA ReadBalance ==
  ASSUME Inv, Inv', fate = "runs", fate' = "runs", Balanced,
         NEW w \in Epoll, Recv(w) \/ OnRead(w)
  PROVE  Balanced'
<1>. SUFFICES ASSUME NEW c \in Conn, client'[c] # "gone"
              PROVE  Asked(c)' + foreign'[c] = Balance(c)'
  BY DEF Balanced
<1>1. /\ UNCHANGED <<client, rounds, answers, received, epollFd, sendBuffer_>>
      /\ UNCHANGED foreign
      /\ at[w].pc \in {"recv", "onRead"} /\ at'[w].pc = "onRead"
      /\ at'[w].conn = at[w].conn
      /\ \A u \in Epoll : u # w => at'[u] = at[u]
      /\ at[w] \in [pc : Pc, conn : Conn \cup {None}, len : Nat]
  BY DEF Recv, OnRead, Inv, TypeOK, WorkerTypeOK
<1>2. PICK d \in Conn : d = at[w].conn
  BY <1>1, InHand DEF EventAt
<1>3. epollFd[d] = w /\ session[d] = "active"
  BY <1>1, <1>2 DEF Inv, EventsOK, EventAt
<1>4. Handled(c)' = Handled(c)
  <2>1. ~Handling(w, c) /\ ~Handling(w, c)'
    BY <1>1 DEF Handling
  <2>. QED  BY <1>1, <2>1, OthersSame
<1>5. requests'[c] + Pushing(c)' + packetList_'[c]
        = requests[c] + Pushing(c) + packetList_[c]
  <2>1. /\ requests[c] \in Nat /\ packetList_[c] \in Nat /\ Pushing(c) \in Nat
        /\ requests \in [Conn -> Nat] /\ packetList_ \in [Conn -> Nat]
        /\ w # None
    BY BalanceNat DEF Inv, TypeOK, ClientTypeOK, ConnTypeOK
  <2>2. CASE c # d
    <3>1. requests'[c] = requests[c] /\ packetList_'[c] = packetList_[c]
      BY <1>2, <2>1, <2>2 DEF Recv, OnRead, pushPacket
    <3>2. Pushing(c)' = Pushing(c)
      BY <1>1, <1>2, <2>2 DEF Pushing, Inv, TypeOK, ConnTypeOK
    <3>. QED  BY <3>1, <3>2
  <2>3. CASE c = d /\ Recv(w)
    <3>1. /\ requests'[c] = 0 /\ packetList_' = packetList_
          /\ at'[w].len = requests[c]
      BY <1>1, <1>2, <1>3, <2>1, <2>3 DEF Recv, Inv, TypeOK, WorkerTypeOK
    <3>2. Pushing(c) = 0 /\ Pushing(c)' = requests[c]
      BY <1>1, <1>2, <1>3, <2>1, <2>3, <3>1 DEF Pushing, Recv
    <3>. QED  BY <2>1, <3>1, <3>2
  <2>4. CASE c = d /\ OnRead(w)
    <3>1. /\ requests' = requests /\ packetList_'[c] = packetList_[c] + 1
          /\ at'[w].len = at[w].len - 1 /\ at[w].len \in Nat
      BY <1>1, <1>2, <2>1, <2>4
         DEF OnRead, pushPacket, Inv, TypeOK, WorkerTypeOK
    <3>2. Pushing(c) = at[w].len /\ Pushing(c)' = at'[w].len
      BY <1>1, <1>2, <1>3, <2>1, <2>4 DEF Pushing, OnRead
    <3>. QED  BY <2>1, <3>1, <3>2
  <2>. QED  BY <2>2, <2>3, <2>4
<1>6. Asked(c) + foreign[c] = Balance(c)
  BY <1>1 DEF Balanced
<1>7. requests'[c] + Pushing(c)' + packetList_'[c] - Handled(c)'
        + sendBuffer_'[c] + answers'[c] + foreign[c]
      = requests[c] + Pushing(c) + packetList_[c] - Handled(c)
        + sendBuffer_[c] + answers[c] + foreign'[c]
  <2>1. /\ requests[c] \in Nat /\ packetList_[c] \in Nat /\ Pushing(c) \in Nat
        /\ sendBuffer_[c] \in Nat /\ answers[c] \in Nat /\ foreign[c] \in Nat
        /\ Handled(c) \in Nat
    BY BalanceNat
  <2>2. /\ requests'[c] \in Nat /\ packetList_'[c] \in Nat
        /\ Pushing(c)' \in Nat
    BY BalanceNatNext
  <2>3. /\ sendBuffer_'[c] = sendBuffer_[c] /\ answers'[c] = answers[c]
        /\ foreign'[c] = foreign[c]
    BY <1>1
  <2>. QED  BY ONLY <1>4, <1>5, <2>1, <2>2, <2>3
<1>. QED  BY <1>1, <1>6, <1>7, Moved

\* A handler moves a packet from the session to the send buffer, as an answer,
\* and Write what the socket takes of it to the client: to another one only when
\* its own is gone.
LEMMA HandleBalance ==
  ASSUME Inv, Inv', SocketsOK, fate = "runs", fate' = "runs", Balanced,
         NEW w \in Epoll, ProcessMsg(w) \/ Send(w) \/ Pop(w)
  PROVE  Balanced'
<1>. SUFFICES ASSUME NEW c \in Conn, client'[c] # "gone"
              PROVE  Asked(c)' + foreign'[c] = Balance(c)'
  BY DEF Balanced
<1>1. /\ UNCHANGED <<client, rounds, requests, received, epollFd>>
      /\ at[w].pc \in {"handle", "send", "pop"}
      /\ at[w] \in [pc : Pc, conn : Conn \cup {None}, len : Nat]
  BY DEF ProcessMsg, Send, Pop, Inv, TypeOK, WorkerTypeOK
<1>2. PICK d \in Conn : d = at[w].conn
  BY <1>1, InHand DEF HandlerAt
<1>3. /\ at'[w].pc \in {"handle", "send", "pop", "stuck"}
      /\ at'[w].conn = at[w].conn
      /\ \A u \in Epoll : u # w => at'[u] = at[u]
  <2>1. PICK pc \in {"handle", "send", "pop", "stuck"} : Goes(w, pc)
    BY DEF ProcessMsg, Send, Pop, pushSendPacket, write, resize
  <2>2. pc \in Pc
    BY DEF Pc, HandlerAt
  <2>. QED  BY <2>1, <2>2, GoesEffect DEF Inv, TypeOK
<1>4. Pushing(c)' = Pushing(c)
  BY <1>1, <1>3, OthersSame
<1>5. /\ requests[c] \in Nat /\ answers[c] \in Nat /\ packetList_[c] \in Nat
      /\ sendBuffer_[c] \in Nat /\ Pushing(c) \in Nat
      /\ foreign[c] \in Nat
      /\ answers \in [Conn -> Nat] /\ packetList_ \in [Conn -> Nat]
      /\ sendBuffer_ \in [Conn -> Nat] /\ foreign \in [Conn -> Nat]
  BY BalanceNat DEF Inv, TypeOK, ClientTypeOK, ConnTypeOK, ListTypeOK
<1>6. /\ answers'[c] \in Nat /\ packetList_'[c] \in Nat
      /\ sendBuffer_'[c] \in Nat /\ foreign'[c] \in Nat
      /\ Handled(c) \in {0, 1} /\ Handled(c)' \in {0, 1}
      /\ (Handled(c) = 1 <=> \E u \in Epoll : Handling(u, c))
      /\ (Handled(c)' = 1 <=> \E u \in Epoll : Handling(u, c)')
  <2>1. HandledOK /\ HandledOK'
    BY HandledOnce, HandledOnceNext
  <2>2. /\ answers'[c] \in Nat /\ packetList_'[c] \in Nat
        /\ sendBuffer_'[c] \in Nat /\ foreign'[c] \in Nat
    BY BalanceNatNext
  <2>. QED  BY <2>1, <2>2 DEF HandledOK
<1>7. packetList_'[c] - Handled(c)' + sendBuffer_'[c] + answers'[c] + foreign[c]
      = packetList_[c] - Handled(c) + sendBuffer_[c] + answers[c] + foreign'[c]
  <2>1. CASE c # d
    <3>1. /\ packetList_'[c] = packetList_[c]
          /\ sendBuffer_'[c] = sendBuffer_[c]
          /\ answers'[c] + foreign[c] = answers[c] + foreign'[c]
      <4>1. CASE ProcessMsg(w) \/ Pop(w)
        BY <1>2, <1>5, <2>1, <4>1
           DEF ProcessMsg, pushSendPacket, write, resize, Pop
      <4>2. CASE Send(w)
        <5>1. PICK e \in Conn, k \in 0..sendBuffer_[d] : Sent(d, e, k)
          BY <1>2, <1>5, <4>2, SendEffect
        <5>2. packetList_' = packetList_ /\ sendBuffer_[d] \in Nat /\ k \in Nat
          BY <1>2, <1>5, <4>2 DEF Send
        <5>3. sendBuffer_'[c] = sendBuffer_[c]
          BY <1>5, <2>1, <5>1 DEF Sent
        <5>4. CASE c = e
          <6>1. answers'[c] = answers[c] + k /\ foreign'[c] = foreign[c] + k
            BY <1>5, <2>1, <5>1, <5>4 DEF Sent
          <6>. QED  BY ONLY <1>5, <5>2, <5>3, <6>1
        <5>5. CASE c # e
          <6>1. answers'[c] = answers[c] /\ foreign'[c] = foreign[c]
            BY <1>5, <5>1, <5>5 DEF Sent
          <6>. QED  BY ONLY <1>5, <5>2, <5>3, <6>1
        <5>. QED  BY <5>4, <5>5
      <4>. QED  BY <4>1, <4>2
    <3>2. Handled(c)' = Handled(c)
      <4>1. ~Handling(w, c) /\ ~Handling(w, c)'
        BY <1>2, <1>3, <2>1 DEF Handling
      <4>. QED  BY <1>1, <1>3, <4>1, OthersSame
    <3>. QED  BY ONLY <1>5, <1>6, <3>1, <3>2
  <2>2. CASE c = d /\ ProcessMsg(w)
    <3>1. /\ packetList_' = packetList_ /\ answers' = answers
          /\ foreign' = foreign
          /\ at[w].pc = "handle"
          /\ \/ sendBuffer_'[c] = sendBuffer_[c] + 1 /\ at'[w].pc = "send"
             \/ sendBuffer_' = sendBuffer_ /\ at'[w].pc = "stuck"
      BY <1>2, <1>5, <2>2
         DEF ProcessMsg, pushSendPacket, write, resize, Inv, TypeOK,
             WorkerTypeOK
    <3>2. holder[c] = w
      BY <1>2, <2>2, <3>1 DEF Inv, HolderOK
    <3>3. \A u \in Epoll : Handling(u, c) => u = w
      BY <3>2 DEF Inv, HolderOK, Handling
    <3>4. Handled(c) = 0
      BY <1>6, <3>1, <3>3 DEF Handling
    <3>5. Handled(c)' = IF at'[w].pc = "send" THEN 1 ELSE 0
      <4>1. \A u \in Epoll : Handling(u, c)' <=> u = w /\ at'[w].pc = "send"
        BY <1>2, <1>3, <2>2, <3>1, <3>3 DEF Handling
      <4>. QED  BY <1>6, <4>1
    <3>. QED  BY <1>5, <3>1, <3>4, <3>5
  <2>3. CASE c = d /\ Send(w)
    <3>1. PICK e \in Conn, k \in 0..sendBuffer_[c] : Sent(c, e, k)
      BY <1>2, <1>5, <2>3, SendEffect
    <3>5. open[c] /\ c = e
      <4>1. session[c] # "none" /\ client[c] # "gone"
        BY <1>1, <1>2, <2>3 DEF Inv, ListsOK, HandlerAt
      <4>. QED  BY <3>1, <4>1 DEF SocketsOK, Sent
    <3>2. packetList_' = packetList_ /\ at'[w].pc = "pop" /\ at[w].pc = "send"
      BY <2>3 DEF Send, Inv, TypeOK, WorkerTypeOK
    <3>3. Handled(c)' = Handled(c)
      <4>1. Handling(w, c) /\ Handling(w, c)'
        BY <1>2, <1>3, <2>3, <3>2 DEF Handling
      <4>. QED  BY <1>1, <1>3, <4>1, OthersSame
    <3>4. /\ answers'[c] = answers[c] + k
          /\ sendBuffer_'[c] = sendBuffer_[c] - k
          /\ foreign'[c] = foreign[c]
      BY <1>5, <3>1, <3>5 DEF Sent
    <3>. QED  BY ONLY <1>5, <1>6, <3>1, <3>2, <3>3, <3>4
  <2>4. CASE c = d /\ Pop(w)
    <3>1. /\ packetList_'[c] = packetList_[c] - 1
          /\ sendBuffer_' = sendBuffer_ /\ answers' = answers
          /\ foreign' = foreign
          /\ at[w].pc = "pop" /\ at'[w].pc = "handle"
      BY <1>2, <1>5, <2>4 DEF Pop, Inv, TypeOK, WorkerTypeOK
    <3>2. Handled(c) = 1
      <4>1. Handling(w, c)
        BY <1>2, <2>4, <3>1 DEF Handling
      <4>. QED  BY <1>6, <4>1
    <3>3. Handled(c)' = 0
      <4>1. holder[c] = w
        BY <1>2, <2>4, <3>1 DEF Inv, HolderOK
      <4>2. \A u \in Epoll : ~Handling(u, c)'
        BY <1>3, <3>1, <4>1 DEF Inv, HolderOK, Handling
      <4>. QED  BY <1>6, <4>2
    <3>. QED  BY <1>5, <3>1, <3>2, <3>3
  <2>. QED  BY <2>1, <2>2, <2>3, <2>4
<1>8. Asked(c) + foreign[c] = Balance(c)
  BY <1>1 DEF Balanced
<1>9. requests'[c] + Pushing(c)' + packetList_'[c] - Handled(c)'
        + sendBuffer_'[c] + answers'[c] + foreign[c]
      = requests[c] + Pushing(c) + packetList_[c] - Handled(c)
        + sendBuffer_[c] + answers[c] + foreign'[c]
  <2>1. requests'[c] = requests[c]
    BY <1>1
  <2>2. Handled(c) \in Nat /\ Handled(c)' \in Nat
    BY BalanceNat, BalanceNatNext
  <2>3. /\ answers'[c] \in Nat /\ packetList_'[c] \in Nat
        /\ sendBuffer_'[c] \in Nat /\ foreign'[c] \in Nat
    BY <1>6
  <2>4. /\ requests[c] \in Nat /\ answers[c] \in Nat /\ packetList_[c] \in Nat
        /\ sendBuffer_[c] \in Nat /\ Pushing(c) \in Nat /\ foreign[c] \in Nat
    BY <1>5
  <2>. QED  BY ONLY <1>4, <1>7, <2>1, <2>2, <2>3, <2>4
<1>. QED  BY ONLY <1>1, <1>8, <1>9, Inv, Inv', Moved

\* The other steps of a worker move nothing.
LEMMA WorkerBalance ==
  ASSUME Inv, Inv', SocketsOK, fate = "runs", fate' = "runs", Balanced,
         NEW w \in Epoll, Events(w) \/ Sessions(w)
  PROVE  Balanced'
<1>1. CASE Recv(w) \/ OnRead(w)
  BY <1>1, ReadBalance
<1>2. CASE ProcessMsg(w) \/ Send(w) \/ Pop(w)
  BY <1>2, HandleBalance
<1>3. ASSUME NEW pc \in Pc \ {"onRead", "send"}, Goes(w, pc) \/ BackTo(w, pc),
             UNCHANGED <<clientVars, epollFd, packetList_, sendBuffer_>>,
             UNCHANGED foreign, at[w].pc = "onRead" => at[w].len = 0,
             at[w].pc = "send" <=> pc = "pop", at[w].pc # "pop",
             pc = "pop" => Goes(w, pc)
      PROVE  Balanced'
  <2>1. /\ at'[w].pc = pc
        /\ at'[w].conn = at[w].conn \/ at[w].pc # "send"
        /\ \A u \in Epoll : u # w => at'[u] = at[u]
    BY <1>3, GoesEffect, BackToEffect DEF Inv, TypeOK
  <2>2. \A c \in Conn : Handling(w, c)' <=> Handling(w, c)
    BY <1>3, <2>1 DEF Handling
  <2>. QED  BY ONLY Inv, Inv', fate = "runs", fate' = "runs", Balanced,
                    <1>3, <2>1, <2>2, NothingMoved
<1>4. CASE RecvNothing(w) \/ NoPacket(w) \/ ModifyRegistInfo(w)
  BY <1>3, <1>4 DEF RecvNothing, NoPacket, ModifyRegistInfo, Pc, EventAt
<1>5. CASE EpollWait(w) \/ CloseSocket(w) \/ RemoveConnection(w) \/ Kill(w)
           \/ BatchEnd(w)
  BY <1>3, <1>5
     DEF EpollWait, CloseSocket, RemoveConnection, Kill, BatchEnd, Pc, EventAt
<1>6. CASE CheckWaiting(w) \/ AppendWaiting(w) \/ Checked(w) \/ Updated(w)
  BY <1>3, <1>6 DEF CheckWaiting, AppendWaiting, Checked, Updated, Pc
<1>7. CASE Lock(w) \/ SendFails(w) \/ SessionUpdated(w)
  BY <1>3, <1>7 DEF Lock, SendFails, SessionUpdated, Pc, HandlerAt
<1>8. CASE NextEvent(w) \/ Update(w) \/ CheckSession(w)
  <2>1. /\ UNCHANGED <<clientVars, epollFd, packetList_, sendBuffer_, foreign>>
        /\ at[w].pc \in {"events", "update", "check"}
        /\ at'[w].pc \in {"close", "recv", "lock", "update", "check"}
        /\ \A u \in Epoll : u # w => at'[u] = at[u]
    BY <1>8 DEF NextEvent, Update, CheckSession, Inv, TypeOK, WorkerTypeOK
  <2>2. \A c \in Conn : Handling(w, c)' <=> Handling(w, c)
    BY <2>1 DEF Handling
  <2>. QED  BY <2>1, <2>2, NothingMoved
<1>. QED
  BY <1>1, <1>2, <1>4, <1>5, <1>6, <1>7, <1>8 DEF Events, Sessions

\* What a client asks for is balanced as long as the server runs.
LEMMA BalanceTheorem == Spec => [](fate = "runs" => Balanced)
<1>. DEFINE B == fate = "runs" => Balanced
<1>1. Init => B
  <2>. SUFFICES ASSUME Init PROVE Balanced
    OBVIOUS
  <2>1. HandledOK
    BY InitIInv, HandledOnce DEF Init, IInv, Inv
  <2>2. \A c \in Conn : Pushing(c) = 0 /\ Handled(c) = 0
    BY <2>1 DEF HandledOK, Handling, Pushing, Init
  <2>. QED  BY <2>2 DEF Balanced, Balance, Asked, Init, ClientInit
<1>2. IInv /\ IInv' /\ SocketsOK /\ B /\ [Next]_vars => B'
  <2>. SUFFICES ASSUME IInv, IInv', SocketsOK, B, [Next]_vars,
                       fate' = "runs"
                PROVE  Balanced'
    OBVIOUS
  <2>1. CASE UNCHANGED vars
    BY <2>1 DEF vars, Balanced, Balance, Handled, Pushing, Asked
  <2>2. CASE Next
    <3>1. Inv /\ Inv' /\ fate = "runs" /\ Balanced
      BY <2>2 DEF Next, IInv, Inv
    <3>. QED
      BY <2>2, <3>1, ClientBalance, ListenerBalance, WorkerBalance DEF Next
  <2>. QED  BY <2>1, <2>2
<1>. QED  BY <1>1, <1>2, InvariantTheorem, SocketsTheorem, PTL DEF Spec

\* Every request is answered once, for any number of clients, workers and
\* descriptor numbers: what is asked and not yet answered is in exactly one
\* place, however many workers run update; and a client is sent what others
\* have asked for only if it has the number of a connection that was closed
\* because its client is gone.
THEOREM AnsweredTheorem == Spec => []AnsweredOnce
<1>1. IInv /\ ForeignOK /\ (fate = "runs" => Balanced) => AnsweredOnce
  <2>. SUFFICES ASSUME IInv, ForeignOK, fate = "runs", Balanced
                PROVE  AnsweredOnce
    BY DEF AnsweredOnce
  <2>1. HandledOK
    BY HandledOnce DEF IInv, Inv
  <2>2. ASSUME NEW c \in Conn PROVE Handled(c) <= 1
    <3>1. Handled(c) = 0 \/ Handled(c) = 1
      BY <2>1 DEF HandledOK
    <3>. QED  BY ONLY <3>1
  <2>3. ASSUME NEW c \in Conn, client[c] # "gone"
        PROVE  Asked(c) + foreign[c] =
                 requests[c] + Pushing(c) + packetList_[c] - Handled(c)
                 + sendBuffer_[c] + answers[c] + received[c]
    BY <2>3 DEF Balanced, Balance
  <2>4. \A c \in Conn : foreign[c] > 0 => Succeeds(c)
    BY DEF ForeignOK
  <2>. QED  BY ONLY <2>2, <2>3, <2>4 DEF AnsweredOnce
<1>. QED  BY <1>1, InvariantTheorem, SocketsTheorem, BalanceTheorem, PTL
=============================================================================

------------------------- MODULE IocpServer_proofs --------------------------
(***************************************************************************)
(* The completion port server for any number of connections and ports: one *)
(* read and one write of a connection at a time, the write lock handed on  *)
(* without a gap, nothing that leads back to a deleted connection, and     *)
(* every request answered once.                                            *)
(***************************************************************************)
EXTENDS IocpServer, FiniteSetTheorems, SequenceTheorems, TLAPS

WriterAt == {"remove", "remain", "release", "send"}
ReaderAt == {"recv", "data", "onRead"}
ClosingAt == {"closesocket", "erase", "kill"}

\* Where a thread can be.
Pc == {"idle", "add", "addSession", "scan", "clear", "acquire"}
      \cup WriterAt \cup ReaderAt \cup ClosingAt
PcOf(t) ==
  IF t = listener THEN {"idle", "add", "recv", "addSession"} \cup ClosingAt
  ELSE IF t = push
       THEN {"idle", "scan", "clear", "acquire", "remain", "release", "send"}
            \cup ClosingAt
       ELSE {"idle"} \cup WriterAt \cup ReaderAt \cup ClosingAt

Completion == [op : {"read", "write"}, conn : Conn,
               result : {"ok", "deleted", "other"}, len : Nat]

ClientTypeOK ==
  /\ client \in [Conn -> {"connect", "sendA", "sendB", "recv", "gone"}]
  /\ rounds \in [Conn -> Nat]
  /\ requests \in [Conn -> Nat] /\ answers \in [Conn -> Nat]
  /\ received \in [Conn -> Nat]

OpTypeOK ==
  /\ readOp \in [Conn -> {"none", "pending", "queued"}]
  /\ writeOp \in [Conn -> {"none", "pending", "queued"}]
  /\ writeLen \in [Conn -> Nat]
  /\ completions \in [Port -> Seq(Completion)]

ThreadTypeOK ==
  /\ at \in [Thread -> [pc : Pc, conn : Conn \cup {None}, len : Nat]]
  /\ \A t \in Thread : at[t].pc \in PcOf(t)
  /\ \A t \in Thread : at[t].conn = None <=> at[t].pc \in {"idle", "scan"}

SessionTypeOK ==
  /\ spc \in {"drain", "check", "update", "handle", "notify"}
  /\ scur \in Conn \cup {None}
  /\ spc \in {"handle", "notify"} => scur \in Conn
  /\ todo \subseteq Conn
  /\ watingSesion_ \subseteq Conn /\ sessionList_ \subseteq Conn

TypeOK ==
  /\ ClientTypeOK /\ OpTypeOK /\ ThreadTypeOK /\ SessionTypeOK
  /\ session \in [Conn -> {"none", "active", "disabled", "deleted"}]
  /\ open \in [Conn -> BOOLEAN]
  /\ connections_ \subseteq Conn /\ mutex_ \in {None, listener, push}
  /\ scan \subseteq Conn
  /\ iocp \in [Conn -> Port \cup {None}]
  /\ writeLock_ \in [Conn -> BOOLEAN] /\ pushSend_ \in [Conn -> BOOLEAN]
  /\ packetList_ \in [Conn -> Nat] /\ sendBuffer_ \in [Conn -> Nat]

\* Who has the mutex of the manager, and what the push thread has left to scan:
\* while it has the mutex only itself takes entries out of the map.
MutexOK ==
  /\ mutex_ = push <=> at[push].pc # "idle"
  /\ mutex_ = listener <=> at[listener].pc \in {"recv"} \cup ClosingAt
  /\ mutex_ = push =>
       \A c \in scan : c \in connections_ \/ In(push, c, {"kill"})

\* The connection has not been added to the manager.
Fresh(c) == session[c] = "none" \/ In(listener, c, {"add"})

\* Of such a connection nobody knows but the listener that adds it.
FreshOK ==
  \A c \in Conn :
    /\ session[c] = "none" => ~open[c] /\ \A t \in Thread : at[t].conn # c
    /\ In(listener, c, {"add"}) => session[c] = "active"
    /\ Fresh(c) => /\ readOp[c] = "none" /\ writeOp[c] = "none"
                   /\ ~writeLock_[c] /\ c \notin connections_
                   /\ packetList_[c] = 0 /\ sendBuffer_[c] = 0
                   /\ \A t \in Thread : at[t].conn = c => t = listener
    /\ ~Fresh(c) => iocp[c] \in Port

\* What is queued at a port belongs to a connection of that port, and is the
\* only completion of its operation.
EntryOK(p, i) ==
  LET r == completions[p][i] IN
    /\ iocp[r.conn] = p
    /\ r.op = "read" => readOp[r.conn] = "queued"
    /\ r.op = "write" => writeOp[r.conn] = "queued"
    /\ r.result = "other" => ~open[r.conn]
    /\ r.op = "write" /\ r.result = "ok" => r.len <= sendBuffer_[r.conn]
    /\ \A j \in DOMAIN completions[p] :
         completions[p][j].op = r.op /\ completions[p][j].conn = r.conn
           => i = j
QueueOK == \A p \in Port : \A i \in DOMAIN completions[p] : EntryOK(p, i)

\* One write at a time, under the lock.
Writing(c) == writeOp[c] # "none" \/ Writers(c) # {}
WriteOK ==
  \A c \in Conn :
    /\ \A t, u \in Writers(c) : t = u
    /\ Writers(c) # {} => writeOp[c] = "none"
    /\ Writing(c) => writeLock_[c]
    /\ writeLock_[c] /\ open[c] /\ ~Closing(c) => Writing(c)
    /\ writeOp[c] = "pending" => writeLen[c] <= sendBuffer_[c]
    /\ \A t \in Thread : In(t, c, {"remove"}) => at[t].len <= sendBuffer_[c]

\* One read at a time.
ReadOK ==
  \A c \in Conn :
    /\ \A t, u \in Readers(c) : t = u
    /\ Readers(c) # {} => readOp[c] = "none"
    /\ c \in connections_ /\ open[c] /\ ~Closing(c) =>
         readOp[c] # "none" \/ Readers(c) # {}

\* What has been done for good when a connection is closed, removed, killed.
ClosedOK ==
  /\ \A t \in Thread, c \in Conn :
       /\ In(t, c, {"erase", "kill"}) => ~open[c]
       /\ In(t, c, {"kill"}) => c \notin connections_
  /\ \A c \in Conn :
       session[c] \in {"disabled", "deleted"} =>
         ~open[c] /\ c \notin connections_

NotifyOK == spc = "notify" => packetList_[scur] > 0

IInv == /\ TypeOK /\ MutexOK /\ FreshOK /\ QueueOK /\ WriteOK /\ ReadOK
        /\ ClosedOK /\ NotifyOK

USE ThreadAssumption, ClientAssumption
    DEF IInv, TypeOK, At, Goes, connVars, mgrVars, opVars, sendVars, bufVars,
        sessionVars, clientVars, serverVars, Idle

-----------------------------------------------------------------------------
\* The threads by their names.
LEMMA ThreadNames ==
  /\ listener \in Thread /\ push \in Thread /\ listener # push
  /\ \A p \in Port : p \in Thread /\ p # listener /\ p # push
  /\ \A t \in Thread : t \in Port \/ t = listener \/ t = push
  /\ None \notin Conn /\ None # listener /\ None # push
  BY DEF Thread

\* Before the first connection.
LEMMA InitIInv == Init => IInv
<1>. SUFFICES ASSUME Init PROVE IInv
  OBVIOUS
<1>. USE ThreadNames DEF Init
<1>1. TypeOK
  BY DEF ClientInit, ClientTypeOK, OpTypeOK, ThreadTypeOK, SessionTypeOK, Pc,
     PcOf
<1>2. MutexOK /\ FreshOK /\ QueueOK /\ NotifyOK
  BY DEF MutexOK, FreshOK, QueueOK, EntryOK, NotifyOK, Fresh, In, ClosingAt
<1>3. WriteOK /\ ReadOK /\ ClosedOK
  BY DEF WriteOK, ReadOK, ClosedOK, Writing, Writers, Readers, Closing, In
<1>. QED  BY <1>1, <1>2, <1>3

\* The invariant mentions no state but the variables.
LEMMA StutterIInv == ASSUME IInv, UNCHANGED vars PROVE IInv'
<1>. USE DEF vars
<1>1. TypeOK'
  BY DEF ClientTypeOK, OpTypeOK, ThreadTypeOK, SessionTypeOK
<1>2. (MutexOK /\ FreshOK /\ QueueOK /\ NotifyOK)'
  BY DEF MutexOK, FreshOK, QueueOK, EntryOK, NotifyOK, Fresh, In
<1>3. (WriteOK /\ ReadOK /\ ClosedOK)'
  BY DEF WriteOK, ReadOK, ClosedOK, Writing, Writers, Readers, Closing, In
<1>. QED  BY <1>1, <1>2, <1>3

\* Thread t goes on to pc with what it has in hand.
LEMMA GoesEffect ==
  ASSUME ThreadTypeOK, NEW t \in Thread, NEW pc \in PcOf(t), Goes(t, pc),
         pc \in {"idle", "scan"} <=> at[t].pc \in {"idle", "scan"}
  PROVE  /\ ThreadTypeOK'
         /\ at'[t].pc = pc /\ at'[t].conn = at[t].conn /\ at'[t].len = at[t].len
         /\ \A u \in Thread : u # t => at'[u] = at[u]
<1>. USE DEF ThreadTypeOK
<1>1. pc \in Pc
  BY DEF Pc, PcOf, ReaderAt, WriterAt
<1>2. at' \in [Thread -> [pc : Pc, conn : Conn \cup {None}, len : Nat]]
  BY <1>1
<1>3. /\ at'[t].pc = pc /\ at'[t].conn = at[t].conn /\ at'[t].len = at[t].len
      /\ \A u \in Thread : u # t => at'[u] = at[u]
  OBVIOUS
<1>. QED  BY <1>2, <1>3

\* Thread t returns to its loop, or the listener to addConnection.
LEMMA ReturnsEffect ==
  ASSUME ThreadTypeOK, MutexOK, scan \subseteq Conn,
         connections_ \subseteq Conn, mutex_ \in {None, listener, push},
         NEW t \in Thread, NEW result \in BOOLEAN, Returns(t, result),
         UNCHANGED connections_,
         at[t].pc \in {"recv", "release", "send", "acquire", "kill"},
         at[t].pc = "kill" => ~result
  PROVE  /\ ThreadTypeOK' /\ MutexOK' /\ scan' \subseteq Conn
         /\ mutex_' \in {None, listener, push}
         /\ t = listener => at'[t].pc = "addSession" /\ at'[t].conn = at[t].conn
         /\ t # listener => at'[t].pc \in {"idle", "scan"} /\ at'[t].conn = None
         /\ \A u \in Thread : u # t => at'[u] = at[u]
<1>. USE ThreadNames DEF Returns, ThreadTypeOK
<1>1. /\ at' \in [Thread -> [pc : Pc, conn : Conn \cup {None}, len : Nat]]
      /\ scan' \subseteq Conn /\ mutex_' \in {None, listener, push}
  BY DEF Pc
<1>2. /\ t = listener => at'[t].pc = "addSession" /\ at'[t].conn = at[t].conn
      /\ t # listener => at'[t].pc = IF t = push THEN "scan" ELSE "idle"
      /\ t # listener => at'[t].conn = None
      /\ \A u \in Thread : u # t => at'[u] = at[u]
  OBVIOUS
<1>3. ThreadTypeOK'
  BY <1>1, <1>2 DEF PcOf
<1>4. MutexOK'
  BY <1>2 DEF MutexOK, In, ClosingAt, PcOf
<1>. QED  BY <1>1, <1>2, <1>3, <1>4

\* What a port has queued.
LEMMA QueuedType ==
  ASSUME OpTypeOK, NEW p \in Port, NEW i \in DOMAIN completions[p]
  PROVE  /\ completions[p][i] \in Completion
         /\ completions[p][i].conn \in Conn /\ completions[p][i].len \in Nat
         /\ completions[p][i].op \in {"read", "write"}
<1>1. completions[p] \in Seq(Completion)
  BY DEF OpTypeOK
<1>2. completions[p][i] \in Completion
  BY <1>1
<1>. QED  BY <1>2 DEF Completion

\* Thread t moves on: for WriteOK it matters only whether it begins to write,
\* and whether it stops to without closing the connection.
LEMMA WriteFrame ==
  ASSUME WriteOK, NEW t \in Thread,
         \A u \in Thread : u # t => at'[u] = at[u],
         UNCHANGED <<writeOp, writeLen, writeLock_, sendBuffer_>>,
         \A d \in Conn : open'[d] => open[d],
         at'[t].pc \in WriterAt =>
           /\ at[t].pc \in WriterAt /\ at'[t].conn = at[t].conn
           /\ at'[t].pc # "remove",
         at[t].pc \in WriterAt \cup ClosingAt =>
           \/ at'[t].pc \in WriterAt \cup ClosingAt /\ at'[t].conn = at[t].conn
           \/ ~open'[at[t].conn]
  PROVE  WriteOK'
<1>. USE DEF WriterAt, ClosingAt
<1>1. SUFFICES ASSUME NEW d \in Conn
      PROVE  /\ \A u, v \in Writers(d)' : u = v
             /\ Writers(d)' # {} => writeOp'[d] = "none"
             /\ Writing(d)' => writeLock_'[d]
             /\ writeLock_'[d] /\ open'[d] /\ ~Closing(d)' => Writing(d)'
             /\ writeOp'[d] = "pending" => writeLen'[d] <= sendBuffer_'[d]
             /\ \A u \in Thread : In(u, d, {"remove"})' =>
                  at'[u].len <= sendBuffer_'[d]
  BY DEF WriteOK
<1>2. /\ \A u, v \in Writers(d) : u = v
      /\ Writers(d) # {} => writeOp[d] = "none"
      /\ Writing(d) => writeLock_[d]
      /\ writeLock_[d] /\ open[d] /\ ~Closing(d) => Writing(d)
      /\ writeOp[d] = "pending" => writeLen[d] <= sendBuffer_[d]
      /\ \A u \in Thread : In(u, d, {"remove"}) => at[u].len <= sendBuffer_[d]
  BY DEF WriteOK
<1>3. Writers(d)' \subseteq Writers(d)
  BY DEF Writers, In
<1>4. \A u \in Thread : In(u, d, {"remove"})' =>
        In(u, d, {"remove"}) /\ at'[u] = at[u]
  BY DEF In
<1>5. open'[d] /\ ~Closing(d)' => ~Closing(d) /\ Writers(d)' = Writers(d)
  BY <1>3 DEF Writers, Closing, In
<1>. QED  BY <1>2, <1>3, <1>4, <1>5 DEF Writing

\* The same of reading.
LEMMA ReadFrame ==
  ASSUME ReadOK, NEW t \in Thread,
         \A u \in Thread : u # t => at'[u] = at[u],
         UNCHANGED readOp, connections_' \subseteq connections_,
         \A d \in Conn : open'[d] => open[d],
         at'[t].pc \in ReaderAt =>
           at[t].pc \in ReaderAt /\ at'[t].conn = at[t].conn,
         at[t].pc \in ReaderAt \cup ClosingAt =>
           \/ at'[t].pc \in ReaderAt \cup ClosingAt /\ at'[t].conn = at[t].conn
           \/ ~open'[at[t].conn]
  PROVE  ReadOK'
<1>. USE DEF ReaderAt, ClosingAt
<1>1. SUFFICES ASSUME NEW d \in Conn
      PROVE  /\ \A u, v \in Readers(d)' : u = v
             /\ Readers(d)' # {} => readOp'[d] = "none"
             /\ d \in connections_' /\ open'[d] /\ ~Closing(d)' =>
                  readOp'[d] # "none" \/ Readers(d)' # {}
  BY DEF ReadOK
<1>2. /\ \A u, v \in Readers(d) : u = v
      /\ Readers(d) # {} => readOp[d] = "none"
      /\ d \in connections_ /\ open[d] /\ ~Closing(d) =>
           readOp[d] # "none" \/ Readers(d) # {}
  BY DEF ReadOK
<1>3. Readers(d)' \subseteq Readers(d)
  BY DEF Readers, In
<1>4. open'[d] /\ ~Closing(d)' => ~Closing(d) /\ Readers(d)' = Readers(d)
  BY <1>3 DEF Readers, Closing, In
<1>. QED  BY <1>2, <1>3, <1>4

-----------------------------------------------------------------------------
(* The listener.                                                           *)

\* The socket of c is accepted.
LEMMA AcceptIInv == ASSUME IInv, NEW c \in Conn, Accept(c) PROVE IInv'
<1>. USE ThreadNames DEF Accept
<1>1. /\ at'[listener] = [pc |-> "add", conn |-> c, len |-> 0]
      /\ \A u \in Thread : u # listener => at'[u] = at[u]
  BY DEF ThreadTypeOK
<1>2. /\ session'[c] = "active" /\ open'[c] /\ session[c] = "none"
      /\ \A d \in Conn : d # c => session'[d] = session[d] /\ open'[d] = open[d]
  OBVIOUS
<1>3. TypeOK'
  <2>1. at' \in [Thread -> [pc : Pc, conn : Conn \cup {None}, len : Nat]]
    BY DEF ThreadTypeOK, Pc
  <2>2. ThreadTypeOK'
    BY <1>1, <2>1 DEF ThreadTypeOK, PcOf
  <2>. QED  BY <1>2, <2>2 DEF ClientTypeOK, OpTypeOK, SessionTypeOK
<1>4. MutexOK'
  BY <1>1 DEF MutexOK, In, ClosingAt
<1>5. FreshOK'
  BY <1>1, <1>2 DEF FreshOK, Fresh, In
<1>6. QueueOK'
  BY <1>2, QueuedType DEF QueueOK, EntryOK, FreshOK, Fresh
<1>7. WriteOK'
  BY <1>1, <1>2 DEF WriteOK, FreshOK, Fresh, Writing, Writers, Closing, In,
     ClosingAt, WriterAt
<1>8. ReadOK'
  BY <1>1, <1>2 DEF ReadOK, FreshOK, Fresh, Readers, Closing, In
<1>9. ClosedOK' /\ NotifyOK'
  BY <1>1, <1>2 DEF ClosedOK, NotifyOK, FreshOK, In
<1>. QED  BY <1>3, <1>4, <1>5, <1>6, <1>7, <1>8, <1>9

\* c is entered in the map and given a port.
LEMMA AddConnectionIInv == ASSUME IInv, AddConnection PROVE IInv'
<1>. USE ThreadNames DEF AddConnection
<1>. DEFINE c == at[listener].conn
<1>1. c \in Conn /\ In(listener, c, {"add"})
  BY DEF ThreadTypeOK, In
<1>2. /\ ThreadTypeOK'
      /\ at'[listener].pc = "recv" /\ at'[listener].conn = c
      /\ \A u \in Thread : u # listener => at'[u] = at[u]
  BY GoesEffect DEF PcOf
<1>3. PICK p \in Port : iocp' = [iocp EXCEPT ![c] = p]
  OBVIOUS
<1>4. TypeOK'
  BY <1>1, <1>2, <1>3 DEF ClientTypeOK, OpTypeOK, SessionTypeOK
<1>5. MutexOK'
  BY <1>2 DEF MutexOK, In, ClosingAt
<1>6. FreshOK'
  BY <1>1, <1>2, <1>3 DEF FreshOK, Fresh, In
<1>7. QueueOK'
  BY <1>1, <1>3, QueuedType DEF QueueOK, EntryOK, FreshOK, Fresh
<1>8. WriteOK'
  BY <1>1, <1>2 DEF WriteOK, Writing, Writers, Closing, In, ClosingAt, WriterAt
<1>9. ReadOK'
  BY <1>1, <1>2 DEF ReadOK, FreshOK, Fresh, Readers, Closing, In
<1>10. ClosedOK' /\ NotifyOK'
  BY <1>1, <1>2 DEF ClosedOK, NotifyOK, FreshOK, Fresh, In
<1>. QED  BY <1>4, <1>5, <1>6, <1>7, <1>8, <1>9, <1>10

\* What the worker of c will have to do with it is left to the session thread.
LEMMA AddSessionIInv == ASSUME IInv, AddSession PROVE IInv'
<1>. USE ThreadNames DEF AddSession, enqueue
<1>1. at[listener].conn \in Conn
  BY DEF ThreadTypeOK
<1>2. /\ at'[listener] = Idle
      /\ \A u \in Thread : u # listener => at'[u] = at[u]
  BY DEF ThreadTypeOK
<1>3. TypeOK'
  <2>1. at' \in [Thread -> [pc : Pc, conn : Conn \cup {None}, len : Nat]]
    BY DEF ThreadTypeOK, Pc
  <2>2. ThreadTypeOK'
    BY <1>2, <2>1 DEF ThreadTypeOK, PcOf
  <2>3. SessionTypeOK'
    BY <1>1 DEF SessionTypeOK
  <2>. QED  BY <2>2, <2>3 DEF ClientTypeOK, OpTypeOK
<1>4. MutexOK'
  BY <1>2 DEF MutexOK, In, ClosingAt
<1>5. FreshOK'
  BY <1>2 DEF FreshOK, Fresh, In
<1>6. WriteOK' /\ ReadOK' /\ ClosedOK'
  <2>1. WriteOK'
    BY <1>2, WriteFrame DEF WriterAt, ClosingAt
  <2>2. ReadOK'
    BY <1>2, ReadFrame DEF ReaderAt, ClosingAt
  <2>3. ClosedOK'
    BY <1>2 DEF ClosedOK, In
  <2>. QED  BY <2>1, <2>2, <2>3
<1>7. QueueOK' /\ NotifyOK'
  BY DEF QueueOK, EntryOK, NotifyOK
<1>. QED  BY <1>3, <1>4, <1>5, <1>6, <1>7

-----------------------------------------------------------------------------
(* The operations of a connection.                                         *)

\* A thread that is in an operation of a connection that has been added.
LEMMA InHand ==
  ASSUME IInv, NEW t \in Thread, at[t].pc \notin {"idle", "scan", "add"}
  PROVE  /\ at[t].conn \in Conn /\ session[at[t].conn] # "none"
         /\ ~Fresh(at[t].conn) /\ iocp[at[t].conn] \in Port
<1>1. at[t].conn \in Conn
  BY DEF ThreadTypeOK
<1>2. session[at[t].conn] # "none"
  BY <1>1 DEF FreshOK
<1>3. ~Fresh(at[t].conn)
  BY <1>1, <1>2, ThreadNames DEF FreshOK, Fresh, In
<1>. QED  BY <1>1, <1>2, <1>3 DEF FreshOK

\* The next read of a connection is started, or the connection closed.
LEMMA WSARecvIInv == ASSUME IInv, NEW t \in Thread, WSARecv(t) PROVE IInv'
<1>. USE ThreadNames DEF WSARecv
<1>. DEFINE c == at[t].conn
<1>. c \in Conn /\ session[c] # "none" /\ ~Fresh(c)
  BY InHand
<1>1. t \in Readers(c) /\ readOp[c] = "none"
  BY DEF Readers, In, ReadOK
<1>2. t # push
  BY DEF ThreadTypeOK, PcOf, ClosingAt
<1>3. \A d \in Conn : readOp[d] = "queued" => readOp'[d] = "queued"
  BY <1>1 DEF OpTypeOK
<1>4. QueueOK' /\ NotifyOK'
  BY <1>3, QueuedType DEF QueueOK, EntryOK, NotifyOK
<1>5. CASE readOp' = [readOp EXCEPT ![c] = "pending"] /\ Returns(t, TRUE)
  <2>1. /\ ThreadTypeOK' /\ MutexOK' /\ mutex_' \in {None, listener, push}
        /\ at'[t].pc \in {"addSession", "idle", "scan"} /\ scan' \subseteq Conn
        /\ at'[t].conn \in {c, None}
        /\ \A u \in Thread : u # t => at'[u] = at[u]
    BY <1>2, <1>5, ReturnsEffect
  <2>2. /\ readOp' \in [Conn -> {"none", "pending", "queued"}]
        /\ readOp'[c] = "pending"
        /\ \A d \in Conn : d # c => readOp'[d] = readOp[d]
    BY <1>5 DEF OpTypeOK
  <2>3. TypeOK'
    BY <2>1, <2>2 DEF ClientTypeOK, OpTypeOK, SessionTypeOK
  <2>4. FreshOK'
    BY <1>1, <2>1, <2>2 DEF FreshOK, Fresh, In
  <2>5. WriteOK'
    BY <2>1, WriteFrame DEF WriterAt, ClosingAt
  <2>6. ReadOK'
    BY <1>1, <2>1, <2>2 DEF ReadOK, Readers, Closing, In
  <2>7. ClosedOK'
    BY <1>1, <2>1 DEF ClosedOK, In
  <2>. QED  BY <1>4, <2>1, <2>3, <2>4, <2>5, <2>6, <2>7
<1>6. CASE Goes(t, "closesocket") /\ UNCHANGED <<readOp, mutex_, scan>>
  <2>1. /\ ThreadTypeOK'
        /\ at'[t].pc = "closesocket" /\ at'[t].conn = c
        /\ \A u \in Thread : u # t => at'[u] = at[u]
    BY <1>6, GoesEffect DEF PcOf, ClosingAt
  <2>2. TypeOK'
    BY <2>1, <1>6 DEF ClientTypeOK, OpTypeOK, SessionTypeOK
  <2>3. MutexOK'
    BY <1>1, <2>1, <1>6 DEF MutexOK, In, ClosingAt
  <2>4. FreshOK'
    BY <1>1, <2>1, <1>6 DEF FreshOK, Fresh, In
  <2>5. WriteOK' /\ ReadOK'
    BY <2>1, <1>6, WriteFrame, ReadFrame DEF WriterAt, ReaderAt, ClosingAt
  <2>6. ClosedOK'
    BY <1>1, <2>1 DEF ClosedOK, In
  <2>. QED  BY <1>4, <2>2, <2>3, <2>4, <2>5, <2>6
<1>. QED  BY <1>5, <1>6

\* What was written is removed from the send buffer.
LEMMA RemoveIInv ==
  ASSUME IInv, NEW t \in Thread, RemoveSendData(t) PROVE IInv'
<1>. USE ThreadNames DEF RemoveSendData
<1>. DEFINE c == at[t].conn
<1>. c \in Conn /\ session[c] # "none" /\ ~Fresh(c)
  BY InHand
<1>1. /\ t \in Writers(c) /\ writeOp[c] = "none"
      /\ at[t].len \in Nat /\ at[t].len <= sendBuffer_[c]
  BY DEF Writers, In, WriteOK, ThreadTypeOK
<1>2. t \in Port
  BY DEF ThreadTypeOK, PcOf, ClosingAt
<1>3. /\ ThreadTypeOK'
      /\ at'[t].pc = "remain" /\ at'[t].conn = c
      /\ \A u \in Thread : u # t => at'[u] = at[u]
  BY <1>2, GoesEffect DEF PcOf, WriterAt
<1>4. /\ sendBuffer_' \in [Conn -> Nat]
      /\ \A d \in Conn : d # c => sendBuffer_'[d] = sendBuffer_[d]
  BY <1>1
<1>5. TypeOK'
  BY <1>3, <1>4 DEF ClientTypeOK, OpTypeOK, SessionTypeOK
<1>6. MutexOK'
  BY <1>2, <1>3 DEF MutexOK, In, ClosingAt
<1>7. FreshOK'
  BY <1>1, <1>3, <1>4 DEF FreshOK, Fresh, In
<1>8. QueueOK' /\ NotifyOK'
  BY <1>1, <1>4, QueuedType DEF QueueOK, EntryOK, NotifyOK
<1>9. WriteOK'
  BY <1>1, <1>3, <1>4 DEF WriteOK, Writing, Writers, Closing, In
<1>10. ReadOK' /\ ClosedOK'
  BY <1>3, ReadFrame DEF ReaderAt, ClosingAt, ClosedOK, In
<1>. QED  BY <1>5, <1>6, <1>7, <1>8, <1>9, <1>10

\* The send buffer is looked at.
LEMMA RemainIInv ==
  ASSUME IInv, NEW t \in Thread, RemainSendData(t) PROVE IInv'
<1>. USE ThreadNames DEF RemainSendData
<1>. DEFINE c == at[t].conn
<1>1. c \in Conn /\ session[c] # "none" /\ ~Fresh(c) /\ t # listener
  BY InHand DEF ThreadTypeOK, PcOf, ClosingAt
<1>2. PICK pc \in {"release", "send"} : Goes(t, pc)
  OBVIOUS
<1>3. /\ ThreadTypeOK'
      /\ at'[t].pc = pc /\ at'[t].conn = c
      /\ \A u \in Thread : u # t => at'[u] = at[u]
  <2>1. pc \in PcOf(t) /\ pc \notin {"idle", "scan"}
    BY <1>1, <1>2 DEF PcOf, WriterAt
  <2>2. at[t].pc \notin {"idle", "scan"}
    OBVIOUS
  <2>. QED  BY <1>2, <2>1, <2>2, GoesEffect
<1>4. TypeOK'
  BY <1>3 DEF ClientTypeOK, OpTypeOK, SessionTypeOK
<1>5. MutexOK'
  BY <1>1, <1>3 DEF MutexOK, In, ClosingAt
<1>6. FreshOK'
  BY <1>1, <1>3 DEF FreshOK, Fresh, In
<1>7. QueueOK' /\ NotifyOK'
  BY DEF QueueOK, EntryOK, NotifyOK
<1>8. WriteOK'
  BY <1>3, WriteFrame DEF WriterAt, ClosingAt
<1>9. ReadOK' /\ ClosedOK'
  BY <1>3, ReadFrame DEF ReaderAt, ClosingAt, ClosedOK, In
<1>. QED  BY <1>4, <1>5, <1>6, <1>7, <1>8, <1>9

\* Nothing is left to write: the lock is released.
LEMMA ReleaseIInv ==
  ASSUME IInv, NEW t \in Thread, ReleaseWriteLock(t) PROVE IInv'
<1>. USE ThreadNames DEF ReleaseWriteLock
<1>. DEFINE c == at[t].conn
<1>. c \in Conn /\ session[c] # "none" /\ ~Fresh(c)
  BY InHand
<1>1. t \in Writers(c) /\ writeOp[c] = "none"
  BY DEF Writers, In, WriteOK
<1>2. t # listener
  BY DEF ThreadTypeOK, PcOf, ClosingAt
<1>3. /\ ThreadTypeOK' /\ MutexOK' /\ mutex_' \in {None, listener, push}
      /\ at'[t].pc \in {"idle", "scan"} /\ scan' \subseteq Conn
      /\ at'[t].conn = None
      /\ \A u \in Thread : u # t => at'[u] = at[u]
  BY <1>2, ReturnsEffect
<1>4. /\ writeLock_' \in [Conn -> BOOLEAN] /\ ~writeLock_'[c]
      /\ \A d \in Conn : d # c => writeLock_'[d] = writeLock_[d]
  OBVIOUS
<1>5. TypeOK'
  BY <1>3, <1>4 DEF ClientTypeOK, OpTypeOK, SessionTypeOK
<1>6. FreshOK'
  BY <1>2, <1>3, <1>4 DEF FreshOK, Fresh, In
<1>7. QueueOK' /\ NotifyOK'
  BY DEF QueueOK, EntryOK, NotifyOK
<1>8. WriteOK'
  <2>1. /\ UNCHANGED <<writeOp, writeLen, sendBuffer_, open>>
        /\ at[t].pc = "release" /\ WriteOK
    BY DEF opVars, bufVars, connVars, At
  <2>2. PICK e \in Conn : e = c
    OBVIOUS
  <2>3. ASSUME NEW d \in Conn
        PROVE  /\ Writers(d)' = Writers(d) \ {t}
               /\ Closing(d)' <=> Closing(d)
               /\ \A u \in Thread : In(u, d, {"remove"})'
                                   => u # t /\ In(u, d, {"remove"})
    BY ONLY <1>3, <2>1, <2>3, ThreadAssumption DEF Writers, Closing, In
  <2>4. Writers(e)' = {} /\ writeOp[e] = "none"
    BY ONLY <1>1, <2>1, <2>2, <2>3 DEF WriteOK
  <2>5. ASSUME NEW d \in Conn, d # e
        PROVE  Writers(d)' = Writers(d)
    BY ONLY <2>2, <2>3, <2>5 DEF Writers, In
  <2>6. /\ \A d \in Conn : Writing(d)' => Writing(d) /\ d # e
        /\ \A d \in Conn \ {e} : Writing(d) => Writing(d)'
    BY ONLY <2>1, <2>4, <2>5 DEF Writing
  <2>7. \A u \in Thread : u # t => at'[u] = at[u]
    BY ONLY <1>3
  <2> QED
    BY ONLY <1>4, <2>1, <2>2, <2>3, <2>4, <2>6, <2>7 DEF WriteOK
<1>9. ReadOK'
  BY <1>3, ReadFrame DEF ReaderAt, ClosingAt
<1>10. ClosedOK'
  BY <1>3 DEF ClosedOK, In
<1>. QED  BY <1>3, <1>5, <1>6, <1>7, <1>8, <1>9, <1>10

\* The next write of a connection is started, or the connection closed.
LEMMA WSASendIInv == ASSUME IInv, NEW t \in Thread, WSASend(t) PROVE IInv'
<1>. USE ThreadNames DEF WSASend
<1>. DEFINE c == at[t].conn
<1>. c \in Conn /\ session[c] # "none" /\ ~Fresh(c)
  BY InHand
<1>1. t \in Writers(c) /\ writeOp[c] = "none" /\ writeLock_[c]
  BY DEF Writers, In, WriteOK, Writing
<1>2. t # listener
  BY DEF ThreadTypeOK, PcOf, ClosingAt
<1>3. \A d \in Conn : writeOp[d] = "queued" => writeOp'[d] = "queued"
  BY <1>1 DEF OpTypeOK
<1>4. QueueOK' /\ NotifyOK'
  BY <1>3, QueuedType DEF QueueOK, EntryOK, NotifyOK
<1>5. CASE /\ writeOp' = [writeOp EXCEPT ![c] = "pending"]
           /\ writeLen' = [writeLen EXCEPT ![c] = sendBuffer_[c]]
           /\ Returns(t, TRUE)
  <2>1. /\ ThreadTypeOK' /\ MutexOK' /\ mutex_' \in {None, listener, push}
        /\ at'[t].pc \in {"idle", "scan"} /\ scan' \subseteq Conn
        /\ at'[t].conn = None
        /\ \A u \in Thread : u # t => at'[u] = at[u]
    BY <1>2, <1>5, ReturnsEffect
  <2>2. /\ writeOp' \in [Conn -> {"none", "pending", "queued"}]
        /\ writeLen' \in [Conn -> Nat]
        /\ writeOp'[c] = "pending" /\ writeLen'[c] = sendBuffer_[c]
        /\ \A d \in Conn : d # c => writeOp'[d] = writeOp[d]
                                    /\ writeLen'[d] = writeLen[d]
    BY <1>5 DEF OpTypeOK
  <2>3. TypeOK'
    BY <2>1, <2>2 DEF ClientTypeOK, OpTypeOK, SessionTypeOK
  <2>4. FreshOK'
    BY <1>2, <2>1, <2>2 DEF FreshOK, Fresh, In
  <2>6. WriteOK'
    <3>1. /\ UNCHANGED <<writeLock_, sendBuffer_, open>>
          /\ at[t].pc = "send" /\ WriteOK
      BY DEF sendVars, bufVars, connVars, At
    <3>2. PICK e \in Conn : e = c
      OBVIOUS
    <3>3. ASSUME NEW d \in Conn
          PROVE  /\ Writers(d)' = Writers(d) \ {t}
                 /\ Closing(d)' <=> Closing(d)
                 /\ \A u \in Thread : In(u, d, {"remove"})'
                                     => u # t /\ In(u, d, {"remove"})
      BY ONLY <2>1, <3>1, <3>3, ThreadAssumption DEF Writers, Closing, In
    <3>4. Writers(e)' = {}
      BY ONLY <1>1, <3>1, <3>2, <3>3 DEF WriteOK
    <3>5. ASSUME NEW d \in Conn, d # e
          PROVE  Writers(d)' = Writers(d)
      BY ONLY <3>2, <3>3, <3>5 DEF Writers, In
    <3>6. Writing(e)' /\ \A d \in Conn : d # e => (Writing(d)' <=> Writing(d))
      BY ONLY <2>2, <3>2, <3>5 DEF Writing
    <3>7. \A u \in Thread : u # t => at'[u] = at[u]
      BY ONLY <2>1
    <3>8. sendBuffer_[e] \in Nat
      BY <3>2
    <3>. QED
      BY ONLY <1>1, <2>2, <3>1, <3>2, <3>3, <3>4, <3>5, <3>6, <3>7, <3>8
         DEF WriteOK
  <2>7. ReadOK'
    BY <2>1, ReadFrame DEF ReaderAt, ClosingAt
  <2>8. ClosedOK'
    BY <2>1 DEF ClosedOK, In
  <2>. QED  BY <1>4, <2>1, <2>3, <2>4, <2>6, <2>7, <2>8
<1>6. CASE /\ Goes(t, "closesocket")
           /\ UNCHANGED <<writeOp, writeLen, mutex_, scan>>
  <2>1. /\ ThreadTypeOK'
        /\ at'[t].pc = "closesocket" /\ at'[t].conn = c
        /\ \A u \in Thread : u # t => at'[u] = at[u]
    BY <1>6, GoesEffect DEF PcOf, ClosingAt
  <2>2. TypeOK'
    BY <2>1, <1>6 DEF ClientTypeOK, OpTypeOK, SessionTypeOK
  <2>3. MutexOK'
    BY <1>2, <2>1, <1>6 DEF MutexOK, In, ClosingAt
  <2>4. FreshOK'
    BY <2>1, <1>6 DEF FreshOK, Fresh, In
  <2>5. WriteOK' /\ ReadOK'
    BY <2>1, <1>6, WriteFrame, ReadFrame DEF WriterAt, ReaderAt, ClosingAt
  <2>6. ClosedOK'
    BY <2>1 DEF ClosedOK, In
  <2>. QED  BY <1>4, <2>2, <2>3, <2>4, <2>5, <2>6
<1>. QED  BY <1>5, <1>6

\* The socket of a connection is closed.
LEMMA CloseSocketIInv ==
  ASSUME IInv, NEW t \in Thread, CloseSocket(t) PROVE IInv'
<1>. USE ThreadNames DEF CloseSocket
<1>. DEFINE c == at[t].conn
<1>. c \in Conn /\ session[c] # "none" /\ ~Fresh(c)
  BY InHand
<1>1. /\ ThreadTypeOK'
      /\ at'[t].pc = "erase" /\ at'[t].conn = c
      /\ \A u \in Thread : u # t => at'[u] = at[u]
  BY GoesEffect DEF PcOf, ClosingAt
<1>2. /\ open' \in [Conn -> BOOLEAN] /\ ~open'[c]
      /\ \A d \in Conn : d # c => open'[d] = open[d]
  OBVIOUS
<1>3. TypeOK'
  BY <1>1, <1>2 DEF ClientTypeOK, OpTypeOK, SessionTypeOK
<1>4. MutexOK'
  BY <1>1 DEF MutexOK, In, ClosingAt
<1>5. FreshOK'
  BY <1>1, <1>2 DEF FreshOK, Fresh, In
<1>6. QueueOK' /\ NotifyOK'
  BY <1>2, QueuedType DEF QueueOK, EntryOK, NotifyOK
<1>9. WriteOK'
  BY <1>1, <1>2, WriteFrame DEF WriterAt, ClosingAt
<1>10. ReadOK'
  BY <1>1, <1>2, ReadFrame DEF ReaderAt, ClosingAt
<1>8. ClosedOK'
  BY <1>1, <1>2 DEF ClosedOK, In
<1>. QED  BY <1>3, <1>4, <1>5, <1>6, <1>8, <1>9,
          <1>10

\* A closed connection is taken out of the map.
LEMMA RemoveConnectionIInv ==
  ASSUME IInv, NEW t \in Thread, RemoveConnection(t) PROVE IInv'
<1>. USE ThreadNames DEF RemoveConnection
<1>. DEFINE c == at[t].conn
<1>. c \in Conn /\ session[c] # "none" /\ ~Fresh(c)
  BY InHand
<1>1. /\ ThreadTypeOK'
      /\ at'[t].pc = "kill" /\ at'[t].conn = c
      /\ \A u \in Thread : u # t => at'[u] = at[u]
  BY GoesEffect DEF PcOf, ClosingAt
<1>2. TypeOK'
  BY <1>1 DEF ClientTypeOK, OpTypeOK, SessionTypeOK
<1>3. MutexOK'
  BY <1>1 DEF MutexOK, In, ClosingAt
<1>4. FreshOK'
  BY <1>1 DEF FreshOK, Fresh, In
<1>5. QueueOK' /\ NotifyOK'
  BY DEF QueueOK, EntryOK, NotifyOK
<1>6. WriteOK' /\ ReadOK'
  BY <1>1, WriteFrame, ReadFrame DEF WriterAt, ReaderAt, ClosingAt
<1>7. ClosedOK'
  BY <1>1 DEF ClosedOK, In
<1>. QED  BY <1>2, <1>3, <1>4, <1>5, <1>6, <1>7

\* The session of a closed connection is told.
LEMMA KillIInv == ASSUME IInv, NEW t \in Thread, Kill(t) PROVE IInv'
<1>. USE ThreadNames DEF Kill
<1>. DEFINE c == at[t].conn
<1>. c \in Conn /\ session[c] # "none" /\ ~Fresh(c)
  BY InHand
<1>1. ~open[c] /\ c \notin connections_
  BY DEF ClosedOK, In
<1>2. /\ ThreadTypeOK' /\ MutexOK' /\ mutex_' \in {None, listener, push}
      /\ at'[t].pc \in {"addSession", "idle", "scan"} /\ scan' \subseteq Conn
      /\ at'[t].conn \in {c, None}
      /\ \A u \in Thread : u # t => at'[u] = at[u]
  BY ReturnsEffect
<1>3. /\ session' \in [Conn -> {"none", "active", "disabled", "deleted"}]
      /\ session'[c] # "none"
      /\ \A d \in Conn : d # c => session'[d] = session[d]
  OBVIOUS
<1>4. TypeOK'
  BY <1>2, <1>3 DEF ClientTypeOK, OpTypeOK, SessionTypeOK
<1>5. FreshOK'
  BY <1>2, <1>3 DEF FreshOK, Fresh, In
<1>6. QueueOK' /\ NotifyOK'
  BY DEF QueueOK, EntryOK, NotifyOK
<1>9. WriteOK'
  BY <1>1, <1>2, WriteFrame DEF WriterAt, ClosingAt
<1>10. ReadOK'
  BY <1>1, <1>2, ReadFrame DEF ReaderAt, ClosingAt
<1>8. ClosedOK'
  BY <1>1, <1>2, <1>3 DEF ClosedOK, In
<1>. QED  BY <1>2, <1>4, <1>5, <1>6, <1>8, <1>9,
          <1>10

-----------------------------------------------------------------------------
(* The workers.                                                            *)

\* What a worker does with a completion.
LEMMA HandlerCases ==
  ASSUME NEW r \in Completion
  PROVE  /\ Handler(r) \in {"closesocket", "idle", "remove", "data"}
         /\ Handler(r) = "idle" => r.result = "other"
         /\ Handler(r) = "remove" => r.op = "write" /\ r.result = "ok"
         /\ Handler(r) = "data" => r.op = "read"
         /\ r.op = "write" => Handler(r) \in {"closesocket", "idle", "remove"}
         /\ r.op = "read" => Handler(r) \in {"closesocket", "idle", "data"}
<1>. /\ r.op \in {"read", "write"} /\ r.result \in {"ok", "deleted", "other"}
     /\ r.len \in Nat
  BY DEF Completion
<1>. QED  BY DEF Handler

\* A completion is taken from a port, and with it its operation.
LEMMA GetQueuedIInv ==
  ASSUME IInv, NEW p \in Port, GetQueuedCompletionStatus(p) PROVE IInv'
<1>. USE ThreadNames DEF GetQueuedCompletionStatus
<1>. DEFINE r == completions[p][1]
            c == r.conn
<1>1. /\ 1 \in DOMAIN completions[p] /\ Head(completions[p]) = r
      /\ Tail(completions[p]) \in Seq(Completion)
      /\ \A i \in DOMAIN Tail(completions[p]) :
           /\ i \in Nat /\ i + 1 \in DOMAIN completions[p] /\ i + 1 # 1
           /\ Tail(completions[p])[i] = completions[p][i + 1]
  <2>1. completions[p] \in Seq(Completion) /\ completions[p] # <<>>
    BY DEF OpTypeOK
  <2>. QED  BY <2>1
<1>2. /\ r \in Completion /\ c \in Conn /\ r.len \in Nat
      /\ r.op \in {"read", "write"}
  BY <1>1, QueuedType
<1>3. /\ iocp[c] = p
      /\ r.op = "read" => readOp[c] = "queued"
      /\ r.op = "write" => writeOp[c] = "queued"
      /\ r.result = "other" => ~open[c]
      /\ r.op = "write" /\ r.result = "ok" => r.len <= sendBuffer_[c]
      /\ \A j \in DOMAIN completions[p] :
           completions[p][j].op = r.op /\ completions[p][j].conn = c => j = 1
  BY <1>1 DEF QueueOK, EntryOK
<1>4. ~Fresh(c) /\ session[c] # "none"
  BY <1>2, <1>3 DEF FreshOK, Fresh
<1>5. /\ Handler(r) \in {"closesocket", "idle", "remove", "data"}
      /\ Handler(r) = "idle" => r.result = "other"
      /\ Handler(r) = "remove" => r.op = "write" /\ r.result = "ok"
      /\ Handler(r) = "data" => r.op = "read"
      /\ r.op = "write" => Handler(r) \in {"closesocket", "idle", "remove"}
      /\ r.op = "read" => Handler(r) \in {"closesocket", "idle", "data"}
  BY <1>2, HandlerCases
<1>6. /\ at' \in [Thread -> [pc : Pc, conn : Conn \cup {None}, len : Nat]]
      /\ at'[p].pc = Handler(r)
      /\ at'[p].conn = IF Handler(r) = "idle" THEN None ELSE c
      /\ Handler(r) # "idle" => at'[p].len = r.len
      /\ \A u \in Thread : u # p => at'[u] = at[u]
  BY <1>1, <1>2, <1>5 DEF ThreadTypeOK, Pc, ReaderAt, WriterAt, ClosingAt
<1>7. ThreadTypeOK'
  BY <1>2, <1>5, <1>6 DEF ThreadTypeOK, PcOf, ReaderAt, WriterAt, ClosingAt
<1>8. /\ readOp' \in [Conn -> {"none", "pending", "queued"}]
      /\ writeOp' \in [Conn -> {"none", "pending", "queued"}]
      /\ \A d \in Conn :
           /\ readOp'[d] = IF r.op = "read" /\ d = c THEN "none" ELSE readOp[d]
           /\ writeOp'[d] = IF r.op = "write" /\ d = c THEN "none"
                            ELSE writeOp[d]
  <2>1. IF r.op = "read"
        THEN readOp' = [readOp EXCEPT ![c] = "none"] /\ UNCHANGED writeOp
        ELSE writeOp' = [writeOp EXCEPT ![c] = "none"] /\ UNCHANGED readOp
    BY <1>1
  <2>. HIDE DEF GetQueuedCompletionStatus, r, c
  <2>. QED  BY <2>1, <1>2 DEF OpTypeOK
<1>9. /\ completions' \in [Port -> Seq(Completion)]
      /\ completions'[p] = Tail(completions[p])
      /\ \A q \in Port : q # p => completions'[q] = completions[q]
  BY <1>1 DEF OpTypeOK
<1>10. TypeOK'
  BY <1>7, <1>8, <1>9 DEF ClientTypeOK, OpTypeOK, SessionTypeOK
<1>11. MutexOK'
  BY <1>6 DEF MutexOK, In
<1>12. FreshOK'
  BY <1>2, <1>4, <1>6, <1>8 DEF FreshOK, Fresh, In
<1>13. QueueOK'
  <2>. SUFFICES ASSUME NEW q \in Port, NEW i \in DOMAIN completions'[q]
                PROVE  EntryOK(q, i)'
    BY DEF QueueOK
  <2>1. CASE q # p
    <3>1. completions'[q] = completions[q] /\ i \in DOMAIN completions[q]
      BY <2>1, <1>9
    <3>2. completions[q][i].conn \in Conn /\ completions[q][i].conn # c
      BY <3>1, <2>1, <1>3, QueuedType DEF QueueOK, EntryOK
    <3>3. EntryOK(q, i)
      BY <3>1 DEF QueueOK
    <3>4. /\ readOp'[completions[q][i].conn] = readOp[completions[q][i].conn]
          /\ writeOp'[completions[q][i].conn] = writeOp[completions[q][i].conn]
      BY <3>2, <1>8
    <3>. QED  BY <3>1, <3>3, <3>4 DEF EntryOK
  <2>2. CASE q = p
    <3>1. /\ i + 1 \in DOMAIN completions[p] /\ i + 1 # 1
          /\ completions'[q][i] = completions[p][i + 1]
      BY <2>2, <1>1, <1>9
    <3>2. /\ completions[p][i + 1].conn \in Conn
          /\ completions[p][i + 1].conn = c => completions[p][i + 1].op # r.op
      BY <3>1, <1>3, QueuedType
    <3>3. \A j \in DOMAIN completions'[q] :
            completions'[q][j].op = completions'[q][i].op
            /\ completions'[q][j].conn = completions'[q][i].conn => i = j
      <4>. SUFFICES ASSUME NEW j \in DOMAIN completions'[q],
                           completions'[q][j].op = completions'[q][i].op,
                           completions'[q][j].conn = completions'[q][i].conn
                    PROVE  i = j
        OBVIOUS
      <4>1. /\ i \in Nat /\ j \in Nat /\ j + 1 \in DOMAIN completions[p]
            /\ completions'[q][j] = completions[p][j + 1]
        BY <2>2, <1>1, <1>9
      <4>2. i + 1 = j + 1
        BY <3>1, <4>1 DEF QueueOK, EntryOK
      <4>. QED  BY <4>1, <4>2
    <3>4. EntryOK(p, i + 1)
      BY <3>1 DEF QueueOK
    <3>. DEFINE x == completions[p][i + 1]
    <3>5. /\ x.op = "read" => readOp'[x.conn] = readOp[x.conn]
          /\ x.op = "write" => writeOp'[x.conn] = writeOp[x.conn]
      BY <3>2, <1>8
    <3>. QED  BY <2>2, <3>1, <3>3, <3>4, <3>5 DEF EntryOK
  <2>. QED  BY <2>1, <2>2
<1>14. \A d \in Conn : Closing(d) => Closing(d)'
  BY <1>6 DEF Closing, In
<1>15. WriteOK'
  <2>. SUFFICES ASSUME NEW d \in Conn
                PROVE  /\ \A t, u \in Writers(d)' : t = u
                       /\ Writers(d)' # {} => writeOp'[d] = "none"
                       /\ Writing(d)' => writeLock_[d]
                       /\ writeLock_[d] /\ open[d] /\ ~Closing(d)' =>
                            Writing(d)'
                       /\ writeOp'[d] = "pending" =>
                            writeLen[d] <= sendBuffer_[d]
                       /\ \A t \in Thread : In(t, d, {"remove"})' =>
                            at'[t].len <= sendBuffer_[d]
    BY DEF WriteOK
  <2>1. CASE d # c \/ r.op = "read"
    <3>1. /\ Writers(d)' = Writers(d) /\ writeOp'[d] = writeOp[d]
          /\ \A t \in Thread : In(t, d, {"remove"})' =>
               In(t, d, {"remove"}) /\ at'[t] = at[t]
      BY <2>1, <1>2, <1>5, <1>6, <1>8 DEF Writers, In
    <3>. QED  BY <3>1, <1>14 DEF WriteOK, Writing
  <2>2. CASE d = c /\ r.op = "write"
    <3>1. /\ Writers(d) = {} /\ writeOp'[d] = "none" /\ writeLock_[d]
      BY <2>2, <1>2, <1>3, <1>8 DEF WriteOK, Writing
    <3>2. CASE Handler(r) = "remove"
      BY <2>2, <3>1, <3>2, <1>3, <1>5, <1>6 DEF Writers, Writing, In
    <3>3. CASE Handler(r) \in {"closesocket", "idle"}
      <4>1. Writers(d)' = {} /\ (Handler(r) = "closesocket" => Closing(d)')
        BY <2>2, <3>1, <3>3, <1>6 DEF Writers, Closing, In
      <4>2. \A t \in Thread : ~In(t, d, {"remove"})'
        BY <4>1 DEF Writers, In
      <4>. QED  BY <2>2, <3>1, <3>3, <4>1, <4>2, <1>3, <1>5 DEF Writing
    <3>. QED  BY <2>2, <3>2, <3>3, <1>5
  <2>. QED  BY <2>1, <2>2, <1>2
<1>16. ReadOK'
  <2>. SUFFICES ASSUME NEW d \in Conn
                PROVE  /\ \A t, u \in Readers(d)' : t = u
                       /\ Readers(d)' # {} => readOp'[d] = "none"
                       /\ d \in connections_ /\ open[d] /\ ~Closing(d)' =>
                            readOp'[d] # "none" \/ Readers(d)' # {}
    BY DEF ReadOK
  <2>1. CASE d # c \/ r.op = "write"
    <3>1. Readers(d)' = Readers(d) /\ readOp'[d] = readOp[d]
      BY <2>1, <1>2, <1>5, <1>6, <1>8 DEF Readers, In
    <3>. QED  BY <3>1, <1>14 DEF ReadOK
  <2>2. CASE d = c /\ r.op = "read"
    <3>1. Readers(d) = {} /\ readOp'[d] = "none"
      BY <2>2, <1>2, <1>3, <1>8 DEF ReadOK
    <3>2. CASE Handler(r) = "data"
      BY <2>2, <3>1, <3>2, <1>6 DEF Readers, In
    <3>3. CASE Handler(r) \in {"closesocket", "idle"}
      <4>1. Readers(d)' = {} /\ (Handler(r) = "closesocket" => Closing(d)')
        BY <2>2, <3>1, <3>3, <1>6 DEF Readers, Closing, In
      <4>. QED  BY <2>2, <3>1, <3>3, <4>1, <1>3, <1>5
    <3>. QED  BY <2>2, <3>2, <3>3, <1>5
  <2>. QED  BY <2>1, <2>2, <1>2
<1>17. ClosedOK' /\ NotifyOK'
  BY <1>5, <1>6 DEF ClosedOK, NotifyOK, In
<1>. QED  BY <1>10, <1>11, <1>12, <1>13, <1>15, <1>16, <1>17

\* A worker looks whether the session is active.
LEMMA StartNextReadIInv ==
  ASSUME IInv, NEW p \in Port, StartNextRead(p) PROVE IInv'
<1>. USE ThreadNames DEF StartNextRead
<1>. DEFINE c == at[p].conn
<1>. c \in Conn /\ session[c] # "none" /\ ~Fresh(c)
  BY InHand
<1>1. PICK pc \in {"onRead", "recv"} : Goes(p, pc)
  OBVIOUS
<1>2. /\ ThreadTypeOK' /\ at'[p].pc = pc /\ at'[p].conn = c
      /\ \A u \in Thread : u # p => at'[u] = at[u]
  <2>1. pc \in PcOf(p) /\ pc \notin {"idle", "scan"}
    BY <1>1 DEF PcOf, ReaderAt
  <2>2. at[p].pc \notin {"idle", "scan"}
    OBVIOUS
  <2>. QED  BY <1>1, <2>1, <2>2, GoesEffect
<1>3. TypeOK'
  BY <1>2 DEF ClientTypeOK, OpTypeOK, SessionTypeOK
<1>4. MutexOK' /\ FreshOK'
  BY <1>2 DEF MutexOK, FreshOK, Fresh, In
<1>5. QueueOK' /\ NotifyOK'
  BY DEF QueueOK, EntryOK, NotifyOK
<1>6. WriteOK'
  BY <1>2, WriteFrame DEF WriterAt, ClosingAt
<1>7. ReadOK' /\ ClosedOK'
  BY <1>2, ReadFrame DEF ReaderAt, ClosingAt, ClosedOK, In
<1>. QED  BY <1>3, <1>4, <1>5, <1>6, <1>7

\* A packet goes from the read buffer to the session.
LEMMA OnReadIInv == ASSUME IInv, NEW p \in Port, OnRead(p) PROVE IInv'
<1>. USE ThreadNames DEF OnRead, pushPacket
<1>. DEFINE c == at[p].conn
<1>. c \in Conn /\ session[c] # "none" /\ ~Fresh(c)
  BY InHand
<1>1. /\ ThreadTypeOK' /\ at'[p].pc = "onRead" /\ at'[p].conn = c
      /\ \A u \in Thread : u # p => at'[u] = at[u]
  BY DEF ThreadTypeOK
<1>2. /\ packetList_' \in [Conn -> Nat]
      /\ \A d \in Conn : packetList_'[d] >= packetList_[d]
      /\ \A d \in Conn : d # c => packetList_'[d] = packetList_[d]
  OBVIOUS
<1>3. TypeOK'
  BY <1>1, <1>2 DEF ClientTypeOK, OpTypeOK, SessionTypeOK
<1>4. MutexOK' /\ FreshOK'
  BY <1>1, <1>2 DEF MutexOK, FreshOK, Fresh, In
<1>5. QueueOK'
  BY DEF QueueOK, EntryOK
<1>6. NotifyOK'
  BY <1>2 DEF NotifyOK, SessionTypeOK
<1>7. WriteOK'
  BY <1>1, WriteFrame DEF WriterAt, ClosingAt
<1>8. ReadOK' /\ ClosedOK'
  BY <1>1, ReadFrame DEF ReaderAt, ClosingAt, ClosedOK, In
<1>. QED  BY <1>3, <1>4, <1>5, <1>6, <1>7, <1>8

\* There is no packet left: the next read is to be started.
LEMMA NoPacketIInv == ASSUME IInv, NEW p \in Port, NoPacket(p) PROVE IInv'
<1>. USE ThreadNames DEF NoPacket
<1>. DEFINE c == at[p].conn
<1>. c \in Conn /\ session[c] # "none" /\ ~Fresh(c)
  BY InHand
<1>1. /\ ThreadTypeOK' /\ at'[p].pc = "recv" /\ at'[p].conn = c
      /\ \A u \in Thread : u # p => at'[u] = at[u]
  BY GoesEffect DEF PcOf, ReaderAt
<1>2. TypeOK'
  BY <1>1 DEF ClientTypeOK, OpTypeOK, SessionTypeOK
<1>3. MutexOK' /\ FreshOK'
  BY <1>1 DEF MutexOK, FreshOK, Fresh, In
<1>4. QueueOK' /\ NotifyOK'
  BY DEF QueueOK, EntryOK, NotifyOK
<1>5. WriteOK'
  BY <1>1, WriteFrame DEF WriterAt, ClosingAt
<1>6. ReadOK' /\ ClosedOK'
  BY <1>1, ReadFrame DEF ReaderAt, ClosingAt, ClosedOK, In
<1>. QED  BY <1>2, <1>3, <1>4, <1>5, <1>6

-----------------------------------------------------------------------------
(* The push thread.                                                        *)

\* A pass over the map begins.
LEMMA PassBeginIInv == ASSUME IInv, PassBegin PROVE IInv'
<1>. USE ThreadNames DEF PassBegin
<1>1. /\ ThreadTypeOK'
      /\ at'[push].pc = "scan" /\ at'[push].conn = at[push].conn
      /\ \A u \in Thread : u # push => at'[u] = at[u]
  BY GoesEffect DEF PcOf
<1>2. TypeOK'
  BY <1>1 DEF ClientTypeOK, OpTypeOK, SessionTypeOK
<1>3. MutexOK' /\ FreshOK'
  BY <1>1 DEF MutexOK, FreshOK, Fresh, In
<1>4. QueueOK' /\ NotifyOK'
  BY DEF QueueOK, EntryOK, NotifyOK
<1>5. WriteOK'
  BY <1>1 DEF WriteOK, Writing, Writers, Closing, In
<1>6. ReadOK' /\ ClosedOK'
  BY <1>1 DEF ReadOK, ClosedOK, Readers, Closing, In
<1>. QED  BY <1>2, <1>3, <1>4, <1>5, <1>6

\* It ends.
LEMMA PassEndIInv == ASSUME IInv, PassEnd PROVE IInv'
<1>. USE ThreadNames DEF PassEnd
<1>1. /\ ThreadTypeOK' /\ at'[push].pc = "idle" /\ at'[push].conn = None
      /\ \A u \in Thread : u # push => at'[u] = at[u]
  BY DEF ThreadTypeOK, Pc, PcOf
<1>2. TypeOK'
  BY <1>1 DEF ClientTypeOK, OpTypeOK, SessionTypeOK
<1>3. MutexOK' /\ FreshOK'
  BY <1>1 DEF MutexOK, FreshOK, Fresh, In
<1>4. QueueOK' /\ NotifyOK'
  BY DEF QueueOK, EntryOK, NotifyOK
<1>5. WriteOK'
  BY <1>1 DEF WriteOK, Writing, Writers, Closing, In
<1>6. ReadOK' /\ ClosedOK'
  BY <1>1 DEF ReadOK, ClosedOK, Readers, Closing, In
<1>. QED  BY <1>2, <1>3, <1>4, <1>5, <1>6

\* It comes to the next connection of the map.
LEMMA DoPushSendIInv == ASSUME IInv, DoPushSend PROVE IInv'
<1>. USE ThreadNames DEF DoPushSend
<1>1. PICK c \in scan :
        IF pushSend_[c]
        THEN /\ at' = [at EXCEPT ![push] =
                         [pc |-> "clear", conn |-> c, len |-> 0]]
             /\ UNCHANGED scan
        ELSE scan' = scan \ {c} /\ UNCHANGED at
  OBVIOUS
<1>2. c \in Conn /\ c \in connections_ /\ ~Fresh(c)
  BY DEF MutexOK, FreshOK, In
<1>3. CASE UNCHANGED at
  <2>1. TypeOK' /\ MutexOK' /\ scan' \subseteq scan
    <3>1. scan' \subseteq scan
      BY <1>1, <1>3
    <3>2. TypeOK'
      BY <1>3 DEF ClientTypeOK, OpTypeOK, ThreadTypeOK, SessionTypeOK
    <3>3. MutexOK'
      BY <1>3, <3>1 DEF MutexOK, In
    <3>. QED  BY <3>1, <3>2, <3>3
  <2>2. FreshOK' /\ QueueOK' /\ NotifyOK'
    BY <1>3 DEF FreshOK, Fresh, In, QueueOK, EntryOK, NotifyOK
  <2>3. WriteOK' /\ ReadOK' /\ ClosedOK'
    BY <1>3 DEF WriteOK, ReadOK, ClosedOK, Writing, Writers, Readers, Closing,
       In
  <2>. QED  BY <2>1, <2>2, <2>3
<1>4. CASE /\ at' = [at EXCEPT ![push] =
                       [pc |-> "clear", conn |-> c, len |-> 0]]
           /\ UNCHANGED scan
  <2>1. /\ ThreadTypeOK' /\ at'[push].pc = "clear" /\ at'[push].conn = c
        /\ \A u \in Thread : u # push => at'[u] = at[u]
    BY <1>2, <1>4 DEF ThreadTypeOK, Pc, PcOf
  <2>2. TypeOK'
    BY <1>4, <2>1 DEF ClientTypeOK, OpTypeOK, SessionTypeOK
  <2>3. MutexOK'
    BY <1>4, <2>1 DEF MutexOK, In
  <2>4. FreshOK'
    BY <1>2, <2>1 DEF FreshOK, Fresh, In
  <2>5. QueueOK' /\ NotifyOK'
    BY DEF QueueOK, EntryOK, NotifyOK
  <2>6. /\ \A d \in Conn : Closing(d)' <=> Closing(d)
        /\ \A d \in Conn : Writers(d)' = Writers(d)
        /\ \A d \in Conn : Readers(d)' = Readers(d)
    BY <2>1 DEF Closing, Writers, Readers, In
  <2>7. WriteOK'
    BY <2>1, <2>6 DEF WriteOK, Writing, In
  <2>8. ReadOK'
    BY <2>6 DEF ReadOK
  <2>9. ClosedOK'
    BY <2>1 DEF ClosedOK, In
  <2>. QED  BY <2>2, <2>3, <2>4, <2>5, <2>7, <2>8, <2>9
<1>. QED  BY <1>1, <1>3, <1>4

\* The flag of the connection is reset.
LEMMA ClearPushSendIInv == ASSUME IInv, ClearPushSend PROVE IInv'
<1>. USE ThreadNames DEF ClearPushSend
<1>. DEFINE c == at[push].conn
<1>. c \in Conn /\ session[c] # "none" /\ ~Fresh(c)
  BY InHand
<1>1. /\ ThreadTypeOK' /\ at'[push].pc = "acquire" /\ at'[push].conn = c
      /\ \A u \in Thread : u # push => at'[u] = at[u]
  BY GoesEffect DEF PcOf
<1>2. TypeOK'
  BY <1>1 DEF ClientTypeOK, OpTypeOK, SessionTypeOK
<1>3. MutexOK' /\ FreshOK'
  BY <1>1 DEF MutexOK, FreshOK, Fresh, In
<1>4. QueueOK' /\ NotifyOK'
  BY DEF QueueOK, EntryOK, NotifyOK
<1>5. WriteOK'
  BY <1>1, WriteFrame DEF WriterAt, ClosingAt
<1>6. ReadOK' /\ ClosedOK'
  BY <1>1, ReadFrame DEF ReaderAt, ClosingAt, ClosedOK, In
<1>. QED  BY <1>2, <1>3, <1>4, <1>5, <1>6

\* The write lock is taken, or the connection is left to who has it.
LEMMA TryAcquireIInv == ASSUME IInv, TryAcquireWriteLock PROVE IInv'
<1>. USE ThreadNames DEF TryAcquireWriteLock, compareAndSwap
<1>. DEFINE c == at[push].conn
<1>. c \in Conn /\ session[c] # "none" /\ ~Fresh(c)
  BY InHand
<1>1. QueueOK' /\ NotifyOK'
  BY DEF QueueOK, EntryOK, NotifyOK
<1>2. CASE /\ ~writeLock_[c] /\ writeLock_' = [writeLock_ EXCEPT ![c] = TRUE]
           /\ Goes(push, "remain") /\ UNCHANGED <<mutex_, scan>>
  <2>1. /\ ThreadTypeOK' /\ at'[push].pc = "remain" /\ at'[push].conn = c
        /\ \A u \in Thread : u # push => at'[u] = at[u]
    BY <1>2, GoesEffect DEF PcOf
  <2>2. /\ writeLock_' \in [Conn -> BOOLEAN] /\ writeLock_'[c]
        /\ \A d \in Conn : d # c => writeLock_'[d] = writeLock_[d]
    BY <1>2
  <2>3. TypeOK'
    BY <1>2, <2>1, <2>2 DEF ClientTypeOK, OpTypeOK, SessionTypeOK
  <2>4. MutexOK'
    BY <1>2, <2>1 DEF MutexOK, In
  <2>5. FreshOK'
    BY <2>1, <2>2 DEF FreshOK, Fresh, In
  <2>6. writeOp[c] = "none" /\ Writers(c) = {}
    BY <1>2 DEF WriteOK, Writing
  <2>7. WriteOK'
    <3>1. /\ UNCHANGED <<writeOp, writeLen, sendBuffer_, open>>
          /\ at[push].pc = "acquire" /\ WriteOK
      BY DEF opVars, bufVars, connVars, At
    <3>2. PICK e \in Conn : e = c
      OBVIOUS
    <3>3. ASSUME NEW d \in Conn
          PROVE  /\ Writers(d)' = IF d = e THEN {push} ELSE Writers(d)
                 /\ Closing(d)' <=> Closing(d)
                 /\ \A u \in Thread : In(u, d, {"remove"})'
                                     => u # push /\ In(u, d, {"remove"})
      BY ONLY <2>1, <2>6, <3>1, <3>2, <3>3, ThreadNames
         DEF Writers, Closing, In
    <3>4. /\ Writing(e)' /\ ~Writing(e)
          /\ \A d \in Conn : d # e => (Writing(d)' <=> Writing(d))
      BY ONLY <2>6, <3>1, <3>2, <3>3 DEF Writing
    <3>5. \A u \in Thread : u # push => at'[u] = at[u]
      BY ONLY <2>1
    <3>. QED  BY ONLY <2>2, <2>6, <3>1, <3>2, <3>3, <3>4, <3>5 DEF WriteOK
  <2>8. ReadOK' /\ ClosedOK'
    BY <1>2, <2>1, ReadFrame DEF ReaderAt, ClosingAt, ClosedOK, In
  <2>. QED  BY <1>1, <2>3, <2>4, <2>5, <2>7, <2>8
<1>3. CASE writeLock_[c] /\ Returns(push, TRUE) /\ UNCHANGED writeLock_
  <2>1. /\ ThreadTypeOK' /\ MutexOK' /\ mutex_' \in {None, listener, push}
        /\ at'[push].pc \in {"idle", "scan"} /\ scan' \subseteq Conn
        /\ at'[push].conn = None
        /\ \A u \in Thread : u # push => at'[u] = at[u]
    BY <1>3, ReturnsEffect
  <2>2. TypeOK'
    BY <1>3, <2>1 DEF ClientTypeOK, OpTypeOK, SessionTypeOK
  <2>3. FreshOK'
    BY <1>3, <2>1 DEF FreshOK, Fresh, In
  <2>4. WriteOK'
    BY <1>3, <2>1, WriteFrame DEF WriterAt, ClosingAt
  <2>5. ReadOK' /\ ClosedOK'
    BY <2>1, ReadFrame DEF ReaderAt, ClosingAt, ClosedOK, In
  <2>. QED  BY <1>1, <2>1, <2>2, <2>3, <2>4, <2>5
<1>. QED  BY <1>2, <1>3

-----------------------------------------------------------------------------
(* The session thread.                                                     *)

\* What the session thread does not touch stays as it is.
LEMMA SessionSteps ==
  ASSUME IInv, TypeOK', NotifyOK', UNCHANGED <<session, open, connections_,
         mutex_, iocp, opVars, writeLock_, at, scan>>,
         \A c \in Conn : Fresh(c) =>
           packetList_'[c] = packetList_[c] /\ sendBuffer_'[c] = sendBuffer_[c],
         \A c \in Conn : sendBuffer_[c] <= sendBuffer_'[c]
  PROVE  IInv'
<1>1. MutexOK' /\ ClosedOK'
  BY DEF MutexOK, ClosedOK, In
<1>2. FreshOK'
  BY DEF FreshOK, Fresh, In
<1>3. QueueOK'
  <2>. SUFFICES ASSUME NEW p \in Port, NEW i \in DOMAIN completions[p]
                PROVE  EntryOK(p, i)'
    BY DEF QueueOK
  <2>. completions[p][i].conn \in Conn /\ completions[p][i].len \in Nat
    BY QueuedType
  <2>. QED  BY DEF QueueOK, EntryOK
<1>4. ReadOK'
  BY DEF ReadOK, Readers, Closing, In
<1>5. WriteOK'
  <2>1. /\ \A c \in Conn : Writers(c)' = Writers(c)
        /\ \A c \in Conn : Closing(c)' <=> Closing(c)
        /\ \A c \in Conn : Writing(c)' <=> Writing(c)
    BY DEF Writing, Writers, Closing, In
  <2>2. \A c \in Conn :
          /\ writeLen[c] \in Nat
          /\ sendBuffer_[c] \in Nat /\ sendBuffer_'[c] \in Nat
    BY DEF OpTypeOK
  <2>3. \A c \in Conn :
          writeOp[c] = "pending" => writeLen[c] <= sendBuffer_'[c]
    BY <2>2 DEF WriteOK
  <2>4. \A c \in Conn, t \in Thread :
          In(t, c, {"remove"}) => at[t].len <= sendBuffer_'[c]
    BY <2>2 DEF WriteOK, ThreadTypeOK
  <2>. QED  BY <2>1, <2>3, <2>4 DEF WriteOK, In
<1>. QED  BY <1>1, <1>2, <1>3, <1>4, <1>5

\* Every step of the session thread.
LEMMA SessionThreadIInv == ASSUME IInv, SessionThread PROVE IInv'
<1>. USE DEF SessionThread
<1>1. CASE CheckWaiting
  <2>1. TypeOK' /\ NotifyOK'
    BY <1>1 DEF CheckWaiting, deEnqueue, ClientTypeOK, OpTypeOK, ThreadTypeOK,
       SessionTypeOK, NotifyOK
  <2>. QED  BY <1>1, <2>1, SessionSteps DEF CheckWaiting
<1>2. CASE CheckSession
  <2>1. PICK c \in todo :
          /\ todo' = todo \ {c}
          /\ IF session[c] = "disabled"
             THEN /\ session' = [session EXCEPT ![c] = "deleted"]
                  /\ sessionList_' = sessionList_ \ {c}
             ELSE UNCHANGED <<session, sessionList_>>
    BY <1>2 DEF CheckSession, destroy
  <2>2. c \in Conn
    BY DEF SessionTypeOK
  <2>3. /\ session' \in [Conn -> {"none", "active", "disabled", "deleted"}]
        /\ sessionList_' \subseteq Conn
        /\ \A d \in Conn : \/ session'[d] = session[d]
                           \/ session[d] = "disabled" /\ session'[d] = "deleted"
    <3>1. CASE session[c] = "disabled"
      BY <2>1, <2>2, <3>1 DEF SessionTypeOK
    <3>2. CASE session[c] # "disabled"
      BY <2>1, <2>2, <3>2 DEF SessionTypeOK
    <3>. QED  BY <3>1, <3>2
  <2>. USE DEF CheckSession
  <2>4. TypeOK' /\ MutexOK'
    BY <1>2, <2>1, <2>3 DEF ClientTypeOK, OpTypeOK, ThreadTypeOK, SessionTypeOK,
       MutexOK, In
  <2>5. FreshOK'
    BY <1>2, <2>3 DEF FreshOK, Fresh, In
  <2>6. QueueOK' /\ NotifyOK'
    BY <1>2 DEF QueueOK, EntryOK, NotifyOK
  <2>7. WriteOK' /\ ReadOK'
    BY <1>2 DEF WriteOK, ReadOK, Writing, Writers, Readers, Closing, In
  <2>8. ClosedOK'
    BY <1>2, <2>3 DEF ClosedOK, In
  <2>. QED  BY <2>4, <2>5, <2>6, <2>7, <2>8
<1>3. CASE Checked
  <2>1. TypeOK' /\ NotifyOK'
    BY <1>3 DEF Checked, ClientTypeOK, OpTypeOK, ThreadTypeOK, SessionTypeOK,
       NotifyOK
  <2>. QED  BY <1>3, <2>1, SessionSteps DEF Checked
<1>4. CASE Update
  <2>1. TypeOK' /\ NotifyOK'
    BY <1>4 DEF Update, ClientTypeOK, OpTypeOK, ThreadTypeOK, SessionTypeOK,
       NotifyOK
  <2>. QED  BY <1>4, <2>1, SessionSteps DEF Update
<1>5. CASE Updated
  <2>1. TypeOK' /\ NotifyOK'
    BY <1>5 DEF Updated, ClientTypeOK, OpTypeOK, ThreadTypeOK, SessionTypeOK,
       NotifyOK
  <2>. QED  BY <1>5, <2>1, SessionSteps DEF Updated
<1>6. CASE ProcessMsg
  <2>. USE <1>6 DEF ProcessMsg, HasPacket
  <2>1. scur \in Conn /\ ~Fresh(scur)
    BY DEF SessionTypeOK, FreshOK
  <2>2. /\ sendBuffer_' \in [Conn -> Nat]
        /\ \A c \in Conn : sendBuffer_[c] <= sendBuffer_'[c]
        /\ \A c \in Conn : c # scur => sendBuffer_'[c] = sendBuffer_[c]
    BY <2>1
  <2>3. TypeOK' /\ NotifyOK'
    BY <2>2 DEF ClientTypeOK, OpTypeOK, ThreadTypeOK, SessionTypeOK, NotifyOK
  <2>. QED  BY <2>1, <2>2, <2>3, SessionSteps
<1>7. CASE PushSend
  <2>. USE <1>7 DEF PushSend, pushSend
  <2>1. scur \in Conn /\ packetList_[scur] > 0 /\ ~Fresh(scur)
    BY DEF SessionTypeOK, FreshOK, NotifyOK
  <2>2. /\ packetList_' \in [Conn -> Nat]
        /\ \A c \in Conn : c # scur => packetList_'[c] = packetList_[c]
    BY <2>1
  <2>3. TypeOK' /\ NotifyOK'
    BY <2>1, <2>2 DEF ClientTypeOK, OpTypeOK, ThreadTypeOK, SessionTypeOK,
       NotifyOK
  <2>. QED  BY <2>1, <2>2, <2>3, SessionSteps
<1>8. CASE SessionUpdated
  <2>1. TypeOK' /\ NotifyOK'
    BY <1>8 DEF SessionUpdated, ClientTypeOK, OpTypeOK, ThreadTypeOK,
       SessionTypeOK, NotifyOK
  <2>. QED  BY <1>8, <2>1, SessionSteps DEF SessionUpdated
<1>. QED  BY <1>1, <1>2, <1>3, <1>4, <1>5, <1>6, <1>7, <1>8

-----------------------------------------------------------------------------
(* The network and the clients.                                            *)

\* An operation that was outstanding is queued at the port of its connection.
LEMMA CompleteQueueOK ==
  ASSUME QueueOK, OpTypeOK, NEW c \in Conn, iocp[c] \in Port,
         NEW op \in {"read", "write"},
         NEW result \in {"ok", "deleted", "other"},
         NEW len \in Nat, Complete(c, op, result, len),
         \A d \in Conn :
           /\ readOp'[d] = IF op = "read" /\ d = c THEN "queued" ELSE readOp[d]
           /\ writeOp'[d] = IF op = "write" /\ d = c THEN "queued"
                            ELSE writeOp[d],
         op = "read" => readOp[c] = "pending",
         op = "write" => writeOp[c] = "pending",
         result = "other" => ~open[c],
         op = "write" /\ result = "ok" => len <= sendBuffer_[c],
         UNCHANGED <<iocp, open, sendBuffer_>>
  PROVE  completions' \in [Port -> Seq(Completion)] /\ QueueOK'
<1>. DEFINE p == iocp[c]
            r == [op |-> op, conn |-> c, result |-> result, len |-> len]
<1>1. r \in Completion
  BY DEF Completion
<1>2. /\ completions' \in [Port -> Seq(Completion)]
      /\ completions'[p] = Append(completions[p], r)
      /\ \A q \in Port : q # p => completions'[q] = completions[q]
  BY <1>1 DEF Complete, OpTypeOK
<1>3. /\ \A i \in DOMAIN completions'[p] :
           \/ i \in DOMAIN completions[p]
              /\ completions'[p][i] = completions[p][i]
           \/ i = Len(completions[p]) + 1 /\ completions'[p][i] = r
  <2>1. completions[p] \in Seq(Completion)
    BY DEF OpTypeOK
  <2>. QED  BY <1>1, <1>2, <2>1
<1>4. \A q \in Port : \A i \in DOMAIN completions[q] :
        /\ completions[q][i].conn \in Conn
        /\ ~(completions[q][i].conn = c /\ completions[q][i].op = op)
        /\ EntryOK(q, i)
  BY QueuedType DEF QueueOK, EntryOK
<1>. SUFFICES ASSUME NEW q \in Port, NEW i \in DOMAIN completions'[q]
              PROVE  EntryOK(q, i)'
  BY <1>2 DEF QueueOK
<1>5. CASE q # p
  <2>1. completions'[q] = completions[q] /\ i \in DOMAIN completions[q]
    BY <1>2, <1>5
  <2>. QED  BY <1>4, <1>5, <2>1 DEF EntryOK
<1>6. CASE q = p /\ completions'[p][i] = r
  <2>1. \A j \in DOMAIN completions'[p] :
          completions'[p][j].op = op /\ completions'[p][j].conn = c => i = j
    <3>. SUFFICES ASSUME NEW j \in DOMAIN completions'[p],
                         completions'[p][j].op = op,
                         completions'[p][j].conn = c
                  PROVE  i = j
      OBVIOUS
    <3>1. ASSUME NEW k \in DOMAIN completions'[p],
                 completions'[p][k].op = op, completions'[p][k].conn = c
          PROVE  k = Len(completions[p]) + 1
      <4>1. ~(k \in DOMAIN completions[p]
              /\ completions'[p][k] = completions[p][k])
        BY ONLY <1>4, <3>1, p \in Port
      <4>. QED  BY ONLY <1>3, <3>1, <4>1
    <3>2. completions'[p][i].op = op /\ completions'[p][i].conn = c
      BY <1>6
    <3>. QED  BY <1>6, <3>1, <3>2
  <2>. QED  BY <1>6, <2>1 DEF EntryOK
<1>7. CASE /\ q = p /\ i \in DOMAIN completions[p]
           /\ completions'[p][i] = completions[p][i]
  <2>1. \A j \in DOMAIN completions'[p] :
          completions'[p][j].op = completions[p][i].op
          /\ completions'[p][j].conn = completions[p][i].conn => i = j
    <3>. SUFFICES ASSUME NEW j \in DOMAIN completions'[p],
                         completions'[p][j].op = completions[p][i].op,
                         completions'[p][j].conn = completions[p][i].conn
                  PROVE  i = j
      OBVIOUS
    <3>1. completions'[p][j] # r
      BY <1>1, <1>4, <1>7 DEF Completion
    <3>2. j \in DOMAIN completions[p] /\ completions'[p][j] = completions[p][j]
      BY <1>3, <3>1
    <3>. QED  BY <1>4, <1>7, <3>2 DEF EntryOK
  <2>. QED  BY <1>4, <1>7, <2>1 DEF EntryOK
<1>. QED  BY <1>3, <1>5, <1>6, <1>7

\* A read ends, with the requests that have come or with an error.
LEMMA ReadCompletesIInv ==
  ASSUME IInv, NEW c \in Conn, ReadCompletes(c) PROVE IInv'
<1>. USE DEF ReadCompletes
<1>1. iocp[c] \in Port /\ ~Fresh(c)
  BY DEF FreshOK
<1>2. /\ readOp' \in [Conn -> {"none", "pending", "queued"}]
      /\ readOp'[c] = "queued"
      /\ \A d \in Conn : d # c => readOp'[d] = readOp[d]
  BY DEF OpTypeOK
<1>3. PICK result \in {"ok", "deleted", "other"}, len \in Nat :
        /\ Complete(c, "read", result, len)
        /\ result = "other" => ~open[c]
  BY DEF Failure, ClientTypeOK
<1>4. completions' \in [Port -> Seq(Completion)] /\ QueueOK'
  BY <1>1, <1>2, <1>3, CompleteQueueOK
<1>5. requests' \in [Conn -> Nat]
  BY DEF ClientTypeOK
<1>6. TypeOK'
  BY <1>2, <1>4, <1>5 DEF ClientTypeOK, OpTypeOK, ThreadTypeOK, SessionTypeOK
<1>7. MutexOK' /\ NotifyOK' /\ ClosedOK'
  BY DEF MutexOK, NotifyOK, ClosedOK, In
<1>8. FreshOK'
  BY <1>1, <1>2 DEF FreshOK, Fresh, In
<1>9. WriteOK'
  BY DEF WriteOK, Writing, Writers, Closing, In
<1>10. ReadOK'
  BY <1>2 DEF ReadOK, Readers, Closing, In
<1>. QED  BY <1>4, <1>6, <1>7, <1>8, <1>9, <1>10

\* A write ends, with as much as the client has taken or with an error.
LEMMA WriteCompletesIInv ==
  ASSUME IInv, NEW c \in Conn, WriteCompletes(c) PROVE IInv'
<1>. USE DEF WriteCompletes
<1>1. iocp[c] \in Port /\ ~Fresh(c)
  BY DEF FreshOK
<1>2. /\ writeOp' \in [Conn -> {"none", "pending", "queued"}]
      /\ writeOp'[c] = "queued"
      /\ \A d \in Conn : d # c => writeOp'[d] = writeOp[d]
  BY DEF OpTypeOK
<1>3. writeLen[c] \in Nat /\ writeLen[c] <= sendBuffer_[c]
  BY DEF WriteOK, OpTypeOK
<1>4. PICK result \in {"ok", "deleted", "other"}, len \in Nat :
        /\ Complete(c, "write", result, len)
        /\ result = "other" => ~open[c]
        /\ result = "ok" => len <= sendBuffer_[c]
  <2>1. CASE \E k \in 1..writeLen[c] : Complete(c, "write", "ok", k)
    BY <1>3, <2>1
  <2>2. CASE \E f \in Failure(c) : Complete(c, "write", f, 0)
    BY <1>3, <2>2 DEF Failure
  <2>. QED  BY <2>1, <2>2
<1>5. completions' \in [Port -> Seq(Completion)] /\ QueueOK'
  BY <1>1, <1>2, <1>4, CompleteQueueOK
<1>6. answers' \in [Conn -> Nat]
  BY <1>3 DEF ClientTypeOK
<1>7. TypeOK'
  BY <1>2, <1>5, <1>6 DEF ClientTypeOK, OpTypeOK, ThreadTypeOK, SessionTypeOK
<1>8. MutexOK' /\ NotifyOK' /\ ClosedOK'
  BY DEF MutexOK, NotifyOK, ClosedOK, In
<1>9. FreshOK'
  BY <1>1, <1>2 DEF FreshOK, Fresh, In
<1>10. WriteOK'
  BY <1>2 DEF WriteOK, Writing, Writers, Closing, In
<1>11. ReadOK'
  BY DEF ReadOK, Readers, Closing, In
<1>. QED  BY <1>5, <1>7, <1>8, <1>9, <1>10, <1>11

\* A client changes nothing but its own variables.
LEMMA ClientIInv == ASSUME IInv, Client, Clients PROVE IInv'
<1>. USE DEF Clients
<1>1. ClientTypeOK'
  BY DEF Client, ClientStep, Connect, SendA, SendB, SendRequest, Receive,
     Killed, ClientTypeOK
<1>2. TypeOK'
  BY <1>1 DEF OpTypeOK, ThreadTypeOK, SessionTypeOK
<1>3. MutexOK' /\ FreshOK' /\ QueueOK' /\ NotifyOK'
  BY DEF MutexOK, FreshOK, QueueOK, EntryOK, NotifyOK, Fresh, In
<1>4. WriteOK' /\ ReadOK' /\ ClosedOK'
  BY DEF WriteOK, ReadOK, ClosedOK, Writing, Writers, Readers, Closing, In
<1>. QED  BY <1>2, <1>3, <1>4

-----------------------------------------------------------------------------
(* The invariant and what follows from it.                                 *)

\* Every step of the operations of a connection.
LEMMA ConnectionIInv ==
  ASSUME IInv, NEW t \in Thread, Connection(t) PROVE IInv'
  BY WSARecvIInv, RemoveIInv, RemainIInv, ReleaseIInv, WSASendIInv,
     CloseSocketIInv, RemoveConnectionIInv, KillIInv DEF Connection

\* Every step of the server, the network and the clients.
LEMMA NextIInv == ASSUME IInv, Next PROVE IInv'
<1>. HIDE DEF IInv
<1>1. CASE Client /\ Clients
  BY <1>1, ClientIInv
<1>2. CASE Listener
  BY <1>2, AcceptIInv, AddConnectionIInv, AddSessionIInv DEF Listener
<1>3. CASE Connection(listener)
  BY <1>3, ConnectionIInv, ThreadNames
<1>4. ASSUME NEW p \in Port, Worker(p) PROVE IInv'
  BY <1>4, GetQueuedIInv, StartNextReadIInv, OnReadIInv, NoPacketIInv,
     ConnectionIInv, ThreadNames DEF Worker
<1>5. CASE Push
  BY <1>5, PassBeginIInv, PassEndIInv, DoPushSendIInv, ClearPushSendIInv,
     TryAcquireIInv, ConnectionIInv, ThreadNames DEF Push
<1>6. CASE SessionThread
  BY <1>6, SessionThreadIInv
<1>7. CASE Network
  BY <1>7, ReadCompletesIInv, WriteCompletesIInv DEF Network
<1>. QED  BY <1>1, <1>2, <1>3, <1>4, <1>5, <1>6, <1>7 DEF Next

\* The invariant holds in every state of the completion port server.
THEOREM InvariantTheorem == Spec => []IInv
<1>1. Init => IInv
  BY InitIInv
<1>2. IInv /\ [Next]_vars => IInv'
  BY NextIInv, StutterIInv
<1>. QED  BY <1>1, <1>2, PTL DEF Spec

\* A set whose elements are all equal has one at most.
LEMMA AtMostOne ==
  ASSUME NEW S, \A x, y \in S : x = y
  PROVE  /\ Cardinality(S) \in {0, 1}
         /\ Cardinality(S) = 0 <=> S = {}
<1>1. CASE S = {}
  BY <1>1, FS_EmptySet
<1>2. CASE S # {}
  <2>1. PICK x : S = {x}
    BY <1>2
  <2>2. Cardinality({x}) = 1
    BY FS_Singleton
  <2>. QED  BY <1>2, <2>1, <2>2
<1>. QED  BY <1>1, <1>2

\* The lock of a connection goes from one write to the next, for any number of
\* connections, ports and rounds.
THEOREM WriteLockTheorem == Spec => []WriteLockHasOneOwner
<1>1. IInv => WriteLockHasOneOwner
  <2>. SUFFICES ASSUME IInv, NEW c \in Conn
                PROVE  /\ Writes(c) <= 1
                       /\ Writes(c) = 1 => writeLock_[c]
                       /\ writeLock_[c] /\ open[c] /\ ~Closing(c) =>
                            Writes(c) = 1
    BY DEF WriteLockHasOneOwner
  <2>1. /\ Cardinality(Writers(c)) \in {0, 1}
        /\ Cardinality(Writers(c)) = 0 <=> Writers(c) = {}
    BY AtMostOne DEF WriteOK
  <2>2. Writes(c) = IF Writing(c) THEN 1 ELSE 0
    BY <2>1 DEF WriteOK, Writes, Writing
  <2>. QED  BY <2>2 DEF WriteOK
<1>. QED  BY <1>1, InvariantTheorem, PTL

\* A connection of the map has one read under way, for any number of
\* connections, ports and rounds.
THEOREM OneReadTheorem == Spec => []OneReadAtATime
<1>1. IInv => OneReadAtATime
  <2>. SUFFICES ASSUME IInv, NEW c \in Conn
                PROVE  /\ Reads(c) <= 1
                       /\ c \in connections_ /\ open[c] /\ ~Closing(c) =>
                            Reads(c) = 1
    BY DEF OneReadAtATime
  <2>1. /\ Cardinality(Readers(c)) \in {0, 1}
        /\ Cardinality(Readers(c)) = 0 <=> Readers(c) = {}
    BY AtMostOne DEF ReadOK
  <2>2. Reads(c) = IF readOp[c] # "none" \/ Readers(c) # {} THEN 1 ELSE 0
    BY <2>1 DEF ReadOK, Reads
  <2>. QED  BY <2>2 DEF ReadOK
<1>. QED  BY <1>1, InvariantTheorem, PTL

-----------------------------------------------------------------------------
(* Nothing leads back to a deleted connection.                             *)

\* A thread in an operation of another connection does not come to c.
LEMMA ConnectionForgets ==
  ASSUME IInv, NEW t \in Thread, Connection(t), NEW c \in Conn, Forgotten(c)
  PROVE  Forgotten(c)'
<1>. USE ThreadNames DEF Forgotten, Holders
<1>1. at[t].conn # c /\ at[t].pc \notin {"idle", "scan"}
  BY DEF Connection, WSARecv, RemoveSendData, RemainSendData, ReleaseWriteLock,
     WSASend, CloseSocket, RemoveConnection, Kill
<1>2. /\ session'[c] = session[c]
      /\ readOp'[c] = readOp[c] /\ writeOp'[c] = writeOp[c]
  BY <1>1 DEF Connection, WSARecv, RemoveSendData, RemainSendData,
     ReleaseWriteLock, WSASend, CloseSocket, RemoveConnection, Kill, OpTypeOK
<1>3. /\ at'[t].conn \in {at[t].conn, None}
      /\ \A u \in Thread : u # t => at'[u] = at[u]
  <2>1. \/ \E pc \in {"closesocket", "remain", "release", "send", "erase",
                      "kill"} : Goes(t, pc)
        \/ \E result \in BOOLEAN : Returns(t, result)
    BY DEF Connection, WSARecv, RemoveSendData, RemainSendData,
       ReleaseWriteLock, WSASend, CloseSocket, RemoveConnection, Kill
  <2>. QED  BY <2>1 DEF Returns, ThreadTypeOK
<1>. QED  BY <1>1, <1>2, <1>3

\* A step of the workers, of the push thread or of the listener either.
LEMMA NextForgets ==
  ASSUME IInv, Next, NEW c \in Conn, Forgotten(c) PROVE Forgotten(c)'
<1>. USE ThreadNames DEF Forgotten, Holders
<1>1. c \notin connections_ /\ (At(push, "scan") => c \notin scan)
  BY DEF ClosedOK, MutexOK, In
<1>2. CASE Client /\ Clients
  BY <1>2 DEF Clients
<1>3. CASE Listener
  BY <1>3 DEF Listener, Accept, AddConnection, AddSession, ThreadTypeOK
<1>4. CASE \E t \in Thread : Connection(t)
  BY <1>4, ConnectionForgets
<1>5. ASSUME NEW p \in Port, Worker(p) PROVE Forgotten(c)'
  <2>1. CASE GetQueuedCompletionStatus(p)
    <3>. DEFINE r == completions[p][1]
    <3>1. 1 \in DOMAIN completions[p] /\ Head(completions[p]) = r
      <4>1. completions[p] \in Seq(Completion) /\ completions[p] # <<>>
        BY <2>1 DEF GetQueuedCompletionStatus, OpTypeOK
      <4>. QED  BY <4>1
    <3>2. r.conn # c
      BY <3>1, QueuedType DEF QueueOK, EntryOK
    <3>3. /\ readOp'[c] = readOp[c] /\ writeOp'[c] = writeOp[c]
          /\ at'[p].conn # c /\ UNCHANGED session
          /\ \A u \in Thread : u # p => at'[u] = at[u]
      BY <2>1, <3>1, <3>2 DEF GetQueuedCompletionStatus, ThreadTypeOK, OpTypeOK
    <3>. QED  BY <3>3
  <2>2. CASE StartNextRead(p) \/ OnRead(p) \/ NoPacket(p)
    BY <2>2 DEF StartNextRead, OnRead, NoPacket, ThreadTypeOK
  <2>. QED  BY <1>5, <2>1, <2>2, ConnectionForgets DEF Worker
<1>6. CASE PassBegin \/ PassEnd \/ DoPushSend \/ ClearPushSend
           \/ TryAcquireWriteLock
  <2>1. CASE DoPushSend
    <3>. USE <2>1 DEF DoPushSend
    <3>1. at'[push].conn # c /\ \A u \in Thread : u # push => at'[u] = at[u]
      BY <1>1 DEF ThreadTypeOK
    <3>. QED  BY <3>1
  <2>2. CASE PassBegin \/ PassEnd \/ ClearPushSend
    BY <2>2 DEF PassBegin, PassEnd, ClearPushSend, ThreadTypeOK
  <2>3. CASE TryAcquireWriteLock
    BY <2>3 DEF TryAcquireWriteLock, Returns, ThreadTypeOK
  <2>. QED  BY <1>6, <2>1, <2>2, <2>3
<1>7. CASE SessionThread
  BY <1>7 DEF SessionThread, CheckWaiting, CheckSession, Checked, Update,
     Updated, ProcessMsg, PushSend, SessionUpdated, destroy
<1>8. CASE Network
  BY <1>8 DEF Network, ReadCompletes, WriteCompletes, OpTypeOK
<1>. QED  BY <1>2, <1>3, <1>4, <1>5, <1>6, <1>7, <1>8 DEF Next, Push

\* Once a deleted connection is in no hand and no operation of it is
\* outstanding, no thread comes to it again.
THEOREM ForgottenTheorem == Spec => ForgottenForGood
<1>1. IInv /\ [Next]_vars => \A c \in Conn : Forgotten(c) => Forgotten(c)'
  <2>. SUFFICES ASSUME IInv, [Next]_vars, NEW c \in Conn, Forgotten(c)
                PROVE  Forgotten(c)'
    OBVIOUS
  <2>1. CASE Next
    BY <2>1, NextForgets
  <2>2. CASE UNCHANGED vars
    BY <2>2 DEF vars, Forgotten, Holders
  <2>. QED  BY <2>1, <2>2
<1>2. IInv /\ [Next]_vars =>
        [\A c \in Conn : Forgotten(c) => Forgotten(c)']_vars
  BY <1>1
<1>. QED  BY <1>2, InvariantTheorem, PTL DEF Spec, ForgottenForGood

-----------------------------------------------------------------------------
(* While the client is there nothing fails.                                *)

AliveEntry(r, c) ==
  r.conn = c => r.result = "ok" /\ (r.op = "read" => r.len > 0)

\* Nothing is closed as long as the client is there, and no error is queued.
AliveOK ==
  \A c \in Conn : client[c] # "gone" =>
    /\ session[c] \in {"none", "active"}
    /\ session[c] = "active" => open[c]
    /\ \A t \in Thread : ~In(t, c, ClosingAt)
    /\ \A p \in Port : \A i \in DOMAIN completions[p] :
         AliveEntry(completions[p][i], c)

\* What thread t is with has a client that is there, so that the calls
\* succeed: t does not come to close the connection.
LEMMA ConnectionAlive ==
  ASSUME IInv, AliveOK, NEW t \in Thread, Connection(t)
  PROVE  AliveOK'
<1>. USE ThreadNames DEF ClosingAt
<1>. DEFINE c == at[t].conn
<1>. c \in Conn /\ session[c] # "none"
  BY InHand DEF Connection, WSARecv, RemoveSendData, RemainSendData,
     ReleaseWriteLock, WSASend, CloseSocket, RemoveConnection, Kill
<1>1. \/ \E pc \in {"closesocket", "remain", "release", "send", "erase",
                    "kill"} : Goes(t, pc)
      \/ \E result \in BOOLEAN : Returns(t, result)
  BY DEF Connection, WSARecv, RemoveSendData, RemainSendData,
     ReleaseWriteLock, WSASend, CloseSocket, RemoveConnection, Kill
<1>2. /\ at'[t].conn \in {c, None}
      /\ \A u \in Thread : u # t => at'[u] = at[u]
  BY <1>1 DEF Returns, ThreadTypeOK
<1>3. /\ UNCHANGED <<client, completions>>
      /\ \A d \in Conn : d # c => session'[d] = session[d] /\ open'[d] = open[d]
  BY DEF Connection, WSARecv, RemoveSendData, RemainSendData,
     ReleaseWriteLock, WSASend, CloseSocket, RemoveConnection, Kill
<1>4. ASSUME client[c] # "gone"
      PROVE  UNCHANGED <<session, open>> /\ at'[t].pc \notin ClosingAt
  <2>1. session[c] = "active" /\ open[c] /\ at[t].pc \notin ClosingAt
    BY <1>4 DEF AliveOK, In
  <2>2. CASE WSARecv(t)
    BY <1>4, <2>1, <2>2 DEF WSARecv, CallFails, Returns, ThreadTypeOK
  <2>3. CASE WSASend(t)
    BY <1>4, <2>1, <2>3 DEF WSASend, CallFails, Returns, ThreadTypeOK
  <2>4. CASE RemoveSendData(t) \/ RemainSendData(t) \/ ReleaseWriteLock(t)
    BY <2>4 DEF RemoveSendData, RemainSendData, ReleaseWriteLock, Returns,
       ThreadTypeOK
  <2>5. ~(CloseSocket(t) \/ RemoveConnection(t) \/ Kill(t))
    BY <2>1 DEF CloseSocket, RemoveConnection, Kill
  <2>. QED  BY <2>2, <2>3, <2>4, <2>5 DEF Connection
<1>. SUFFICES ASSUME NEW d \in Conn, client[d] # "gone"
              PROVE  /\ session'[d] \in {"none", "active"}
                     /\ session'[d] = "active" => open'[d]
                     /\ \A u \in Thread : ~In(u, d, ClosingAt)'
                     /\ \A p \in Port : \A i \in DOMAIN completions[p] :
                          AliveEntry(completions[p][i], d)
  BY <1>3 DEF AliveOK
<1>5. \A u \in Thread : ~In(u, d, ClosingAt)'
  BY <1>2, <1>4 DEF AliveOK, In
<1>. QED  BY <1>3, <1>4, <1>5 DEF AliveOK

\* A step of another kind that closes nothing.
LEMMA AliveSame ==
  ASSUME AliveOK, UNCHANGED <<client, session, open, completions>>,
         \A t \in Thread : at'[t] = at[t] \/ at'[t].pc \notin ClosingAt
  PROVE  AliveOK'
  BY DEF AliveOK, In

\* What is queued for a client that is there.
LEMMA CompleteAlive ==
  ASSUME IInv, AliveOK, NEW c \in Conn, iocp[c] \in Port,
         NEW op \in {"read", "write"},
         NEW result \in {"ok", "deleted", "other"},
         NEW len \in Nat, Complete(c, op, result, len),
         client[c] # "gone" => result = "ok" /\ (op = "read" => len > 0),
         UNCHANGED <<client, session, open, at>>
  PROVE  AliveOK'
<1>. DEFINE p == iocp[c]
            r == [op |-> op, conn |-> c, result |-> result, len |-> len]
<1>1. r \in Completion
  BY DEF Completion
<1>2. /\ \A q \in Port : q # p => completions'[q] = completions[q]
      /\ completions'[p] = Append(completions[p], r)
  BY DEF Complete, OpTypeOK
<1>3. \A i \in DOMAIN completions'[p] :
        \/ i \in DOMAIN completions[p] /\ completions'[p][i] = completions[p][i]
        \/ completions'[p][i] = r
  <2>1. completions[p] \in Seq(Completion)
    BY DEF OpTypeOK
  <2>. QED  BY <1>1, <1>2, <2>1
<1>4. \A d \in Conn : client[d] # "gone" =>
        \A q \in Port : \A i \in DOMAIN completions'[q] :
          AliveEntry(completions'[q][i], d)
  <2>. SUFFICES ASSUME NEW d \in Conn, client[d] # "gone",
                       NEW q \in Port, NEW i \in DOMAIN completions'[q]
                PROVE  AliveEntry(completions'[q][i], d)
    OBVIOUS
  <2>1. CASE q # p
    BY <1>2, <2>1 DEF AliveOK
  <2>2. CASE q = p /\ completions'[q][i] = r
    BY <2>2 DEF AliveEntry
  <2>3. CASE /\ q = p /\ i \in DOMAIN completions[p]
             /\ completions'[p][i] = completions[p][i]
    BY <2>3 DEF AliveOK
  <2>. QED  BY <1>3, <2>1, <2>2, <2>3
<1>. QED  BY <1>4 DEF AliveOK, In

\* While the client is there no step closes its connection.
LEMMA NextAlive == ASSUME IInv, AliveOK, Next PROVE AliveOK'
<1>. USE ThreadNames
<1>1. CASE Client /\ Clients
  <2>1. \A c \in Conn : client'[c] # "gone" => client[c] # "gone"
    BY <1>1 DEF Client, ClientStep, Connect, SendA, SendB, SendRequest, Receive,
       Killed, ClientTypeOK
  <2>. QED  BY <1>1, <2>1 DEF Clients, AliveOK, In
<1>2. CASE \E c \in Conn : Accept(c)
  <2>1. PICK c \in Conn : Accept(c)
    BY <1>2
  <2>2. /\ session'[c] = "active" /\ open'[c]
        /\ \A d \in Conn : d # c => session'[d] = session[d]
                                    /\ open'[d] = open[d]
        /\ \A t \in Thread : at'[t] = at[t] \/ at'[t].pc = "add"
        /\ UNCHANGED <<client, completions>>
    BY <2>1 DEF Accept, ThreadTypeOK
  <2>. QED  BY <2>2 DEF AliveOK, In, ClosingAt
<1>3. CASE AddConnection \/ AddSession
  BY <1>3, AliveSame DEF AddConnection, AddSession, ThreadTypeOK, ClosingAt
<1>4. CASE \E t \in Thread : Connection(t)
  BY <1>4, ConnectionAlive
<1>5. ASSUME NEW p \in Port, Worker(p) PROVE AliveOK'
  <2>1. CASE GetQueuedCompletionStatus(p)
    <3>. DEFINE r == completions[p][1]
    <3>1. /\ 1 \in DOMAIN completions[p] /\ Head(completions[p]) = r
          /\ \A i \in DOMAIN Tail(completions[p]) :
               /\ i + 1 \in DOMAIN completions[p]
               /\ Tail(completions[p])[i] = completions[p][i + 1]
      <4>1. completions[p] \in Seq(Completion) /\ completions[p] # <<>>
        BY <2>1 DEF GetQueuedCompletionStatus, OpTypeOK
      <4>. QED  BY <4>1
    <3>2. /\ UNCHANGED <<client, session, open>>
          /\ at'[p].conn = IF Handler(r) = "idle" THEN None ELSE r.conn
          /\ at'[p].pc = Handler(r)
          /\ \A u \in Thread : u # p => at'[u] = at[u]
      BY <2>1, <3>1 DEF GetQueuedCompletionStatus, ThreadTypeOK
    <3>3. \A c \in Conn : AliveEntry(r, c) =>
            ~(Handler(r) \in ClosingAt /\ r.conn = c)
      BY <3>1, QueuedType DEF AliveEntry, Handler, ClosingAt
    <3>4. \A c \in Conn : client[c] # "gone" =>
            \A t \in Thread : ~In(t, c, ClosingAt)'
      <4>. SUFFICES ASSUME NEW c \in Conn, client[c] # "gone", NEW t \in Thread
                    PROVE  ~In(t, c, ClosingAt)'
        OBVIOUS
      <4>1. AliveEntry(r, c) /\ ~In(t, c, ClosingAt)
        BY <3>1 DEF AliveOK
      <4>. QED  BY <3>2, <3>3, <4>1 DEF In, ClosingAt
    <3>5. /\ completions'[p] = Tail(completions[p])
          /\ \A q \in Port : q # p => completions'[q] = completions[q]
      BY <2>1 DEF GetQueuedCompletionStatus, OpTypeOK
    <3>6. \A c \in Conn : client[c] # "gone" =>
            \A q \in Port : \A i \in DOMAIN completions'[q] :
              AliveEntry(completions'[q][i], c)
      <4>. SUFFICES ASSUME NEW c \in Conn, client[c] # "gone",
                           NEW q \in Port, NEW i \in DOMAIN completions'[q]
                    PROVE  AliveEntry(completions'[q][i], c)
        OBVIOUS
      <4>1. CASE q # p
        BY <3>5, <4>1 DEF AliveOK
      <4>2. CASE q = p
        <5>1. /\ i + 1 \in DOMAIN completions[p]
              /\ completions'[q][i] = completions[p][i + 1]
          BY <3>1, <3>5, <4>2
        <5>2. AliveEntry(completions[p][i + 1], c)
          BY <5>1 DEF AliveOK
        <5>. QED  BY <5>1, <5>2
      <4>. QED  BY <4>1, <4>2
    <3>. QED  BY <3>2, <3>4, <3>6 DEF AliveOK
  <2>2. CASE StartNextRead(p) \/ OnRead(p) \/ NoPacket(p)
    <3>1. \A t \in Thread : at'[t] = at[t] \/ at'[t].pc \notin ClosingAt
      BY <2>2 DEF StartNextRead, OnRead, NoPacket, ThreadTypeOK, ClosingAt
    <3>. QED  BY <2>2, <3>1, AliveSame DEF StartNextRead, OnRead, NoPacket
  <2>. QED  BY <1>5, <2>1, <2>2, ConnectionAlive DEF Worker
<1>6. CASE PassBegin \/ PassEnd \/ DoPushSend \/ ClearPushSend
           \/ TryAcquireWriteLock
  <2>1. \A t \in Thread : at'[t] = at[t] \/ at'[t].pc \notin ClosingAt
    <3>1. CASE PassBegin \/ PassEnd \/ ClearPushSend
      BY <3>1 DEF PassBegin, PassEnd, ClearPushSend, ThreadTypeOK, ClosingAt
    <3>2. CASE DoPushSend
      BY <3>2 DEF DoPushSend, ThreadTypeOK, ClosingAt
    <3>3. CASE TryAcquireWriteLock
      BY <3>3 DEF TryAcquireWriteLock, Returns, ThreadTypeOK, ClosingAt
    <3>. QED  BY <1>6, <3>1, <3>2, <3>3
  <2>. QED  BY <1>6, <2>1, AliveSame DEF PassBegin, PassEnd, DoPushSend,
               ClearPushSend, TryAcquireWriteLock
<1>7. CASE SessionThread
  <2>1. CASE CheckSession
    BY <2>1 DEF CheckSession, destroy, AliveOK, In
  <2>2. CASE CheckWaiting \/ Checked \/ Update \/ Updated \/ ProcessMsg
             \/ PushSend \/ SessionUpdated
    BY <2>2, AliveSame DEF CheckWaiting, Checked, Update, Updated, ProcessMsg,
       PushSend, SessionUpdated
  <2>. QED  BY <1>7, <2>1, <2>2 DEF SessionThread
<1>8. CASE Network
  <2>1. ASSUME NEW c \in Conn, ReadCompletes(c) \/ WriteCompletes(c)
        PROVE  AliveOK'
    <3>1. iocp[c] \in Port /\ session[c] # "none"
      BY <2>1 DEF ReadCompletes, WriteCompletes, FreshOK, Fresh
    <3>2. client[c] # "gone" => open[c] /\ Failure(c) = {}
      BY <3>1 DEF AliveOK, Failure
    <3>3. CASE ReadCompletes(c)
      <4>1. PICK result \in {"ok", "deleted", "other"}, len \in Nat :
              /\ Complete(c, "read", result, len)
              /\ client[c] # "gone" => result = "ok" /\ len > 0
        BY <3>2, <3>3 DEF ReadCompletes, Failure, ClientTypeOK
      <4>. QED  BY <3>1, <3>3, <4>1, CompleteAlive DEF ReadCompletes
    <3>4. CASE WriteCompletes(c)
      <4>1. writeLen[c] \in Nat
        BY DEF OpTypeOK
      <4>2. PICK result \in {"ok", "deleted", "other"}, len \in Nat :
              /\ Complete(c, "write", result, len)
              /\ client[c] # "gone" => result = "ok"
        <5>1. CASE \E k \in 1..writeLen[c] : Complete(c, "write", "ok", k)
          BY <4>1, <5>1
        <5>2. CASE \E f \in Failure(c) : Complete(c, "write", f, 0)
          BY <3>2, <5>2 DEF Failure
        <5>. QED  BY <3>4, <5>1, <5>2 DEF WriteCompletes
      <4>. QED  BY <3>1, <3>4, <4>2, CompleteAlive DEF WriteCompletes
    <3>. QED  BY <2>1, <3>3, <3>4
  <2>. QED  BY <1>8, <2>1 DEF Network
<1>. QED  BY <1>1, <1>2, <1>3, <1>4, <1>5, <1>6, <1>7, <1>8
          DEF Next, Listener, Push

-----------------------------------------------------------------------------
(* Every request is answered once.                                         *)

\* The lengths of what is queued for c, and of what the threads have in hand.
QueuedSet(c, op) == {r.len : r \in {q \in Queued : q.op = op /\ q.conn = c}}
HeldSet(c, pcs) == {at[t].len : t \in {u \in Thread : In(u, c, pcs)}}
ReadHeld == {"data", "onRead"}
WriteHeld == {"remove"}

\* What became of the requests of c.
Balance(c) ==
  requests[c] + QueuedLen(c, "read") + HeldLen(c, ReadHeld)
  + packetList_[c] - (IF spc = "notify" /\ scur = c THEN 1 ELSE 0)
  + sendBuffer_[c] - QueuedLen(c, "write") - HeldLen(c, WriteHeld)
  + answers[c] + received[c]

\* The one element of a set.
LEMMA TheOnlyOf ==
  /\ TheOnly({}) = 0
  /\ \A x : TheOnly({x}) = x
  /\ \A S : S \subseteq Nat => TheOnly(S) \in Nat
  BY DEF TheOnly

\* The elements of the set of lengths queued, before and after a step.
LEMMA QueuedElements ==
  ASSUME NEW c, NEW op, NEW x
  PROVE  /\ x \in QueuedSet(c, op) <=>
              \E p \in Port : \E i \in DOMAIN completions[p] :
                /\ completions[p][i].op = op /\ completions[p][i].conn = c
                /\ x = completions[p][i].len
         /\ x \in QueuedSet(c, op)' <=>
              \E p \in Port : \E i \in DOMAIN completions'[p] :
                /\ completions'[p][i].op = op /\ completions'[p][i].conn = c
                /\ x = completions'[p][i].len
  BY DEF QueuedSet, Queued

\* At most one completion of a kind is queued for a connection.
LEMMA QueuedOnce ==
  ASSUME IInv, NEW c \in Conn, NEW op \in {"read", "write"}
  PROVE  /\ op = "read" /\ readOp[c] # "queued" => QueuedSet(c, op) = {}
         /\ op = "write" /\ writeOp[c] # "queued" => QueuedSet(c, op) = {}
         /\ \A p \in Port : \A i \in DOMAIN completions[p] :
              completions[p][i].op = op /\ completions[p][i].conn = c
                => QueuedSet(c, op) = {completions[p][i].len}
<1>1. ASSUME NEW p \in Port, NEW i \in DOMAIN completions[p],
             completions[p][i].op = op, completions[p][i].conn = c,
             NEW q \in Port, NEW j \in DOMAIN completions[q],
             completions[q][j].op = op, completions[q][j].conn = c
      PROVE  p = q /\ i = j
  BY <1>1 DEF QueueOK, EntryOK
<1>2. \A p \in Port : \A i \in DOMAIN completions[p] :
        completions[p][i].op = op /\ completions[p][i].conn = c =>
          /\ op = "read" => readOp[c] = "queued"
          /\ op = "write" => writeOp[c] = "queued"
  BY DEF QueueOK, EntryOK
<1>3. ASSUME NEW p \in Port, NEW i \in DOMAIN completions[p],
             completions[p][i].op = op, completions[p][i].conn = c
      PROVE  QueuedSet(c, op) = {completions[p][i].len}
  BY <1>1, <1>3, QueuedElements
<1>. QED  BY <1>2, <1>3, QueuedElements

\* The numbers of the balance are natural numbers.
LEMMA BalanceNat ==
  ASSUME TypeOK, NEW c \in Conn
  PROVE  /\ requests[c] \in Nat /\ answers[c] \in Nat /\ received[c] \in Nat
         /\ packetList_[c] \in Nat /\ sendBuffer_[c] \in Nat
         /\ \A op : QueuedLen(c, op) \in Nat
         /\ \A pcs : HeldLen(c, pcs) \in Nat
<1>1. ASSUME NEW op PROVE QueuedLen(c, op) \in Nat
  <2>1. QueuedSet(c, op) \subseteq Nat
    BY QueuedElements, QueuedType
  <2>. QED  BY <2>1, TheOnlyOf DEF QueuedLen, QueuedSet
<1>2. ASSUME NEW pcs PROVE HeldLen(c, pcs) \in Nat
  <2>1. HeldSet(c, pcs) \subseteq Nat
    BY DEF HeldSet, ThreadTypeOK
  <2>. QED  BY <2>1, TheOnlyOf DEF HeldLen, HeldSet
<1>. QED  BY <1>1, <1>2 DEF ClientTypeOK

\* The balance is a matter of these sets.
LEMMA BalanceOf ==
  ASSUME NEW c
  PROVE  /\ \A op : QueuedLen(c, op) = TheOnly(QueuedSet(c, op))
         /\ \A pcs : HeldLen(c, pcs) = TheOnly(HeldSet(c, pcs))
         /\ \A op : QueuedLen(c, op)' = TheOnly(QueuedSet(c, op)')
         /\ \A pcs : HeldLen(c, pcs)' = TheOnly(HeldSet(c, pcs)')
  BY DEF QueuedLen, HeldLen, QueuedSet, HeldSet, TheOnly

\* A thread goes on with what it has, or with nothing that counts.
LEMMA HeldSame ==
  ASSUME NEW c, NEW pcs, NEW t \in Thread,
         \A u \in Thread : u # t => at'[u] = at[u],
         In(t, c, pcs)' <=> In(t, c, pcs),
         In(t, c, pcs) => at'[t].len = at[t].len
  PROVE  HeldSet(c, pcs)' = HeldSet(c, pcs)
  BY DEF HeldSet, In

\* It has alone what it has.
LEMMA HeldAlone ==
  ASSUME IInv, NEW c \in Conn, NEW t \in Thread,
         NEW pcs \in {ReadHeld, WriteHeld}, In(t, c, pcs)
  PROVE  /\ HeldSet(c, pcs) = {at[t].len}
         /\ \A u \in Thread : In(u, c, pcs) => u = t
<1>1. \A u \in Thread : In(u, c, pcs) => u = t
  BY DEF ReadOK, WriteOK, Readers, Writers, In, ReadHeld, WriteHeld
<1>. QED  BY <1>1 DEF HeldSet

\* The property in these terms.
LEMMA AnsweredAs ==
  /\ AnsweredOnce <=>
       \A c \in Conn : client[c] # "gone" => Asked(c) = Balance(c)
  /\ AnsweredOnce' <=>
       \A c \in Conn : client'[c] # "gone" => Asked(c)' = Balance(c)'
  BY DEF AnsweredOnce, Balance, ReadHeld, WriteHeld

\* A step that changes nothing of the balance.
LEMMA BalanceSame ==
  ASSUME AnsweredOnce, UNCHANGED <<clientVars, bufVars>>,
         \A c \in Conn : client[c] # "gone" =>
           /\ (spc = "notify" /\ scur = c)' <=> (spc = "notify" /\ scur = c)
           /\ \A op \in {"read", "write"} :
                QueuedSet(c, op)' = QueuedSet(c, op)
           /\ \A pcs \in {ReadHeld, WriteHeld} :
                HeldSet(c, pcs)' = HeldSet(c, pcs)
  PROVE  AnsweredOnce'
<1>. SUFFICES ASSUME NEW c \in Conn, client[c] # "gone"
              PROVE  Asked(c)' = Balance(c)'
  BY AnsweredAs
<1>1. Asked(c) = Balance(c) /\ Asked(c)' = Asked(c)
  BY AnsweredAs DEF Asked
<1>2. /\ QueuedLen(c, "read")' = QueuedLen(c, "read")
      /\ QueuedLen(c, "write")' = QueuedLen(c, "write")
      /\ HeldLen(c, ReadHeld)' = HeldLen(c, ReadHeld)
      /\ HeldLen(c, WriteHeld)' = HeldLen(c, WriteHeld)
  <2>1. /\ QueuedSet(c, "read")' = QueuedSet(c, "read")
        /\ QueuedSet(c, "write")' = QueuedSet(c, "write")
        /\ HeldSet(c, ReadHeld)' = HeldSet(c, ReadHeld)
        /\ HeldSet(c, WriteHeld)' = HeldSet(c, WriteHeld)
    OBVIOUS
  <2>. QED  BY <2>1, BalanceOf
<1>. QED  BY <1>1, <1>2 DEF Balance

\* Nor does a thread that goes on with the requests and answers it has.
LEMMA ThreadBalance ==
  ASSUME AnsweredOnce,
         UNCHANGED <<clientVars, bufVars, completions, spc, scur>>,
         NEW t \in Thread, \A u \in Thread : u # t => at'[u] = at[u],
         \A c \in Conn : client[c] # "gone" =>
           \A pcs \in {ReadHeld, WriteHeld} :
             /\ In(t, c, pcs)' <=> In(t, c, pcs)
             /\ In(t, c, pcs) => at'[t].len = at[t].len
  PROVE  AnsweredOnce'
<1>1. \A c \in Conn : client[c] # "gone" =>
        \A pcs \in {ReadHeld, WriteHeld} :
          HeldSet(c, pcs)' = HeldSet(c, pcs)
  BY HeldSame
<1>2. \A c \in Conn, op \in {"read", "write"} :
        QueuedSet(c, op)' = QueuedSet(c, op)
  BY DEF QueuedSet, Queued
<1>. QED  BY <1>1, <1>2, BalanceSame

\* A client asks, or takes its answers.
LEMMA ClientBalance ==
  ASSUME IInv, AnsweredOnce, Client, Clients PROVE AnsweredOnce'
<1>. USE DEF Clients
<1>. SUFFICES ASSUME NEW c \in Conn, client'[c] # "gone"
              PROVE  Asked(c)' = Balance(c)'
  BY AnsweredAs
<1>1. /\ \A op : QueuedLen(c, op)' = QueuedLen(c, op)
      /\ \A pcs : HeldLen(c, pcs)' = HeldLen(c, pcs)
  BY DEF QueuedLen, Queued, HeldLen, In
<1>2. client[c] # "gone"
  BY DEF Client, ClientStep, Connect, SendA, SendB, SendRequest, Receive,
     Killed, ClientTypeOK
<1>3. Asked(c) = Balance(c)
  BY <1>2, AnsweredAs
<1>4. /\ requests[c] \in Nat /\ answers[c] \in Nat /\ received[c] \in Nat
      /\ packetList_[c] \in Nat /\ sendBuffer_[c] \in Nat /\ rounds[c] \in Nat
      /\ QueuedLen(c, "read") \in Nat /\ QueuedLen(c, "write") \in Nat
      /\ HeldLen(c, ReadHeld) \in Nat /\ HeldLen(c, WriteHeld) \in Nat
  BY BalanceNat DEF ClientTypeOK
<1>5. Asked(c)' - Asked(c) =
        (requests'[c] + answers'[c] + received'[c])
        - (requests[c] + answers[c] + received[c])
  <2>1. PICK d \in Conn : ClientStep(d) \/ Killed(d)
    BY DEF Client
  <2>2. CASE d # c
    <3>1. /\ client'[c] = client[c] /\ rounds'[c] = rounds[c]
          /\ requests'[c] = requests[c] /\ answers'[c] = answers[c]
          /\ received'[c] = received[c]
      BY <2>1, <2>2 DEF ClientStep, Connect, SendA, SendB, SendRequest, Receive,
         Killed, ClientTypeOK
    <3>. QED  BY <3>1, <1>4 DEF Asked
  <2>3. CASE d = c
    <3>1. CASE Connect(c)
      BY <3>1, <1>4 DEF Connect, ClientTypeOK, Asked
    <3>2. CASE SendA(c)
      BY <3>2, <1>4 DEF SendA, SendRequest, ClientTypeOK, Asked
    <3>3. CASE SendB(c)
      BY <3>3, <1>4 DEF SendB, SendRequest, ClientTypeOK, Asked
    <3>4. CASE Receive(c)
      BY <3>4, <1>4 DEF Receive, ClientTypeOK, Asked
    <3>5. ~Killed(c)
      BY DEF Killed, ClientTypeOK
    <3>. QED  BY <2>1, <2>3, <3>1, <3>2, <3>3, <3>4, <3>5 DEF ClientStep
  <2>. QED  BY <2>2, <2>3
<1>6. /\ requests'[c] \in Nat /\ answers'[c] \in Nat /\ received'[c] \in Nat
      /\ Asked(c)' \in Nat /\ Asked(c) \in Nat
  <2>1. ClientTypeOK'
    BY ClientIInv
  <2>. QED  BY <2>1 DEF ClientTypeOK, Asked
<1>7. Balance(c)' - Balance(c) =
        (requests'[c] + answers'[c] + received'[c])
        - (requests[c] + answers[c] + received[c])
  <2>. DEFINE n == IF spc = "notify" /\ scur = c THEN 1 ELSE 0
  <2>1. n \in Nat /\ n' = n
    OBVIOUS
  <2>2. Balance(c) = requests[c] + QueuedLen(c, "read") + HeldLen(c, ReadHeld)
          + packetList_[c] - n + sendBuffer_[c] - QueuedLen(c, "write")
          - HeldLen(c, WriteHeld) + answers[c] + received[c]
    BY DEF Balance
  <2>3. Balance(c)' =
          requests'[c] + QueuedLen(c, "read") + HeldLen(c, ReadHeld)
          + packetList_[c] - n + sendBuffer_[c] - QueuedLen(c, "write")
          - HeldLen(c, WriteHeld) + answers'[c] + received'[c]
    BY <1>1 DEF Balance
  <2>. HIDE DEF n, Clients
  <2>. QED  BY <1>4, <1>6, <2>1, <2>2, <2>3
<1>8. Balance(c)' \in Int
  BY <1>1, <1>4, <1>6 DEF Balance
<1>. QED  BY <1>3, <1>5, <1>6, <1>7, <1>8

\* A step that changes nothing of the balance of c.
LEMMA BalanceSameAt ==
  ASSUME AnsweredOnce, NEW c \in Conn, client[c] # "gone",
         client'[c] = client[c], rounds'[c] = rounds[c],
         requests'[c] = requests[c], answers'[c] = answers[c],
         received'[c] = received[c], packetList_'[c] = packetList_[c],
         sendBuffer_'[c] = sendBuffer_[c],
         (spc = "notify" /\ scur = c)' <=> (spc = "notify" /\ scur = c),
         QueuedSet(c, "read")' = QueuedSet(c, "read"),
         QueuedSet(c, "write")' = QueuedSet(c, "write"),
         HeldSet(c, ReadHeld)' = HeldSet(c, ReadHeld),
         HeldSet(c, WriteHeld)' = HeldSet(c, WriteHeld)
  PROVE  Asked(c)' = Balance(c)'
<1>1. Asked(c) = Balance(c) /\ Asked(c)' = Asked(c)
  BY AnsweredAs DEF Asked
<1>2. /\ QueuedLen(c, "read")' = QueuedLen(c, "read")
      /\ QueuedLen(c, "write")' = QueuedLen(c, "write")
      /\ HeldLen(c, ReadHeld)' = HeldLen(c, ReadHeld)
      /\ HeldLen(c, WriteHeld)' = HeldLen(c, WriteHeld)
  BY BalanceOf
<1>. QED  BY <1>1, <1>2 DEF Balance

\* What the client has leaves the send buffer and the hand of the worker.
LEMMA RemoveBalance ==
  ASSUME IInv, AnsweredOnce, NEW t \in Thread, RemoveSendData(t)
  PROVE  AnsweredOnce'
<1>. USE DEF RemoveSendData
<1>1. PICK c \in Conn : c = at[t].conn
  BY InHand
<1>2. /\ at'[t].pc = "remain" /\ at'[t].conn = c
      /\ \A u \in Thread : u # t => at'[u] = at[u]
  BY <1>1 DEF ThreadTypeOK
<1>3. /\ at[t].len \in Nat /\ at[t].len <= sendBuffer_[c]
      /\ sendBuffer_'[c] = sendBuffer_[c] - at[t].len
      /\ \A d \in Conn : d # c => sendBuffer_'[d] = sendBuffer_[d]
  BY <1>1 DEF ThreadTypeOK, WriteOK, In
<1>4. \A d \in Conn, op \in {"read", "write"} :
        QueuedSet(d, op)' = QueuedSet(d, op)
  BY DEF QueuedSet, Queued
<1>5. \A d \in Conn :
        /\ HeldSet(d, ReadHeld)' = HeldSet(d, ReadHeld)
        /\ d # c => HeldSet(d, WriteHeld)' = HeldSet(d, WriteHeld)
  <2>. SUFFICES ASSUME NEW d \in Conn
                PROVE  /\ HeldSet(d, ReadHeld)' = HeldSet(d, ReadHeld)
                       /\ d # c =>
                            HeldSet(d, WriteHeld)' = HeldSet(d, WriteHeld)
    OBVIOUS
  <2>1. ~In(t, d, ReadHeld) /\ ~In(t, d, ReadHeld)'
    BY <1>1, <1>2 DEF In, ReadHeld
  <2>2. d # c => ~In(t, d, WriteHeld) /\ ~In(t, d, WriteHeld)'
    BY <1>1, <1>2 DEF In
  <2>3. HeldSet(d, ReadHeld)' = HeldSet(d, ReadHeld)
    BY <1>2, <2>1, HeldSame
  <2>4. d # c => HeldSet(d, WriteHeld)' = HeldSet(d, WriteHeld)
    BY <1>2, <2>2, HeldSame
  <2>. QED  BY <2>3, <2>4
<1>6. HeldSet(c, WriteHeld) = {at[t].len} /\ HeldSet(c, WriteHeld)' = {}
  <2>1. In(t, c, WriteHeld)
    BY <1>1 DEF In, WriteHeld
  <2>2. /\ HeldSet(c, WriteHeld) = {at[t].len}
        /\ \A u \in Thread : In(u, c, WriteHeld) => u = t
    BY <2>1, HeldAlone
  <2>. QED  BY <1>2, <2>2 DEF HeldSet, In, WriteHeld
<1>. SUFFICES ASSUME NEW d \in Conn, client[d] # "gone"
              PROVE  Asked(d)' = Balance(d)'
  BY AnsweredAs
<1>7. CASE d # c
  BY <1>3, <1>4, <1>5, <1>7, BalanceSameAt
<1>8. CASE d = c
  <2>1. Asked(c) = Balance(c) /\ Asked(c)' = Asked(c)
    BY <1>8, AnsweredAs DEF Asked
  <2>2. /\ QueuedLen(c, "read")' = QueuedLen(c, "read")
        /\ QueuedLen(c, "write")' = QueuedLen(c, "write")
        /\ HeldLen(c, ReadHeld)' = HeldLen(c, ReadHeld)
        /\ HeldLen(c, WriteHeld) = at[t].len /\ HeldLen(c, WriteHeld)' = 0
    <3>1. /\ QueuedSet(c, "read")' = QueuedSet(c, "read")
          /\ QueuedSet(c, "write")' = QueuedSet(c, "write")
          /\ HeldSet(c, ReadHeld)' = HeldSet(c, ReadHeld)
      BY <1>4, <1>5
    <3>2. /\ HeldLen(c, WriteHeld) = TheOnly({at[t].len})
          /\ HeldLen(c, WriteHeld)' = TheOnly({})
      BY <1>6, BalanceOf
    <3>3. /\ QueuedLen(c, "read")' = QueuedLen(c, "read")
          /\ QueuedLen(c, "write")' = QueuedLen(c, "write")
          /\ HeldLen(c, ReadHeld)' = HeldLen(c, ReadHeld)
      BY <3>1, BalanceOf
    <3>. QED  BY <3>2, <3>3, TheOnlyOf
  <2>3. /\ requests[c] \in Nat /\ answers[c] \in Nat /\ received[c] \in Nat
        /\ packetList_[c] \in Nat /\ sendBuffer_[c] \in Nat
        /\ QueuedLen(c, "read") \in Nat /\ QueuedLen(c, "write") \in Nat
        /\ HeldLen(c, ReadHeld) \in Nat
    BY BalanceNat
  <2>. QED  BY <1>3, <1>8, <2>1, <2>2, <2>3 DEF Balance
<1>. QED  BY <1>7, <1>8

\* The other operations of a connection whose client is there.
LEMMA ConnectionBalance ==
  ASSUME IInv, AliveOK, AnsweredOnce, NEW t \in Thread, Connection(t)
  PROVE  AnsweredOnce'
<1>1. CASE RemoveSendData(t)
  BY <1>1, RemoveBalance
<1>2. CASE ~RemoveSendData(t)
  <2>1. /\ at[t].pc \notin ReadHeld \cup WriteHeld
        /\ UNCHANGED <<clientVars, bufVars, completions, spc, scur>>
    BY <1>2 DEF Connection, WSARecv, RemainSendData, ReleaseWriteLock,
       WSASend, CloseSocket, RemoveConnection, Kill, ReadHeld, WriteHeld
  <2>2. \/ \E pc \in {"closesocket", "remain", "release", "send", "erase",
                      "kill"} : Goes(t, pc)
        \/ \E result \in BOOLEAN : Returns(t, result)
    BY DEF Connection, WSARecv, RemoveSendData, RemainSendData,
       ReleaseWriteLock, WSASend, CloseSocket, RemoveConnection, Kill
  <2>3. /\ at'[t].pc \notin ReadHeld \cup WriteHeld
        /\ \A u \in Thread : u # t => at'[u] = at[u]
    BY <2>2 DEF Returns, ThreadTypeOK, ReadHeld, WriteHeld
  <2>. QED  BY <2>1, <2>3, ThreadBalance DEF In
<1>. QED  BY <1>1, <1>2

\* A completion goes from the port to the hand of the worker.
LEMMA GetQueuedBalance ==
  ASSUME IInv, IInv', AliveOK, AnsweredOnce, NEW p \in Port,
         GetQueuedCompletionStatus(p)
  PROVE  AnsweredOnce'
<1>. USE ThreadNames
<1>1. PICK r \in Completion : /\ 1 \in DOMAIN completions[p]
                              /\ r = completions[p][1]
                              /\ r = Head(completions[p])
  <2>1. completions[p] \in Seq(Completion) /\ completions[p] # <<>>
    BY DEF GetQueuedCompletionStatus, OpTypeOK
  <2>2. 1 \in DOMAIN completions[p] /\ Head(completions[p]) = completions[p][1]
    BY <2>1
  <2>. QED  BY <2>2, QueuedType
<1>2. r.conn \in Conn /\ r.op \in {"read", "write"} /\ r.len \in Nat
  BY DEF Completion
<1>3. /\ \A u \in Thread : u # p => at'[u] = at[u]
      /\ at[p].pc = "idle" /\ at'[p].pc = Handler(r)
      /\ Handler(r) # "idle" => at'[p].conn = r.conn /\ at'[p].len = r.len
      /\ UNCHANGED <<clientVars, bufVars, spc, scur>>
  BY <1>1 DEF GetQueuedCompletionStatus, ThreadTypeOK
<1>4. \A d \in Conn, op \in {"read", "write"} :
        ~(d = r.conn /\ op = r.op) => QueuedSet(d, op)' = QueuedSet(d, op)
  <2>1. /\ completions'[p] = Tail(completions[p])
        /\ \A q \in Port : q # p => completions'[q] = completions[q]
    BY DEF GetQueuedCompletionStatus, OpTypeOK
  <2>2. /\ \A i \in DOMAIN completions'[p] :
             /\ i + 1 \in DOMAIN completions[p]
             /\ completions'[p][i] = completions[p][i + 1]
        /\ \A i \in DOMAIN completions[p] : i # 1 =>
             /\ i - 1 \in DOMAIN completions'[p]
             /\ completions'[p][i - 1] = completions[p][i]
    <3>1. completions[p] \in Seq(Completion) /\ completions[p] # <<>>
      BY DEF GetQueuedCompletionStatus, OpTypeOK
    <3>2. PICK s \in Seq(Completion) : s = completions[p] /\ s # <<>>
      BY <3>1
    <3>3. /\ Len(s) \in Nat /\ DOMAIN s = 1..Len(s)
          /\ DOMAIN Tail(s) = 1..(Len(s) - 1)
          /\ \A i \in 1..(Len(s) - 1) : Tail(s)[i] = s[i + 1]
      BY ONLY <3>2
    <3>4. /\ \A i \in DOMAIN Tail(s) :
               i + 1 \in DOMAIN s /\ Tail(s)[i] = s[i + 1]
          /\ \A i \in DOMAIN s : i # 1 =>
               i - 1 \in DOMAIN Tail(s) /\ Tail(s)[i - 1] = s[i]
      BY ONLY <3>3
    <3>. QED  BY <2>1, <3>2, <3>4
  <2>. SUFFICES ASSUME NEW d \in Conn, NEW op \in {"read", "write"},
                       ~(d = r.conn /\ op = r.op)
                PROVE  QueuedSet(d, op)' = QueuedSet(d, op)
    OBVIOUS
  <2>3. ASSUME NEW x \in QueuedSet(d, op) PROVE x \in QueuedSet(d, op)'
    <3>1. PICK q \in Port : \E i \in DOMAIN completions[q] :
            /\ completions[q][i].op = op /\ completions[q][i].conn = d
            /\ x = completions[q][i].len
      BY <2>3, QueuedElements
    <3>2. PICK i \in DOMAIN completions[q] :
            /\ completions[q][i].op = op /\ completions[q][i].conn = d
            /\ x = completions[q][i].len
      BY <3>1
    <3>3. PICK j \in DOMAIN completions'[q] :
            completions'[q][j] = completions[q][i]
      BY <1>1, <2>1, <2>2, <3>2
    <3>. QED  BY <3>2, <3>3, QueuedElements
  <2>4. ASSUME NEW x \in QueuedSet(d, op)' PROVE x \in QueuedSet(d, op)
    <3>1. PICK q \in Port : \E i \in DOMAIN completions'[q] :
            /\ completions'[q][i].op = op /\ completions'[q][i].conn = d
            /\ x = completions'[q][i].len
      BY <2>4, QueuedElements
    <3>2. PICK i \in DOMAIN completions'[q] :
            /\ completions'[q][i].op = op /\ completions'[q][i].conn = d
            /\ x = completions'[q][i].len
      BY <3>1
    <3>3. PICK j \in DOMAIN completions[q] :
            completions'[q][i] = completions[q][j]
      <4>1. CASE q = p
        BY <2>2, <3>2, <4>1
      <4>2. CASE q # p
        BY <2>1, <3>2, <4>2
      <4>. QED  BY <4>1, <4>2
    <3>. QED  BY <3>2, <3>3, QueuedElements
  <2>. QED  BY <2>3, <2>4
<1>. SUFFICES ASSUME NEW d \in Conn, client[d] # "gone"
              PROVE  Asked(d)' = Balance(d)'
  BY <1>3, AnsweredAs
<1>5. CASE d # r.conn
  <2>1. \A pcs \in {ReadHeld, WriteHeld} :
          ~In(p, d, pcs) /\ ~In(p, d, pcs)'
    BY <1>3, <1>5, HandlerCases DEF In, ReadHeld, WriteHeld
  <2>2. /\ HeldSet(d, ReadHeld)' = HeldSet(d, ReadHeld)
        /\ HeldSet(d, WriteHeld)' = HeldSet(d, WriteHeld)
    BY <1>3, <2>1, HeldSame
  <2>. QED  BY <1>3, <1>4, <1>5, <2>2, BalanceSameAt
<1>6. CASE d = r.conn
  <2>. DEFINE pcs == IF r.op = "read" THEN ReadHeld ELSE WriteHeld
              other == IF r.op = "read" THEN WriteHeld ELSE ReadHeld
              otherOp == IF r.op = "read" THEN "write" ELSE "read"
  <2>1. QueuedSet(d, r.op) = {r.len} /\ QueuedSet(d, r.op)' = {}
    <3>1. QueuedSet(d, r.op) = {r.len}
      BY <1>1, <1>2, <1>6, QueuedOnce
    <3>2. /\ r.op = "read" => readOp'[d] = "none"
          /\ r.op = "write" => writeOp'[d] = "none"
      BY <1>1, <1>2, <1>6 DEF GetQueuedCompletionStatus, OpTypeOK
    <3>3. QueuedSet(d, r.op)' = {}
      <4>1. \A q \in Port : \A i \in DOMAIN completions'[q] :
              ~(completions'[q][i].op = r.op /\ completions'[q][i].conn = d)
        BY <1>2, <3>2 DEF QueueOK, EntryOK
      <4>. QED  BY <4>1, QueuedElements
    <3>. QED  BY <3>1, <3>3
  <2>2. AliveEntry(r, d)
    BY <1>1 DEF AliveOK
  <2>3. Handler(r) = IF r.op = "read" THEN "data" ELSE "remove"
    BY <1>2, <1>6, <2>2 DEF AliveEntry, Handler
  <2>4. HeldSet(d, other)' = HeldSet(d, other)
    <3>1. ~In(p, d, other) /\ ~In(p, d, other)'
      BY <1>2, <1>3, <2>3 DEF In, ReadHeld, WriteHeld
    <3>. QED  BY <1>3, <3>1, HeldSame
  <2>5. HeldSet(d, pcs) = {} /\ HeldSet(d, pcs)' = {r.len}
    <3>1. /\ r.op = "read" => Readers(d) = {}
          /\ r.op = "write" => Writers(d) = {}
      BY <1>1, <1>2, <1>6 DEF QueueOK, EntryOK, ReadOK, WriteOK
    <3>2. \A u \in Thread : ~In(u, d, pcs)
      BY <1>2, <3>1 DEF Readers, Writers, In, ReadHeld, WriteHeld
    <3>3. \A u \in Thread : In(u, d, pcs)' <=> u = p
      BY <1>2, <1>3, <1>6, <2>3, <3>2 DEF In, ReadHeld, WriteHeld
    <3>. QED  BY <1>3, <1>2, <2>3, <3>2, <3>3 DEF HeldSet
  <2>6. QueuedSet(d, otherOp)' = QueuedSet(d, otherOp)
    BY <1>2, <1>4
  <2>7. /\ QueuedLen(d, r.op) = r.len /\ QueuedLen(d, r.op)' = 0
        /\ HeldLen(d, pcs) = 0 /\ HeldLen(d, pcs)' = r.len
        /\ QueuedLen(d, otherOp)' = QueuedLen(d, otherOp)
        /\ HeldLen(d, other)' = HeldLen(d, other)
    <3>. HIDE DEF pcs, other, otherOp
    <3>1. /\ QueuedLen(d, r.op) = TheOnly({r.len})
          /\ QueuedLen(d, r.op)' = TheOnly({})
          /\ HeldLen(d, pcs) = TheOnly({})
          /\ HeldLen(d, pcs)' = TheOnly({r.len})
      BY <2>1, <2>5, BalanceOf
    <3>2. /\ QueuedLen(d, otherOp)' = QueuedLen(d, otherOp)
          /\ HeldLen(d, other)' = HeldLen(d, other)
      BY <2>4, <2>6, BalanceOf
    <3>. QED  BY <3>1, <3>2, TheOnlyOf
  <2>8. Asked(d) = Balance(d) /\ Asked(d)' = Asked(d)
    BY <1>3, AnsweredAs DEF Asked
  <2>9. /\ requests[d] \in Nat /\ answers[d] \in Nat /\ received[d] \in Nat
        /\ packetList_[d] \in Nat /\ sendBuffer_[d] \in Nat
        /\ QueuedLen(d, otherOp) \in Nat /\ HeldLen(d, other) \in Nat
    BY BalanceNat
  <2>10. CASE r.op = "read"
    BY <1>2, <1>3, <2>7, <2>8, <2>9, <2>10 DEF Balance
  <2>11. CASE r.op = "write"
    BY <1>2, <1>3, <2>7, <2>8, <2>9, <2>11 DEF Balance
  <2>. QED  BY <1>2, <2>10, <2>11
<1>. QED  BY <1>5, <1>6

\* The other steps of a worker.
LEMMA WorkerBalance ==
  ASSUME IInv, IInv', AliveOK, AnsweredOnce, NEW p \in Port, Worker(p)
  PROVE  AnsweredOnce'
<1>. USE ThreadNames
<1>1. CASE GetQueuedCompletionStatus(p)
  BY <1>1, GetQueuedBalance
<1>2. CASE Connection(p)
  BY <1>2, ConnectionBalance
<1>3. CASE StartNextRead(p)
  <2>. USE <1>3 DEF StartNextRead
  <2>1. \A c \in Conn : client[c] # "gone" =>
          (at[p].conn = c => session[c] = "active")
    BY InHand DEF AliveOK
  <2>2. /\ \A u \in Thread : u # p => at'[u] = at[u]
        /\ at'[p].conn = at[p].conn /\ at'[p].len = at[p].len
        /\ session[at[p].conn] = "active" => at'[p].pc = "onRead"
        /\ at'[p].pc \in {"onRead", "recv"}
    BY DEF ThreadTypeOK
  <2>3. \A c \in Conn : client[c] # "gone" =>
          \A pcs \in {ReadHeld, WriteHeld} :
            /\ In(p, c, pcs)' <=> In(p, c, pcs)
            /\ In(p, c, pcs) => at'[p].len = at[p].len
    BY <2>1, <2>2 DEF In, ReadHeld, WriteHeld
  <2>. QED  BY <2>2, <2>3, ThreadBalance
<1>4. CASE OnRead(p)
  <2>. USE <1>4 DEF OnRead, pushPacket
  <2>1. PICK c \in Conn : c = at[p].conn
    BY InHand
  <2>2. /\ \A u \in Thread : u # p => at'[u] = at[u]
        /\ at'[p].conn = c /\ at'[p].pc = "onRead"
        /\ at[p].len \in Nat \ {0} /\ at'[p].len = at[p].len - 1
    BY <2>1 DEF ThreadTypeOK
  <2>3. \A d \in Conn, op \in {"read", "write"} :
          QueuedSet(d, op)' = QueuedSet(d, op)
    BY DEF QueuedSet, Queued
  <2>4. \A d \in Conn :
          /\ HeldSet(d, WriteHeld)' = HeldSet(d, WriteHeld)
          /\ d # c => HeldSet(d, ReadHeld)' = HeldSet(d, ReadHeld)
    <3>. SUFFICES ASSUME NEW d \in Conn
                  PROVE  /\ HeldSet(d, WriteHeld)' = HeldSet(d, WriteHeld)
                         /\ d # c =>
                              HeldSet(d, ReadHeld)' = HeldSet(d, ReadHeld)
      OBVIOUS
    <3>1. ~In(p, d, WriteHeld) /\ ~In(p, d, WriteHeld)'
      BY <2>1, <2>2 DEF In, WriteHeld
    <3>2. d # c => ~In(p, d, ReadHeld) /\ ~In(p, d, ReadHeld)'
      BY <2>1, <2>2 DEF In
    <3>3. HeldSet(d, WriteHeld)' = HeldSet(d, WriteHeld)
      BY <2>2, <3>1, HeldSame
    <3>4. d # c => HeldSet(d, ReadHeld)' = HeldSet(d, ReadHeld)
      BY <2>2, <3>2, HeldSame
    <3>. QED  BY <3>3, <3>4
  <2>5. /\ HeldSet(c, ReadHeld) = {at[p].len}
        /\ HeldSet(c, ReadHeld)' = {at'[p].len}
    <3>1. In(p, c, ReadHeld)
      BY <2>1 DEF In, ReadHeld
    <3>2. /\ HeldSet(c, ReadHeld) = {at[p].len}
          /\ \A u \in Thread : In(u, c, ReadHeld) => u = p
      BY <3>1, HeldAlone
    <3>3. \A u \in Thread : In(u, c, ReadHeld)' <=> u = p
      BY <2>2, <3>2 DEF In, ReadHeld
    <3>4. HeldSet(c, ReadHeld)' = {at'[p].len}
      <4>1. {u \in Thread : In(u, c, ReadHeld)'} = {p}
        BY <3>3
      <4>. QED  BY <4>1 DEF HeldSet
    <3>. QED  BY <3>2, <3>4
  <2>6. /\ packetList_'[c] = packetList_[c] + 1
        /\ \A d \in Conn : d # c => packetList_'[d] = packetList_[d]
    BY <2>1
  <2>. SUFFICES ASSUME NEW d \in Conn, client[d] # "gone"
                PROVE  Asked(d)' = Balance(d)'
    BY AnsweredAs
  <2>7. CASE d # c
    BY <2>3, <2>4, <2>6, <2>7, BalanceSameAt
  <2>8. CASE d = c
    <3>1. Asked(c) = Balance(c) /\ Asked(c)' = Asked(c)
      BY <2>8, AnsweredAs DEF Asked
    <3>2. /\ QueuedLen(c, "read")' = QueuedLen(c, "read")
          /\ QueuedLen(c, "write")' = QueuedLen(c, "write")
          /\ HeldLen(c, WriteHeld)' = HeldLen(c, WriteHeld)
      <4>1. /\ QueuedSet(c, "read")' = QueuedSet(c, "read")
            /\ QueuedSet(c, "write")' = QueuedSet(c, "write")
            /\ HeldSet(c, WriteHeld)' = HeldSet(c, WriteHeld)
        BY <2>3, <2>4
      <4>. QED  BY <4>1, BalanceOf
    <3>3. HeldLen(c, ReadHeld) = at[p].len /\ HeldLen(c, ReadHeld)' = at'[p].len
      <4>1. /\ HeldLen(c, ReadHeld) = TheOnly({at[p].len})
            /\ HeldLen(c, ReadHeld)' = TheOnly({at'[p].len})
        BY ONLY <2>5, BalanceOf
      <4>. QED  BY <4>1, TheOnlyOf
    <3>4. /\ requests[c] \in Nat /\ answers[c] \in Nat /\ received[c] \in Nat
          /\ packetList_[c] \in Nat /\ sendBuffer_[c] \in Nat
          /\ QueuedLen(c, "read") \in Nat /\ QueuedLen(c, "write") \in Nat
          /\ HeldLen(c, WriteHeld) \in Nat
      BY BalanceNat
    <3>. QED  BY <2>2, <2>6, <2>8, <3>1, <3>2, <3>3, <3>4 DEF Balance
  <2>. QED  BY <2>7, <2>8
<1>5. CASE NoPacket(p)
  <2>. USE <1>5 DEF NoPacket
  <2>1. PICK c \in Conn : c = at[p].conn
    BY InHand
  <2>2. /\ \A u \in Thread : u # p => at'[u] = at[u]
        /\ at'[p].conn = c /\ at'[p].pc = "recv" /\ at[p].len = 0
    BY <2>1 DEF ThreadTypeOK
  <2>3. \A d \in Conn, op \in {"read", "write"} :
          QueuedSet(d, op)' = QueuedSet(d, op)
    BY DEF QueuedSet, Queued
  <2>. SUFFICES ASSUME NEW d \in Conn, client[d] # "gone"
                PROVE  Asked(d)' = Balance(d)'
    BY AnsweredAs
  <2>4. ~In(p, d, WriteHeld) /\ ~In(p, d, WriteHeld)'
    BY <2>1, <2>2 DEF In, WriteHeld
  <2>5. HeldSet(d, WriteHeld)' = HeldSet(d, WriteHeld)
    BY <2>2, <2>4, HeldSame
  <2>6. CASE d # c
    <3>1. ~In(p, d, ReadHeld) /\ ~In(p, d, ReadHeld)'
      BY <2>1, <2>2, <2>6 DEF In
    <3>2. HeldSet(d, ReadHeld)' = HeldSet(d, ReadHeld)
      BY <2>2, <3>1, HeldSame
    <3>. QED  BY <2>3, <2>5, <3>2, BalanceSameAt
  <2>7. CASE d = c
    <3>1. /\ HeldSet(c, ReadHeld) = {0}
          /\ \A u \in Thread : In(u, c, ReadHeld) => u = p
      <4>1. In(p, c, ReadHeld)
        BY <2>1 DEF In, ReadHeld
      <4>. QED  BY <4>1, <2>2, HeldAlone
    <3>2. HeldSet(c, ReadHeld)' = {}
      BY <2>2, <3>1 DEF HeldSet, In, ReadHeld
    <3>3. HeldLen(c, ReadHeld) = 0 /\ HeldLen(c, ReadHeld)' = 0
      <4>1. /\ HeldLen(c, ReadHeld) = TheOnly({0})
            /\ HeldLen(c, ReadHeld)' = TheOnly({})
        BY <3>1, <3>2, BalanceOf
      <4>. QED  BY <4>1, TheOnlyOf
    <3>4. /\ QueuedLen(c, "read")' = QueuedLen(c, "read")
          /\ QueuedLen(c, "write")' = QueuedLen(c, "write")
          /\ HeldLen(c, WriteHeld)' = HeldLen(c, WriteHeld)
      <4>1. /\ QueuedSet(c, "read")' = QueuedSet(c, "read")
            /\ QueuedSet(c, "write")' = QueuedSet(c, "write")
            /\ HeldSet(c, WriteHeld)' = HeldSet(c, WriteHeld)
        BY <2>3, <2>5, <2>7
      <4>. QED  BY <4>1, BalanceOf
    <3>5. Asked(c) = Balance(c) /\ Asked(c)' = Asked(c)
      BY <2>7, AnsweredAs DEF Asked
    <3>. QED  BY <2>7, <3>3, <3>4, <3>5 DEF Balance
  <2>. QED  BY <2>6, <2>7
<1>. QED  BY <1>1, <1>2, <1>3, <1>4, <1>5 DEF Worker

\* The listener and the push thread have no requests or answers in hand but in
\* an operation.
LEMMA ListenerPushBalance ==
  ASSUME IInv, AliveOK, AnsweredOnce, Listener \/ Push
  PROVE  AnsweredOnce'
<1>. USE ThreadNames
<1>1. CASE Listener
  <2>1. /\ \A u \in Thread : u # listener => at'[u] = at[u]
        /\ at[listener].pc \notin ReadHeld \cup WriteHeld
        /\ at'[listener].pc \notin ReadHeld \cup WriteHeld
        /\ UNCHANGED <<clientVars, bufVars, completions, spc, scur>>
    BY <1>1 DEF Listener, Accept, AddConnection, AddSession, ThreadTypeOK,
       ReadHeld, WriteHeld
  <2>. QED  BY <2>1, ThreadBalance DEF In
<1>2. CASE Connection(push)
  BY <1>2, ConnectionBalance
<1>3. CASE PassBegin \/ PassEnd \/ DoPushSend \/ ClearPushSend
           \/ TryAcquireWriteLock
  <2>1. /\ \A u \in Thread : u # push => at'[u] = at[u]
        /\ at[push].pc \notin ReadHeld \cup WriteHeld
        /\ at'[push].pc \notin ReadHeld \cup WriteHeld
    <3>1. CASE PassBegin \/ PassEnd \/ ClearPushSend
      BY <3>1 DEF PassBegin, PassEnd, ClearPushSend, ThreadTypeOK, ReadHeld,
         WriteHeld
    <3>2. CASE DoPushSend
      BY <3>2 DEF DoPushSend, ThreadTypeOK, ReadHeld, WriteHeld
    <3>3. CASE TryAcquireWriteLock
      BY <3>3 DEF TryAcquireWriteLock, Returns, ThreadTypeOK, ReadHeld,
         WriteHeld
    <3>. QED  BY <1>3, <3>1, <3>2, <3>3
  <2>2. UNCHANGED <<clientVars, bufVars, completions, spc, scur>>
    BY <1>3 DEF PassBegin, PassEnd, DoPushSend, ClearPushSend,
       TryAcquireWriteLock
  <2>. QED  BY <2>1, <2>2, ThreadBalance DEF In
<1>. QED  BY <1>1, <1>2, <1>3 DEF Push

\* The session thread turns a request into an answer.
LEMMA SessionBalance ==
  ASSUME IInv, AnsweredOnce, SessionThread PROVE AnsweredOnce'
<1>1. UNCHANGED <<clientVars, completions, at>>
  BY DEF SessionThread, CheckWaiting, CheckSession, Checked, Update, Updated,
     ProcessMsg, PushSend, SessionUpdated
<1>2. /\ \A c, op : QueuedSet(c, op)' = QueuedSet(c, op)
      /\ \A c, pcs : HeldSet(c, pcs)' = HeldSet(c, pcs)
  BY <1>1 DEF QueuedSet, Queued, HeldSet, In
<1>3. CASE CheckWaiting \/ CheckSession \/ Checked \/ Update \/ Updated
           \/ SessionUpdated
  <2>1. UNCHANGED <<clientVars, bufVars>> /\ spc # "notify" /\ spc' # "notify"
    BY <1>3 DEF CheckWaiting, CheckSession, Checked, Update, Updated,
       SessionUpdated
  <2>. QED  BY <1>2, <2>1, BalanceSame
<1>4. CASE ProcessMsg \/ PushSend
  <2>. SUFFICES ASSUME NEW c \in Conn, client[c] # "gone"
                PROVE  Asked(c)' = Balance(c)'
    BY <1>1, AnsweredAs
  <2>1. Asked(c) = Balance(c) /\ Asked(c)' = Asked(c)
    BY <1>1, AnsweredAs DEF Asked
  <2>2. /\ QueuedLen(c, "read")' = QueuedLen(c, "read")
        /\ QueuedLen(c, "write")' = QueuedLen(c, "write")
        /\ HeldLen(c, ReadHeld)' = HeldLen(c, ReadHeld)
        /\ HeldLen(c, WriteHeld)' = HeldLen(c, WriteHeld)
    BY <1>2, BalanceOf
  <2>3. /\ requests[c] \in Nat /\ answers[c] \in Nat /\ received[c] \in Nat
        /\ packetList_[c] \in Nat /\ sendBuffer_[c] \in Nat
        /\ QueuedLen(c, "read") \in Nat /\ QueuedLen(c, "write") \in Nat
        /\ HeldLen(c, ReadHeld) \in Nat /\ HeldLen(c, WriteHeld) \in Nat
    BY BalanceNat
  <2>4. CASE ProcessMsg
    <3>1. /\ spc # "notify" /\ spc' = "notify" /\ scur' = scur
          /\ UNCHANGED packetList_
          /\ sendBuffer_'[c] = IF scur = c THEN sendBuffer_[c] + 1
                               ELSE sendBuffer_[c]
      BY <2>4 DEF ProcessMsg, SessionTypeOK
    <3>. QED  BY <1>1, <2>1, <2>2, <2>3, <3>1 DEF Balance
  <2>5. CASE PushSend
    <3>1. /\ spc = "notify" /\ spc' = "handle" /\ UNCHANGED sendBuffer_
          /\ packetList_'[c] = IF scur = c THEN packetList_[c] - 1
                               ELSE packetList_[c]
      BY <2>5 DEF PushSend, SessionTypeOK
    <3>. QED  BY <1>1, <2>1, <2>2, <2>3, <3>1 DEF Balance
  <2>. QED  BY <1>4, <2>4, <2>5
<1>. QED  BY <1>3, <1>4 DEF SessionThread

\* What a completion adds to what is queued.
LEMMA CompleteSets ==
  ASSUME IInv, NEW c \in Conn, iocp[c] \in Port,
         NEW op \in {"read", "write"},
         NEW result \in {"ok", "deleted", "other"},
         NEW len \in Nat, Complete(c, op, result, len),
         op = "read" => readOp[c] = "pending",
         op = "write" => writeOp[c] = "pending"
  PROVE  /\ QueuedSet(c, op) = {} /\ QueuedSet(c, op)' = {len}
         /\ \A d \in Conn, o \in {"read", "write"} :
              d # c \/ o # op => QueuedSet(d, o)' = QueuedSet(d, o)
<1>. DEFINE p == iocp[c]
            r == [op |-> op, conn |-> c, result |-> result, len |-> len]
<1>1. r \in Completion /\ completions[p] \in Seq(Completion)
  BY DEF Completion, OpTypeOK
<1>2. /\ completions'[p] = Append(completions[p], r)
      /\ \A q \in Port : q # p => completions'[q] = completions[q]
  BY DEF Complete, OpTypeOK
<1>3. /\ \A i \in DOMAIN completions[p] :
           /\ i \in DOMAIN completions'[p]
           /\ completions'[p][i] = completions[p][i]
      /\ \A i \in DOMAIN completions'[p] :
           \/ i \in DOMAIN completions[p]
              /\ completions'[p][i] = completions[p][i]
           \/ completions'[p][i] = r
      /\ \E i \in DOMAIN completions'[p] : completions'[p][i] = r
  <2>1. /\ Len(completions'[p]) = Len(completions[p]) + 1
        /\ completions'[p] \in Seq(Completion)
        /\ completions'[p][Len(completions[p]) + 1] = r
    BY <1>1, <1>2
  <2>2. /\ DOMAIN completions[p] = 1..Len(completions[p])
        /\ DOMAIN completions'[p] = 1..(Len(completions[p]) + 1)
        /\ Len(completions[p]) \in Nat
    BY <1>1, <2>1
  <2>3. \A i \in 1..Len(completions[p]) : completions'[p][i] = completions[p][i]
    BY <1>1, <1>2
  <2>4. \A i \in DOMAIN completions'[p] :
          i \in DOMAIN completions[p] \/ i = Len(completions[p]) + 1
    BY <2>2
  <2>5. Len(completions[p]) + 1 \in DOMAIN completions'[p]
    BY <2>2
  <2>6. \A i \in DOMAIN completions[p] : i \in DOMAIN completions'[p]
    BY <2>2
  <2>. HIDE DEF p, r
  <2>. QED  BY <2>1, <2>2, <2>3, <2>4, <2>5, <2>6
<1>4. QueuedSet(c, op) = {}
  BY QueuedOnce
<1>. HIDE DEF IInv, TypeOK, p, r
<1>8. p \in Port /\ r.op = op /\ r.conn = c /\ r.len = len
  BY DEF p, r
<1>5. ASSUME NEW d \in Conn, NEW o \in {"read", "write"}, NEW x
      PROVE  x \in QueuedSet(d, o)' <=>
               x \in QueuedSet(d, o) \/ (d = c /\ o = op /\ x = len)
  <2>1. ASSUME x \in QueuedSet(d, o) PROVE x \in QueuedSet(d, o)'
    <3>1. PICK q \in Port : \E i \in DOMAIN completions[q] :
            /\ completions[q][i].op = o /\ completions[q][i].conn = d
            /\ x = completions[q][i].len
      BY <2>1, QueuedElements
    <3>2. \E i \in DOMAIN completions'[q] :
            /\ completions'[q][i].op = o /\ completions'[q][i].conn = d
            /\ x = completions'[q][i].len
      <4>1. CASE q = p
        BY <1>3, <3>1, <4>1
      <4>2. CASE q # p
        BY <1>2, <3>1, <4>2
      <4>. QED  BY <4>1, <4>2
    <3>. QED  BY <3>2, QueuedElements
  <2>2. ASSUME d = c, o = op, x = len PROVE x \in QueuedSet(d, o)'
    BY <1>3, <1>8, <2>2, QueuedElements
  <2>3. ASSUME x \in QueuedSet(d, o)'
        PROVE  x \in QueuedSet(d, o) \/ (d = c /\ o = op /\ x = len)
    <3>1. PICK q \in Port : \E i \in DOMAIN completions'[q] :
            /\ completions'[q][i].op = o /\ completions'[q][i].conn = d
            /\ x = completions'[q][i].len
      BY <2>3, QueuedElements
    <3>2. CASE q # p
      <4>1. \E i \in DOMAIN completions[q] :
              /\ completions[q][i].op = o /\ completions[q][i].conn = d
              /\ x = completions[q][i].len
        BY <1>2, <3>1, <3>2
      <4>. QED  BY <4>1, QueuedElements
    <3>3. CASE q = p
      <4>1. PICK i \in DOMAIN completions'[p] :
              /\ completions'[p][i].op = o /\ completions'[p][i].conn = d
              /\ x = completions'[p][i].len
        BY <3>1, <3>3
      <4>2. CASE completions'[p][i] = r
        BY <1>8, <4>1, <4>2
      <4>3. CASE /\ i \in DOMAIN completions[p]
                 /\ completions'[p][i] = completions[p][i]
        <5>1. \E j \in DOMAIN completions[p] :
                /\ completions[p][j].op = o /\ completions[p][j].conn = d
                /\ x = completions[p][j].len
          BY <4>1, <4>3
        <5>. QED  BY <1>8, <5>1, QueuedElements
      <4>. QED  BY <1>3, <4>2, <4>3
    <3>. QED  BY <3>2, <3>3
  <2>. QED  BY <2>1, <2>2, <2>3
<1>6. QueuedSet(c, op)' = {len}
  BY <1>4, <1>5
<1>7. ASSUME NEW d \in Conn, NEW o \in {"read", "write"}, d # c \/ o # op
      PROVE  QueuedSet(d, o)' = QueuedSet(d, o)
  <2>1. ASSUME NEW x \in QueuedSet(d, o) PROVE x \in QueuedSet(d, o)'
    BY <1>5, <1>7
  <2>2. ASSUME NEW x \in QueuedSet(d, o)' PROVE x \in QueuedSet(d, o)
    BY <1>5, <1>7
  <2>. QED  BY <2>1, <2>2
<1>. QED  BY <1>4, <1>6, <1>7

\* The network brings requests to the port, and answers to the client.
LEMMA NetworkBalance ==
  ASSUME IInv, AliveOK, AnsweredOnce, Network PROVE AnsweredOnce'
<1>1. PICK c \in Conn : ReadCompletes(c) \/ WriteCompletes(c)
  BY DEF Network
<1>2. iocp[c] \in Port /\ session[c] # "none"
  BY <1>1 DEF ReadCompletes, WriteCompletes, FreshOK, Fresh
<1>3. client[c] # "gone" => Failure(c) = {}
  BY <1>2 DEF AliveOK, Failure
<1>4. /\ UNCHANGED <<client, rounds, received, at, bufVars, spc, scur>>
      /\ \A d \in Conn : d # c => requests'[d] = requests[d]
                                  /\ answers'[d] = answers[d]
  BY <1>1 DEF ReadCompletes, WriteCompletes, ClientTypeOK
<1>5. \A d, pcs : HeldSet(d, pcs)' = HeldSet(d, pcs)
  BY <1>4 DEF HeldSet, In
<1>. SUFFICES ASSUME NEW d \in Conn, client[d] # "gone"
              PROVE  Asked(d)' = Balance(d)'
  BY <1>4, AnsweredAs
<1>6. Asked(d) = Balance(d) /\ Asked(d)' = Asked(d)
  BY <1>4, AnsweredAs DEF Asked
<1>7. /\ requests[d] \in Nat /\ answers[d] \in Nat /\ received[d] \in Nat
      /\ packetList_[d] \in Nat /\ sendBuffer_[d] \in Nat
      /\ QueuedLen(d, "read") \in Nat /\ QueuedLen(d, "write") \in Nat
      /\ HeldLen(d, ReadHeld) \in Nat /\ HeldLen(d, WriteHeld) \in Nat
  BY BalanceNat
<1>8. /\ HeldLen(d, ReadHeld)' = HeldLen(d, ReadHeld)
      /\ HeldLen(d, WriteHeld)' = HeldLen(d, WriteHeld)
  BY <1>5, BalanceOf
<1>9. CASE d # c
  <2>1. /\ QueuedSet(d, "read")' = QueuedSet(d, "read")
        /\ QueuedSet(d, "write")' = QueuedSet(d, "write")
    <3>1. CASE ReadCompletes(c)
      <4>1. PICK result \in {"ok", "deleted", "other"}, len \in Nat :
              Complete(c, "read", result, len)
        BY <3>1 DEF ReadCompletes, Failure, ClientTypeOK
      <4>. QED  BY <1>2, <1>9, <3>1, <4>1, CompleteSets DEF ReadCompletes
    <3>2. CASE WriteCompletes(c)
      <4>1. PICK result \in {"ok", "deleted", "other"}, len \in Nat :
              Complete(c, "write", result, len)
        <5>1. writeLen[c] \in Nat
          BY DEF OpTypeOK
        <5>2. CASE \E k \in 1..writeLen[c] : Complete(c, "write", "ok", k)
          BY <5>1, <5>2
        <5>3. CASE \E f \in Failure(c) : Complete(c, "write", f, 0)
          BY <5>3 DEF Failure
        <5>. QED  BY <3>2, <5>2, <5>3 DEF WriteCompletes
      <4>. QED  BY <1>2, <1>9, <3>2, <4>1, CompleteSets DEF WriteCompletes
    <3>. QED  BY <1>1, <3>1, <3>2
  <2>. QED  BY <1>4, <1>5, <1>9, <2>1, BalanceSameAt
<1>10. CASE d = c /\ ReadCompletes(c)
  <2>1. /\ Complete(c, "read", "ok", requests[c]) /\ readOp[c] = "pending"
        /\ requests'[c] = 0 /\ UNCHANGED answers
    BY <1>3, <1>10 DEF ReadCompletes, ClientTypeOK
  <2>2. /\ QueuedSet(c, "read") = {} /\ QueuedSet(c, "read")' = {requests[c]}
        /\ QueuedSet(c, "write")' = QueuedSet(c, "write")
    BY <1>2, <1>7, <1>10, <2>1, CompleteSets
  <2>3. /\ QueuedLen(c, "read") = TheOnly({})
        /\ QueuedLen(c, "read")' = TheOnly({requests[c]})
        /\ QueuedLen(c, "write")' = QueuedLen(c, "write")
    BY <2>2, BalanceOf
  <2>4. QueuedLen(c, "read") = 0 /\ QueuedLen(c, "read")' = requests[c]
    BY <2>3, TheOnlyOf
  <2>. QED  BY <1>4, <1>6, <1>7, <1>8, <1>10, <2>1, <2>3, <2>4 DEF Balance
<1>11. CASE d = c /\ WriteCompletes(c)
  <2>1. PICK k \in 1..writeLen[c] :
          /\ Complete(c, "write", "ok", k) /\ writeOp[c] = "pending"
          /\ answers'[c] = answers[c] + k /\ UNCHANGED requests
    BY <1>3, <1>11 DEF WriteCompletes, ClientTypeOK
  <2>2. k \in Nat
    BY DEF OpTypeOK
  <2>3. /\ QueuedSet(c, "write") = {} /\ QueuedSet(c, "write")' = {k}
        /\ QueuedSet(c, "read")' = QueuedSet(c, "read")
    BY <1>2, <2>1, <2>2, CompleteSets
  <2>4. /\ QueuedLen(c, "write") = TheOnly({})
        /\ QueuedLen(c, "write")' = TheOnly({k})
        /\ QueuedLen(c, "read")' = QueuedLen(c, "read")
    BY <2>3, BalanceOf
  <2>5. QueuedLen(c, "write") = 0 /\ QueuedLen(c, "write")' = k
    BY <2>4, TheOnlyOf
  <2>. QED  BY <1>4, <1>6, <1>7, <1>8, <1>11, <2>1, <2>2, <2>4, <2>5
            DEF Balance
<1>. QED  BY <1>1, <1>9, <1>10, <1>11

\* Before the first connection nothing has been asked.
LEMMA InitBalance == Init => AliveOK /\ AnsweredOnce
<1>. SUFFICES ASSUME Init PROVE AliveOK /\ AnsweredOnce
  OBVIOUS
<1>1. AliveOK
  BY DEF Init, ClientInit, AliveOK, In, ClosingAt
<1>2. \A c, op : QueuedSet(c, op) = {}
  BY QueuedElements DEF Init
<1>3. \A c \in Conn : \A pcs \in {ReadHeld, WriteHeld} : HeldSet(c, pcs) = {}
  BY DEF Init, HeldSet, In, ReadHeld, WriteHeld
<1>4. ASSUME NEW c \in Conn PROVE Asked(c) = Balance(c)
  <2>1. /\ QueuedLen(c, "read") = TheOnly({})
        /\ QueuedLen(c, "write") = TheOnly({})
        /\ HeldLen(c, ReadHeld) = TheOnly({})
        /\ HeldLen(c, WriteHeld) = TheOnly({})
    <3>1. /\ QueuedSet(c, "read") = {} /\ QueuedSet(c, "write") = {}
          /\ HeldSet(c, ReadHeld) = {} /\ HeldSet(c, WriteHeld) = {}
      BY <1>2, <1>3
    <3>. HIDE DEF Init
    <3>. QED  BY <3>1, BalanceOf
  <2>2. /\ QueuedLen(c, "read") = 0 /\ QueuedLen(c, "write") = 0
        /\ HeldLen(c, ReadHeld) = 0 /\ HeldLen(c, WriteHeld) = 0
    BY <2>1, TheOnlyOf
  <2>3. Asked(c) = 0
    BY DEF Init, ClientInit, Asked
  <2>4. Balance(c) = 0
    BY <2>2 DEF Init, ClientInit, Balance
  <2>. QED  BY <2>3, <2>4
<1>. QED  BY <1>1, <1>4, AnsweredAs

\* No request of a client that is there is lost, and none answered twice, for
\* any number of connections, ports and rounds.
THEOREM AnsweredTheorem == Spec => []AnsweredOnce
<1>1. IInv /\ AliveOK /\ AnsweredOnce /\ [Next]_vars
        => AliveOK' /\ AnsweredOnce'
  <2>. SUFFICES ASSUME IInv, AliveOK, AnsweredOnce, [Next]_vars
                PROVE  AliveOK' /\ AnsweredOnce'
    OBVIOUS
  <2>. HIDE DEF IInv
  <2>1. CASE Next
    <3>1. AliveOK' /\ IInv'
      BY <2>1, NextAlive, NextIInv
    <3>2. AnsweredOnce'
      BY <2>1, <3>1, ClientBalance, ListenerPushBalance, ConnectionBalance,
         WorkerBalance, SessionBalance, NetworkBalance, ThreadNames DEF Next
    <3>. QED  BY <3>1, <3>2
  <2>2. CASE UNCHANGED vars
    <3>1. AliveOK'
      BY <2>2 DEF vars, AliveOK, In
    <3>2. /\ \A c, op : QueuedSet(c, op)' = QueuedSet(c, op)
          /\ \A c, pcs : HeldSet(c, pcs)' = HeldSet(c, pcs)
      BY <2>2 DEF vars, QueuedSet, Queued, HeldSet, In
    <3>. QED  BY <2>2, <3>1, <3>2, BalanceSame DEF vars
  <2>. QED  BY <2>1, <2>2
<1>. QED  BY <1>1, InitBalance, InvariantTheorem, PTL DEF Spec
=============================================================================

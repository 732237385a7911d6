---------------------------- MODULE EpollServer ----------------------------
(***************************************************************************)
(* The epoll server of src/src: the threads that share the connections.    *)
(*                                                                         *)
(*   listener   CListener::Kernel      accepts, creates, hands over        *)
(*   worker e   CWorkThread::Kernel    one per epoll descriptor e          *)
(*   push       PushSendThread::Kernel arms the write event of connections *)
(*                                     whose session has queued a reply    *)
(*   session    CSessionMgr::Kernel    runs the handlers, frees the dead   *)
(*                                                                         *)
(* A step is what a thread does between two accesses to state another      *)
(* thread can change.  A connection and its session are created together,  *)
(* point at each other and are deleted together: one element of Conn       *)
(* stands for both.  Messages are counted, not represented.  A send to a    *)
(* peer that has reset its connection may end the process: the system then *)
(* stops in a state whose fate says so.                                    *)
(***************************************************************************)
EXTENDS Integers, FiniteSets

CONSTANTS
  Conn,        \* connections the listener may accept, in the whole run
  Fd,          \* descriptor numbers the kernel can give to sockets
  NumEpolls,   \* epollFdVec_.size(), and the number of workers
  MaxRequests, \* bound: the number of requests each peer sends
  None         \* the NULL pointer, no map entry, no registration

Epoll == 0..(NumEpolls - 1)

ASSUME ConstantsAssumption ==
  /\ NumEpolls \in Nat \ {0}
  /\ MaxRequests \in [Conn -> Nat]
  /\ None \notin Conn \cup Fd \cup Epoll

VARIABLES
  \* The kernel and the peers
  fdTable,     \* which connection's socket a descriptor number refers to
  watched,     \* epoll e, descriptor f: data.ptr of the registration
  mask,        \* ... and its events; {} once EPOLLONESHOT has disarmed it
  unread,      \* requests in the socket's receive queue
  peerOpen,    \* the peer has not closed its end
  asked,       \* requests the peer has sent
  \* CTcpConnection and Session objects
  mem,         \* "unborn", "live" or "freed"
  sock,        \* socket_
  epollFd,     \* epollFd_
  epollEvent,  \* epollEvent_.events
  active,      \* state_ = enum_active
  packetList,  \* packetList_, requests not yet handled
  sendBuffer,  \* sendBuffer_, replies not yet accepted by send
  pushSend,    \* pushSend_
  writeLock,   \* writeLock_
  readLock,    \* readLock_
  \* CTcpConnectionMgr and CSessionMgr
  connections, \* connections_, keyed by descriptor
  iocpIndex,   \* iocpIndex_ % epollFdVec_.size()
  waiting,     \* watingSesion_ (kept as a set: its order decides nothing)
  sessionList, \* sessionList_ (likewise)
  fate,        \* of the process: "runs", or ended by "SIGPIPE"
  \* The threads: where each one is, and its local variables
  lpc, lcur,
  wpc, wcur, wevs, wbatch, wok, wsize,
  ppc, pcur, ptodo, pevents,
  spc, scur, stodo

kernelVars   == <<fdTable, watched, mask, unread, peerOpen, asked>>
dataVars     == <<packetList, sendBuffer, pushSend, writeLock, readLock>>
objectVars   == <<mem, sock, epollFd, epollEvent, active, dataVars>>
sharedVars   == <<connections, iocpIndex, waiting, sessionList, fate>>
listenerVars == <<lpc, lcur>>
workerVars   == <<wpc, wcur, wevs, wbatch, wok, wsize>>
pushVars     == <<ppc, pcur, ptodo, pevents>>
sessionVars  == <<spc, scur, stodo>>

threadVars   == <<listenerVars, workerVars, pushVars, sessionVars>>

\* What the steps of one thread leave to the others.
notListener  == <<workerVars, pushVars, sessionVars>>
notWorker    == <<listenerVars, pushVars, sessionVars>>
notPush      == <<listenerVars, workerVars, sessionVars>>
notSession   == <<listenerVars, workerVars, pushVars>>

vars == <<kernelVars, objectVars, sharedVars, threadVars>>

\* What a registration can ask for; EPOLLRDHUP is part of every armed one.
Interest == {"IN", "OUT"}
\* What epoll_wait can report; "HUP" is any of EPOLLERR, EPOLLRDHUP, EPOLLHUP.
Event == [ptr : Conn, evs : SUBSET {"IN", "OUT", "HUP"}]

\* Keys of connections_.
Mapped == {f \in Fd : connections[f] # None}

\* CTcpConnectionMgr::mutex_ is free.  addConnection and removeConnection
\* hold it for one step; the push thread holds it from lock to unlock.
MutexFree == ppc = "idle"

\* Session::mutex_ of c is held by Session::update.
Updating(c) == spc \in {"handle", "notify"} /\ scur = c

Init ==
  /\ fdTable = [f \in Fd |-> None]
  /\ watched = [e \in Epoll |-> [f \in Fd |-> None]]
  /\ mask = [e \in Epoll |-> [f \in Fd |-> {}]]
  /\ unread = [c \in Conn |-> 0]
  /\ peerOpen = [c \in Conn |-> FALSE]
  /\ asked = [c \in Conn |-> 0]
  /\ mem = [c \in Conn |-> "unborn"]
  /\ sock = [c \in Conn |-> None]
  /\ epollFd = [c \in Conn |-> None]
  /\ epollEvent = [c \in Conn |-> {}]
  /\ active = [c \in Conn |-> FALSE]
  /\ packetList = [c \in Conn |-> 0]
  /\ sendBuffer = [c \in Conn |-> 0]
  /\ pushSend = [c \in Conn |-> FALSE]
  /\ writeLock = [c \in Conn |-> FALSE]
  /\ readLock = [c \in Conn |-> FALSE]
  /\ connections = [f \in Fd |-> None]
  /\ iocpIndex = 0
  /\ waiting = {} /\ sessionList = {} /\ fate = "runs"
  /\ lpc = "accept" /\ lcur = None
  /\ wpc = [e \in Epoll |-> "next"]
  /\ wcur = [e \in Epoll |-> None]
  /\ wevs = [e \in Epoll |-> {}]
  /\ wbatch = [e \in Epoll |-> {}]
  /\ wok = [e \in Epoll |-> TRUE]
  /\ wsize = [e \in Epoll |-> 0]
  /\ ppc = "idle" /\ pcur = None /\ ptodo = {} /\ pevents = {}
  /\ spc = "update" /\ scur = None /\ stodo = {}

-----------------------------------------------------------------------------
(* The peers.                                                              *)

\* A peer sends one more request.
Ask(c) ==
  /\ peerOpen[c] /\ asked[c] < MaxRequests[c]
  /\ asked' = [asked EXCEPT ![c] = @ + 1]
  /\ unread' = [unread EXCEPT ![c] = @ + 1]
  /\ UNCHANGED <<fdTable, watched, mask, peerOpen, objectVars, sharedVars,
                 threadVars>>

\* A peer closes its end, orderly or with a reset.
Hangup(c) ==
  /\ peerOpen[c]
  /\ peerOpen' = [peerOpen EXCEPT ![c] = FALSE]
  /\ UNCHANGED <<fdTable, watched, mask, unread, asked, objectVars, sharedVars,
                 threadVars>>

-----------------------------------------------------------------------------
(* The listener thread.                                                    *)

\* accept returns some unused descriptor number; onAccept creates the objects.
Accept(c, f) ==
  /\ lpc = "accept"
  /\ mem[c] = "unborn" /\ fdTable[f] = None
  /\ fdTable' = [fdTable EXCEPT ![f] = c]
  /\ peerOpen' = [peerOpen EXCEPT ![c] = TRUE]
  /\ mem' = [mem EXCEPT ![c] = "live"]
  /\ sock' = [sock EXCEPT ![c] = f]
  /\ active' = [active EXCEPT ![c] = TRUE]
  /\ lpc' = "session" /\ lcur' = c
  /\ UNCHANGED <<watched, mask, unread, asked, epollFd, epollEvent, dataVars,
                 sharedVars, notListener>>

\* CSyncQueue, as watingSesion_ is used.
enqueue(item) == waiting' = waiting \cup {item}

\* sCSessionMgr.addSession: from here on the session thread knows it.
AddSession ==
  /\ lpc = "session"
  /\ enqueue(lcur)
  /\ lpc' = "connection"
  /\ UNCHANGED <<kernelVars, objectVars, connections, iocpIndex, sessionList,
                 fate, lcur, notListener>>

\* Mutant: the connection is registered with every epoll, so that whichever
\* worker is free can serve it.
AddConnectionToEveryEpoll ==
  LET f == sock[lcur]
  IN  /\ lpc = "connection" /\ MutexFree
      /\ connections' = IF connections[f] # None THEN connections
                        ELSE [connections EXCEPT ![f] = lcur]
      /\ iocpIndex' = (iocpIndex + 1) % NumEpolls
      /\ epollFd' = [epollFd EXCEPT ![lcur] = iocpIndex]
      /\ epollEvent' = [epollEvent EXCEPT ![lcur] = {"IN"}]
      /\ watched' = [e \in Epoll |-> [watched[e] EXCEPT ![f] = lcur]]
      /\ mask' = [e \in Epoll |-> [mask[e] EXCEPT ![f] = {"IN"}]]
      /\ lpc' = "accept" /\ lcur' = None
      /\ UNCHANGED <<fdTable, unread, peerOpen, asked, mem, sock, active,
                     dataVars, waiting, sessionList, fate, notListener>>

\* EPOLL_CTL_ADD fails when the descriptor is registered.
Regist(c, e) ==
  /\ epollEvent' = [epollEvent EXCEPT ![c] = {"IN"}]
  /\ IF watched[e][sock[c]] # None THEN UNCHANGED <<watched, mask>>
     ELSE /\ watched' = [watched EXCEPT ![e][sock[c]] = c]
          /\ mask' = [mask EXCEPT ![e][sock[c]] = {"IN"}]

\* sTcpConnectionMgr.addConnection.  map::insert keeps an entry that is
\* already there.
AddConnection ==
  LET f == sock[lcur]
  IN  /\ lpc = "connection" /\ MutexFree
      /\ connections' = IF connections[f] # None THEN connections
                        ELSE [connections EXCEPT ![f] = lcur]
      /\ iocpIndex' = (iocpIndex + 1) % NumEpolls
      /\ epollFd' = [epollFd EXCEPT ![lcur] = iocpIndex]
      /\ Regist(lcur, iocpIndex)
      /\ lpc' = "accept" /\ lcur' = None
      /\ UNCHANGED <<fdTable, unread, peerOpen, asked, mem, sock, active,
                     dataVars, waiting, sessionList, fate, notListener>>

Listener ==
  \/ \E c \in Conn, f \in Fd : Accept(c, f)
  \/ AddSession
  \/ AddConnection

-----------------------------------------------------------------------------
(* epoll_ctl(EPOLL_CTL_MOD) with the connection's epollEvent_, used by     *)
(* workers and the push thread: it rearms the registration of the          *)
(* descriptor NUMBER in the connection's epoll, if there is one.           *)

ModSucceeds(c) == watched[epollFd[c]][sock[c]] # None

Rearm(c) ==
  IF ModSucceeds(c)
    THEN /\ watched' = [watched EXCEPT ![epollFd[c]][sock[c]] = c]
         /\ mask' = [mask EXCEPT ![epollFd[c]][sock[c]] = epollEvent[c]]
    ELSE UNCHANGED <<watched, mask>>

-----------------------------------------------------------------------------
(* The worker threads.                                                     *)

\* What epoll may report for the armed registration of f in e.  Readability
\* is that of the socket the number refers to; writability is up to its peer.
Ready(e, f) ==
  LET c == fdTable[f]
      hup == IF peerOpen[c] THEN {} ELSE {"HUP", "IN"}
      in  == IF unread[c] > 0 THEN {"IN"} ELSE {}
  IN  {hup \cup in, hup \cup in \cup (mask[e][f] \cap {"OUT"})} \ {{}}

Reportable(e) == {f \in Fd : mask[e][f] # {} /\ Ready(e, f) # {}}

\* epoll_wait hands out a batch; EPOLLONESHOT disarms what it hands out.
EpollWait(e) ==
  /\ wpc[e] = "next" /\ wbatch[e] = {}
  /\ \E fds \in (SUBSET Reportable(e)) \ {{}} :
       /\ \E choice \in [fds -> SUBSET {"IN", "OUT", "HUP"}] :
            /\ \A f \in fds : choice[f] \in Ready(e, f)
            /\ wbatch' = [wbatch EXCEPT ![e] =
                            {[ptr |-> watched[e][f], evs |-> choice[f]] :
                               f \in fds}]
       /\ mask' = [mask EXCEPT ![e] =
                     [f \in Fd |-> IF f \in fds THEN {} ELSE @[f]]]
  /\ UNCHANGED <<fdTable, watched, unread, peerOpen, asked, objectVars,
                 sharedVars, wpc, wcur, wevs, wok, wsize, notWorker>>

\* Mutant: a closed peer is looked at only when there is nothing to read.
NextEventReadsFirst(e) ==
  /\ wpc[e] = "next"
  /\ \E ev \in wbatch[e] :
    /\ wbatch' = [wbatch EXCEPT ![e] = @ \ {ev}]
    /\ wcur' = [wcur EXCEPT ![e] = ev.ptr]
    /\ wevs' = [wevs EXCEPT ![e] = ev.evs]
    /\ wpc' = [wpc EXCEPT ![e] = IF "IN" \in ev.evs THEN "read"
                                 ELSE IF "HUP" \in ev.evs THEN "close"
                                 ELSE "size"]
    /\ UNCHANGED <<kernelVars, objectVars, sharedVars, wok, wsize, notWorker>>

\* The head of the loop over the batch, up to the first call.
NextEvent(e) ==
  /\ wpc[e] = "next"
  /\ \E ev \in wbatch[e] :
    /\ wbatch' = [wbatch EXCEPT ![e] = @ \ {ev}]
    /\ wcur' = [wcur EXCEPT ![e] = ev.ptr]
    /\ wevs' = [wevs EXCEPT ![e] = ev.evs]
    /\ wpc' = [wpc EXCEPT ![e] = IF "HUP" \in ev.evs THEN "close"
                                 ELSE IF "IN" \in ev.evs THEN "read"
                                 ELSE "size"]
    /\ UNCHANGED <<kernelVars, objectVars, sharedVars, wok, wsize, notWorker>>

\* Where a worker goes once both calls are made: Close or ModifyRegistInfo.
Outcome(ok) == IF ok THEN "store" ELSE "close"

\* Where it goes after Read; Write is called even if Read has failed.
AfterRead(e, ok) == IF "OUT" \in wevs[e] THEN "size" ELSE Outcome(ok)

(* CTcpConnection::Read.                                                   *)

\* TryAcquireReadLock.  Read releases the lock at its end even if it failed.
ReadLock(e) ==
  LET c == wcur[e]
  IN  /\ wpc[e] = "read"
      /\ readLock' = [readLock EXCEPT ![c] = ~@]
      /\ wpc' = [wpc EXCEPT ![e] = IF readLock[c] THEN AfterRead(e, TRUE)
                                   ELSE "recv"]
      /\ UNCHANGED <<kernelVars, mem, sock, epollFd, epollEvent, active,
                     packetList, sendBuffer, pushSend, writeLock, sharedVars,
                     wcur, wevs, wbatch, wok, wsize, notWorker>>

\* recv returned n > 0 requests and onRead queued them, under the session's
\* mutex.  A full buffer makes Read ask again; requests that arrive after
\* recv may be left behind.  What an inactive session receives is dropped.
Recv(e) ==
  LET c == wcur[e]
  IN  /\ wpc[e] = "recv" /\ ~Updating(c)
      /\ \E n \in 1..unread[c], again \in BOOLEAN :
        /\ unread' = [unread EXCEPT ![c] = @ - n]
        /\ packetList' = [packetList EXCEPT ![c] = IF active[c] THEN @ + n
                                                   ELSE @]
        /\ readLock' = [readLock EXCEPT ![c] = again]
        /\ wpc' = [wpc EXCEPT ![e] = IF again THEN "recv"
                                       ELSE AfterRead(e, TRUE)]
        /\ UNCHANGED <<fdTable, watched, mask, peerOpen, asked, mem, sock,
                       epollFd, epollEvent, active, sendBuffer, pushSend,
                       writeLock, sharedVars, wcur, wevs, wbatch, wok, wsize,
                       notWorker>>

\* recv returned 0 or -1.  While the peer is there this is EAGAIN; once it
\* has gone errno is whatever the call, or an earlier one, left in it.
RecvNothing(e) ==
  LET c == wcur[e]
  IN  /\ wpc[e] = "recv" /\ unread[c] = 0
      /\ \E failed \in BOOLEAN :
        /\ failed => ~peerOpen[c]
        /\ readLock' = [readLock EXCEPT ![c] = FALSE]
        /\ wok' = [wok EXCEPT ![e] = ~failed]
        /\ wpc' = [wpc EXCEPT ![e] = AfterRead(e, ~failed)]
        /\ UNCHANGED <<kernelVars, mem, sock, epollFd, epollEvent, active,
                       packetList, sendBuffer, pushSend, writeLock, sharedVars,
                       wcur, wevs, wbatch, wsize, notWorker>>

(* CTcpConnection::Write.                                                  *)

\* getRemainSendDataSize, without the session's mutex.
WriteSize(e) ==
  LET c == wcur[e]
  IN  /\ wpc[e] = "size"
      /\ wsize' = [wsize EXCEPT ![e] = sendBuffer[c]]
      /\ wpc' = [wpc EXCEPT ![e] = IF sendBuffer[c] = 0 THEN "release"
                                   ELSE "send"]
      /\ UNCHANGED <<kernelVars, objectVars, sharedVars, wcur, wevs, wbatch,
                     wok, notWorker>>

RemoveSendData(c, n) == sendBuffer' = [sendBuffer EXCEPT ![c] = @ - n]

\* Mutant: the size is read once, before the loop.
SendSameSize(e) ==
  LET c == wcur[e]
  IN  /\ wpc[e] = "send"
      /\ \E n \in 1..wsize[e] :
        /\ RemoveSendData(c, n)
        /\ wpc' = [wpc EXCEPT ![e] = IF n = wsize[e] THEN "send"
                                     ELSE "release"]
        /\ UNCHANGED <<kernelVars, mem, sock, epollFd, epollEvent, active,
                       packetList, pushSend, writeLock, readLock, sharedVars,
                       wcur, wevs, wbatch, wok, wsize, notWorker>>

\* send accepted n of the size replies; only if it took all of them does
\* Write look for more.
Send(e) ==
  LET c == wcur[e]
  IN  /\ wpc[e] = "send"
      /\ \E n \in 1..wsize[e] :
        /\ RemoveSendData(c, n)
        /\ wsize' = [wsize EXCEPT ![e] = 0]
        /\ wpc' = [wpc EXCEPT ![e] = IF n = wsize[e] THEN "size"
                                     ELSE "release"]
        /\ UNCHANGED <<kernelVars, mem, sock, epollFd, epollEvent, active,
                       packetList, pushSend, writeLock, readLock, sharedVars,
                       wcur, wevs, wbatch, wok, notWorker>>

\* EAGAIN: the write lock is released here, and once more at the end.
SendAgain(e) ==
  /\ wpc[e] = "send"
  /\ writeLock' = [writeLock EXCEPT ![wcur[e]] = FALSE]
  /\ wsize' = [wsize EXCEPT ![e] = 0]
  /\ wpc' = [wpc EXCEPT ![e] = "release"]
  /\ UNCHANGED <<kernelVars, mem, sock, epollFd, epollEvent, active,
                 packetList, sendBuffer, pushSend, readLock, sharedVars, wcur,
                 wevs, wbatch, wok, notWorker>>

\* Any other error: Write fails and keeps the write lock.  send is called
\* without MSG_NOSIGNAL and SIGPIPE is not ignored: the error may be the end
\* of the process.
SendFails(e) ==
  /\ wpc[e] = "send" /\ ~peerOpen[wcur[e]]
  /\ wsize' = [wsize EXCEPT ![e] = 0]
  /\ wpc' = [wpc EXCEPT ![e] = "close"]
  /\ fate' \in {fate, "SIGPIPE"}
  /\ UNCHANGED <<kernelVars, objectVars, connections, iocpIndex, waiting,
                 sessionList, wcur, wevs, wbatch, wok, notWorker>>

WriteRelease(e) ==
  /\ wpc[e] = "release"
  /\ writeLock' = [writeLock EXCEPT ![wcur[e]] = FALSE]
  /\ wpc' = [wpc EXCEPT ![e] = Outcome(wok[e])]
  /\ UNCHANGED <<kernelVars, mem, sock, epollFd, epollEvent, active,
                 packetList, sendBuffer, pushSend, readLock, sharedVars, wcur,
                 wevs, wbatch, wok, wsize, notWorker>>

(* The end of the loop body: Close, or ModifyRegistInfo().                 *)

\* ModifyRegistInfo() does not look at the send buffer: events without OUT.
WorkerStore(e) ==
  /\ wpc[e] = "store"
  /\ epollEvent' = [epollEvent EXCEPT ![wcur[e]] = {"IN"}]
  /\ wpc' = [wpc EXCEPT ![e] = "ctl"]
  /\ UNCHANGED <<kernelVars, mem, sock, epollFd, active, dataVars, sharedVars,
                 wcur, wevs, wbatch, wok, wsize, notWorker>>

\* Mutant: the registration is left as EPOLLONESHOT has disarmed it.
WorkerCtlForgotten(e) ==
  /\ wpc[e] = "ctl"
  /\ wpc' = [wpc EXCEPT ![e] = "next"]
  /\ wcur' = [wcur EXCEPT ![e] = None]
  /\ wevs' = [wevs EXCEPT ![e] = {}]
  /\ UNCHANGED <<kernelVars, objectVars, sharedVars, wbatch, wok, wsize,
                 notWorker>>

WorkerCtl(e) ==
  /\ wpc[e] = "ctl"
  /\ Rearm(wcur[e])
  /\ wpc' = [wpc EXCEPT ![e] = "next"]
  /\ wcur' = [wcur EXCEPT ![e] = None]
  /\ wevs' = [wevs EXCEPT ![e] = {}]
  /\ UNCHANGED <<fdTable, unread, peerOpen, asked, objectVars, sharedVars,
                 wbatch, wok, wsize, notWorker>>

(* CTcpConnection::Close.                                                  *)

\* Mutant: Close kills the session first.
CloseSocketKillsFirst(e) ==
  LET f == sock[wcur[e]]
  IN  /\ wpc[e] = "close"
      /\ fdTable' = [fdTable EXCEPT ![f] = None]
      /\ watched' = [x \in Epoll |-> [watched[x] EXCEPT ![f] = None]]
      /\ mask' = [x \in Epoll |-> [mask[x] EXCEPT ![f] = {}]]
      /\ unread' = [unread EXCEPT ![wcur[e]] = 0]
      /\ peerOpen' = [peerOpen EXCEPT ![wcur[e]] = FALSE]
      /\ asked' = [asked EXCEPT ![wcur[e]] = 0]
      /\ active' = [active EXCEPT ![wcur[e]] = FALSE]
      /\ wpc' = [wpc EXCEPT ![e] = "remove"]
      /\ UNCHANGED <<mem, sock, epollFd, epollEvent, dataVars, sharedVars,
                     wcur, wevs, wbatch, wok, wsize, notWorker>>

\* close(socket_): the number is free again, its registrations and whatever
\* was not read are gone.
CloseSocket(e) ==
  LET f == sock[wcur[e]]
  IN  /\ wpc[e] = "close"
      /\ fdTable' = [fdTable EXCEPT ![f] = None]
      /\ watched' = [x \in Epoll |-> [watched[x] EXCEPT ![f] = None]]
      /\ mask' = [x \in Epoll |-> [mask[x] EXCEPT ![f] = {}]]
      /\ unread' = [unread EXCEPT ![wcur[e]] = 0]
      /\ peerOpen' = [peerOpen EXCEPT ![wcur[e]] = FALSE]
      /\ asked' = [asked EXCEPT ![wcur[e]] = 0]
      /\ wpc' = [wpc EXCEPT ![e] = "remove"]
      /\ UNCHANGED <<objectVars, sharedVars, wcur, wevs, wbatch, wok, wsize,
                     notWorker>>

\* EPOLL_CTL_DEL, by number.
UnRegist(c) ==
  /\ watched' = [watched EXCEPT ![epollFd[c]][sock[c]] = None]
  /\ mask' = [mask EXCEPT ![epollFd[c]][sock[c]] = {}]

\* Mutant: the manager's mutex is not taken.
RemoveConnectionUnlocked(e) ==
  /\ wpc[e] = "remove"
  /\ UnRegist(wcur[e])
  /\ connections' = [connections EXCEPT ![sock[wcur[e]]] = None]
  /\ wpc' = [wpc EXCEPT ![e] = "kill"]
  /\ UNCHANGED <<fdTable, unread, peerOpen, asked, objectVars, iocpIndex,
                 waiting, sessionList, fate, wcur, wevs, wbatch, wok, wsize,
                 notWorker>>

\* mgr_->removeConnection: UnRegist and erase, both by number.
RemoveConnection(e) ==
  /\ wpc[e] = "remove" /\ MutexFree
  /\ UnRegist(wcur[e])
  /\ connections' = [connections EXCEPT ![sock[wcur[e]]] = None]
  /\ wpc' = [wpc EXCEPT ![e] = "kill"]
  /\ UNCHANGED <<fdTable, unread, peerOpen, asked, objectVars, iocpIndex,
                 waiting, sessionList, fate, wcur, wevs, wbatch, wok, wsize,
                 notWorker>>

\* Mutant: the worker goes on to rearm after Close.
KillThenRearm(e) ==
  /\ wpc[e] = "kill"
  /\ active' = [active EXCEPT ![wcur[e]] = FALSE]
  /\ wpc' = [wpc EXCEPT ![e] = "store"]
  /\ UNCHANGED <<kernelVars, mem, sock, epollFd, epollEvent, dataVars,
                 sharedVars, wcur, wevs, wbatch, wok, wsize, notWorker>>

\* session_->kill(): from here on the session thread may free both objects.
Kill(e) ==
  /\ wpc[e] = "kill"
  /\ active' = [active EXCEPT ![wcur[e]] = FALSE]
  /\ wpc' = [wpc EXCEPT ![e] = "next"]
  /\ wcur' = [wcur EXCEPT ![e] = None]
  /\ wevs' = [wevs EXCEPT ![e] = {}]
  /\ wok' = [wok EXCEPT ![e] = TRUE]
  /\ UNCHANGED <<kernelVars, mem, sock, epollFd, epollEvent, dataVars,
                 sharedVars, wbatch, wsize, notWorker>>

Worker(e) ==
  \/ EpollWait(e) \/ NextEvent(e)
  \/ ReadLock(e) \/ Recv(e) \/ RecvNothing(e)
  \/ WriteSize(e) \/ Send(e) \/ SendAgain(e) \/ SendFails(e) \/ WriteRelease(e)
  \/ WorkerStore(e) \/ WorkerCtl(e)
  \/ CloseSocket(e) \/ RemoveConnection(e) \/ Kill(e)

-----------------------------------------------------------------------------
(* The push thread.                                                        *)

\* Take mutex_ and start over the map.
PassBegin ==
  /\ ppc = "idle"
  /\ ppc' = "scan" /\ ptodo' = Mapped
  /\ UNCHANGED <<kernelVars, objectVars, sharedVars, pcur, pevents, notPush>>

\* doPushSend on a connection with nothing to announce.
ScanSkip(f) ==
  /\ ppc = "scan" /\ f \in ptodo
  /\ ~pushSend[connections[f]]
  /\ ptodo' = ptodo \ {f}
  /\ UNCHANGED <<kernelVars, objectVars, sharedVars, ppc, pcur, pevents,
                 notPush>>

\* doPushSend: the announcement is taken.
ScanTake(f) ==
  LET c == connections[f]
  IN  /\ ppc = "scan" /\ f \in ptodo
      /\ pushSend[c]
      /\ pushSend' = [pushSend EXCEPT ![c] = FALSE]
      /\ ppc' = "acquire" /\ pcur' = c /\ ptodo' = ptodo \ {f}
      /\ UNCHANGED <<kernelVars, mem, sock, epollFd, epollEvent, active,
                     packetList, sendBuffer, writeLock, readLock, sharedVars,
                     pevents, notPush>>

\* TryAcquireWriteLock; when it is taken the connection is passed over.
PushAcquire ==
  /\ ppc = "acquire"
  /\ writeLock' = [writeLock EXCEPT ![pcur] = TRUE]
  /\ IF writeLock[pcur] THEN ppc' = "scan" /\ pcur' = None
                        ELSE ppc' = "check" /\ UNCHANGED pcur
  /\ UNCHANGED <<kernelVars, mem, sock, epollFd, epollEvent, active,
                 packetList, sendBuffer, pushSend, readLock, sharedVars, ptodo,
                 pevents, notPush>>

\* ModifyRegistInfo(true): ask for OUT only if something remains to be sent,
PushCheck ==
  /\ ppc = "check"
  /\ pevents' = {"IN"}
  /\ ppc' = IF sendBuffer[pcur] > 0 THEN "take" ELSE "store"
  /\ UNCHANGED <<kernelVars, objectVars, sharedVars, pcur, ptodo, notPush>>

\* ... in which case the lock is acquired once more, whatever that returns.
PushTake ==
  /\ ppc = "take"
  /\ writeLock' = [writeLock EXCEPT ![pcur] = TRUE]
  /\ pevents' = {"IN", "OUT"}
  /\ ppc' = "store"
  /\ UNCHANGED <<kernelVars, mem, sock, epollFd, epollEvent, active,
                 packetList, sendBuffer, pushSend, readLock, sharedVars, pcur,
                 ptodo, notPush>>

PushStore ==
  /\ ppc = "store"
  /\ epollEvent' = [epollEvent EXCEPT ![pcur] = pevents]
  /\ ppc' = "ctl" /\ pevents' = {}
  /\ UNCHANGED <<kernelVars, mem, sock, epollFd, active, dataVars, sharedVars,
                 pcur, ptodo, notPush>>

\* Mutant: a failed epoll_ctl is announced again, to be retried at once.
PushCtlRetries ==
  /\ ppc = "ctl"
  /\ Rearm(pcur)
  /\ pushSend' = [pushSend EXCEPT ![pcur] = ~ModSucceeds(pcur)]
  /\ writeLock' = [writeLock EXCEPT ![pcur] = ModSucceeds(pcur)]
  /\ ptodo' = IF ModSucceeds(pcur) THEN ptodo ELSE Mapped
  /\ ppc' = "scan" /\ pcur' = None
  /\ UNCHANGED <<fdTable, unread, peerOpen, asked, mem, sock, epollFd,
                 epollEvent, active, packetList, sendBuffer, readLock,
                 sharedVars, pevents, notPush>>

\* epoll_ctl; when it fails the pass starts over.
PushCtl ==
  /\ ppc = "ctl"
  /\ Rearm(pcur)
  /\ ptodo' = IF ModSucceeds(pcur) THEN ptodo ELSE Mapped
  /\ ppc' = "scan" /\ pcur' = None
  /\ UNCHANGED <<fdTable, unread, peerOpen, asked, objectVars, sharedVars,
                 pevents, notPush>>

\* Release mutex_ and sleep.
PassEnd ==
  /\ ppc = "scan" /\ ptodo = {}
  /\ ppc' = "idle"
  /\ UNCHANGED <<kernelVars, objectVars, sharedVars, pcur, ptodo, pevents,
                 notPush>>

Push ==
  \/ PassBegin
  \/ \E f \in Fd : ScanSkip(f) \/ ScanTake(f)
  \/ PushAcquire \/ PushCheck \/ PushTake \/ PushStore \/ PushCtl
  \/ PassEnd

-----------------------------------------------------------------------------
(* The session thread.                                                     *)

\* CSyncQueue::deEnqueue, called until the queue is empty.
deEnqueue == sessionList' = sessionList \cup waiting /\ waiting' = {}

\* checkSession takes over every waiting session.
Drain ==
  /\ spc = "update" /\ stodo = {}
  /\ deEnqueue
  /\ spc' = "sweep" /\ stodo' = sessionList'
  /\ UNCHANGED <<kernelVars, objectVars, connections, iocpIndex, fate, scur,
                 notSession>>

\* checkSession on one session: keep it, or erase, destroy and delete it.
\* The fields of freed memory are set back: nothing may be read from it.
SweepKeep(c) ==
  /\ spc = "sweep" /\ c \in stodo
  /\ active[c]
  /\ stodo' = stodo \ {c}
  /\ UNCHANGED <<kernelVars, objectVars, sharedVars, spc, scur, notSession>>

SweepFree(c) ==
  /\ spc = "sweep" /\ c \in stodo
  /\ ~active[c]
  /\ sessionList' = sessionList \ {c}
  /\ mem' = [mem EXCEPT ![c] = "freed"]
  /\ stodo' = stodo \ {c}
  /\ sock' = [sock EXCEPT ![c] = None]
  /\ epollFd' = [epollFd EXCEPT ![c] = None]
  /\ epollEvent' = [epollEvent EXCEPT ![c] = {}]
  /\ packetList' = [packetList EXCEPT ![c] = 0]
  /\ sendBuffer' = [sendBuffer EXCEPT ![c] = 0]
  /\ pushSend' = [pushSend EXCEPT ![c] = FALSE]
  /\ writeLock' = [writeLock EXCEPT ![c] = FALSE]
  /\ readLock' = [readLock EXCEPT ![c] = FALSE]
  /\ UNCHANGED <<kernelVars, active, connections, iocpIndex, waiting, fate,
                 spc, scur, notSession>>

SweepDone ==
  /\ spc = "sweep" /\ stodo = {}
  /\ spc' = "update" /\ stodo' = sessionList
  /\ UNCHANGED <<kernelVars, objectVars, sharedVars, scur, notSession>>

\* update on one session: it is skipped when it is not active any more.
UpdateSkip(c) ==
  /\ spc = "update" /\ c \in stodo
  /\ ~active[c]
  /\ stodo' = stodo \ {c}
  /\ UNCHANGED <<kernelVars, objectVars, sharedVars, spc, scur, notSession>>

UpdateEnter(c) ==
  /\ spc = "update" /\ c \in stodo
  /\ active[c]
  /\ spc' = "handle" /\ scur' = c /\ stodo' = stodo \ {c}
  /\ UNCHANGED <<kernelVars, objectVars, sharedVars, notSession>>

\* A handler takes a packet and writes its reply to the send buffer, ...
Handle ==
  /\ spc = "handle"
  /\ active[scur] /\ packetList[scur] > 0
  /\ packetList' = [packetList EXCEPT ![scur] = @ - 1]
  /\ sendBuffer' = [sendBuffer EXCEPT ![scur] = @ + 1]
  /\ spc' = "notify"
  /\ UNCHANGED <<kernelVars, mem, sock, epollFd, epollEvent, active, pushSend,
                 writeLock, readLock, sharedVars, scur, stodo, notSession>>

PushSend(c) == pushSend' = [pushSend EXCEPT ![c] = TRUE]

\* ... then notifies the push thread.
Notify ==
  /\ spc = "notify"
  /\ PushSend(scur)
  /\ spc' = "handle"
  /\ UNCHANGED <<kernelVars, mem, sock, epollFd, epollEvent, active,
                 packetList, sendBuffer, writeLock, readLock, sharedVars, scur,
                 stodo, notSession>>

UpdateLeave ==
  /\ spc = "handle"
  /\ ~active[scur] \/ packetList[scur] = 0
  /\ spc' = "update" /\ scur' = None
  /\ UNCHANGED <<kernelVars, objectVars, sharedVars, stodo, notSession>>

SessionThread ==
  \/ Drain
  \/ \E c \in Conn : SweepKeep(c) \/ SweepFree(c)
  \/ SweepDone
  \/ \E c \in Conn : UpdateSkip(c) \/ UpdateEnter(c)
  \/ Handle \/ Notify \/ UpdateLeave

-----------------------------------------------------------------------------
Peer == \E c \in Conn : Ask(c) \/ Hangup(c)

Next ==
  /\ fate = "runs"
  /\ \/ Peer
     \/ Listener
     \/ \E e \in Epoll : Worker(e)
     \/ Push
     \/ SessionThread

Spec == Init /\ [][Next]_vars
-----------------------------------------------------------------------------
\* The range of every variable.
TypeOK ==
  /\ fdTable \in [Fd -> Conn \cup {None}]
  /\ watched \in [Epoll -> [Fd -> Conn \cup {None}]]
  /\ mask \in [Epoll -> [Fd -> SUBSET Interest]]
  /\ unread \in [Conn -> Nat]
  /\ peerOpen \in [Conn -> BOOLEAN]
  /\ asked \in [Conn -> Nat]
  /\ mem \in [Conn -> {"unborn", "live", "freed"}]
  /\ sock \in [Conn -> Fd \cup {None}]
  /\ epollFd \in [Conn -> Epoll \cup {None}]
  /\ epollEvent \in [Conn -> SUBSET Interest]
  /\ active \in [Conn -> BOOLEAN]
  /\ packetList \in [Conn -> Nat]
  /\ sendBuffer \in [Conn -> Nat]
  /\ pushSend \in [Conn -> BOOLEAN]
  /\ writeLock \in [Conn -> BOOLEAN]
  /\ readLock \in [Conn -> BOOLEAN]
  /\ connections \in [Fd -> Conn \cup {None}]
  /\ iocpIndex \in Epoll
  /\ waiting \in SUBSET Conn
  /\ sessionList \in SUBSET Conn
  /\ fate \in {"runs", "SIGPIPE"}
  /\ lpc \in {"accept", "session", "connection"}
  /\ lcur \in Conn \cup {None}
  /\ wpc \in [Epoll -> {"next", "read", "recv", "size", "send", "release",
                        "store", "ctl", "close", "remove", "kill"}]
  /\ wcur \in [Epoll -> Conn \cup {None}]
  /\ wevs \in [Epoll -> SUBSET {"IN", "OUT", "HUP"}]
  /\ wbatch \in [Epoll -> SUBSET Event]
  /\ wok \in [Epoll -> BOOLEAN]
  /\ wsize \in [Epoll -> Nat]
  /\ ppc \in {"idle", "scan", "acquire", "check", "take", "store", "ctl"}
  /\ pcur \in Conn \cup {None}
  /\ ptodo \in SUBSET Fd
  /\ pevents \in SUBSET Interest
  /\ spc \in {"sweep", "update", "handle", "notify"}
  /\ scur \in Conn \cup {None}
  /\ stodo \in SUBSET Conn

-----------------------------------------------------------------------------
(* Safety.                                                                 *)

\* The connections worker e has in hand: the one it works on, the rest of
\* its batch.
InHand(e) == ({wcur[e]} \cup {ev.ptr : ev \in wbatch[e]}) \ {None}

\* Every connection some thread has, or can still get at, a pointer to.
Referenced ==
  {c \in Conn :
     \/ c \in {lcur, pcur, scur}
     \/ \E f \in Fd : connections[f] = c \/ \E e \in Epoll : watched[e][f] = c
     \/ \E e \in Epoll : c \in InHand(e)
     \/ c \in waiting \cup sessionList \cup stodo}

\* Only the session thread deletes, nobody tells the others, and descriptor
\* numbers are reused: still no pointer to a deleted connection or session is
\* left in the map, in an epoll registration, in a fetched batch, in a
\* session list or in a thread's hands.
NoDanglingPointer == \A c \in Referenced : mem[c] = "live"

\* A connection remembers the NUMBER of its socket.  Until a worker calls
\* close on it, that number still means this connection's socket and not one
\* accepted later: no worker receives, sends or closes on another's socket.
SocketIsOwn ==
  \A e \in Epoll :
    wcur[e] # None /\ wpc[e] \notin {"remove", "kill"} =>
      fdTable[sock[wcur[e]]] = wcur[e]

\* Two workers never have the same connection in hand, although the push
\* thread rearms registrations behind the workers' backs; Read and Write of
\* one connection therefore never overlap.
OneWorkerPerConnection ==
  \A e1, e2 \in Epoll : e1 # e2 => InHand(e1) \cap InHand(e2) = {}

\* A worker that comes to read finds the read lock free: TryAcquireReadLock
\* never fails and no input is left lying.
ReadLockIsFree == \A e \in Epoll : wpc[e] = "read" => ~readLock[wcur[e]]

\* Write reads the size of the send buffer without the session's mutex; what
\* it then hands to send, and removes, is still in the buffer.
SizeStillThere ==
  \A e \in Epoll : wpc[e] = "send" => wsize[e] <= sendBuffer[wcur[e]]

\* The push thread's iterators stay valid: connections_ does not change
\* during its pass, and what it has not visited is still in the map.
IteratorsStayValid ==
  [][ppc # "idle" /\ ppc' # "idle" => connections' = connections
                                      /\ ptodo \subseteq Mapped]_vars

\* ModifyRegistInfo takes the write lock to "just change the state of epoll
\* to inspect the write event": a connection whose write lock is taken has
\* its write event inspected, or a worker or the push thread has it in hand.
WriteEventInspected ==
  \A c \in Conn :
    mem[c] = "live" /\ active[c] /\ writeLock[c] =>
      \/ "OUT" \in mask[epollFd[c]][sock[c]]
      \/ pcur = c
      \/ \E e \in Epoll : c \in InHand(e)

-----------------------------------------------------------------------------
(* The inductive invariant behind the safety properties.  A connection that*)
(* has not been killed is live, and everything but the session lists knows *)
(* only connections that have not been killed.                             *)

\* A connection that has not been killed is live, and so is the one whose
\* socket a descriptor number refers to.
ObjectsOK ==
  /\ \A c \in Conn : /\ mem[c] = "unborn" => epollFd[c] = None
                     /\ active[c] => mem[c] = "live" /\ sock[c] \in Fd
  /\ \A f \in Fd : fdTable[f] # None =>
       active[fdTable[f]] /\ sock[fdTable[f]] = f

ConnectionsOK ==
  \A f \in Fd : connections[f] # None =>
    /\ active[connections[f]]
    /\ sock[connections[f]] = f
    /\ epollFd[connections[f]] \in Epoll

\* A registration points to the connection the number belongs to or, after
\* the push thread rearmed a successor's, to one being removed by the only
\* worker that could fetch it.
RegistrationsOK ==
  \A e \in Epoll, f \in Fd :
    /\ mask[e][f] # {} => watched[e][f] # None
    /\ watched[e][f] # None =>
         /\ active[watched[e][f]]
         /\ sock[watched[e][f]] = f
         /\ epollFd[watched[e][f]] = e
         /\ \/ fdTable[f] = watched[e][f]
            \/ wpc[e] = "remove" /\ wcur[e] = watched[e][f]

\* What a worker works on is a connection of its own epoll, whose socket it
\* has not closed until it is at "remove", and which has left the map at
\* "kill".
CurrentOK ==
  \A e \in Epoll :
    /\ wpc[e] = "next" <=> wcur[e] = None
    /\ wcur[e] # None =>
         /\ active[wcur[e]]
         /\ epollFd[wcur[e]] = e
         /\ wpc[e] \in {"remove", "kill"} <=> fdTable[sock[wcur[e]]] # wcur[e]
         /\ wpc[e] = "kill" => connections[sock[wcur[e]]] # wcur[e]

\* The socket of a connection not yet killed is closed only while a worker is
\* on its way from close to kill.
ClosingOK ==
  \A c \in Conn : active[c] =>
    \/ fdTable[sock[c]] = c
    \/ \E e \in Epoll : wpc[e] \in {"remove", "kill"} /\ wcur[e] = c

BatchOK ==
  \A e \in Epoll : \A ev \in wbatch[e] :
    /\ active[ev.ptr]
    /\ epollFd[ev.ptr] = e
    /\ fdTable[sock[ev.ptr]] = ev.ptr
    /\ ev.ptr # wcur[e]
    /\ \A other \in wbatch[e] : other.ptr = ev.ptr => other = ev

\* The push thread holds the mutex, so what it works on is in the map.
PushOK ==
  /\ ppc \in {"idle", "scan"} <=> pcur = None
  /\ pcur # None => sock[pcur] \in Fd /\ connections[sock[pcur]] = pcur
  /\ ptodo \subseteq (IF ppc = "idle" THEN {} ELSE Mapped)

\* Only the listener knows a connection it has not registered, and at first
\* it is the only thread to know it at all.
ListenerOK ==
  /\ lpc = "accept" <=> lcur = None
  /\ lcur # None =>
       /\ active[lcur]
       /\ fdTable[sock[lcur]] = lcur
       /\ epollFd[lcur] = None
  /\ lpc = "session" => lcur \notin waiting \cup sessionList

SessionsOK ==
  /\ \A c \in waiting \cup sessionList : mem[c] = "live"
  /\ waiting \cap sessionList = {}
  /\ stodo \subseteq sessionList
  /\ spc \in {"sweep", "update"} <=> scur = None
  /\ scur # None => scur \in sessionList

\* The read lock is taken only while a worker is inside Read.
ReadLocksOK ==
  \A c \in Conn : readLock[c] =>
    \E e \in Epoll : wpc[e] = "recv" /\ wcur[e] = c

IInv ==
  /\ TypeOK
  /\ ObjectsOK /\ ConnectionsOK /\ RegistrationsOK
  /\ CurrentOK /\ ClosingOK /\ BatchOK
  /\ PushOK /\ ListenerOK /\ SessionsOK
  /\ ReadLocksOK /\ SizeStillThere

-----------------------------------------------------------------------------
(* Liveness.                                                               *)

\* Threads that can go on do, and a thread that waits for a mutex which is
\* released again and again gets it (its other user sleeps, or finds nothing
\* to do, in between): as long as the process runs.
Running(A) == fate = "runs" /\ A

Fairness ==
  /\ WF_vars(Running(AddSession))
  /\ SF_vars(Running(AddConnection))
  /\ \A e \in Epoll : /\ WF_vars(Running(Worker(e)))
                      /\ SF_vars(Running(Recv(e)))
                      /\ SF_vars(Running(RemoveConnection(e)))
  /\ WF_vars(Running(Push))
  /\ WF_vars(Running(SessionThread))

FairSpec == Spec /\ Fairness

\* A descriptor number was reused while the connection it belonged to was
\* between close and removeConnection, and the successor is already added:
\* removeConnection then works on the successor's registration.
Overtaken ==
  \E e \in Epoll, d \in Conn :
    /\ wpc[e] = "remove"
    /\ d # wcur[e] /\ mem[d] = "live" /\ epollFd[d] # None
    /\ sock[d] = sock[wcur[e]]

\* A connection whose peer is gone ends up freed, unless a number is reused
\* in the window of Overtaken or a reply to a peer that is gone, this one or
\* another, has ended the process.
DeadPeerIsReclaimed ==
  []~Overtaken =>
    \A c \in Conn : (mem[c] = "live" /\ ~peerOpen[c])
                     ~> (mem[c] = "freed" \/ fate = "SIGPIPE")

\* Requests of a peer that stays are all handled, under the same conditions:
\* no arming of the registration is lost, whoever makes it.
RequestsAreHandled ==
  []~Overtaken =>
    \A c \in Conn :
      (mem[c] = "live" /\ unread[c] + packetList[c] > 0)
        ~> (\/ unread[c] + packetList[c] = 0
            \/ ~peerOpen[c] \/ fate = "SIGPIPE")

\* A pass of the push thread ends although every failed rearm restarts it:
\* the mutex is not held for ever, unless with the process.
PassEnds == (ppc # "idle") ~> (ppc = "idle" \/ fate = "SIGPIPE")
=============================================================================

# Verification of the epoll server and its data structures

The repository holds one server written three times - `src/` (Linux, epoll,
several kinds of threads), `singlethread/` (the same, with fewer kinds of
threads) and `IoCompletePort/` (the Windows original on completion ports) - a
demo client for it, a red-black tree in an array and a breadth-first search
demo. The server's own logic is small; what makes it hard is that four kinds
of threads share connections and sessions through raw pointers, one-shot epoll
registrations, try-locks and a few mutexes, and that descriptor numbers are
reused. That is what the core of this project is about.

## Inventory

### The epoll server, `src/`

| component | state | operations | talks to |
|---|---|---|---|
| `CListener` | listening socket | `Kernel`: select, accept, `onAccept` | creates a `CTcpConnection` and a `Session`, hands them to both managers |
| `CTcpConnectionMgr` | `connections_` (by descriptor), `epollFdVec_`, `iocpIndex_`, `mutex_` | `addConnection`, `removeConnection` | called by listener and workers |
| `PushSendThread` | its iterator | `Kernel`: one pass over `connections_` under `mutex_`, `doPushSend` on each, restart after a failed rearm | connections |
| `CWorkThread` | its epoll, the batch it fetched | `Kernel`: `epoll_wait`, then per event `Close`, or `Read`/`Write` and `ModifyRegistInfo` | connections |
| `CTcpConnection` | socket number, epoll, `epollEvent_`, read buffer, `writeLock_`, `readLock_`, `pushSend_` | `Read`, `Write`, `Close`, `Regist`, `UnRegist`, `ModifyRegistInfo`, `pushSend`, `doPushSend` | its session, its manager, the kernel |
| `Session` | `state_`, `packetList_`, `sendBuffer_`, `mutex_` | `pushPacket`, `update` and the handlers, `pushSendPacket`, `kill`, `destroy` | its connection |
| `CSessionMgr` | `watingSesion_`, `sessionList_` | `addSession`, `checkSession`, `update` | sessions; the only place that deletes them |
| `CSyncQueue` | a deque and a mutex | `enqueue`, `deEnqueue` | |
| `CircularBuffer` | two regions of one memory | `Write`, `Read`, `Remove` | owned by a connection's reading worker |
| `CSyncBuffer` | read and write pointer into a growing memory, a mutex | `write`, `remove`, `restoration`, `resize`, unlocked getters | shared by session thread and worker |
| `ThreadBase` | `thradState_` | `start`, `pause`, `resume`, `stop`, `Run` | base of all threads |
| `Mutex`, `AutoLock` | a pthread mutex | `lock`, `unlock`, scoped | everything above |
| `CircleBuffer` | a ring | `write`, `read`, `remove` | no user left |
| `main` | the threads it has started, the signal mask | start, wait for a signal, return | listener, managers |

How they interact: the listener gives a new session to the session manager's
queue and then a new connection to the connection manager, which enters it in
the map and registers it with one epoll. The worker of that epoll reads
requests into the session's packet list. The session thread handles them,
appends replies to the send buffer and raises `pushSend_`. The push thread
sees the flag on its next pass and rearms the registration with `EPOLLOUT`,
upon which the worker sends. A worker that learns that the peer is gone
closes the socket, takes the connection out of the map and kills the session;
the session thread deletes both objects when it next comes by.

What is hard about it:

- *Deletion.* Nobody tells the push thread or the other workers that an
  object has been deleted. Everything depends on the order in `Close` and on
  one-shot registrations keeping all but one worker away.
- *Reused numbers.* `close(socket_)` precedes `removeConnection`, which works
  by number; in between the listener may give the number to a successor.
- *Double arming.* The push thread rearms a registration while the worker
  that was handed it is still inside `Read` or `Write`.
- *Unlocked reads.* `Write` looks at the send buffer without the session's
  mutex.
- *`SIGPIPE`.* `send` without `MSG_NOSIGNAL` to a peer that has reset its
  connection ends the whole process.
- *Nothing may be forgotten.* A path that fails to rearm silences a
  connection; a failed rearm restarts the push pass with the mutex held.

What makes each component correct: listener and managers - each connection is
served, by one worker, and finally deleted; connection - it works on its own
socket, its locks are released, requests are neither lost nor left lying;
session - replies in the buffer are stable while they are being sent; session
manager - it deletes only what nobody else can reach; buffers - first in,
first out, within their memory; thread base - `stop` returns.

### The other two servers and their client

`singlethread/` drops push and session thread: after each batch of events every
worker calls `CSessionMgr::update` itself, and a handler sends its answer
directly, from `pushSendPacket`. What is hard: `sessionList_` is common to the
workers and not locked; the mutex of this variant is not recursive, and
`CSyncBuffer::write` calls `resize` with the mutex held; a `send` that takes
less than it was given leaves the rest until the next answer; and a handler
sends by descriptor number, in any worker, also after the connection's own
worker has closed that number and the listener has given it to the next client.

`IoCompletePort/` replaces one-shot registrations by overlapped operations. A
connection has one read outstanding from `addConnection` on, restarted by the
worker that gets its completion; a write is started by the push thread or
restarted by the worker, and `writeLock_` stands for a write in flight. What is
hard: the push thread may look at `pushSend_` between the worker's last look at
the send buffer and its release of the lock; an operation may complete after
the connection was closed, or deleted; the map's mutex is held during a whole
push pass. Its `_tmain` starts the threads, waits for an event that the console
handler sets, and stops two of them.

`tcpclient` sends a request A and a request B and then waits for one `recv`. It
is what these two servers are checked against.

### The rest

`rb_tree_array.cpp` is a red-black tree with indices for pointers, for insertion
and search only; `main.cpp` times it. `bfsdemo` finds a shortest path in a fixed
graph. `cmake-build-debug`, `.idea` and the Visual Studio files are generated.

## Modules

| module | models | composition |
|---|---|---|
| `EpollServer` | listener, workers, push thread, session thread; connections, sessions, managers; the kernel's descriptor table and epolls; the peers | the core |
| `EpollServer_proofs` | | extends `EpollServer` |
| `PacketChannel` | what the receiving half of a connection promises the session: packets whole, once, in order | abstract specification |
| `PacketReader` | `Read`, `onRead` and `getPacketFromReadBuffer` of `CTcpConnection`, a peer and the network | uses `ByteFifo` as read buffer, implements `PacketChannel` |
| `PacketReader_proofs` | | extends `PacketReader` |
| `Session` | `Session` and the packets it owns, between worker and session thread | uses `TcpPackets` for what the client declares |
| `Session_proofs` | | extends `Session` |
| `Mutex` | `Mutex` and nested `AutoLock` objects | |
| `SendQueue` | what the send buffer promises: replies leave it in their order | abstract specification |
| `SyncBuffer` | `CSyncBuffer`, pointer by pointer, and `Write` of `CTcpConnection` as its reader | extends `Mutex`, implements `SendQueue` |
| `SyncBuffer_proofs` | proofs about `Mutex` and `SyncBuffer` | extends `SyncBuffer` |
| `ByteFifo` | what a receive buffer promises: a bounded FIFO queue of bytes | abstract specification |
| `CircularBuffer` | `CircularBuffer.cpp`, byte for byte | implements `ByteFifo` |
| `CircleBuffer` | `circleBuffer.cpp`, byte for byte | compared with a FIFO queue |
| `ReadBuffers` | a behaviour of either buffer | extends `CircularBuffer`, instantiates `CircleBuffer` |
| `DataStructures_proofs` | proofs about both buffers and the tree | extends `ReadBuffers`, `RBTree` |
| `ThreadBase` | `threadBase.cpp` against any client, one load or store per step | |
| `EpollMain`, `IocpMain` | the main functions of the two servers and the kernels of their threads | extend `ThreadBase` |
| `ServerMain` | a behaviour of either program, or of any client of `ThreadBase` | extends `ThreadBase`, instantiates `EpollMain` and `IocpMain` |
| `ServerMain_proofs` | proofs about `ThreadBase` and the two programs | extends `ServerMain` |
| `TcpClient`, `TcpPackets` | `tcpclient`: its loop, its declarations of packets | |
| `IocpServer` | the completion-port server | extends `TcpClient` |
| `IocpServer_proofs` | | extends `IocpServer` |
| `InlineServer` | the server of `singlethread/` | extends `TcpClient` |
| `InlineServer_proofs` | | extends `InlineServer` |
| `RBTree` | `rb_tree_array.cpp`, one iteration of a loop per step | |
| `MCEpollServer`, `MCPacketReader`, `MCSyncBuffer`, `MCServerMain`, `MCInlineServer`, `MCIocpServer`, `MCRBTree` | instances for TLC | extend the above |

### `EpollServer`

A connection and its session are created together, point at each other and are
deleted together, so one element of `Conn` stands for both; a connection
that has been deleted does not come back. Each thread has a program counter
(`lpc`, `wpc[e]`, `ppc`, `spc`) and its local variables. A step is what a
thread does between two accesses to state that another thread can change, so
`Read` is `ReadLock`, then one `Recv` or `RecvNothing` per turn of its loop;
`Write` is `WriteSize`, `Send` (or `SendAgain`, `SendFails`), `WriteRelease`;
`ModifyRegistInfo` is `WorkerStore`, `WorkerCtl` for a worker and
`PushCheck` (is anything left to send?), `PushTake` (then the lock is taken a
second time and `EPOLLOUT` asked for), `PushStore`, `PushCtl` for the push
thread; `Close` is
`CloseSocket`, `RemoveConnection`, `Kill`. The push thread holds the manager's
mutex from `PassBegin` to `PassEnd`; `AddConnection` and `RemoveConnection`
hold it for one step, which is all they do with the state it protects.

The kernel is modelled as the code uses it: `fdTable` says whose socket a
number refers to, `watched[e][f]` and `mask[e][f]` are the registrations of
epoll `e`. `EPOLLONESHOT` empties the mask when an event is handed out,
`close` removes the number from every epoll, `EPOLL_CTL_MOD` fails without a
registration, `EPOLL_CTL_ADD` fails with one. What `epoll_wait` reports is
read from the socket the number refers to; it may report any subset of what
is ready. `EPOLLET` adds nothing to this: every report disarms, every rearm
asks again. `errno` after a failing `recv` on a dead connection is whatever
it is: both ways are possible. `SendFails` may be the end of the process:
`Epoll.cpp` does not ignore `SIGPIPE` and `send` is called with flags 0. Then
`fate` is `"SIGPIPE"` and nothing happens any more; the liveness properties
exempt it.

Messages are counted. `unread` are requests in the socket, `packetList` those
the session has not handled, `sendBuffer` replies not yet taken by `send`;
`send` takes any part of what it is given. Framing (see `PacketReader`), the contents of packets
and the pointers of the send buffer (see `SyncBuffer`) are left out. `watingSesion_` and
`sessionList_` are sets, because their order decides nothing: every element
is visited in each pass. The fields of a deleted connection are reset, which
makes states comparable and hides nothing, since `NoDanglingPointer` says
that nobody looks at them.

### `CircularBuffer` and `ByteFifo`

Pointers are offsets, `NULL` is -1, the memory starts out arbitrary. `Write`
has its three branches; `Remove` is `AfterRemove` followed by `Switched`.
The refinement maps the queue of `ByteFifo` to what `Read` would return for
all the bytes there are.

### `CircleBuffer`

The ring has one cell less than its memory, while the sizes are computed modulo
all of it. `FifoExceptAtTheEdges` says that `write` and `remove` act as on a
queue of bytes with exactly two exceptions, which it spells out: a write that
fills the ring leaves it looking empty, and while the data wraps one byte too
many is reported. The constructor clears `DEF_BUFFER_SIZE` bytes whatever its
argument, so the code may only be used with that size or more; a small `Size`
here is a large ring scaled down.

### `Mutex`, `SyncBuffer` and `SendQueue`

A mutex is recursive or plain: `src/` asks for a recursive one through an
attribute object it has not initialized, so `kind` is chosen at the start, and
`singlethread/` makes a plain one. A thread that locks a plain mutex it owns
waits for ever, and so does everyone else.

A pointer into the send buffer is the number of an allocation and an offset, so
that a pointer that `resize` has freed can be told from a good one. `write` is
`BeginWrite`, `Lock`, `Write`, possibly `Resize`, `ResizeRptr`, `ResizeWptr`,
then `Copy` and `Advance`: every store to a pointer that the worker reads
without the lock is a step. `Write` of `CTcpConnection` loads the pointers one
by one (`getUsedSize` in either order, as the compiler may) and sends what is
behind the one `getRead` returned; memory that has been freed reads as
anything. `remove` and `restoration` are the worker's, under the lock.
`SendQueue` is implemented whatever is interleaved. What reaches the peer is in
order (`SentInOrder`) unless `resize` ran while `Write` was under way
(`grewMeanwhile`): then `send` may be given freed memory, and nothing can be
promised.

### `ThreadBase`, `EpollMain`, `IocpMain`

`ThreadBase` has `start`, `pause`, `resume` and `stop` of a client and the loop
`Run`, with every load and store of `thradState_` as a step. `Run` stores
`enumThreadRun` without looking at what it overwrites, so that a `stop` that
comes before it is lost: `StopSticks` says that a stop stored after the thread
has begun is never overwritten (a pause only by the thread's own end),
`EndsWhenTold` that `stop` returns unless the stop was lost. `Kernel` of most
classes stores no state; `KernelFails` is one that ends its own thread, as
`CListener::Kernel` of the epoll server does when `select` fails. In
`EpollMain` the listener may do this at any time, so that nothing is accepted
any more and `main` still waits for its signal; in `IocpMain` no class does.
`start` does not look at whether a thread was created. `stop` of one that was
not waits for a `thread_` nobody has written: `WaitForSingleObject` fails at
once, while what `pthread_join` does is undefined. `Join` may return then, and
no fairness says that it does (`JoinEnded`). `EpollMain` and `IocpMain` are the two programs: the threads they
start, in which order, the listener's `preRunKernel` with its three ways to
fail, signals and events, and the end of the process. The epoll server blocks
its signals in `main` only, after the other threads were started, so that
a signal may also take its default action through one of those. Its listener is a
local variable of `main`, so from `main`'s return on the listener's thread may
do anything (`DestroyedListener`). `_tmain` stops its two threads first, and
`SessionsOutliveListener` is about their order; the threads of the connection
manager are not stopped in either program, and end with it.

### `Session` and `TcpPackets`

One session between the worker that cuts packets from the stream and the session
thread. `GetPacket` puts a packet on the heap, `PushPacket` enters it in the
list under the session's mutex, `Kill` disables the session. `update` is `Look`,
`Loop`, `ProcessMsg`, `Delete` and `PopFront`, with the mutex held in between.
Opcodes and sizes are those of the server's headers, `TcpPackets` has those of
the client's; `AnswersInOrder` compares them through what the handlers answer.
Only the two requests the client knows arrive.

### `TcpClient`, `IocpServer`, `InlineServer`

`TcpClient` makes its two requests per round and receives once. No server closes
the connection first, so the end of its loop (`recv` returning 0) is
unreachable; it ends when it is killed, in one of its first `MaxKilled` rounds.

In `IocpServer` `startNextRead`, `startNextWrite` and `close` are called by
listener, workers and push thread, so a step names the thread that is in them
(`at[t]`). An overlapped operation is `"pending"` in the system, `"queued"` at
the port as a completion, and then in a worker's hand; a completion carries the
connection it belongs to, whether or not that still exists. Operations that are
pending at `closesocket` complete with an error. A write completes no later
than the client's next request: the socket's own buffer is 0 bytes
(`SO_SNDBUF`), so a completion means that the client's system has the answer.
Each connection has a socket number of its own; what becomes of reused numbers
is the subject of `EpollServer`. A behaviour stops when something that still
refers to a deleted connection could use it (`Dangling`), as nothing can be said
of what follows; `ForgottenForGood` says how far this can reach: only
operations and threads that were under way at the deletion.

In `InlineServer` the system calls go by descriptor number, as in the code.
`socket_[c]` is the number a connection was given and keeps after its socket was
closed; `Opened(f)` is the connection the kernel has under a number now. `Send`
goes to `Opened(socket_[c])`, which is another connection when the number has
been given away since `close`: `foreign` counts, for each client, the answers it
was sent that were meant for another. `UnRegist` ends whatever registration the
closer's epoll has under the number, the map entry is found by number, and
`insert` does nothing if there is one already. A successor that loses its
registration this way is `Overtaken`, a client for whose connection the kernel
has no number left is `Refused`; neither is served, and the liveness properties
exempt both. `AnsweredOnce` accounts for `foreign` and says who can get such
answers: a client whose connection has the number of a closed one, whose client
is gone. Nobody takes an answer for a request of a client that lives away from
it.

The states after which the model stops are named by `fate`: `"race"` (a worker
changes `sessionList_` while another is in it, which is undefined) and
`"SIGPIPE"` (a send to a client that is gone ends the process). `resize`, called
with the plain mutex held, never returns: the worker is `"stuck"`, and its epoll
with it. `addSession` precedes `addConnection` in this variant.

### `PacketReader` and `PacketChannel`

One connection seen from its reading worker. A byte is represented by its
position in the stream, so that a lost, repeated or misplaced byte shows; the
header at a position tells the size the peer wrote there, and any number if
no packet starts there. `Arrive` lets the network deliver the stream in pieces
of any length. `Recv` is one turn of the loop in `Read` up to the call of
`onRead`, `GetPacket` one turn of the loop in `onRead`, `NoPacket` its end and
the test of `len < size` that follows it. `Read` on an open connection starts
when input is reported; that it then gets the read lock is `ReadLockIsFree` of
`EpollServer`, and that input is reported is part of `RequestsAreHandled`. The
read buffer is the queue of `ByteFifo`, which `CircularBuffer` implements.

Packets are at least a header long and fit the read buffer
(`ConstantsAssumption`). The code checks neither: a longer packet fills the
buffer and leaves `Read` in its loop, a `size_` of 0 leaves `onRead` in its
own. No client in the repository sends such packets and no document says what
should happen to them.

### `RBTree`

`left_` and `right_` are `child[i]["left"]` and `child[i]["right"]`, so that
one action stands for a branch of `insertFix` and its mirror image. The
lookups of the walk down, the recolouring and the rotations are separate
steps; `accepted` records the keys for which `insert` has returned true.
Both tests for a full array are there: `isFull`, by `size_`, and the index 0
that `allocIndex` returns, by `curr_idx_` (`RootAt`, `AttachAt`);
`NoElementIsLost` is why the second never decides anything.
`connect` cannot fail for the parent the walk ends at, so the paths that give
an index back are not there. `search` is a recursive function, compared with
`accepted` between calls. `mPrint` is compared with the keys in their order
(`PrintsInOrder`); `destroy` may be followed by a new `init`.

## Runs

All bounds are in the `.cfg` files.

| run | bounds | distinct states | what it shows |
|---|---|---|---|
| `epoll_reclaim` | 2 connections on 1 number, 2 epolls, 1 request by `c1` | 45 thousand | `NoDanglingPointer`, `SocketIsOwn`, `OneWorkerPerConnection`, `SizeStillThere`, `IteratorsStayValid` while a number moves from one connection, epoll and worker to the next; liveness: `DeadPeerIsReclaimed` |
| `epoll_requests` | 1 connection, 2 requests | 31 thousand | liveness: `RequestsAreHandled`, `PassEnds` |
| `epoll_write_watch` | 1 connection, 2 requests | | finding, see below |
| `packet_reader` | packets of 2, 3 and 5 bytes with a header of 2, a buffer of 5, at most 4 received at a time, none sent after the 8th byte | 10 thousand | `NeverSpins`, the refinement to `PacketChannel`, liveness: `EveryPacketArrives`. Packets of the smallest and largest size, headers cut in two, several packets in the buffer and a buffer full to the last byte occur |
| `session` | 5 packets | 6 thousand | `AnswersInOrder`, `HeapIsOwned`, liveness: `EveryPacketIsAnswered` |
| `sync_buffer` | initial size 2, replies of 1 and 2 bytes, 5 bytes written, 7 sent, 3 read from freed memory, both kinds of mutex | 147 thousand | `CopiesStayInside`, `SentInOrder`, the refinement to `SendQueue`, liveness: `EveryoneGetsIn` |
| `read_buffers` | `CircularBuffer` of 4 bytes, `CircleBuffer` of 5, 2 values | 4 thousand | `IInv`, the refinement to `ByteFifo`, `FifoExceptAtTheEdges` |
| `server_main` | three threads; the two programs and any client | 39 thousand | `AcceptsOnlyWhenReady`, `SessionsOutliveListener`, `StopSticks`, liveness: `EndsWhenTold` |
| `inline` | 2 connections on 1 number, 2 epolls, room for 1 answer; `c1` makes 2 rounds, may be killed in the first, and its socket may take less than is sent; `c2` only connects | 99 thousand | `NoDanglingPointer`, `AnsweredOnce`, liveness: `ClientIsAnswered`, `DeadClientIsReclaimed` |
| `iocp` | 1 connection, 2 rounds, 1 port, killed in the first round or not | 89 thousand | `WriteLockHasOneOwner`, `OneReadAtATime`, `AnsweredOnce`, `ForgottenForGood`, liveness: `ClientIsAnswered`, `DeadClientIsReclaimed` |
| `rb_tree_ascending` | keys 1 to 10, 9 of which fit, ascending | 19 thousand | `NoElementIsLost`, `AcceptedAreFound`, `PrintsInOrder`, `IsRedBlack`, `StackNeverUnderflows`. Nine elements need recolourings that climb and rotations at the root and below it; gaps, duplicates of the largest key, the full array, `clear`, `destroy` and a new `init` occur |
| `rb_tree_any_order` | keys 1 to 4 in any order | | finding, see below |

Why the bounds are enough. What one connection of the epoll server can do to
another it does through the map, the session list, a batch, or a number it
passes on; two connections on one number meet in all of these and in the window
between `close` and `removeConnection`. What more connections, numbers, epolls
or requests could add is covered by the proofs. One request makes every part of
the way of a request and its reply happen; a second one arrives while the first
is being answered. In the other two servers a connection has the two requests of
a round of the client, and what is hard is between the threads that share one
connection; the second round begins while the end of the first is still being
worked on. In `inline` the second connection is there to get the number of the
first: it is sent answers that were meant for `c1`, and it is refused while `c1`
lives. Each of the two has an epoll of its own, so that `Overtaken` does not
happen in this run: epolls are given out in turn, and it takes a third
connection for a successor to be with the closer's epoll - or a single epoll:
with one, both clients asking once and both mortal, the same four properties
hold, `Overtaken` included (37 thousand states). The safety properties also hold for three connections on two numbers (4.4 million states), and those of
`iocp` for a second connection that only connects (292 thousand); with liveness
these take too long to be part of the runs. The send buffer grows at most twice within
5 bytes, and the socket takes more bytes than were written, so that bytes sent
twice would show.

The bounds on counters are `MaxRequests` (`Ask`), `MaxRounds` and `MaxKilled`
(`TcpClient`), `MaxAsked` (`GetPacket`), `MaxWritten`, `MaxSent` and
`MaxGarbage` (`SyncBuffer`), `MaxDepth` (`Mutex`, as deep as the code nests)
and `MaxSent` (`PacketReader`). No run uses symmetry.

Deadlock is checked where something can always be done: in the two receive
buffers and in the tree that keeps its order. It is switched off in the epoll
server, where `SIGPIPE` may end the process, where a behaviour ends by the
bounds (`packet_reader`, `session`, `sync_buffer`), where the program ends or
waits for a client that has stopped asking (`server_main`, `iocp`, `inline`),
where what follows is undefined (`iocp`, `inline`), where a thread nests on a
plain mutex (`sync_buffer`), and for a tree that has lost a node
(`rb_tree_any_order`).

### Fairness

`EpollServer`. Threads are scheduled by the kernel and loop for ever, hence weak
fairness for each thread. `AddConnection`, `RemoveConnection` and `Recv` wait
for a mutex that its other user takes again and again; they get strong fairness,
because the push thread sleeps for a second between passes and the session
thread holds a session's mutex only while it has packets. The peers and `Accept`
are not fair: nobody has to connect, ask or hang up.

`PacketReader` is weakly fair to the worker, a running thread, and to `Arrive`:
TCP delivers what was sent while the connection lives. `Session`: weak for the
session thread, strong for `PushPacket`, which needs the mutex; the worker's
other steps are not fair. `SyncBuffer`: weak for a thread that is inside an
operation, strong for the locks; nobody has to write or send. `ServerMain`:
weak for the main functions and for threads, whose waits all have a timeout; a
signal that is not blocked is delivered.

`IocpServer`: weak for threads, for operations in flight (the system completes
them) and for the steps of a client; strong for what needs the map's mutex,
which the push thread drops between its passes, and for a push into a packet
list. `InlineServer`: weak for threads and clients, strong for the mutex of a
session. Nobody is obliged to kill a client.

`DeadPeerIsReclaimed` and `RequestsAreHandled` assume that `Overtaken` never
happens: that no successor of the same number is added between a connection's
`close` and its `removeConnection`. In that window `removeConnection` takes away
the successor's map entry and registration (both are found by number), and the
successor is not served any more. The code says nothing that this contradicts,
so it is stated as the assumption of the two properties. The safety properties
do not assume it. These two and `PassEnds` also exempt the end of the process by
`SIGPIPE`, on a reply to this peer or to another. In the same way `ClientIsAnswered` and `DeadClientIsReclaimed`
of the other two servers say what they exempt: a use of a deleted connection
(`Dangling`), a race or a `SIGPIPE` (`fate`), a worker stuck in `resize`, a
successor whose registration was ended with its predecessor's (`Overtaken`), a
client for whose connection there is no number (`Refused`), and the rest of an
answer that the socket did not take at once and nobody sends later
(`LeftOver`).

## Findings

1. `WriteEventInspected` (run `epoll_write_watch`). `writeLock_` can stay taken
   with nobody left to release it. `doPushSend` takes it and calls
   `ModifyRegistInfo(true)`, which finds the send buffer empty - the worker has
   just sent that reply together with an earlier one - and arms no `EPOLLOUT`;
   or it arms `EPOLLOUT`, and the worker that is still in its loop body
   overwrites the events with its own `ModifyRegistInfo()`. Only `Write`
   releases the lock, and only `EPOLLOUT` leads to `Write`. Later replies to
   that peer are queued and not sent.
2. `AcceptedAreFound` (run `rb_tree_any_order`). Inserting 1, 3, 2 loses 2:
   after the inner rotation `parent` is read back from the stack, where the old
   parent was just stored, so the outer rotation overwrites the link to the
   new node. The rotation also hangs its result on the side of the
   great-grandparent given by the parent's side, not by the grandparent's.
   Neither happens for ascending keys, the only order `main.cpp` tries.

## Proofs

The inductive invariants below were checked by TLC as invariants of the runs'
instances before they were proved.

`DataStructures_proofs`, the buffers, for every size of the memory and every set
of bytes. `CircularBuffer`: `InvariantTheorem` (`IInv` = `TypeOK` and `RegionsOK` is inductive),
`TypeTheorem`, `RegionsTheorem`, and `FifoTheorem`: the specification
implements `ByteFifo`. The steps are `WriteAppends` (whichever branch is
taken, what can be read afterwards is the old contents followed by the block)
and `RemoveTakes` (it is the old contents without the first n bytes). Both
need `RegionsOK`: writing behind B is right because B ends below A, and
reading on in B is right because A reaches the end of the memory. Assumption:
`SizeAssumption`, the memory is not empty. `CircleBuffer`: `RingTypeTheorem`, no
pointer leaves the ring, and `RingTheorem` (`FifoExceptAtTheEdges`). `RingSizes`
says where the two computations modulo `size_` and modulo `tail_` agree and where
they differ by one; everything else follows cell by cell, in `RingWritePuts` and
`RingRemoveTakes`. Assumption: `RingAssumption`, at least two cells.

`PacketReader_proofs`, for all sizes of header, buffers and packets and a stream
of any length: `InvariantTheorem`, `NeverSpinsTheorem` and `ChannelTheorem` (the
specification implements `PacketChannel`). Delivery in order is not inductive
by itself; `IInv` adds that the buffer holds exactly the bytes received and not
yet taken (`BufferOK`), that packets follow each other without a gap
(`StreamOK`), that the front of the buffer is the start of a packet
(`AlignedOK`), whence the header found there is genuine (`FrontIsPacket`), and
that outside `onRead` less than one packet is in the buffer (`RestOK`), which
leaves room for `recv`. Assumption: `ConstantsAssumption`.

`EpollServer_proofs`, for any set of connections, descriptor numbers, epolls
and any number of requests: `InvariantTheorem` (`IInv` holds always), and from
it `TypeTheorem`, `NoDanglingPointerTheorem`, `SocketIsOwnTheorem`,
`OneWorkerTheorem`, `ReadLockTheorem`, `SizeStillThereTheorem` and
`IteratorsTheorem`. Assumption: `ConstantsAssumption`.

None of the safety properties is inductive. That nothing dangles when the
session thread deletes rests on `Close` having removed every other reference
before `kill`; that rests on the registration of a number pointing to the
connection that owns the number; and that is disturbed by reuse: when the
push thread rearms a successor while its predecessor is between `close` and
`removeConnection`, or the other way round. `IInv` therefore says, for each place
that holds a pointer, what is true of the connection found there
(`ConnectionsOK`, `RegistrationsOK`, `CurrentOK`, `BatchOK`, `PushOK`,
`ListenerOK`, `SessionsOK`): it has not been killed, and its number is still
its own unless exactly one worker is on its way from `close` to `kill` with it
(`ClosingOK`). Two connections may share a number in that window only, and
then the registration is that of the closer's own epoll or of the successor. That
a worker holds only connections of its own epoll (`epollFd`) gives
`OneWorkerPerConnection`. There is one lemma per action, named after it, and
one step in it per conjunct that the action can disturb; `RearmEffect` is
shared by the two ways to rearm, `ClosingFrame` by the workers' steps.

`Session_proofs`, for any number of packets: `InvariantTheorem`,
`AnswersTheorem` (`AnswersInOrder`) and `HeapTheorem` (`HeapIsOwned`). What makes
them inductive is `ListOK`: the packet list is, in order, every packet from the
first that has not been answered and taken off to the last that has been pushed.
Then the heap is the list with the packet in the worker's hand and without the
one `update` has freed and not yet taken off, and the answers are those to the
packets before the list. Assumption: `MaxAskedAssumption`.

`SyncBuffer_proofs`, for replies of any lengths, a memory of any initial size and
either kind of mutex: `BufferInvariantTheorem`, `CopiesTheorem`
(`CopiesStayInside`), `SendQueueTheorem`: the specification implements
`SendQueue`, and `SentInOrderTheorem`. That a mutex keeps others out is assumed
of the system: every step is a step of `Mutex` or leaves the mutex alone, which
gives `MutexIInv` (`count` is the `depth` of the owner, and no one else has an
`AutoLock` object). What is proved is that `CSyncBuffer` takes it where it has
to. `LocksOK` says
how many `AutoLock` objects a thread has by where it is, so that the worker is
not in `remove` or `restoration` while the session thread is in `write` or
`resize`; `PointersOK` says that the pointers are in their order inside the
memory, that there is room for what is to be copied, and that what has been
copied lies behind `wptr_`. Then one lemma for each step says what becomes of
the contents: unchanged by `resize`, `restoration` and the copying, appended to
when `wptr_` advances, shortened by `remove`. While `resize` has set only one of
the pointers the contents are what lies before `len`. What the socket takes
follows the same way: bytes are numbered as they are written, so that the queue
holds the last ones (`BytesOK`); what `Write` has loaded without the lock is never
more than what is there, since only the worker itself takes bytes out
(`LoadedOK`); and the socket has exactly the bytes before the queue, and before
the next `remove` those of the last `send` (`SendingOK`). This holds until
`grewMeanwhile`, and `BlocksOK` is why: only `resize` makes a pointer that was
good point to freed memory. Assumptions: `BufferAssumption` (a reply is not longer than the initial memory; the code's
replies are 24 and 40 bytes, the memory 4096), `MutexAssumption`.

`ServerMain_proofs`. For any set of threads and any client of `ThreadBase`:
`TypeCorrect` and `StopIsNotLost` (`StopSticks`). By the invariant (`Once`) a
thread that is past its test for `enumThreadStart` never finds that state again,
so that it stores `enumThreadRun` at most once, before it has begun. For the main
functions of both servers with any number of workers: `MainsUseThreads` (every
step of theirs is one of `ThreadBase`, or leaves the threads alone), whence
`MainsStopTheorem`; `AcceptsTheorem` (`AcceptsOnlyWhenReady`) and
`OutlivesTheorem` (`SessionsOutliveListener`). A thread comes to `Kernel` past
`preRunKernel` or by finding `enumThreadRun` at the top of its loop; nobody
resumes a thread in these programs, so that it finds only what it has stored
itself, once (`NotPaused`), and the state of the socket follows from whether the
listener has begun (`SocketOK`). `EpollMain` is somewhere in the order of its
threads: those before are told to start, those behind are not there (`Starting`).
Assumption: `ThreadsAssumption`, the threads are different and there is a worker.

`IocpServer_proofs`, for any number of connections, ports and rounds:
`InvariantTheorem`, `WriteLockTheorem` (`WriteLockHasOneOwner`), `OneReadTheorem`
(`OneReadAtATime`), `ForgottenTheorem` (`ForgottenForGood`) and
`AnsweredTheorem` (`AnsweredOnce`). An operation is pending in the system, queued
as the one completion of its kind at the port of its connection (`QueueOK`), or
in the hand of one thread, and for writes this is when the lock is taken
(`WriteOK`, `ReadOK`). Only the worker of the port takes completions out, so that
the thread that has one cannot meet another; the listener and the push thread
come to a connection before its first completion or under the lock (`FreshOK`,
`MutexOK`). `ClosedOK` says what `close` has done for good. For `AnsweredOnce`,
an equation between eleven places a request can be in, every step is shown to
move as much into one place as it takes out of another, as long as the client is
there, when no operation fails and nobody closes (`AliveOK`). The cases of
`Handler` are disjoint, as the code's are, and the proof uses it. Assumptions:
`ThreadAssumption` (a finite set of ports that is not empty; the threads
differ) and the client's `ClientAssumption`.

`InlineServer_proofs`, for any number of connections, descriptor numbers and
workers, any size of the send buffer and any number of rounds: `InvariantTheorem`, `NoDanglingTheorem`
(`NoDanglingPointer`) and `AnsweredTheorem` (`AnsweredOnce`). All but the types
is claimed while `fate` is `"runs"`, as what follows a race is not defined. A
connection is armed, or in the batch or the hand of the worker of its epoll, and
of no other, until `kill`, the last that worker does with it (`EventsOK`); a
session is in one of the two lists until it is deleted, and workers only go to
sessions that are in the list (`ListsOK`): deleting one changes the list, which
is a race while anybody else is in it. `HolderOK` makes the handling of a packet
one worker's. For `AnsweredOnce`, as in `IocpServer`, every step moves as much
into one place as it takes out of another, answers sent under a number that has
changed hands included, which go to `foreign` as well; `SocketsOK` says that open
connections have different numbers and that only connections of clients that are
gone are closed, and from it follows who can be sent such answers (`ForeignOK`).
Assumptions: `ServerAssumption` (a finite set of epolls that is not
empty, a send buffer that is not empty), `ClientAssumption`.

`DataStructures_proofs`, the tree, for every set of keys and every length of the
array, as long as keys arrive in ascending order: `TreeInvariantTheorem`,
`TreeTypeTheorem`, `StackTheorem` (`StackNeverUnderflows`), `NoElementTheorem`
(`NoElementIsLost`), `SearchTheorem`
(`AcceptedAreFound`), `PrintTheorem` (`PrintsInOrder`) and `RedBlackTheorem`
(`IsRedBlack`). None of these is inductive, and most speak of recursive walks
through the tree. `TreeIInv` has no recursion: elements are allocated in the
order of their keys, so that the elements below element `i` are those from
`lo[i]` to `hi[i]` (`Sorted`) and a rotation changes two entries of these
functions; `bh[i]` is the number of black elements on every path down from `i`
(`ColorsOK`), and two red elements follow each other only at `parent`. Both
exist, and the lemma of each action shows from which old ones the new ones are
made. `OneParent` makes the links `FixRotate` rewrites the only ones to the
nodes it moves. `PathOK` keeps `re_stack` on the right spine, which is all that
ascending keys ever use: there the side on which a rotation hangs its result is
the right one, the inner rotation never happens, and the root is black, so that a red
parent has a grandparent. The walks are recursive functions of a number of
iterations, so that what holds after each of them follows from the lemma `UpTo`,
and that there are such functions from `Iteration`: a walk for the key of `j`
stays above `j` in an interval that shrinks with each step (`WalkNarrows`), what
is printed `m` levels down is complete for intervals of up to `m` elements
(`PrintedBelow`), and black elements above and below the end of a path are
together those below the root. Assumptions: `ConstantsAssumption`, and in each
theorem `Ascending`, which is what `main.cpp` does; without it the second finding
refutes `AcceptedAreFound`. The proof never uses the colour of the leaf, which
`clear` changes.

Only model-checked: the liveness properties, `EveryPacketArrives` and
`EndsWhenTold` among them (liveness under fairness is out of the prover's reach).

## Not modelled

- `bfsdemo` (one fixed graph, no inputs), `CCommonData` (empty), what CMake and
  Visual Studio have generated, and the precompiled-header files.
- The copies of `CSyncBuffer`, `CircularBuffer`, `Mutex`, `ThreadBase` and the
  packets in the other two servers, which are the ones of `src/` but for what the
  modules name (the kind of mutex).
- What nobody calls: `CSyncBuffer::clear`, `CSessionMgr::removeSession`, `front`,
  `size` and `isEmpty` of `CSyncQueue`; `operator[]` of the tree is declared and
  not defined.
- Getters and setters, logging, socket options beyond those named above, the
  contents of packets, `GetTickCount`.
- The error returns of `accept` and `epoll_wait`, and in the completion-port
  server of `select`, which are logged, after which the loop goes on; in
  `EpollServer` and `InlineServer` also the failed `select` that ends the
  listener (`EpollMain` has it): nobody has to connect anyway. The destructor of `CTcpConnectionMgr`, which runs
  when every thread has ended.
- `SIGPIPE` in `SyncBuffer`, `Session` and `PacketReader`, which are about one
  connection of a process that runs.
- Packets that are smaller than their header or larger than the read buffer
  (`PacketReader`); what follows undefined behaviour (`IocpServer`,
  `InlineServer`, `EpollMain`).

## Plan

Done: every part of the three servers, their client and their data structures
that keeps state, as listed above, and proofs of every safety property of the
three servers, their buffers, locks and main functions, and of the tree.

Next, the safety half of what the liveness properties rest on: that a connection
whose peer is gone is registered, in a batch, or on its way to `kill`
(`DeadPeerIsReclaimed`), and that a worker in `Read` always has a step.

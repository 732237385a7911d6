----------------------------- MODULE EpollMain ------------------------------
(***************************************************************************)
(* main of the epoll server: the threads it starts, directly and through   *)
(* CListener::init, the signals it waits for, and its return while every   *)
(* one of those threads runs.  Nobody pauses or stops a thread here.       *)
(***************************************************************************)
EXTENDS ThreadBase, Sequences

CONSTANTS
  listener, sCSessionMgr, \* the two threads of main
  WorkThreads             \* those of CTcpConnectionMgr: the PushSendThread
                          \* and two CWorkThreads for each processor; all
                          \* of these are different threads

VARIABLES
  pc,            \* where main is
  todo,          \* the threads it has still to start
  threadVec_,
  listenSocket_, \* "none", "failed", "open", "bound" or "listening"
  blocked,       \* main blocks SIGQUIT and SIGTERM
  signalled      \* one of them is pending

mainVars == <<pc, todo, threadVec_, listenSocket_, blocked, signalled>>
allVars == <<vars, mainVars>>

CTcpConnectionMgr == threadVec_ = <<>>

CListener == listenSocket_ = "none"

MainInit ==
  /\ Init /\ CTcpConnectionMgr /\ CListener
  /\ pc = "init" /\ todo = <<>>
  /\ blocked = FALSE /\ signalled = FALSE

-----------------------------------------------------------------------------
(* The main thread.                                                        *)

\* CTcpConnectionMgr::init: a worker for each epoll descriptor; one that cannot
\* be created ends the process.
InitThreads ==
  /\ pc = "init"
  /\ \/ threadVec_' = WorkThreads /\ pc' = "startWork"
     \/ pc' = "ended" /\ UNCHANGED threadVec_
  /\ UNCHANGED <<vars, todo, listenSocket_, blocked, signalled>>

StartThread ==
  /\ todo # <<>>
  /\ \/ Create(Head(todo)) /\ UNCHANGED todo
     \/ SetStart(Head(todo)) /\ todo' = Tail(todo)

\* Mutant: main starts its own threads first.
startWorkThreadLast ==
  /\ pc = "startWork"
  /\ todo' = <<listener, sCSessionMgr>> \o threadVec_
  /\ pc' = "start"
  /\ UNCHANGED <<vars, threadVec_, listenSocket_, blocked, signalled>>

\* The threads of threadVec_, and after CListener::init those of main.
startWorkThread ==
  /\ pc = "startWork"
  /\ todo' = threadVec_ \o <<listener, sCSessionMgr>>
  /\ pc' = "start"
  /\ UNCHANGED <<vars, threadVec_, listenSocket_, blocked, signalled>>

StartNext ==
  /\ pc = "start"
  /\ StartThread
  /\ UNCHANGED <<pc, threadVec_, listenSocket_, blocked, signalled>>

\* The threads that run already keep the mask they have inherited.
BlockSignals ==
  /\ pc = "start" /\ todo = <<>>
  /\ blocked' = TRUE
  /\ pc' = "wait"
  /\ UNCHANGED <<vars, todo, threadVec_, listenSocket_, signalled>>

\* sigwait takes the signal and main returns.
SigWait ==
  /\ pc = "wait" /\ signalled
  /\ signalled' = FALSE
  /\ pc' = "return"
  /\ UNCHANGED <<vars, todo, threadVec_, listenSocket_, blocked>>

\* Mutant: the process waits for the thread of the listener.
ReturnJoins ==
  /\ pc = "return" /\ run[listener] \in {"ended", "absent"}
  /\ pc' = "ended"
  /\ UNCHANGED <<vars, todo, threadVec_, listenSocket_, blocked, signalled>>

\* The process ends, and with it every thread.
Return ==
  /\ pc = "return"
  /\ pc' = "ended"
  /\ UNCHANGED <<vars, todo, threadVec_, listenSocket_, blocked, signalled>>

Main == InitThreads \/ startWorkThread \/ StartNext \/ BlockSignals \/ SigWait
        \/ Return

-----------------------------------------------------------------------------
(* The signals.                                                            *)

Kill ==
  /\ pc # "ended" /\ ~signalled
  /\ signalled' = TRUE
  /\ UNCHANGED <<vars, pc, todo, threadVec_, listenSocket_, blocked>>

Unblocked == ~blocked \/ \E t \in Thread :
                           run[t] \notin {"none", "absent", "ended"}

\* The signal reaches a thread that does not block it, and its default action
\* ends the process.
DefaultAction ==
  /\ pc # "ended" /\ signalled /\ Unblocked
  /\ pc' = "ended" /\ signalled' = FALSE
  /\ UNCHANGED <<vars, todo, threadVec_, listenSocket_, blocked>>

-----------------------------------------------------------------------------
(* The other threads.                                                      *)

\* CListener::preRunKernel: the thread goes on to Kernel if there is a socket or
\* one can be made, bound to its port and listened on.
ListenerPreRun ==
  /\ PreRunKernel(listener)
  /\ IF listenSocket_ \notin {"none", "failed"}
     THEN run'[listener] = "kernel" /\ UNCHANGED listenSocket_
     ELSE listenSocket_' \in IF run'[listener] = "kernel" THEN {"listening"}
                             ELSE {"failed", "open", "bound"}

\* The listener is a local variable of main: from its return on, what a virtual
\* call of its thread does is undefined, whether it ends the process or not.
DestroyedListener ==
  /\ pc = "return" /\ run[listener] \in {"preRun", "kernel"}
  /\ pc' = "ended"
  /\ UNCHANGED <<vars, todo, threadVec_, listenSocket_, blocked, signalled>>

\* Only CListener::Kernel ends its own thread, when select fails.
RunThread(t) ==
  /\ pc # "ended"
  /\ IF t = listener /\ run[t] = "preRun" THEN ListenerPreRun
     ELSE /\ Loop(t) \/ (t = listener /\ KernelFails(t))
          /\ UNCHANGED listenSocket_
  /\ UNCHANGED <<pc, todo, threadVec_, blocked, signalled>>

MainNext ==
  \/ Main \/ Kill \/ DefaultAction \/ DestroyedListener
  \/ \E t \in Thread : RunThread(t)

-----------------------------------------------------------------------------
(* Properties                                                              *)

\* The listener selects and accepts only on a socket that listens.
KernelListens == run[listener] = "kernel" => listenSocket_ = "listening"

\* What the listener accepts it can give to a worker: the vector that
\* addConnection indexes is complete, and each of its threads told to start.
WorkersComeFirst ==
  run[listener] = "kernel" =>
    /\ threadVec_ # <<>>
    /\ \A i \in DOMAIN threadVec_ : client[threadVec_[i]] = "started"
=============================================================================

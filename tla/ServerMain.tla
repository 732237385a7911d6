----------------------------- MODULE ServerMain -----------------------------
(***************************************************************************)
(* ThreadBase and the two programs that use it.  Every behaviour is one of *)
(* the main function of the epoll server, of the one of the completion     *)
(* port server, or of a client that also pauses its threads, as ThreadBase *)
(* allows.                                                                 *)
(***************************************************************************)
EXTENDS ThreadBase, Sequences

CONSTANTS
  listener, sCSessionMgr, \* the two threads of either main
  WorkThreads,            \* those of the connection manager, in its order
  Used                    \* the threads of the client that pauses its own

\* All of these are different threads, and init makes a worker at least.
ASSUME ThreadsAssumption ==
  /\ listener \in Thread /\ sCSessionMgr \in Thread /\ listener # sCSessionMgr
  /\ WorkThreads \in Seq(Thread) /\ WorkThreads # <<>>
  /\ \A i \in DOMAIN WorkThreads :
       WorkThreads[i] \notin {listener, sCSessionMgr}
  /\ \A i, j \in DOMAIN WorkThreads :
       WorkThreads[i] = WorkThreads[j] => i = j
  /\ Used \subseteq Thread

VARIABLES
  program,                                             \* the one that runs
  pc, todo,                                            \* of either main
  hevent, socket,                                      \* of IocpMain
  threadVec_, listenSocket_, blocked, signalled        \* of EpollMain

Iocp  == INSTANCE IocpMain
Epoll == INSTANCE EpollMain

iocpVars == <<hevent, socket>>
epollVars == <<threadVec_, listenSocket_, blocked, signalled>>
mainsVars == <<program, vars, pc, todo, iocpVars, epollVars>>

MainsInit ==
  /\ Init
  /\ hevent = FALSE /\ socket = "INVALID"
  /\ threadVec_ = <<>> /\ listenSocket_ = "none"
  /\ blocked = FALSE /\ signalled = FALSE
  /\ \/ program = "iocp" /\ Iocp!MainInit
     \/ program = "epoll" /\ Epoll!MainInit
     \/ program = "any" /\ pc = "none" /\ todo = <<>>

InIocp(A) == program = "iocp" /\ A /\ UNCHANGED <<program, epollVars>>

InEpoll(A) == program = "epoll" /\ A /\ UNCHANGED <<program, iocpVars>>

InAny(A) ==
  program = "any" /\ A /\ UNCHANGED <<program, pc, todo, iocpVars, epollVars>>

MainsNext ==
  \/ InIocp(Iocp!MainNext)
  \/ InEpoll(Epoll!MainNext)
  \/ \E t \in Used : InAny(Client(t) \/ Run(t))

\* The system schedules main and the threads, Kernel returns, as what it waits
\* for has a timeout, and an unblocked signal is delivered.
MainsFairness ==
  /\ WF_mainsVars(InIocp(Iocp!Main))
  /\ WF_mainsVars(InEpoll(Epoll!Main))
  /\ WF_mainsVars(InEpoll(Epoll!DefaultAction))
  /\ \A t \in Thread : /\ WF_mainsVars(InIocp(Iocp!RunThread(t)))
                       /\ WF_mainsVars(InEpoll(Epoll!RunThread(t)))
  /\ \A t \in Used : /\ WF_mainsVars(InAny(Run(t)))
                     /\ WF_mainsVars(InAny(JoinEnded(t)))

MainsSpec == MainsInit /\ [][MainsNext]_mainsVars /\ MainsFairness

-----------------------------------------------------------------------------
\* The listener accepts only on a socket that listens, its Kernel being never
\* reached past a preRunKernel that failed nor around it; and in the epoll
\* server only once there are workers to hand the connection to.
AcceptsOnlyWhenReady ==
  /\ program = "iocp" => Iocp!KernelListens
  /\ program = "epoll" => Epoll!KernelListens /\ Epoll!WorkersComeFirst

\* The session thread takes what the listener accepts to the very end: while it
\* is told to stop the listener can accept nothing any more.
SessionsOutliveListener ==
  program = "iocp" => Iocp!SessionsOutliveListener

\* The console event ends the completion port server, a signal the epoll server,
\* whichever thread gets it, and stop returns to any client that has a thread,
\* unless the End it has stored is lost to the store of the thread itself.
EndsWhenTold ==
  /\ program = "iocp" /\ hevent ~> pc = "exited" \/ Iocp!StopIsLost
  /\ program = "epoll" /\ signalled ~> pc = "ended"
  /\ \A t \in Used :
       program = "any" /\ client[t] = "stopping"
         ~> client[t] = "stopped" \/ run[t] = "absent" \/ StopLost(t)
=============================================================================

------------------------------ MODULE IocpMain ------------------------------
(***************************************************************************)
(* _tmain of the completion port server: the threads it starts, directly   *)
(* and through CListener::init, the wait for the event that the console    *)
(* handler sets, and the two threads it stops before the process ends.     *)
(* Nobody pauses a thread here.                                            *)
(***************************************************************************)
EXTENDS ThreadBase, Sequences

CONSTANTS
  listener, sCSessionMgr, \* the two threads of _tmain
  WorkThreads             \* threadVec_: the push thread and the workers;
                          \* these are different threads

VARIABLES
  pc,      \* where _tmain is
  todo,    \* the threads it has still to start, or to stop
  hevent,  \* the event is set
  socket   \* the state of listenSocket_: "INVALID", "bad" or "listening"

mainVars == <<pc, todo, hevent, socket>>
allVars == <<vars, mainVars>>

MainInit ==
  /\ Init
  /\ pc = "begin" /\ todo = <<>> /\ hevent = FALSE /\ socket = "INVALID"

\* Another server is running: the named event exists.
AlreadyExists ==
  /\ pc = "begin"
  /\ pc' = "exited"
  /\ UNCHANGED <<vars, todo, hevent, socket>>

\* What CTcpConnectionMgr::init fills: the worker of each port, the push thread.
threadVec_ == WorkThreads

\* CListener::init has the manager start its threads, then _tmain starts the two
\* of its own.
Begin ==
  /\ pc = "begin"
  /\ pc' = "start"
  /\ todo' = threadVec_ \o <<listener, sCSessionMgr>>
  /\ UNCHANGED <<vars, hevent, socket>>

StartNext ==
  /\ pc = "start" /\ todo # <<>>
  /\ \/ Create(Head(todo)) /\ UNCHANGED todo
     \/ SetStart(Head(todo)) /\ todo' = Tail(todo)
  /\ UNCHANGED <<pc, hevent, socket>>

SetConsoleCtrlHandler ==
  /\ pc = "start" /\ todo = <<>>
  /\ pc' = "wait"
  /\ UNCHANGED <<vars, todo, hevent, socket>>

\* Ctrl-C, Ctrl-Break or the closing of the console.
HandlerRoutine ==
  /\ pc \in {"wait", "stop"}
  /\ hevent' = TRUE
  /\ UNCHANGED <<vars, pc, todo, socket>>

\* Mutant: the threads are stopped in the order in which they were started, the
\* working ones first.
WaitForEventStopAll ==
  /\ pc = "wait" /\ hevent
  /\ hevent' = FALSE
  /\ pc' = "stop"
  /\ todo' = <<sCSessionMgr, listener>>
  /\ UNCHANGED <<vars, socket>>

WaitForEvent ==
  /\ pc = "wait" /\ hevent
  /\ hevent' = FALSE
  /\ pc' = "stop"
  /\ todo' = <<listener, sCSessionMgr>>
  /\ UNCHANGED <<vars, socket>>

StopNext ==
  /\ pc = "stop" /\ todo # <<>>
  /\ \/ SetEnd(Head(todo)) /\ UNCHANGED todo
     \/ Join(Head(todo)) /\ todo' = Tail(todo)
  /\ UNCHANGED <<pc, hevent, socket>>

\* The process ends, and with it the threads nobody has stopped.
Return ==
  /\ pc = "stop" /\ todo = <<>>
  /\ pc' = "exited"
  /\ UNCHANGED <<vars, todo, hevent, socket>>

Main == Begin \/ StartNext \/ SetConsoleCtrlHandler \/ WaitForEvent
        \/ StopNext \/ Return

\* CListener::preRunKernel: the socket is made, bound and listened on, or not,
\* unless there is one; the thread goes on to Kernel if it returns 0.
ListenerPreRun ==
  /\ PreRunKernel(listener)
  /\ IF socket # "INVALID" THEN run'[listener] = "kernel" /\ UNCHANGED socket
     ELSE socket' \in IF run'[listener] = "ended" THEN {"INVALID", "bad"}
                      ELSE {"listening"}

\* No Kernel of this server stores a state: CListener only prints the error.
RunThread(t) ==
  /\ pc # "exited"
  /\ IF t = listener /\ run[t] = "preRun" THEN ListenerPreRun
     ELSE Loop(t) /\ UNCHANGED socket
  /\ UNCHANGED <<pc, todo, hevent>>

MainNext ==
  \/ AlreadyExists \/ Main \/ HandlerRoutine
  \/ \E t \in Thread : RunThread(t)

-----------------------------------------------------------------------------
(* Properties                                                              *)

\* The listener selects and accepts only on a socket that listens: its Kernel is
\* never reached past a preRunKernel that failed, nor around it.
KernelListens == run[listener] = "kernel" => socket = "listening"

\* The session thread takes what the listener accepts to the very end: while it
\* is told to stop the listener can accept nothing any more.
SessionsOutliveListener ==
  client[sCSessionMgr] \in {"stopping", "stopped"} =>
    run[listener] \in {"absent", "ended"}

\* The End that stop has stored is overwritten by the thread itself.
StopIsLost == StopLost(listener) \/ StopLost(sCSessionMgr)
=============================================================================

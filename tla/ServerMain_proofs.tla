------------------------- MODULE ServerMain_proofs -------------------------
(***************************************************************************)
(* Proofs about ThreadBase, for any set of threads: the types, and that    *)
(* the store by which a thread announces that it runs can hit a pause or a *)
(* stop only before the thread has begun to work.  And about the two main  *)
(* functions, for any number of workers: they use their threads as         *)
(* ThreadBase says, the listener accepts only when it can, and the session *)
(* thread outlives it.                                                     *)
(***************************************************************************)
EXTENDS ServerMain, SequenceTheorems, TLAPS

\* What the client has stored into a state other than Init it has stored after
\* start; and a thread that is past the test of Start never finds Start again,
\* so that it stores Run at most once, before it has begun.
Once(t) ==
  /\ thradState_[t] # "Init" => client[t] \notin {"new", "starting"}
  /\ (begun[t] \/ run[t] \in {"preRun", "kernel"}) =>
        thradState_[t] \notin {"Init", "Start"}
  /\ run[t] = "setRun" => ~begun[t] /\ thradState_[t] # "Init"

IInv == TypeOK /\ \A t \in Thread : Once(t)

\* The initial states satisfy the invariant.
LEMMA InitInvariant == Init => IInv
  BY DEF Init, IInv, TypeOK, Once, enumThreadState

\* Every step of a client or a thread preserves it.
LEMMA NextInvariant == IInv /\ [Next]_vars => IInv'
<1> SUFFICES ASSUME IInv, [Next]_vars PROVE IInv'
  OBVIOUS
<1> USE DEF IInv, TypeOK, Once, enumThreadState
<1>1. ASSUME NEW t \in Thread, Client(t) PROVE IInv'
  <2>1. CASE Create(t)
    BY <2>1 DEF Create, ClientGoes
  <2>2. CASE SetStart(t)
    BY <2>2 DEF SetStart, ClientGoes, setThreadState
  <2>3. CASE pause(t)
    BY <2>3 DEF pause, setThreadState
  <2>4. CASE resume(t)
    BY <2>4 DEF resume, setThreadState
  <2>5. CASE SetEnd(t)
    BY <2>5 DEF SetEnd, ClientGoes, setThreadState
  <2>6. CASE Join(t)
    BY <2>6 DEF Join, ClientGoes
  <2> QED
    BY <1>1, <2>1, <2>2, <2>3, <2>4, <2>5, <2>6 DEF Client
<1>2. ASSUME NEW t \in Thread, Run(t) PROVE IInv'
  <2>1. CASE IsRun(t)
    BY <2>1 DEF IsRun, RunGoes
  <2>2. CASE IsStart(t)
    BY <2>2 DEF IsStart, RunGoes
  <2>3. CASE SetRun(t)
    BY <2>3 DEF SetRun, RunGoes, setThreadState
  <2>4. CASE PreRunKernel(t)
    BY <2>4 DEF PreRunKernel, RunGoes
  <2>5. CASE Kernel(t)
    BY <2>5 DEF Kernel, RunGoes
  <2>6. CASE IsPending(t)
    BY <2>6 DEF IsPending, RunGoes
  <2>7. CASE IsEnd(t)
    BY <2>7 DEF IsEnd, RunGoes
  <2>8. CASE KernelFails(t)
    BY <2>8 DEF KernelFails, RunGoes, setThreadState
  <2> QED
    BY <1>2, <2>1, <2>2, <2>3, <2>4, <2>5, <2>6, <2>7, <2>8 DEF Run, Loop
<1>3. CASE UNCHANGED vars
  BY <1>3 DEF vars
<1> QED
  BY <1>1, <1>2, <1>3 DEF Next

\* In every behaviour the invariant holds throughout.
LEMMA Invariant == Spec => []IInv
  BY InitInvariant, NextInvariant, PTL DEF Spec

\* The variables keep their types, and no thread calls anything of its class
\* before start has come to the store of the state.
THEOREM TypeCorrect == Spec => []TypeOK
  BY Invariant, PTL DEF IInv

\* The store of Run is not enabled once the thread has begun, and the only
\* other one of the thread stores End.
LEMMA StepSticks ==
  ASSUME IInv, [Next]_vars, NEW t \in Thread, begun[t],
         thradState_[t] \in {"Pending", "End"}, Run(t)
  PROVE  thradState_'[t] \in {thradState_[t], "End"}
<1>1. ~SetRun(t)
  BY DEF IInv, Once, SetRun, RunGoes
<1>2. CASE KernelFails(t)
  BY <1>2 DEF KernelFails, setThreadState, IInv, TypeOK
<1> QED
  BY <1>1, <1>2 DEF Run, Loop, IsRun, IsStart, PreRunKernel, Kernel,
     IsPending, IsEnd

\* A stop of a thread that has begun to work is never overwritten by the thread,
\* and a pause only by its own end: Run of ThreadBase stores its state only
\* before preRunKernel, and what a Kernel stores is End.
THEOREM StopIsNotLost == Spec => StopSticks
<1>1. IInv /\ [Next]_vars =>
        [\A t \in Thread :
           begun[t] /\ thradState_[t] \in {"Pending", "End"} /\ Run(t)
             => thradState_'[t] \in {thradState_[t], "End"}]_vars
  BY StepSticks
<1> QED
  BY <1>1, Invariant, PTL DEF Spec, StopSticks

-----------------------------------------------------------------------------
(* The two main functions.                                                 *)

\* A thread that nobody resumes finds Run only where it has stored it, on its
\* way through preRunKernel, so that it reaches Kernel only that way; and that
\* way it goes once.
NotPaused ==
  \A t \in Thread :
    /\ client[t] = "new" <=> run[t] = "none"
    /\ thradState_[t] = "Run" => begun[t] \/ run[t] = "preRun"
    /\ run[t] = "kernel" => begun[t]
    /\ run[t] = "preRun" => ~begun[t]

\* The socket of the listener before and after its preRunKernel.
SocketOK(s, none) ==
  /\ ~begun[listener] => s = none
  /\ begun[listener] => s = "listening" \/ run[listener] = "ended"

Stopped(t) == client[t] \in {"stopping", "stopped"}

Gone(t) == run[t] \in {"absent", "ended"}

IocpOK ==
  /\ NotPaused
  /\ SocketOK(socket, "INVALID")
  /\ pc = "start" => todo \in Seq(Thread)
  /\ pc \in {"begin", "start", "wait"} => \A t \in Thread : ~Stopped(t)
  /\ pc = "stop" =>
       \/ todo = <<listener, sCSessionMgr>> /\ ~Stopped(sCSessionMgr)
       \/ todo \in {<<sCSessionMgr>>, <<>>} /\ Gone(listener)
  /\ Stopped(sCSessionMgr) => Gone(listener)

\* The order in which the threads are started, and where main is in it.
Order == WorkThreads \o <<listener, sCSessionMgr>>

Starting(k) ==
  /\ todo = SubSeq(Order, k + 1, Len(Order))
  /\ \A i \in 1..Len(Order) :
       /\ i <= k => client[Order[i]] = "started"
       /\ i > k => client[Order[i]] # "started"
       /\ i > k + 1 => client[Order[i]] = "new"

\* What holds of the threads on the client's side, whatever they do.
Clients ==
  /\ threadVec_ \in {<<>>, WorkThreads}
  /\ pc \in {"startWork", "start"} => threadVec_ = WorkThreads
  /\ pc \in {"init", "startWork"} => \A t \in Thread : client[t] = "new"
  /\ pc = "start" => \E k \in 0..Len(Order) : Starting(k)
  /\ \A t \in Thread : ~Stopped(t)
  /\ client[listener] # "new" =>
       /\ threadVec_ = WorkThreads
       /\ \A i \in DOMAIN WorkThreads : client[WorkThreads[i]] = "started"

EpollOK ==
  /\ NotPaused
  /\ SocketOK(listenSocket_, "none")
  /\ Clients

MainsIInv ==
  /\ IInv
  /\ program = "iocp" => IocpOK
  /\ program = "epoll" => EpollOK


-----------------------------------------------------------------------------
\* The operations of ThreadBase that both main functions use: all but pause and
\* resume.
Operation(t) ==
  Create(t) \/ SetStart(t) \/ SetEnd(t) \/ Join(t) \/ Run(t)

\* They preserve what holds of threads that nobody resumes.
LEMMA OperationNotPaused ==
  ASSUME IInv, NotPaused, NEW t \in Thread, Operation(t)
  PROVE  NotPaused'
<1> USE DEF NotPaused, IInv, TypeOK, Once, enumThreadState
<1>1. CASE Create(t)
  BY <1>1 DEF Create, ClientGoes
<1>2. CASE SetStart(t)
  BY <1>2 DEF SetStart, ClientGoes, setThreadState
<1>3. CASE SetEnd(t)
  BY <1>3 DEF SetEnd, ClientGoes, setThreadState
<1>4. CASE Join(t)
  BY <1>4 DEF Join, ClientGoes
<1>5. CASE IsRun(t)
  BY <1>5 DEF IsRun, RunGoes
<1>6. CASE IsStart(t)
  BY <1>6 DEF IsStart, RunGoes
<1>7. CASE SetRun(t)
  BY <1>7 DEF SetRun, RunGoes, setThreadState
<1>8. CASE PreRunKernel(t)
  BY <1>8 DEF PreRunKernel, RunGoes
<1>9. CASE Kernel(t)
  BY <1>9 DEF Kernel, RunGoes
<1>10. CASE IsPending(t)
  BY <1>10 DEF IsPending, RunGoes
<1>11. CASE IsEnd(t)
  BY <1>11 DEF IsEnd, RunGoes
<1>12. CASE KernelFails(t)
  BY <1>12 DEF KernelFails, RunGoes, setThreadState
<1> QED
  BY <1>1, <1>2, <1>3, <1>4, <1>5, <1>6, <1>7, <1>8, <1>9, <1>10, <1>11,
     <1>12 DEF Operation, Run, Loop

\* Only preRunKernel of the listener matters to its socket.
LEMMA OperationSocket ==
  ASSUME IInv, NotPaused, NEW t \in Thread, Operation(t),
         ~(t = listener /\ run[t] = "preRun"),
         NEW s, NEW none, SocketOK(s, none)
  PROVE  /\ begun'[listener] <=> begun[listener]
         /\ run[listener] = "ended" => run'[listener] = "ended"
<1> USE ThreadsAssumption DEF NotPaused, SocketOK, IInv, TypeOK, Once
<1>1. CASE Create(t)
  BY <1>1 DEF Create, ClientGoes
<1>2. CASE SetStart(t) \/ SetEnd(t) \/ Join(t)
  BY <1>2 DEF SetStart, SetEnd, Join, ClientGoes
<1>3. CASE IsRun(t)
  BY <1>3 DEF IsRun, RunGoes
<1>4. CASE IsStart(t)
  BY <1>4 DEF IsStart, RunGoes
<1>5. CASE SetRun(t)
  BY <1>5 DEF SetRun, RunGoes, setThreadState
<1>6. CASE PreRunKernel(t)
  BY <1>6 DEF PreRunKernel, RunGoes
<1>7. CASE Kernel(t)
  BY <1>7 DEF Kernel, RunGoes
<1>8. CASE IsPending(t)
  BY <1>8 DEF IsPending, RunGoes
<1>9. CASE IsEnd(t)
  BY <1>9 DEF IsEnd, RunGoes
<1>10. CASE KernelFails(t)
  BY <1>10 DEF KernelFails, RunGoes
<1> QED
  BY <1>1, <1>2, <1>3, <1>4, <1>5, <1>6, <1>7, <1>8, <1>9, <1>10
     DEF Operation, Run, Loop

\* What the operations do to the client's side of the other threads and to a
\* thread that is gone.
LEMMA OperationFrame ==
  ASSUME IInv, NotPaused, NEW t \in Thread, Operation(t)
  PROVE  /\ \A u \in Thread \ {t} : client'[u] = client[u]
         /\ \A u \in Thread : Gone(u) => Gone(u)'
         /\ Create(t) => client[t] = "new" /\ client'[t] = "starting"
         /\ SetStart(t) => client[t] = "starting" /\ client'[t] = "started"
         /\ SetEnd(t) => client[t] = "started" /\ client'[t] = "stopping"
         /\ Join(t) => /\ client[t] = "stopping" /\ client'[t] = "stopped"
                       /\ Gone(t)'
         /\ Run(t) => client' = client
<1> USE DEF NotPaused, IInv, TypeOK, Gone
<1>1. CASE Create(t)
  BY <1>1 DEF Create, SetStart, SetEnd, Join, ClientGoes, Run, Loop, IsRun,
     IsStart, SetRun, PreRunKernel, Kernel, KernelFails, IsPending, IsEnd
<1>2. CASE SetStart(t)
  BY <1>2 DEF Create, SetStart, SetEnd, Join, ClientGoes, Run, Loop, IsRun,
     IsStart, SetRun, PreRunKernel, Kernel, KernelFails, IsPending, IsEnd
<1>3. CASE SetEnd(t)
  BY <1>3 DEF Create, SetStart, SetEnd, Join, ClientGoes, Run, Loop, IsRun,
     IsStart, SetRun, PreRunKernel, Kernel, KernelFails, IsPending, IsEnd
<1>4. CASE Join(t)
  BY <1>4 DEF Create, SetStart, SetEnd, Join, ClientGoes, Run, Loop, IsRun,
     IsStart, SetRun, PreRunKernel, Kernel, KernelFails, IsPending, IsEnd
<1>5. CASE Run(t)
  <2>1. client' = client /\ ~Create(t) /\ ~SetStart(t) /\ ~SetEnd(t) /\ ~Join(t)
    BY <1>5 DEF Create, SetStart, SetEnd, Join, ClientGoes, Run, Loop, IsRun,
       IsStart, SetRun, PreRunKernel, Kernel, KernelFails, IsPending, IsEnd
  <2>2. /\ run[t] \notin {"absent", "ended"}
        /\ \A u \in Thread \ {t} : run'[u] = run[u]
    BY <1>5 DEF Run, Loop, IsRun, IsStart, SetRun, PreRunKernel, Kernel,
       KernelFails, IsPending, IsEnd, RunGoes
  <2> QED
    BY <2>1, <2>2
<1> QED
  BY <1>1, <1>2, <1>3, <1>4, <1>5 DEF Operation

-----------------------------------------------------------------------------
(* Every step of a main function is one of ThreadBase or leaves them alone. *)

\* What the instances mean by the operations is what ThreadBase says.
LEMMA IocpOperations ==
  ASSUME NEW t
  PROVE  /\ Iocp!Create(t) <=> Create(t)
         /\ Iocp!SetStart(t) <=> SetStart(t)
         /\ Iocp!SetEnd(t) <=> SetEnd(t)
         /\ Iocp!Join(t) <=> Join(t)
         /\ Iocp!Loop(t) <=> Loop(t)
         /\ Iocp!PreRunKernel(t) <=> PreRunKernel(t)
  BY DEF Iocp!Create, Iocp!SetStart, Iocp!SetEnd, Iocp!Join, Iocp!Loop,
     Iocp!PreRunKernel, Iocp!ClientGoes, Iocp!RunGoes, Iocp!setThreadState,
     Iocp!IsRun, Iocp!IsStart, Iocp!SetRun, Iocp!Kernel, Iocp!IsPending,
     Iocp!IsEnd, Create, SetStart, SetEnd, Join, Loop, PreRunKernel, ClientGoes,
     RunGoes, setThreadState, IsRun, IsStart, SetRun, Kernel, IsPending, IsEnd

\* The same for the epoll server.
LEMMA EpollOperations ==
  ASSUME NEW t
  PROVE  /\ Epoll!Create(t) <=> Create(t)
         /\ Epoll!SetStart(t) <=> SetStart(t)
         /\ Epoll!Loop(t) <=> Loop(t)
         /\ Epoll!KernelFails(t) <=> KernelFails(t)
         /\ Epoll!PreRunKernel(t) <=> PreRunKernel(t)
  BY DEF Epoll!Create, Epoll!SetStart, Epoll!Loop, Epoll!KernelFails,
     Epoll!PreRunKernel, Epoll!ClientGoes, Epoll!RunGoes, Epoll!setThreadState,
     Epoll!IsRun, Epoll!IsStart, Epoll!SetRun, Epoll!Kernel, Epoll!IsPending,
     Epoll!IsEnd, Create, SetStart, Loop, KernelFails, PreRunKernel, ClientGoes,
     RunGoes, setThreadState, IsRun, IsStart, SetRun, Kernel, IsPending, IsEnd

\* The threads in their order, all different.
LEMMA OrderFacts ==
  /\ Order \in Seq(Thread) /\ Len(Order) = Len(WorkThreads) + 2
  /\ \A i \in 1..Len(WorkThreads) : Order[i] = WorkThreads[i]
  /\ Order[Len(WorkThreads) + 1] = listener
  /\ Order[Len(WorkThreads) + 2] = sCSessionMgr
  /\ \A i, j \in 1..Len(Order) : Order[i] = Order[j] => i = j
<1> DEFINE two == <<listener, sCSessionMgr>>
<1>1. two \in Seq(Thread) /\ Len(two) = 2
      /\ two[1] = listener /\ two[2] = sCSessionMgr
  BY ThreadsAssumption
<1>2. WorkThreads \in Seq(Thread) /\ Len(WorkThreads) \in Nat
      /\ DOMAIN WorkThreads = 1..Len(WorkThreads)
  BY ThreadsAssumption
<1> HIDE DEF two
<1>3. /\ WorkThreads \o two \in Seq(Thread)
      /\ Len(WorkThreads \o two) = Len(WorkThreads) + Len(two)
      /\ \A i \in 1..(Len(WorkThreads) + Len(two)) :
           (WorkThreads \o two)[i] =
             IF i <= Len(WorkThreads) THEN WorkThreads[i]
             ELSE two[i - Len(WorkThreads)]
  BY <1>1, <1>2, ConcatProperties
<1>4. Order = WorkThreads \o two
  BY DEF Order, two
<1>5. \A i \in 1..Len(WorkThreads) :
        WorkThreads[i] # listener /\ WorkThreads[i] # sCSessionMgr
  BY <1>2, ThreadsAssumption
<1>6. \A i, j \in 1..Len(WorkThreads) : WorkThreads[i] = WorkThreads[j] => i = j
  BY <1>2, ThreadsAssumption
<1>7. listener # sCSessionMgr
  BY ThreadsAssumption
<1> QED
  BY <1>1, <1>2, <1>3, <1>4, <1>5, <1>6, <1>7

\* The initial states satisfy the invariant.
LEMMA MainsInitInvariant == MainsInit => MainsIInv
<1> SUFFICES ASSUME MainsInit PROVE MainsIInv
  OBVIOUS
<1>1. IInv
  BY InitInvariant DEF MainsInit
<1>2. /\ NotPaused
      /\ SocketOK(socket, "INVALID") /\ SocketOK(listenSocket_, "none")
      /\ \A t \in Thread : client[t] = "new"
  BY ThreadsAssumption DEF MainsInit, Init, NotPaused, SocketOK
<1>3. program = "iocp" => pc = "begin"
  BY DEF MainsInit, Iocp!MainInit
<1>4. program = "epoll" => pc = "init" /\ threadVec_ = <<>>
  BY DEF MainsInit, Epoll!MainInit, Epoll!CTcpConnectionMgr
<1> QED
  BY <1>1, <1>2, <1>3, <1>4, ThreadsAssumption
     DEF MainsIInv, IocpOK, EpollOK, Clients, Stopped, Gone

\* What an operation does to a socket that is not its concern.
LEMMA SocketPreserved ==
  ASSUME IInv, NotPaused, NEW t \in Thread, Operation(t),
         ~(t = listener /\ run[t] = "preRun"),
         NEW s, NEW none, SocketOK(s, none)
  PROVE  /\ ~begun'[listener] => s = none
         /\ begun'[listener] => s = "listening" \/ run'[listener] = "ended"
  BY OperationSocket DEF SocketOK

\* What preRunKernel does to the listener.
LEMMA PreRunSocket ==
  ASSUME IInv, NotPaused, run[listener] = "preRun", PreRunKernel(listener)
  PROVE  /\ begun'[listener] /\ run'[listener] \in {"kernel", "ended"}
         /\ ~begun[listener]
  BY ThreadsAssumption DEF IInv, TypeOK, NotPaused, PreRunKernel, RunGoes

\* Main, or the handler, does something that is not an operation on a thread.
LEMMA IocpPlain ==
  ASSUME IocpOK, UNCHANGED <<vars, socket>>,
         pc' = "start" => todo' \in Seq(Thread),
         pc' \in {"begin", "start", "wait"} =>
           pc \in {"begin", "start", "wait"},
         pc' = "stop" => \/ pc = "stop" /\ todo' = todo
                         \/ pc = "wait" /\ todo' = <<listener, sCSessionMgr>>
  PROVE  IocpOK'
<1>1. NotPaused' /\ SocketOK(socket, "INVALID")'
  BY DEF IocpOK, NotPaused, SocketOK, vars
<1>2. \A t : (Stopped(t)' <=> Stopped(t)) /\ (Gone(t)' <=> Gone(t))
  BY DEF Stopped, Gone, vars
<1>3. pc' = "stop" =>
        \/ todo' = <<listener, sCSessionMgr>> /\ ~Stopped(sCSessionMgr)'
        \/ todo' \in {<<sCSessionMgr>>, <<>>} /\ Gone(listener)'
  BY <1>2, ThreadsAssumption DEF IocpOK
<1>4. pc' \in {"begin", "start", "wait"} => \A t \in Thread : ~Stopped(t)'
  BY <1>2 DEF IocpOK
<1>5. Stopped(sCSessionMgr)' => Gone(listener)'
  BY <1>2 DEF IocpOK
<1> QED
  BY <1>1, <1>3, <1>4, <1>5 DEF IocpOK

\* A thread takes a step.
LEMMA IocpThread ==
  ASSUME IInv, IocpOK, NEW t \in Thread, Iocp!RunThread(t)
  PROVE  IocpOK' /\ Next
<1> USE ThreadsAssumption
<1>1. Run(t) /\ UNCHANGED <<pc, todo>>
  <2>1. PreRunKernel(listener) => Run(listener)
    BY DEF Run, Loop
  <2> QED
    BY <2>1, IocpOperations DEF Iocp!RunThread, Iocp!ListenerPreRun, Run
<1>2. Operation(t) /\ NotPaused
  BY <1>1 DEF Operation, IocpOK
<1>3. NotPaused'
  BY <1>2, OperationNotPaused
<1>4. SocketOK(socket, "INVALID")'
  <2>1. CASE t = listener /\ run[t] = "preRun"
    <3>1. PreRunKernel(listener) /\ run[listener] = "preRun"
      BY <2>1, IocpOperations DEF Iocp!RunThread, Iocp!ListenerPreRun
    <3>2. /\ begun'[listener] /\ run'[listener] \in {"kernel", "ended"}
          /\ ~begun[listener]
      BY <1>2, <3>1, PreRunSocket
    <3>3. socket = "INVALID"
      BY <3>2 DEF IocpOK, SocketOK
    <3>4. socket' \in IF run'[listener] = "ended" THEN {"INVALID", "bad"}
                      ELSE {"listening"}
      BY <2>1, <3>3 DEF Iocp!RunThread, Iocp!ListenerPreRun
    <3> QED
      BY <3>2, <3>4 DEF SocketOK
  <2>2. CASE ~(t = listener /\ run[t] = "preRun")
    <3>1. socket' = socket
      BY <2>2 DEF Iocp!RunThread
    <3>2. /\ ~begun'[listener] => socket = "INVALID"
          /\ begun'[listener] => \/ socket = "listening"
                                 \/ run'[listener] = "ended"
      BY <1>2, <2>2, SocketPreserved DEF IocpOK
    <3> QED
      BY <3>1, <3>2 DEF SocketOK
  <2> QED
    BY <2>1, <2>2
<1>5. client' = client /\ (Gone(listener) => Gone(listener)')
  BY <1>1, <1>2, OperationFrame
<1>6. \A u : Stopped(u)' <=> Stopped(u)
  BY <1>5 DEF Stopped
<1>7. IocpOK'
  BY <1>1, <1>3, <1>4, <1>5, <1>6 DEF IocpOK
<1> QED
  BY <1>1, <1>7 DEF Next

\* Main takes a step that is an operation on a thread of its own.
LEMMA IocpOperation ==
  ASSUME IInv, IocpOK, NEW t \in Thread, socket' = socket, pc' = pc,
         Create(t) \/ SetStart(t) \/ SetEnd(t) \/ Join(t)
  PROVE  /\ NotPaused' /\ SocketOK(socket, "INVALID")' /\ Next
         /\ Gone(listener) => Gone(listener)'
<1> USE ThreadsAssumption
<1>1. Operation(t) /\ NotPaused
  BY DEF Operation, IocpOK
<1>2. ~Run(t)
  BY DEF Create, SetStart, SetEnd, Join, ClientGoes, Run, Loop, IsRun,
     IsStart, SetRun, PreRunKernel, Kernel, KernelFails, IsPending, IsEnd, IInv,
     TypeOK
<1>3. UNCHANGED begun /\ (run[listener] = "ended" => run'[listener] = "ended")
  BY <1>1 DEF Create, SetStart, SetEnd, Join, ClientGoes, IInv, TypeOK,
     NotPaused
<1>4. SocketOK(socket, "INVALID")'
  BY <1>3 DEF SocketOK, IocpOK
<1>5. NotPaused' /\ (Gone(listener) => Gone(listener)')
  BY <1>1, OperationNotPaused, OperationFrame
<1> QED
  BY <1>4, <1>5 DEF Next, Client

\* A step of main that starts a thread.
LEMMA IocpStart ==
  ASSUME IInv, IocpOK, Iocp!StartNext
  PROVE  IocpOK' /\ Next
<1> USE ThreadsAssumption
<1> DEFINE t == Head(todo)
<1>1. pc = "start" /\ todo # <<>> /\ todo \in Seq(Thread) /\ pc' = "start"
      /\ socket' = socket
  BY DEF Iocp!StartNext, IocpOK
<1>2. t \in Thread /\ Tail(todo) \in Seq(Thread)
  BY <1>1
<1>3. todo' \in Seq(Thread) /\ (Create(t) \/ SetStart(t))
  BY <1>1, <1>2, IocpOperations DEF Iocp!StartNext
<1> HIDE DEF t
<1>4. NotPaused' /\ SocketOK(socket, "INVALID")' /\ Next
  BY <1>1, <1>2, <1>3, IocpOperation
<1>5. \A u \in Thread : ~Stopped(u)
  BY <1>1 DEF IocpOK
<1>6. Operation(t) /\ NotPaused
  BY <1>3 DEF Operation, IocpOK
<1>7. \A u \in Thread : ~Stopped(u)'
  BY <1>2, <1>3, <1>5, <1>6, OperationFrame DEF Stopped
<1> QED
  BY <1>1, <1>3, <1>4, <1>7 DEF IocpOK

\* A step of main that stops a thread: the session thread only after the wait
\* for the listener has returned.
LEMMA IocpStop ==
  ASSUME IInv, IocpOK, Iocp!StopNext
  PROVE  IocpOK' /\ Next
<1> USE ThreadsAssumption
<1>1. pc = "stop" /\ todo # <<>> /\ pc' = "stop" /\ socket' = socket
  BY DEF Iocp!StopNext
<1> DEFINE two == <<listener, sCSessionMgr>>
           one == <<sCSessionMgr>>
<1>9. /\ Head(two) = listener /\ Tail(two) = one
      /\ Head(one) = sCSessionMgr /\ Tail(one) = <<>>
  OBVIOUS
<1>10. \/ todo = two /\ ~Stopped(sCSessionMgr)
       \/ todo = one /\ Gone(listener)
  BY <1>1 DEF IocpOK
<1>11. Head(todo) \in Thread
  BY <1>9, <1>10
<1>4. PICK t \in Thread : t = Head(todo)
  BY <1>11
<1>2. \/ /\ todo = <<listener, sCSessionMgr>> /\ ~Stopped(sCSessionMgr)
         /\ t = listener /\ Tail(todo) = <<sCSessionMgr>>
      \/ /\ todo = <<sCSessionMgr>> /\ Gone(listener)
         /\ t = sCSessionMgr /\ Tail(todo) = <<>>
  BY <1>4, <1>9, <1>10
<1>3. \/ SetEnd(t) /\ todo' = todo
      \/ Join(t) /\ todo' = Tail(todo)
  BY <1>4, IocpOperations DEF Iocp!StopNext
<1>5. /\ NotPaused' /\ SocketOK(socket, "INVALID")' /\ Next
      /\ Gone(listener) => Gone(listener)'
  BY <1>1, <1>3, <1>4, IocpOperation
<1>6. Operation(t) /\ NotPaused
  BY <1>3 DEF Operation, IocpOK
<1>7. /\ \A u \in Thread \ {t} : client'[u] = client[u]
      /\ Join(t) => Gone(t)'
  BY <1>4, <1>6, OperationFrame
<1>8. /\ \/ todo' = <<listener, sCSessionMgr>> /\ ~Stopped(sCSessionMgr)'
         \/ todo' \in {<<sCSessionMgr>>, <<>>} /\ Gone(listener)'
      /\ Stopped(sCSessionMgr)' => Gone(listener)'
  <2>1. CASE /\ todo = <<listener, sCSessionMgr>> /\ ~Stopped(sCSessionMgr)
             /\ t = listener /\ Tail(todo) = <<sCSessionMgr>>
    <3>1. ~Stopped(sCSessionMgr)'
      BY <1>7, <2>1 DEF Stopped
    <3> QED
      BY <1>3, <1>7, <2>1, <3>1
  <2>2. CASE /\ todo = <<sCSessionMgr>> /\ Gone(listener)
             /\ t = sCSessionMgr /\ Tail(todo) = <<>>
    BY <1>3, <1>5, <2>2
  <2> QED
    BY <1>2, <2>1, <2>2
<1> QED
  BY <1>1, <1>5, <1>8 DEF IocpOK

\* A step of the completion port server.
LEMMA IocpStep ==
  ASSUME IInv, IocpOK, Iocp!MainNext
  PROVE  IocpOK' /\ [Next]_vars
<1> USE ThreadsAssumption
<1>1. CASE Iocp!AlreadyExists
  <2>1. IocpOK'
    BY <1>1, IocpPlain DEF Iocp!AlreadyExists, Iocp!vars, vars
  <2> QED
    BY <1>1, <2>1 DEF Iocp!AlreadyExists, Iocp!vars, vars
<1>2. CASE Iocp!Begin
  <2>1. Order \in Seq(Thread)
    BY OrderFacts
  <2>2. pc = "begin" /\ pc' = "start" /\ todo' = Order
        /\ UNCHANGED <<vars, socket>>
    BY <1>2 DEF Iocp!Begin, Iocp!vars, Iocp!threadVec_, vars, Order
  <2>3. IocpOK'
    BY <2>1, <2>2, IocpPlain
  <2> QED
    BY <2>2, <2>3
<1>3. CASE Iocp!StartNext
  BY <1>3, IocpStart
<1>4. CASE Iocp!SetConsoleCtrlHandler
  <2>1. IocpOK'
    BY <1>4, IocpPlain DEF Iocp!SetConsoleCtrlHandler, Iocp!vars, vars
  <2> QED
    BY <1>4, <2>1 DEF Iocp!SetConsoleCtrlHandler, Iocp!vars, vars
<1>5. CASE Iocp!WaitForEvent
  <2>1. IocpOK'
    BY <1>5, IocpPlain DEF Iocp!WaitForEvent, Iocp!vars, vars
  <2> QED
    BY <1>5, <2>1 DEF Iocp!WaitForEvent, Iocp!vars, vars
<1>6. CASE Iocp!StopNext
  BY <1>6, IocpStop
<1>7. CASE Iocp!Return
  <2>1. IocpOK'
    BY <1>7, IocpPlain DEF Iocp!Return, Iocp!vars, vars
  <2> QED
    BY <1>7, <2>1 DEF Iocp!Return, Iocp!vars, vars
<1>8. CASE Iocp!HandlerRoutine
  <2>1. IocpOK'
    BY <1>8, IocpPlain DEF Iocp!HandlerRoutine, Iocp!vars, vars
  <2> QED
    BY <1>8, <2>1 DEF Iocp!HandlerRoutine, Iocp!vars, vars
<1>9. CASE \E t \in Thread : Iocp!RunThread(t)
  BY <1>9, IocpThread
<1> QED
  BY <1>1, <1>2, <1>3, <1>4, <1>5, <1>6, <1>7, <1>8, <1>9
     DEF Iocp!MainNext, Iocp!Main

-----------------------------------------------------------------------------
(* The main function of the epoll server.                                  *)

\* A thread takes a step.
LEMMA EpollThread ==
  ASSUME IInv, EpollOK, NEW t \in Thread, Epoll!RunThread(t)
  PROVE  EpollOK' /\ Next
<1> USE ThreadsAssumption
<1>1. Run(t) /\ UNCHANGED <<pc, todo, threadVec_>>
  <2>1. PreRunKernel(listener) => Run(listener)
    BY DEF Run, Loop
  <2> QED
    BY <2>1, EpollOperations DEF Epoll!RunThread, Epoll!ListenerPreRun, Run
<1>2. Operation(t) /\ NotPaused
  BY <1>1 DEF Operation, EpollOK
<1>3. NotPaused'
  BY <1>2, OperationNotPaused
<1>4. SocketOK(listenSocket_, "none")'
  <2>1. CASE t = listener /\ run[t] = "preRun"
    <3>1. PreRunKernel(listener) /\ run[listener] = "preRun"
      BY <2>1, EpollOperations DEF Epoll!RunThread, Epoll!ListenerPreRun
    <3>2. /\ begun'[listener] /\ run'[listener] \in {"kernel", "ended"}
          /\ ~begun[listener]
      BY <1>2, <3>1, PreRunSocket
    <3>3. listenSocket_ = "none"
      BY <3>2 DEF EpollOK, SocketOK
    <3>4. listenSocket_' \in IF run'[listener] = "kernel" THEN {"listening"}
                             ELSE {"failed", "open", "bound"}
      BY <2>1, <3>3 DEF Epoll!RunThread, Epoll!ListenerPreRun
    <3> QED
      BY <3>2, <3>4 DEF SocketOK
  <2>2. CASE ~(t = listener /\ run[t] = "preRun")
    <3>1. listenSocket_' = listenSocket_
      BY <2>2 DEF Epoll!RunThread
    <3>2. /\ ~begun'[listener] => listenSocket_ = "none"
          /\ begun'[listener] => \/ listenSocket_ = "listening"
                                 \/ run'[listener] = "ended"
      BY <1>2, <2>2, SocketPreserved DEF EpollOK
    <3> QED
      BY <3>1, <3>2 DEF SocketOK
  <2> QED
    BY <2>1, <2>2
<1>5. client' = client
  BY <1>2, <1>1, OperationFrame
<1>6. Clients'
  BY <1>1, <1>5 DEF EpollOK, Clients, Starting, Stopped
<1> QED
  BY <1>1, <1>3, <1>4, <1>6 DEF EpollOK, Next

\* Main takes a step that leaves the threads and the socket alone.
LEMMA EpollPlain ==
  ASSUME EpollOK, UNCHANGED <<vars, listenSocket_>>, Clients'
  PROVE  EpollOK'
<1>1. NotPaused' /\ SocketOK(listenSocket_, "none")'
  BY DEF EpollOK, NotPaused, SocketOK, vars
<1> QED
  BY <1>1 DEF EpollOK

\* Main starts the next thread: those before it in the order have been told to
\* start, those after it are not there yet.
LEMMA EpollStart ==
  ASSUME IInv, EpollOK, Epoll!StartNext
  PROVE  EpollOK' /\ Next
<1> USE ThreadsAssumption
<1>1. pc = "start" /\ todo # <<>> /\ pc' = "start"
      /\ UNCHANGED <<threadVec_, listenSocket_>>
  BY DEF Epoll!StartNext, Epoll!StartThread
<1> DEFINE n == Len(Order)
<1>2. PICK k \in 0..n : Starting(k)
  BY <1>1 DEF EpollOK, Clients
<1>3. Order \in Seq(Thread) /\ n = Len(WorkThreads) + 2 /\ n \in Nat
      /\ Len(WorkThreads) \in Nat /\ DOMAIN WorkThreads = 1..Len(WorkThreads)
  BY OrderFacts
<1>4. todo = SubSeq(Order, k + 1, n)
  BY <1>2 DEF Starting
<1> HIDE DEF n
<1>5. k < n
  <2> SUFFICES ASSUME k = n PROVE FALSE
    BY <1>3
  <2>1. SubSeq(Order, n + 1, n) = <<>>
    BY <1>3
  <2> QED
    BY <1>1, <1>4, <2>1
<1>6. Head(todo) = Order[k + 1] /\ Tail(todo) = SubSeq(Order, k + 2, n)
  BY <1>3, <1>4, <1>5 DEF n
<1>7. Order[k + 1] \in Thread
  BY <1>3, <1>5 DEF n
<1>8. PICK t \in Thread : t = Order[k + 1]
  BY <1>7
<1>9. \/ Create(t) /\ todo' = todo
      \/ SetStart(t) /\ todo' = Tail(todo)
  BY <1>6, <1>8, EpollOperations DEF Epoll!StartNext, Epoll!StartThread
<1>10. Operation(t) /\ NotPaused
  BY <1>9 DEF Operation, EpollOK
<1>11. NotPaused'
  BY <1>10, OperationNotPaused
<1>12. SocketOK(listenSocket_, "none")'
  <2>1. begun' = begun
        /\ (run[listener] = "ended" => run'[listener] = "ended")
    BY <1>9, <1>10 DEF Create, SetStart, ClientGoes, IInv, TypeOK, NotPaused
  <2> QED
    BY <1>1, <2>1 DEF EpollOK, SocketOK
<1>13. \A i \in 1..n : /\ i <= k => client[Order[i]] = "started"
                       /\ i > k => client[Order[i]] # "started"
                       /\ i > k + 1 => client[Order[i]] = "new"
  BY <1>2 DEF Starting, n
<1>14. \A i \in 1..n : i # k + 1 => client'[Order[i]] = client[Order[i]]
  <2>1. \A i \in 1..n : i # k + 1 => Order[i] \in Thread \ {t}
    BY <1>3, <1>5, <1>8, OrderFacts DEF n
  <2>2. \A u \in Thread \ {t} : client'[u] = client[u]
    BY <1>10, OperationFrame
  <2> QED
    BY <2>1, <2>2
<1>15. \A u \in Thread : ~Stopped(u)'
  BY <1>9, <1>10, OperationFrame DEF EpollOK, Clients, Stopped
<1>16. \E j \in 0..n : Starting(j)'
  <2>1. CASE Create(t) /\ todo' = todo
    <3>1. client'[t] = "starting"
      BY <1>10, <2>1, OperationFrame
    <3>2. \A i \in 1..n : /\ i <= k => client'[Order[i]] = "started"
                          /\ i > k => client'[Order[i]] # "started"
                          /\ i > k + 1 => client'[Order[i]] = "new"
      BY <1>3, <1>8, <1>13, <1>14, <3>1
    <3> QED
      BY <1>4, <2>1, <3>2 DEF Starting, n, Order
  <2>2. CASE SetStart(t) /\ todo' = Tail(todo)
    <3>1. client'[t] = "started"
      BY <1>10, <2>2, OperationFrame
    <3>2. \A i \in 1..n : /\ i <= k + 1 => client'[Order[i]] = "started"
                          /\ i > k + 1 => client'[Order[i]] # "started"
                          /\ i > k + 2 => client'[Order[i]] = "new"
      BY <1>3, <1>8, <1>13, <1>14, <3>1
    <3>3. k + 1 \in 0..n /\ (k + 1) + 1 = k + 2
      BY <1>3, <1>5
    <3>4. todo' = SubSeq(Order, (k + 1) + 1, n)
      BY <1>6, <2>2, <3>3
    <3>5. Starting(k + 1)'
      BY <3>2, <3>3, <3>4 DEF Starting, n, Order
    <3> QED
      BY <3>3, <3>5
  <2> QED
    BY <1>9, <2>1, <2>2
<1>17. client'[listener] # "new" =>
         /\ threadVec_' = WorkThreads
         /\ \A i \in DOMAIN WorkThreads : client'[WorkThreads[i]] = "started"
  <2> SUFFICES ASSUME client'[listener] # "new"
               PROVE  \A i \in DOMAIN WorkThreads :
                        client'[WorkThreads[i]] = "started"
    BY <1>1 DEF EpollOK, Clients
  <2>1. k + 1 >= Len(WorkThreads) + 1
    <3> SUFFICES ASSUME k + 1 < Len(WorkThreads) + 1 PROVE FALSE
      BY <1>3
    <3>1. client'[Order[Len(WorkThreads) + 1]] = "new"
      BY <1>3, <1>5, <1>13, <1>14
    <3> QED
      BY <3>1, OrderFacts
  <2> SUFFICES ASSUME NEW i \in DOMAIN WorkThreads
               PROVE  client'[WorkThreads[i]] = "started"
    OBVIOUS
  <2>2. i \in 1..n /\ i <= k /\ i # k + 1 /\ Order[i] = WorkThreads[i]
    BY <1>3, <2>1, OrderFacts
  <2> QED
    BY <1>13, <1>14, <2>2
<1>18. Clients'
  <2>1. threadVec_' = WorkThreads
    BY <1>1 DEF EpollOK, Clients
  <2> QED
    BY <1>1, <1>15, <1>16, <1>17, <2>1 DEF Clients, n
<1> QED
  BY <1>9, <1>11, <1>12, <1>18 DEF EpollOK, Next, Client

\* A step of the epoll server.
LEMMA EpollStep ==
  ASSUME IInv, EpollOK, Epoll!MainNext
  PROVE  EpollOK' /\ [Next]_vars
<1> USE ThreadsAssumption
<1>0. Clients
  BY DEF EpollOK
<1> DEFINE Plain == UNCHANGED <<vars, listenSocket_>>
<1>1. CASE Epoll!InitThreads
  <2>1. Plain
    BY <1>1 DEF Epoll!InitThreads, Epoll!vars, vars
  <2>2. Clients'
    BY <1>0, <1>1, <2>1 DEF Epoll!InitThreads, Clients, Stopped, vars
  <2> QED
    BY <2>1, <2>2, EpollPlain
<1>2. CASE Epoll!startWorkThread
  <2>1. Plain /\ threadVec_' = threadVec_ /\ threadVec_ = WorkThreads
        /\ pc = "startWork" /\ pc' = "start"
    BY <1>0, <1>2 DEF Epoll!startWorkThread, Epoll!vars, vars, Clients
  <2>2. todo' = Order
    BY <1>2, <2>1 DEF Epoll!startWorkThread, Order
  <2>3. Order \in Seq(Thread) /\ Len(Order) \in Nat
    BY OrderFacts
  <2>4. \A i \in 1..Len(Order) : Order[i] \in Thread
    BY <2>3
  <2>5. SubSeq(Order, 0 + 1, Len(Order)) = Order
    BY <2>3
  <2>6. \A t \in Thread : client[t] = "new"
    BY <1>0, <2>1 DEF Clients
  <2>7. Starting(0)'
    BY <2>1, <2>2, <2>3, <2>4, <2>5, <2>6 DEF Starting, Order, vars
  <2>8. Clients'
    BY <1>0, <2>1, <2>3, <2>7 DEF Clients, Stopped, vars, Order
  <2> QED
    BY <2>1, <2>8, EpollPlain
<1>3. CASE Epoll!StartNext
  BY <1>3, EpollStart
<1>4. CASE /\ Plain /\ threadVec_' = threadVec_
           /\ \/ pc' = pc /\ todo' = todo
              \/ pc' \in {"wait", "return", "ended"}
  <2>1. Clients'
    BY <1>0, <1>4 DEF Clients, Starting, Stopped, vars
  <2> QED
    BY <1>4, <2>1, EpollPlain
<1>5. ASSUME Epoll!BlockSignals \/ Epoll!SigWait \/ Epoll!Return \/ Epoll!Kill
             \/ Epoll!DefaultAction \/ Epoll!DestroyedListener
      PROVE  /\ Plain /\ threadVec_' = threadVec_
             /\ \/ pc' = pc /\ todo' = todo
                \/ pc' \in {"wait", "return", "ended"}
  BY <1>5 DEF Epoll!BlockSignals, Epoll!SigWait, Epoll!Return, Epoll!Kill,
     Epoll!DefaultAction, Epoll!DestroyedListener, Epoll!vars, vars
<1>6. CASE \E t \in Thread : Epoll!RunThread(t)
  BY <1>6, EpollThread
<1> QED
  BY <1>1, <1>2, <1>3, <1>4, <1>5, <1>6 DEF Epoll!MainNext, Epoll!Main

-----------------------------------------------------------------------------
(* The theorems.                                                           *)

\* Every step of either program, or of the client that pauses its threads, is a
\* step of ThreadBase and preserves the invariant.
LEMMA MainsStep ==
  ASSUME MainsIInv, [MainsNext]_mainsVars
  PROVE  MainsIInv' /\ [Next]_vars
<1>1. CASE InIocp(Iocp!MainNext)
  <2>1. IocpOK' /\ [Next]_vars
    BY <1>1, IocpStep DEF InIocp, MainsIInv
  <2> QED
    BY <1>1, <2>1, NextInvariant DEF InIocp, MainsIInv
<1>2. CASE InEpoll(Epoll!MainNext)
  <2>1. EpollOK' /\ [Next]_vars
    BY <1>2, EpollStep DEF InEpoll, MainsIInv
  <2> QED
    BY <1>2, <2>1, NextInvariant DEF InEpoll, MainsIInv
<1>3. ASSUME NEW t \in Used, InAny(Client(t) \/ Run(t))
      PROVE  MainsIInv' /\ [Next]_vars
  <2>1. Next /\ program' = "any"
    BY <1>3, ThreadsAssumption DEF InAny, Next
  <2> QED
    BY <2>1, NextInvariant DEF MainsIInv
<1>4. CASE UNCHANGED mainsVars
  <2>1. UNCHANGED <<vars, program, pc, todo, socket, threadVec_, listenSocket_>>
    BY <1>4 DEF mainsVars, iocpVars, epollVars
  <2>2. IInv'
    BY <2>1, NextInvariant DEF MainsIInv
  <2>3. IocpOK => IocpOK'
    BY <2>1 DEF IocpOK, NotPaused, SocketOK, Stopped, Gone, vars
  <2>4. EpollOK => EpollOK'
    BY <2>1 DEF EpollOK, Clients, NotPaused, SocketOK, Stopped, Starting,
       vars
  <2> QED
    BY <2>1, <2>2, <2>3, <2>4 DEF MainsIInv
<1> QED
  BY <1>1, <1>2, <1>3, <1>4 DEF MainsNext

\* In every behaviour of the programs the invariant holds throughout.
THEOREM MainsInvariantTheorem == MainsSpec => []MainsIInv
<1>1. MainsIInv /\ [MainsNext]_mainsVars => MainsIInv'
  BY MainsStep
<1> QED
  BY <1>1, MainsInitInvariant, PTL DEF MainsSpec

\* The two main functions are clients as ThreadBase describes them: their steps
\* are its steps, or do not touch the threads.
THEOREM MainsUseThreads == MainsSpec => Init /\ [][Next]_vars
<1>1. MainsInit => Init
  BY DEF MainsInit
<1>2. MainsIInv /\ [MainsNext]_mainsVars => [Next]_vars
  BY MainsStep
<1> QED
  BY <1>1, <1>2, MainsInvariantTheorem, PTL DEF MainsSpec

\* So no thread of either program, nor of a client that pauses its threads,
\* overwrites a pause or a stop once it has begun to work.
THEOREM MainsStopTheorem == MainsSpec => StopSticks
<1>1. MainsIInv /\ [Next]_vars =>
        [\A t \in Thread :
           begun[t] /\ thradState_[t] \in {"Pending", "End"} /\ Run(t)
             => thradState_'[t] \in {thradState_[t], "End"}]_vars
  BY StepSticks DEF MainsIInv
<1> QED
  BY <1>1, MainsUseThreads, MainsInvariantTheorem, PTL DEF StopSticks

\* A thread that has got to Kernel has begun, so that its socket listens and its
\* client has told it to start, after all workers.
LEMMA InvariantAccepts == MainsIInv => AcceptsOnlyWhenReady
<1> SUFFICES ASSUME MainsIInv, run[listener] = "kernel"
             PROVE  /\ program = "iocp" => socket = "listening"
                    /\ program = "epoll" =>
                         /\ listenSocket_ = "listening"
                         /\ threadVec_ # <<>>
                         /\ \A i \in DOMAIN threadVec_ :
                              client[threadVec_[i]] = "started"
  BY DEF AcceptsOnlyWhenReady, Iocp!KernelListens, Epoll!KernelListens,
     Epoll!WorkersComeFirst
<1> USE ThreadsAssumption
<1>1. CASE program = "iocp"
  BY <1>1 DEF MainsIInv, IocpOK, NotPaused, SocketOK
<1>2. CASE program = "epoll"
  <2>1. begun[listener] /\ listenSocket_ = "listening"
    BY <1>2 DEF MainsIInv, EpollOK, NotPaused, SocketOK
  <2>2. client[listener] # "new"
    BY <2>1 DEF MainsIInv, IInv, TypeOK
  <2> QED
    BY <1>2, <2>1, <2>2 DEF MainsIInv, EpollOK, Clients
<1> QED
  BY <1>1, <1>2

\* The listener of either server accepts only on a socket that listens, and that
\* of the epoll server only when every worker has been told to start, however
\* many there are.
THEOREM AcceptsTheorem == MainsSpec => []AcceptsOnlyWhenReady
  BY InvariantAccepts, MainsInvariantTheorem, PTL

\* While the session thread of the completion port server is told to stop, the
\* listener that hands it sessions is not there any more.
THEOREM OutlivesTheorem == MainsSpec => []SessionsOutliveListener
<1>1. MainsIInv => SessionsOutliveListener
  BY DEF MainsIInv, IocpOK, SessionsOutliveListener,
     Iocp!SessionsOutliveListener, Stopped, Gone
<1> QED
  BY <1>1, MainsInvariantTheorem, PTL

=============================================================================

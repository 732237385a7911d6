----------------------------- MODULE ThreadBase -----------------------------
(***************************************************************************)
(* ThreadBase: the life of a thread between the operations start, pause,   *)
(* resume and stop of its client and its own loop Run.  Both sides load    *)
(* and store thradState_ without a lock; every load and store is a step.   *)
(* The client used here calls start once, then pause and resume as it      *)
(* likes, then stop.                                                       *)
(***************************************************************************)
EXTENDS Naturals

CONSTANT Thread

VARIABLES
  thradState_,
  client, \* where the client is with the thread
  run,    \* where Run is
  begun   \* preRunKernel or Kernel has been called

vars == <<thradState_, client, run, begun>>

enumThreadState == {"Init", "Start", "Run", "Pending", "End"}

Init ==
  /\ thradState_ = [t \in Thread |-> "Init"]
  /\ client = [t \in Thread |-> "new"]
  /\ run = [t \in Thread |-> "none"]
  /\ begun = [t \in Thread |-> FALSE]

-----------------------------------------------------------------------------
(* The client.                                                             *)

setThreadState(t, s) == thradState_' = [thradState_ EXCEPT ![t] = s]
ClientGoes(t, from, to) ==
  client[t] = from /\ client' = [client EXCEPT ![t] = to]

\* start: CreateThread, whose failure goes unnoticed ...
Create(t) ==
  /\ ClientGoes(t, "new", "starting")
  /\ \E r \in {"isRun", "absent"} : run' = [run EXCEPT ![t] = r]
  /\ UNCHANGED <<thradState_, begun>>

\* ... and only then the state.
SetStart(t) ==
  /\ ClientGoes(t, "starting", "started")
  /\ setThreadState(t, "Start")
  /\ UNCHANGED <<run, begun>>

pause(t) ==
  /\ client[t] = "started"
  /\ setThreadState(t, "Pending")
  /\ UNCHANGED <<client, run, begun>>

resume(t) ==
  /\ client[t] = "started"
  /\ setThreadState(t, "Run")
  /\ UNCHANGED <<client, run, begun>>

\* stop: clear does nothing ...
SetEnd(t) ==
  /\ ClientGoes(t, "started", "stopping")
  /\ setThreadState(t, "End")
  /\ UNCHANGED <<run, begun>>

\* ... and the wait for the thread.  If none was created WaitForSingleObject
\* fails at once; pthread_join is then given a thread_ nobody has written, and
\* may return or not.
Join(t) ==
  /\ run[t] \in {"ended", "absent"}
  /\ ClientGoes(t, "stopping", "stopped")
  /\ UNCHANGED <<thradState_, run, begun>>

\* The wait that is sure to return in either variant.
JoinEnded(t) == run[t] = "ended" /\ Join(t)

Client(t) == Create(t) \/ SetStart(t) \/ pause(t) \/ resume(t)
             \/ SetEnd(t) \/ Join(t)

-----------------------------------------------------------------------------
(* The thread.                                                             *)

RunGoes(t, from, to) == run[t] = from /\ run' = [run EXCEPT ![t] = to]

IsRun(t) ==
  /\ RunGoes(t, "isRun",
             IF thradState_[t] = "Run" THEN "kernel" ELSE "isStart")
  /\ UNCHANGED <<thradState_, client, begun>>

IsStart(t) ==
  /\ RunGoes(t, "isStart",
             IF thradState_[t] = "Start" THEN "setRun" ELSE "isPending")
  /\ UNCHANGED <<thradState_, client, begun>>

\* Whatever the client has stored since is overwritten.
SetRun(t) ==
  /\ RunGoes(t, "setRun", "preRun")
  /\ setThreadState(t, "Run")
  /\ UNCHANGED <<client, begun>>

\* If it fails the thread ends.
PreRunKernel(t) ==
  /\ \E next \in {"kernel", "ended"} : RunGoes(t, "preRun", next)
  /\ begun' = [begun EXCEPT ![t] = TRUE]
  /\ UNCHANGED <<thradState_, client>>

\* Mutant: a thread that works says so.
KernelSaysRun(t) ==
  /\ RunGoes(t, "kernel", "isRun")
  /\ setThreadState(t, "Run")
  /\ begun' = [begun EXCEPT ![t] = TRUE]
  /\ UNCHANGED client

Kernel(t) ==
  /\ RunGoes(t, "kernel", "isRun")
  /\ begun' = [begun EXCEPT ![t] = TRUE]
  /\ UNCHANGED <<thradState_, client>>

\* Kernel of a class that ends its own thread, as CListener does in the epoll
\* server when select fails; whatever the client has stored is overwritten.
KernelFails(t) ==
  /\ RunGoes(t, "kernel", "isRun")
  /\ setThreadState(t, "End")
  /\ begun' = [begun EXCEPT ![t] = TRUE]
  /\ UNCHANGED client

\* Mutant: a paused thread sleeps without looking for the end.
IsPendingAgain(t) ==
  /\ RunGoes(t, "isPending",
             IF thradState_[t] = "Run" THEN "isRun" ELSE "isPending")
  /\ UNCHANGED <<thradState_, client, begun>>

\* A paused thread sleeps and begins again.
IsPending(t) ==
  /\ RunGoes(t, "isPending",
             IF thradState_[t] = "Pending" THEN "isRun" ELSE "isEnd")
  /\ UNCHANGED <<thradState_, client, begun>>

IsEnd(t) ==
  /\ RunGoes(t, "isEnd", IF thradState_[t] = "End" THEN "ended" ELSE "isRun")
  /\ UNCHANGED <<thradState_, client, begun>>

\* The loop around a Kernel that stores no state.
Loop(t) ==
  \/ IsRun(t) \/ IsStart(t) \/ SetRun(t) \/ PreRunKernel(t) \/ Kernel(t)
  \/ IsPending(t) \/ IsEnd(t)

Run(t) == Loop(t) \/ KernelFails(t)

Next == \E t \in Thread : Client(t) \/ Run(t)

\* The system schedules the thread, and Kernel returns: what it waits for has
\* a timeout.  A client that waits for a thread is woken.
Fairness == \A t \in Thread : WF_vars(Run(t)) /\ WF_vars(JoinEnded(t))

Spec == Init /\ [][Next]_vars /\ Fairness

-----------------------------------------------------------------------------
(* Properties                                                              *)

\* Every variable has its type, and a thread calls nothing of its class before
\* start has come to the store of the state, though it runs already.
TypeOK ==
  /\ thradState_ \in [Thread -> enumThreadState]
  /\ client \in [Thread -> {"new", "starting", "started", "stopping",
                            "stopped"}]
  /\ run \in [Thread -> {"none", "absent", "isRun", "isStart", "setRun",
                         "preRun", "kernel", "isPending", "isEnd", "ended"}]
  /\ begun \in [Thread -> BOOLEAN]
  /\ \A t \in Thread : begun[t] => client[t] \notin {"new", "starting"}

\* The store of Run by the thread itself can hit any state the client has set
\* in between, but no more once preRunKernel or Kernel has been called: from
\* then on a stop sticks, and a pause is overwritten by nothing but the end
\* that a Kernel gives to its own thread.
StopSticks ==
  [][\A t \in Thread :
       begun[t] /\ thradState_[t] \in {"Pending", "End"} /\ Run(t)
         => thradState_'[t] \in {thradState_[t], "End"}]_vars

\* stop has stored End and the thread has overwritten it.
StopLost(t) == client[t] = "stopping" /\ thradState_[t] = "Run"
=============================================================================

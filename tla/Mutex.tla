------------------------------- MODULE Mutex --------------------------------
(***************************************************************************)
(* Mutex and AutoLock.  AutoLock objects nest: CSyncBuffer::write holds    *)
(* one when it calls resize, which makes another.  The mutex of src/src    *)
(* is meant to be recursive, but sets the type in an attribute object it   *)
(* has not initialized; that of singlethread has the default type.  The    *)
(* module stands for any use of it; SyncBuffer is one.                     *)
(***************************************************************************)
EXTENDS Naturals, FiniteSets

CONSTANTS
  Thread,
  Kinds,    \* the kinds of mutex the constructor may make
  MaxDepth, \* bound: how deep AutoLock objects nest
  Nobody

ASSUME MutexAssumption ==
  /\ Kinds \subseteq {"recursive", "plain"} /\ Kinds # {}
  /\ MaxDepth \in Nat /\ Nobody \notin Thread

VARIABLES
  kind,
  owner, count, \* the mutex
  waits,        \* the threads in a constructor of AutoLock, before lock returns
  depth         \* how many AutoLock objects each thread has constructed

mutexVars == <<kind, owner, count, waits, depth>>

MutexInit ==
  /\ kind \in Kinds
  /\ owner = Nobody /\ count = 0
  /\ waits = {} /\ depth = [t \in Thread |-> 0]

\* AutoLock::AutoLock calls lock ...
AutoLock(t) ==
  /\ t \notin waits /\ depth[t] < MaxDepth
  /\ waits' = waits \cup {t}
  /\ UNCHANGED <<kind, owner, count, depth>>

\* ... which returns once the mutex is free, or the thread's own and recursive.
lock(t) ==
  /\ t \in waits
  /\ owner = Nobody \/ (owner = t /\ kind = "recursive")
  /\ owner' = t /\ count' = count + 1
  /\ waits' = waits \ {t}
  /\ depth' = [depth EXCEPT ![t] = @ + 1]
  /\ UNCHANGED kind

\* Mutant: the inner objects do not unlock.
UnlockOnce(t) ==
  /\ t \notin waits /\ depth[t] > 0
  /\ count' = IF depth[t] = 1 THEN count - 1 ELSE count
  /\ owner' = IF count' = 0 THEN Nobody ELSE owner
  /\ depth' = [depth EXCEPT ![t] = @ - 1]
  /\ UNCHANGED <<kind, waits>>

\* AutoLock::~AutoLock.
unlock(t) ==
  /\ t \notin waits /\ depth[t] > 0
  /\ count' = count - 1
  /\ owner' = IF count' = 0 THEN Nobody ELSE owner
  /\ depth' = [depth EXCEPT ![t] = @ - 1]
  /\ UNCHANGED <<kind, waits>>

MutexNext == \E t \in Thread : AutoLock(t) \/ lock(t) \/ unlock(t)

-----------------------------------------------------------------------------
(* Properties                                                              *)

\* Every variable has its type.
MutexTypeOK ==
  /\ kind \in Kinds
  /\ owner \in Thread \cup {Nobody} /\ count \in 0..MaxDepth
  /\ waits \subseteq Thread /\ depth \in [Thread -> 0..MaxDepth]

\* Whoever has an AutoLock object has the mutex, to itself, until the outermost
\* of its objects is gone.
MutualExclusion ==
  \A t \in Thread : depth[t] > 0 => owner = t /\ count = depth[t]

\* What MutualExclusion needs to be inductive: the count of the owner is the
\* number of its objects, and it is zero exactly if there is none.
OwnerCounts ==
  /\ owner = Nobody => count = 0
  /\ owner # Nobody => count = depth[owner] /\ count > 0

WaitsOK == \A t \in waits : depth[t] < MaxDepth

\* The inductive invariant.
MutexIInv == MutexTypeOK /\ MutualExclusion /\ OwnerCounts /\ WaitsOK

\* The thread waits for itself.
SelfDeadlock(t) == kind = "plain" /\ t \in waits /\ owner = t

\* Whoever waits for the mutex gets it, however deep the others nest, unless a
\* thread nests AutoLock objects of a mutex that is not recursive.
EveryoneGetsIn ==
  \A t \in Thread :
    t \in waits ~> t \notin waits \/ \E u \in Thread : SelfDeadlock(u)
=============================================================================

------------------------- MODULE SyncBuffer_proofs --------------------------
(***************************************************************************)
(* Three results about the send buffer of a session.  The buffer is a      *)
(* queue, for any lengths of replies and any size of the memory, however   *)
(* write, resize, remove and restoration are interleaved with each other   *)
(* and with the reads of Write that do not take the mutex.  No copy leaves *)
(* its allocation.  And what the socket takes are the replies in order,    *)
(* unless resize has freed the memory that Write was looking at.           *)
(***************************************************************************)
EXTENDS SyncBuffer, SequenceTheorems, TLAPS

-----------------------------------------------------------------------------
(* The mutex, for any number of threads, any depth of nesting and either   *)
(* kind, whatever the threads use it for.                                  *)

\* The constructor of the mutex establishes it.
LEMMA MutexInitInv == MutexInit => MutexIInv
  BY MutexAssumption
     DEF MutexInit, MutexIInv, MutexTypeOK, MutualExclusion, OwnerCounts,
         WaitsOK

\* A constructor of AutoLock, before lock returns, changes nothing of it.
LEMMA AutoLockInv ==
  ASSUME MutexIInv, NEW t \in Thread, AutoLock(t) PROVE MutexIInv'
  BY DEF MutexIInv, AutoLock, MutexTypeOK, MutualExclusion, OwnerCounts,
     WaitsOK

\* lock returns to a thread when no other has an object.
LEMMA LockInv ==
  ASSUME MutexIInv, NEW t \in Thread, lock(t) PROVE MutexIInv'
<1>1. /\ depth \in [Thread -> 0..MaxDepth] /\ MaxDepth \in Nat /\ count \in Nat
      /\ t \in waits /\ depth[t] < MaxDepth
  BY MutexAssumption DEF MutexIInv, MutexTypeOK, WaitsOK, lock
<1>2. \A u \in Thread : u # t => depth[u] = 0
  BY <1>1, MutexAssumption DEF MutexIInv, MutualExclusion, OwnerCounts, lock
<1>3. count = depth[t]
  BY <1>1, MutexAssumption DEF MutexIInv, MutualExclusion, OwnerCounts, lock
<1>4. MutexTypeOK'
  BY <1>1, <1>3, MutexAssumption DEF MutexIInv, MutexTypeOK, lock
<1>5. MutualExclusion' /\ OwnerCounts'
  BY <1>1, <1>2, <1>3, MutexAssumption
     DEF MutualExclusion, OwnerCounts, lock
<1>6. WaitsOK'
  BY <1>1 DEF MutexIInv, WaitsOK, lock
<1>. QED  BY <1>4, <1>5, <1>6 DEF MutexIInv

\* A destructor takes back what its constructor has counted, and the last one
\* leaves the mutex to nobody.
LEMMA UnlockInv ==
  ASSUME MutexIInv, NEW t \in Thread, unlock(t) PROVE MutexIInv'
<1>1. /\ depth \in [Thread -> 0..MaxDepth] /\ MaxDepth \in Nat
      /\ owner = t /\ count = depth[t] /\ depth[t] > 0 /\ t \notin waits
  BY MutexAssumption DEF MutexIInv, MutexTypeOK, MutualExclusion, unlock
<1>2. \A u \in Thread : u # t => depth[u] = 0
  BY <1>1 DEF MutexIInv, MutualExclusion
<1>3. MutexTypeOK'
  BY <1>1, MutexAssumption DEF MutexIInv, MutexTypeOK, unlock
<1>4. MutualExclusion' /\ OwnerCounts'
  BY <1>1, <1>2, MutexAssumption DEF MutualExclusion, OwnerCounts, unlock
<1>5. WaitsOK'
  BY <1>1 DEF MutexIInv, WaitsOK, unlock
<1>. QED  BY <1>3, <1>4, <1>5 DEF MutexIInv

-----------------------------------------------------------------------------
(* The invariant of the buffer.                                            *)

ReplyAtHand == pc \in {"write", "resize", "rptr", "wptr", "copy", "advance"}
Removing == wpc \in {"remove", "removeLast", "restore", "restoreLast"}

TypeOK ==
  /\ size_ \in Nat /\ size_ >= Size
  /\ memory \in [0..size_ - 1 -> Nat]
  /\ rptr_ \in [block : Nat, offset : Nat]
  /\ wptr_ \in [block : Nat, offset : Nat]
  /\ buffer \in Nat
  /\ written \in Nat /\ len \in Nat
  /\ pc \in {"idle", "write", "resize", "rptr", "wptr", "copy", "advance"}
  /\ ReplyAtHand => n \in Length
  /\ wpc \in {"remove", "removeLast"} => size \in Nat \ {0}

\* How many AutoLock objects each thread has, by where it is.
LocksOK ==
  /\ pc = "idle" => depth["session"] = 0 /\ "session" \notin waits
  /\ pc = "write" =>
       depth["session"] = IF "session" \in waits THEN 0 ELSE 1
  /\ pc = "resize" =>
       depth["session"] = IF "session" \in waits THEN 1 ELSE 2
  /\ pc \in {"rptr", "wptr"} => depth["session"] = 2 /\ "session" \notin waits
  /\ pc \in {"copy", "advance"} =>
       depth["session"] = 1 /\ "session" \notin waits
  /\ ~Removing => depth["worker"] = 0 /\ "worker" \notin waits
  /\ "worker" \in waits => depth["worker"] = 0
  /\ depth["worker"] \in {0, 1}

\* The pointers are in their order inside the memory, there is room for what
\* is to be copied, and what has been copied is behind wptr_.
PointersOK ==
  /\ rptr_.offset <= wptr_.offset /\ wptr_.offset <= size_
  /\ pc \in {"rptr", "wptr"} => len + n <= size_
  /\ pc = "wptr" => rptr_.offset = 0
  /\ pc \in {"copy", "advance"} => wptr_.offset + n <= size_
  /\ pc = "advance" =>
       \A i \in 1..n : memory[wptr_.offset + i - 1] = written + i

\* The inductive invariant.
IInv == TypeOK /\ MutexIInv /\ LocksOK /\ PointersOK

\* The lengths of replies, as the proofs use them.
LEMMA Lengths ==
  /\ Size \in Nat \ {0} /\ "session" \in Thread /\ "worker" \in Thread
  /\ MaxDepth \in Nat
  /\ \A k \in Length : k \in Nat /\ k > 0 /\ k <= Size
  BY BufferAssumption, MutexAssumption

-----------------------------------------------------------------------------
(* The mutex of the buffer is a mutex of module Mutex.                     *)

\* The actions that change it are those of Mutex.
LEMMA MutexStep == Next => [MutexNext]_mutexVars
<1>. SUFFICES ASSUME Next PROVE [MutexNext]_mutexVars
  OBVIOUS
<1>. USE Lengths DEF MutexNext
<1>1. CASE Session
  <2>1. CASE BeginWrite  BY <2>1 DEF BeginWrite
  <2>2. CASE Lock("session")  BY <2>2 DEF Lock
  <2>3. CASE Write  BY <2>3 DEF Write
  <2>4. CASE Resize \/ ResizeRptr \/ Copy
    BY <2>4 DEF Resize, ResizeRptr, Copy
  <2>5. CASE ResizeWptr \/ Advance  BY <2>5 DEF ResizeWptr, Advance
  <2>. QED  BY <1>1, <2>1, <2>2, <2>3, <2>4, <2>5 DEF Session
<1>2. CASE Worker
  <2>1. CASE GetUsedSizeBegin \/ Load \/ GetUsedSizeEnd \/ GetRead
    BY <2>1 DEF GetUsedSizeBegin, Load, GetUsedSizeEnd, GetRead
  <2>2. CASE Send \/ SendAgain \/ SendFails
    BY <2>2 DEF Send, SendAgain, SendFails
  <2>3. CASE BeginRemove  BY <2>3 DEF BeginRemove
  <2>4. CASE Lock("worker")  BY <2>4 DEF Lock
  <2>5. CASE Remove  BY <2>5 DEF Remove
  <2>6. CASE Restoration  BY <2>6 DEF Restoration
  <2>. QED  BY <1>2, <2>1, <2>2, <2>3, <2>4, <2>5, <2>6 DEF Worker
<1>. QED  BY <1>1, <1>2 DEF Next

\* Hence the invariant of Mutex holds of it.
LEMMA MutexKept == ASSUME MutexIInv, [Next]_vars PROVE MutexIInv'
<1>1. CASE UNCHANGED vars
  BY <1>1 DEF vars, mutexVars, MutexIInv, MutexTypeOK, MutualExclusion,
     OwnerCounts, WaitsOK
<1>2. CASE UNCHANGED mutexVars
  BY <1>2 DEF mutexVars, MutexIInv, MutexTypeOK, MutualExclusion,
     OwnerCounts, WaitsOK
<1>3. CASE Next /\ MutexNext
  BY <1>3, AutoLockInv, LockInv, UnlockInv DEF MutexNext
<1>. QED  BY <1>1, <1>2, <1>3, MutexStep

\* Not both threads have an AutoLock object.
LEMMA OneHolds ==
  ASSUME MutexIInv PROVE depth["session"] = 0 \/ depth["worker"] = 0
<1>1. depth \in [Thread -> Nat]
  BY Lengths DEF MutexIInv, MutexTypeOK
<1>. QED  BY <1>1, Lengths DEF MutexIInv, MutualExclusion

\* So while one of them removes or restores, the other is not between two
\* steps of write or resize.
LEMMA WorkerAlone ==
  ASSUME IInv, Remove \/ Restoration
  PROVE  /\ pc \notin {"rptr", "wptr", "copy", "advance"}
         /\ depth["worker"] = 1 /\ "worker" \notin waits
  BY OneHolds, Lengths
     DEF IInv, LocksOK, Remove, Restoration, unlock

-----------------------------------------------------------------------------
(* One lemma per action that changes the buffer or an AutoLock object.     *)

\* A new buffer is empty.
LEMMA InitIInv == Init => IInv
<1>. SUFFICES ASSUME Init PROVE IInv
  OBVIOUS
<1>. USE Lengths
<1>1. MutexIInv
  BY MutexInitInv DEF Init
<1>2. TypeOK
  BY DEF Init, TypeOK, ReplyAtHand
<1>3. LocksOK
  BY DEF Init, MutexInit, LocksOK, Removing
<1>4. PointersOK
  BY DEF Init, PointersOK
<1>. QED  BY <1>1, <1>2, <1>3, <1>4 DEF IInv

\* write begins, and gets the mutex, before it looks at the buffer.
LEMMA BeginWriteIInv == ASSUME IInv, BeginWrite PROVE IInv'
<1>. USE Lengths DEF IInv, BeginWrite, AutoLock, bufferVars, workerVars
<1>1. MutexIInv'
  BY MutexKept DEF Next, Session
<1>2. TypeOK' /\ LocksOK' /\ PointersOK'
  BY DEF TypeOK, ReplyAtHand, LocksOK, Removing, PointersOK
<1>. QED  BY <1>1, <1>2

\* Getting the mutex is all that happens in a step of lock.
LEMMA LockIInv ==
  ASSUME IInv, Lock("session") \/ Lock("worker") PROVE IInv'
<1>. USE Lengths DEF IInv
<1>1. MutexIInv'
  BY MutexKept DEF Next, Session, Worker
<1>2. TypeOK' /\ PointersOK'
  BY DEF Lock, bufferVars, sessionVars, workerVars, TypeOK, ReplyAtHand,
     PointersOK
<1>3. depth \in [Thread -> Nat]
  BY DEF MutexIInv, MutexTypeOK
<1>4. LocksOK'
  <2>1. CASE Lock("session")
    BY <2>1, <1>3 DEF Lock, lock, LocksOK, Removing, sessionVars, workerVars
  <2>2. CASE Lock("worker")
    BY <2>2, <1>3 DEF Lock, lock, LocksOK, Removing, sessionVars, workerVars
  <2>. QED  BY <2>1, <2>2
<1>. QED  BY <1>1, <1>2, <1>4

\* A reply that fits has its room; resize is called with the mutex held.
LEMMA WriteIInv == ASSUME IInv, Write PROVE IInv'
<1>. USE Lengths DEF IInv, Write, AutoLock, bufferVars, mutexVars, workerVars
<1>1. MutexIInv'
  BY MutexKept DEF Next, Session
<1>2. TypeOK' /\ PointersOK'
  BY DEF TypeOK, ReplyAtHand, PointersOK, getFreeSize
<1>3. LocksOK'
  BY DEF LocksOK, Removing
<1>. QED  BY <1>1, <1>2, <1>3

\* The new memory has room for what is in the old one and as much again.
LEMMA ResizeIInv == ASSUME IInv, Resize PROVE IInv'
<1>. USE Lengths DEF IInv
<1>1. MutexIInv'
  BY MutexKept DEF Next, Session
<1>2. len' \in Nat /\ len' <= size_ /\ size_' = 2 * size_
  BY DEF Resize, getUsedSize, TypeOK, PointersOK
<1>3. memory' \in [0..size_' - 1 -> Nat]
  <2>1. /\ rptr_.offset \in Nat /\ wptr_.offset \in Nat /\ size_ \in Nat
        /\ len' = wptr_.offset - rptr_.offset /\ wptr_.offset <= size_
        /\ memory \in [0..size_ - 1 -> Nat]
    BY DEF Resize, getUsedSize, TypeOK, PointersOK
  <2>2. ASSUME NEW i \in 0..size_' - 1
        PROVE  (IF i < len' THEN memory[rptr_.offset + i] ELSE 0) \in Nat
    <3>1. i < len' => rptr_.offset + i \in 0..size_ - 1
      BY ONLY <1>2, <2>1, <2>2
    <3>. QED  BY ONLY <2>1, <3>1
  <2>. QED  BY <2>2 DEF Resize
<1>4. TypeOK'
  BY <1>2, <1>3 DEF Resize, TypeOK, ReplyAtHand, workerVars
<1>5. PointersOK'
  BY <1>2 DEF Resize, TypeOK, PointersOK, ReplyAtHand
<1>6. LocksOK'
  BY DEF Resize, LocksOK, Removing, mutexVars, workerVars
<1>. QED  BY <1>1, <1>4, <1>5, <1>6

\* One pointer after the other is moved to the new memory.
LEMMA ResizePointersIInv ==
  ASSUME IInv, ResizeRptr \/ ResizeWptr PROVE IInv'
<1>. USE Lengths DEF IInv
<1>1. MutexIInv'
  BY MutexKept DEF Next, Session
<1>2. depth \in [Thread -> Nat]
  BY DEF MutexIInv, MutexTypeOK
<1>3. CASE ResizeRptr
  BY <1>1, <1>3 DEF ResizeRptr, TypeOK, ReplyAtHand, PointersOK, LocksOK,
     Removing, mutexVars, workerVars
<1>4. CASE ResizeWptr
  <2>1. wptr_' = [block |-> rptr_.block, offset |-> len]
    BY <1>4 DEF ResizeWptr, TypeOK, PointersOK
  <2>2. TypeOK' /\ PointersOK'
    BY <1>4, <2>1 DEF ResizeWptr, TypeOK, ReplyAtHand, PointersOK, workerVars
  <2>3. LocksOK'
    BY <1>2, <1>4 DEF ResizeWptr, unlock, LocksOK, Removing, workerVars
  <2>. QED  BY <1>1, <2>2, <2>3
<1>. QED  BY <1>3, <1>4

\* The bytes are copied where there is room for them.
LEMMA CopyIInv == ASSUME IInv, Copy PROVE IInv'
<1>. USE Lengths DEF IInv
<1>1. MutexIInv'
  BY MutexKept DEF Next, Session
<1>2. n \in Nat /\ wptr_.offset \in Nat /\ size_ \in Nat /\ written \in Nat
  BY DEF Copy, TypeOK, ReplyAtHand
<1>3. TypeOK'
  <2>1. memory \in [0..size_ - 1 -> Nat]
    BY DEF TypeOK
  <2>2. Copied \in [0..size_ - 1 -> Nat]
    <3>1. ASSUME NEW i \in 0..size_ - 1,
                 i \in wptr_.offset..wptr_.offset + n - 1
          PROVE  written + 1 + i - wptr_.offset \in Nat
      BY ONLY <1>2, <3>1
    <3>2. \A i \in 0..size_ - 1 :
            i \notin wptr_.offset..wptr_.offset + n - 1 => memory[i] \in Nat
      BY ONLY <2>1
    <3>. QED  BY ONLY <3>1, <3>2 DEF Copied
  <2>. QED  BY <2>2 DEF Copy, TypeOK, ReplyAtHand, workerVars
<1>4. PointersOK'
  <2>1. /\ rptr_.offset <= wptr_.offset /\ wptr_.offset + n <= size_
        /\ pc' = "advance" /\ memory' = Copied
        /\ UNCHANGED <<rptr_, wptr_, size_, len, n, written>>
    BY DEF Copy, PointersOK
  <2>2. ASSUME NEW i \in 1..n
        PROVE  memory'[wptr_.offset + i - 1] = written + i
    <3>1. /\ wptr_.offset + i - 1 \in 0..size_ - 1
          /\ wptr_.offset + i - 1 \in wptr_.offset..wptr_.offset + n - 1
          /\ written + 1 + (wptr_.offset + i - 1) - wptr_.offset = written + i
      BY ONLY <1>2, <2>1, <2>2
    <3>. QED  BY ONLY <2>1, <3>1 DEF Copied
  <2>3. wptr_.offset <= size_
    BY ONLY <1>2, <2>1
  <2>. QED  BY <2>1, <2>2, <2>3 DEF PointersOK
<1>5. LocksOK'
  BY DEF Copy, LocksOK, Removing, mutexVars, workerVars
<1>. QED  BY <1>1, <1>3, <1>4, <1>5

\* wptr_ passes what has been copied.
LEMMA AdvanceIInv == ASSUME IInv, Advance PROVE IInv'
<1>. USE Lengths DEF IInv
<1>1. MutexIInv'
  BY MutexKept DEF Next, Session
<1>2. depth \in [Thread -> Nat]
  BY DEF MutexIInv, MutexTypeOK
<1>3. n \in Nat
  BY DEF Advance, TypeOK, ReplyAtHand
<1>4. wptr_' = [block |-> wptr_.block, offset |-> wptr_.offset + n]
  BY DEF Advance, TypeOK
<1>5. TypeOK'
  <2>1. wptr_ \in [block : Nat, offset : Nat] /\ written \in Nat
    BY DEF TypeOK
  <2>2. wptr_.block \in Nat /\ wptr_.offset + n \in Nat
    BY <1>3, <2>1
  <2>3. wptr_' \in [block : Nat, offset : Nat]
    BY ONLY <1>4, <2>2
  <2>4. written' \in Nat
    BY <1>3, <2>1 DEF Advance
  <2>. QED  BY <2>3, <2>4 DEF Advance, TypeOK, ReplyAtHand, workerVars
<1>6. PointersOK'
  BY <1>3, <1>4 DEF Advance, TypeOK, PointersOK
<1>7. LocksOK'
  BY <1>2 DEF Advance, unlock, LocksOK, Removing, workerVars
<1>. QED  BY <1>1, <1>5, <1>6, <1>7

\* Write of CTcpConnection reads the pointers and changes none.
LEMMA SendIInv ==
  ASSUME IInv,
         \/ GetUsedSizeBegin \/ Load \/ GetUsedSizeEnd \/ GetRead
         \/ Send \/ SendAgain \/ SendFails
  PROVE  IInv'
<1>. USE Lengths DEF IInv
<1>1. MutexIInv'
  BY MutexKept DEF Next, Worker
<1>2. PointersOK'
  BY DEF GetUsedSizeBegin, Load, GetUsedSizeEnd, GetRead, Send, SendAgain,
     SendFails, PointersOK, bufferVars, sessionVars
<1>3. LocksOK'
  BY DEF GetUsedSizeBegin, Load, GetUsedSizeEnd, GetRead, Send, SendAgain,
     SendFails, LocksOK, Removing, mutexVars, sessionVars
<1>4. TypeOK'
  <2>1. CASE GetUsedSizeBegin \/ Load \/ GetUsedSizeEnd \/ GetRead
    BY <2>1 DEF GetUsedSizeBegin, Load, GetUsedSizeEnd, GetRead, TypeOK,
       ReplyAtHand, bufferVars, sessionVars
  <2>2. CASE SendAgain \/ SendFails
    BY <2>2 DEF SendAgain, SendFails, TypeOK, ReplyAtHand, bufferVars,
       sessionVars
  <2>3. CASE Send
    BY <2>3 DEF Send, TypeOK, ReplyAtHand, bufferVars, sessionVars
  <2>. QED  BY <2>1, <2>2, <2>3
<1>. QED  BY <1>1, <1>2, <1>3, <1>4

\* The worker asks for the mutex once for each of the two calls.
LEMMA BeginRemoveIInv == ASSUME IInv, BeginRemove PROVE IInv'
<1>. USE Lengths DEF IInv, BeginRemove, AutoLock, bufferVars, sessionVars,
                     workerVars
<1>1. MutexIInv'
  BY MutexKept DEF Next, Worker
<1>2. TypeOK' /\ PointersOK' /\ LocksOK'
  BY DEF TypeOK, ReplyAtHand, PointersOK, LocksOK, Removing
<1>. QED  BY <1>1, <1>2

\* rptr_ passes no more than there is.
LEMMA RemoveIInv == ASSUME IInv, Remove PROVE IInv'
<1>. USE Lengths DEF IInv
<1>1. MutexIInv'
  BY MutexKept DEF Next, Worker
<1>2. depth \in [Thread -> Nat]
  BY DEF MutexIInv, MutexTypeOK
<1>3. pc \notin {"rptr", "wptr", "copy", "advance"} /\ depth["worker"] = 1
  BY WorkerAlone
<1>4. /\ rptr_' \in [block : Nat, offset : Nat]
      /\ rptr_'.offset <= wptr_.offset
  <2>1. /\ rptr_ \in [block : Nat, offset : Nat] /\ wptr_.offset \in Nat
        /\ size \in Nat /\ rptr_.offset <= wptr_.offset
    BY DEF Remove, TypeOK, PointersOK
  <2>2. CASE getUsedSize < size
    <3>1. rptr_' = rptr_
      BY <2>1, <2>2 DEF Remove, getUsedSize
    <3>. QED  BY ONLY <2>1, <3>1
  <2>3. CASE getUsedSize >= size
    <3>1. rptr_' = [block |-> rptr_.block, offset |-> rptr_.offset + size]
      BY <2>1, <2>3 DEF Remove
    <3>2. /\ rptr_.block \in Nat /\ rptr_.offset + size \in Nat
          /\ rptr_.offset + size <= wptr_.offset
      BY ONLY <2>1, <2>3 DEF getUsedSize
    <3>. QED  BY ONLY <3>1, <3>2
  <2>. QED  BY <2>1, <2>2, <2>3 DEF getUsedSize
<1>5. TypeOK' /\ PointersOK'
  BY <1>3, <1>4 DEF Remove, TypeOK, ReplyAtHand, PointersOK, sessionVars
<1>6. LocksOK'
  BY <1>2, <1>3 DEF Remove, unlock, LocksOK, Removing, sessionVars
<1>. QED  BY <1>1, <1>5, <1>6

\* What is left is moved, and the pointers with it.
LEMMA RestorationIInv == ASSUME IInv, Restoration PROVE IInv'
<1>. USE Lengths DEF IInv
<1>1. MutexIInv'
  BY MutexKept DEF Next, Worker
<1>2. depth \in [Thread -> Nat]
  BY DEF MutexIInv, MutexTypeOK
<1>3. pc \notin {"rptr", "wptr", "copy", "advance"} /\ depth["worker"] = 1
  BY WorkerAlone
<1>4. getUsedSize \in Nat /\ rptr_.offset + getUsedSize <= size_
  BY DEF getUsedSize, TypeOK, PointersOK
<1>5. memory' \in [0..size_ - 1 -> Nat]
  <2>1. /\ memory \in [0..size_ - 1 -> Nat] /\ size_ \in Nat
        /\ rptr_.offset \in Nat
    BY DEF TypeOK
  <2>2. ASSUME NEW i \in 0..size_ - 1
        PROVE  /\ memory[i] \in Nat
               /\ i < getUsedSize => memory[rptr_.offset + i] \in Nat
    <3>1. i < getUsedSize => rptr_.offset + i \in 0..size_ - 1
      BY ONLY <1>4, <2>1, <2>2
    <3>. QED  BY ONLY <2>1, <3>1
  <2>. QED  BY <2>2 DEF Restoration
<1>6. TypeOK' /\ PointersOK'
  BY <1>3, <1>4, <1>5
     DEF Restoration, TypeOK, ReplyAtHand, PointersOK, sessionVars
<1>7. LocksOK'
  BY <1>2, <1>3 DEF Restoration, unlock, LocksOK, Removing, sessionVars
<1>. QED  BY <1>1, <1>6, <1>7

\* Every step of either thread keeps the invariant.
THEOREM BufferInvariantTheorem == Spec => []IInv
<1>1. IInv /\ [Next]_vars => IInv'
  <2> SUFFICES ASSUME IInv, [Next]_vars PROVE IInv'
    OBVIOUS
  <2>1. CASE UNCHANGED vars
    <3>1. MutexIInv'
      BY MutexKept DEF IInv
    <3>. QED
      BY <2>1, <3>1 DEF vars, bufferVars, mutexVars, sessionVars, workerVars,
         IInv, TypeOK, ReplyAtHand, LocksOK, Removing, PointersOK
  <2>2. CASE Session
    BY <2>2, BeginWriteIInv, LockIInv, WriteIInv, ResizeIInv,
       ResizePointersIInv, CopyIInv, AdvanceIInv DEF Session
  <2>3. CASE Worker
    BY <2>3, SendIInv, BeginRemoveIInv, LockIInv, RemoveIInv, RestorationIInv
       DEF Worker
  <2>. QED  BY <2>1, <2>2, <2>3 DEF Next
<1>. QED  BY <1>1, InitIInv, PTL DEF Spec

-----------------------------------------------------------------------------
(* The refinement: what is in the buffer is the queue of SendQueue.        *)

ContentsOK ==
  /\ Used \in Nat /\ First \in Nat
  /\ First + Used <= size_
  /\ Contents \in Seq(Nat) /\ Len(Contents) = Used
  /\ \A i \in 1..Used : Contents[i] = memory[First + i - 1]

\* The contents lie inside the memory, also in the middle of resize.
LEMMA ContentsType == IInv => ContentsOK
<1>. SUFFICES ASSUME IInv PROVE ContentsOK
  OBVIOUS
<1>. USE Lengths DEF IInv, TypeOK, PointersOK
<1>1. Used \in Nat /\ First \in Nat /\ First + Used <= size_
  <2>1. CASE pc \in {"rptr", "wptr"}
    BY <2>1 DEF Used, First, ReplyAtHand
  <2>2. CASE pc \notin {"rptr", "wptr"}
    BY <2>2 DEF Used, First, getUsedSize
  <2>. QED  BY <2>1, <2>2
<1>2. Contents \in [1..Used -> Nat]
  BY <1>1 DEF Contents
<1>. QED  BY <1>1, <1>2 DEF ContentsOK, Contents

\* The same of the next state.
LEMMA ContentsTypeNext == IInv' => ContentsOK'
  BY ContentsType, PTL

\* Two states that hold the same bytes have the same contents.
LEMMA SameContents ==
  ASSUME IInv, IInv', Used' = Used,
         \A i \in 1..Used : memory'[First' + i - 1] = memory[First + i - 1]
  PROVE  Contents' = Contents
<1>1. ContentsOK /\ ContentsOK'
  BY ContentsType, ContentsTypeNext
<1>2. \A i \in 1..Used : Contents'[i] = Contents[i]
  BY <1>1 DEF ContentsOK
<1>. QED  BY <1>1, <1>2, SeqEqual DEF ContentsOK

\* resize keeps what is in the buffer in each of its steps.
LEMMA ResizeKeeps ==
  ASSUME IInv, IInv', Resize \/ ResizeRptr \/ ResizeWptr
  PROVE  Contents' = Contents
<1>. USE Lengths DEF IInv, TypeOK, PointersOK, First, Used, getUsedSize
<1>1. CASE Resize
  <2>1. Used' = Used
    BY <1>1 DEF Resize
  <2>2. \A i \in 1..Used : memory'[First' + i - 1] = memory[First + i - 1]
    BY <1>1 DEF Resize
  <2>. QED  BY <2>1, <2>2, SameContents
<1>2. CASE ResizeRptr
  BY <1>2, SameContents DEF ResizeRptr
<1>3. CASE ResizeWptr
  <2>1. Used' = Used /\ First' = First
    BY <1>3 DEF ResizeWptr
  <2>. QED  BY <1>3, <2>1, SameContents DEF ResizeWptr
<1>. QED  BY <1>1, <1>2, <1>3

\* Bytes that are copied behind wptr_ are not in the buffer yet.
LEMMA CopyKeeps == ASSUME IInv, IInv', Copy PROVE Contents' = Contents
<1>. USE Lengths
<1>1. Used' = Used /\ First' = First
  BY DEF Copy, Used, First, getUsedSize
<1>2. /\ Used \in Nat /\ First \in Nat /\ First + Used <= size_
      /\ size_ \in Nat
  BY ContentsType DEF ContentsOK, IInv, TypeOK
<1>3. First + Used = wptr_.offset /\ n \in Nat
  BY DEF Copy, IInv, TypeOK, ReplyAtHand, Used, First, getUsedSize
<1>4. ASSUME NEW i \in 1..Used
      PROVE  memory'[First + i - 1] = memory[First + i - 1]
  <2>1. /\ First + i - 1 \in 0..size_ - 1
        /\ First + i - 1 \notin wptr_.offset..wptr_.offset + n - 1
    BY <1>2, <1>3
  <2>. QED  BY <2>1 DEF Copy, Copied
<1>. QED  BY <1>1, <1>4, SameContents

\* restoration moves the bytes, and the pointers with them.
LEMMA RestorationKeeps ==
  ASSUME IInv, IInv', Restoration PROVE Contents' = Contents
<1>. USE Lengths DEF IInv, TypeOK, PointersOK, First, Used, getUsedSize
<1>1. pc \notin {"rptr", "wptr"} /\ pc' = pc
  BY WorkerAlone DEF Restoration, sessionVars
<1>2. Used' = Used /\ First' = 0
  BY <1>1 DEF Restoration
<1>3. \A i \in 1..Used : memory'[First' + i - 1] = memory[First + i - 1]
  BY <1>1, <1>2 DEF Restoration
<1>. QED  BY <1>2, <1>3, SameContents

\* Advance adds the reply to what is in the buffer.
LEMMA AdvanceAppends ==
  ASSUME IInv, IInv', Advance PROVE \E k \in Length : Queue!Write(k)
<1>. DEFINE reply  == [i \in 1..n |-> written + i]
            joined == Contents \o reply
<1>. USE Lengths
<1>1. ContentsOK /\ ContentsOK'
  BY ContentsType, ContentsTypeNext
<1>2. n \in Length /\ n \in Nat /\ written \in Nat
  BY DEF IInv, TypeOK, ReplyAtHand, Advance
<1>3. reply \in Seq(Nat) /\ Len(reply) = n
  BY <1>2
<1>4. \A i \in 1..n : reply[i] = written + i
  OBVIOUS
<1>. HIDE DEF reply
<1>5. /\ joined \in Seq(Nat)
      /\ Len(joined) = Used + n
      /\ \A i \in 1..(Used + n) :
           joined[i] = IF i <= Used THEN Contents[i] ELSE reply[i - Used]
  <2>1. /\ Contents \in Seq(Nat) /\ Len(Contents) = Used
        /\ reply \in Seq(Nat) /\ Len(reply) = n
    BY <1>1, <1>3 DEF ContentsOK
  <2>2. joined = Contents \o reply
    OBVIOUS
  <2>. HIDE DEF joined
  <2>. QED  BY ONLY <2>1, <2>2, ConcatProperties
<1>. HIDE DEF joined
<1>6. /\ Used' = Used + n /\ First' = First
      /\ First + Used = wptr_.offset
  <2>1. /\ rptr_.offset \in Nat /\ wptr_ \in [block : Nat, offset : Nat]
        /\ pc = "advance" /\ pc' = "idle" /\ rptr_' = rptr_
        /\ wptr_' = [wptr_ EXCEPT !.offset = @ + n]
    BY DEF IInv, TypeOK, Advance
  <2>2. wptr_.offset \in Nat /\ wptr_'.offset = wptr_.offset + n
    BY ONLY <2>1
  <2>. QED  BY ONLY <1>2, <2>1, <2>2 DEF First, Used, getUsedSize
<1>7. ASSUME NEW i \in 1..Used' PROVE Contents'[i] = joined[i]
  <2>1. Contents'[i] = memory[First + i - 1]
    BY <1>1, <1>6 DEF ContentsOK, Advance
  <2>2. CASE i <= Used
    <3>1. i \in 1..Used /\ i \in 1..(Used + n)
      BY <1>1, <1>2, <1>6, <2>2 DEF ContentsOK
    <3>2. Contents[i] = memory[First + i - 1]
      BY <1>1, <3>1 DEF ContentsOK
    <3>3. joined[i] = Contents[i]
      BY <1>5, <2>2, <3>1
    <3>. QED  BY <2>1, <3>2, <3>3
  <2>3. CASE i > Used
    <3>1. i - Used \in 1..n /\ i \in 1..(Used + n)
      BY <1>1, <1>2, <1>6, <2>3 DEF ContentsOK
    <3>2. memory[wptr_.offset + (i - Used) - 1] = written + (i - Used)
      BY <3>1 DEF IInv, PointersOK, Advance
    <3>3. wptr_.offset + (i - Used) - 1 = First + i - 1
      BY <1>1, <1>6 DEF ContentsOK
    <3>4. joined[i] = reply[i - Used]
      BY <1>1, <1>5, <2>3, <3>1 DEF ContentsOK
    <3>. QED  BY <1>4, <2>1, <3>1, <3>2, <3>3, <3>4
  <2>. QED  BY <1>1, <1>2, <1>6, <2>2, <2>3 DEF ContentsOK
<1>8. Contents' = joined
  BY <1>1, <1>2, <1>5, <1>6, <1>7, SeqEqual DEF ContentsOK
<1>9. Queue!Write(n)
  BY <1>8 DEF Queue!Write, Advance, joined, reply
<1>. QED  BY <1>2, <1>9

\* remove takes as many of the oldest bytes as it is told to, or none.
LEMMA RemoveTakes ==
  ASSUME IInv, IInv', Remove
  PROVE  \/ \E k \in 1..Len(Contents) : Queue!Remove(k)
         \/ Contents' = Contents /\ written' = written
<1>. DEFINE rest == SubSeq(Contents, size + 1, Used)
<1>. USE Lengths
<1>1. ContentsOK /\ ContentsOK'
  BY ContentsType, ContentsTypeNext
<1>2. pc \notin {"rptr", "wptr"} /\ pc' = pc /\ written' = written
  BY WorkerAlone DEF Remove, sessionVars
<1>3. size \in Nat \ {0} /\ memory' = memory
  BY DEF IInv, TypeOK, Remove
<1>4. First = rptr_.offset /\ Used = getUsedSize
  BY <1>2 DEF First, Used
<1>5. CASE getUsedSize >= size
  <2>1. size <= Used
    BY <1>4, <1>5
  <2>2. First' = First + size /\ Used' = Used - size
    <3>1. /\ rptr_ \in [block : Nat, offset : Nat] /\ wptr_.offset \in Nat
          /\ rptr_' = [rptr_ EXCEPT !.offset = @ + size] /\ wptr_' = wptr_
      BY <1>5 DEF IInv, TypeOK, Remove
    <3>2. rptr_.offset \in Nat /\ rptr_'.offset = rptr_.offset + size
      BY ONLY <1>3, <3>1
    <3>. QED  BY ONLY <1>2, <1>3, <3>1, <3>2 DEF First, Used, getUsedSize
  <2>3. /\ rest \in Seq(Nat)
        /\ Len(rest) = Used - size
        /\ \A i \in 1..(Used - size) : rest[i] = Contents[size + i]
    <3>1. \A i \in (size + 1)..Used : Contents[i] \in Nat
      BY <1>1, <1>3, ElementOfSeq DEF ContentsOK
    <3>. QED  BY <1>1, <1>3, <2>1, <3>1, SubSeqProperties DEF ContentsOK
  <2>. HIDE DEF rest
  <2>4. ASSUME NEW i \in 1..Used' PROVE Contents'[i] = rest[i]
    <3>1. /\ i \in Nat /\ i \in 1..(Used - size) /\ size + i \in 1..Used
          /\ Used \in Nat /\ First \in Nat
      <4>1. Used \in Nat /\ First \in Nat
        BY <1>1 DEF ContentsOK
      <4>. QED  BY <1>3, <2>1, <2>2, <4>1
    <3>2. Contents'[i] = memory[First + size + i - 1]
      BY <1>1, <1>3, <2>2 DEF ContentsOK
    <3>3. Contents[size + i] = memory[First + (size + i) - 1]
      BY <1>1, <3>1 DEF ContentsOK
    <3>4. rest[i] = Contents[size + i]
      BY <2>3, <3>1
    <3>. QED  BY <1>3, <3>1, <3>2, <3>3, <3>4
  <2>5. Contents' = rest
    BY <1>1, <2>2, <2>3, <2>4, SeqEqual DEF ContentsOK
  <2>6. size \in 1..Len(Contents) /\ Queue!Remove(size)
    BY <1>1, <1>2, <1>3, <2>1, <2>5 DEF ContentsOK, Queue!Remove, rest
  <2>. QED  BY <2>6
<1>6. CASE ~(getUsedSize >= size)
  <2>1. First' = First /\ Used' = Used
    BY <1>2, <1>6 DEF Remove, First, Used, getUsedSize
  <2>. QED  BY <1>2, <1>3, <2>1, SameContents
<1>. QED  BY <1>5, <1>6

\* A step of either thread is a step of the queue, or none.
LEMMA QueueStep ==
  ASSUME IInv, IInv', [Next]_vars PROVE [Queue!Next]_<<Contents, written>>
<1>1. ASSUME UNCHANGED <<memory, rptr_, wptr_, len, written>>,
             pc' = pc \/ {pc, pc'} \cap {"rptr", "wptr"} = {}
      PROVE  UNCHANGED <<Contents, written>>
  <2>1. Used' = Used /\ First' = First
    BY <1>1 DEF Used, First, getUsedSize
  <2>. QED  BY <1>1, <2>1, SameContents
<1>2. CASE UNCHANGED vars
  BY <1>1, <1>2 DEF vars, bufferVars, sessionVars
<1>3. CASE BeginWrite \/ Lock("session") \/ Write
  BY <1>1, <1>3 DEF BeginWrite, Lock, Write, bufferVars, sessionVars
<1>4. CASE Resize \/ ResizeRptr \/ ResizeWptr
  BY <1>4, ResizeKeeps DEF Resize, ResizeRptr, ResizeWptr
<1>5. CASE Copy
  BY <1>5, CopyKeeps DEF Copy
<1>6. CASE Advance
  BY <1>6, AdvanceAppends DEF Queue!Next
<1>7. CASE \/ GetUsedSizeBegin \/ Load \/ GetUsedSizeEnd \/ GetRead
           \/ Send \/ SendAgain \/ SendFails
           \/ BeginRemove \/ Lock("worker")
  BY <1>1, <1>7 DEF GetUsedSizeBegin, Load, GetUsedSizeEnd, GetRead, Send,
     SendAgain, SendFails, BeginRemove, Lock, bufferVars, sessionVars
<1>8. CASE Remove
  BY <1>8, RemoveTakes DEF Queue!Next
<1>9. CASE Restoration
  BY <1>9, RestorationKeeps DEF Restoration, sessionVars
<1>. QED
  BY <1>2, <1>3, <1>4, <1>5, <1>6, <1>7, <1>8, <1>9
     DEF Next, Session, Worker

\* Every behaviour of the buffer is one of the queue: nothing that has been
\* written is lost, doubled or moved, however the two threads interleave and
\* whatever Write of CTcpConnection reads meanwhile.
THEOREM SendQueueTheorem == Spec => ImplementsSendQueue
<1>1. Init => Queue!Init
  <2>. SUFFICES ASSUME Init PROVE Contents = <<>> /\ written = 0
    BY DEF Queue!Init
  <2>1. ContentsOK /\ Used = 0
    BY InitIInv, ContentsType DEF Init, Used, getUsedSize
  <2>2. Contents = <<>>
    BY <2>1, EmptySeq DEF ContentsOK
  <2>. QED  BY <2>2 DEF Init
<1>2. IInv /\ IInv' /\ [Next]_vars => [Queue!Next]_<<Contents, written>>
  BY QueueStep
<1>. QED
  BY BufferInvariantTheorem, <1>1, <1>2, PTL
     DEF Spec, ImplementsSendQueue, Queue!Spec

-----------------------------------------------------------------------------
(* What the socket takes.                                                  *)

\* What is in the queue are the last bytes that have been written.
BytesOK ==
  /\ Len(Contents) <= written
  /\ \A i \in 1..Len(Contents) :
       Contents[i] = written - Len(Contents) + i

\* The pointers point into the memory there is, but for those that resize has
\* not come to yet.
BlocksOK ==
  /\ buffer > 0
  /\ pc \notin {"rptr", "wptr"} =>
       rptr_.block = buffer /\ wptr_.block = buffer
  /\ pc = "wptr" => rptr_.block = buffer

\* What Write of CTcpConnection has loaded from the pointers is still right, or
\* less than there is by now.
LoadedOK ==
  /\ wp # NULL =>
       /\ wp.block = wptr_.block /\ wp.offset \in Nat
       /\ rptr_.offset <= wp.offset /\ wp.offset <= wptr_.offset
  /\ rp # NULL => rp = rptr_

\* The socket has taken in order what is not in the queue any more, and what is
\* to be removed.
SendingOK ==
  /\ wpc # "idle" => pc \notin {"rptr", "wptr"}
  /\ wpc = "load" => LoadedOK
  /\ wpc \in {"getRead", "send", "remove", "removeLast"} => size \in 1..Used
  /\ wpc = "send" => buf = rptr_
  /\ Len(sent) = written - Used
                 + IF wpc \in {"remove", "removeLast"} THEN size ELSE 0
  /\ \A i \in 1..Len(sent) : sent[i] = i

\* The inductive invariant of what is sent.
SentIInv ==
  /\ BytesOK /\ BlocksOK
  /\ sent \in Seq(Nat) /\ grewMeanwhile \in BOOLEAN
  /\ grewMeanwhile \/ SendingOK

\* The queue keeps its order.
LEMMA BytesKept ==
  ASSUME IInv, IInv', [Next]_vars, BytesOK PROVE BytesOK'
<1>. USE Lengths
<1>1. /\ ContentsOK /\ ContentsOK' /\ written \in Nat
      /\ [Queue!Next]_<<Contents, written>>
  BY ContentsType, ContentsTypeNext, QueueStep DEF IInv, TypeOK
<1>2. CASE UNCHANGED <<Contents, written>>
  BY <1>2 DEF BytesOK
<1>3. ASSUME NEW k \in Length, Queue!Write(k) PROVE BytesOK'
  <2>. DEFINE reply == [i \in 1..k |-> written + i]
  <2>1. k \in Nat /\ reply \in Seq(Nat) /\ Len(reply) = k
        /\ \A i \in 1..k : reply[i] = written + i
    BY <1>1
  <2>2. Contents' = Contents \o reply /\ written' = written + k
    BY <1>3 DEF Queue!Write
  <2>. HIDE DEF reply
  <2>3. /\ Len(Contents') = Len(Contents) + k
        /\ \A i \in 1..(Len(Contents) + k) :
             Contents'[i] = IF i <= Len(Contents) THEN Contents[i]
                            ELSE reply[i - Len(Contents)]
    <3>1. Contents \in Seq(Nat)
      BY <1>1 DEF ContentsOK
    <3>. HIDE DEF Contents
    <3>. QED  BY ONLY <2>1, <2>2, <3>1, ConcatProperties
  <2>4. Len(Contents) \in Nat
    BY <1>1 DEF ContentsOK
  <2>5. ASSUME NEW i \in 1..(Len(Contents) + k)
        PROVE  Contents'[i] = written - Len(Contents) + i
    <3>1. CASE i <= Len(Contents)
      BY <2>3, <2>4, <3>1 DEF BytesOK
    <3>2. CASE i > Len(Contents)
      <4>1. i - Len(Contents) \in 1..k
        BY <2>1, <2>4, <3>2
      <4>2. Contents'[i] = written + (i - Len(Contents))
        BY <2>1, <2>3, <2>4, <3>2, <4>1
      <4>. QED  BY <1>1, <2>4, <4>2
    <3>. QED  BY <2>4, <3>1, <3>2
  <2>. QED  BY <1>1, <2>1, <2>2, <2>3, <2>4, <2>5 DEF BytesOK
<1>4. ASSUME NEW k \in 1..Len(Contents), Queue!Remove(k) PROVE BytesOK'
  <2>1. /\ Contents' = SubSeq(Contents, k + 1, Len(Contents))
        /\ written' = written
    BY <1>4 DEF Queue!Remove
  <2>2. Len(Contents) \in Nat /\ k \in Nat
    BY <1>1 DEF ContentsOK
  <2>3. /\ Len(Contents') = Len(Contents) - k
        /\ \A i \in 1..(Len(Contents) - k) : Contents'[i] = Contents[k + i]
    <3>1. Contents \in Seq(Nat)
      BY <1>1 DEF ContentsOK
    <3>2. \A i \in (k + 1)..Len(Contents) : Contents[i] \in Nat
      BY <2>2, <3>1, ElementOfSeq
    <3>3. k + 1 \in 1..(Len(Contents) + 1) /\ Len(Contents) \in Nat
      BY <2>2
    <3>. HIDE DEF Contents
    <3>. QED
      BY ONLY <2>1, <2>2, <3>1, <3>2, <3>3, SubSeqProperties
  <2>4. ASSUME NEW i \in 1..Len(Contents')
        PROVE  Contents'[i] = written' - Len(Contents') + i
    <3>1. /\ i \in 1..(Len(Contents) - k) /\ k + i \in 1..Len(Contents)
          /\ i \in Nat
      BY <2>2, <2>3, <2>4
    <3>2. Contents[k + i] = written - Len(Contents) + (k + i)
      BY <3>1 DEF BytesOK
    <3>3. Contents'[i] = Contents[k + i]
      BY <2>3, <3>1
    <3>4. written \in Nat /\ written' = written
      BY <1>1, <2>1
    <3>. HIDE DEF Contents
    <3>. QED  BY ONLY <2>2, <2>3, <3>1, <3>2, <3>3, <3>4
  <2>5. Len(Contents') <= written'
    BY <1>1, <2>1, <2>2, <2>3 DEF BytesOK
  <2>. QED  BY <2>4, <2>5 DEF BytesOK
<1>. QED
  <2>1. CASE Queue!Next
    BY <2>1, <1>3, <1>4 DEF Queue!Next
  <2>. QED  BY <1>1, <1>2, <2>1

\* The pointers of a new buffer, and what has not been sent.
LEMMA InitSent == Init => SentIInv
<1>. SUFFICES ASSUME Init PROVE SentIInv
  OBVIOUS
<1>1. ContentsOK /\ Used = 0 /\ written = 0
  BY InitIInv, ContentsType DEF Init, Used, getUsedSize
<1>2. BytesOK
  BY <1>1 DEF ContentsOK, BytesOK
<1>3. BlocksOK /\ sent = <<>> /\ grewMeanwhile = FALSE
  BY DEF Init, BlocksOK
<1>4. sent \in Seq(Nat) /\ Len(sent) = 0
  BY <1>3, EmptySeq
<1>5. SendingOK
  BY <1>1, <1>4 DEF Init, SendingOK
<1>. QED  BY <1>2, <1>3, <1>4, <1>5 DEF SentIInv

\* resize moves the pointers into the memory it has made.
LEMMA BlocksKept ==
  ASSUME IInv, BlocksOK, [Next]_vars PROVE BlocksOK'
<1>. USE DEF BlocksOK
<1>1. CASE \/ BeginWrite \/ Lock("session") \/ Write \/ Copy
           \/ UNCHANGED vars
  BY <1>1 DEF BeginWrite, Lock, Write, Copy, bufferVars, sessionVars, vars
<1>2. CASE Resize \/ ResizeRptr
  BY <1>2 DEF Resize, ResizeRptr, IInv, TypeOK
<1>3. CASE ResizeWptr
  <2>1. wptr_' = [block |-> rptr_.block, offset |-> rptr_.offset + len]
    BY <1>3 DEF ResizeWptr, IInv, TypeOK
  <2>. QED  BY <1>3, <2>1 DEF ResizeWptr
<1>4. CASE Advance
  <2>1. wptr_' = [block |-> wptr_.block, offset |-> wptr_.offset + n]
    BY <1>4 DEF Advance, IInv, TypeOK
  <2>. QED  BY <1>4, <2>1 DEF Advance
<1>5. CASE \/ GetUsedSizeBegin \/ Load \/ GetUsedSizeEnd \/ GetRead
           \/ Send \/ SendAgain \/ SendFails
           \/ BeginRemove \/ Lock("worker")
  BY <1>5 DEF GetUsedSizeBegin, Load, GetUsedSizeEnd, GetRead, Send,
     SendAgain, SendFails, BeginRemove, Lock, bufferVars, sessionVars
<1>6. CASE Remove
  <2>1. rptr_'.block = rptr_.block
    BY <1>6 DEF Remove, IInv, TypeOK
  <2>. QED  BY <1>6, <2>1 DEF Remove, sessionVars
<1>7. CASE Restoration
  BY <1>7 DEF Restoration, sessionVars
<1>. QED
  BY <1>1, <1>2, <1>3, <1>4, <1>5, <1>6, <1>7 DEF Next, Session, Worker

\* No copy of write, resize or restoration leaves the allocation, for any size
\* of it, any lengths of replies up to that size and either kind of mutex.
THEOREM CopiesTheorem == Spec => []CopiesStayInside
<1>1. Init => BlocksOK
  BY InitSent DEF SentIInv
<1>2. IInv /\ BlocksOK => CopiesStayInside
  BY DEF IInv, TypeOK, PointersOK, BlocksOK, CopiesStayInside
<1>. QED
  BY <1>1, <1>2, BlocksKept, BufferInvariantTheorem, PTL DEF Spec

\* resize is the only step that frees memory, and it is noticed.
LEMMA ResizeNoticed ==
  ASSUME IInv, SentIInv, [Next]_vars, grewMeanwhile
  PROVE  grewMeanwhile' = TRUE
<1>1. CASE Resize \/ GetUsedSizeBegin
  BY <1>1 DEF Resize, GetUsedSizeBegin, SentIInv
<1>2. CASE \/ BeginWrite \/ Lock("session") \/ Write \/ ResizeRptr
           \/ ResizeWptr \/ Copy \/ Advance \/ UNCHANGED vars
  BY <1>2 DEF BeginWrite, Lock, Write, ResizeRptr, ResizeWptr, Copy,
     Advance, vars, SentIInv
<1>3. CASE \/ Load \/ GetUsedSizeEnd \/ GetRead
           \/ Send \/ SendAgain \/ SendFails
           \/ BeginRemove \/ Lock("worker") \/ Remove \/ Restoration
  BY <1>3 DEF Load, GetUsedSizeEnd, GetRead, Send, SendAgain, SendFails,
     BeginRemove, Lock, Remove, Restoration, SentIInv
<1>. QED  BY <1>1, <1>2, <1>3 DEF Next, Session, Worker

\* The session thread takes nothing out of the queue, and what it adds is
\* behind what Write has seen.
LEMMA SessionSends ==
  ASSUME IInv, IInv', SentIInv, SendingOK, Session, ~grewMeanwhile'
  PROVE  SendingOK'
<1>. USE Lengths
<1>1. Used \in Nat
  BY ContentsType DEF ContentsOK
<1>2. ASSUME Used' = Used, wpc = "idle",
             UNCHANGED <<wpc, sent, written>>
      PROVE  SendingOK'
  BY <1>2 DEF SendingOK
<1>3. CASE BeginWrite \/ Lock("session") \/ Write \/ Copy
  <2>1. /\ UNCHANGED <<wpc, wp, rp, buf, size, sent, rptr_, wptr_, written>>
        /\ len' = len
    BY <1>3 DEF BeginWrite, Lock, Write, Copy, bufferVars, sessionVars,
       workerVars
  <2>2. {pc, pc'} \cap {"rptr", "wptr"} = {}
    <3>1. CASE Lock("session")
      BY <3>1 DEF Lock, lock, sessionVars, IInv, LocksOK
    <3>2. CASE BeginWrite \/ Write \/ Copy
      BY <3>2 DEF BeginWrite, Write, Copy
    <3>. QED  BY <1>3, <3>1, <3>2
  <2>3. Used' = Used
    BY <2>1, <2>2 DEF Used, getUsedSize
  <2>. QED  BY <2>1, <2>2, <2>3 DEF SendingOK, LoadedOK
<1>4. CASE Resize
  <2>1. wpc = "idle" /\ UNCHANGED <<wpc, sent, written>>
    BY <1>4 DEF Resize, workerVars, SentIInv
  <2>2. Used' = Used
    BY <1>4 DEF Resize, Used, getUsedSize
  <2>. QED  BY <1>2, <2>1, <2>2
<1>5. CASE ResizeRptr \/ ResizeWptr
  <2>1. wpc = "idle" /\ UNCHANGED <<wpc, sent, written>>
    BY <1>5 DEF ResizeRptr, ResizeWptr, workerVars, SendingOK
  <2>2. Used' = Used
    <3>1. CASE ResizeRptr
      BY <3>1 DEF ResizeRptr, Used
    <3>2. CASE ResizeWptr
      <4>1. rptr_.offset = 0 /\ len \in Nat
        BY <3>2 DEF ResizeWptr, IInv, TypeOK, PointersOK
      <4>2. wptr_'.offset = len /\ rptr_' = rptr_
        BY <3>2, <4>1 DEF ResizeWptr, IInv, TypeOK
      <4>. QED  BY <3>2, <4>1, <4>2 DEF ResizeWptr, Used, getUsedSize
    <3>. QED  BY <1>5, <3>1, <3>2
  <2>. QED  BY <1>2, <2>1, <2>2
<1>6. CASE Advance
  <2>1. n \in Nat /\ written \in Nat /\ pc = "advance" /\ pc' = "idle"
    BY <1>6 DEF Advance, IInv, TypeOK, ReplyAtHand
  <2>2. /\ UNCHANGED <<wpc, wp, rp, buf, size, sent, rptr_>>
        /\ written' = written + n
    BY <1>6 DEF Advance, workerVars
  <2>3. /\ wptr_' = [block |-> wptr_.block, offset |-> wptr_.offset + n]
        /\ rptr_.offset \in Nat /\ wptr_.offset \in Nat
    BY <1>6 DEF Advance, IInv, TypeOK
  <2>4. Used' = Used + n
    BY <2>1, <2>2, <2>3 DEF Used, getUsedSize
  <2>5. LoadedOK => LoadedOK'
    BY <2>1, <2>2, <2>3 DEF LoadedOK
  <2>6. size \in 1..Used => size' \in 1..Used'
    BY <1>1, <2>1, <2>2, <2>4
  <2>. QED  BY <1>1, <2>1, <2>2, <2>4, <2>5, <2>6 DEF SendingOK
<1>. QED
  BY <1>3, <1>4, <1>5, <1>6 DEF Session

\* What is at rptr_ is the byte that is next.
LEMMA NextByte ==
  ASSUME IInv, SentIInv, pc \notin {"rptr", "wptr"}, NEW i \in 1..Used
  PROVE  At(rptr_.block, rptr_.offset + i - 1) = written - Used + i
<1>. USE Lengths
<1>1. ContentsOK /\ First = rptr_.offset
  BY ContentsType DEF First
<1>2. Contents[i] = written - Used + i
  BY <1>1 DEF ContentsOK, SentIInv, BytesOK
<1>3. Contents[i] = memory[rptr_.offset + i - 1]
  BY <1>1 DEF ContentsOK
<1>4. rptr_.offset + i - 1 \in DOMAIN memory
  <2>1. /\ Used \in Nat /\ First \in Nat /\ First + Used <= size_
        /\ size_ \in Nat /\ DOMAIN memory = 0..size_ - 1
    BY <1>1 DEF ContentsOK, IInv, TypeOK
  <2>. QED  BY ONLY <1>1, <2>1
<1>5. rptr_.block = buffer
  BY DEF SentIInv, BlocksOK
<1>. QED  BY <1>2, <1>3, <1>4, <1>5 DEF At

\* The socket takes the bytes that are next, if Write has the right pointer.
LEMMA SendSends ==
  ASSUME IInv, IInv', SentIInv, Send
  PROVE  /\ sent' \in Seq(Nat)
         /\ SendingOK => SendingOK'
<1>. USE Lengths
<1>1. PICK k \in 1..size :
        /\ sent' = sent \o [i \in 1..k |-> At(buf.block, buf.offset + i - 1)]
        /\ wpc' = IF k < size THEN "removeLast" ELSE "remove"
        /\ size' = k
  BY DEF Send
<1>. DEFINE taken == [i \in 1..k |-> At(buf.block, buf.offset + i - 1)]
<1>2. k \in Nat \ {0}
  BY <1>1
<1>3. \A i \in 1..k : taken[i] \in Nat
  BY DEF At, IInv, TypeOK
<1>4. taken \in Seq(Nat) /\ Len(taken) = k
  BY <1>2, <1>3
<1>5. \A i \in 1..k : taken[i] = At(buf.block, buf.offset + i - 1)
  OBVIOUS
<1>. HIDE DEF taken
<1>6. sent \in Seq(Nat) /\ Len(sent) \in Nat
  BY DEF SentIInv
<1>7. /\ sent' \in Seq(Nat) /\ Len(sent') = Len(sent) + k
      /\ \A i \in 1..(Len(sent) + k) :
           sent'[i] = IF i <= Len(sent) THEN sent[i]
                      ELSE taken[i - Len(sent)]
  <2>1. sent' = sent \o taken
    BY <1>1 DEF taken
  <2>. QED  BY ONLY <1>4, <1>6, <2>1, ConcatProperties
<1>8. ASSUME SendingOK PROVE SendingOK'
  <2>1. /\ size \in 1..Used /\ buf = rptr_ /\ pc \notin {"rptr", "wptr"}
        /\ Len(sent) = written - Used /\ Used \in Nat /\ written \in Nat
        /\ \A i \in 1..Len(sent) : sent[i] = i
    <3>1. wpc = "send" /\ Used \in Nat /\ written \in Nat
      BY ContentsType DEF Send, ContentsOK, IInv, TypeOK
    <3>. QED  BY ONLY <1>8, <3>1 DEF SendingOK
  <2>2. ASSUME NEW i \in 1..(Len(sent) + k) PROVE sent'[i] = i
    <3>1. CASE i <= Len(sent)
      BY <1>6, <1>7, <2>1, <3>1
    <3>2. CASE i > Len(sent)
      <4>1. /\ i - Len(sent) \in 1..k /\ i - Len(sent) \in 1..Used
            /\ i \in Nat
        BY <1>1, <1>2, <1>6, <2>1, <3>2
      <4>2. taken[i - Len(sent)] = written - Used + (i - Len(sent))
        BY <1>5, <2>1, <4>1, NextByte
      <4>. QED  BY <1>6, <1>7, <2>1, <3>2, <4>1, <4>2
    <3>. QED  BY <1>6, <3>1, <3>2
  <2>3. UNCHANGED <<pc, rptr_, wptr_, written, len>>
    BY DEF Send, bufferVars, sessionVars
  <2>4. Used' = Used
    BY <2>3 DEF Used, getUsedSize
  <2>5. size' \in 1..Used'
    BY <1>1, <1>2, <2>1, <2>4
  <2>6. wpc' \in {"remove", "removeLast"} /\ size' = k
    BY <1>1
  <2>7. Len(sent') = written' - Used' + size'
    BY <1>2, <1>6, <1>7, <2>1, <2>3, <2>4, <2>6
  <2>8. \A i \in 1..Len(sent') : sent'[i] = i
    BY <1>7, <2>2
  <2>. QED  BY <2>1, <2>3, <2>5, <2>6, <2>7, <2>8 DEF SendingOK
<1>. QED  BY <1>7, <1>8

\* Between two sends Write looks at the queue again, removes what has been sent
\* and moves the rest to the front.
LEMMA WorkerSends ==
  ASSUME IInv, IInv', SentIInv, SendingOK, Worker, ~Send, ~grewMeanwhile'
  PROVE  SendingOK'
<1>. USE Lengths
<1>1. Used \in Nat /\ written \in Nat
  BY ContentsType DEF ContentsOK, IInv, TypeOK
<1>2. ASSUME UNCHANGED <<pc, len, rptr_, wptr_, written, sent>>
      PROVE  Used' = Used
  BY <1>2 DEF Used, getUsedSize
<1>3. CASE GetUsedSizeBegin
  <2>1. UNCHANGED <<pc, len, rptr_, wptr_, written, sent>>
    BY <1>3 DEF GetUsedSizeBegin, bufferVars, sessionVars
  <2>2. pc \notin {"rptr", "wptr"}
    BY <1>3 DEF GetUsedSizeBegin, SentIInv
  <2>. QED
    BY <1>2, <1>3, <2>1, <2>2 DEF GetUsedSizeBegin, SendingOK, LoadedOK
<1>4. CASE Load
  <2>1. UNCHANGED <<pc, len, rptr_, wptr_, written, sent, wpc>>
    BY <1>4 DEF Load, bufferVars, sessionVars
  <2>2. wpc = "load" /\ pc \notin {"rptr", "wptr"} /\ LoadedOK
    BY <1>4 DEF Load, SendingOK
  <2>3. rptr_.offset <= wptr_.offset /\ wptr_.offset \in Nat
        /\ wptr_.block = rptr_.block
    BY <2>2 DEF IInv, TypeOK, PointersOK, SentIInv, BlocksOK
  <2>4. LoadedOK'
    BY <1>4, <2>1, <2>2, <2>3 DEF Load, LoadedOK
  <2>. QED  BY <1>2, <2>1, <2>2, <2>4 DEF SendingOK
<1>5. CASE GetUsedSizeEnd
  <2>1. UNCHANGED <<pc, len, rptr_, wptr_, written, sent>>
    BY <1>5 DEF GetUsedSizeEnd, bufferVars, sessionVars
  <2>2. pc \notin {"rptr", "wptr"} /\ LoadedOK /\ wp # NULL /\ rp # NULL
    BY <1>5 DEF GetUsedSizeEnd, SendingOK
  <2>3. wp.block = rp.block /\ size' = wp.offset - rptr_.offset
        /\ rptr_.offset \in Nat /\ wptr_.offset \in Nat
    BY <1>5, <2>2
       DEF GetUsedSizeEnd, LoadedOK, IInv, TypeOK, SentIInv, BlocksOK
  <2>4. size' \in 0..Used'
    BY <2>1, <2>2, <2>3, <1>2 DEF LoadedOK, Used, getUsedSize
  <2>5. wpc' = IF size' = 0 THEN "idle" ELSE "getRead"
    BY <1>5 DEF GetUsedSizeEnd
  <2>6. Len(sent) = written - Used
    BY <1>1, <1>5 DEF GetUsedSizeEnd, SendingOK
  <2>. QED
    BY <1>1, <1>2, <2>1, <2>2, <2>4, <2>5, <2>6 DEF SendingOK
<1>6. CASE GetRead \/ SendAgain \/ SendFails
  <2>1. UNCHANGED <<pc, len, rptr_, wptr_, written, sent, size>>
    BY <1>6 DEF GetRead, SendAgain, SendFails, bufferVars, sessionVars
  <2>2. /\ wpc \in {"getRead", "send"} /\ wpc' \in {"send", "idle", "failed"}
        /\ wpc' = "send" => buf' = rptr_
    BY <1>6 DEF GetRead, SendAgain, SendFails
  <2>. QED  BY <1>2, <2>1, <2>2 DEF SendingOK
<1>7. CASE BeginRemove \/ Lock("worker")
  <2>1. /\ UNCHANGED <<pc, len, rptr_, wptr_, written, sent, size, wpc>>
        /\ UNCHANGED <<wp, rp, buf>>
    BY <1>7 DEF BeginRemove, Lock, bufferVars, sessionVars, workerVars
  <2>. QED  BY <1>2, <2>1 DEF SendingOK, LoadedOK
<1>8. CASE Remove
  <2>1. /\ wpc \in {"remove", "removeLast"}
        /\ wpc' \in {"restore", "restoreLast"}
        /\ UNCHANGED <<pc, len, wptr_, written, sent, size>>
    BY <1>8 DEF Remove, sessionVars
  <2>2. /\ pc \notin {"rptr", "wptr"} /\ size \in 1..Used
        /\ Len(sent) = written - Used + size
    BY <2>1 DEF SendingOK
  <2>3. rptr_'.offset = rptr_.offset + size
    BY <1>8, <2>2 DEF Remove, Used, IInv, TypeOK
  <2>4. rptr_.offset \in Nat /\ wptr_.offset \in Nat
    BY DEF IInv, TypeOK
  <2>5. Used' = Used - size
    BY <2>1, <2>2, <2>3, <2>4 DEF Used, getUsedSize
  <2>6. Len(sent) = written - Used'
    BY <1>1, <2>2, <2>5
  <2>. QED  BY <2>1, <2>2, <2>6 DEF SendingOK
<1>9. CASE Restoration
  <2>1. /\ wpc \in {"restore", "restoreLast"} /\ wpc' \in {"load", "idle"}
        /\ UNCHANGED <<pc, written, sent>> /\ wp' = NULL /\ rp' = NULL
    BY <1>9 DEF Restoration, sessionVars
  <2>2. pc \notin {"rptr", "wptr"} /\ Len(sent) = written - Used
    BY <1>1, <2>1 DEF SendingOK
  <2>3. Used' = Used
    BY <1>1, <1>9, <2>1, <2>2 DEF Restoration, Used, getUsedSize
  <2>. QED  BY <2>1, <2>2, <2>3 DEF SendingOK, LoadedOK
<1>. QED
  BY <1>3, <1>4, <1>5, <1>6, <1>7, <1>8, <1>9 DEF Worker

\* Only send gives the socket anything.
LEMMA SentType ==
  ASSUME IInv, IInv', SentIInv, [Next]_vars
  PROVE  sent' \in Seq(Nat) /\ grewMeanwhile' \in BOOLEAN
<1>1. CASE Send
  BY <1>1, SendSends DEF Send, SentIInv
<1>2. CASE Session \/ UNCHANGED vars
  <2>1. CASE Resize
    BY <2>1 DEF Resize, workerVars, SentIInv
  <2>2. CASE \/ BeginWrite \/ Lock("session") \/ Write \/ ResizeRptr
             \/ ResizeWptr \/ Copy \/ Advance \/ UNCHANGED vars
    BY <2>2 DEF BeginWrite, Lock, Write, ResizeRptr, ResizeWptr, Copy,
       Advance, vars, workerVars, SentIInv
  <2>. QED  BY <1>2, <2>1, <2>2 DEF Session
<1>3. CASE Worker /\ ~Send
  <2>1. CASE GetUsedSizeBegin
    BY <2>1 DEF GetUsedSizeBegin, SentIInv
  <2>2. CASE \/ Load \/ GetUsedSizeEnd \/ GetRead \/ SendAgain \/ SendFails
             \/ BeginRemove \/ Lock("worker") \/ Remove \/ Restoration
    BY <2>2 DEF Load, GetUsedSizeEnd, GetRead, SendAgain, SendFails,
       BeginRemove, Lock, workerVars, Remove, Restoration, SentIInv
  <2>. QED  BY <1>3, <2>1, <2>2 DEF Worker
<1>. QED  BY <1>1, <1>2, <1>3 DEF Next

\* The replies reach the peer in order and without a gap, for any replies and
\* any interleaving of write and Write, as long as resize does not free the
\* memory that Write of CTcpConnection looks at.
THEOREM SentInOrderTheorem == Spec => []SentInOrder
<1>1. IInv /\ IInv' /\ SentIInv /\ [Next]_vars => SentIInv'
  <2>. SUFFICES ASSUME IInv, IInv', SentIInv, [Next]_vars PROVE SentIInv'
    OBVIOUS
  <2>1. BytesOK' /\ BlocksOK'
    BY BytesKept, BlocksKept DEF SentIInv
  <2>2. sent' \in Seq(Nat) /\ grewMeanwhile' \in BOOLEAN
    BY SentType
  <2>3. ASSUME ~grewMeanwhile' PROVE SendingOK'
    <3>1. SendingOK
      BY <2>3, ResizeNoticed DEF SentIInv
    <3>2. CASE UNCHANGED vars
      <4>1. SendingOK' = SendingOK
        BY <3>2 DEF vars, bufferVars, sessionVars, workerVars, SendingOK,
           LoadedOK, Used, getUsedSize
      <4>. QED  BY <3>1, <4>1
    <3>3. CASE Next
      BY <2>3, <3>1, <3>3, SessionSends, SendSends, WorkerSends
         DEF Next
    <3>. QED  BY <3>2, <3>3
  <2>. QED  BY <2>1, <2>2, <2>3 DEF SentIInv
<1>2. SentIInv => SentInOrder
  <2>. SUFFICES ASSUME SentIInv, ~grewMeanwhile
                PROVE  sent = [i \in 1..Len(sent) |-> i]
    BY DEF SentInOrder
  <2>1. sent \in Seq(Nat) /\ \A i \in 1..Len(sent) : sent[i] = i
    BY DEF SentIInv, SendingOK
  <2>. QED  BY <2>1
<1>. QED
  BY <1>1, <1>2, InitSent, BufferInvariantTheorem, PTL DEF Spec
=============================================================================

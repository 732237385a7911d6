----------------------------- MODULE SyncBuffer -----------------------------
(***************************************************************************)
(* CSyncBuffer, the send buffer of a session, between the session thread   *)
(* that writes replies into it and the worker that sends them.  write,     *)
(* remove, resize and restoration construct an AutoLock of mutex_, which   *)
(* is the mutex of module Mutex; getRead and getUsedSize, by which Write   *)
(* of CTcpConnection looks at the buffer, do not.                          *)
(*                                                                         *)
(* A pointer is the number of the allocation it points into and an offset; *)
(* resize makes a new allocation and frees the old one.  A byte is the     *)
(* position it has in the stream of replies, 0 is any other byte.          *)
(***************************************************************************)
EXTENDS Integers, Sequences, Mutex

CONSTANTS
  Size,       \* the initial size_
  Length,     \* the lengths of replies
  MaxWritten, \* bound: nothing is written after so many bytes
  MaxSent,    \* bound: the socket takes no more bytes than this
  MaxGarbage  \* bound: how much send takes from memory that has been freed

ASSUME BufferAssumption ==
  /\ Size \in Nat \ {0}
  /\ Length \subseteq 1..Size
  /\ MaxGarbage \in Nat
  /\ {"session", "worker"} \subseteq Thread /\ MaxDepth >= 2

VARIABLES
  buffer,        \* the number of the allocation buffer_ points to
  size_,
  memory,        \* what is in it
  rptr_, wptr_,
  pc, len, n,    \* session thread: where it is, used size, length to write
  wpc,           \* worker: where it is
  wp, rp,        \* the pointers getUsedSize has loaded
  buf, size,     \* the arguments of send
  sent,          \* what the socket has taken
  written,       \* how many bytes have been written
  grewMeanwhile  \* resize has run while Write was under way

bufferVars == <<buffer, size_, memory, rptr_, wptr_>>
sessionVars == <<pc, len, n, written>>
workerVars == <<wpc, wp, rp, buf, size, sent>>
vars == <<bufferVars, mutexVars, sessionVars, workerVars, grewMeanwhile>>

NULL == [block |-> 0, offset |-> 0]

getUsedSize == wptr_.offset - rptr_.offset
getFreeSize == size_ - wptr_.offset

Init ==
  /\ MutexInit
  /\ buffer = 1 /\ size_ = Size /\ memory = [i \in 0..Size - 1 |-> 0]
  /\ rptr_ = [block |-> 1, offset |-> 0] /\ wptr_ = rptr_
  /\ pc = "idle" /\ len = 0 /\ n = 0 /\ written = 0
  /\ wpc = "idle" /\ wp = NULL /\ rp = NULL /\ buf = NULL /\ size = 0
  /\ sent = <<>>
  /\ grewMeanwhile = FALSE

\* Thread t gets the mutex its innermost AutoLock object has asked for.
Lock(t) ==
  /\ lock(t)
  /\ UNCHANGED <<bufferVars, sessionVars, workerVars, grewMeanwhile>>

-----------------------------------------------------------------------------
(* The session thread: write and resize.                                   *)

\* A reply is to be written.
BeginWrite ==
  /\ pc = "idle" /\ written < MaxWritten
  /\ n' \in Length
  /\ AutoLock("session")
  /\ pc' = "write"
  /\ UNCHANGED <<bufferVars, len, written, workerVars, grewMeanwhile>>

\* It fits, or resize, which has an AutoLock of its own, makes room.
Write ==
  /\ pc = "write" /\ "session" \notin waits
  /\ IF getFreeSize >= n THEN pc' = "copy" /\ UNCHANGED mutexVars
                         ELSE pc' = "resize" /\ AutoLock("session")
  /\ UNCHANGED <<bufferVars, len, n, written, workerVars, grewMeanwhile>>

\* Mutant: the old contents are copied from the start of the buffer.
ResizeFromStart ==
  /\ pc = "resize" /\ "session" \notin waits
  /\ len' = getUsedSize
  /\ size_' = size_ * 2
  /\ memory' = [i \in 0..size_' - 1 |-> IF i < len' THEN memory[i] ELSE 0]
  /\ buffer' = buffer + 1
  /\ pc' = "rptr"
  /\ grewMeanwhile' = (grewMeanwhile \/ wpc # "idle")
  /\ UNCHANGED <<rptr_, wptr_, mutexVars, n, written, workerVars>>

\* Both pointers still point into the old memory.
Resize ==
  /\ pc = "resize" /\ "session" \notin waits
  /\ len' = getUsedSize
  /\ size_' = size_ * 2
  /\ memory' = [i \in 0..size_' - 1 |->
                  IF i < len' THEN memory[rptr_.offset + i] ELSE 0]
  /\ buffer' = buffer + 1
  /\ pc' = "rptr"
  /\ grewMeanwhile' = (grewMeanwhile \/ wpc # "idle")
  /\ UNCHANGED <<rptr_, wptr_, mutexVars, n, written, workerVars>>

ResizeRptr ==
  /\ pc = "rptr"
  /\ rptr_' = [block |-> buffer, offset |-> 0]
  /\ pc' = "wptr"
  /\ UNCHANGED <<buffer, size_, memory, wptr_, mutexVars, len, n, written,
                 workerVars, grewMeanwhile>>

ResizeWptr ==
  /\ pc = "wptr"
  /\ wptr_' = [rptr_ EXCEPT !.offset = @ + len]
  /\ unlock("session")
  /\ pc' = "copy"
  /\ UNCHANGED <<buffer, size_, memory, rptr_, len, n, written, workerVars,
                 grewMeanwhile>>

\* The bytes n that are copied behind wptr_.
Copied == [i \in 0..size_ - 1 |->
             IF i \in wptr_.offset..wptr_.offset + n - 1
             THEN written + 1 + i - wptr_.offset ELSE memory[i]]

Copy ==
  /\ pc = "copy"
  /\ memory' = Copied
  /\ pc' = "advance"
  /\ UNCHANGED <<buffer, size_, rptr_, wptr_, mutexVars, len, n, written,
                 workerVars, grewMeanwhile>>

Advance ==
  /\ pc = "advance"
  /\ wptr_' = [wptr_ EXCEPT !.offset = @ + n]
  /\ written' = written + n
  /\ unlock("session")
  /\ pc' = "idle"
  /\ UNCHANGED <<buffer, size_, memory, rptr_, len, n, workerVars,
                 grewMeanwhile>>

Session ==
  \/ BeginWrite \/ Lock("session") \/ Write
  \/ Resize \/ ResizeRptr \/ ResizeWptr \/ Copy \/ Advance

-----------------------------------------------------------------------------
(* The worker: Write of CTcpConnection.                                    *)

GetUsedSizeBegin ==
  /\ wpc = "idle"
  /\ wpc' = "load"
  /\ wp' = NULL /\ rp' = NULL
  /\ grewMeanwhile' = (grewMeanwhile \/ pc \in {"rptr", "wptr"})
  /\ UNCHANGED <<bufferVars, mutexVars, sessionVars, buf, size, sent>>

\* getUsedSize loads the two pointers, in either order.
Load ==
  /\ wpc = "load"
  /\ \/ wp = NULL /\ wp' = wptr_ /\ UNCHANGED rp
     \/ rp = NULL /\ rp' = rptr_ /\ UNCHANGED wp
  /\ UNCHANGED <<bufferVars, mutexVars, sessionVars, wpc, buf, size, sent,
                 grewMeanwhile>>

\* Their difference; if they point into different allocations it can be
\* anything.
GetUsedSizeEnd ==
  /\ wpc = "load" /\ wp # NULL /\ rp # NULL
  /\ IF wp.block = rp.block THEN size' = wp.offset - rp.offset
     ELSE size' \in -1..MaxGarbage
  /\ wpc' = IF size' = 0 THEN "idle" ELSE "getRead"
  /\ UNCHANGED <<bufferVars, mutexVars, sessionVars, wp, rp, buf, sent,
                 grewMeanwhile>>

GetRead ==
  /\ wpc = "getRead"
  /\ buf' = rptr_
  /\ wpc' = "send"
  /\ UNCHANGED <<bufferVars, mutexVars, sessionVars, wp, rp, size, sent,
                 grewMeanwhile>>

\* What is at offset i of an allocation.  What has been freed, and what lies
\* outside, can hold anything.
At(block, i) ==
  IF block = buffer /\ i \in DOMAIN memory THEN memory[i] ELSE 0

\* send takes some of it, the socket being ready.
Send ==
  /\ wpc = "send" /\ size > 0
  /\ \E k \in 1..size :
       /\ Len(sent) + k <= MaxSent
       /\ sent' = sent \o [i \in 1..k |-> At(buf.block, buf.offset + i - 1)]
       /\ wpc' = IF k < size THEN "removeLast" ELSE "remove"
       /\ size' = k
  /\ UNCHANGED <<bufferVars, mutexVars, sessionVars, wp, rp, buf,
                 grewMeanwhile>>

\* EAGAIN: the socket takes nothing now.
SendAgain ==
  /\ wpc = "send" /\ size > 0
  /\ wpc' = "idle"
  /\ UNCHANGED <<bufferVars, mutexVars, sessionVars, wp, rp, buf, size, sent,
                 grewMeanwhile>>

\* Any other error: the worker is to close the connection.
SendFails ==
  /\ wpc = "send"
  /\ wpc' = "failed"
  /\ UNCHANGED <<bufferVars, mutexVars, sessionVars, wp, rp, buf, size, sent,
                 grewMeanwhile>>

\* removeSendData calls remove and restoration, each with its AutoLock.
BeginRemove ==
  /\ wpc \in {"remove", "removeLast", "restore", "restoreLast"}
  /\ depth["worker"] = 0 /\ AutoLock("worker")
  /\ UNCHANGED <<bufferVars, sessionVars, workerVars, grewMeanwhile>>

\* Mutant: what send did not take is removed as well.
RemoveAll ==
  /\ wpc \in {"remove", "removeLast"}
  /\ unlock("worker")
  /\ rptr_' = [rptr_ EXCEPT !.offset = wptr_.offset]
  /\ wpc' = IF wpc = "remove" THEN "restore" ELSE "restoreLast"
  /\ UNCHANGED <<buffer, size_, memory, wptr_, sessionVars, wp, rp, buf, size,
                 sent, grewMeanwhile>>

\* Mutant: remove without its AutoLock.
RemoveUnlocked ==
  /\ wpc \in {"remove", "removeLast"}
  /\ depth["worker"] = 0 /\ "worker" \notin waits
  /\ rptr_' = IF getUsedSize >= size THEN [rptr_ EXCEPT !.offset = @ + size]
              ELSE rptr_
  /\ wpc' = IF wpc = "remove" THEN "restore" ELSE "restoreLast"
  /\ UNCHANGED <<buffer, size_, memory, wptr_, mutexVars, sessionVars, wp, rp,
                 buf, size, sent, grewMeanwhile>>

\* remove does nothing if there is not so much.
Remove ==
  /\ wpc \in {"remove", "removeLast"}
  /\ unlock("worker")
  /\ rptr_' = IF getUsedSize >= size THEN [rptr_ EXCEPT !.offset = @ + size]
              ELSE rptr_
  /\ wpc' = IF wpc = "remove" THEN "restore" ELSE "restoreLast"
  /\ UNCHANGED <<buffer, size_, memory, wptr_, sessionVars, wp, rp, buf, size,
                 sent, grewMeanwhile>>

\* restoration moves what is left to the front.
Restoration ==
  /\ wpc \in {"restore", "restoreLast"}
  /\ unlock("worker")
  /\ memory' = [i \in 0..size_ - 1 |->
                  IF i < getUsedSize THEN memory[rptr_.offset + i]
                  ELSE memory[i]]
  /\ rptr_' = [block |-> buffer, offset |-> 0]
  /\ wptr_' = [block |-> buffer, offset |-> getUsedSize]
  /\ wpc' = IF wpc = "restore" THEN "load" ELSE "idle"
  /\ wp' = NULL /\ rp' = NULL
  /\ UNCHANGED <<buffer, size_, sessionVars, buf, size, sent, grewMeanwhile>>

Worker ==
  \/ GetUsedSizeBegin \/ Load \/ GetUsedSizeEnd \/ GetRead
  \/ Send \/ SendAgain \/ SendFails
  \/ BeginRemove \/ Lock("worker") \/ Remove \/ Restoration

Next == Session \/ Worker

\* A thread inside a call goes on with it, and is not kept from a mutex that
\* is free again and again.
Fairness ==
  /\ WF_vars(Session /\ pc # "idle")
  /\ WF_vars(Worker /\ wpc # "idle")
  /\ \A t \in Thread : SF_vars(Lock(t))

Spec == Init /\ [][Next]_vars /\ Fairness

-----------------------------------------------------------------------------
(* Properties                                                              *)

\* Where the bytes that are not yet removed begin and how many there are, also
\* while resize moves the pointers one after the other.
First == IF pc \in {"rptr", "wptr"} THEN 0 ELSE rptr_.offset
Used == IF pc \in {"rptr", "wptr"} THEN len ELSE getUsedSize
Contents == [i \in 1..Used |-> memory[First + i - 1]]

Queue == INSTANCE SendQueue WITH queue <- Contents

\* Every copy stays inside the allocation it goes to: except where resize is
\* moving them both pointers point into the memory there is, in their order,
\* and the room write has looked for, or has had resize make, is still behind
\* wptr_ when it copies.  The worker also moves the pointers; that it does not
\* do so between two steps of write and resize rests on which calls of
\* CSyncBuffer hold an AutoLock, and for how long.
CopiesStayInside ==
  /\ pc \notin {"rptr", "wptr"} =>
       /\ rptr_.block = buffer /\ wptr_.block = buffer
       /\ 0 <= rptr_.offset /\ rptr_.offset <= wptr_.offset
       /\ wptr_.offset <= size_
  /\ pc = "copy" => wptr_.offset + n <= size_

\* The buffer implements the queue of SendQueue: no interleaving of write with
\* its resize and of remove with its restoration loses, doubles or reorders a
\* byte in it, not even after Write has sent from memory that was freed.
ImplementsSendQueue == Queue!Spec

\* What the peer gets are the replies, in order, no byte lost or doubled, as
\* long as resize does not free the memory while Write of CTcpConnection,
\* which looks at it without the lock, is under way.
SentInOrder == grewMeanwhile \/ sent = [i \in 1..Len(sent) |-> i]
=============================================================================

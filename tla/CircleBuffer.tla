---------------------------- MODULE CircleBuffer ----------------------------
(***************************************************************************)
(* src/circleBuffer.cpp: a ring of characters that no other file uses yet. *)
(* begin_ and end_ stay below tail_, the last cell, so the ring has one    *)
(* cell less than the memory, while the sizes it reports are computed      *)
(* modulo all of it.  The module takes every call the class accepts.       *)
(*                                                                         *)
(* Pointers are offsets from buffer_.  A call that is refused changes      *)
(* nothing and is no action.                                               *)
(***************************************************************************)
EXTENDS Integers, Sequences

CONSTANTS
  Byte,   \* the characters the properties tell apart
  Zero,   \* what the constructor fills the memory with
  Size    \* size_; the constructor clears DEF_BUFFER_SIZE bytes whatever
          \* it is, so the code itself may only be used with that or more;
          \* Zero is one of Byte and Size is at least 2

VARIABLES
  mem,    \* the memory at buffer_
  begin,  \* begin_
  end     \* end_

vars == <<mem, begin, end>>

tail == Size - 1

getUsedSize == (end - begin + Size) % Size

getFreeSize == Size - getUsedSize - 1

\* CircleBuffer(size)
Init ==
  /\ mem = [i \in 0..tail |-> Zero]
  /\ begin = 0
  /\ end = 0

\* Where a pointer at p is after n bytes: tail_ is never reached, the
\* beginning comes instead.
Moved(p, n) == IF tail - p > n THEN p + n ELSE n - (tail - p)

\* Mutant: the second part of a block that wraps is copied from its start.
WriteFromStart(block) ==
  LET n   == Len(block)
      len == tail - end
  IN  /\ n <= getFreeSize
      /\ mem' = [i \in 0..tail |->
                   IF i >= end /\ i < end + n /\ i < tail
                     THEN block[i - end + 1]
                   ELSE IF i < n - len THEN block[i + 1] ELSE mem[i]]
      /\ end' = Moved(end, n)
      /\ UNCHANGED begin

\* write(src, size)
Write(block) ==
  LET n   == Len(block)
      len == tail - end
  IN  /\ n <= getFreeSize
      /\ mem' = [i \in 0..tail |->
                   IF i >= end /\ i < end + n /\ i < tail
                     THEN block[i - end + 1]
                   ELSE IF i < n - len THEN block[len + i + 1] ELSE mem[i]]
      /\ end' = Moved(end, n)
      /\ UNCHANGED begin

\* read(dest, size): the n oldest bytes, left in place.
ReadBytes(n) ==
  [i \in 1..n |-> IF i <= tail - begin THEN mem[begin + i - 1]
                                       ELSE mem[i - (tail - begin) - 1]]

\* remove(size)
Remove(n) ==
  /\ n <= getUsedSize
  /\ begin' = Moved(begin, n)
  /\ UNCHANGED <<mem, end>>

Next ==
  \/ \E n \in 0..tail : \E block \in [1..n -> Byte] : Write(block)
  \/ \E n \in 0..tail : Remove(n)

Spec == Init /\ [][Next]_vars

-----------------------------------------------------------------------------
\* After any calls, both pointers are below tail_: every copy that write,
\* read and remove make then stays inside the allocation.
TypeOK ==
  /\ mem \in [0..tail -> Byte]
  /\ begin \in 0..(tail - 1)
  /\ end \in 0..(tail - 1)

\* What lies between the two pointers on the ring of Size - 1 cells.
Contents == ReadBytes((end - begin + tail) % tail)

Fifo == INSTANCE ByteFifo WITH Capacity <- tail, queue <- Contents

(***************************************************************************)
(* write(block) stores the block and remove(n) drops the n oldest bytes,   *)
(* as a FIFO queue does, whatever calls came before, with exactly two      *)
(* exceptions where the ring and the sizes computed for it disagree:       *)
(* a write that takes all of getFreeSize while the data does not wrap      *)
(* leaves a buffer that looks empty, and, while the data wraps,            *)
(* getUsedSize is one too large and a remove of all of it carries begin_   *)
(* past end_.                                                              *)
(***************************************************************************)
FifoExceptAtTheEdges ==
  [][/\ \A n \in 0..tail : \A block \in [1..n -> Byte] :
          Write(block) => \/ Fifo!Put(block)
                          \/ begin <= end /\ n = getFreeSize
     /\ \A n \in 0..tail :
          Remove(n) => \/ Fifo!Take(n)
                       \/ end < begin /\ n = getUsedSize]_vars
=============================================================================

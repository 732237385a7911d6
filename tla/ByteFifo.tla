------------------------------ MODULE ByteFifo ------------------------------
(***************************************************************************)
(* What a receive buffer promises its user: a bounded first-in first-out   *)
(* queue of bytes.  CircularBuffer is shown to implement this module.      *)
(***************************************************************************)
EXTENDS Integers, Sequences

CONSTANTS
  Byte,      \* the bytes that can be stored
  Capacity   \* how many of them fit

VARIABLE queue

\* A block of bytes handed over in one call.
Block == UNION {[1..n -> Byte] : n \in 0..Capacity}

Init == queue = <<>>

\* Store a block behind everything stored before it.
Put(block) ==
  /\ Len(queue) + Len(block) <= Capacity
  /\ queue' = queue \o block

\* Forget the n oldest bytes.
Take(n) ==
  /\ n <= Len(queue)
  /\ queue' = SubSeq(queue, n + 1, Len(queue))

Next ==
  \/ \E block \in Block : Put(block)
  \/ \E n \in 0..Capacity : Take(n)

Spec == Init /\ [][Next]_queue
=============================================================================

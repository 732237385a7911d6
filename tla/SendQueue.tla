----------------------------- MODULE SendQueue -----------------------------
(***************************************************************************)
(* What the send buffer of a session promises: the bytes of the replies    *)
(* leave it in the order in which they were written, none twice, none      *)
(* skipped.  SyncBuffer is shown to implement this module.                 *)
(*                                                                         *)
(* A byte is known by its position in the stream of replies.               *)
(***************************************************************************)
EXTENDS Integers, Sequences

CONSTANT Length  \* the lengths of the blocks that are written

VARIABLES
  queue,   \* the bytes in the buffer
  written  \* how many bytes have been written

Init == queue = <<>> /\ written = 0

Write(n) ==
  /\ queue' = queue \o [i \in 1..n |-> written + i]
  /\ written' = written + n

Remove(n) ==
  /\ queue' = SubSeq(queue, n + 1, Len(queue))
  /\ UNCHANGED written

Next ==
  \/ \E n \in Length : Write(n)
  \/ \E n \in 1..Len(queue) : Remove(n)

Spec == Init /\ [][Next]_<<queue, written>>
=============================================================================

----------------------------- MODULE ReadBuffers -----------------------------
(***************************************************************************)
(* The two ring buffers of the repository: every behaviour is about one of *)
(* them.  In TLC's instance the memories are small, yet every way of       *)
(* splitting the data occurs.                                              *)
(***************************************************************************)
EXTENDS CircularBuffer

CONSTANTS
  Zero,      \* what CircleBuffer fills its memory with
  RingSize   \* size_ of CircleBuffer

ASSUME RingAssumption == RingSize \in Nat \ {0, 1} /\ Zero \in Byte

VARIABLES
  class,  \* the buffer that is used
  ring,   \* CircleBuffer's memory, begin_ and end_
  begin,
  end

Circle == INSTANCE CircleBuffer WITH Size <- RingSize, mem <- ring

ringVars == <<ring, begin, end>>

BuffersInit ==
  /\ class \in {"CircularBuffer", "CircleBuffer"}
  /\ Init
  /\ Circle!Init

BuffersNext ==
  \/ class = "CircularBuffer" /\ Next /\ UNCHANGED <<class, ringVars>>
  \/ class = "CircleBuffer" /\ Circle!Next /\ UNCHANGED <<class, vars>>

BuffersSpec == BuffersInit /\ [][BuffersNext]_<<class, vars, ringVars>>

(***************************************************************************)
(* A CircleBuffer stores and drops bytes as a FIFO queue does, with        *)
(* exactly the two exceptions where its ring and its sizes disagree, which *)
(* Circle!FifoExceptAtTheEdges spells out.                                 *)
(***************************************************************************)
FifoExceptAtTheEdges == Circle!FifoExceptAtTheEdges
=============================================================================

--------------------------- MODULE CircularBuffer ---------------------------
(***************************************************************************)
(* src/CircularBuffer.cpp: the receive buffer of a connection, a "bipartite*)
(* buffer".  The stored bytes are region A followed by region B; B exists  *)
(* only after a write ran past the end of the memory and always starts at  *)
(* the beginning of it, and becomes A once A has been consumed.            *)
(*                                                                         *)
(* Pointers into the memory are offsets from _base.  The contents of the   *)
(* memory start out arbitrary: the constructor does not initialise them.   *)
(***************************************************************************)
EXTENDS Integers, Sequences

CONSTANTS
  Byte,   \* the values of a char that the properties tell apart
  Size    \* _size, the argument of the constructor

ASSUME SizeAssumption == Size \in Nat \ {0}

VARIABLES
  mem,    \* the memory at _base
  a,      \* _a, start of region A
  asize,  \* _asize
  b,      \* _b, start of region B, or Null
  bsize   \* _bsize

vars == <<mem, a, asize, b, bsize>>

\* The NULL pointer, as an offset no byte of the memory has.
Null == -1

Memory == [0..(Size - 1) -> Byte]

Block == UNION {[1..n -> Byte] : n \in 0..Size}

\* Mutant: region B is not counted as used.
FreeSpaceSizeWithoutB == Size - asize

FreeSpaceSize == Size - asize - bsize

UsedSpaceSize == asize + bsize

FreeSpaceSizeAfterA == Size - a - asize

\* memcpy of n bytes to offset at, from position from + 1 of block.
Copied(at, block, from, n) ==
  [i \in 0..(Size - 1) |->
     IF at <= i /\ i < at + n THEN block[from + (i - at) + 1] ELSE mem[i]]

\* The constructor.
Init ==
  /\ mem \in Memory
  /\ a = 0 /\ asize = 0
  /\ b = Null /\ bsize = 0

-----------------------------------------------------------------------------
(* Write.  The block fits: the caller asks recv for no more than the free  *)
(* space, and Write asserts it.                                            *)

\* Mutant: every write to B starts at its beginning.
WriteToStartOfB(block) ==
  /\ b # Null
  /\ mem' = Copied(b, block, 0, Len(block))
  /\ bsize' = bsize + Len(block)
  /\ UNCHANGED <<a, asize, b>>

\* "if B exists, save in B"
WriteToB(block) ==
  /\ b # Null
  /\ mem' = Copied(b + bsize, block, 0, Len(block))
  /\ bsize' = bsize + Len(block)
  /\ UNCHANGED <<a, asize, b>>

\* "only save in A"
WriteToA(block) ==
  /\ b = Null
  /\ Len(block) <= FreeSpaceSizeAfterA
  /\ mem' = Copied(a + asize, block, 0, Len(block))
  /\ asize' = asize + Len(block)
  /\ UNCHANGED <<a, b, bsize>>

\* "save in A and B"
WriteToAandB(block) ==
  LET inA == FreeSpaceSizeAfterA
      inB == Len(block) - inA
  IN  /\ b = Null
      /\ Len(block) > inA
      /\ mem' = [i \in 0..(Size - 1) |->
                   IF i < inB THEN block[inA + i + 1]
                              ELSE Copied(a + asize, block, 0, inA)[i]]
      /\ asize' = asize + inA
      /\ b' = 0
      /\ bsize' = inB
      /\ UNCHANGED a

Write(block) ==
  /\ Len(block) <= FreeSpaceSize
  /\ WriteToB(block) \/ WriteToA(block) \/ WriteToAandB(block)

-----------------------------------------------------------------------------
\* Read: the n oldest bytes, left in place.
ReadBytes(n) ==
  [i \in 1..n |-> IF i <= asize THEN mem[a + (i - 1)]
                                ELSE mem[b + (i - asize - 1)]]

\* The regions after Remove took n bytes off, before A and B are switched.
AfterRemove(n) ==
  IF n <= asize
    THEN [a |-> a + n, asize |-> asize - n, b |-> b, bsize |-> bsize]
    ELSE [a |-> a, asize |-> 0,
          b |-> b + (n - asize), bsize |-> bsize - (n - asize)]

\* "A is empty, so switch A to B", or start again at the base.
Switched(r) ==
  IF r.asize # 0 THEN r
  ELSE IF r.b # Null
    THEN [a |-> r.b, asize |-> r.bsize, b |-> Null, bsize |-> 0]
    ELSE [a |-> 0, asize |-> 0, b |-> r.b, bsize |-> r.bsize]

\* Remove, called with no more than what was read (and asserted by Remove).
Remove(n) ==
  /\ n <= UsedSpaceSize
  /\ LET r == Switched(AfterRemove(n))
     IN  a' = r.a /\ asize' = r.asize /\ b' = r.b /\ bsize' = r.bsize
  /\ UNCHANGED mem

Next ==
  \/ \E block \in Block : Write(block)
  \/ \E n \in 0..Size : Remove(n)

Spec == Init /\ [][Next]_vars

-----------------------------------------------------------------------------
\* The variables stay in their ranges: no pointer leaves the allocation.
TypeOK ==
  /\ mem \in Memory
  /\ a \in 0..Size
  /\ asize \in 0..Size
  /\ b \in {Null, 0}
  /\ bsize \in 0..Size

(***************************************************************************)
(* Where the two regions may lie.  While B exists, A reaches the end of    *)
(* the memory and B has not grown into it; otherwise A alone holds the     *)
(* data.  This is what makes writing behind B, and treating B as the       *)
(* continuation of A, correct after any sequence of writes and removals.   *)
(***************************************************************************)
RegionsOK ==
  /\ a + asize <= Size
  /\ b = Null => bsize = 0
  /\ b # Null => a + asize = Size /\ bsize <= a

IInv == TypeOK /\ RegionsOK

\* What the buffer holds: everything Read can return, oldest byte first.
Contents == ReadBytes(UsedSpaceSize)

\* The buffer is a bounded FIFO queue of bytes, whatever way the data is
\* split over the two regions.
Fifo == INSTANCE ByteFifo WITH Capacity <- Size, queue <- Contents
ImplementsFifo == Fifo!Spec
=============================================================================

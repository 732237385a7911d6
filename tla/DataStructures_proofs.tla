------------------------ MODULE DataStructures_proofs ------------------------
(***************************************************************************)
(* Proofs about the data structures in memory, for every size of them.     *)
(*                                                                         *)
(* CircularBuffer: the two regions keep their places, and it is a bounded  *)
(* FIFO queue of bytes.  CircleBuffer: its pointers stay in the ring, and  *)
(* it is such a queue except in the two cases where its sizes disagree     *)
(* with its ring.                                                          *)
(*                                                                         *)
(* RBTree: for keys that arrive in ascending order it stays a red-black    *)
(* tree, no repair loses an element, search finds and mPrint prints what   *)
(* insert has accepted, and insertFix never leaves its stack.              *)
(***************************************************************************)
EXTENDS ReadBuffers, RBTree, SequenceTheorems, WellFoundedInduction, TLAPS

\* The memory the constructor sets up satisfies the inductive invariant.
LEMMA InitIInv == Init => IInv
  BY SizeAssumption DEF Init, IInv, TypeOK, RegionsOK, Null

\* A block is a sequence of at most Size bytes.
LEMMA BlockType ==
  ASSUME NEW block \in Block
  PROVE  /\ Len(block) \in 0..Size
         /\ block \in [1..Len(block) -> Byte]
         /\ block \in Seq(Byte)
<1>1. PICK k \in 0..Size : block \in [1..k -> Byte]
  BY DEF Block
<1>2. Len(block) = k
  BY <1>1, SizeAssumption
<1>. QED
  BY <1>1, <1>2, SizeAssumption

\* Copying a block into the memory yields a memory.
LEMMA CopiedIsMemory ==
  ASSUME mem \in Memory, NEW at \in Nat, NEW block \in Block,
         NEW from \in Nat, NEW n \in Nat, from + n <= Len(block)
  PROVE  Copied(at, block, from, n) \in Memory
  BY BlockType, SizeAssumption DEF Copied, Memory

\* Write keeps the regions in their places, whichever way the block goes.
LEMMA WriteIInv ==
  ASSUME IInv, NEW block \in Block, Write(block)
  PROVE  IInv'
<1>. USE SizeAssumption, BlockType DEF IInv, TypeOK, RegionsOK
<1>1. CASE WriteToB(block)
  BY <1>1, CopiedIsMemory DEF Write, WriteToB, FreeSpaceSize, Null
<1>2. CASE WriteToA(block)
  BY <1>2, CopiedIsMemory DEF Write, WriteToA, FreeSpaceSize,
     FreeSpaceSizeAfterA, Null
<1>3. CASE WriteToAandB(block)
  <2>1. FreeSpaceSizeAfterA \in 0..Len(block)
    BY <1>3 DEF WriteToAandB, FreeSpaceSizeAfterA
  <2>2. Copied(a + asize, block, 0, FreeSpaceSizeAfterA) \in Memory
    BY <2>1, CopiedIsMemory
  <2>3. mem' \in Memory
    BY <1>3, <2>1, <2>2 DEF WriteToAandB, Memory
  <2>. QED
    BY <1>3, <2>1, <2>3 DEF Write, WriteToAandB, FreeSpaceSize,
       FreeSpaceSizeAfterA, Null
<1>. QED
  BY <1>1, <1>2, <1>3 DEF Write

\* So does Remove.
LEMMA RemoveIInv ==
  ASSUME IInv, NEW n \in 0..Size, Remove(n)
  PROVE  IInv'
  BY SizeAssumption DEF IInv, TypeOK, RegionsOK, Remove, UsedSpaceSize,
     AfterRemove, Switched, Null

\* Types and regions together survive any sequence of writes and removals:
\* Write may append behind B because B ends below A, and Remove may switch to
\* B because B starts at the base.
THEOREM InvariantTheorem == Spec => []IInv
<1>1. IInv /\ [Next]_vars => IInv'
  <2>. SUFFICES ASSUME IInv, [Next]_vars PROVE IInv'
    OBVIOUS
  <2>1. CASE UNCHANGED vars
    BY <2>1 DEF vars, IInv, TypeOK, RegionsOK
  <2>2. CASE Next
    BY <2>2, WriteIInv, RemoveIInv DEF Next
  <2>. QED
    BY <2>1, <2>2
<1>. QED
  BY InitIInv, <1>1, PTL DEF Spec

\* No pointer leaves the allocation, no size exceeds it.
THEOREM TypeTheorem == Spec => []TypeOK
<1>1. IInv => TypeOK
  BY DEF IInv
<1>. QED
  BY InvariantTheorem, <1>1, PTL

\* The two regions keep their places: A inside the memory, B only while A
\* reaches its end, and B never over A.
THEOREM RegionsTheorem == Spec => []RegionsOK
<1>1. IInv => RegionsOK
  BY DEF IInv
<1>. QED
  BY InvariantTheorem, <1>1, PTL

-----------------------------------------------------------------------------
\* What the buffer holds is a sequence of bytes, found in region A and then
\* in region B.
ContentsOK ==
  /\ Contents \in Seq(Byte)
  /\ Len(Contents) = UsedSpaceSize
  /\ UsedSpaceSize \in 0..Size
  /\ \A i \in 1..UsedSpaceSize :
       Contents[i] = IF i <= asize THEN mem[a + (i - 1)]
                                   ELSE mem[b + (i - asize - 1)]

\* That is so in every state that satisfies the invariant.
LEMMA ContentsType == IInv => ContentsOK
<1>. SUFFICES ASSUME IInv PROVE ContentsOK
  OBVIOUS
<1>1. UsedSpaceSize \in 0..Size
  BY SizeAssumption DEF IInv, TypeOK, RegionsOK, UsedSpaceSize
<1>2. Contents \in [1..UsedSpaceSize -> Byte]
  BY SizeAssumption DEF IInv, TypeOK, RegionsOK, Contents, ReadBytes,
     UsedSpaceSize, Memory, Null
<1>. QED
  BY <1>1, <1>2, SizeAssumption DEF ContentsOK, Contents, ReadBytes

\* The same of the next state.
LEMMA ContentsTypeNext == IInv' => ContentsOK'
  BY ContentsType, PTL

\* Write appends the block to what is stored.
LEMMA WriteAppends ==
  ASSUME IInv, NEW block \in Block, Write(block)
  PROVE  Contents' = Contents \o block
<1>. DEFINE joined == Contents \o block
<1>1. ContentsOK /\ ContentsOK' /\ IInv'
  BY ContentsType, ContentsTypeNext, WriteIInv
<1>2. /\ joined \in Seq(Byte)
      /\ Len(joined) = UsedSpaceSize + Len(block)
      /\ \A i \in 1..(UsedSpaceSize + Len(block)) :
           joined[i] = IF i <= UsedSpaceSize THEN Contents[i]
                                             ELSE block[i - UsedSpaceSize]
  BY <1>1, BlockType, ConcatProperties DEF ContentsOK
<1>. HIDE DEF joined
<1>0. Len(block) \in 0..Size /\ block \in [1..Len(block) -> Byte]
  BY BlockType
<1>3. UsedSpaceSize' = UsedSpaceSize + Len(block)
  BY <1>0, SizeAssumption DEF Write, WriteToB, WriteToA, WriteToAandB,
     UsedSpaceSize, IInv, TypeOK, RegionsOK, FreeSpaceSizeAfterA, Null
<1>4. ASSUME NEW i \in 1..UsedSpaceSize'
      PROVE  Contents'[i] = joined[i]
  <2>1. /\ i \in 1..(UsedSpaceSize + Len(block))
        /\ Contents'[i] = IF i <= asize' THEN mem'[a' + (i - 1)]
                                         ELSE mem'[b' + (i - asize' - 1)]
    BY <1>1, <1>3 DEF ContentsOK
  <2>2. joined[i] = IF i <= UsedSpaceSize
                      THEN IF i <= asize THEN mem[a + (i - 1)]
                                         ELSE mem[b + (i - asize - 1)]
                      ELSE block[i - UsedSpaceSize]
    BY <1>1, <1>2, <2>1, <1>0, SizeAssumption DEF ContentsOK
  <2>. USE <2>1, <2>2, <1>0, SizeAssumption
       DEF IInv, TypeOK, RegionsOK, UsedSpaceSize, Write, FreeSpaceSize, Null
  <2>3. CASE WriteToB(block)
    BY <2>3 DEF WriteToB, Copied
  <2>4. CASE WriteToA(block)
    BY <2>4 DEF WriteToA, Copied, FreeSpaceSizeAfterA
  <2>5. CASE WriteToAandB(block)
    BY <2>5 DEF WriteToAandB, Copied, FreeSpaceSizeAfterA
  <2>. QED
    BY <2>3, <2>4, <2>5 DEF Write
<1>5. Contents' = joined
  BY <1>1, <1>2, <1>3, <1>4, SeqEqual DEF ContentsOK
<1>. QED
  BY <1>5 DEF joined

\* Remove takes the oldest bytes off what is stored.
LEMMA RemoveTakes ==
  ASSUME IInv, NEW n \in 0..Size, Remove(n)
  PROVE  Contents' = SubSeq(Contents, n + 1, Len(Contents))
<1>. DEFINE rest == SubSeq(Contents, n + 1, UsedSpaceSize)
<1>1. ContentsOK /\ ContentsOK' /\ IInv'
  BY ContentsType, ContentsTypeNext, RemoveIInv
<1>2. n <= UsedSpaceSize
  BY DEF Remove
<1>3. /\ rest \in Seq(Byte)
      /\ Len(rest) = UsedSpaceSize - n
      /\ \A i \in 1..(UsedSpaceSize - n) : rest[i] = Contents[n + i]
  <2>1. \A i \in (n + 1)..UsedSpaceSize : Contents[i] \in Byte
    BY <1>1, ElementOfSeq DEF ContentsOK
  <2>2. PICK used \in Nat : used = UsedSpaceSize /\ n \in Nat /\ n <= used
    BY <1>1, <1>2, SizeAssumption DEF ContentsOK
  <2>3. Contents \in Seq(Byte) /\ Len(Contents) = used
    BY <1>1, <2>2 DEF ContentsOK
  <2>4. \A i \in (n + 1)..used : Contents[i] \in Byte
    BY <2>1, <2>2
  <2>5. /\ rest \in Seq(Byte) /\ Len(rest) = used - n
        /\ \A i \in 1..(used - n) : rest[i] = Contents[n + i]
    <3>1. rest = SubSeq(Contents, n + 1, used)
      BY <2>2
    <3>. HIDE DEF rest
    <3>2. n + 1 \in 1..(used + 1) /\ n + 1 <= used + 1
      BY ONLY <2>2
    <3>. QED
      BY ONLY <2>2, <2>3, <2>4, <3>1, <3>2, SubSeqProperties
  <2>. QED
    BY <2>2, <2>5
<1>. HIDE DEF rest
<1>4. /\ n \in Nat /\ asize \in Nat /\ bsize \in Nat /\ n <= asize + bsize
      /\ mem' = mem
      /\ \/ /\ n < asize /\ a' = a + n /\ asize' = asize - n
            /\ b' = b /\ bsize' = bsize
         \/ /\ asize <= n /\ b \in Nat /\ a' = b + (n - asize)
            /\ asize' = bsize - (n - asize) /\ b' = Null /\ bsize' = 0
         \/ /\ asize = n /\ bsize = 0 /\ asize' = 0 /\ bsize' = 0
  BY SizeAssumption DEF Remove, AfterRemove, Switched, UsedSpaceSize,
     IInv, TypeOK, RegionsOK, Null
<1>5. UsedSpaceSize' = UsedSpaceSize - n
  BY ONLY <1>4 DEF UsedSpaceSize
<1>6. ASSUME NEW i \in 1..UsedSpaceSize'
      PROVE  Contents'[i] = rest[i]
  <2>1. i \in Nat /\ 1 <= i /\ i <= asize + bsize - n
    BY ONLY <1>4, <1>5, <1>6 DEF UsedSpaceSize
  <2>2. rest[i] = Contents[n + i] /\ n + i \in 1..UsedSpaceSize
    <3>1. i \in 1..(UsedSpaceSize - n)
      BY ONLY <1>5, <1>6
    <3>2. n + i \in 1..UsedSpaceSize
      BY ONLY <1>4, <2>1 DEF UsedSpaceSize
    <3>. QED
      BY <1>3, <3>1, <3>2
  <2>3. PICK j \in 1..UsedSpaceSize : j = n + i
    BY <2>2
  <2>4. rest[i] = IF j <= asize THEN mem[a + (j - 1)]
                                ELSE mem[b + (j - asize - 1)]
    <3>1. Contents[j] = IF j <= asize THEN mem[a + (j - 1)]
                                      ELSE mem[b + (j - asize - 1)]
      BY <1>1 DEF ContentsOK
    <3>. QED
      BY <2>2, <2>3, <3>1
  <2>5. Contents'[i] = IF i <= asize' THEN mem[a' + (i - 1)]
                                      ELSE mem[b' + (i - asize' - 1)]
    BY <1>1, <1>4 DEF ContentsOK
  <2>6. j \in Nat /\ a \in Nat /\ (b \in Nat \/ b = Null)
    BY SizeAssumption, <2>1, <1>4, <2>3 DEF IInv, TypeOK, Null
  <2>7. CASE n < asize /\ a' = a + n /\ asize' = asize - n /\ b' = b
    <3>1. CASE i <= asize'
      <4>1. j <= asize /\ a' + (i - 1) = a + (j - 1)
        BY ONLY <1>4, <2>1, <2>3, <2>6, <2>7, <3>1
      <4>. QED
        BY ONLY <2>4, <2>5, <3>1, <4>1
    <3>2. CASE ~(i <= asize')
      <4>1. ~(j <= asize) /\ i - asize' - 1 = j - asize - 1
        BY ONLY <1>4, <2>1, <2>3, <2>6, <2>7, <3>2
      <4>. QED
        BY ONLY <2>4, <2>5, <2>7, <3>2, <4>1
    <3>. QED
      BY <3>1, <3>2
  <2>8. CASE /\ asize <= n /\ b \in Nat /\ a' = b + (n - asize)
             /\ asize' = bsize - (n - asize)
    <3>1. /\ i <= asize' /\ ~(j <= asize)
          /\ a' + (i - 1) = b + (j - asize - 1)
      BY ONLY <1>4, <2>1, <2>3, <2>6, <2>8
    <3>. QED
      BY ONLY <2>4, <2>5, <3>1
  <2>9. CASE asize = n /\ bsize = 0
    BY ONLY <1>4, <2>1, <2>9
  <2>. QED
    BY <1>4, <2>7, <2>8, <2>9
<1>7. Contents' = rest
  BY <1>1, <1>3, <1>5, <1>6, SeqEqual DEF ContentsOK
<1>. QED
  BY <1>1, <1>7 DEF rest, ContentsOK

\* The buffer implements a bounded FIFO queue of bytes: what Read returns is
\* what was written, in order, and nothing is lost, repeated or invented
\* when the data wraps round the end of the memory.
THEOREM FifoTheorem == Spec => ImplementsFifo
<1>1. Init => Fifo!Init
  <2>. SUFFICES ASSUME Init PROVE Contents = <<>>
    BY DEF Fifo!Init
  <2>1. ContentsOK /\ UsedSpaceSize = 0
    BY InitIInv, ContentsType DEF Init, UsedSpaceSize
  <2>. QED
    BY <2>1, EmptySeq, SeqEqual DEF ContentsOK
<1>2. IInv /\ [Next]_vars => [Fifo!Next]_Contents
  <2>. SUFFICES ASSUME IInv, [Next]_vars PROVE [Fifo!Next]_Contents
    OBVIOUS
  <2>. ContentsOK
    BY ContentsType
  <2>1. ASSUME NEW block \in Block, Write(block)
        PROVE  Fifo!Next
    <3>1. Fifo!Put(block)
      BY <2>1, WriteAppends, BlockType, SizeAssumption
         DEF Fifo!Put, ContentsOK, Write, FreeSpaceSize, UsedSpaceSize,
             IInv, TypeOK
    <3>. QED
      BY <3>1 DEF Fifo!Next, Fifo!Block, Block
  <2>2. ASSUME NEW n \in 0..Size, Remove(n)
        PROVE  Fifo!Next
    <3>1. Fifo!Take(n)
      BY <2>2, RemoveTakes DEF Fifo!Take, ContentsOK, Remove
    <3>. QED
      BY <3>1 DEF Fifo!Next
  <2>3. CASE UNCHANGED vars
    BY <2>3 DEF vars, Contents, ReadBytes, UsedSpaceSize
  <2>. QED
    BY <2>1, <2>2, <2>3 DEF Next
<1>. QED
  BY InvariantTheorem, <1>1, <1>2, PTL DEF Spec, ImplementsFifo, Fifo!Spec

-----------------------------------------------------------------------------
(* CircleBuffer.                                                           *)

\* A number below twice the modulus is reduced by one subtraction at most.
LEMMA ModOnce ==
  ASSUME NEW m \in Nat \ {0}, NEW x \in Nat, x < m + m
  PROVE  x % m = IF x < m THEN x ELSE x - m
<1>1. CASE x < m
  BY <1>1
<1>2. CASE x >= m
  BY <1>2
<1> QED
  BY <1>1, <1>2

\* The cells in use on the ring, and what getUsedSize makes of them: one more
\* while the data wraps.
RingUsed == IF begin <= end THEN end - begin ELSE end - begin + Circle!tail

\* What the sizes the code computes come to.
LEMMA RingSizes ==
  Circle!TypeOK =>
    /\ Circle!tail \in Nat \ {0} /\ RingSize = Circle!tail + 1
    /\ RingUsed \in 0..(Circle!tail - 1)
    /\ (end - begin + Circle!tail) % Circle!tail = RingUsed
    /\ Circle!getUsedSize = IF begin <= end THEN RingUsed ELSE RingUsed + 1
    /\ Circle!getFreeSize = RingSize - Circle!getUsedSize - 1
<1> SUFFICES ASSUME Circle!TypeOK
             PROVE  /\ Circle!tail \in Nat \ {0} /\ RingSize = Circle!tail + 1
                    /\ RingUsed \in 0..(Circle!tail - 1)
                    /\ (end - begin + Circle!tail) % Circle!tail = RingUsed
                    /\ Circle!getUsedSize = IF begin <= end THEN RingUsed
                                            ELSE RingUsed + 1
                    /\ Circle!getFreeSize = RingSize - Circle!getUsedSize - 1
  OBVIOUS
<1>1. Circle!tail \in Nat \ {0} /\ RingSize = Circle!tail + 1
  BY RingAssumption DEF Circle!tail
<1>2. begin \in 0..(Circle!tail - 1) /\ end \in 0..(Circle!tail - 1)
  BY DEF Circle!TypeOK
<1>3. RingUsed \in 0..(Circle!tail - 1)
  BY <1>1, <1>2 DEF RingUsed
<1>4. (end - begin + Circle!tail) % Circle!tail = RingUsed
  <2>1. /\ end - begin + Circle!tail \in Nat
        /\ end - begin + Circle!tail < Circle!tail + Circle!tail
    BY <1>1, <1>2
  <2>2. PICK x \in Nat : x = end - begin + Circle!tail
    BY <2>1
  <2>3. PICK m \in Nat \ {0} : m = Circle!tail
    BY <1>1
  <2>4. x < m + m
    BY <2>1, <2>2, <2>3
  <2>5. x % m = IF x < m THEN x ELSE x - m
    BY ONLY <2>4, ModOnce
  <2>6. RingUsed = IF x < m THEN x ELSE x - m
    BY <1>1, <1>2, <2>2, <2>3 DEF RingUsed
  <2> QED
    BY <2>2, <2>3, <2>5, <2>6
<1>5. Circle!getUsedSize = IF begin <= end THEN RingUsed ELSE RingUsed + 1
  <2>1. /\ end - begin + RingSize \in Nat /\ RingSize \in Nat \ {0}
        /\ end - begin + RingSize < RingSize + RingSize
    BY <1>1, <1>2
  <2>2. PICK x \in Nat : x = end - begin + RingSize
    BY <2>1
  <2>3. x < RingSize + RingSize
    BY <2>1, <2>2
  <2>4. x % RingSize = IF x < RingSize THEN x ELSE x - RingSize
    BY ONLY <2>1, <2>3, ModOnce
  <2>5. Circle!getUsedSize = x % RingSize
    BY <2>2 DEF Circle!getUsedSize
  <2> QED
    BY <1>1, <1>2, <2>2, <2>4, <2>5 DEF RingUsed
<1> QED
  BY <1>1, <1>3, <1>4, <1>5 DEF Circle!getFreeSize

\* The constructor's memory is all zeros, and both pointers begin at its start.
LEMMA RingInit == Circle!Init => Circle!TypeOK
  BY RingAssumption DEF Circle!Init, Circle!TypeOK, Circle!tail

\* A block that fits is stored inside the memory, and end_ stays in the ring.
LEMMA RingWriteType ==
  ASSUME Circle!TypeOK, NEW n \in 0..Circle!tail, NEW block \in [1..n -> Byte],
         Circle!Write(block)
  PROVE  Circle!TypeOK'
<1>1. /\ Circle!tail \in Nat \ {0} /\ RingSize = Circle!tail + 1
      /\ RingUsed \in 0..(Circle!tail - 1)
      /\ Circle!getUsedSize = IF begin <= end THEN RingUsed ELSE RingUsed + 1
      /\ Circle!getFreeSize = RingSize - Circle!getUsedSize - 1
  BY RingSizes
<1>2. Len(block) = n /\ n \in Nat
  BY <1>1
<1>3. /\ n <= Circle!getFreeSize
      /\ end' = Circle!Moved(end, n) /\ begin' = begin
      /\ ring' = [i \in 0..Circle!tail |->
                    IF i >= end /\ i < end + n /\ i < Circle!tail
                      THEN block[i - end + 1]
                    ELSE IF i < n - (Circle!tail - end)
                      THEN block[Circle!tail - end + i + 1] ELSE ring[i]]
  BY <1>2 DEF Circle!Write
<1>4. /\ begin \in 0..(Circle!tail - 1) /\ end \in 0..(Circle!tail - 1)
      /\ ring \in [0..Circle!tail -> Byte]
  BY DEF Circle!TypeOK
<1>5. ring' \in [0..Circle!tail -> Byte]
  <2> SUFFICES ASSUME NEW i \in 0..Circle!tail
               PROVE  /\ i >= end /\ i < end + n => block[i - end + 1] \in Byte
                      /\ i < n - (Circle!tail - end) =>
                           block[Circle!tail - end + i + 1] \in Byte
                      /\ ring[i] \in Byte
    BY <1>3
  <2> QED
    BY <1>1, <1>2, <1>4
<1>6. end' \in 0..(Circle!tail - 1)
  BY <1>1, <1>2, <1>3, <1>4 DEF Circle!Moved
<1>7. Circle!tail' = Circle!tail
  BY DEF Circle!tail
<1> QED
  BY <1>3, <1>4, <1>5, <1>6, <1>7 DEF Circle!TypeOK

\* A removal leaves the memory alone, and begin_ stays in the ring.
LEMMA RingRemoveType ==
  ASSUME Circle!TypeOK, NEW n \in 0..Circle!tail, Circle!Remove(n)
  PROVE  Circle!TypeOK'
<1>1. /\ Circle!tail \in Nat \ {0} /\ RingSize = Circle!tail + 1
      /\ RingUsed \in 0..(Circle!tail - 1)
      /\ Circle!getUsedSize = IF begin <= end THEN RingUsed ELSE RingUsed + 1
  BY RingSizes
<1>2. /\ n <= Circle!getUsedSize
      /\ begin' = Circle!Moved(begin, n) /\ end' = end /\ ring' = ring
  BY DEF Circle!Remove
<1>3. /\ begin \in 0..(Circle!tail - 1) /\ end \in 0..(Circle!tail - 1)
      /\ ring \in [0..Circle!tail -> Byte]
  BY DEF Circle!TypeOK
<1>4. begin' \in 0..(Circle!tail - 1)
  BY <1>1, <1>2, <1>3 DEF Circle!Moved
<1>5. Circle!tail' = Circle!tail
  BY DEF Circle!tail
<1> QED
  BY <1>2, <1>3, <1>4, <1>5 DEF Circle!TypeOK

\* What lies on the ring, cell by cell.
RingContentsOK ==
  /\ Circle!Contents \in Seq(Byte)
  /\ Len(Circle!Contents) = RingUsed
  /\ \A i \in 1..RingUsed :
       Circle!Contents[i] = IF i <= Circle!tail - begin THEN ring[begin + i - 1]
                            ELSE ring[i - (Circle!tail - begin) - 1]

\* That is so in every state of the right type.
LEMMA RingContents == Circle!TypeOK => RingContentsOK
<1> SUFFICES ASSUME Circle!TypeOK PROVE RingContentsOK
  OBVIOUS
<1>1. /\ Circle!tail \in Nat \ {0} /\ RingUsed \in 0..(Circle!tail - 1)
      /\ (end - begin + Circle!tail) % Circle!tail = RingUsed
  BY RingSizes
<1>2. Circle!Contents =
        [i \in 1..RingUsed |->
           IF i <= Circle!tail - begin THEN ring[begin + i - 1]
           ELSE ring[i - (Circle!tail - begin) - 1]]
  BY <1>1 DEF Circle!Contents, Circle!ReadBytes
<1>3. \A i \in 1..RingUsed :
        (IF i <= Circle!tail - begin THEN ring[begin + i - 1]
         ELSE ring[i - (Circle!tail - begin) - 1]) \in Byte
  BY <1>1 DEF Circle!TypeOK, RingUsed
<1> QED
  BY <1>1, <1>2, <1>3 DEF RingContentsOK

\* The same after a step.
LEMMA RingContentsNext == Circle!TypeOK' => RingContentsOK'
  BY RingContents, PTL

\* A write that does not fill a buffer that does not wrap appends its block.
LEMMA RingWritePuts ==
  ASSUME Circle!TypeOK, NEW n \in 0..Circle!tail, NEW block \in [1..n -> Byte],
         Circle!Write(block), ~(begin <= end /\ n = Circle!getFreeSize)
  PROVE  Circle!Fifo!Put(block)
<1>1. /\ Circle!tail \in Nat \ {0} /\ RingSize = Circle!tail + 1
      /\ RingUsed \in 0..(Circle!tail - 1)
      /\ Circle!getUsedSize = IF begin <= end THEN RingUsed ELSE RingUsed + 1
      /\ Circle!getFreeSize = RingSize - Circle!getUsedSize - 1
  BY RingSizes
<1>2. Len(block) = n /\ n \in Nat /\ block \in Seq(Byte)
  BY <1>1
<1>3. /\ n <= Circle!getFreeSize
      /\ end' = Circle!Moved(end, n) /\ begin' = begin
      /\ ring' = [i \in 0..Circle!tail |->
                    IF i >= end /\ i < end + n /\ i < Circle!tail
                      THEN block[i - end + 1]
                    ELSE IF i < n - (Circle!tail - end)
                      THEN block[Circle!tail - end + i + 1] ELSE ring[i]]
  BY <1>2 DEF Circle!Write
<1>4. begin \in 0..(Circle!tail - 1) /\ end \in 0..(Circle!tail - 1)
  BY DEF Circle!TypeOK
<1>5. RingUsed + n < RingSize /\ Circle!tail' = Circle!tail
  BY <1>1, <1>2, <1>3 DEF Circle!tail
<1>6. RingUsed' = RingUsed + n
  BY <1>1, <1>2, <1>3, <1>4, <1>5 DEF RingUsed, Circle!Moved
<1>7. RingContentsOK /\ RingContentsOK'
  BY RingContents, RingContentsNext, RingWriteType
<1> DEFINE joined == Circle!Contents \o block
<1>8. /\ joined \in Seq(Byte) /\ Len(joined) = RingUsed + n
      /\ \A i \in 1..(RingUsed + n) :
           joined[i] = IF i <= RingUsed THEN Circle!Contents[i]
                       ELSE block[i - RingUsed]
  BY <1>2, <1>7, ConcatProperties DEF RingContentsOK
<1> HIDE DEF joined
<1>9. ASSUME NEW i \in 1..(RingUsed + n)
      PROVE  Circle!Contents'[i] = joined[i]
  <2> DEFINE cell == IF i <= Circle!tail - begin THEN begin + i - 1
                     ELSE i - (Circle!tail - begin) - 1
  <2>1. Circle!Contents'[i] = ring'[cell]
    BY <1>3, <1>5, <1>6, <1>7 DEF RingContentsOK
  <2>2. cell \in 0..(Circle!tail - 1)
    BY <1>1, <1>2, <1>4, <1>5
  <2>3. CASE i <= RingUsed
    <3>1. joined[i] = ring[cell]
      BY <1>7, <1>8, <2>3 DEF RingContentsOK
    <3>2. ~(cell >= end /\ cell < end + n) /\ ~(cell < n - (Circle!tail - end))
      BY <1>1, <1>2, <1>4, <1>5, <2>3 DEF RingUsed
    <3>3. ring'[cell] = ring[cell]
      BY <1>1, <1>3, <2>2, <3>2
    <3> QED
      BY <2>1, <3>1, <3>3
  <2>4. CASE i > RingUsed
    <3>1. joined[i] = block[i - RingUsed]
      BY <1>1, <1>8, <2>4
    <3>2. \/ /\ cell >= end /\ cell < end + n
             /\ cell - end + 1 = i - RingUsed
          \/ /\ cell < end /\ cell < n - (Circle!tail - end)
             /\ Circle!tail - end + cell + 1 = i - RingUsed
      BY <1>1, <1>2, <1>4, <1>5, <2>4 DEF RingUsed
    <3>3. ring'[cell] =
            IF cell >= end /\ cell < end + n /\ cell < Circle!tail
              THEN block[cell - end + 1]
            ELSE IF cell < n - (Circle!tail - end)
              THEN block[Circle!tail - end + cell + 1] ELSE ring[cell]
      BY <1>1, <1>3, <2>2
    <3> HIDE DEF cell
    <3>4. ring'[cell] = block[i - RingUsed]
      <4>1. CASE cell >= end
        <5>1. cell < Circle!tail /\ cell < end + n
              /\ cell - end + 1 = i - RingUsed
          BY <1>1, <1>4, <2>2, <3>2, <4>1
        <5> QED
          BY ONLY <3>3, <4>1, <5>1
      <4>2. CASE cell < end
        <5>1. ~(cell >= end) /\ cell < n - (Circle!tail - end)
              /\ Circle!tail - end + cell + 1 = i - RingUsed
          BY <1>1, <1>4, <2>2, <3>2, <4>2
        <5> QED
          BY ONLY <3>3, <5>1
      <4> QED
        BY <1>1, <1>4, <2>2, <4>1, <4>2
    <3> QED
      BY <2>1, <3>1, <3>4
  <2> QED
    BY <1>1, <2>3, <2>4
<1>10. Circle!Contents' = joined
  BY <1>6, <1>7, <1>8, <1>9, SeqEqual DEF RingContentsOK
<1>11. Len(Circle!Contents) + Len(block) <= Circle!tail
  BY <1>1, <1>2, <1>5, <1>7 DEF RingContentsOK
<1> QED
  BY <1>10, <1>11 DEF Circle!Fifo!Put, joined

\* A removal of no more than what lies on the ring takes the oldest bytes off.
LEMMA RingRemoveTakes ==
  ASSUME Circle!TypeOK, NEW n \in 0..Circle!tail, Circle!Remove(n),
         ~(end < begin /\ n = Circle!getUsedSize)
  PROVE  Circle!Fifo!Take(n)
<1>1. /\ Circle!tail \in Nat \ {0} /\ RingSize = Circle!tail + 1
      /\ RingUsed \in 0..(Circle!tail - 1)
      /\ Circle!getUsedSize = IF begin <= end THEN RingUsed ELSE RingUsed + 1
  BY RingSizes
<1>2. /\ n <= Circle!getUsedSize /\ n \in Nat
      /\ begin' = Circle!Moved(begin, n) /\ end' = end /\ ring' = ring
  BY <1>1 DEF Circle!Remove
<1>3. begin \in 0..(Circle!tail - 1) /\ end \in 0..(Circle!tail - 1)
  BY DEF Circle!TypeOK
<1>4. n <= RingUsed /\ Circle!tail' = Circle!tail
  BY <1>1, <1>2, <1>3 DEF Circle!tail
<1>5. RingUsed' = RingUsed - n
  BY <1>1, <1>2, <1>3, <1>4 DEF RingUsed, Circle!Moved
<1>6. RingContentsOK /\ RingContentsOK'
  BY RingContents, RingContentsNext, RingRemoveType
<1> DEFINE rest == SubSeq(Circle!Contents, n + 1, RingUsed)
<1>7. /\ rest \in Seq(Byte) /\ Len(rest) = RingUsed - n
      /\ \A i \in 1..(RingUsed - n) : rest[i] = Circle!Contents[n + i]
  <2>1. \A i \in (n + 1)..RingUsed : Circle!Contents[i] \in Byte
    BY <1>2, <1>6, ElementOfSeq DEF RingContentsOK
  <2> QED
    BY <1>1, <1>2, <1>4, <1>6, <2>1, SubSeqProperties DEF RingContentsOK
<1> HIDE DEF rest
<1>8. ASSUME NEW i \in 1..(RingUsed - n)
      PROVE  Circle!Contents'[i] = rest[i]
  <2>1. Circle!Contents'[i] =
          IF i <= Circle!tail - begin' THEN ring[begin' + i - 1]
          ELSE ring[i - (Circle!tail - begin') - 1]
    BY <1>2, <1>4, <1>5, <1>6 DEF RingContentsOK
  <2>2. n + i \in 1..RingUsed
    BY <1>1, <1>2, <1>4
  <2>3. rest[i] = IF n + i <= Circle!tail - begin THEN ring[begin + (n + i) - 1]
                  ELSE ring[(n + i) - (Circle!tail - begin) - 1]
    BY <1>6, <1>7, <2>2 DEF RingContentsOK
  <2> QED
    BY <1>1, <1>2, <1>3, <1>4, <2>1, <2>2, <2>3 DEF RingUsed, Circle!Moved
<1>9. Circle!Contents' = rest
  BY <1>5, <1>6, <1>7, <1>8, SeqEqual DEF RingContentsOK
<1> QED
  BY <1>4, <1>6, <1>9 DEF Circle!Fifo!Take, RingContentsOK, rest

\* In every behaviour of the two buffers the ring of CircleBuffer keeps its
\* pointers below tail_: every copy stays inside the allocation.
THEOREM RingTypeTheorem == BuffersSpec => []Circle!TypeOK
<1>1. BuffersInit => Circle!TypeOK
  BY RingInit DEF BuffersInit
<1>2. Circle!TypeOK /\ [BuffersNext]_<<class, vars, ringVars>> => Circle!TypeOK'
  <2> SUFFICES ASSUME Circle!TypeOK, [BuffersNext]_<<class, vars, ringVars>>
               PROVE  Circle!TypeOK'
    OBVIOUS
  <2>1. CASE UNCHANGED ringVars
    BY <2>1 DEF ringVars, Circle!TypeOK, Circle!tail
  <2>2. CASE Circle!Next
    BY <2>2, RingWriteType, RingRemoveType DEF Circle!Next
  <2> QED
    BY <2>1, <2>2 DEF BuffersNext
<1> QED
  BY <1>1, <1>2, PTL DEF BuffersSpec

\* A CircleBuffer of any size is a FIFO queue of bytes, but for a write that
\* fills it while the data does not wrap and a removal of one byte too many
\* while it does.
THEOREM RingTheorem == BuffersSpec => FifoExceptAtTheEdges
<1> DEFINE Step ==
      /\ \A n \in 0..Circle!tail : \A block \in [1..n -> Byte] :
           Circle!Write(block) => \/ Circle!Fifo!Put(block)
                                  \/ begin <= end /\ n = Circle!getFreeSize
      /\ \A n \in 0..Circle!tail :
           Circle!Remove(n) => \/ Circle!Fifo!Take(n)
                               \/ end < begin /\ n = Circle!getUsedSize
<1>1. Circle!TypeOK => Step
  BY RingWritePuts, RingRemoveTakes
<1>2. Circle!TypeOK /\ [BuffersNext]_<<class, vars, ringVars>> =>
        [Step]_Circle!vars
  BY <1>1
<1> HIDE DEF Step
<1>3. BuffersSpec => [][Step]_Circle!vars
  BY <1>2, RingTypeTheorem, PTL DEF BuffersSpec
<1> QED
  BY <1>3 DEF Step, FifoExceptAtTheEdges, Circle!FifoExceptAtTheEdges
-----------------------------------------------------------------------------
(* The inductive invariant of RBTree.                                      *)

\* The elements of the array that are in the tree.
Node == 1..currIdx

\* Link c leads to the top of the elements from .. to, or to the leaf if
\* there are none.
Spans(c, from, to, lo, hi) ==
  IF from > to THEN c = Nil
               ELSE c \in Node /\ lo[c] = from /\ hi[c] = to

\* The elements below element i, and itself, are lo[i]..hi[i]: as keys arrive
\* in ascending order, the tree is sorted by index.
Sorted(lo, hi) ==
  /\ Spans(rootIdx, 1, currIdx, lo, hi)
  /\ \A i \in Node : lo[i] \in 1..i /\ hi[i] \in i..currIdx
  /\ \A i \in Node : /\ Spans(child[i]["left"], lo[i], i - 1, lo, hi)
                     /\ Spans(child[i]["right"], i + 1, hi[i], lo, hi)
  /\ \A i \in Idx \ Node, s \in Side : child[i][s] = Nil

\* No element is below two others, or twice below one.
OneParent ==
  \A i, j \in Node : \A s, t \in Side :
    child[i][s] # Nil /\ child[i][s] = child[j][t] => i = j /\ s = t

\* The keys in the tree, in the order they have arrived in.
KeysOK ==
  /\ \A i \in Node : key[i] \in Key
  /\ \A i, j \in Node : i < j => key[i] < key[j]
  /\ accepted = {key[i] : i \in 1..size}
  /\ currIdx = IF pc = "fix" THEN size + 1 ELSE size

\* insert goes down on the right, and insertFix comes back the same way.
PathOK(hi) ==
  /\ stack \in Seq(Node)
  /\ \A i \in 1..Len(stack) : stack[i] >= i /\ hi[stack[i]] = currIdx
  /\ Len(stack) > 0 => stack[1] = rootIdx
  /\ \A i \in 1..(Len(stack) - 1) : stack[i + 1] = child[stack[i]]["right"]
  /\ pc = "descend" =>
       /\ newKey \in Key /\ (\A k \in accepted : k <= newKey)
       /\ rootIdx # Nil /\ currIdx < Capacity - 1
       /\ p = IF Len(stack) = 0 THEN rootIdx
              ELSE child[stack[Len(stack)]]["right"]
       /\ \A i \in 1..Len(stack) : key[stack[i]] # newKey
  /\ pc = "fix" =>
       /\ key[currIdx] = newKey
       /\ top + 1 <= Len(stack)
       /\ idxBk = child[parent]["right"] /\ idxBk # Nil
  /\ pc \in {"idle", "destroyed"} => stack = <<>> /\ top = 0

\* Below element i there are bh[i] black elements on every path, i included.
\* Two red elements follow each other only where insertFix is.
ColorsOK(bh) ==
  /\ rootIdx # Nil => color[rootIdx] = "black"
  /\ \A i \in Idx : i > currIdx => color[i] = "red"
  /\ bh[Nil] = 0
  /\ \A i \in Node :
       /\ bh[child[i]["left"]] = bh[child[i]["right"]]
       /\ bh[i] = bh[child[i]["left"]] + (IF color[i] = "black" THEN 1 ELSE 0)
  /\ \A i \in Node, s \in Side :
       /\ color[i] = "red" /\ child[i][s] # Nil
       /\ color[child[i][s]] = "red"
       => pc = "fix" /\ i = parent /\ s = "right"

TreeIInv ==
  /\ TreeTypeOK /\ KeysOK /\ OneParent
  /\ \E lo, hi \in [Idx -> Idx] : Sorted(lo, hi) /\ PathOK(hi)
  /\ \E bh \in [Idx -> Nat] : ColorsOK(bh)

\* The tree is empty and no call is under way; the leaf has some colour.
IsEmpty ==
  /\ key = [i \in Idx |-> 0]
  /\ child = [i \in Idx |-> [s \in Side |-> Nil]]
  /\ color \in [Idx -> {"red", "black"}]
  /\ \A i \in Idx \ {Nil} : color[i] = "red"
  /\ rootIdx = Nil /\ currIdx = 0 /\ size = 0 /\ accepted = {}
  /\ pc \in {"idle", "destroyed"} /\ newKey \in Key \cup {0} /\ p \in Idx
  /\ stack = <<>> /\ idxBk \in Idx /\ top = 0

\* An empty tree satisfies the invariant.
LEMMA EmptyIInv == IsEmpty => TreeIInv
<1>. SUFFICES ASSUME IsEmpty PROVE TreeIInv
  OBVIOUS
<1>. USE ConstantsAssumption DEF IsEmpty
<1>1. Node = {} /\ 0 \in Idx
  BY DEF Node, Idx
<1>2. TreeTypeOK
  BY <1>1 DEF TreeTypeOK, Nil
<1>3. KeysOK /\ OneParent
  BY <1>1 DEF KeysOK, OneParent
<1> DEFINE zero == [i \in Idx |-> 0]
<1>4. zero \in [Idx -> Idx] /\ zero \in [Idx -> Nat]
  BY <1>1
<1>5. Sorted(zero, zero) /\ PathOK(zero)
  BY <1>1 DEF Sorted, Spans, PathOK, Nil
<1>6. ColorsOK(zero)
  BY <1>1 DEF ColorsOK, Idx, Nil
<1> QED
  BY <1>2, <1>3, <1>4, <1>5, <1>6 DEF TreeIInv

\* The same of the next state.
LEMMA EmptyIInvNext == IsEmpty' => TreeIInv'
  BY EmptyIInv, PTL

\* A new tree satisfies the invariant.
LEMMA TreeInitIInv == TreeInit => TreeIInv
<1>1. TreeInit => IsEmpty
  BY ConstantsAssumption DEF TreeInit, Idx, Nil, IsEmpty
<1> QED
  BY <1>1, EmptyIInv

\* So does the tree after clear, destroy and init.
LEMMA EmptiedIInv ==
  ASSUME TreeIInv, clear \/ destroy \/ init PROVE TreeIInv'
<1>1. PICK leaf \in {"red", "black"} : Emptied(leaf)
  BY DEF clear, destroy, init
<1>2. /\ pc' \in {"idle", "destroyed"} /\ stack = <<>> /\ top = 0
      /\ newKey \in Key \cup {0} /\ p \in Idx /\ idxBk \in Idx
  BY DEF clear, destroy, init, TreeIInv, PathOK, TreeTypeOK
<1>3. IsEmpty'
  BY <1>1, <1>2 DEF Emptied, callVars, IsEmpty
<1> QED
  BY <1>3, EmptyIInvNext

-----------------------------------------------------------------------------
(* insert, until the new node is attached.                                 *)

\* What the arrays hold, and where the root is.
LEMMA RootFacts ==
  ASSUME TreeTypeOK, NEW lo, NEW hi, Sorted(lo, hi)
  PROVE  /\ currIdx \in Nat /\ currIdx < Capacity /\ Node \subseteq Idx
         /\ Node \subseteq Nat \ {0}
         /\ currIdx = 0 <=> rootIdx = Nil
         /\ currIdx > 0 => rootIdx \in Node
  BY ConstantsAssumption DEF TreeTypeOK, Sorted, Spans, Node, Idx, Nil

\* The first node is the whole tree.
LEMMA InsertRootIInv ==
  ASSUME TreeIInv, NEW k \in Arriving, InsertRoot(k) PROVE TreeIInv'
<1>. USE ConstantsAssumption
<1>0. /\ currIdx = 0 /\ Capacity > 1 /\ allocIndex = 1 /\ pc = "idle"
      /\ RootAt(1, k)
  BY DEF TreeIInv, KeysOK, TreeTypeOK, isFull, allocIndex, Idx, Nil, InsertRoot
<1>1. /\ currIdx = 0 /\ currIdx' = 1 /\ 1 \in Idx /\ 0 \in Idx /\ Node = {}
      /\ Node' = {1} /\ k \in Key /\ size' = 1 /\ Capacity > 1
      /\ pc = "idle" /\ pc' = "idle" /\ rootIdx' = 1 /\ accepted' = {k}
  BY <1>0 DEF Idx, Node, Arriving, RootAt
<1>2. /\ key' = [key EXCEPT ![1] = k]
      /\ color' = [color EXCEPT ![1] = "black"]
      /\ UNCHANGED <<child, callVars>>
  BY <1>0 DEF RootAt
<1>3. TreeTypeOK'
  BY <1>1, <1>2 DEF TreeIInv, TreeTypeOK, callVars
<1>4. KeysOK'
  BY <1>1, <1>2 DEF TreeIInv, TreeTypeOK, KeysOK
<1> DEFINE one == [i \in Idx |-> 1]
           height == [i \in Idx |-> IF i = Nil THEN 0 ELSE 1]
<1>5. one \in [Idx -> Idx] /\ height \in [Idx -> Nat]
  BY <1>1
<1>6. \A i \in Idx, s \in Side : child[i][s] = Nil
  BY <1>1 DEF TreeIInv, Sorted
<1>13. OneParent'
  BY <1>1, <1>2, <1>6 DEF OneParent
<1>7. Sorted(one, one)'
  BY <1>1, <1>2, <1>6 DEF Sorted, Spans, Side, Idx, Nil
<1>8. stack = <<>> /\ top = 0
  BY <1>1 DEF TreeIInv, PathOK
<1>9. PathOK(one)'
  BY <1>1, <1>2, <1>8 DEF PathOK, callVars
<1>10. \A i \in Idx : i > 1 => color'[i] = "red"
  <2>1. PICK bh \in [Idx -> Nat] : ColorsOK(bh)
    BY DEF TreeIInv
  <2>2. \A i \in Idx : i > 0 => color[i] = "red"
    BY <1>1, <2>1 DEF ColorsOK
  <2>3. Idx \subseteq Nat
    BY DEF Idx
  <2>4. color \in [Idx -> {"red", "black"}]
    BY DEF TreeIInv, TreeTypeOK
  <2> SUFFICES ASSUME NEW i \in Idx, i > 1 PROVE color'[i] = "red"
    OBVIOUS
  <2>5. i \in Nat /\ i # 1 /\ i > 0
    BY <2>3
  <2> QED
    BY ONLY <1>2, <2>2, <2>4, <2>5, i \in Idx
<1>11. color'[1] = "black"
  BY <1>1, <1>2 DEF TreeIInv, TreeTypeOK
<1>12. ColorsOK(height)'
  BY <1>1, <1>2, <1>6, <1>10, <1>11 DEF ColorsOK, Side, Nil
<1>. HIDE DEF one, height
<1> QED
  BY <1>3, <1>4, <1>5, <1>7, <1>9, <1>12, <1>13 DEF TreeIInv

\* insert starts at the root.
LEMMA InsertBeginIInv ==
  ASSUME Ascending, TreeIInv, NEW k \in Arriving, InsertBegin(k)
  PROVE  TreeIInv'
<1>. USE DEF InsertBegin, treeVars
<1>0. PICK lo \in [Idx -> Idx], hi \in [Idx -> Idx] :
        Sorted(lo, hi) /\ PathOK(hi)
  BY DEF TreeIInv
<1>1. /\ TreeTypeOK /\ KeysOK /\ k \in Key /\ pc = "idle" /\ pc' = "descend"
      /\ (\A j \in accepted : j <= k) /\ currIdx = size
      /\ currIdx < Capacity - 1 /\ rootIdx # Nil
  <2>1. TreeTypeOK /\ KeysOK /\ pc = "idle" /\ currIdx = size
    BY DEF TreeIInv, KeysOK
  <2>2. currIdx = 0 <=> rootIdx = Nil
    BY <1>0, <2>1, RootFacts
  <2>3. currIdx < Capacity - 1
    BY <2>1, ConstantsAssumption DEF TreeTypeOK, Idx, isFull
  <2> QED
    BY <2>1, <2>2, <2>3 DEF Arriving
<1>2. TreeTypeOK'
  BY <1>1 DEF TreeTypeOK
<1>3. KeysOK' /\ OneParent'
  BY <1>1 DEF KeysOK, Node, OneParent, TreeIInv
<1>4. Sorted(lo, hi)'
  BY <1>0 DEF Sorted, Node, Spans
<1>5. stack = <<>>
  BY <1>0, <1>1 DEF PathOK
<1>6. PathOK(hi)'
  BY <1>0, <1>1, <1>5 DEF PathOK
<1>7. PICK bh \in [Idx -> Nat] : ColorsOK(bh)
  BY DEF TreeIInv
<1>8. ColorsOK(bh)'
  BY <1>1, <1>7 DEF ColorsOK, Node
<1> QED
  BY <1>2, <1>3, <1>4, <1>6, <1>8 DEF TreeIInv

\* The new key is above all others: insert goes down on the right.
LEMMA DescendIInv == ASSUME TreeIInv, Descend PROVE TreeIInv'
<1>. USE ConstantsAssumption DEF Descend, treeVars
<1>0. PICK lo \in [Idx -> Idx], hi \in [Idx -> Idx] :
        Sorted(lo, hi) /\ PathOK(hi)
  BY DEF TreeIInv
<1>1. /\ TreeTypeOK /\ KeysOK /\ pc = "descend" /\ p # Nil
      /\ pc' = "descend" /\ stack \in Seq(Node) /\ currIdx = size
      /\ newKey \in Key /\ stack' = Append(stack, p)
      /\ \A j \in accepted : j <= newKey
  BY <1>0 DEF TreeIInv, KeysOK, PathOK
<1>2. /\ currIdx \in Nat /\ Node \subseteq Idx /\ Node \subseteq Nat \ {0}
      /\ currIdx > 0 => rootIdx \in Node
      /\ currIdx = 0 <=> rootIdx = Nil
  BY <1>0, <1>1, RootFacts
<1>3. p \in Node /\ hi[p] = currIdx /\ p >= Len(stack) + 1
  <2>1. CASE Len(stack) = 0
    <3>1. p = rootIdx /\ Spans(rootIdx, 1, currIdx, lo, hi)
      BY <1>0, <1>1, <2>1 DEF PathOK, Sorted
    <3>2. currIdx > 0
      BY <1>1, <1>2, <3>1
    <3>3. p \in Node /\ hi[p] = currIdx
      BY <1>2, <3>1, <3>2 DEF Spans
    <3> QED
      BY <1>2, <2>1, <3>3
  <2>2. CASE Len(stack) # 0
    <3>1. PICK x \in Node : x = stack[Len(stack)] /\ x >= Len(stack)
                            /\ hi[x] = currIdx /\ p = child[x]["right"]
      BY <1>0, <1>1, <2>2 DEF PathOK
    <3>2. Spans(p, x + 1, currIdx, lo, hi)
      BY <1>0, <3>1 DEF Sorted
    <3>3. p \in Node /\ lo[p] = x + 1 /\ hi[p] = currIdx
      BY <1>1, <3>2 DEF Spans
    <3>4. lo[p] \in 1..p
      BY <1>0, <3>3 DEF Sorted
    <3> QED
      BY <1>1, <1>2, <3>1, <3>3, <3>4
  <2> QED
    BY <2>1, <2>2
<1>4. key[p] < newKey /\ p' = child[p]["right"] /\ p' \in Idx
  <2>1. key[p] \in accepted /\ key[p] \in Key
    BY <1>1, <1>3 DEF KeysOK, Node
  <2>2. key[p] <= newKey /\ key[p] # newKey /\ key[p] \in Nat
          /\ newKey \in Nat
    BY <1>1, <2>1
  <2>3. key[p] < newKey
    BY <2>2
  <2> QED
    BY <1>1, <1>2, <1>3, <2>3 DEF TreeTypeOK, Side
<1>5. /\ stack' \in Seq(Node) /\ Len(stack') = Len(stack) + 1
      /\ \A i \in 1..Len(stack) : stack'[i] = stack[i]
      /\ stack'[Len(stack) + 1] = p /\ Len(stack) \in Nat
  BY <1>1, <1>3
<1>6. TreeTypeOK'
  BY <1>1, <1>2, <1>3, <1>4 DEF TreeTypeOK
<1>7. KeysOK' /\ OneParent'
  BY <1>1 DEF KeysOK, Node, OneParent, TreeIInv
<1>8. Sorted(lo, hi)'
  BY <1>0 DEF Sorted, Node, Spans
<1>9. PathOK(hi)'
  <2>1. UNCHANGED <<Node, child, rootIdx, newKey, accepted, currIdx, top>>
    BY DEF Node
  <2>2. \A i \in 1..Len(stack') : stack'[i] >= i /\ hi[stack'[i]] = currIdx
    BY <1>0, <1>3, <1>5 DEF PathOK
  <2>3. stack'[1] = rootIdx
    BY <1>0, <1>1, <1>5 DEF PathOK
  <2>4. \A i \in 1..Len(stack') - 1 : stack'[i + 1] = child[stack'[i]]["right"]
    <3> SUFFICES ASSUME NEW i \in 1..Len(stack)
                 PROVE  stack'[i + 1] = child[stack[i]]["right"]
      BY <1>5
    <3>1. CASE i = Len(stack)
      BY <1>0, <1>1, <1>5, <3>1 DEF PathOK
    <3>2. CASE i # Len(stack)
      BY <1>0, <1>5, <3>2 DEF PathOK
    <3> QED
      BY <3>1, <3>2
  <2>5. p' = child[stack'[Len(stack')]]["right"]
    BY <1>4, <1>5
  <2>6. rootIdx # Nil /\ currIdx < Capacity - 1
    BY <1>0, <1>1 DEF PathOK
  <2>7. \A i \in 1..Len(stack') : key'[stack'[i]] # newKey
    BY <1>0, <1>1, <1>4, <1>5 DEF PathOK
  <2> QED
    BY <1>1, <1>5, <2>1, <2>2, <2>3, <2>4, <2>5, <2>6, <2>7 DEF PathOK
<1>10. PICK bh \in [Idx -> Nat] : ColorsOK(bh)
  BY DEF TreeIInv
<1>11. ColorsOK(bh)'
  BY <1>1, <1>10 DEF ColorsOK, Node
<1> QED
  BY <1>6, <1>7, <1>8, <1>9, <1>11 DEF TreeIInv

\* A key that is there already is not inserted.
LEMMA DuplicateIInv == ASSUME TreeIInv, Duplicate PROVE TreeIInv'
<1>. USE ConstantsAssumption DEF Duplicate, treeVars, Return
<1>0. PICK lo \in [Idx -> Idx], hi \in [Idx -> Idx] :
        Sorted(lo, hi) /\ PathOK(hi)
  BY DEF TreeIInv
<1>1. TreeTypeOK /\ KeysOK /\ pc = "descend"
  BY DEF TreeIInv
<1>2. TreeTypeOK'
  <2>1. 0 \in Idx /\ 0 \in 0..(Capacity - 1) /\ <<>> \in Seq(Idx)
    BY DEF Idx
  <2> QED
    BY <1>1, <2>1 DEF TreeTypeOK, Nil
<1>3. KeysOK' /\ OneParent'
  BY <1>1 DEF KeysOK, Node, OneParent, TreeIInv
<1>4. Sorted(lo, hi)'
  BY <1>0 DEF Sorted, Node, Spans
<1>5. PathOK(hi)'
  BY DEF PathOK
<1>6. PICK bh \in [Idx -> Nat] : ColorsOK(bh)
  BY DEF TreeIInv
<1>7. ColorsOK(bh)'
  BY <1>1, <1>6 DEF ColorsOK, Node
<1> QED
  BY <1>2, <1>3, <1>4, <1>5, <1>7 DEF TreeIInv

\* There is an element left for the new node: isFull has been false.
LEMMA AttachAttaches ==
  ASSUME TreeTypeOK, NEW hi, PathOK(hi), Attach
  PROVE  /\ pc = "descend" /\ p = Nil /\ allocIndex = currIdx + 1
         /\ AttachAt(currIdx + 1)
  BY DEF TreeTypeOK, Idx, PathOK, Attach, allocIndex, Nil

\* The descent ends at the last element: the new one comes to its right.
LEMMA AttachEffect ==
  ASSUME TreeTypeOK, KeysOK, NEW lo \in [Idx -> Idx], NEW hi \in [Idx -> Idx],
         Sorted(lo, hi), PathOK(hi), Attach
  PROVE  /\ currIdx \in Node /\ currIdx + 1 \in Idx /\ currIdx \in Nat \ {0}
         /\ Len(stack) \in 1..currIdx /\ stack[Len(stack)] = currIdx
         /\ currIdx' = currIdx + 1 /\ Node' = Node \cup {currIdx + 1}
         /\ key' = [key EXCEPT ![currIdx + 1] = newKey]
         /\ child' = [child EXCEPT ![currIdx]["right"] = currIdx + 1]
         /\ key[currIdx] < newKey /\ hi[currIdx] = currIdx
         /\ size = currIdx /\ newKey \in Key
<1>. USE ConstantsAssumption
<1> DEFINE x == stack[Len(stack)]
<1>1. /\ pc = "descend" /\ p = Nil /\ currIdx' = allocIndex
      /\ key' = [key EXCEPT ![allocIndex] = newKey]
      /\ connect(x, allocIndex)
  BY AttachAttaches DEF AttachAt
<1>2. /\ currIdx \in Nat /\ Node \subseteq Idx /\ Node \subseteq Nat \ {0}
      /\ currIdx < Capacity - 1 /\ newKey \in Key /\ rootIdx # Nil
      /\ stack \in Seq(Node) /\ size = currIdx
  BY <1>1, RootFacts DEF PathOK, KeysOK
<1>3. currIdx > 0
  BY <1>2, RootFacts
<1>4. Len(stack) \in Nat \ {0}
  BY <1>1, <1>2 DEF PathOK
<1>5. x \in Node /\ hi[x] = currIdx /\ child[x]["right"] = Nil
      /\ x >= Len(stack)
  BY <1>1, <1>2, <1>4 DEF PathOK
<1>6. x = currIdx
  <2>1. Spans(Nil, x + 1, currIdx, lo, hi)
    BY <1>5 DEF Sorted
  <2>2. x + 1 > currIdx
    BY <1>2, <2>1 DEF Spans, Nil
  <2> QED
    BY <1>2, <1>5, <2>2 DEF Node
<1>7. key[currIdx] < newKey
  <2>1. key[currIdx] \in accepted /\ key[currIdx] \in Key
    BY <1>2, <1>5, <1>6 DEF KeysOK, Node
  <2>2. key[currIdx] # newKey /\ key[currIdx] <= newKey
    BY <1>1, <1>4, <1>6, <2>1 DEF PathOK
  <2>3. key[currIdx] \in Nat /\ newKey \in Nat
    BY <1>2, <2>1
  <2> QED
    BY <2>2, <2>3
<1>8. allocIndex = currIdx + 1 /\ currIdx + 1 \in Idx
  BY <1>2 DEF allocIndex, Idx
<1>9. ~(key[x] > newKey)
  <2>1. key[currIdx] \in Nat /\ newKey \in Nat
    BY <1>2, <1>5, <1>6 DEF KeysOK
  <2> QED
    BY <1>6, <1>7, <2>1
<1>10. child' = [child EXCEPT ![currIdx]["right"] = currIdx + 1]
  BY <1>1, <1>6, <1>8, <1>9 DEF connect
<1>11. Node' = Node \cup {currIdx + 1}
  BY <1>1, <1>2, <1>8 DEF Node
<1> QED
  BY <1>1, <1>2, <1>3, <1>4, <1>5, <1>6, <1>7, <1>8, <1>10, <1>11

\* The elements that ended at the last one now end at the new one.
LEMMA AttachSorted ==
  ASSUME TreeTypeOK, KeysOK, NEW lo \in [Idx -> Idx], NEW hi \in [Idx -> Idx],
         Sorted(lo, hi), PathOK(hi), Attach
  PROVE  \E low, high \in [Idx -> Idx] :
           /\ Sorted(low, high)'
           /\ \A i \in Node : hi[i] = currIdx => high[i] = currIdx + 1
<1>. USE ConstantsAssumption
<1>1. PICK n \in Idx : n = currIdx + 1
  BY AttachEffect
<1>2. /\ currIdx \in Node /\ currIdx \in Nat \ {0} /\ n \notin Node
      /\ currIdx' = n /\ Node' = Node \cup {n} /\ hi[currIdx] = currIdx
      /\ Node \subseteq Idx
      /\ \A i \in Node : i \in Nat /\ 1 <= i /\ i <= currIdx
  BY <1>1, AttachEffect, RootFacts DEF Node
<1>3. /\ rootIdx' = rootIdx /\ rootIdx \in Node
      /\ lo[rootIdx] = 1 /\ hi[rootIdx] = currIdx
  BY <1>2, AttachAttaches DEF AttachAt, Sorted, Spans
<1>4. /\ child'[currIdx]["right"] = n
      /\ \A i \in Idx, s \in Side :
           ~(i = currIdx /\ s = "right") => child'[i][s] = child[i][s]
  <2>1. child' = [child EXCEPT ![currIdx]["right"] = n]
    BY <1>1, AttachEffect
  <2>2. child \in [Idx -> [Side -> Idx]] /\ currIdx \in Idx
    BY <1>2 DEF TreeTypeOK
  <2> QED
    BY ONLY <2>1, <2>2 DEF Side
<1>5. PICK low \in [Idx -> Idx], high \in [Idx -> Idx] :
        /\ low = [lo EXCEPT ![n] = n]
        /\ high = [i \in Idx |-> IF i = n \/ (i \in Node /\ hi[i] = currIdx)
                                 THEN n ELSE hi[i]]
  <2> DEFINE g == [i \in Idx |-> IF i = n \/ (i \in Node /\ hi[i] = currIdx)
                                THEN n ELSE hi[i]]
  <2>1. [lo EXCEPT ![n] = n] \in [Idx -> Idx] /\ g \in [Idx -> Idx]
    BY <1>1
  <2> QED
    BY <2>1
<1>6. /\ low[n] = n /\ high[n] = n
      /\ \A i \in Node : low[i] = lo[i]
      /\ \A i \in Node : high[i] = IF hi[i] = currIdx THEN n ELSE hi[i]
  BY <1>2, <1>5
<1>15. ASSUME NEW c, NEW from \in Nat, NEW to \in Nat, to < currIdx,
              Spans(c, from, to, lo, hi)
       PROVE  Spans(c, from, to, low, high)'
  <2>1. CASE from > to
    BY <1>15, <2>1 DEF Spans
  <2>2. CASE ~(from > to)
    <3>1. c \in Node /\ lo[c] = from /\ hi[c] = to /\ to # currIdx
      BY <1>2, <1>15, <2>2 DEF Spans
    <3>2. c \in Node' /\ low[c] = from /\ high[c] = to
      BY <1>2, <1>6, <3>1
    <3> QED
      BY <2>2, <3>2 DEF Spans
  <2> QED
    BY <2>1, <2>2
<1>16. ASSUME NEW c, NEW from \in Nat, from <= currIdx,
              Spans(c, from, currIdx, lo, hi)
       PROVE  Spans(c, from, n, low, high)'
  <2>1. c \in Node /\ lo[c] = from /\ hi[c] = currIdx /\ ~(from > n)
    BY <1>1, <1>2, <1>16 DEF Spans
  <2>2. c \in Node' /\ low[c] = from /\ high[c] = n
    BY <1>2, <1>6, <2>1
  <2> QED
    BY <2>1, <2>2 DEF Spans
<1>7. Spans(rootIdx, 1, currIdx, low, high)'
  BY <1>1, <1>2, <1>3, <1>6 DEF Spans
<1>8. \A i \in Node' : low[i] \in 1..i /\ high[i] \in i..n
  BY <1>1, <1>2, <1>6 DEF Sorted
<1>9. ASSUME NEW i \in Node
      PROVE  Spans(child[i]["left"], low[i], i - 1, low, high)'
  <2>1. PICK c : c = child[i]["left"] /\ c = child'[i]["left"]
    BY <1>2, <1>4 DEF Side
  <2>2. Spans(child[i]["left"], lo[i], i - 1, lo, hi) /\ lo[i] \in Nat
    BY <1>2 DEF Sorted
  <2>3. i - 1 \in Nat /\ i - 1 < currIdx
    BY <1>2
  <2>4. Spans(c, lo[i], i - 1, low, high)'
    BY <1>15, <2>1, <2>2, <2>3
  <2> QED
    BY <1>6, <2>1, <2>4
<1>10. ASSUME NEW i \in Node
       PROVE  Spans(child[i]["right"], i + 1, high[i], low, high)'
  <2>1. CASE i = currIdx
    <3>1. child'[i]["right"] = n /\ high[i] = n /\ i + 1 = n
      BY <1>1, <1>2, <1>4, <1>6, <2>1
    <3> QED
      BY <1>1, <1>2, <1>6, <3>1 DEF Spans
  <2>2. CASE i # currIdx
    <3>1. PICK c : c = child[i]["right"] /\ c = child'[i]["right"]
      BY <1>2, <1>4, <2>2 DEF Side
    <3>2. Spans(c, i + 1, hi[i], lo, hi) /\ hi[i] \in i..currIdx
      BY <3>1 DEF Sorted
    <3>3. i + 1 \in Nat /\ i + 1 <= currIdx /\ hi[i] \in Nat
      BY <1>2, <2>2, <3>2
    <3>4. CASE hi[i] = currIdx
      BY <1>6, <1>16, <3>1, <3>2, <3>3, <3>4
    <3>5. CASE hi[i] < currIdx
      BY <1>6, <1>15, <3>1, <3>2, <3>3, <3>5
    <3> QED
      BY <1>2, <3>2, <3>4, <3>5
  <2> QED
    BY <2>1, <2>2
<1>11. \A i \in Idx \ Node, s \in Side : child'[i][s] = Nil
  BY <1>2, <1>4 DEF Sorted
<1>12. /\ Spans(child[n]["left"], n, n - 1, low, high)'
       /\ Spans(child[n]["right"], n + 1, n, low, high)'
  BY <1>1, <1>2, <1>11 DEF Spans, Side
<1>13. Sorted(low, high)'
  BY <1>2, <1>6, <1>7, <1>8, <1>9, <1>10, <1>11, <1>12 DEF Sorted
<1>14. \A i \in Node : hi[i] = currIdx => high[i] = currIdx + 1
  BY <1>1, <1>6
<1> QED
  BY <1>13, <1>14

\* Links lead to nodes or to the leaf; the last node has nothing to its right.
LEMMA ChildFacts ==
  ASSUME TreeTypeOK, NEW lo \in [Idx -> Idx], NEW hi \in [Idx -> Idx],
         Sorted(lo, hi), NEW i \in Node
  PROVE  /\ \A s \in Side : child[i][s] \in Node \cup {Nil}
         /\ hi[i] = i => child[i]["right"] = Nil
         /\ i \in Nat /\ 1 <= i /\ i <= currIdx
<1>1. /\ Spans(child[i]["left"], lo[i], i - 1, lo, hi)
      /\ Spans(child[i]["right"], i + 1, hi[i], lo, hi)
  BY DEF Sorted
<1>2. i \in Nat /\ 1 <= i /\ i <= currIdx
  BY RootFacts DEF Node
<1> QED
  BY <1>1, <1>2 DEF Spans, Side

\* The keys and what insert has accepted after the node is attached.
LEMMA AttachKeys == ASSUME TreeIInv, Attach PROVE TreeTypeOK' /\ KeysOK'
<1>. USE ConstantsAssumption
<1>1. PICK lo \in [Idx -> Idx], hi \in [Idx -> Idx] :
        Sorted(lo, hi) /\ PathOK(hi)
  BY DEF TreeIInv
<1>2. TreeTypeOK /\ KeysOK
  BY DEF TreeIInv
<1>3. PICK n \in Idx : n = currIdx + 1
  BY <1>1, <1>2, AttachEffect
<1>4. /\ currIdx' = n /\ Node' = Node \cup {n} /\ n \notin Node
      /\ key' = [key EXCEPT ![n] = newKey]
      /\ child' = [child EXCEPT ![currIdx]["right"] = n]
      /\ key[currIdx] < newKey /\ currIdx \in Node /\ size = currIdx
      /\ newKey \in Key /\ Node \subseteq Idx /\ currIdx \in Nat
      /\ Len(stack) \in 1..currIdx
  BY <1>1, <1>2, <1>3, AttachEffect, RootFacts DEF Node
<1>5. /\ key' \in [Idx -> Key \cup {0}] /\ key'[n] = newKey
      /\ \A i \in Node : key'[i] = key[i]
  BY <1>2, <1>4 DEF TreeTypeOK
<1>6. child' \in [Idx -> [Side -> Idx]]
  BY <1>2, <1>4 DEF TreeTypeOK
<1>7. /\ UNCHANGED <<color, rootIdx>>
      /\ \/ /\ Len(stack) = 1 /\ pc' = "idle" /\ size' = size + 1
            /\ accepted' = accepted \cup {newKey}
            /\ newKey' = 0 /\ p' = Nil /\ stack' = <<>> /\ idxBk' = Nil
            /\ top' = 0
         \/ /\ Len(stack) # 1 /\ pc' = "fix" /\ idxBk' = n
            /\ top' = Len(stack) - 1
            /\ UNCHANGED <<newKey, p, stack, size, accepted>>
  BY <1>1, <1>2, <1>3, <1>4, AttachAttaches DEF AttachAt, Accept, Return
<1>8. TreeTypeOK'
  <2>1. 0 \in Idx /\ 0 \in 0..(Capacity - 1) /\ <<>> \in Seq(Idx)
        /\ currIdx <= Capacity - 1
    BY <1>4 DEF Idx
  <2>2. top' \in 0..(Capacity - 1) /\ size' \in Idx /\ idxBk' \in Idx
    BY <1>2, <1>3, <1>4, <1>7, <2>1 DEF TreeTypeOK, Nil
  <2>3. newKey' \in Key \cup {0} /\ p' \in Idx /\ stack' \in Seq(Idx)
        /\ accepted' \subseteq Key
        /\ pc' \in {"idle", "descend", "fix", "destroyed"}
    BY <1>2, <1>4, <1>7, <2>1 DEF TreeTypeOK, Nil
  <2> QED
    BY <1>2, <1>4, <1>5, <1>6, <1>7, <2>2, <2>3 DEF TreeTypeOK
<1>9. ASSUME NEW i \in Node', NEW j \in Node', i < j
      PROVE  key'[i] < key'[j]
  <2>1. \A m \in Node : m \in Nat /\ m <= currIdx /\ key[m] \in Nat
    BY <1>1, <1>2, <1>4, ChildFacts DEF KeysOK
  <2>2. i \in Node
    BY <1>3, <1>4, <1>9, <2>1
  <2>3. key[i] <= key[currIdx] /\ key[i] \in Nat /\ key[currIdx] \in Nat
    <3>1. key[i] \in Nat /\ key[currIdx] \in Nat
      BY <1>4, <2>1, <2>2
    <3>2. i = currIdx \/ i < currIdx
      BY <1>4, <2>1, <2>2
    <3> QED
      BY <1>2, <1>4, <2>2, <3>1, <3>2 DEF KeysOK
  <2>4. newKey \in Nat
    BY <1>4
  <2>5. CASE j = n
    BY <1>4, <1>5, <2>2, <2>3, <2>4, <2>5
  <2>6. CASE j # n
    BY <1>2, <1>4, <1>5, <1>9, <2>2, <2>6 DEF KeysOK
  <2> QED
    BY <2>5, <2>6
<1>10. \A i \in Node' : key'[i] \in Key
  BY <1>2, <1>4, <1>5 DEF KeysOK
<1>11. accepted = {key'[i] : i \in 1..size} /\ 1..size = Node
  <2>1. Node = 1..size
    BY <1>4 DEF Node
  <2> QED
    BY <1>2, <1>5, <2>1 DEF KeysOK
<1>12. size \in Nat /\ size + 1 = n
  BY <1>3, <1>4
<1>13. KeysOK'
  <2>1. CASE pc' = "fix"
    BY <1>4, <1>7, <1>9, <1>10, <1>11, <1>12, <2>1 DEF KeysOK
  <2>2. CASE pc' # "fix"
    <3>1. 1..(size + 1) = (1..size) \cup {n} /\ size' = size + 1
      BY <1>7, <1>12, <2>2
    <3>2. accepted' = {key'[i] : i \in 1..(size + 1)}
      BY <1>5, <1>7, <1>11, <2>2, <3>1
    <3> QED
      BY <1>4, <1>9, <1>10, <1>12, <2>2, <3>1, <3>2 DEF KeysOK
  <2> QED
    BY <2>1, <2>2
<1> QED
  BY <1>8, <1>13

\* The way insertFix will go back is the way insert has come.
LEMMA AttachPath ==
  ASSUME TreeTypeOK, KeysOK, NEW lo \in [Idx -> Idx], NEW hi \in [Idx -> Idx],
         Sorted(lo, hi), PathOK(hi), Attach, NEW high \in [Idx -> Idx],
         \A i \in Node : hi[i] = currIdx => high[i] = currIdx + 1
  PROVE  PathOK(high)'
<1>. USE ConstantsAssumption
<1>1. /\ currIdx' = currIdx + 1 /\ key' = [key EXCEPT ![currIdx + 1] = newKey]
      /\ child' = [child EXCEPT ![currIdx]["right"] = currIdx + 1]
      /\ currIdx \in Node /\ currIdx \in Nat /\ currIdx + 1 \in Idx
      /\ Len(stack) \in Nat \ {0} /\ stack[Len(stack)] = currIdx
      /\ hi[currIdx] = currIdx /\ Node' = Node \cup {currIdx + 1}
      /\ Node \subseteq Idx
  BY AttachEffect, RootFacts
<1>2. CASE Len(stack) = 1
  <2>1. pc' = "idle" /\ stack' = <<>> /\ top' = 0
    BY <1>2, AttachAttaches DEF AttachAt, Accept, Return
  <2> QED
    BY <2>1 DEF PathOK
<1>3. CASE Len(stack) # 1
  <2>1. /\ pc' = "fix" /\ idxBk' = currIdx + 1 /\ top' = Len(stack) - 1
        /\ UNCHANGED <<newKey, stack, rootIdx>>
    BY <1>1, <1>3, AttachAttaches DEF AttachAt
  <2>2. stack \in Seq(Node) /\ stack \in Seq(Node')
    BY <1>1 DEF PathOK
  <2>3. \A i \in 1..Len(stack) : stack[i] >= i /\ high[stack[i]] = currIdx'
    BY <1>1, <2>2 DEF PathOK
  <2>4. stack[1] = rootIdx
    BY <1>1 DEF PathOK
  <2>5. /\ child'[currIdx]["right"] = currIdx + 1
        /\ \A i \in Node : i # currIdx => child'[i] = child[i]
    <3>1. child \in [Idx -> [Side -> Idx]]
      BY DEF TreeTypeOK
    <3> QED
      BY ONLY <1>1, <3>1 DEF Side
  <2>6. ASSUME NEW i \in 1..(Len(stack) - 1)
        PROVE  stack[i + 1] = child'[stack[i]]["right"]
    <3>1. stack[i + 1] \in Node /\ stack[i] \in Node
      BY <1>1, <2>2
    <3>2. stack[i + 1] = child[stack[i]]["right"]
      BY DEF PathOK
    <3>3. child[currIdx]["right"] = Nil /\ Nil \notin Node
      BY <1>1, ChildFacts DEF Nil, Node
    <3>4. stack[i] # currIdx
      BY <3>1, <3>2, <3>3
    <3> QED
      BY <2>5, <3>1, <3>2, <3>4
  <2>7. key'[currIdx'] = newKey'
    BY <1>1, <2>1 DEF TreeTypeOK
  <2>8. /\ top' + 1 = Len(stack) /\ parent' = currIdx
    BY <1>1, <2>1 DEF parent
  <2>9. idxBk' = child'[parent']["right"] /\ idxBk' # Nil
    BY <1>1, <2>1, <2>5, <2>8 DEF Nil
  <2> QED
    BY <1>1, <2>1, <2>2, <2>3, <2>4, <2>6, <2>7, <2>8, <2>9 DEF PathOK
<1> QED
  BY <1>2, <1>3

\* The new node is red; if that is against the rules it is below parent.
LEMMA AttachColors ==
  ASSUME TreeTypeOK, KeysOK, NEW lo \in [Idx -> Idx], NEW hi \in [Idx -> Idx],
         Sorted(lo, hi), PathOK(hi), Attach,
         NEW bh \in [Idx -> Nat], ColorsOK(bh)
  PROVE  \E height \in [Idx -> Nat] : ColorsOK(height)'
<1>. USE ConstantsAssumption
<1>0. /\ currIdx' = currIdx + 1 /\ Node' = Node \cup {currIdx + 1}
      /\ child' = [child EXCEPT ![currIdx]["right"] = currIdx + 1]
      /\ currIdx \in Node /\ hi[currIdx] = currIdx /\ currIdx + 1 \in Idx
      /\ currIdx \in Nat \ {0} /\ Len(stack) \in 1..currIdx
      /\ stack[Len(stack)] = currIdx
  BY AttachEffect
<1>1. PICK n \in Idx : n = currIdx + 1
  BY <1>0
<1>2. /\ currIdx' = n /\ Node' = Node \cup {n} /\ currIdx \in Nat \ {0}
      /\ child' = [child EXCEPT ![currIdx]["right"] = n]
      /\ currIdx \in Node /\ hi[currIdx] = currIdx /\ n \notin Node
      /\ Len(stack) \in Nat \ {0} /\ stack[Len(stack)] = currIdx
      /\ Node \subseteq Idx /\ n # Nil
  <2>1. n \notin Node /\ n # Nil
    BY <1>0, <1>1 DEF Node, Nil
  <2>2. Node \subseteq Idx
    BY RootFacts
  <2> QED
    BY <1>0, <1>1, <2>1, <2>2
<1>3. /\ UNCHANGED <<color, rootIdx>> /\ pc = "descend"
      /\ Len(stack) # 1 => /\ pc' = "fix" /\ top' + 1 = Len(stack)
                           /\ stack' = stack
  BY <1>2, AttachAttaches DEF AttachAt
<1>4. PICK height \in [Idx -> Nat] : height = [bh EXCEPT ![n] = 0]
  OBVIOUS
<1>5. /\ height[n] = 0 /\ height[Nil] = 0
      /\ \A i \in Node : height[i] = bh[i]
  <2>1. bh[Nil] = 0 /\ Nil \in Idx
    BY DEF ColorsOK, Idx, Nil
  <2> QED
    BY <1>2, <1>4, <2>1
<1>6. /\ child'[currIdx]["right"] = n
      /\ \A i \in Idx, s \in Side :
           ~(i = currIdx /\ s = "right") => child'[i][s] = child[i][s]
  <2>1. child \in [Idx -> [Side -> Idx]] /\ currIdx \in Idx
    BY <1>2 DEF TreeTypeOK
  <2> QED
    BY ONLY <1>2, <2>1 DEF Side
<1>7. \A i \in Node, s \in Side : child[i][s] \in Node \cup {Nil}
  BY ChildFacts
<1>8. child[currIdx]["right"] = Nil
  BY <1>2, ChildFacts
<1>9. \A s \in Side : child'[n][s] = Nil
  BY <1>2, <1>6 DEF Sorted
<1>10. color[n] = "red" /\ \A i \in Idx : i > n => color[i] = "red"
  <2>1. \A i \in Idx : i > currIdx => color[i] = "red"
    BY DEF ColorsOK
  <2> QED
    BY <1>1, <1>2, <2>1 DEF Idx
<1>11. ASSUME NEW i \in Node
       PROVE  /\ height[child'[i]["left"]] = height[child'[i]["right"]]
              /\ height[i] = height[child'[i]["left"]]
                               + (IF color[i] = "black" THEN 1 ELSE 0)
  <2>1. /\ bh[child[i]["left"]] = bh[child[i]["right"]]
        /\ bh[i] = bh[child[i]["left"]]
                     + (IF color[i] = "black" THEN 1 ELSE 0)
        /\ bh[Nil] = 0
    BY DEF ColorsOK
  <2>2. \A s \in Side : height[child'[i][s]] = bh[child[i][s]]
    BY <1>2, <1>5, <1>6, <1>7, <1>8, <2>1
  <2> QED
    BY <1>5, <2>1, <2>2 DEF Side
<1>12. ASSUME NEW i \in Node', NEW s \in Side, color[i] = "red",
              child'[i][s] # Nil, color[child'[i][s]] = "red"
       PROVE  (pc = "fix" /\ i = parent /\ s = "right")'
  <2>1. i \in Node
    BY <1>2, <1>9, <1>12
  <2>2. i = currIdx /\ s = "right"
    <3> SUFFICES ASSUME ~(i = currIdx /\ s = "right") PROVE FALSE
      OBVIOUS
    <3>1. child'[i][s] = child[i][s]
      BY <1>2, <1>6, <2>1
    <3> QED
      BY <1>3, <1>12, <2>1, <3>1 DEF ColorsOK
  <2>3. Len(stack) # 1
    <3> SUFFICES ASSUME Len(stack) = 1 PROVE FALSE
      OBVIOUS
    <3>1. currIdx = rootIdx /\ rootIdx # Nil
      BY <1>2 DEF PathOK, Nil
    <3> QED
      BY <1>12, <2>2, <3>1 DEF ColorsOK
  <2> QED
    BY <1>2, <1>3, <2>2, <2>3 DEF parent
<1>13. rootIdx # Nil => color[rootIdx] = "black"
  BY DEF ColorsOK
<1>14. ColorsOK(height)'
  BY <1>2, <1>3, <1>5, <1>9, <1>10, <1>11, <1>12, <1>13 DEF ColorsOK, Side
<1> QED
  BY <1>14

\* The new node is below one other.
LEMMA AttachOneParent ==
  ASSUME TreeTypeOK, KeysOK, NEW lo \in [Idx -> Idx], NEW hi \in [Idx -> Idx],
         Sorted(lo, hi), PathOK(hi), Attach, OneParent
  PROVE  OneParent'
<1>. USE ConstantsAssumption
<1>1. PICK n \in Idx : n = currIdx + 1
  BY AttachEffect
<1>2. /\ Node' = Node \cup {n} /\ currIdx \in Node /\ n # Nil /\ n \notin Node
      /\ child' = [child EXCEPT ![currIdx]["right"] = n] /\ Node \subseteq Idx
  <2>1. n > currIdx /\ currIdx \in Nat
    BY <1>1, AttachEffect
  <2>2. n \notin Node /\ n # Nil
    BY <2>1 DEF Node, Nil
  <2> QED
    BY <1>1, <2>2, AttachEffect, RootFacts
<1>3. /\ child'[currIdx]["right"] = n
      /\ \A i \in Idx, s \in Side :
           ~(i = currIdx /\ s = "right") => child'[i][s] = child[i][s]
  <2>1. child \in [Idx -> [Side -> Idx]] /\ currIdx \in Idx
    BY <1>2 DEF TreeTypeOK
  <2> QED
    BY ONLY <1>2, <2>1 DEF Side
<1>4. /\ \A i \in Node, s \in Side : child[i][s] \in Node \cup {Nil}
      /\ \A s \in Side : child[n][s] = Nil
  BY <1>2, ChildFacts DEF Sorted
<1> QED
  BY <1>2, <1>3, <1>4 DEF OneParent

\* All together.
LEMMA AttachIInv == ASSUME TreeIInv, Attach PROVE TreeIInv'
<1>1. PICK lo \in [Idx -> Idx], hi \in [Idx -> Idx] :
        Sorted(lo, hi) /\ PathOK(hi)
  BY DEF TreeIInv
<1>2. PICK bh \in [Idx -> Nat] : ColorsOK(bh)
  BY DEF TreeIInv
<1>3. TreeTypeOK /\ KeysOK /\ OneParent
  BY DEF TreeIInv
<1>4. PICK low \in [Idx -> Idx], high \in [Idx -> Idx] :
        /\ Sorted(low, high)'
        /\ \A i \in Node : hi[i] = currIdx => high[i] = currIdx + 1
  BY <1>1, <1>3, AttachSorted
<1>5. PathOK(high)'
  BY <1>1, <1>3, <1>4, AttachPath
<1>6. \E height \in [Idx -> Nat] : ColorsOK(height)'
  BY <1>1, <1>2, <1>3, AttachColors
<1>7. OneParent'
  BY <1>1, <1>3, AttachOneParent
<1> QED
  BY <1>4, <1>5, <1>6, <1>7, AttachKeys DEF TreeIInv

-----------------------------------------------------------------------------
(* insertFix.                                                              *)

\* A node is to the right of what is above it on its left.
LEMMA BelowFacts ==
  ASSUME TreeTypeOK, NEW lo \in [Idx -> Idx], NEW hi \in [Idx -> Idx],
         Sorted(lo, hi), NEW i \in Node
  PROVE  /\ child[i]["right"] # Nil =>
              /\ child[i]["right"] \in Node /\ child[i]["right"] > i
              /\ lo[child[i]["right"]] = i + 1
              /\ hi[child[i]["right"]] = hi[i]
         /\ child[i]["left"] # Nil =>
              /\ child[i]["left"] \in Node /\ child[i]["left"] < i
              /\ child[i]["left"] >= lo[i]
              /\ lo[child[i]["left"]] = lo[i]
              /\ hi[child[i]["left"]] = i - 1
         /\ lo[i] \in Nat /\ hi[i] \in Nat /\ lo[i] <= i /\ i <= hi[i]
<1>1. /\ Spans(child[i]["left"], lo[i], i - 1, lo, hi)
      /\ Spans(child[i]["right"], i + 1, hi[i], lo, hi)
      /\ \A j \in Node : lo[j] \in 1..j /\ hi[j] \in j..currIdx
  BY DEF Sorted
<1>2. \A j \in Node : j \in Nat /\ j <= currIdx
  BY ChildFacts
<1>3. \A j \in Node : /\ lo[j] \in Nat /\ hi[j] \in Nat
                      /\ lo[j] <= j /\ j <= hi[j]
  BY <1>1, <1>2
<1>4. ASSUME child[i]["right"] # Nil
      PROVE  /\ child[i]["right"] \in Node /\ child[i]["right"] > i
             /\ lo[child[i]["right"]] = i + 1
             /\ hi[child[i]["right"]] = hi[i]
  <2>1. /\ child[i]["right"] \in Node /\ lo[child[i]["right"]] = i + 1
        /\ hi[child[i]["right"]] = hi[i]
    BY <1>1, <1>4 DEF Spans
  <2>2. PICK c \in Node : c = child[i]["right"] /\ lo[c] = i + 1
    BY <2>1
  <2>3. c > i
    <3>1. lo[c] \in Nat /\ lo[c] <= c /\ c \in Nat /\ i \in Nat
      BY <1>2, <1>3
    <3> QED
      BY <2>2, <3>1
  <2> QED
    BY <2>1, <2>2, <2>3
<1>5. ASSUME child[i]["left"] # Nil
      PROVE  /\ child[i]["left"] \in Node /\ child[i]["left"] < i
             /\ child[i]["left"] >= lo[i]
             /\ lo[child[i]["left"]] = lo[i]
             /\ hi[child[i]["left"]] = i - 1
  <2>1. /\ child[i]["left"] \in Node /\ lo[child[i]["left"]] = lo[i]
        /\ hi[child[i]["left"]] = i - 1
    BY <1>1, <1>5 DEF Spans
  <2>2. PICK c \in Node : c = child[i]["left"] /\ lo[c] = lo[i]
                           /\ hi[c] = i - 1
    BY <2>1
  <2>3. c < i /\ c >= lo[i]
    <3>1. lo[c] <= c /\ c <= hi[c] /\ c \in Nat /\ i \in Nat /\ lo[i] \in Nat
      BY <1>2, <1>3
    <3> QED
      BY <2>2, <3>1
  <2> QED
    BY <2>1, <2>2, <2>3
<1>6. lo[i] \in Nat /\ hi[i] \in Nat /\ lo[i] <= i /\ i <= hi[i]
  BY <1>3
<1> QED
  BY <1>4, <1>5, <1>6

\* Where the elements are that insertFix looks at when the parent is red: it is
\* to the right of a black grandparent, which is the root or to the right of
\* another.
FixPlace(lo, hi) ==
  /\ top \in Nat \ {0} /\ top + 1 <= Len(stack)
  /\ parent \in Node /\ grandParent \in Node /\ idxBk \in Node
  /\ grandParent < parent /\ parent < idxBk
  /\ parent = child[grandParent]["right"] /\ idxBk = child[parent]["right"]
  /\ child[grandParent]["left"] < grandParent
  /\ child[parent]["left"] = Nil
       \/ child[parent]["left"] \in (grandParent + 1)..(parent - 1)
  /\ hi[parent] = currIdx /\ hi[grandParent] = currIdx
  /\ lo[parent] = grandParent + 1
  /\ side = "right" /\ uncle = child[grandParent]["left"]
  /\ uncle \in Node \cup {Nil}
  /\ color[grandParent] = "black"
  /\ top = 1 => grandParent = rootIdx
  /\ top # 1 => /\ stack[top - 1] \in Node
                /\ child[stack[top - 1]]["right"] = grandParent
                /\ stack[top - 1] < grandParent
                /\ rootIdx \notin {grandParent, parent, idxBk}

\* FixPlace holds whenever insertFix has more to repair.
LEMMA FixFacts ==
  ASSUME TreeTypeOK, NEW lo \in [Idx -> Idx], NEW hi \in [Idx -> Idx],
         Sorted(lo, hi), PathOK(hi),
         NEW bh \in [Idx -> Nat], ColorsOK(bh),
         pc = "fix", color[parent] = "red"
  PROVE  FixPlace(lo, hi)
<1>. USE ConstantsAssumption
<1>1. /\ stack \in Seq(Node) /\ Len(stack) \in Nat /\ top + 1 <= Len(stack)
      /\ idxBk = child[parent]["right"] /\ idxBk # Nil /\ top \in Nat
      /\ Node \subseteq Nat \ {0}
  <2>1. Node \subseteq Nat \ {0}
    BY RootFacts
  <2>2. stack \in Seq(Node) /\ top \in Nat
    BY DEF PathOK, TreeTypeOK
  <2> QED
    BY <2>1, <2>2 DEF PathOK
<1>2. parent \in Node /\ hi[parent] = currIdx
  BY <1>1 DEF PathOK, parent
<1>3. rootIdx \in Node /\ color[rootIdx] = "black" /\ lo[rootIdx] = 1
  BY <1>2, RootFacts DEF ColorsOK, Sorted, Spans, Node, Nil
<1>4. top # 0
  <2> SUFFICES ASSUME top = 0 PROVE FALSE
    OBVIOUS
  <2>1. parent = rootIdx
    BY <1>1 DEF PathOK, parent
  <2> QED
    BY <1>3, <2>1
<1>5. /\ grandParent \in Node /\ hi[grandParent] = currIdx
      /\ parent = child[grandParent]["right"]
  <2>1. top \in 1..(Len(stack) - 1)
    BY <1>1, <1>4
  <2> QED
    BY <1>1, <2>1 DEF PathOK, parent, grandParent
<1>6. /\ grandParent < parent /\ lo[parent] = grandParent + 1
      /\ child[grandParent]["left"] < grandParent
      /\ child[grandParent]["left"] \in Node \cup {Nil}
  <2>1. parent # Nil /\ 0 < grandParent
    BY <1>1, <1>2, <1>5 DEF Nil
  <2>2. /\ grandParent < parent /\ lo[parent] = grandParent + 1
    BY <1>5, <2>1, BelowFacts
  <2>3. child[grandParent]["left"] # Nil =>
          /\ child[grandParent]["left"] < grandParent
          /\ child[grandParent]["left"] \in Node
    BY <1>5, BelowFacts
  <2> QED
    BY <2>1, <2>2, <2>3 DEF Nil
<1>7. idxBk \in Node /\ parent < idxBk /\ lo[idxBk] = parent + 1
  <2>1. PICK i \in Node : i = parent /\ idxBk = child[i]["right"]
    BY <1>1, <1>2
  <2>2. child[i]["right"] # Nil
    BY <1>1, <2>1
  <2>3. /\ child[i]["right"] \in Node /\ child[i]["right"] > i
        /\ lo[child[i]["right"]] = i + 1
    BY <2>2, BelowFacts
  <2> QED
    BY <2>1, <2>3
<1>8. child[parent]["left"] = Nil
        \/ child[parent]["left"] \in (grandParent + 1)..(parent - 1)
  <2>1. child[parent]["left"] # Nil =>
          /\ child[parent]["left"] \in Node /\ child[parent]["left"] < parent
          /\ child[parent]["left"] >= lo[parent]
    BY <1>2, BelowFacts
  <2>2. /\ parent \in Nat /\ grandParent \in Nat
        /\ \A c \in Node : c \in Nat
    BY <1>1, <1>2, <1>5
  <2> QED
    BY <1>6, <2>1, <2>2
<1>9. side = "right" /\ uncle = child[grandParent]["left"]
  <2>1. parent # child[grandParent]["left"]
    BY <1>1, <1>2, <1>5, <1>6 DEF Nil
  <2> QED
    BY <2>1 DEF side, uncle, Opposite
<1>10. color[grandParent] = "black"
  <2>1. grandParent # parent
    BY <1>1, <1>2, <1>5, <1>6
  <2>2. color[grandParent] \in {"red", "black"} /\ parent # Nil
    BY <1>1, <1>2, <1>5, RootFacts DEF TreeTypeOK, Nil
  <2> QED
    BY <1>5, <2>1, <2>2 DEF ColorsOK, Side
<1>11. top = 1 => grandParent = rootIdx
  BY <1>1 DEF PathOK, grandParent
<1>12. ASSUME top # 1
       PROVE  /\ stack[top - 1] \in Node
              /\ child[stack[top - 1]]["right"] = grandParent
              /\ stack[top - 1] < grandParent
              /\ rootIdx \notin {grandParent, parent, idxBk}
  <2>1. PICK m \in 1..(Len(stack) - 1) : m = top - 1 /\ m + 1 = top
    BY <1>1, <1>4, <1>12
  <2>2. PICK g \in Node : /\ g = stack[top - 1]
                          /\ child[g]["right"] = grandParent
    <3>1. stack[m] \in Node /\ stack[m + 1] = child[stack[m]]["right"]
      BY <1>1, <2>1 DEF PathOK
    <3> QED
      BY <2>1, <3>1 DEF grandParent
  <2>3. grandParent > g /\ lo[grandParent] = g + 1
    <3>1. grandParent # Nil
      BY <1>1, <1>5 DEF Nil
    <3>2. child[g]["right"] # Nil
      BY ONLY <2>2, <3>1
    <3>3. /\ child[g]["right"] > g /\ lo[child[g]["right"]] = g + 1
      BY <3>2, BelowFacts
    <3> QED
      BY <2>2, <3>3
  <2>4. rootIdx \notin {grandParent, parent, idxBk}
    <3>1. g > 0 /\ g \in Nat /\ parent > 0 /\ parent \in Nat
          /\ grandParent \in Nat /\ grandParent > 0
      BY <1>1, <1>2, <1>5
    <3>3. lo[rootIdx] = 1 /\ lo[grandParent] = g + 1 /\ lo[idxBk] = parent + 1
          /\ lo[parent] = grandParent + 1
      BY <1>3, <1>6, <1>7, <2>3
    <3>4. g + 1 # 1 /\ grandParent + 1 # 1 /\ parent + 1 # 1
      BY ONLY <3>1
    <3> QED
      BY ONLY <3>3, <3>4
  <2> QED
    BY <2>2, <2>3, <2>4
<1> QED
  BY <1>1, <1>2, <1>4, <1>5, <1>6, <1>7, <1>8, <1>9, <1>10, <1>11, <1>12
     DEF FixPlace

\* When insert returns from insertFix, its key is accepted.
LEMMA FinishKeys ==
  ASSUME TreeTypeOK, KeysOK, NEW hi \in [Idx -> Idx], PathOK(hi), pc = "fix",
         Accept, UNCHANGED <<key, currIdx>>
  PROVE  /\ KeysOK' /\ PathOK(hi)' /\ size' \in Idx /\ accepted' \subseteq Key
         /\ pc' = "idle" /\ newKey' = 0 /\ p' = 0 /\ stack' = <<>>
         /\ idxBk' = 0 /\ top' = 0
<1>. USE ConstantsAssumption
<1>1. /\ pc' = "idle" /\ newKey' = 0 /\ p' = 0 /\ stack' = <<>> /\ idxBk' = 0
      /\ top' = 0 /\ size' = size + 1 /\ accepted' = accepted \cup {newKey}
  BY DEF Accept, Return, Nil
<1>2. currIdx = size + 1 /\ key[currIdx] = newKey /\ size \in Nat
      /\ currIdx \in Idx
  BY DEF KeysOK, PathOK, TreeTypeOK, Idx
<1>3. 1..(size + 1) = 1..size \cup {currIdx} /\ Node' = Node
      /\ currIdx \in Node
  BY <1>2 DEF Node
<1>4. accepted' = {key'[i] : i \in 1..size'}
  <2>1. accepted = {key[i] : i \in 1..size}
    BY DEF KeysOK
  <2> QED
    BY <1>1, <1>2, <1>3, <2>1
<1>5. KeysOK'
  <2>1. /\ \A i \in Node' : key'[i] \in Key
        /\ \A i, j \in Node' : i < j => key'[i] < key'[j]
    BY <1>3 DEF KeysOK
  <2> QED
    BY <1>1, <1>2, <1>4, <2>1 DEF KeysOK
<1>6. accepted' \subseteq Key
  <2>1. newKey \in Key
    BY <1>2, <1>3 DEF KeysOK
  <2> QED
    BY <1>1, <2>1 DEF TreeTypeOK
<1>7. PathOK(hi)'
  BY <1>1 DEF PathOK
<1> QED
  BY <1>1, <1>2, <1>5, <1>6, <1>7

\* A black parent: there is nothing to repair.
LEMMA FixDoneIInv == ASSUME TreeIInv, FixDone PROVE TreeIInv'
<1>. USE ConstantsAssumption
<1>1. PICK lo \in [Idx -> Idx], hi \in [Idx -> Idx] :
        Sorted(lo, hi) /\ PathOK(hi)
  BY DEF TreeIInv
<1>2. PICK bh \in [Idx -> Nat] : ColorsOK(bh)
  BY DEF TreeIInv
<1>3. TreeTypeOK /\ KeysOK /\ OneParent
  BY DEF TreeIInv
<1>4. /\ pc = "fix" /\ color[parent] = "black" /\ Accept
      /\ color' = [color EXCEPT ![rootIdx] = "black"]
      /\ UNCHANGED <<key, child, rootIdx, currIdx>>
  BY DEF FixDone, Finish
<1>5. KeysOK' /\ PathOK(hi)' /\ size' \in Idx /\ accepted' \subseteq Key
      /\ pc' = "idle" /\ newKey' = 0 /\ p' = 0 /\ stack' = <<>>
      /\ idxBk' = 0 /\ top' = 0
  BY <1>1, <1>3, <1>4, FinishKeys
<1>6. rootIdx \in Node /\ color[rootIdx] = "black"
  <2>1. currIdx > 0
    <3>1. currIdx = size + 1
      BY <1>3, <1>4 DEF KeysOK
    <3>2. size \in Nat
      BY <1>3 DEF TreeTypeOK, Idx
    <3> QED
      BY ONLY <3>1, <3>2
  <2>2. rootIdx \in Node
    BY <1>1, <1>3, <2>1, RootFacts
  <2> QED
    BY <1>2, <2>2 DEF ColorsOK, Node, Nil
<1>7. color' = color
  BY <1>3, <1>4, <1>6 DEF TreeTypeOK
<1>8. TreeTypeOK'
  <2>1. 0 \in Idx /\ 0 \in 0..(Capacity - 1) /\ <<>> \in Seq(Idx)
    BY DEF Idx
  <2> QED
    BY <1>3, <1>4, <1>5, <1>7, <2>1 DEF TreeTypeOK
<1>9. Sorted(lo, hi)' /\ OneParent'
  BY <1>1, <1>3, <1>4 DEF Sorted, Spans, OneParent, Node
<1>10. ColorsOK(bh)'
  BY <1>2, <1>4, <1>7 DEF ColorsOK, Node
<1> QED
  BY <1>5, <1>8, <1>9, <1>10 DEF TreeIInv

\* Recolouring a black element with two red ones below it moves the black one
\* up: no path has more of them than before.
LEMMA FlipColors ==
  ASSUME TreeTypeOK, OneParent, NEW lo \in [Idx -> Idx],
         NEW hi \in [Idx -> Idx], Sorted(lo, hi), PathOK(hi),
         NEW bh \in [Idx -> Nat], ColorsOK(bh),
         FixFlip
  PROVE  \E height \in [Idx -> Nat] : ColorsOK(height)'
<1>. USE ConstantsAssumption
<1>1. /\ pc = "fix" /\ color[parent] = "red" /\ uncle # Nil
      /\ color[uncle] = "red" /\ UNCHANGED <<key, child, rootIdx, currIdx>>
      /\ Node' = Node
  BY DEF FixFlip, Node
<1>2. FixPlace(lo, hi)
  BY <1>1, FixFacts
<1>3. PICK g \in Node, q \in Node, u \in Node :
        /\ g = grandParent /\ q = parent /\ u = uncle
        /\ u < g /\ g < q /\ child[g]["left"] = u /\ child[g]["right"] = q
  BY <1>1, <1>2 DEF FixPlace
<1>4. /\ Node \subseteq Idx /\ Node \subseteq Nat \ {0}
      /\ rootIdx \in Node /\ color[rootIdx] = "black" /\ color[g] = "black"
      /\ color \in [Idx -> {"red", "black"}]
  <2>1. /\ Node \subseteq Idx /\ Node \subseteq Nat \ {0} /\ currIdx \in Nat
        /\ currIdx > 0 => rootIdx \in Node
    BY RootFacts
  <2>2. currIdx > 0
    BY <1>3, <2>1 DEF Node
  <2>3. color[rootIdx] = "black"
    BY <2>1, <2>2 DEF ColorsOK, Nil
  <2> QED
    BY <1>2, <1>3, <2>1, <2>2, <2>3 DEF FixPlace, TreeTypeOK
<1>5. u # g /\ u # q /\ g # q /\ Nil \notin Node
  BY <1>3, <1>4 DEF Nil
\* The grandparent stays black if it is the root.
<1>6. /\ color' \in [Idx -> {"red", "black"}]
      /\ color'[u] = "black" /\ color'[q] = "black"
      /\ \A i \in Idx : i \notin {u, g, q} => color'[i] = color[i]
      /\ color'[rootIdx] = "black"
      /\ \/ g = rootIdx /\ color'[g] = "black"
         \/ /\ color'[g] = "red" /\ top # 1 /\ pc' = "fix"
            /\ top' = top - 2 /\ stack' = stack /\ g # rootIdx
  <2>1. Flipped = [color EXCEPT ![u] = "black", ![q] = "black", ![g] = "red"]
    BY <1>3 DEF Flipped
  <2>2. CASE top < 2
    <3>1. g = rootIdx
      BY <1>2, <1>3, <2>2 DEF FixPlace
    <3>2. color' = [Flipped EXCEPT ![g] = "black"]
      BY <2>2, <3>1 DEF FixFlip, Finish
    <3> QED
      BY <1>4, <1>5, <2>1, <3>1, <3>2
  <2>3. CASE ~(top < 2)
    <3>1. g # rootIdx /\ q # rootIdx /\ top # 1
      BY <1>2, <1>3, <2>3 DEF FixPlace
    <3>2. color' = Flipped /\ pc' = "fix" /\ top' = top - 2 /\ stack' = stack
      BY <2>3 DEF FixFlip
    <3> QED
      BY <1>4, <1>5, <2>1, <3>1, <3>2
  <2> QED
    BY <2>2, <2>3
<1>7. PICK height \in [Idx -> Nat] :
        height = [i \in Idx |->
                    IF i \in {u, q} \/ (i = g /\ g = rootIdx) THEN bh[i] + 1
                                                              ELSE bh[i]]
  <2> DEFINE h == [i \in Idx |->
                     IF i \in {u, q} \/ (i = g /\ g = rootIdx) THEN bh[i] + 1
                                                               ELSE bh[i]]
  <2>1. h \in [Idx -> Nat]
    OBVIOUS
  <2> QED
    BY <2>1
<1>8. /\ height[u] = bh[u] + 1 /\ height[q] = bh[q] + 1
      /\ height[g] = bh[g] + (IF g = rootIdx THEN 1 ELSE 0)
      /\ \A i \in Idx : i \notin {u, g, q} => height[i] = bh[i]
      /\ height[Nil] = 0
  <2>1. bh[Nil] = 0 /\ Nil \in Idx
    BY DEF ColorsOK, Nil, Idx
  <2> QED
    BY <1>4, <1>5, <1>7, <2>1
<1>9. \A i \in Node, s \in Side : child[i][s] \in Node \cup {Nil}
  BY ChildFacts
\* Nobody else has them below.
<1>10. ASSUME NEW i \in Node, NEW s \in Side, child[i][s] \in {u, q}
       PROVE  i = g
  BY <1>3, <1>5, <1>10 DEF OneParent, Side
<1>11. ASSUME NEW i \in Node, NEW s \in Side, child[i][s] = g
       PROVE  g # rootIdx /\ i = stack[top - 1] /\ s = "right"
  <2>1. g # rootIdx
    <3> SUFFICES ASSUME g = rootIdx PROVE FALSE
      OBVIOUS
    <3>1. lo[g] = 1 /\ hi[g] = currIdx
      BY <1>4 DEF Sorted, Spans, Nil
    <3>2. i \in Nat /\ 1 <= i /\ i <= currIdx /\ currIdx \in Nat /\ g # Nil
      BY <1>5, ChildFacts, RootFacts
    <3>3. CASE s = "right"
      BY <1>11, <3>1, <3>2, <3>3, BelowFacts
    <3>4. CASE s = "left"
      BY <1>11, <3>1, <3>2, <3>4, BelowFacts
    <3> QED
      BY <3>3, <3>4 DEF Side
  <2>2. stack[top - 1] \in Node /\ child[stack[top - 1]]["right"] = g
    BY <1>2, <1>3, <2>1 DEF FixPlace
  <2> QED
    BY <1>5, <1>11, <2>1, <2>2 DEF OneParent, Side
<1>12. ASSUME NEW i \in Node
       PROVE  /\ height[child[i]["left"]] = height[child[i]["right"]]
              /\ height[i] = height[child[i]["left"]]
                               + (IF color'[i] = "black" THEN 1 ELSE 0)
  <2>1. /\ bh[child[i]["left"]] = bh[child[i]["right"]]
        /\ bh[i] = bh[child[i]["left"]]
                     + (IF color[i] = "black" THEN 1 ELSE 0)
        /\ bh[i] \in Nat /\ bh[child[i]["left"]] \in Nat
        /\ child[i]["left"] \in Idx /\ child[i]["right"] \in Idx
    <3>1. child[i]["left"] \in Idx /\ child[i]["right"] \in Idx
      <4>1. Nil \in Idx
        BY DEF Nil, Idx
      <4> QED
        BY <1>4, <1>9, <4>1 DEF Side
    <3> QED
      BY <1>4, <3>1 DEF ColorsOK
  <2>2. CASE i = g
    BY <1>3, <1>4, <1>6, <1>8, <2>1, <2>2
  <2>3. CASE i # g
    <3>1. /\ child[i]["left"] \notin {u, g, q} \/ child[i]["left"] = g
          /\ child[i]["right"] \notin {u, g, q} \/ child[i]["right"] = g
      BY <1>10, <2>3 DEF Side
    <3>2. \A s \in Side : child[i][s] = g => height[g] = bh[g]
      BY <1>4, <1>8, <1>11
    <3>3. /\ height[child[i]["left"]] = bh[child[i]["left"]]
          /\ height[child[i]["right"]] = bh[child[i]["right"]]
      BY <1>8, <2>1, <3>1, <3>2 DEF Side
    <3>4. /\ height[i] = bh[i] + (IF i \in {u, q} THEN 1 ELSE 0)
          /\ i \in {u, q} => color[i] = "red" /\ color'[i] = "black"
      BY <1>1, <1>3, <1>4, <1>6, <1>8, <2>1, <2>3
    <3>5. i \notin {u, q} => color'[i] = color[i]
      BY <1>4, <1>6, <2>3
    <3> QED
      BY <2>1, <3>3, <3>4, <3>5
  <2> QED
    BY <2>2, <2>3
<1>13. ASSUME NEW i \in Node, NEW s \in Side, color'[i] = "red",
              child[i][s] # Nil, color'[child[i][s]] = "red"
       PROVE  pc' = "fix" /\ i = parent' /\ s = "right"
  <2>1. child[i][s] \in Node /\ i \notin {u, q}
    BY <1>6, <1>9, <1>13
  <2>2. i # g
    BY <1>3, <1>6, <1>13, <2>1 DEF Side
  <2>3. color[i] = "red"
    BY <1>4, <1>6, <1>13, <2>1, <2>2
  <2>4. child[i][s] = g
    <3> SUFFICES ASSUME child[i][s] # g PROVE FALSE
      OBVIOUS
    <3>1. color[child[i][s]] = "red"
      BY <1>4, <1>6, <1>13, <2>1
    <3>2. i = parent
      BY <1>13, <2>3, <3>1 DEF ColorsOK
    <3> QED
      BY <1>3, <2>1, <3>2
  <2>5. g # rootIdx /\ i = stack[top - 1] /\ s = "right"
    BY <1>11, <2>4
  <2>6. pc' = "fix" /\ top' = top - 2 /\ stack' = stack /\ top \in Nat
    BY <1>2, <1>6, <2>5 DEF FixPlace
  <2>7. parent' = stack[top - 1]
    <3>1. top' + 1 = top - 1
      BY <2>6
    <3> QED
      BY <2>6, <3>1 DEF parent
  <2> QED
    BY <2>5, <2>6, <2>7
<1>14. \A i \in Idx : i > currIdx => color'[i] = "red"
  <2>1. \A i \in Idx : i > currIdx => color[i] = "red" /\ i \notin {u, g, q}
    <3>1. \A i \in Node : i \in Nat /\ i <= currIdx
      BY ChildFacts
    <3>2. \A i \in Idx : i > currIdx => i \notin Node
      BY <1>4, <3>1 DEF Idx, TreeTypeOK
    <3> QED
      BY <3>2 DEF ColorsOK
  <2> QED
    BY <1>6, <2>1
<1>15. ColorsOK(height)'
  BY <1>1, <1>6, <1>8, <1>12, <1>13, <1>14 DEF ColorsOK
<1> QED
  BY <1>15

\* A red uncle: the repair goes on two levels up, or ends at the root.
LEMMA FixFlipIInv == ASSUME TreeIInv, FixFlip PROVE TreeIInv'
<1>. USE ConstantsAssumption
<1>1. PICK lo \in [Idx -> Idx], hi \in [Idx -> Idx] :
        Sorted(lo, hi) /\ PathOK(hi)
  BY DEF TreeIInv
<1>2. PICK bh \in [Idx -> Nat] : ColorsOK(bh)
  BY DEF TreeIInv
<1>3. TreeTypeOK /\ KeysOK /\ OneParent
  BY DEF TreeIInv
<1>4. /\ pc = "fix" /\ color[parent] = "red"
      /\ UNCHANGED <<key, child, rootIdx, currIdx>>
  BY DEF FixFlip
<1>5. FixPlace(lo, hi)
  BY <1>1, <1>2, <1>3, <1>4, FixFacts
<1>6. Sorted(lo, hi)' /\ OneParent' /\ Node' = Node
  BY <1>1, <1>3, <1>4 DEF Sorted, Spans, OneParent, Node
<1>7. \E height \in [Idx -> Nat] : ColorsOK(height)'
  BY <1>1, <1>2, <1>3, FlipColors
<1>8. color' \in [Idx -> {"red", "black"}]
  BY <1>3 DEF FixFlip, Finish, Flipped, TreeTypeOK
<1>9. CASE top < 2
  <2>1. Accept
    BY <1>9 DEF FixFlip, Finish
  <2>2. KeysOK' /\ PathOK(hi)' /\ size' \in Idx /\ accepted' \subseteq Key
        /\ pc' = "idle" /\ newKey' = 0 /\ p' = 0 /\ stack' = <<>>
        /\ idxBk' = 0 /\ top' = 0
    BY <1>1, <1>3, <1>4, <2>1, FinishKeys
  <2>3. TreeTypeOK'
    <3>1. 0 \in Idx /\ 0 \in 0..(Capacity - 1) /\ <<>> \in Seq(Idx)
      BY DEF Idx
    <3> QED
      BY <1>3, <1>4, <1>8, <2>2, <3>1 DEF TreeTypeOK
  <2> QED
    BY <1>6, <1>7, <2>2, <2>3 DEF TreeIInv
<1>10. CASE ~(top < 2)
  <2>1. /\ idxBk' = grandParent /\ top' = top - 2
        /\ UNCHANGED <<pc, newKey, p, stack, size, accepted>>
    BY <1>10 DEF FixFlip
  <2>2. /\ grandParent \in Node /\ top \in Nat /\ top + 1 <= Len(stack)
        /\ child[stack[top - 1]]["right"] = grandParent
        /\ Node \subseteq Idx /\ Nil \notin Node
    <3>1. Node \subseteq Idx /\ Nil \notin Node
      BY <1>1, <1>3, RootFacts DEF Nil
    <3>2. top # 1
      BY <1>10
    <3> QED
      BY <1>5, <3>1, <3>2 DEF FixPlace
  <2>3. top' \in 0..(Capacity - 1) /\ top' + 1 <= Len(stack)
        /\ top' + 1 = top - 1
    <3>1. top \in 0..(Capacity - 1) /\ Len(stack) \in Nat
      BY <1>3 DEF TreeTypeOK
    <3> QED
      BY <1>10, <2>1, <2>2, <3>1
  <2>4. TreeTypeOK'
    BY <1>3, <1>4, <1>8, <2>1, <2>2, <2>3 DEF TreeTypeOK
  <2>5. KeysOK'
    BY <1>3, <1>4, <1>6, <2>1 DEF KeysOK
  <2>6. parent' = stack[top - 1]
    BY <2>1, <2>3 DEF parent
  <2>7. PathOK(hi)'
    BY <1>1, <1>4, <1>6, <2>1, <2>2, <2>3, <2>6 DEF PathOK
  <2> QED
    BY <1>6, <1>7, <2>4, <2>5, <2>7 DEF TreeIInv
<1> QED
  BY <1>9, <1>10

\* The rotation: the parent comes up, the grandparent goes down on its left and
\* takes over what the parent had there.
Rotated(g, q, u) ==
  /\ g \in Node /\ q \in Node /\ g # q
  /\ g = grandParent /\ q = parent /\ u = child[g]["left"]
  /\ child'[g]["right"] = child[q]["left"] /\ child'[q]["left"] = g
  /\ child'[g]["left"] = u /\ child'[q]["right"] = child[q]["right"]
  /\ \A i \in Idx \ {g, q}, s \in Side :
       child'[i][s] = IF child[i][s] = g THEN q ELSE child[i][s]
  /\ child' \in [Idx -> [Side -> Idx]]
  /\ rootIdx' = IF rootIdx = g THEN q ELSE rootIdx
  /\ color' \in [Idx -> {"red", "black"}]
  /\ color'[g] = "red" /\ color'[q] = "black"
  /\ \A i \in Idx \ {g, q} : color'[i] = color[i]
  /\ Node' = Node /\ UNCHANGED <<key, currIdx>> /\ Accept

\* FixRotate does exactly this.
LEMMA RotateEffect ==
  ASSUME TreeTypeOK, OneParent, NEW lo \in [Idx -> Idx],
         NEW hi \in [Idx -> Idx], Sorted(lo, hi), PathOK(hi),
         NEW bh \in [Idx -> Nat], ColorsOK(bh), FixRotate
  PROVE  /\ FixPlace(lo, hi) /\ pc = "fix" /\ color[parent] = "red"
         /\ uncle = Nil \/ color[uncle] = "black"
         /\ Rotated(grandParent, parent, uncle)
<1>. USE ConstantsAssumption
<1>1. /\ pc = "fix" /\ color[parent] = "red" /\ UNCHANGED <<key, currIdx>>
      /\ uncle = Nil \/ color[uncle] = "black"
      /\ Node' = Node
  BY DEF FixRotate, Node
<1>2. FixPlace(lo, hi)
  BY <1>1, FixFacts
<1>3. PICK g \in Node, q \in Node :
        /\ g = grandParent /\ q = parent /\ g < q
        /\ child[g]["right"] = q /\ side = "right"
        /\ uncle = child[g]["left"] /\ uncle < g
  BY <1>1, <1>2 DEF FixPlace
<1>4. /\ Node \subseteq Idx /\ Node \subseteq Nat \ {0}
      /\ rootIdx \in Node /\ color[rootIdx] = "black" /\ color[g] = "black"
      /\ color \in [Idx -> {"red", "black"}]
      /\ child \in [Idx -> [Side -> Idx]]
  <2>1. /\ Node \subseteq Idx /\ Node \subseteq Nat \ {0} /\ currIdx \in Nat
        /\ currIdx > 0 => rootIdx \in Node
    BY RootFacts
  <2>2. currIdx > 0
    BY <1>3, <2>1 DEF Node
  <2>3. color[rootIdx] = "black"
    BY <2>1, <2>2 DEF ColorsOK, Nil
  <2> QED
    BY <1>2, <1>3, <2>1, <2>2, <2>3 DEF FixPlace, TreeTypeOK
<1>5. g # q /\ Nil \notin Node
  BY <1>3, <1>4 DEF Nil
<1>6. Straightened("right") = child
  <2>1. idxBk # child[q]["left"]
    <3>1. /\ idxBk \in Node /\ q < idxBk
          /\ child[q]["left"] = Nil
               \/ child[q]["left"] \in (g + 1)..(q - 1)
      BY <1>2, <1>3 DEF FixPlace
    <3>2. q \in Nat /\ g \in Nat /\ idxBk \in Nat
      BY <1>3, <1>4, <3>1
    <3> QED
      BY <1>5, <3>1, <3>2
  <2> QED
    BY <1>3, <2>1 DEF Straightened, Opposite
<1>7. PICK rotated : rotated =
        [child EXCEPT ![g]["right"] = child[q]["left"], ![q]["left"] = g]
  OBVIOUS
<1>8. /\ rotated \in [Idx -> [Side -> Idx]]
      /\ rotated[g]["right"] = child[q]["left"] /\ rotated[q]["left"] = g
      /\ rotated[g]["left"] = child[g]["left"]
      /\ rotated[q]["right"] = child[q]["right"]
      /\ \A i \in Idx \ {g, q} : rotated[i] = child[i]
  BY <1>3, <1>4, <1>5, <1>7 DEF Side
<1>9. /\ rootIdx' = IF top = 1 THEN q ELSE rootIdx
      /\ child' = IF top = 1 THEN rotated
                  ELSE [rotated EXCEPT ![stack[top - 1]]["right"] = q]
      /\ color' = [[color EXCEPT ![g] = "red", ![q] = "black"]
                     EXCEPT ![rootIdx'] = "black"]
      /\ Accept
  BY <1>3, <1>6, <1>7 DEF FixRotate, Finish, Opposite
<1>10. CASE top = 1
  <2>1. g = rootIdx /\ rootIdx' = q /\ child' = rotated
    BY <1>2, <1>3, <1>9, <1>10 DEF FixPlace
  <2>2. /\ color' \in [Idx -> {"red", "black"}]
        /\ color'[g] = "red" /\ color'[q] = "black"
        /\ \A i \in Idx \ {g, q} : color'[i] = color[i]
    BY <1>3, <1>4, <1>5, <1>9, <2>1
  \* Nobody has the root below.
  <2>3. ASSUME NEW i \in Idx \ {g, q}, NEW s \in Side PROVE child[i][s] # g
    <3>1. lo[g] = 1 /\ hi[g] = currIdx
      BY <1>4, <2>1 DEF Sorted, Spans, Nil
    <3>2. CASE i \in Node
      <4>1. i \in Nat /\ 1 <= i /\ i <= currIdx /\ currIdx \in Nat /\ g # Nil
        BY <1>3, <1>5, <3>2, ChildFacts, RootFacts
      <4>2. CASE s = "right"
        BY <3>1, <3>2, <4>1, <4>2, BelowFacts
      <4>3. CASE s = "left"
        BY <3>1, <3>2, <4>1, <4>3, BelowFacts
      <4> QED
        BY <4>2, <4>3 DEF Side
    <3>3. CASE i \notin Node
      BY <1>3, <1>5, <3>3 DEF Sorted
    <3> QED
      BY <3>2, <3>3
  <2>4. \A i \in Idx \ {g, q}, s \in Side :
          child'[i][s] = IF child[i][s] = g THEN q ELSE child[i][s]
    BY <1>8, <2>1, <2>3
  <2>5. /\ child' \in [Idx -> [Side -> Idx]]
        /\ child'[g]["right"] = child[q]["left"] /\ child'[q]["left"] = g
        /\ child'[g]["left"] = child[g]["left"]
        /\ child'[q]["right"] = child[q]["right"]
    BY <1>8, <2>1
  <2>6. Rotated(g, q, uncle)
    BY <1>1, <1>3, <1>5, <1>9, <2>1, <2>2, <2>4, <2>5 DEF Rotated
  <2> QED
    BY <1>1, <1>2, <1>3, <2>6
<1>11. CASE top # 1
  <2>1. PICK gg \in Node : /\ gg = stack[top - 1] /\ gg < g
                           /\ child[gg]["right"] = g
                           /\ g # rootIdx /\ q # rootIdx
    BY <1>2, <1>3, <1>11 DEF FixPlace
  <2>2. gg # g /\ gg # q
    BY <1>3, <1>4, <2>1
  <2>3. /\ rootIdx' = rootIdx
        /\ child' = [rotated EXCEPT ![gg]["right"] = q]
    BY <1>9, <1>11, <2>1
  <2>4. /\ color' \in [Idx -> {"red", "black"}]
        /\ color'[g] = "red" /\ color'[q] = "black"
        /\ \A i \in Idx \ {g, q} : color'[i] = color[i]
    BY <1>3, <1>4, <1>5, <1>9, <2>1, <2>3
  <2>5. /\ child' \in [Idx -> [Side -> Idx]]
        /\ child'[gg]["right"] = q
        /\ \A i \in Idx, s \in Side :
             ~(i = gg /\ s = "right") => child'[i][s] = rotated[i][s]
    BY <1>3, <1>4, <1>8, <2>1, <2>3 DEF Side
  <2>6. ASSUME NEW i \in Idx \ {g, q}, NEW s \in Side
        PROVE  child'[i][s] = IF child[i][s] = g THEN q ELSE child[i][s]
    <3>1. CASE i = gg /\ s = "right"
      BY <2>1, <2>5, <3>1
    <3>2. CASE ~(i = gg /\ s = "right")
      <4>1. child'[i][s] = child[i][s]
        <5>1. rotated[i] = child[i]
          BY <1>8
        <5>2. child'[i][s] = rotated[i][s]
          BY <2>5, <3>2
        <5> QED
          BY ONLY <5>1, <5>2
      <4>2. child[i][s] # g
        <5>1. CASE i \in Node
          BY <1>3, <1>5, <2>1, <3>2, <5>1 DEF OneParent, Side
        <5>2. CASE i \notin Node
          BY <1>3, <1>5, <5>2 DEF Sorted
        <5> QED
          BY <5>1, <5>2
      <4> QED
        BY <4>1, <4>2
    <3> QED
      BY <3>1, <3>2
  <2>7. /\ child'[g]["right"] = child[q]["left"] /\ child'[q]["left"] = g
        /\ child'[g]["left"] = child[g]["left"]
        /\ child'[q]["right"] = child[q]["right"]
    BY <1>3, <1>4, <1>8, <2>2, <2>5 DEF Side
  <2>8. Rotated(g, q, uncle)
    BY <1>1, <1>3, <1>5, <1>9, <2>1, <2>3, <2>4, <2>5, <2>6, <2>7 DEF Rotated
  <2> QED
    BY <1>1, <1>2, <1>3, <2>8
<1> QED
  BY <1>10, <1>11

\* What is below the grandparent and the parent, for the three lemmas on it.
LEMMA AroundRotation ==
  ASSUME TreeTypeOK, OneParent, NEW lo \in [Idx -> Idx],
         NEW hi \in [Idx -> Idx], Sorted(lo, hi), FixPlace(lo, hi),
         NEW g, NEW q, NEW u,
         Rotated(g, q, u)
  PROVE  /\ g \in Node /\ q \in Node /\ g < q /\ Node \subseteq Idx
         /\ Nil \notin Node /\ g # q
         /\ child[g]["right"] = q /\ u \notin {g, q} /\ u \in Node \cup {Nil}
         /\ child[g]["left"] = u /\ child'[g]["left"] = u
         /\ child[q]["left"] \notin {g, q} /\ child[q]["right"] \notin {g, q}
         /\ \A i \in Node, s \in Side : child[i][s] \in Node \cup {Nil}
         /\ \A i \in Node \ {g, q}, s \in Side : child[i][s] # q
         /\ \A i \in Node : i \in Nat /\ 1 <= i /\ i <= currIdx
<1>1. /\ g \in Node /\ q \in Node /\ g < q /\ child[g]["right"] = q
      /\ u = child[g]["left"] /\ u \in Node \cup {Nil} /\ u < g
      /\ child'[g]["left"] = u /\ g # q
      /\ child[q]["right"] \in Node /\ q < child[q]["right"]
      /\ child[q]["left"] = Nil
           \/ child[q]["left"] \in (g + 1)..(q - 1)
  BY DEF Rotated, FixPlace
<1>2. \A i \in Node : i \in Nat /\ 1 <= i /\ i <= currIdx
  BY ChildFacts
<1>3. Nil \notin Node /\ Node \subseteq Idx
  BY <1>2, RootFacts DEF Nil
<1>4. u \notin {g, q}
  BY <1>1, <1>2, <1>3 DEF Nil
<1>5. child[q]["left"] \notin {g, q} /\ child[q]["right"] \notin {g, q}
  BY <1>1, <1>2, <1>3 DEF Nil
<1>6. \A i \in Node, s \in Side : child[i][s] \in Node \cup {Nil}
  BY ChildFacts
<1>7. \A i \in Node \ {g, q}, s \in Side : child[i][s] # q
  BY <1>1, <1>3 DEF OneParent, Side
<1> QED
  BY <1>1, <1>2, <1>3, <1>4, <1>5, <1>6, <1>7

\* A rotation does not change the order of the elements.
LEMMA RotateSorted ==
  ASSUME TreeTypeOK, OneParent, NEW lo \in [Idx -> Idx],
         NEW hi \in [Idx -> Idx], Sorted(lo, hi), FixPlace(lo, hi),
         NEW g, NEW q, NEW u,
         Rotated(g, q, u)
  PROVE  \E low, high \in [Idx -> Idx] : Sorted(low, high)'
<1>. USE ConstantsAssumption
<1>1. /\ g \in Node /\ q \in Node /\ g < q /\ Node \subseteq Idx
      /\ Nil \notin Node /\ g # q
      /\ child[g]["right"] = q /\ u \notin {g, q} /\ u \in Node \cup {Nil}
      /\ child[g]["left"] = u /\ child'[g]["left"] = u
      /\ child[q]["left"] \notin {g, q} /\ child[q]["right"] \notin {g, q}
      /\ \A i \in Node, s \in Side : child[i][s] \in Node \cup {Nil}
      /\ \A i \in Node \ {g, q}, s \in Side : child[i][s] # q
      /\ \A i \in Node : i \in Nat /\ 1 <= i /\ i <= currIdx
  BY AroundRotation
<1>2. /\ child'[g]["right"] = child[q]["left"] /\ child'[q]["left"] = g
      /\ child'[q]["right"] = child[q]["right"]
      /\ \A i \in Idx \ {g, q}, s \in Side :
           child'[i][s] = IF child[i][s] = g THEN q ELSE child[i][s]
      /\ rootIdx' = IF rootIdx = g THEN q ELSE rootIdx
      /\ Node' = Node /\ currIdx' = currIdx
  BY DEF Rotated
<1>3. /\ lo[q] = g + 1 /\ hi[q] = currIdx /\ hi[g] = currIdx
      /\ g = rootIdx \/ rootIdx # q
  BY <1>1 DEF FixPlace, Rotated
<1>4. \A i \in Node : /\ lo[i] \in Nat /\ hi[i] \in Nat
                      /\ 1 <= lo[i] /\ lo[i] <= i
                      /\ i <= hi[i] /\ hi[i] <= currIdx
  BY <1>1 DEF Sorted
<1>5. PICK low \in [Idx -> Idx], high \in [Idx -> Idx] :
        low = [lo EXCEPT ![q] = lo[g]] /\ high = [hi EXCEPT ![g] = q - 1]
  <2>1. q - 1 \in Idx /\ lo[g] \in Idx
    BY <1>1 DEF Idx
  <2>2. /\ [lo EXCEPT ![q] = lo[g]] \in [Idx -> Idx]
        /\ [hi EXCEPT ![g] = q - 1] \in [Idx -> Idx]
    BY <2>1
  <2> QED
    BY <2>2
<1>6. /\ low[q] = lo[g] /\ \A i \in Node \ {q} : low[i] = lo[i]
      /\ high[g] = q - 1 /\ \A i \in Node \ {g} : high[i] = hi[i]
  BY <1>1, <1>5
<1>7. ASSUME NEW c, NEW from, NEW to, Spans(c, from, to, lo, hi),
             c \notin {g, q}
      PROVE  Spans(c, from, to, low, high)'
  BY <1>1, <1>2, <1>6, <1>7 DEF Spans
<1>8. Spans(q, lo[g], hi[g], low, high)'
  <2>1. ~(lo[g] > hi[g])
    BY <1>1, <1>4
  <2> QED
    BY <1>1, <1>2, <1>3, <1>6, <2>1 DEF Spans
<1>9. \A i \in Node : /\ Spans(child[i]["left"], lo[i], i - 1, lo, hi)
                      /\ Spans(child[i]["right"], i + 1, hi[i], lo, hi)
  BY DEF Sorted
<1>10. Spans(rootIdx, 1, currIdx, low, high)'
  <2>1. Spans(rootIdx, 1, currIdx, lo, hi)
    BY DEF Sorted
  <2>2. CASE rootIdx = g
    <3>1. lo[g] = 1 /\ hi[g] = currIdx
      BY <1>1, <2>1, <2>2 DEF Spans
    <3> QED
      BY <1>2, <1>8, <2>2, <3>1 DEF Spans
  <2>3. CASE rootIdx # g
    <3>1. PICK r : r = rootIdx /\ r = rootIdx' /\ r \notin {g, q}
      BY <1>2, <1>3, <2>3
    <3>2. PICK n : n = currIdx /\ n = currIdx'
      BY <1>2
    <3>3. Spans(r, 1, n, lo, hi)
      BY <2>1, <3>1, <3>2
    <3>4. Spans(r, 1, n, low, high)'
      BY <1>7, <3>1, <3>3
    <3> QED
      BY <3>1, <3>2, <3>4
  <2> QED
    BY <2>2, <2>3
<1>11. \A i \in Node' : low[i] \in 1..i /\ high[i] \in i..currIdx'
  BY <1>1, <1>2, <1>3, <1>4, <1>6
\* What is above neither of the two that change places.
<1>12. ASSUME NEW i \in Node, NEW s \in Side, i \notin {g, q},
              NEW from, NEW to, Spans(child[i][s], from, to, lo, hi)
       PROVE  Spans(child[i][s], from, to, low, high)'
  <2>1. CASE child[i][s] # g
    <3>1. PICK c : c = child[i][s] /\ c = child'[i][s] /\ c \notin {g, q}
      BY <1>1, <1>2, <1>12, <2>1
    <3>2. Spans(c, from, to, low, high)'
      BY <1>7, <1>12, <3>1
    <3> QED
      BY <3>1, <3>2
  <2>2. CASE child[i][s] = g
    <3>1. from = lo[g] /\ to = hi[g]
      BY <1>1, <1>12, <2>2 DEF Spans
    <3>2. child'[i][s] = q
      BY <1>1, <1>2, <1>12, <2>2
    <3> QED
      BY <1>8, <3>1, <3>2
  <2> QED
    BY <2>1, <2>2
<1>13. ASSUME NEW i \in Node, i \notin {g, q}
       PROVE  /\ Spans(child[i]["left"], low[i], i - 1, low, high)'
              /\ Spans(child[i]["right"], i + 1, high[i], low, high)'
  <2>1. low[i] = lo[i] /\ high[i] = hi[i]
    BY <1>6, <1>13
  <2>2. Spans(child[i]["left"], lo[i], i - 1, low, high)'
    BY <1>9, <1>12, <1>13 DEF Side
  <2>3. Spans(child[i]["right"], i + 1, hi[i], low, high)'
    BY <1>9, <1>12, <1>13 DEF Side
  <2> QED
    BY <2>1, <2>2, <2>3
<1>14. /\ Spans(child[g]["left"], low[g], g - 1, low, high)'
       /\ Spans(child[g]["right"], g + 1, high[g], low, high)'
  <2>1. PICK m : m = child[q]["left"] /\ m = child'[g]["right"]
                 /\ m \notin {g, q}
    BY <1>1, <1>2
  <2>2. Spans(m, g + 1, q - 1, low, high)'
    BY <1>1, <1>3, <1>7, <1>9, <2>1
  <2>3. Spans(u, lo[g], g - 1, low, high)'
    BY <1>1, <1>7, <1>9
  <2> QED
    BY <1>1, <1>6, <2>1, <2>2, <2>3
<1>15. /\ Spans(child[q]["left"], low[q], q - 1, low, high)'
       /\ Spans(child[q]["right"], q + 1, high[q], low, high)'
  <2>1. PICK m : m = child[q]["right"] /\ m = child'[q]["right"]
                 /\ m \notin {g, q}
    BY <1>1, <1>2
  <2>2. Spans(m, q + 1, hi[q], low, high)'
    BY <1>1, <1>7, <1>9, <2>1
  <2>3. Spans(g, lo[g], q - 1, low, high)'
    <3>1. ~(lo[g] > q - 1)
      BY <1>1, <1>4
    <3> QED
      BY <1>1, <1>2, <1>6, <3>1 DEF Spans
  <2> QED
    BY <1>1, <1>2, <1>6, <2>1, <2>2, <2>3
<1>16. \A i \in Idx \ Node, s \in Side : child'[i][s] = Nil
  <2>1. \A i \in Idx \ Node, s \in Side : child[i][s] = Nil
    BY DEF Sorted
  <2> QED
    BY <1>1, <1>2, <2>1
<1>17. ASSUME NEW i \in Node
       PROVE  /\ Spans(child[i]["left"], low[i], i - 1, low, high)'
              /\ Spans(child[i]["right"], i + 1, high[i], low, high)'
  <2>1. CASE i \notin {g, q}
    BY <1>13, <2>1
  <2>2. CASE i = g
    BY <1>14, <2>2
  <2>3. CASE i = q
    BY <1>15, <2>3
  <2> QED
    BY <2>1, <2>2, <2>3
<1>18. Sorted(low, high)'
  BY <1>2, <1>10, <1>11, <1>16, <1>17 DEF Sorted
<1> QED
  BY <1>18

\* ... and moves no element below two others.
LEMMA RotateOneParent ==
  ASSUME TreeTypeOK, OneParent, NEW lo \in [Idx -> Idx],
         NEW hi \in [Idx -> Idx], Sorted(lo, hi), FixPlace(lo, hi),
         NEW g, NEW q, NEW u,
         Rotated(g, q, u)
  PROVE  OneParent'
<1>1. /\ g \in Node /\ q \in Node /\ Node \subseteq Idx /\ Nil \notin Node
      /\ g # q
      /\ child[g]["right"] = q /\ u \notin {g, q}
      /\ child[g]["left"] = u /\ child'[g]["left"] = u
      /\ child[q]["left"] \notin {g, q} /\ child[q]["right"] \notin {g, q}
      /\ \A i \in Node \ {g, q}, s \in Side : child[i][s] # q
  BY AroundRotation
<1>2. /\ child'[g]["right"] = child[q]["left"] /\ child'[q]["left"] = g
      /\ child'[q]["right"] = child[q]["right"]
      /\ \A i \in Idx \ {g, q}, s \in Side :
           child'[i][s] = IF child[i][s] = g THEN q ELSE child[i][s]
      /\ Node' = Node
  BY DEF Rotated
\* Every link is an old one, moved; was says whose.
<1> DEFINE was(i, s) ==
      IF i = g /\ s = "right" THEN <<q, "left">>
      ELSE IF i = q /\ s = "left" THEN <<g, "right">> ELSE <<i, s>>
    moved(c) == IF c = g THEN q ELSE IF c = q THEN g ELSE c
<1>3. ASSUME NEW i \in Node, NEW s \in Side
      PROVE  /\ was(i, s)[1] \in Node /\ was(i, s)[2] \in Side
             /\ child'[i][s] = moved(child[was(i, s)[1]][was(i, s)[2]])
  <2>1. CASE i = g
    BY <1>1, <1>2, <2>1 DEF Side
  <2>2. CASE i = q
    BY <1>1, <1>2, <2>2 DEF Side
  <2>3. CASE i \notin {g, q}
    BY <1>1, <1>2, <2>3 DEF Side
  <2> QED
    BY <2>1, <2>2, <2>3
<1>4. ASSUME NEW i \in Node, NEW j \in Node, NEW s \in Side, NEW t \in Side,
             was(i, s) = was(j, t)
      PROVE  i = j /\ s = t
  BY <1>1, <1>4 DEF Side
<1>5. ASSUME NEW i \in Node, NEW j \in Node, NEW s \in Side, NEW t \in Side,
             child'[i][s] # Nil, child'[i][s] = child'[j][t]
      PROVE  i = j /\ s = t
  <2>1. /\ was(i, s)[1] \in Node /\ was(i, s)[2] \in Side
        /\ was(j, t)[1] \in Node /\ was(j, t)[2] \in Side
    BY <1>3
  <2> DEFINE c == child[was(i, s)[1]][was(i, s)[2]]
             d == child[was(j, t)[1]][was(j, t)[2]]
  <2>2. child'[i][s] = moved(c) /\ child'[j][t] = moved(d)
    BY <1>3
  <2>3. c = d /\ c # Nil
    BY <1>1, <1>5, <2>2
  <2>4. was(i, s)[1] = was(j, t)[1] /\ was(i, s)[2] = was(j, t)[2]
    BY <2>1, <2>3 DEF OneParent
  <2>5. was(i, s) = was(j, t)
    BY <2>4
  <2> QED
    BY <1>4, <2>5
<1> QED
  BY <1>2, <1>5 DEF OneParent

\* ... and no path gets more black elements, or fewer.
LEMMA RotateColors ==
  ASSUME TreeTypeOK, OneParent, NEW lo \in [Idx -> Idx],
         NEW hi \in [Idx -> Idx], Sorted(lo, hi), FixPlace(lo, hi),
         NEW g, NEW q, NEW u,
         Rotated(g, q, u), NEW bh \in [Idx -> Nat], ColorsOK(bh),
         color[q] = "red", u = Nil \/ color[u] = "black"
  PROVE  \E height \in [Idx -> Nat] : ColorsOK(height)'
<1>. USE ConstantsAssumption
<1>1. /\ g \in Node /\ q \in Node /\ Node \subseteq Idx /\ Nil \notin Node
      /\ g # q
      /\ child[g]["right"] = q /\ u \notin {g, q} /\ u \in Node \cup {Nil}
      /\ child[g]["left"] = u /\ child'[g]["left"] = u
      /\ child[q]["left"] \notin {g, q} /\ child[q]["right"] \notin {g, q}
      /\ \A i \in Node, s \in Side : child[i][s] \in Node \cup {Nil}
      /\ \A i \in Node \ {g, q}, s \in Side : child[i][s] # q
      /\ \A i \in Node : i \in Nat /\ 1 <= i /\ i <= currIdx
  BY AroundRotation
<1>2. /\ child'[g]["right"] = child[q]["left"] /\ child'[q]["left"] = g
      /\ child'[q]["right"] = child[q]["right"]
      /\ \A i \in Idx \ {g, q}, s \in Side :
           child'[i][s] = IF child[i][s] = g THEN q ELSE child[i][s]
      /\ rootIdx' = IF rootIdx = g THEN q ELSE rootIdx
      /\ Node' = Node /\ currIdx' = currIdx
      /\ color'[g] = "red" /\ color'[q] = "black"
      /\ \A i \in Idx \ {g, q} : color'[i] = color[i]
      /\ parent = q
  BY DEF Rotated
<1>3. /\ color[g] = "black" /\ Nil \in Idx /\ bh[Nil] = 0
      /\ \A i \in Idx : bh[i] \in Nat
      /\ \A i \in Node, s \in Side : child[i][s] \in Idx
  <2>1. Nil \in Idx
    BY DEF Nil, Idx
  <2>2. color[g] = "black"
    BY DEF FixPlace, Rotated
  <2> QED
    BY <1>1, <2>1, <2>2 DEF ColorsOK
<1>4. \A i \in Node :
        /\ bh[child[i]["left"]] = bh[child[i]["right"]]
        /\ bh[i] = bh[child[i]["left"]]
                     + (IF color[i] = "black" THEN 1 ELSE 0)
  BY DEF ColorsOK
<1>5. PICK height \in [Idx -> Nat] :
        height = [bh EXCEPT ![g] = bh[q], ![q] = bh[g]]
  <2>1. bh[q] \in Nat /\ bh[g] \in Nat
    BY <1>1, <1>3
  <2>2. [bh EXCEPT ![g] = bh[q], ![q] = bh[g]] \in [Idx -> Nat]
    BY <2>1
  <2> QED
    BY <2>2
<1>6. /\ height[g] = bh[q] /\ height[q] = bh[g]
      /\ \A i \in Idx \ {g, q} : height[i] = bh[i]
      /\ height[Nil] = 0
  BY <1>1, <1>3, <1>5
<1>7. /\ bh[g] = bh[u] + 1 /\ bh[u] = bh[q]
      /\ bh[q] = bh[child[q]["left"]] /\ bh[q] = bh[child[q]["right"]]
  <2>1. bh[child[q]["left"]] \in Nat
    BY <1>1, <1>3 DEF Side
  <2> QED
    BY <1>1, <1>3, <1>4, <2>1
<1>8. ASSUME NEW i \in Node
      PROVE  /\ height[child'[i]["left"]] = height[child'[i]["right"]]
             /\ height[i] = height[child'[i]["left"]]
                              + (IF color'[i] = "black" THEN 1 ELSE 0)
  <2>1. CASE i = g
    <3>1. height[u] = bh[u] /\ height[child[q]["left"]] = bh[child[q]["left"]]
      BY <1>1, <1>3, <1>6 DEF Side
    <3>2. bh[u] \in Nat
      BY <1>1, <1>3
    <3> QED
      BY <1>1, <1>2, <1>6, <1>7, <2>1, <3>1, <3>2
  <2>2. CASE i = q
    <3>1. height[child[q]["right"]] = bh[child[q]["right"]]
      BY <1>1, <1>3, <1>6 DEF Side
    <3> QED
      BY <1>1, <1>2, <1>6, <1>7, <2>2, <3>1
  <2>3. CASE i \notin {g, q}
    <3>1. \A s \in Side : height[child'[i][s]] = bh[child[i][s]]
      <4> SUFFICES ASSUME NEW s \in Side
                   PROVE  height[child'[i][s]] = bh[child[i][s]]
        OBVIOUS
      <4>1. CASE child[i][s] = g
        BY <1>1, <1>2, <1>6, <2>3, <4>1
      <4>2. CASE child[i][s] # g
        BY <1>1, <1>2, <1>3, <1>6, <2>3, <4>2
      <4> QED
        BY <4>1, <4>2
    <3>2. height[i] = bh[i] /\ color'[i] = color[i]
      BY <1>1, <1>2, <1>6, <2>3
    <3> QED
      BY <1>4, <3>1, <3>2 DEF Side
  <2> QED
    BY <2>1, <2>2, <2>3
<1>9. ASSUME NEW i \in Node, NEW s \in Side, color'[i] = "red",
             child'[i][s] # Nil, color'[child'[i][s]] = "red"
      PROVE  FALSE
  <2>1. i # q
    BY <1>2, <1>9
  <2>2. CASE i = g
    <3>1. CASE s = "left"
      <4>1. u \in Node /\ color'[u] = "red"
        BY <1>1, <1>9, <2>2, <3>1
      <4> QED
        BY <1>1, <1>2, <4>1
    <3>2. CASE s = "right"
      <4>1. /\ child[q]["left"] \in Node /\ child[q]["left"] # Nil
            /\ color'[child[q]["left"]] = "red"
        BY <1>1, <1>2, <1>9, <2>2, <3>2 DEF Side
      <4>2. color[child[q]["left"]] = "red"
        BY <1>1, <1>2, <4>1
      <4> QED
        BY <1>1, <4>1, <4>2 DEF ColorsOK, Side
    <3> QED
      BY <3>1, <3>2 DEF Side
  <2>3. CASE i # g
    <3>1. i \in Idx \ {g, q} /\ color[i] = "red"
      BY <1>1, <1>2, <1>9, <2>1, <2>3
    <3>2. child[i][s] # g
      BY <1>2, <1>9, <3>1
    <3>3. child'[i][s] = child[i][s] /\ child[i][s] \in Node \ {g, q}
      BY <1>1, <1>2, <1>9, <3>1, <3>2
    <3>4. color[child[i][s]] = "red"
      BY <1>1, <1>2, <1>9, <3>3
    <3> QED
      BY <1>2, <1>9, <3>1, <3>3, <3>4 DEF ColorsOK
  <2> QED
    BY <2>2, <2>3
<1>10. color'[rootIdx'] = "black"
  <2>1. currIdx > 0 /\ currIdx \in Nat
    <3>1. currIdx \in Nat
      BY RootFacts
    <3>2. g \in Nat /\ 1 <= g /\ g <= currIdx
      BY <1>1
    <3> QED
      BY ONLY <3>1, <3>2
  <2>2. rootIdx \in Node /\ color[rootIdx] = "black"
    BY <1>1, <2>1, RootFacts DEF ColorsOK
  <2>3. rootIdx # q
    BY <2>2
  <2> QED
    BY <1>1, <1>2, <2>2, <2>3
<1>11. \A i \in Idx : i > currIdx => color'[i] = "red"
  <2>1. currIdx \in Nat /\ Idx \subseteq Nat
    BY RootFacts DEF Idx
  <2>2. /\ g \in Nat /\ g <= currIdx
        /\ q \in Nat /\ q <= currIdx
    BY <1>1
  <2>3. \A i \in Idx : i > currIdx => i \notin {g, q}
    BY ONLY <2>1, <2>2
  <2>4. \A i \in Idx : i > currIdx => color[i] = "red"
    BY DEF ColorsOK
  <2> QED
    BY <1>2, <2>3, <2>4
<1>12. ColorsOK(height)'
  BY <1>2, <1>6, <1>8, <1>9, <1>10, <1>11 DEF ColorsOK
<1> QED
  BY <1>12

\* A black uncle: one rotation ends the repair.
LEMMA FixRotateIInv == ASSUME TreeIInv, FixRotate PROVE TreeIInv'
<1>. USE ConstantsAssumption
<1>1. PICK lo \in [Idx -> Idx], hi \in [Idx -> Idx] :
        Sorted(lo, hi) /\ PathOK(hi)
  BY DEF TreeIInv
<1>2. PICK bh \in [Idx -> Nat] : ColorsOK(bh)
  BY DEF TreeIInv
<1>3. TreeTypeOK /\ KeysOK /\ OneParent
  BY DEF TreeIInv
<1>4. PICK g, q, u : /\ FixPlace(lo, hi) /\ pc = "fix" /\ color[q] = "red"
                     /\ u = Nil \/ color[u] = "black"
                     /\ Rotated(g, q, u)
  BY <1>1, <1>2, <1>3, RotateEffect
<1>5. PICK low \in [Idx -> Idx], high \in [Idx -> Idx] : Sorted(low, high)'
  BY <1>1, <1>3, <1>4, RotateSorted
<1>6. OneParent'
  BY <1>1, <1>3, <1>4, RotateOneParent
<1>7. \E height \in [Idx -> Nat] : ColorsOK(height)'
  BY <1>1, <1>2, <1>3, <1>4, RotateColors
<1>8. Accept /\ UNCHANGED <<key, currIdx>>
  BY <1>4 DEF Rotated
<1>9. KeysOK' /\ PathOK(hi)' /\ size' \in Idx /\ accepted' \subseteq Key
      /\ pc' = "idle" /\ newKey' = 0 /\ p' = 0 /\ stack' = <<>>
      /\ idxBk' = 0 /\ top' = 0
  BY <1>1, <1>3, <1>4, <1>8, FinishKeys
<1>10. PathOK(high)'
  BY <1>9 DEF PathOK
<1>11. TreeTypeOK'
  <2>1. 0 \in Idx /\ 0 \in 0..(Capacity - 1) /\ <<>> \in Seq(Idx)
    BY DEF Idx
  <2>2. /\ child' \in [Idx -> [Side -> Idx]]
        /\ color' \in [Idx -> {"red", "black"}]
    BY <1>4 DEF Rotated
  <2>3. rootIdx' \in Idx
    <3>1. q \in Idx
      BY <1>1, <1>3, <1>4, RootFacts DEF Rotated
    <3> QED
      BY <1>3, <1>4, <3>1 DEF TreeTypeOK, Rotated
  <2> QED
    BY <1>3, <1>8, <1>9, <2>1, <2>2, <2>3 DEF TreeTypeOK
<1> QED
  BY <1>5, <1>6, <1>7, <1>9, <1>10, <1>11 DEF TreeIInv

-----------------------------------------------------------------------------
(* The theorems about RBTree.                                              *)

\* Every step of the tree preserves the invariant, if keys arrive in ascending
\* order.
LEMMA TreeStep ==
  ASSUME Ascending, TreeIInv, [TreeNext]_allVars PROVE TreeIInv'
<1>1. CASE UNCHANGED allVars
  <2>. USE <1>1 DEF allVars, treeVars, callVars
  <2>1. TreeTypeOK' /\ KeysOK' /\ OneParent'
    BY DEF TreeIInv, TreeTypeOK, KeysOK, OneParent, Node
  <2>2. PICK lo \in [Idx -> Idx], hi \in [Idx -> Idx] :
          Sorted(lo, hi) /\ PathOK(hi)
    BY DEF TreeIInv
  <2>3. Sorted(lo, hi)'
    BY <2>2 DEF Sorted, Spans, Node
  <2>4. PathOK(hi)'
    BY <2>2 DEF PathOK, Node, parent
  <2>5. PICK bh \in [Idx -> Nat] : ColorsOK(bh)
    BY DEF TreeIInv
  <2>6. ColorsOK(bh)'
    BY <2>5 DEF ColorsOK, Node, parent
  <2> QED
    BY <2>1, <2>2, <2>3, <2>4, <2>5, <2>6 DEF TreeIInv
<1>2. ASSUME NEW k \in Arriving, InsertRoot(k) \/ InsertBegin(k)
      PROVE  TreeIInv'
  BY <1>2, InsertRootIInv, InsertBeginIInv
<1>3. CASE Descend \/ Duplicate \/ Attach
  BY <1>3, DescendIInv, DuplicateIInv, AttachIInv
<1>4. CASE FixDone \/ FixFlip \/ FixRotate
  BY <1>4, FixDoneIInv, FixFlipIInv, FixRotateIInv
<1>5. CASE clear \/ destroy \/ init
  BY <1>5, EmptiedIInv
<1> QED
  BY <1>1, <1>2, <1>3, <1>4, <1>5 DEF TreeNext

\* For keys in ascending order the invariant holds throughout.
THEOREM TreeInvariantTheorem ==
  ASSUME Ascending PROVE TreeSpec => []TreeIInv
<1>1. TreeIInv /\ [TreeNext]_allVars => TreeIInv'
  BY TreeStep
<1> QED
  BY <1>1, TreeInitIInv, PTL DEF TreeSpec

\* Every index the tree stores is one of its array: what isFull keeps back
\* (rb_tree_array.h:68) is enough for the leaf.
THEOREM TreeTypeTheorem ==
  ASSUME Ascending PROVE TreeSpec => []TreeTypeOK
<1>1. TreeIInv => TreeTypeOK
  BY DEF TreeIInv
<1> QED
  BY <1>1, TreeInvariantTheorem, PTL

\* insertFix never looks below the bottom of its stack (rb_tree_array.cpp:102):
\* the element at the bottom is the root, and the root is black.
THEOREM StackTheorem ==
  ASSUME Ascending PROVE TreeSpec => []StackNeverUnderflows
<1>1. TreeIInv => StackNeverUnderflows
  <2> SUFFICES ASSUME TreeIInv, pc = "fix", color[parent] = "red"
               PROVE  top >= 1
    BY DEF StackNeverUnderflows
  <2>1. PICK lo \in [Idx -> Idx], hi \in [Idx -> Idx] :
          Sorted(lo, hi) /\ PathOK(hi)
    BY DEF TreeIInv
  <2>2. PICK bh \in [Idx -> Nat] : ColorsOK(bh)
    BY DEF TreeIInv
  <2>3. FixPlace(lo, hi)
    BY <2>1, <2>2, FixFacts DEF TreeIInv
  <2> QED
    BY <2>3 DEF FixPlace
<1> QED
  BY <1>1, TreeInvariantTheorem, PTL

-----------------------------------------------------------------------------
(* The operators that walk through the whole tree, between calls.          *)

\* A set that has 0, and with each number below N the next one, has them all.
LEMMA UpTo ==
  ASSUME NEW N \in Nat, NEW T, 0 \in T,
         \A n \in 0..(N - 1) : n \in T => n + 1 \in T
  PROVE  0..N \subseteq T
<1> SUFFICES ASSUME (0..N) \ T # {} PROVE FALSE
  OBVIOUS
<1>1. PICK n \in (0..N) \ T :
        \A m \in (0..N) \ T : ~ (<<m, n>> \in OpToRel(<, Nat))
  <2>1. (0..N) \ T \subseteq Nat
    OBVIOUS
  <2> QED
    BY ONLY <2>1, (0..N) \ T # {}, NatLessThanWellFounded, WFMin
<1>2. n # 0 /\ n \in 0..N /\ n - 1 \in 0..(N - 1)
  OBVIOUS
<1>3. n - 1 \notin T
  BY <1>2
<1>4. n - 1 \in (0..N) \ T
  BY <1>2, <1>3
<1>5. <<n - 1, n>> \in OpToRel(<, Nat)
  BY <1>2 DEF OpToRel
<1> QED
  BY <1>1, <1>4, <1>5

\* Each value of f is one Step from the last.
Iterates(f, N, start, Step) ==
  f[0] = start /\ \A n \in 1..N : f[n] = Step[f[n - 1]]

\* There is such a function.
LEMMA Iteration ==
  ASSUME NEW N \in Nat, NEW S, NEW start \in S, NEW Step \in [S -> S]
  PROVE  \E f \in [0..N -> S] : Iterates(f, N, start, Step)
<1>1. PICK T : T = {m \in 0..N : \E f \in [0..m -> S] :
                      f = [n \in 0..m |-> IF n = 0 THEN start
                                          ELSE Step[f[n - 1]]]}
  OBVIOUS
<1>2. 0 \in T
  <2>1. PICK f \in [0..0 -> S] : f = [n \in 0..0 |-> start]
    OBVIOUS
  <2>2. f = [n \in 0..0 |-> IF n = 0 THEN start ELSE Step[f[n - 1]]]
    BY <2>1
  <2> QED
    BY <1>1, <2>2
<1>3. ASSUME NEW m \in 0..(N - 1), m \in T PROVE m + 1 \in T
  <2>1. PICK f \in [0..m -> S] :
          f = [n \in 0..m |-> IF n = 0 THEN start ELSE Step[f[n - 1]]]
    BY <1>1, <1>3
  <2>2. PICK g \in [0..(m + 1) -> S] :
          g = [n \in 0..(m + 1) |-> IF n <= m THEN f[n] ELSE Step[f[m]]]
    <3>1. Step[f[m]] \in S /\ \A n \in 0..m : f[n] \in S
      OBVIOUS
    <3>2. \A n \in 0..(m + 1) : n <= m => n \in 0..m
      OBVIOUS
    <3> QED
      BY <3>1, <3>2
  <2>3. ASSUME NEW n \in 0..(m + 1)
        PROVE  g[n] = IF n = 0 THEN start ELSE Step[g[n - 1]]
    <3>1. CASE n = 0
      BY <2>1, <2>2, <3>1
    <3>2. CASE n # 0 /\ n <= m
      <4>1. n - 1 \in 0..m /\ n \in 0..m /\ n - 1 \in 0..(m + 1)
        BY <3>2
      <4>2. g[n - 1] = f[n - 1] /\ g[n] = f[n]
        BY <2>2, <3>2, <4>1
      <4> QED
        BY <2>1, <3>2, <4>1, <4>2
    <3>3. CASE n = m + 1
      <4>1. n # 0 /\ n - 1 = m /\ m \in 0..(m + 1) /\ ~(n <= m)
        BY <3>3
      <4> QED
        BY <2>2, <4>1
    <3> QED
      BY <3>1, <3>2, <3>3
  <2>4. g = [n \in 0..(m + 1) |-> IF n = 0 THEN start ELSE Step[g[n - 1]]]
    BY <2>2, <2>3
  <2>5. m + 1 \in 0..N
    OBVIOUS
  <2> QED
    BY <1>1, <2>4, <2>5
<1>4. N \in T
  <2>1. 0..N \subseteq T
    BY <1>2, <1>3, UpTo
  <2> QED
    BY <2>1
<1>5. PICK f \in [0..N -> S] :
        f = [n \in 0..N |-> IF n = 0 THEN start ELSE Step[f[n - 1]]]
  BY <1>1, <1>4
<1>6. Iterates(f, N, start, Step)
  BY <1>5 DEF Iterates
<1> QED
  BY <1>6

\* The paths down from the root, by their length.
EndsAt ==
  CHOOSE at : at = [d \in 0..Capacity |-> IF d = 0 THEN {<<rootIdx, 0>>}
                                          ELSE Longer(at[d - 1])]

\* They are what the recursion says.
LEMMA EndsAtDef ==
  ASSUME TreeTypeOK
  PROVE  /\ PathEnds = UNION {EndsAt[d] : d \in 0..Capacity}
         /\ \A d \in 0..Capacity : EndsAt[d] \subseteq Idx \X Nat
         /\ EndsAt[0] = {<<rootIdx, 0>>}
         /\ \A d \in 0..(Capacity - 1) : EndsAt[d + 1] = Longer(EndsAt[d])
<1>. USE ConstantsAssumption
<1>1. PICK S : S = SUBSET (Idx \X Nat)
  OBVIOUS
<1>2. PICK start \in S : start = {<<rootIdx, 0>>}
  <2>1. <<rootIdx, 0>> \in Idx \X Nat
    BY DEF TreeTypeOK
  <2> QED
    BY <1>1, <2>1
<1>3. ASSUME NEW ends \in S PROVE Longer(ends) \in S
  <2> SUFFICES ASSUME NEW e \in ends, e[1] # Nil, NEW s \in Side
               PROVE  <<child[e[1]][s],
                        e[2] + (IF color[e[1]] = "black" THEN 1 ELSE 0)>>
                        \in Idx \X Nat
    BY <1>1 DEF Longer
  <2>1. e[1] \in Idx /\ e[2] \in Nat
    BY <1>1
  <2>2. child[e[1]][s] \in Idx
    BY <2>1 DEF TreeTypeOK
  <2> QED
    BY <2>1, <2>2
<1>4. PICK Step \in [S -> S] : Step = [ends \in S |-> Longer(ends)]
  BY <1>3
<1>5. PICK f \in [0..Capacity -> S] : Iterates(f, Capacity, start, Step)
  BY Iteration
<1>6. f = [d \in 0..Capacity |-> IF d = 0 THEN {<<rootIdx, 0>>}
                                 ELSE Longer(f[d - 1])]
  <2>1. ASSUME NEW d \in 1..Capacity PROVE f[d] = Longer(f[d - 1])
    <3>1. d - 1 \in 0..Capacity
      OBVIOUS
    <3>2. f[d - 1] \in S /\ f[d] = Step[f[d - 1]]
      BY <1>5, <3>1 DEF Iterates
    <3> QED
      BY <1>4, <3>2
  <2>2. ASSUME NEW d \in 0..Capacity
        PROVE  f[d] = IF d = 0 THEN {<<rootIdx, 0>>} ELSE Longer(f[d - 1])
    <3>1. CASE d = 0
      BY <1>2, <1>5, <3>1 DEF Iterates
    <3>2. CASE d # 0
      <4>1. d \in 1..Capacity
        BY <3>2
      <4> QED
        BY <2>1, <3>2, <4>1
    <3> QED
      BY <3>1, <3>2
  <2> QED
    BY <2>2
<1>7. EndsAt = [d \in 0..Capacity |-> IF d = 0 THEN {<<rootIdx, 0>>}
                                      ELSE Longer(EndsAt[d - 1])]
  BY <1>6 DEF EndsAt
<1>8. PathEnds = UNION {EndsAt[d] : d \in 0..Capacity}
  BY DEF PathEnds, EndsAt
<1>9. \A d \in 0..(Capacity - 1) :
        d + 1 \in 0..Capacity /\ d + 1 # 0 /\ (d + 1) - 1 = d
  OBVIOUS
<1>10. \A d \in 0..Capacity : EndsAt[d] \in S
  <2>1. PICK T : T = {d \in 0..Capacity : EndsAt[d] \in S}
    OBVIOUS
  <2>2. 0 \in T
    BY <1>2, <1>7, <2>1
  <2>3. \A d \in 0..(Capacity - 1) : d \in T => d + 1 \in T
    BY <1>3, <1>7, <1>9, <2>1
  <2>4. 0..Capacity \subseteq T
    BY <2>2, <2>3, UpTo
  <2> QED
    BY <2>1, <2>4
<1>11. \A d \in 0..Capacity : EndsAt[d] \subseteq Idx \X Nat
  BY <1>1, <1>10
<1>12. EndsAt[0] = {<<rootIdx, 0>>}
  BY <1>7
<1>13. ASSUME NEW d \in 0..(Capacity - 1)
       PROVE  EndsAt[d + 1] = Longer(EndsAt[d])
  BY <1>7, <1>9
<1> QED
  BY <1>8, <1>11, <1>12, <1>13

\* What IsRedBlack says of the paths, from the black heights.
LEMMA RedBlackBetweenCalls == TreeIInv => IsRedBlack
<1> SUFFICES ASSUME TreeIInv, pc = "idle", rootIdx # Nil
             PROVE
      /\ color[rootIdx] = "black"
      /\ \A e \in PathEnds : e[1] # Nil /\ color[e[1]] = "red" =>
           \A s \in Side :
             child[e[1]][s] = Nil \/ color[child[e[1]][s]] = "black"
      /\ \A e1, e2 \in PathEnds : e1[1] = Nil /\ e2[1] = Nil => e1[2] = e2[2]
  BY DEF IsRedBlack
<1>. USE ConstantsAssumption
<1>1. TreeTypeOK
  BY DEF TreeIInv
<1>2. PICK lo \in [Idx -> Idx], hi \in [Idx -> Idx] : Sorted(lo, hi)
  BY DEF TreeIInv
<1>3. PICK bh \in [Idx -> Nat] : ColorsOK(bh)
  BY DEF TreeIInv
<1>4. /\ rootIdx \in Node /\ Node \subseteq Idx /\ Nil \in Idx
      /\ \A i \in Node, s \in Side : child[i][s] \in Node \cup {Nil}
  <2>1. Nil \in Idx
    BY DEF Nil, Idx
  <2>2. rootIdx \in Node /\ Node \subseteq Idx
    BY <1>1, <1>2, RootFacts DEF TreeTypeOK
  <2>3. \A i \in Node, s \in Side : child[i][s] \in Node \cup {Nil}
    BY <1>1, <1>2, ChildFacts
  <2> QED
    BY <2>1, <2>2, <2>3
<1>5. PICK Even : Even = {e \in Idx \X Nat :
                   /\ e[1] \in Node \cup {Nil}
                   /\ e[2] + bh[e[1]] = bh[rootIdx]}
  OBVIOUS
<1>6. <<rootIdx, 0>> \in Even
  <2>1. bh[rootIdx] \in Nat
    BY <1>4
  <2> QED
    BY <1>4, <1>5, <2>1
<1>7. ASSUME NEW ends \in SUBSET Even PROVE Longer(ends) \subseteq Even
  <2> SUFFICES ASSUME NEW e \in ends, e[1] # Nil, NEW s \in Side
               PROVE  <<child[e[1]][s],
                        e[2] + (IF color[e[1]] = "black" THEN 1 ELSE 0)>>
                        \in Even
    BY DEF Longer
  <2>1. /\ e[1] \in Node /\ e[1] \in Idx /\ e[2] \in Nat
        /\ e[2] + bh[e[1]] = bh[rootIdx]
    BY <1>4, <1>5
  <2>2. PICK c : c = child[e[1]][s]
    OBVIOUS
  <2>3. c \in Node \cup {Nil} /\ c \in Idx
    BY <1>4, <2>1, <2>2
  <2>4. bh[e[1]] = bh[c] + (IF color[e[1]] = "black" THEN 1 ELSE 0)
    BY <1>3, <2>1, <2>2 DEF ColorsOK, Side
  <2>5. bh[c] \in Nat /\ bh[e[1]] \in Nat
    BY <2>1, <2>3
  <2>6. PICK n \in Nat : n = e[2] + (IF color[e[1]] = "black" THEN 1 ELSE 0)
    BY <2>1
  <2>7. n + bh[c] = bh[rootIdx]
    BY <2>1, <2>4, <2>5, <2>6
  <2>8. <<c, n>> \in Even
    BY <1>5, <2>3, <2>7
  <2> QED
    BY <2>2, <2>6, <2>8
<1>8. PathEnds \subseteq Even
  <2>1. PICK T : T = {d \in 0..Capacity : EndsAt[d] \subseteq Even}
    OBVIOUS
  <2>2. 0 \in T
    BY <1>1, <1>6, <2>1, EndsAtDef
  <2>3. \A d \in 0..(Capacity - 1) : d \in T => d + 1 \in T
    BY <1>1, <1>7, <2>1, EndsAtDef
  <2>4. 0..Capacity \subseteq T
    BY <2>2, <2>3, UpTo
  <2> QED
    BY <1>1, <2>1, <2>4, EndsAtDef
<1>9. color[rootIdx] = "black"
  BY <1>3 DEF ColorsOK
<1>10. ASSUME NEW e \in PathEnds, e[1] # Nil, color[e[1]] = "red",
              NEW s \in Side
       PROVE  child[e[1]][s] = Nil \/ color[child[e[1]][s]] = "black"
  <2>1. e[1] \in Node
    BY <1>5, <1>8, <1>10
  <2>2. child[e[1]][s] = Nil \/ color[child[e[1]][s]] # "red"
    BY <1>3, <1>10, <2>1 DEF ColorsOK
  <2>3. child[e[1]][s] \in Idx
    BY <1>4, <2>1
  <2>4. color[child[e[1]][s]] \in {"red", "black"}
    BY <1>1, <2>3 DEF TreeTypeOK
  <2> QED
    BY <2>2, <2>4
<1>11. ASSUME NEW e1 \in PathEnds, NEW e2 \in PathEnds,
              e1[1] = Nil, e2[1] = Nil
       PROVE  e1[2] = e2[2]
  <2>1. bh[Nil] = 0
    BY <1>3 DEF ColorsOK
  <2>2. e1 \in Even /\ e2 \in Even
    BY <1>8
  <2>3. /\ e1[2] \in Nat /\ e1[2] + bh[e1[1]] = bh[rootIdx]
        /\ e2[2] \in Nat /\ e2[2] + bh[e2[1]] = bh[rootIdx]
    BY <1>5, <2>2
  <2> QED
    BY <1>11, <2>1, <2>3
<1> QED
  BY <1>9, <1>10, <1>11

\* Where search for k goes from element q, and where it is after n iterations.
OneDown(k, q) ==
  IF q = Nil \/ q > currIdx \/ key[q] = k THEN q
  ELSE child[q][IF key[q] < k THEN "right" ELSE "left"]

Walk(k) ==
  CHOOSE walk : walk = [n \in 0..Capacity |-> IF n = 0 THEN rootIdx
                                              ELSE OneDown(k, walk[n - 1])]

\* The walk is what the recursion says.
LEMMA WalkDef ==
  ASSUME TreeTypeOK, NEW k
  PROVE  /\ searchAfter(k) = Walk(k)[Capacity]
         /\ \A n \in 0..Capacity : Walk(k)[n] \in Idx
         /\ Walk(k)[0] = rootIdx
         /\ \A n \in 0..(Capacity - 1) : Walk(k)[n + 1] = OneDown(k, Walk(k)[n])
<1>. USE ConstantsAssumption
<1>1. rootIdx \in Idx
  BY DEF TreeTypeOK
<1>2. ASSUME NEW q \in Idx PROVE OneDown(k, q) \in Idx
  BY DEF OneDown, TreeTypeOK, Side
<1>3. PICK Step \in [Idx -> Idx] : Step = [q \in Idx |-> OneDown(k, q)]
  BY <1>2
<1>4. PICK f \in [0..Capacity -> Idx] : Iterates(f, Capacity, rootIdx, Step)
  BY <1>1, Iteration
<1>5. f = [n \in 0..Capacity |-> IF n = 0 THEN rootIdx
                                 ELSE OneDown(k, f[n - 1])]
  <2>1. ASSUME NEW n \in 1..Capacity PROVE f[n] = OneDown(k, f[n - 1])
    <3>1. n - 1 \in 0..Capacity
      OBVIOUS
    <3>2. f[n - 1] \in Idx /\ f[n] = Step[f[n - 1]]
      BY <1>4, <3>1 DEF Iterates
    <3> QED
      BY <1>3, <3>2
  <2>2. ASSUME NEW n \in 0..Capacity
        PROVE  f[n] = IF n = 0 THEN rootIdx ELSE OneDown(k, f[n - 1])
    <3>1. CASE n = 0
      BY <1>4, <3>1 DEF Iterates
    <3>2. CASE n # 0
      <4>1. n \in 1..Capacity
        BY <3>2
      <4> QED
        BY <2>1, <3>2, <4>1
    <3> QED
      BY <3>1, <3>2
  <2> QED
    BY <2>2
<1>6. Walk(k) = [n \in 0..Capacity |-> IF n = 0 THEN rootIdx
                                       ELSE OneDown(k, Walk(k)[n - 1])]
  BY <1>5 DEF Walk
<1>7. searchAfter(k) = Walk(k)[Capacity]
  BY DEF searchAfter, Walk, OneDown
<1>8. \A n \in 0..(Capacity - 1) :
        n + 1 \in 0..Capacity /\ n + 1 # 0 /\ (n + 1) - 1 = n
  OBVIOUS
<1>9. \A n \in 0..Capacity : Walk(k)[n] \in Idx
  <2>1. PICK T : T = {n \in 0..Capacity : Walk(k)[n] \in Idx}
    OBVIOUS
  <2>2. 0 \in T
    BY <1>1, <1>6, <2>1
  <2>3. \A n \in 0..(Capacity - 1) : n \in T => n + 1 \in T
    BY <1>2, <1>6, <1>8, <2>1
  <2>4. 0..Capacity \subseteq T
    BY <2>2, <2>3, UpTo
  <2> QED
    BY <2>1, <2>4
<1>10. Walk(k)[0] = rootIdx
  BY <1>6
<1>11. ASSUME NEW n \in 0..(Capacity - 1)
       PROVE  Walk(k)[n + 1] = OneDown(k, Walk(k)[n])
  BY <1>6, <1>8
<1> QED
  BY <1>7, <1>9, <1>10, <1>11

\* The walk for the key of element j stays above j, and each iteration leaves
\* it at least one element less to choose from.
LEMMA WalkNarrows ==
  ASSUME TreeTypeOK, KeysOK, NEW lo \in [Idx -> Idx], NEW hi \in [Idx -> Idx],
         Sorted(lo, hi), NEW j \in Node, NEW n \in 0..Capacity,
         NEW q \in Node, lo[q] <= j, j <= hi[q],
         q = j \/ hi[q] - lo[q] <= currIdx - 1 - n
  PROVE  \E r \in Node :
           /\ r = OneDown(key[j], q)
           /\ lo[r] <= j /\ j <= hi[r]
           /\ r = j \/ hi[r] - lo[r] <= currIdx - 1 - (n + 1)
<1>. USE ConstantsAssumption
<1>1. /\ currIdx \in Nat /\ Node \subseteq Idx /\ Idx \subseteq Nat
      /\ \A i \in Node : i \in Nat /\ 1 <= i /\ i <= currIdx
  <2>1. currIdx \in Nat /\ Node \subseteq Idx
    BY RootFacts
  <2>2. Idx \subseteq Nat
    BY DEF Idx
  <2>3. \A i \in Node : i \in Nat /\ 1 <= i /\ i <= currIdx
    BY <2>1 DEF Node
  <2> QED
    BY <2>1, <2>2, <2>3
<1>2. q \in Nat /\ j \in Nat /\ lo[q] \in Nat /\ hi[q] \in Nat
  BY <1>1
<1>3. lo[q] <= q /\ q <= hi[q]
  BY <1>2 DEF Sorted
<1>4. key[q] \in Nat /\ key[j] \in Nat
  BY DEF KeysOK
<1>5. q # Nil /\ ~(q > currIdx)
  BY <1>1 DEF Nil
<1>6. CASE q = j
  BY <1>6, <1>3 DEF OneDown
<1>7. CASE q < j
  <2>1. key[q] < key[j]
    BY <1>7 DEF KeysOK
  <2>2. OneDown(key[j], q) = child[q]["right"]
    BY <1>4, <1>5, <2>1 DEF OneDown
  <2>3. PICK r : r = child[q]["right"]
    OBVIOUS
  <2>4. Spans(r, q + 1, hi[q], lo, hi)
    BY <2>3 DEF Sorted
  <2>5. ~(q + 1 > hi[q])
    BY <1>2, <1>7
  <2>6. r \in Node /\ lo[r] = q + 1 /\ hi[r] = hi[q]
    BY <2>4, <2>5 DEF Spans
  <2>7. lo[r] <= j /\ hi[r] - lo[r] <= currIdx - 1 - (n + 1)
    BY <1>1, <1>2, <1>3, <1>7, <2>6
  <2> QED
    BY <2>2, <2>3, <2>6, <2>7
<1>8. CASE j < q
  <2>1. key[j] < key[q]
    BY <1>8 DEF KeysOK
  <2>2. OneDown(key[j], q) = child[q]["left"]
    BY <1>4, <1>5, <2>1 DEF OneDown
  <2>3. PICK r : r = child[q]["left"]
    OBVIOUS
  <2>4. Spans(r, lo[q], q - 1, lo, hi)
    BY <2>3 DEF Sorted
  <2>5. ~(lo[q] > q - 1)
    BY <1>2, <1>8
  <2>6. r \in Node /\ lo[r] = lo[q] /\ hi[r] = q - 1
    BY <2>4, <2>5 DEF Spans
  <2>7. j <= hi[r] /\ hi[r] - lo[r] <= currIdx - 1 - (n + 1)
    BY <1>1, <1>2, <1>3, <1>8, <2>6
  <2> QED
    BY <2>2, <2>3, <2>6, <2>7
<1> QED
  BY <1>2, <1>6, <1>7, <1>8

\* search ends at the element that has the key.
LEMMA SearchFinds ==
  ASSUME TreeTypeOK, KeysOK, NEW lo \in [Idx -> Idx], NEW hi \in [Idx -> Idx],
         Sorted(lo, hi), NEW j \in Node
  PROVE  searchAfter(key[j]) = j
<1>. USE ConstantsAssumption
<1>1. /\ currIdx \in Nat /\ currIdx < Capacity
      /\ Node \subseteq Idx /\ Idx \subseteq Nat /\ rootIdx \in Node
  <2>1. j \in Nat /\ 1 <= j /\ j <= currIdx /\ currIdx \in Nat
    BY RootFacts DEF Node
  <2> QED
    BY <2>1, RootFacts DEF Idx
<1>2. PICK walk : walk = Walk(key[j])
  OBVIOUS
<1>3. PICK T : T = {n \in 0..Capacity :
                 /\ walk[n] \in Node
                 /\ lo[walk[n]] <= j /\ j <= hi[walk[n]]
                 /\ \/ walk[n] = j
                    \/ hi[walk[n]] - lo[walk[n]] <= currIdx - 1 - n}
  OBVIOUS
<1>4. 0 \in T
  <2>1. walk[0] = rootIdx
    BY <1>2, WalkDef
  <2>2. lo[rootIdx] = 1 /\ hi[rootIdx] = currIdx
    BY <1>1 DEF Sorted, Spans, Nil, Node
  <2>3. j \in Nat /\ 1 <= j /\ j <= currIdx
    BY <1>1 DEF Node
  <2> QED
    BY <1>1, <1>3, <2>1, <2>2, <2>3
<1>5. ASSUME NEW n \in 0..(Capacity - 1), n \in T PROVE n + 1 \in T
  <2>1. PICK r \in Node :
           /\ r = OneDown(key[j], walk[n])
           /\ lo[r] <= j /\ j <= hi[r]
           /\ r = j \/ hi[r] - lo[r] <= currIdx - 1 - (n + 1)
    <3>1. n \in 0..Capacity
      OBVIOUS
    <3> QED
      BY <1>3, <1>5, <3>1, WalkNarrows
  <2>2. walk[n + 1] = r
    BY <1>2, <2>1, WalkDef
  <2>3. n + 1 \in 0..Capacity
    OBVIOUS
  <2> QED
    BY <1>3, <2>1, <2>2, <2>3
<1>6. Capacity \in T
  <2>1. 0..Capacity \subseteq T
    BY <1>4, <1>5, UpTo
  <2> QED
    BY <2>1
<1>7. walk[Capacity] = j
  <2>1. PICK q \in Node : q = walk[Capacity]
    BY <1>3, <1>6
  <2>2. q = j \/ hi[q] - lo[q] <= currIdx - 1 - Capacity
    BY <1>3, <1>6, <2>1
  <2>3. q \in Idx /\ lo[q] \in Nat /\ hi[q] \in Nat /\ q \in Nat
    BY <1>1
  <2>4. lo[q] <= q /\ q <= hi[q]
    BY <2>3 DEF Sorted
  <2> QED
    BY <1>1, <2>1, <2>2, <2>3, <2>4
<1> QED
  BY <1>2, <1>7, WalkDef

\* Between calls, search finds the accepted keys and no others.
LEMMA FoundBetweenCalls == TreeIInv => AcceptedAreFound
<1> SUFFICES ASSUME TreeIInv, pc = "idle", NEW k \in Key
             PROVE  search(k) <=> k \in accepted
  BY DEF AcceptedAreFound
<1>1. TreeTypeOK /\ KeysOK
  BY DEF TreeIInv
<1>2. PICK lo \in [Idx -> Idx], hi \in [Idx -> Idx] : Sorted(lo, hi)
  BY DEF TreeIInv
<1>3. /\ accepted = {key[i] : i \in Node} /\ currIdx \in Nat
      /\ \A i \in Node : i \in Nat /\ 1 <= i /\ i <= currIdx
  BY <1>1, <1>2, RootFacts DEF KeysOK, Node
<1>4. ASSUME k \in accepted PROVE search(k)
  <2>1. PICK j \in Node : k = key[j]
    BY <1>3, <1>4
  <2>2. searchAfter(k) = j
    BY <1>1, <1>2, <2>1, SearchFinds
  <2> QED
    BY <1>3, <2>1, <2>2 DEF search, Nil
<1>5. ASSUME search(k) PROVE k \in accepted
  <2>1. PICK q \in Idx : q = searchAfter(k)
    <3>1. Capacity \in 0..Capacity
      BY ConstantsAssumption
    <3> QED
      BY <1>1, <3>1, WalkDef
  <2>2. q # Nil /\ q <= currIdx /\ key[q] = k
    BY <1>5, <2>1 DEF search
  <2>3. q \in Node
    BY <1>3, <2>2 DEF Idx, Nil, Node
  <2> QED
    BY <1>3, <2>2, <2>3
<1> QED
  BY <1>4, <1>5

\* What mPrint adds for each element, from what it has printed for the others.
OneLevel(printed) ==
  [i \in Idx |->
     IF i = Nil THEN <<>>
     ELSE printed[child[i]["left"]] \o <<key[i]>> \o printed[child[i]["right"]]]

Nothing == [i \in Idx |-> <<>>]

Printed ==
  CHOOSE print : print = [n \in 0..Capacity |->
     [i \in Idx |->
        IF n = 0 \/ i = Nil THEN <<>>
        ELSE print[n - 1][child[i]["left"]] \o <<key[i]>>
               \o print[n - 1][child[i]["right"]]]]

\* What is printed is what the recursion says.
LEMMA PrintedDef ==
  ASSUME TreeTypeOK
  PROVE  /\ mPrintImpl = Printed[Capacity]
         /\ Printed[0] = Nothing
         /\ \A n \in 0..(Capacity - 1) : Printed[n + 1] = OneLevel(Printed[n])
<1>. USE ConstantsAssumption
<1>1. PICK K : K = Key \cup {0}
  OBVIOUS
<1>2. PICK S : S = [Idx -> Seq(K)]
  OBVIOUS
<1>3. Nothing \in S
  <2>1. <<>> \in Seq(K)
    OBVIOUS
  <2> QED
    BY <1>2, <2>1 DEF Nothing
<1>4. ASSUME NEW printed \in S PROVE OneLevel(printed) \in S
  <2>1. ASSUME NEW i \in Idx
        PROVE  printed[child[i]["left"]] \o <<key[i]>>
                 \o printed[child[i]["right"]] \in Seq(K)
    <3>1. child[i]["left"] \in Idx /\ child[i]["right"] \in Idx /\ key[i] \in K
      BY <1>1 DEF TreeTypeOK, Side
    <3>2. /\ printed[child[i]["left"]] \in Seq(K)
          /\ printed[child[i]["right"]] \in Seq(K)
      BY <1>2, <3>1
    <3> QED
      BY <3>1, <3>2
  <2>2. <<>> \in Seq(K)
    OBVIOUS
  <2> QED
    BY <1>2, <2>1, <2>2 DEF OneLevel
<1>5. PICK Step \in [S -> S] : Step = [printed \in S |-> OneLevel(printed)]
  BY <1>4
<1>6. PICK f \in [0..Capacity -> S] : Iterates(f, Capacity, Nothing, Step)
  BY <1>3, Iteration
<1>7. f = [n \in 0..Capacity |->
            [i \in Idx |->
               IF n = 0 \/ i = Nil THEN <<>>
               ELSE f[n - 1][child[i]["left"]] \o <<key[i]>>
                      \o f[n - 1][child[i]["right"]]]]
  <2>1. ASSUME NEW n \in 1..Capacity PROVE f[n] = OneLevel(f[n - 1])
    <3>1. n - 1 \in 0..Capacity
      OBVIOUS
    <3>2. f[n - 1] \in S /\ f[n] = Step[f[n - 1]]
      BY <1>6, <3>1 DEF Iterates
    <3> QED
      BY <1>5, <3>2
  <2>2. ASSUME NEW n \in 0..Capacity
        PROVE  f[n] = [i \in Idx |->
                         IF n = 0 \/ i = Nil THEN <<>>
                         ELSE f[n - 1][child[i]["left"]] \o <<key[i]>>
                                \o f[n - 1][child[i]["right"]]]
    <3>1. CASE n = 0
      BY <1>6, <3>1 DEF Iterates, Nothing
    <3>2. CASE n # 0
      <4>1. n \in 1..Capacity
        BY <3>2
      <4> QED
        BY <2>1, <3>2, <4>1 DEF OneLevel
    <3> QED
      BY <3>1, <3>2
  <2> QED
    BY <2>2
<1>8. Printed = [n \in 0..Capacity |->
            [i \in Idx |->
               IF n = 0 \/ i = Nil THEN <<>>
               ELSE Printed[n - 1][child[i]["left"]] \o <<key[i]>>
                      \o Printed[n - 1][child[i]["right"]]]]
  BY <1>7 DEF Printed
<1>9. mPrintImpl = Printed[Capacity]
  BY DEF mPrintImpl, Printed
<1>10. Printed[0] = Nothing
  BY <1>8 DEF Nothing
<1>11. ASSUME NEW n \in 0..(Capacity - 1)
       PROVE  Printed[n + 1] = OneLevel(Printed[n])
  <2>1. n + 1 \in 0..Capacity /\ n + 1 # 0 /\ (n + 1) - 1 = n
    OBVIOUS
  <2> QED
    BY <1>8, <2>1 DEF OneLevel
<1> QED
  BY <1>9, <1>10, <1>11

\* The keys of the elements from .. to, in this order.
KeysFrom(from, to) == [x \in 1..(to - from + 1) |-> key[from + x - 1]]

\* Two such runs with the element between them make one.
LEMMA KeysFromJoin ==
  ASSUME TreeTypeOK, NEW from \in Idx, NEW i \in Idx, NEW to \in Idx,
         from <= i, i <= to, from > 0
  PROVE  KeysFrom(from, i - 1) \o <<key[i]>> \o KeysFrom(i + 1, to)
           = KeysFrom(from, to)
<1>. USE ConstantsAssumption
<1>1. from \in Nat /\ i \in Nat /\ to \in Nat
  BY DEF Idx
<1>2. PICK K : K = Key \cup {0}
  OBVIOUS
<1>3. \A x \in Idx : key[x] \in K
  BY <1>2 DEF TreeTypeOK
<1>4. to <= Capacity - 1 /\ Capacity \in Nat
  BY DEF Idx
<1>5. PICK s : s = KeysFrom(from, i - 1)
  OBVIOUS
<1>6. PICK t : t = KeysFrom(i + 1, to)
  OBVIOUS
<1>7. /\ s \in Seq(K) /\ Len(s) = i - from
      /\ \A x \in 1..(i - from) : s[x] = key[from + x - 1]
  <2>1. s = [x \in 1..(i - from) |-> key[from + x - 1]]
    <3>1. i - 1 - from + 1 = i - from
      BY <1>1
    <3> QED
      BY <1>5, <3>1 DEF KeysFrom
  <2>2. \A x \in 1..(i - from) : from + x - 1 \in Idx
    BY <1>1, <1>4 DEF Idx
  <2>3. i - from \in Nat
    BY <1>1
  <2> QED
    BY <1>3, <2>1, <2>2, <2>3
<1>8. /\ t \in Seq(K) /\ Len(t) = to - i
      /\ \A x \in 1..(to - i) : t[x] = key[i + x]
  <2>1. t = [x \in 1..(to - i) |-> key[i + x]]
    <3>1. to - (i + 1) + 1 = to - i
      BY <1>1
    <3>2. \A x \in 1..(to - i) : (i + 1) + x - 1 = i + x
      BY <1>1
    <3> QED
      BY <1>6, <3>1, <3>2 DEF KeysFrom
  <2>2. \A x \in 1..(to - i) : i + x \in Idx
    BY <1>1, <1>4 DEF Idx
  <2>3. to - i \in Nat
    BY <1>1
  <2> QED
    BY <1>3, <2>1, <2>2, <2>3
<1>9. PICK m \in Seq(K) : m = <<key[i]>>
  <2>1. key[i] \in K
    BY <1>3
  <2>2. <<key[i]>> \in Seq(K)
    BY <2>1
  <2> QED
    BY <2>2
<1>10. Len(m) = 1 /\ m[1] = key[i]
  BY <1>9
<1>11. PICK u \in Seq(K) : u = s \o m
  <2>1. s \o m \in Seq(K)
    BY <1>7, ConcatProperties
  <2> QED
    BY <2>1
<1>12. /\ Len(u) = i - from + 1
       /\ \A x \in 1..(i - from + 1) : u[x] = key[from + x - 1]
  <2>1. Len(u) = i - from + 1
    <3>1. Len(u) = Len(s) + Len(m)
      BY <1>7, <1>11, ConcatProperties
    <3> QED
      BY <1>7, <1>10, <3>1
  <2>2. ASSUME NEW x \in 1..(i - from + 1) PROVE u[x] = key[from + x - 1]
    <3>1. CASE x <= i - from
      <4>1. x \in 1..Len(s)
        BY <1>1, <1>7, <3>1
      <4>2. u[x] = s[x]
        BY ONLY <1>7, <1>9, <1>11, <4>1
      <4> QED
        BY <1>7, <4>1, <4>2
    <3>2. CASE x = i - from + 1
      <4>1. x = Len(s) + 1
        BY <1>7, <3>2
      <4>2. u[x] = m[1]
        BY ONLY <1>7, <1>9, <1>10, <1>11, <4>1
      <4>3. from + x - 1 = i
        BY <1>1, <3>2
      <4> QED
        BY <1>10, <4>2, <4>3
    <3> QED
      BY <1>1, <3>1, <3>2
  <2> QED
    BY <2>1, <2>2
<1>13. PICK v \in Seq(K) : v = u \o t
  <2>1. u \o t \in Seq(K)
    BY <1>8, ConcatProperties
  <2> QED
    BY <2>1
<1>14. /\ Len(v) = to - from + 1
       /\ \A x \in 1..(to - from + 1) : v[x] = key[from + x - 1]
  <2>1. Len(v) = to - from + 1
    <3>1. Len(v) = Len(u) + Len(t)
      BY <1>8, <1>13, ConcatProperties
    <3> QED
      BY <1>1, <1>8, <1>12, <3>1
  <2>2. ASSUME NEW x \in 1..(to - from + 1) PROVE v[x] = key[from + x - 1]
    <3>1. CASE x <= i - from + 1
      <4>1. x \in 1..Len(u) /\ x \in 1..(i - from + 1)
        BY <1>1, <1>12, <3>1
      <4>2. v[x] = u[x]
        BY ONLY <1>8, <1>13, <4>1, u \in Seq(K)
      <4> QED
        BY <1>12, <4>1, <4>2
    <3>2. CASE x > i - from + 1
      <4>1. PICK y \in 1..(to - i) : y = x - (i - from + 1)
        BY <1>1, <3>2
      <4>2. y \in 1..Len(t) /\ x = Len(u) + y
        BY <1>1, <1>8, <1>12, <4>1
      <4>3. v[x] = t[y]
        BY ONLY <1>8, <1>13, <4>2, u \in Seq(K)
      <4>4. i + y = from + x - 1
        BY <1>1, <4>1
      <4> QED
        BY <1>8, <4>1, <4>3, <4>4
    <3> QED
      BY <1>1, <3>1, <3>2
  <2> QED
    BY <2>1, <2>2
<1>15. v = KeysFrom(from, to)
  <2>1. v = [x \in 1..(to - from + 1) |-> v[x]]
    <3>1. v = [x \in 1..Len(v) |-> v[x]]
      OBVIOUS
    <3> QED
      BY <1>14, <3>1
  <2> QED
    BY <1>14, <2>1 DEF KeysFrom
<1> QED
  BY <1>5, <1>6, <1>9, <1>11, <1>13, <1>15

\* m levels down, all elements below an element are printed that has no more
\* than m of them.
LEMMA PrintedBelow ==
  ASSUME TreeTypeOK, NEW lo \in [Idx -> Idx], NEW hi \in [Idx -> Idx],
         Sorted(lo, hi), NEW m \in 0..Capacity
  PROVE  /\ Printed[m][Nil] = <<>>
         /\ \A i \in Node : hi[i] - lo[i] < m =>
              Printed[m][i] = KeysFrom(lo[i], hi[i])
<1>. USE ConstantsAssumption
<1>1. /\ currIdx \in Nat /\ Node \subseteq Idx /\ Idx \subseteq Nat
      /\ \A i \in Node : i \in Nat /\ 1 <= i /\ i <= currIdx
      /\ Nil \in Idx /\ Nil \notin Node
  <2>1. currIdx \in Nat /\ Node \subseteq Idx
    BY RootFacts
  <2>2. Idx \subseteq Nat /\ Nil \in Idx
    BY DEF Idx, Nil
  <2>3. \A i \in Node : i \in Nat /\ 1 <= i /\ i <= currIdx
    BY <2>1 DEF Node
  <2> QED
    BY <2>1, <2>2, <2>3 DEF Nil
<1>2. \A i \in Node : /\ lo[i] \in Nat /\ lo[i] \in Idx
                      /\ 1 <= lo[i] /\ lo[i] <= i
                      /\ hi[i] \in Nat /\ hi[i] \in Idx /\ i <= hi[i]
  <2> SUFFICES ASSUME NEW i \in Node
               PROVE  /\ lo[i] \in Nat /\ lo[i] \in Idx
                      /\ 1 <= lo[i] /\ lo[i] <= i
                      /\ hi[i] \in Nat /\ hi[i] \in Idx /\ i <= hi[i]
    OBVIOUS
  <2>1. lo[i] \in Idx /\ hi[i] \in Idx /\ i \in Nat
    BY <1>1
  <2>2. lo[i] \in 1..i /\ hi[i] \in i..currIdx
    BY DEF Sorted
  <2> QED
    BY <1>1, <2>1, <2>2
<1>3. PICK T : T = {n \in 0..Capacity :
                 /\ Printed[n][Nil] = <<>>
                 /\ \A i \in Node : hi[i] - lo[i] < n =>
                      Printed[n][i] = KeysFrom(lo[i], hi[i])}
  OBVIOUS
<1>4. 0 \in T
  <2>1. Printed[0][Nil] = <<>>
    BY <1>1, PrintedDef DEF Nothing
  <2>2. \A i \in Node : ~(hi[i] - lo[i] < 0)
    BY <1>1, <1>2
  <2> QED
    BY <1>3, <2>1, <2>2
<1>5. ASSUME NEW n \in 0..(Capacity - 1), n \in T PROVE n + 1 \in T
  <2>1. Printed[n + 1] = OneLevel(Printed[n])
    BY PrintedDef
  <2>2. Printed[n + 1][Nil] = <<>>
    BY <1>1, <2>1 DEF OneLevel
  <2>3. ASSUME NEW i \in Node, hi[i] - lo[i] < n + 1
        PROVE  Printed[n + 1][i] = KeysFrom(lo[i], hi[i])
    <3>1. PICK l : l = child[i]["left"]
      OBVIOUS
    <3>2. PICK r : r = child[i]["right"]
      OBVIOUS
    <3>3. Printed[n + 1][i] = Printed[n][l] \o <<key[i]>> \o Printed[n][r]
      BY <1>1, <2>1, <3>1, <3>2 DEF OneLevel
    <3>4. Printed[n][l] = KeysFrom(lo[i], i - 1)
      <4>1. Spans(l, lo[i], i - 1, lo, hi)
        BY <3>1 DEF Sorted
      <4>2. CASE lo[i] > i - 1
        <5>1. l = Nil
          BY <4>1, <4>2 DEF Spans
        <5>2. i - 1 - lo[i] + 1 = 0
          BY <1>1, <1>2, <4>2
        <5>3. KeysFrom(lo[i], i - 1) = <<>>
          BY <5>2 DEF KeysFrom
        <5> QED
          BY <1>3, <1>5, <5>1, <5>3
      <4>3. CASE ~(lo[i] > i - 1)
        <5>1. l \in Node /\ lo[l] = lo[i] /\ hi[l] = i - 1
          BY <4>1, <4>3 DEF Spans
        <5>2. hi[l] - lo[l] < n
          BY <1>1, <1>2, <2>3, <5>1
        <5> QED
          BY <1>3, <1>5, <5>1, <5>2
      <4> QED
        BY <4>2, <4>3
    <3>5. Printed[n][r] = KeysFrom(i + 1, hi[i])
      <4>1. Spans(r, i + 1, hi[i], lo, hi)
        BY <3>2 DEF Sorted
      <4>2. CASE i + 1 > hi[i]
        <5>1. r = Nil
          BY <4>1, <4>2 DEF Spans
        <5>2. hi[i] - (i + 1) + 1 = 0
          BY <1>1, <1>2, <4>2
        <5>3. KeysFrom(i + 1, hi[i]) = <<>>
          BY <5>2 DEF KeysFrom
        <5> QED
          BY <1>3, <1>5, <5>1, <5>3
      <4>3. CASE ~(i + 1 > hi[i])
        <5>1. r \in Node /\ lo[r] = i + 1 /\ hi[r] = hi[i]
          BY <4>1, <4>3 DEF Spans
        <5>2. hi[r] - lo[r] < n
          BY <1>1, <1>2, <2>3, <5>1
        <5> QED
          BY <1>3, <1>5, <5>1, <5>2
      <4> QED
        BY <4>2, <4>3
    <3>6. KeysFrom(lo[i], i - 1) \o <<key[i]>> \o KeysFrom(i + 1, hi[i])
            = KeysFrom(lo[i], hi[i])
      <4>1. /\ lo[i] \in Idx /\ i \in Idx /\ hi[i] \in Idx
            /\ lo[i] <= i /\ i <= hi[i] /\ lo[i] > 0
        BY <1>1, <1>2
      <4> QED
        BY <4>1, KeysFromJoin
    <3> QED
      BY <3>3, <3>4, <3>5, <3>6
  <2>4. n + 1 \in 0..Capacity
    OBVIOUS
  <2> QED
    BY <1>3, <2>2, <2>3, <2>4
<1>6. 0..Capacity \subseteq T
  BY <1>4, <1>5, UpTo
<1> QED
  BY <1>3, <1>6

\* mPrint prints the keys of the whole array in order.
LEMMA PrintsAll ==
  ASSUME TreeTypeOK, NEW lo \in [Idx -> Idx], NEW hi \in [Idx -> Idx],
         Sorted(lo, hi)
  PROVE  mPrint = [x \in 1..currIdx |-> key[x]]
<1>. USE ConstantsAssumption
<1>1. currIdx \in Nat /\ currIdx < Capacity
  BY RootFacts
<1>2. mPrint = Printed[Capacity][rootIdx] /\ Capacity \in 0..Capacity
  BY PrintedDef DEF mPrint
<1>3. Spans(rootIdx, 1, currIdx, lo, hi)
  BY DEF Sorted
<1>4. CASE currIdx = 0
  <2>1. rootIdx = Nil
    BY <1>3, <1>4 DEF Spans
  <2>2. mPrint = <<>>
    BY <1>2, <2>1, PrintedBelow
  <2>3. [x \in 1..currIdx |-> key[x]] = <<>>
    BY <1>4
  <2> QED
    BY <2>2, <2>3
<1>5. CASE currIdx > 0
  <2>1. rootIdx \in Node /\ lo[rootIdx] = 1 /\ hi[rootIdx] = currIdx
    BY <1>1, <1>3, <1>5 DEF Spans
  <2>2. hi[rootIdx] - lo[rootIdx] < Capacity
    BY <1>1, <2>1
  <2>3. mPrint = KeysFrom(1, currIdx)
    BY <1>2, <2>1, <2>2, PrintedBelow
  <2>4. currIdx - 1 + 1 = currIdx /\ \A x \in 1..currIdx : 1 + x - 1 = x
    BY <1>1
  <2> QED
    BY <2>3, <2>4 DEF KeysFrom
<1> QED
  BY <1>1, <1>4, <1>5

\* Between calls, these are the accepted keys, and they ascend.
LEMMA PrintsBetweenCalls == TreeIInv => PrintsInOrder
<1> SUFFICES ASSUME TreeIInv, pc = "idle"
             PROVE  /\ {mPrint[i] : i \in DOMAIN mPrint} = accepted
                    /\ \A i, j \in DOMAIN mPrint :
                         i < j => mPrint[i] < mPrint[j]
  BY DEF PrintsInOrder
<1>1. TreeTypeOK /\ KeysOK
  BY DEF TreeIInv
<1>2. PICK lo \in [Idx -> Idx], hi \in [Idx -> Idx] : Sorted(lo, hi)
  BY DEF TreeIInv
<1>3. PICK printed : printed = mPrint
  OBVIOUS
<1>4. printed = [x \in Node |-> key[x]]
  BY <1>1, <1>2, <1>3, PrintsAll DEF Node
<1>5. accepted = {key[i] : i \in Node}
  BY <1>1 DEF KeysOK, Node
<1>6. \A i, j \in Node : i < j => key[i] < key[j]
  BY <1>1 DEF KeysOK
<1> QED
  BY <1>3, <1>4, <1>5, <1>6

\* Between calls, the elements given out, printed and counted are as many.
LEMMA ElementsBetweenCalls == TreeIInv => NoElementIsLost
<1> SUFFICES ASSUME TreeIInv, pc = "idle"
             PROVE  Len(mPrint) = currIdx /\ size = currIdx
  BY DEF NoElementIsLost
<1>1. TreeTypeOK /\ KeysOK
  BY DEF TreeIInv
<1>2. PICK lo \in [Idx -> Idx], hi \in [Idx -> Idx] : Sorted(lo, hi)
  BY DEF TreeIInv
<1>3. mPrint = [x \in 1..currIdx |-> key[x]]
  BY <1>1, <1>2, PrintsAll
<1>4. currIdx \in Nat /\ size = currIdx
  BY <1>1, <1>2, RootFacts DEF KeysOK
<1>5. PICK printed : printed = [x \in 1..currIdx |-> key[x]]
  OBVIOUS
<1>6. Len(printed) = currIdx
  BY <1>4, <1>5
<1> QED
  BY <1>3, <1>4, <1>5, <1>6

-----------------------------------------------------------------------------
(* What main.cpp looks for when it prints the tree.                        *)

\* Between calls, size_ and curr_idx_ both count the elements that are in the
\* tree, whichever way the calls have ended, for every length of the array.
THEOREM NoElementTheorem ==
  ASSUME Ascending PROVE TreeSpec => []NoElementIsLost
BY ElementsBetweenCalls, TreeInvariantTheorem, PTL

\* Between calls, search finds exactly the keys insert has returned true for
\* (rb_tree_array.cpp:290): no repair loses a subtree.
THEOREM SearchTheorem ==
  ASSUME Ascending PROVE TreeSpec => []AcceptedAreFound
BY FoundBetweenCalls, TreeInvariantTheorem, PTL

\* Between calls, mPrint prints each of them once, in ascending order.
THEOREM PrintTheorem ==
  ASSUME Ascending PROVE TreeSpec => []PrintsInOrder
BY PrintsBetweenCalls, TreeInvariantTheorem, PTL

\* Between calls, the tree is a red-black tree: the root is black, no red node
\* has a red child, and all paths down to a leaf have as many black nodes.
THEOREM RedBlackTheorem ==
  ASSUME Ascending PROVE TreeSpec => []IsRedBlack
BY RedBlackBetweenCalls, TreeInvariantTheorem, PTL
=============================================================================

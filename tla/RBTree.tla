------------------------------- MODULE RBTree -------------------------------
(***************************************************************************)
(* rb_tree_array.cpp: a red-black tree whose nodes are the elements of one *)
(* array and whose links are indices into it; index 0 is the common leaf.  *)
(* insert walks down with a stack of the nodes it passes, attaches the new *)
(* node and repairs the colours walking up that stack.  One step of the    *)
(* model is one iteration of one of its loops.                             *)
(***************************************************************************)
EXTENDS Integers, Sequences

CONSTANTS
  Key,       \* the keys that may be inserted
  Capacity,  \* capacity_, the length of the array
  Ascending  \* keys arrive in ascending order, as main.cpp inserts them

ASSUME ConstantsAssumption ==
  /\ Key \subseteq Nat \ {0}
  /\ Capacity \in Nat \ {0}
  /\ Ascending \in BOOLEAN

VARIABLES
  key, child, color,       \* root_[i].key_, .left_ and .right_, .color_
  rootIdx, currIdx, size,  \* root_idx_, curr_idx_, size_
  pc,                      \* where insert is
  newKey, p, stack,        \* its locals: key, p, re_stack_
  idxBk, top,              \* and those of insertFix
  accepted                 \* the keys insert has returned true for

treeVars == <<key, child, color, rootIdx, currIdx, size>>
callVars == <<newKey, p, stack, idxBk, top>>
allVars == <<treeVars, pc, callVars, accepted>>

Idx == 0..(Capacity - 1)
Nil == 0

\* left_ and right_; insertFix has one branch for each, mirror images.
Side == {"left", "right"}
Opposite(s) == IF s = "left" THEN "right" ELSE "left"

isFull == size = Capacity - 1

\* The next free element, or the leaf if there is none.
allocIndex == IF currIdx < Capacity - 1 THEN currIdx + 1 ELSE Nil

TreeInit ==
  /\ key = [i \in Idx |-> 0]
  /\ child = [i \in Idx |-> [s \in Side |-> Nil]]
  /\ color = [i \in Idx |-> IF i = Nil THEN "black" ELSE "red"]
  /\ rootIdx = Nil /\ currIdx = 0 /\ size = 0
  /\ pc = "idle"
  /\ newKey = 0 /\ p = Nil /\ stack = <<>> /\ idxBk = Nil /\ top = 0
  /\ accepted = {}

\* insert returns; its locals are gone.
Return ==
  /\ pc' = "idle"
  /\ newKey' = 0 /\ p' = Nil /\ stack' = <<>> /\ idxBk' = Nil /\ top' = 0

\* insert returns true.
Accept ==
  /\ size' = size + 1
  /\ accepted' = accepted \cup {newKey}
  /\ Return

-----------------------------------------------------------------------------
\* The first element becomes a black root.
RootAt(n, k) ==
  /\ currIdx' = n
  /\ key' = [key EXCEPT ![n] = k]
  /\ color' = [color EXCEPT ![n] = "black"]
  /\ rootIdx' = n
  /\ size' = 1
  /\ accepted' = {k}
  /\ UNCHANGED <<child, pc, callVars>>

InsertRoot(k) ==
  /\ pc = "idle" /\ ~isFull
  /\ size = 0 /\ rootIdx = Nil
  /\ IF allocIndex = Nil THEN UNCHANGED allVars ELSE RootAt(allocIndex, k)

\* Otherwise insert starts to look for the new node's parent.
InsertBegin(k) ==
  /\ pc = "idle" /\ ~isFull
  /\ size # 0 \/ rootIdx # Nil
  /\ pc' = "descend"
  /\ newKey' = k /\ p' = rootIdx
  /\ UNCHANGED <<treeVars, stack, idxBk, top, accepted>>

\* One level down.
Descend ==
  /\ pc = "descend" /\ p # Nil /\ key[p] # newKey
  /\ stack' = Append(stack, p)
  /\ p' = child[p][IF key[p] < newKey THEN "right" ELSE "left"]
  /\ UNCHANGED <<treeVars, pc, newKey, idxBk, top, accepted>>

\* Mutant: an element is released that was never taken.
DuplicateReleases ==
  /\ pc = "descend" /\ p # Nil /\ key[p] = newKey
  /\ currIdx' = currIdx - 1
  /\ Return
  /\ UNCHANGED <<key, child, color, rootIdx, size, accepted>>

\* "The element is already in it."
Duplicate ==
  /\ pc = "descend" /\ p # Nil /\ key[p] = newKey
  /\ Return
  /\ UNCHANGED <<treeVars, accepted>>

\* Mutant: connect compares the other way round.
connectReversed(x, n) ==
  child' = [child EXCEPT ![x][IF key[x] > newKey THEN "right" ELSE "left"] = n]

\* connect(x, n), for the x the descent ended at: it is in the tree and its
\* key differs, so the code's other returns are never taken.
connect(x, n) ==
  child' = [child EXCEPT ![x][IF key[x] > newKey THEN "left" ELSE "right"] = n]

\* The new node is attached; below the root there is nothing to repair.
AttachAt(n) ==
  /\ currIdx' = n
  /\ key' = [key EXCEPT ![n] = newKey]
  /\ connect(stack[Len(stack)], n)
  /\ IF Len(stack) = 1 THEN Accept
     ELSE /\ pc' = "fix" /\ idxBk' = n /\ top' = Len(stack) - 1
          /\ UNCHANGED <<newKey, p, stack, size, accepted>>
  /\ UNCHANGED <<color, rootIdx>>

\* It is attached, unless there is no element left for it.
Attach ==
  /\ pc = "descend" /\ p = Nil
  /\ IF allocIndex = Nil THEN Return /\ UNCHANGED <<treeVars, accepted>>
     ELSE AttachAt(allocIndex)

-----------------------------------------------------------------------------
(* insertFix.  re_stack[i] is stack[i + 1].                                *)

parent == stack[top + 1]
grandParent == stack[top]
side == IF parent = child[grandParent]["left"] THEN "left" ELSE "right"
uncle == child[grandParent][Opposite(side)]

\* Mutant: the root is left as the repair has coloured it.
FinishRedRoot(c, root) == color' = c /\ Accept

\* The end of insertFix: the root is set black.
Finish(c, root) == color' = [c EXCEPT ![root] = "black"] /\ Accept

FixDone ==
  /\ pc = "fix" /\ color[parent] = "black"
  /\ Finish(color, rootIdx)
  /\ UNCHANGED <<key, child, rootIdx, currIdx>>

\* Mutant: the grandparent keeps its colour.
FlippedKeepingGrandParent ==
  [color EXCEPT ![uncle] = "black", ![parent] = "black"]

Flipped ==
  [color EXCEPT ![uncle] = "black", ![parent] = "black",
                ![grandParent] = "red"]

\* Case 1, a red uncle: recolour, and go on from the grandparent.
FixFlip ==
  /\ pc = "fix" /\ color[parent] = "red" /\ top >= 1
  /\ uncle # Nil /\ color[uncle] = "red"
  /\ IF top < 2 THEN Finish(Flipped, rootIdx)
     ELSE /\ color' = Flipped
          /\ idxBk' = grandParent /\ top' = top - 2
          /\ UNCHANGED <<pc, newKey, p, stack, size, accepted>>
  /\ UNCHANGED <<key, child, rootIdx, currIdx>>

\* Case 2 turns an inner child outward.  idx_bk becomes the old parent, and
\* so does, by way of the stack, parent itself.
Straightened(s) ==
  IF idxBk # child[parent][Opposite(s)] THEN child
  ELSE [child EXCEPT ![grandParent][s] = idxBk,
                     ![parent][Opposite(s)] = child[idxBk][s],
                     ![idxBk][s] = parent]

\* Cases 2 and 3, a black uncle: the parent takes the grandparent's place,
\* on the SAME side of the great-grandparent as it had below the grandparent.
FixRotate ==
  LET s == side
      o == Opposite(side)
      before == Straightened(s)
      rotated == [before EXCEPT ![grandParent][s] = before[parent][o],
                                ![parent][o] = grandParent]
  IN  /\ pc = "fix" /\ color[parent] = "red" /\ top >= 1
      /\ uncle = Nil \/ color[uncle] = "black"
      /\ rootIdx' = IF top = 1 THEN parent ELSE rootIdx
      /\ child' = IF top = 1 THEN rotated
                  ELSE [rotated EXCEPT ![stack[top - 1]][s] = parent]
      /\ Finish([color EXCEPT ![grandParent] = "red", ![parent] = "black"],
                rootIdx')
      /\ UNCHANGED <<key, currIdx>>

-----------------------------------------------------------------------------
\* The array is empty, and its leaf has the given colour.
Emptied(leafColor) ==
  /\ key' = [i \in Idx |-> 0]
  /\ child' = [i \in Idx |-> [s \in Side |-> Nil]]
  /\ color' = [i \in Idx |-> IF i = Nil THEN leafColor ELSE "red"]
  /\ rootIdx' = Nil /\ currIdx' = 0 /\ size' = 0
  /\ accepted' = {}
  /\ UNCHANGED callVars

\* clear: the whole array is zeroed, the leaf's colour with it.
clear ==
  /\ pc = "idle" /\ size > 0
  /\ Emptied("red")
  /\ UNCHANGED pc

\* destroy gives the array back, and init makes another one.
destroy ==
  /\ pc = "idle"
  /\ Emptied("red")
  /\ pc' = "destroyed"

init ==
  /\ pc = "destroyed"
  /\ Emptied("black")
  /\ pc' = "idle"

\* The keys a caller may insert next.
Arriving == {k \in Key : Ascending => \A j \in accepted : j <= k}

TreeNext ==
  \/ \E k \in Arriving : InsertRoot(k) \/ InsertBegin(k)
  \/ Descend \/ Duplicate \/ Attach
  \/ FixDone \/ FixFlip \/ FixRotate
  \/ clear \/ destroy \/ init

TreeSpec == TreeInit /\ [][TreeNext]_allVars

-----------------------------------------------------------------------------
\* search: where its loop is after n iterations, and whether it finds k.
searchAfter(k) ==
  LET walk[n \in 0..Capacity] ==
        IF n = 0 THEN rootIdx
        ELSE LET q == walk[n - 1]
             IN  IF q = Nil \/ q > currIdx \/ key[q] = k THEN q
                 ELSE child[q][IF key[q] < k THEN "right" ELSE "left"]
  IN  walk[Capacity]

search(k) ==
  LET q == searchAfter(k) IN q # Nil /\ q <= currIdx /\ key[q] = k

\* mPrint: the keys below index i, as far as n levels down, in order.  A caller
\* gives each key itself as its value.
mPrintImpl ==
  LET print[n \in 0..Capacity] ==
        [i \in Idx |->
           IF n = 0 \/ i = Nil THEN <<>>
           ELSE print[n - 1][child[i]["left"]] \o <<key[i]>>
                  \o print[n - 1][child[i]["right"]]]
  IN  print[Capacity]

mPrint == mPrintImpl[rootIdx]

\* One element further down from the end of each path.
Longer(ends) ==
  {<<child[e[1]][s], e[2] + (IF color[e[1]] = "black" THEN 1 ELSE 0)>> :
     e \in {x \in ends : x[1] # Nil}, s \in Side}

\* Every path down from the root, as <<node, black nodes above it>>, by depth.
PathEnds ==
  LET at[d \in 0..Capacity] ==
        IF d = 0 THEN {<<rootIdx, 0>>} ELSE Longer(at[d - 1])
  IN  UNION {at[d] : d \in 0..Capacity}

TreeTypeOK ==
  /\ key \in [Idx -> Key \cup {0}]
  /\ child \in [Idx -> [Side -> Idx]]
  /\ color \in [Idx -> {"red", "black"}]
  /\ rootIdx \in Idx /\ currIdx \in Idx /\ size \in Idx
  /\ pc \in {"idle", "descend", "fix", "destroyed"}
  /\ newKey \in Key \cup {0} /\ p \in Idx /\ stack \in Seq(Idx)
  /\ idxBk \in Idx /\ top \in 0..(Capacity - 1)
  /\ accepted \subseteq Key

\* Between calls, the elements allocIndex has given out are the ones in the tree
\* and the ones size_ counts: however calls end, isFull (size_) and allocIndex
\* (curr_idx_) agree on whether there is room, and no element leaks.
NoElementIsLost ==
  pc = "idle" => Len(mPrint) = currIdx /\ size = currIdx

\* Between calls, search finds exactly the keys insert has accepted: no
\* repair loses a subtree.
AcceptedAreFound ==
  pc = "idle" => \A k \in Key : search(k) <=> k \in accepted

\* Between calls, mPrint prints the keys insert has accepted, each once, in
\* ascending order: the check that main makes by eye.
PrintsInOrder ==
  pc = "idle" =>
    /\ {mPrint[i] : i \in DOMAIN mPrint} = accepted
    /\ \A i, j \in DOMAIN mPrint : i < j => mPrint[i] < mPrint[j]

\* Between calls the tree is a red-black tree: a black root, no red node with
\* a red child, and as many black nodes on every path down to a leaf.
IsRedBlack ==
  pc = "idle" /\ rootIdx # Nil =>
    /\ color[rootIdx] = "black"
    /\ \A e \in PathEnds : e[1] # Nil /\ color[e[1]] = "red" =>
         \A s \in Side : child[e[1]][s] = Nil \/ color[child[e[1]][s]] = "black"
    /\ \A e1, e2 \in PathEnds : e1[1] = Nil /\ e2[1] = Nil => e1[2] = e2[2]

\* insertFix never looks below the bottom of the stack for a grandparent.
StackNeverUnderflows == pc = "fix" /\ color[parent] = "red" => top >= 1
=============================================================================

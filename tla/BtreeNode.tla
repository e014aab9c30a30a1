------------------------------ MODULE BtreeNode ------------------------------
(***************************************************************************)
(* The image of one B-tree node, and what mastersdb/mdb/mdbbtree.c does to *)
(* such images: the linear scan, the split, the merge, the two rotations.  *)
(* A node keeps its records in order, and an internal node one more child  *)
(* than records: the subtree kids[i] lies before recs[i].  Sequences count *)
(* from 1 where the arrays of the code count from 0.                       *)
(***************************************************************************)
EXTENDS Integers, SequencesExt

CONSTANTS Record,     \* the records a tree can hold
          Key,        \* their keys
          KeyOf(_),   \* the key at meta.key_position of a record
          Cmp(_, _),  \* mdbBtreeCmp of the tree's key type: the sign matters
          Order       \* meta.order, the T of the code

ASSUME OrderAssumption == Order \in Nat /\ Order >= 2

ASSUME KeyAssumption == \A r \in Record : KeyOf(r) \in Key

ASSUME CmpAssumption == \A j, k \in Key : Cmp(j, k) \in Int

(* A position in the file.  0 is "not written yet" and no node's address. *)
Page == Nat \ {0}

Node == [leaf : BOOLEAN, recs : Seq(Record), kids : Seq(Page)]

EmptyLeaf == [leaf |-> TRUE, recs |-> <<>>, kids |-> <<>>]

(* The image after demo/btree.c's DeleteNode has zeroed it. *)
ZeroNode == [leaf |-> FALSE, recs |-> <<>>, kids |-> <<>>]

(* The node with other records and children. *)
Holding(n, recs, kids) == [leaf |-> n.leaf, recs |-> recs, kids |-> kids]

Count(n) == Len(n.recs)

MaxCount == 2 * Order - 1

Full(n) == Count(n) = MaxCount

(* What the arrays of a node have room for. *)
WellFormed(n) ==
  /\ Count(n) <= MaxCount
  /\ Len(n.kids) = IF n.leaf THEN 0 ELSE Count(n) + 1

(* Mutant: a node with T - 1 records may give one up. *)
SparesTooEarly(n) == Count(n) >= Order - 1

(* Can give up a record and still be as large as every node must be. *)
CanSpare(n) == Count(n) >= Order

-----------------------------------------------------------------------------
(* The while loop every recursive function starts with stops at slot i.    *)
Stops(n, k, i) ==
  /\ i \in 1 .. Count(n) + 1
  /\ \A j \in 1 .. i - 1 : Cmp(k, KeyOf(n.recs[j])) > 0
  /\ i <= Count(n) => Cmp(k, KeyOf(n.recs[i])) <= 0

(* The comparison after the loop: slot i holds the key. *)
Hits(n, k, i) == i <= Count(n) /\ Cmp(k, KeyOf(n.recs[i])) = 0

-----------------------------------------------------------------------------
(* Mutants: left's count keeps the median; the copy to right leaves out its
   first record, its first child. *)
LeftHalfWithMedian(n) ==
  Holding(n, SubSeq(n.recs, 1, Order),
             IF n.leaf THEN <<>> ELSE SubSeq(n.kids, 1, Order))

RightHalfTooShort(n) ==
  Holding(n, SubSeq(n.recs, Order + 2, MaxCount),
             IF n.leaf THEN <<>> ELSE SubSeq(n.kids, Order + 1, 2 * Order))

RightHalfChildLess(n) ==
  Holding(n, SubSeq(n.recs, Order + 1, MaxCount),
             IF n.leaf THEN <<>> ELSE SubSeq(n.kids, Order + 2, 2 * Order))

(* mdbBtreeSplitNode: the halves of a full node and the record between.    *)
LeftHalf(n) ==
  Holding(n, SubSeq(n.recs, 1, Order - 1),
             IF n.leaf THEN <<>> ELSE SubSeq(n.kids, 1, Order))

RightHalf(n) ==
  Holding(n, SubSeq(n.recs, Order + 1, MaxCount),
             IF n.leaf THEN <<>> ELSE SubSeq(n.kids, Order + 1, 2 * Order))

Median(n) == n.recs[Order]

(* Mutant: the right half goes before the left one. *)
AdoptBefore(parent, i, median, right) ==
  Holding(parent, InsertAt(parent.recs, i, median),
                  InsertAt(parent.kids, i, right))

(* The parent takes the median into slot i and the right half after it. *)
Adopt(parent, i, median, right) ==
  Holding(parent, InsertAt(parent.recs, i, median),
                  InsertAt(parent.kids, i + 1, right))

(* Mutant: right's position is taken before right is written. *)
NewRootUnwritten(median, left, right) ==
  [leaf |-> FALSE, recs |-> <<median>>, kids |-> <<left, 0>>]

NewRoot(median, left, right) ==
  [leaf |-> FALSE, recs |-> <<median>>, kids |-> <<left, right>>]

-----------------------------------------------------------------------------
(* Leaf insertion and removal shift the records behind slot i.             *)
WithRecord(n, i, r) == Holding(n, InsertAt(n.recs, i, r), n.kids)

(* Mutant: the count drops, the records behind slot i stay. *)
WithoutLast(n, i) == Holding(n, Front(n.recs), n.kids)

WithoutRecord(n, i) == Holding(n, RemoveAt(n.recs, i), n.kids)

(* mdbBtreeMergeNodes: left takes the median and all of right ... *)
Merged(left, median, right) ==
  Holding(left, Append(left.recs, median) \o right.recs,
                left.kids \o right.kids)

(* Mutants: the parent loses the child before the median; its last child. *)
DropBefore(parent, i) ==
  Holding(parent, RemoveAt(parent.recs, i), RemoveAt(parent.kids, i))

DropLast(parent, i) ==
  Holding(parent, RemoveAt(parent.recs, i), Front(parent.kids))

(* ... and the parent loses the median's slot and the child after it. *)
Drop(parent, i) ==
  Holding(parent, RemoveAt(parent.recs, i), RemoveAt(parent.kids, i + 1))

-----------------------------------------------------------------------------
(* The rotations: BT_COPYPREDECESSOR and BT_COPYSUCCESSOR take the last,   *)
(* respectively the first, record of a sibling, whatever its level.        *)
Replace(n, i, r) == Holding(n, [n.recs EXCEPT ![i] = r], n.kids)

LastRecord(n) == Last(n.recs)

FirstRecord(n) == Head(n.recs)

(* Mutants: the borrowing node's count stays what it was; the lender's
   children are not shifted. *)
GainNothing(n, r, from) ==
  Holding(n, n.recs,
             IF n.leaf THEN <<>> ELSE <<Last(from.kids)>> \o n.kids)

LoseFirstUnshifted(n) ==
  Holding(n, Tail(n.recs), IF n.leaf THEN <<>> ELSE Front(n.kids))

GainFirst(n, r, from) ==
  Holding(n, <<r>> \o n.recs,
             IF n.leaf THEN <<>> ELSE <<Last(from.kids)>> \o n.kids)

GainLast(n, r, from) ==
  Holding(n, Append(n.recs, r),
             IF n.leaf THEN <<>> ELSE Append(n.kids, Head(from.kids)))

LoseLast(n) ==
  Holding(n, Front(n.recs), IF n.leaf THEN <<>> ELSE Front(n.kids))

LoseFirst(n) ==
  Holding(n, Tail(n.recs), IF n.leaf THEN <<>> ELSE Tail(n.kids))
=============================================================================

----------------------------- MODULE BtreeWrites -----------------------------
(***************************************************************************)
(* The order in which mastersdb/mdb/mdbbtree.c writes the nodes it has     *)
(* changed in memory.  Btree treats a page and the images of it in memory  *)
(* as one; here `file' holds what mdbWriteNode has written, and a step of  *)
(* Btree leaves behind the calls of mdbWriteNode it makes, in the order of *)
(* the code.  A node whose position is still 0 is written at the end of    *)
(* the file, wherever that is.                                             *)
(***************************************************************************)
EXTENDS Btree

(* mdbDeleteNode does nothing. *)
ASSUME FileAssumption == ~Wipe

VARIABLES file,       \* the nodes in the file, in the order of allocation
          writes      \* the pages the current step has yet to write

writeVars == <<vars, file, writes>>

WriteInit == Init /\ file = disk /\ writes = <<>>

(* Where the while loop of the current activation stops, and the child
   between the records there. *)
Slot == CHOOSE i \in 1 .. Count(disk[at]) + 1 : Stops(disk[at], key, i)

ChildAt(i) == disk[at].kids[i]

(* Mutants: the parent of two halves is written before the new one; of two
   merged nodes the parent is written first; the sibling that gave up a
   record is not written. *)
SplitParentFirst(left, parent) == <<left, parent, Len(disk) + 1>>

MergeParentFirst(left, parent) == <<parent, left>>

RotateUnfinished(from, to) == <<to, at>>

SplitWrites(left, parent) == <<left, Len(disk) + 1, parent>>

MergeWrites(left, parent) == <<left, parent>>

RotateWrites(from, to) == <<from, to, at>>

(* A step of Btree, once the one before it has written its nodes. *)
WritingStep ==
  /\ writes = <<>>
  /\ \/ /\ InsertIntoLeaf \/ DeleteFromLeaf
             \/ DeleteByPredecessor \/ DeleteBySuccessor
        /\ writes' = <<at>>
     \/ InsertSplitsChild /\ writes' = SplitWrites(ChildAt(Slot), at)
     \/ DeleteByMerge /\ writes' = MergeWrites(ChildAt(Slot), at)
     \/ DeleteMergesLeft /\ writes' = MergeWrites(ChildAt(Slot - 1), at)
     \/ DeleteMergesRight /\ writes' = MergeWrites(ChildAt(Slot), at)
     \/ /\ DeleteBorrowsLeft
        /\ writes' = RotateWrites(ChildAt(Slot - 1), ChildAt(Slot))
     \/ /\ DeleteBorrowsRight
        /\ writes' = RotateWrites(ChildAt(Slot + 1), ChildAt(Slot))
     \/ /\ \/ InsertCollides \/ InsertDescends \/ SearchStep
           \/ DeleteMisses \/ DeleteDescends
        /\ writes' = <<>>
  /\ UNCHANGED file

(* A call.  The new root is not in the file when the halves of the old one
   are written. *)
WritingCall ==
  /\ writes = <<>>
  /\ \/ /\ \E r \in Record : InsertSplitRoot(r)
        /\ writes' = SplitWrites(root, Len(disk) + 2)
     \/ /\ (\E r \in Record : Insert(r)) \/ SearchCall \/ DeleteCall
        /\ writes' = <<>>
  /\ UNCHANGED file

mdbWriteNode ==
  /\ writes # <<>>
  /\ LET page == Head(writes)
     IN  file' = IF page \in DOMAIN file
                   THEN [file EXCEPT ![page] = disk[page]]
                   ELSE Append(file, disk[page])
  /\ writes' = Tail(writes)
  /\ UNCHANGED vars

WriteNext == WritingStep \/ WritingCall \/ mdbWriteNode

-----------------------------------------------------------------------------
(* Every node a step changes in memory is also written, and a new one at the
   position its parent gives for it: with nothing left to write the file is
   the tree that the functions work on.  This is what lets Btree treat the
   two as one. *)
AllWritten == writes = <<>> => file = disk

(* Children are written before their parents (mdbBtreeSplitNode): at no
   moment does a node in the file point to a page that is not there. *)
ChildrenFirst ==
  \A p \in DOMAIN file : ToSet(file[p].kids) \subseteq DOMAIN file

(* The records of the tree that are in the file, in a page in use. *)
RecordsInFile ==
  RecordsBelow(root)
    \cap UNION {ToSet(file[p].recs) : p \in Live \cap DOMAIN file}

(* Only the first of the three writes of a split or a rotation takes records
   out of the file: when a merge is cut short (mdbBtreeMergeNodes) they are there
   twice, never missing. *)
MergeLosesNothing ==
  [][mdbWriteNode /\ Len(writes) < 3 =>
       RecordsInFile \subseteq RecordsInFile']_writeVars
=============================================================================

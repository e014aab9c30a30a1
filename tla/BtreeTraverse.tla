---------------------------- MODULE BtreeTraverse ----------------------------
(***************************************************************************)
(* A scan of the B-tree: mdbBtreeTraverse (mastersdb/mdb/mdbbtree.c) as    *)
(* mdbVirtualTable::NextRecord and demo/btree.c call it.  The linked list  *)
(* of mdbBtreeTraversal structures is a path from the root: each entry     *)
(* names a page and counts the records of it already returned.             *)
(*                                                                         *)
(* A statement that scans a table changes none, so the tree stands still   *)
(* while the list exists and the nodes read on the way are the pages.      *)
(***************************************************************************)
EXTENDS Btree

VARIABLES cursor,     \* the list, the root's entry first; <<>>: no scan
          last,       \* the record the scan returned last
          ended       \* history: the scan got MDB_BTREE_NO_MORE_RECORDS

scan == <<cursor, last, ended>>
scanVars == <<vars, scan>>

ScanInit == Init /\ cursor = <<>> /\ last = None /\ ended = FALSE

Entry(page) == [page |-> page, position |-> 0]

NodeOf(entry) == disk[entry.page]

(* Mutant: the last record counts as returned. *)
ExhaustedEarly(entry) == entry.position >= Count(NodeOf(entry)) - 1

Exhausted(entry) == entry.position = Count(NodeOf(entry))

(* The child the entry's position leads to, and a record further. *)
Child(entry) == NodeOf(entry).kids[entry.position + 1]

(* Mutant: the position is not incremented. *)
Unmoved(entry) == entry

Advanced(entry) == [entry EXCEPT !.position = @ + 1]

RecordAt(entry) == NodeOf(entry).recs[entry.position + 1]

(* The while loop at the start goes down to a leaf, one level at a time. *)
ToLeaf(path) ==
  LET down[d \in 0 .. height[Last(path).page]] ==
        IF d = 0 THEN path
                 ELSE Append(down[d - 1], Entry(Child(Last(down[d - 1]))))
  IN  down[height[Last(path).page]]

(* A record of the leaf, or of the lowest page above that has one left; its
   right child is where the next call goes on. *)
FromLeaf(path) ==
  /\ ~Exhausted(Last(path))
  /\ last' = RecordAt(Last(path))
  /\ cursor' = Append(Front(path), Advanced(Last(path)))
  /\ UNCHANGED ended

(* Mutants: the child loaded is the one just left; the record comes from any
   page above that has one left. *)
FromAboveAgain(path) ==
  /\ Exhausted(Last(path))
  /\ \E d \in 1 .. Len(path) - 1 :
       /\ ~Exhausted(path[d])
       /\ \A e \in d + 1 .. Len(path) : Exhausted(path[e])
       /\ last' = RecordAt(path[d])
       /\ cursor' = SubSeq(path, 1, d - 1)
                      \o <<Advanced(path[d]), Entry(Child(path[d]))>>
  /\ UNCHANGED ended

FromAnyAbove(path) ==
  /\ Exhausted(Last(path))
  /\ \E d \in 1 .. Len(path) - 1 :
       LET next == Advanced(path[d])
       IN  /\ ~Exhausted(path[d])
           /\ last' = RecordAt(path[d])
           /\ cursor' = SubSeq(path, 1, d - 1) \o <<next, Entry(Child(next))>>
  /\ UNCHANGED ended

FromAbove(path) ==
  /\ Exhausted(Last(path))
  /\ \E d \in 1 .. Len(path) - 1 :
       LET next == Advanced(path[d])
       IN  /\ ~Exhausted(path[d])
           /\ \A e \in d + 1 .. Len(path) : Exhausted(path[e])
           /\ last' = RecordAt(path[d])
           /\ cursor' = SubSeq(path, 1, d - 1) \o <<next, Entry(Child(next))>>
  /\ UNCHANGED ended

NoMoreRecords(path) ==
  /\ \A d \in 1 .. Len(path) : Exhausted(path[d])
  /\ cursor' = <<Head(path)>>
  /\ ended' = TRUE
  /\ UNCHANGED last

(* The first call makes the root's entry. *)
NextRecord ==
  /\ pc = "idle"
  /\ LET path == ToLeaf(IF cursor = <<>> THEN <<Entry(root)>> ELSE cursor)
     IN  FromLeaf(path) \/ FromAbove(path) \/ NoMoreRecords(path)
  /\ UNCHANGED vars

(* The statement ends and gives its list up. *)
Reset ==
  /\ ended
  /\ cursor' = <<>> /\ last' = None /\ ended' = FALSE
  /\ UNCHANGED vars

-----------------------------------------------------------------------------
(* Scans of a tree at any time between two insertions. *)
GrowScanNext ==
  \/ NextRecord \/ Reset
  \/ cursor = <<>> /\ GrowNext /\ UNCHANGED scan

GrowScanSpec ==
  /\ ScanInit
  /\ [][GrowScanNext]_scanVars
  /\ WF_scanVars(cursor # <<>> /\ NextRecord)

-----------------------------------------------------------------------------
(* The list is a path down the tree: each entry's page is the child that the
   entry before it is at, and no entry has counted past its records.  This
   also holds of a scan that is asked for records after its end. *)
CursorIsPath ==
  /\ cursor # <<>> => cursor[1].page = root
  /\ \A d \in DOMAIN cursor :
       /\ cursor[d].position <= Count(NodeOf(cursor[d]))
       /\ d > 1 => cursor[d].page = Child(cursor[d - 1])

(* The records of the tree that lie above the one returned last. *)
Ahead ==
  {r \in RecordsBelow(root) :
     last # None => Cmp(KeyOf(r), KeyOf(last)) > 0}

(* A scan returns the records in ascending order of their keys and passes
   over none: the next one is the least of those ahead. *)
ScanInOrder ==
  [][NextRecord /\ ~ended' =>
       last' \in Ahead /\ \A r \in Ahead : Cmp(KeyOf(r), KeyOf(last')) >= 0
    ]_scanVars

(* Told that there are no more records, the caller has seen them all. *)
EndMeansAll == [][~ended /\ ended' => Ahead = {}]_scanVars

(* A scan comes to its end, or the program is killed and it with it. *)
ScanEnds == cursor # <<>> ~> ended \/ cursor = <<>>
=============================================================================

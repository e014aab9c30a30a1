------------------------------ MODULE BtreeFile ------------------------------
(***************************************************************************)
(* A table's B-tree across statements.  Every statement loads the table    *)
(* from its descriptor in the file (mdbLoadTable, mastersdb/mdb/mdbtable.c)*)
(* works on it through a virtual table, and puts it away again             *)
(* (mdbVirtualTable::Reset).  The system tables are loaded and put away    *)
(* the same way with the database (mdbOpenDatabase, mdbCloseDatabase).     *)
(* The descriptor is written once, when the table is created; a split of   *)
(* the root makes a new root elsewhere.                                    *)
(*                                                                         *)
(* The program may be killed between any two writes: what is in memory is  *)
(* gone, what was written is there.                                        *)
(***************************************************************************)
EXTENDS BtreeTraverse, BtreeWrites

VARIABLES root_position,  \* of the B-tree descriptor in the file
          loaded          \* a statement has the table loaded

fileVars == <<scanVars, file, writes, root_position, loaded>>

(* mdbCreateTable writes the empty leaf and a descriptor that names it. *)
FileInit ==
  /\ ScanInit /\ WriteInit
  /\ root_position = root /\ loaded = TRUE

(* A B-tree function called by the statement, a step of it, or a write.  A
   statement that scans a table changes none. *)
Statement ==
  /\ loaded
  /\ cursor = <<>>
  /\ WriteNext
  /\ UNCHANGED <<scan, root_position, loaded>>

(* The statement's loop over the table. *)
Scan ==
  /\ loaded
  /\ writes = <<>>
  /\ NextRecord
  /\ UNCHANGED <<file, writes, root_position, loaded>>

(* mdbVirtualTable::Reset, between two calls and never inside a scan: the
   root node is written to its page, which holds it already. *)
PutAway ==
  /\ loaded /\ pc = "idle" /\ writes = <<>>
  /\ cursor # <<>> => ended
  /\ loaded' = FALSE
  /\ file' = [file EXCEPT ![root] = disk[root]]
  /\ cursor' = <<>> /\ last' = None /\ ended' = FALSE
  /\ UNCHANGED <<vars, writes, root_position>>

(* The pages of a tree of this length whose root the descriptor names: the
   others, given to DeleteNode or not, are no longer in use. *)
GivenUp(length) == freed \cup (1 .. length \ {root_position})

LoadTable ==
  /\ ~loaded
  /\ loaded' = TRUE
  /\ root' = root_position /\ at' = root_position
  /\ freed' = GivenUp(Len(disk))
  /\ UNCHANGED <<disk, height, pc, arg, rec, key, alias, result>>
  /\ UNCHANGED <<scan, file, writes, root_position>>

(* The program is killed; `root' is what the next LoadTable will find. *)
Crash ==
  /\ loaded
  /\ disk' = file
  /\ height' = SubSeq(height, 1, Len(file))
  /\ freed' = GivenUp(Len(file)) \cap DOMAIN file
  /\ root' = root_position /\ at' = root_position
  /\ pc' = "idle" /\ arg' = None /\ rec' = None
  /\ key' = None /\ alias' = "caller"
  /\ ret' = "MDB_NO_ERROR" /\ out' = None
  /\ cursor' = <<>> /\ last' = None /\ ended' = FALSE
  /\ writes' = <<>> /\ loaded' = FALSE
  /\ UNCHANGED <<file, root_position>>

FileNext == Statement \/ Scan \/ PutAway \/ LoadTable \/ Crash

(* A statement that scans loops until it is told that there is no record. *)
FileSpec ==
  FileInit /\ [][FileNext]_fileVars /\ WF_fileVars(cursor # <<>> /\ Scan)

-----------------------------------------------------------------------------
(* "position of the root node in the file" (mdbtypes.h:55): whoever loads the
   table finds its root there. *)
RootPositionInFile == ~loaded => root_position = root

(* Whatever happens to the tree, the page the descriptor names stays a leaf
   that was never given to DeleteNode: a merge keeps the left page, and no
   page is to the left of this one. *)
DescriptorNamesLeaf ==
  root_position \in Live /\ disk[root_position].leaf

(* The record of an insertion that has returned before its node is written:
   the last write of a call is the only one left. *)
Unwritten ==
  IF pc = "idle" /\ Len(writes) = 1 /\ Head(writes) \in DOMAIN file
    THEN ToSet(disk[Head(writes)].recs) \ ToSet(file[Head(writes)].recs)
    ELSE {}

(* A table that is loaded again has lost the records above a certain key,
   never one below a record it still has.  The same holds of the records
   written when the program is killed, between any two of the writes of a
   split, a merge or a rotation. *)
SmallestSurvive ==
  [][LoadTable \/ Crash =>
       \A r \in RecordsBelow(root) \ Unwritten :
         \/ r \in RecordsBelow(root)'
         \/ \A s \in RecordsBelow(root)' : Cmp(KeyOf(s), KeyOf(r)) < 0
    ]_fileVars

(* What was loaded is a B-tree again, in good shape and order as far as its
   root reaches, however often the table was put away and loaded. *)
LoadedIsBtree ==
  \A p \in PagesBelow(root) :
    /\ p \in Live
    /\ WellFormed(disk[p])
    /\ p # root => Count(disk[p]) >= Order - 1
    /\ \A i \in DOMAIN disk[p].kids :
         height[disk[p].kids[i]] = height[p] - 1
    /\ pc # "delete" /\ ~disk[p].leaf =>
         \A i \in 1 .. Count(disk[p]) :
           /\ \A s \in RecordsBelow(disk[p].kids[i]) :
                Cmp(KeyOf(s), KeyOf(disk[p].recs[i])) < 0
           /\ \A s \in RecordsBelow(disk[p].kids[i + 1]) :
                Cmp(KeyOf(s), KeyOf(disk[p].recs[i])) > 0
=============================================================================

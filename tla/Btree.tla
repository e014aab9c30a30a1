-------------------------------- MODULE Btree --------------------------------
(***************************************************************************)
(* The B-tree of mastersdb/mdb/mdbbtree.c as a step machine: one action    *)
(* for each way through one activation of mdbBtreeInsert,                  *)
(* mdbBtreeInsertRecursive, mdbBtreeSearch, mdbBtreeSearchRecursive,       *)
(* mdbBtreeDelete and mdbBtreeDeleteRecursive.  Every recursive call is    *)
(* the last thing its caller does to the tree, so the page of the current  *)
(* activation (`at') and its key are all there is of the call stack.       *)
(*                                                                         *)
(* A node image held in memory is written before anyone else can read its  *)
(* page, so a page stands for both.  `height' is a history variable: it    *)
(* records how high above the leaves a page was created.                   *)
(***************************************************************************)
EXTENDS BtreeNode

CONSTANTS None,       \* no record, no key
          Wipe,       \* DeleteNode zeroes the page (demo/btree.c) or does
                      \*   nothing (mdbDeleteNode)
          MaxPages    \* bound: an insertion starts only while the file is
                      \*   shorter

ASSUME WipeAssumption == Wipe \in BOOLEAN

ASSUME NoneAssumption == None \notin Record

VARIABLES disk,       \* the nodes in the file, in the order of allocation
          height,     \* history: the level of each page above the leaves
          root,       \* t->root->position
          freed,      \* the pages that went through t->DeleteNode, or that
                      \*   are not the tree's that was loaded
          pc,         \* the function being executed, "idle" between calls
          arg,        \* the key the caller asked for
          rec,        \* the record the caller inserts
          at,         \* the page of `node' in the current activation
          key,        \* the key the current activation looks for
          alias,      \* what `key' points to: the caller's buffer, or the
                      \*   first or last record of the current node's buffer
          ret,        \* the mdbError of the last call
          out         \* the buffer mdbBtreeSearch copies the record to

tree == <<disk, height, root, freed>>
call == <<pc, arg, rec, at, key, alias>>
result == <<ret, out>>
vars == <<tree, call, result>>

Error == {"MDB_NO_ERROR", "MDB_BTREE_KEY_COLLISION",
          "MDB_BTREE_KEY_NOT_FOUND", "MDB_BTREE_ROOT_IS_EMPTY"}

(* demo/btree.c and mdbCreateTable start with an empty leaf as root. *)
Init ==
  /\ disk = <<EmptyLeaf>>
  /\ height = <<0>>
  /\ root = 1
  /\ freed = {}
  /\ pc = "idle" /\ arg = None /\ rec = None
  /\ at = 1 /\ key = None /\ alias = "caller"
  /\ ret = "MDB_NO_ERROR"
  /\ out = None

-----------------------------------------------------------------------------
(* Entering a function, going one activation deeper, returning.            *)
Enter(f, k, r, page) ==
  /\ pc = "idle"
  /\ pc' = f /\ arg' = k /\ rec' = r
  /\ at' = page /\ key' = k /\ alias' = "caller"
  /\ ret' = "MDB_NO_ERROR" /\ out' = None

(* Mutant: the recursive call gets the node instead of the child. *)
RecurseHere(page, k, a) ==
  /\ at' = at /\ key' = k /\ alias' = a
  /\ UNCHANGED <<pc, arg, rec, result>>

Recurse(page, k, a) ==
  /\ at' = page /\ key' = k /\ alias' = a
  /\ UNCHANGED <<pc, arg, rec, result>>

Return(error) ==
  /\ pc' = "idle" /\ arg' = None /\ rec' = None
  /\ at' = root /\ key' = None /\ alias' = "caller"
  /\ ret' = error

(* The right half of a split is appended to the file. *)
Split(page, parent, newParent) ==
  /\ disk' = Append([disk EXCEPT ![page] = LeftHalf(disk[page]),
                                  ![parent] = newParent],
                    RightHalf(disk[page]))
  /\ height' = Append(height, height[page])

(* Mutant: right absorbs left. *)
MergeIntoRight(parent, i, left, right) ==
  /\ disk' = [disk EXCEPT
                ![right] = Merged(disk[left], disk[parent].recs[i], disk[right]),
                ![parent] = Holding(disk[parent], RemoveAt(disk[parent].recs, i),
                                                  RemoveAt(disk[parent].kids, i))]
  /\ freed' = freed \cup {left}
  /\ UNCHANGED <<height, root>>

(* left absorbs right and the record at the parent's slot i. *)
Merge(parent, i, left, right) ==
  /\ disk' = [disk EXCEPT
                ![left] = Merged(disk[left], disk[parent].recs[i], disk[right]),
                ![parent] = Drop(disk[parent], i),
                ![right] = IF Wipe THEN ZeroNode ELSE disk[right]]
  /\ freed' = freed \cup {right}
  /\ UNCHANGED <<height, root>>

-----------------------------------------------------------------------------
(* mdbBtreeInsert: a full root gets a new root above it first.             *)
Insert(r) ==
  /\ Len(disk) < MaxPages
  /\ ~Full(disk[root])
  /\ Enter("insert", KeyOf(r), r, root)
  /\ UNCHANGED tree

(* Mutant: the left half of a root is the one that gets a new page. *)
InsertSplitRootMovesLeft(r) ==
  LET left == Len(disk) + 1
      new  == Len(disk) + 2
  IN  /\ Len(disk) < MaxPages
      /\ Full(disk[root])
      /\ Enter("insert", KeyOf(r), r, new)
      /\ disk' = Append(Append([disk EXCEPT ![root] = RightHalf(@)],
                               LeftHalf(disk[root])),
                        NewRoot(Median(disk[root]), left, root))
      /\ height' = Append(Append(height, height[root]), height[root] + 1)
      /\ root' = new
      /\ UNCHANGED freed

InsertSplitRoot(r) ==
  LET right == Len(disk) + 1
      new   == Len(disk) + 2
  IN  /\ Len(disk) < MaxPages
      /\ Full(disk[root])
      /\ Enter("insert", KeyOf(r), r, new)
      /\ disk' = Append(Append([disk EXCEPT ![root] = LeftHalf(@)],
                               RightHalf(disk[root])),
                        NewRoot(Median(disk[root]), root, right))
      /\ height' = Append(Append(height, height[root]), height[root] + 1)
      /\ root' = new
      /\ UNCHANGED freed

(* mdbBtreeInsertRecursive *)
InsertCollides ==
  /\ pc = "insert"
  /\ \E i \in 1 .. Count(disk[at]) :
        Stops(disk[at], key, i) /\ Hits(disk[at], key, i)
  /\ Return("MDB_BTREE_KEY_COLLISION")
  /\ UNCHANGED <<tree, out>>

InsertIntoLeaf ==
  /\ pc = "insert"
  /\ disk[at].leaf
  /\ \E i \in 1 .. Count(disk[at]) + 1 :
        /\ Stops(disk[at], key, i)
        /\ ~Hits(disk[at], key, i)
        /\ disk' = [disk EXCEPT ![at] = WithRecord(@, i, rec)]
  /\ Return("MDB_NO_ERROR")
  /\ UNCHANGED <<height, root, freed, out>>

InsertDescends ==
  /\ pc = "insert"
  /\ ~disk[at].leaf
  /\ \E i \in 1 .. Count(disk[at]) + 1 :
        /\ Stops(disk[at], key, i)
        /\ ~Hits(disk[at], key, i)
        /\ ~Full(disk[disk[at].kids[i]])
        /\ Recurse(disk[at].kids[i], key, alias)
  /\ UNCHANGED tree

(* A full child is split first; the median decides which half to enter. *)
InsertSplitsChild ==
  /\ pc = "insert"
  /\ ~disk[at].leaf
  /\ \E i \in 1 .. Count(disk[at]) + 1 :
        LET child  == disk[at].kids[i]
            right  == Len(disk) + 1
            median == Median(disk[child])
            sign   == Cmp(key, KeyOf(median))
        IN  /\ Stops(disk[at], key, i)
            /\ ~Hits(disk[at], key, i)
            /\ Full(disk[child])
            /\ Split(child, at, Adopt(disk[at], i, median, right))
            /\ \/ sign > 0 /\ Recurse(right, key, alias)
               \/ sign < 0 /\ Recurse(child, key, alias)
               \/ /\ sign = 0
                  /\ Return("MDB_BTREE_KEY_COLLISION")
                  /\ UNCHANGED out
  /\ UNCHANGED <<root, freed>>

-----------------------------------------------------------------------------
(* mdbBtreeSearch and mdbBtreeSearchRecursive *)
Search(k) ==
  /\ Enter("search", k, None, root)
  /\ UNCHANGED tree

SearchFinds ==
  /\ pc = "search"
  /\ \E i \in 1 .. Count(disk[at]) :
        /\ Stops(disk[at], key, i)
        /\ Hits(disk[at], key, i)
        /\ out' = disk[at].recs[i]
  /\ Return("MDB_NO_ERROR")
  /\ UNCHANGED tree

SearchMisses ==
  /\ pc = "search"
  /\ disk[at].leaf
  /\ \E i \in 1 .. Count(disk[at]) + 1 :
        Stops(disk[at], key, i) /\ ~Hits(disk[at], key, i)
  /\ Return("MDB_BTREE_KEY_NOT_FOUND")
  /\ UNCHANGED <<tree, out>>

SearchDescends ==
  /\ pc = "search"
  /\ ~disk[at].leaf
  /\ \E i \in 1 .. Count(disk[at]) + 1 :
        /\ Stops(disk[at], key, i)
        /\ ~Hits(disk[at], key, i)
        /\ Recurse(disk[at].kids[i], key, alias)
  /\ UNCHANGED tree

-----------------------------------------------------------------------------
(* mdbBtreeDelete: an empty root is an error when it is a leaf, and gives  *)
(* way to its only child when it is not.                                   *)
Delete(k) ==
  /\ Count(disk[root]) > 0
  /\ Enter("delete", k, None, root)
  /\ UNCHANGED tree

DeleteFromEmpty(k) ==
  /\ pc = "idle"
  /\ disk[root].leaf
  /\ Count(disk[root]) = 0
  /\ ret' = "MDB_BTREE_ROOT_IS_EMPTY" /\ out' = None
  /\ UNCHANGED <<tree, call>>

DeleteShrinksRoot(k) ==
  LET child == Head(disk[root].kids)
  IN  /\ ~disk[root].leaf
      /\ Count(disk[root]) = 0
      /\ Enter("delete", k, None, child)
      /\ root' = child
      /\ freed' = freed \cup {root}
      /\ disk' = [disk EXCEPT ![root] = IF Wipe THEN ZeroNode ELSE @]
      /\ UNCHANGED height

(* mdbBtreeDeleteRecursive, the key is in the node *)
DeleteFromLeaf ==
  /\ pc = "delete"
  /\ disk[at].leaf
  /\ \E i \in 1 .. Count(disk[at]) :
        /\ Stops(disk[at], key, i)
        /\ Hits(disk[at], key, i)
        /\ disk' = [disk EXCEPT ![at] = WithoutRecord(@, i)]
  /\ Return("MDB_NO_ERROR")
  /\ UNCHANGED <<height, root, freed, out>>

(* The key passed on is the copy in the last slot of left's buffer, which
   nothing overwrites while it is needed. *)
DeleteByPredecessor ==
  /\ pc = "delete"
  /\ ~disk[at].leaf
  /\ \E i \in 1 .. Count(disk[at]) :
        LET left == disk[at].kids[i]
            last == LastRecord(disk[left])
        IN  /\ Stops(disk[at], key, i)
            /\ Hits(disk[at], key, i)
            /\ CanSpare(disk[left])
            /\ disk' = [disk EXCEPT ![at] = Replace(@, i, last)]
            /\ Recurse(left, KeyOf(last), "last")
  /\ UNCHANGED <<height, root, freed>>

(* The key passed on is the first slot of right's buffer itself. *)
DeleteBySuccessor ==
  /\ pc = "delete"
  /\ ~disk[at].leaf
  /\ \E i \in 1 .. Count(disk[at]) :
        LET right == disk[at].kids[i + 1]
            first == FirstRecord(disk[right])
        IN  /\ Stops(disk[at], key, i)
            /\ Hits(disk[at], key, i)
            /\ ~CanSpare(disk[disk[at].kids[i]])
            /\ CanSpare(disk[right])
            /\ disk' = [disk EXCEPT ![at] = Replace(@, i, first)]
            /\ Recurse(right, KeyOf(first), "first")
  /\ UNCHANGED <<height, root, freed>>

(* mdbBtreeMergeNodes shifts the records of the node: a key that points to
   the node's first slot is another key from here on. *)
DeleteByMerge ==
  /\ pc = "delete"
  /\ ~disk[at].leaf
  /\ \E i \in 1 .. Count(disk[at]) :
        LET left  == disk[at].kids[i]
            right == disk[at].kids[i + 1]
            rest  == Drop(disk[at], i)
        IN  /\ Stops(disk[at], key, i)
            /\ Hits(disk[at], key, i)
            /\ ~CanSpare(disk[left])
            /\ ~CanSpare(disk[right])
            /\ Merge(at, i, left, right)
            /\ Recurse(left,
                       IF alias = "first" /\ Count(rest) > 0
                         THEN KeyOf(FirstRecord(rest)) ELSE key,
                       "caller")

-----------------------------------------------------------------------------
(* mdbBtreeDeleteRecursive, the key is not in the node *)
DeleteMisses ==
  /\ pc = "delete"
  /\ disk[at].leaf
  /\ \E i \in 1 .. Count(disk[at]) + 1 :
        Stops(disk[at], key, i) /\ ~Hits(disk[at], key, i)
  /\ Return("MDB_BTREE_KEY_NOT_FOUND")
  /\ UNCHANGED <<tree, out>>

(* The search goes on below slot i of an internal node. *)
Below(i) ==
  /\ pc = "delete"
  /\ ~disk[at].leaf
  /\ Stops(disk[at], key, i)
  /\ ~Hits(disk[at], key, i)

(* Mutant: the count is compared with T - 1. *)
SparesOneTooMany(i) == Count(disk[disk[at].kids[i]]) >= Order - 1

(* Child i has a record to spare, or may not lose one. *)
ChildSpares(i) == CanSpare(disk[disk[at].kids[i]])

LeftSpares(i) == i > 1 /\ ChildSpares(i - 1)

RightSpares(i) == i <= Count(disk[at]) /\ ChildSpares(i + 1)

DeleteDescends ==
  /\ \E i \in 1 .. Count(disk[at]) + 1 :
        /\ Below(i)
        /\ ChildSpares(i)
        /\ Recurse(disk[at].kids[i], key, alias)
  /\ UNCHANGED tree

DeleteBorrowsLeft ==
  /\ \E i \in 1 .. Count(disk[at]) + 1 :
        LET next == disk[at].kids[i]
            left == disk[at].kids[i - 1]
        IN  /\ Below(i)
            /\ ~ChildSpares(i)
            /\ LeftSpares(i)
            /\ disk' = [disk EXCEPT
                 ![next] = GainFirst(disk[next], disk[at].recs[i - 1], disk[left]),
                 ![at] = Replace(disk[at], i - 1, LastRecord(disk[left])),
                 ![left] = LoseLast(disk[left])]
            /\ Recurse(next, key, alias)
  /\ UNCHANGED <<height, root, freed>>

DeleteBorrowsRight ==
  /\ \E i \in 1 .. Count(disk[at]) + 1 :
        LET next  == disk[at].kids[i]
            right == disk[at].kids[i + 1]
        IN  /\ Below(i)
            /\ ~ChildSpares(i)
            /\ ~LeftSpares(i)
            /\ RightSpares(i)
            /\ disk' = [disk EXCEPT
                 ![next] = GainLast(disk[next], disk[at].recs[i], disk[right]),
                 ![at] = Replace(disk[at], i, FirstRecord(disk[right])),
                 ![right] = LoseFirst(disk[right])]
            /\ Recurse(next, key, alias)
  /\ UNCHANGED <<height, root, freed>>

(* Neither sibling can spare one: merge with the left sibling if there is  *)
(* one, otherwise with the right.                                          *)
DeleteMergesLeft ==
  \E i \in 2 .. Count(disk[at]) + 1 :
    /\ Below(i)
    /\ ~ChildSpares(i)
    /\ ~LeftSpares(i)
    /\ ~RightSpares(i)
    /\ Merge(at, i - 1, disk[at].kids[i - 1], disk[at].kids[i])
    /\ Recurse(disk[at].kids[i - 1], key, alias)

DeleteMergesRight ==
  /\ Below(1)
  /\ ~ChildSpares(1)
  /\ ~RightSpares(1)
  /\ Merge(at, 1, disk[at].kids[1], disk[at].kids[2])
  /\ Recurse(disk[at].kids[1], key, alias)

-----------------------------------------------------------------------------
(* The calls a program may make when none is running. *)
InsertCall == \E r \in Record : Insert(r) \/ InsertSplitRoot(r)

SearchCall == \E k \in Key : Search(k)

DeleteCall ==
  \E k \in Key : Delete(k) \/ DeleteFromEmpty(k) \/ DeleteShrinksRoot(k)

(* One activation of a recursive function. *)
InsertStep ==
  InsertCollides \/ InsertIntoLeaf \/ InsertDescends \/ InsertSplitsChild

SearchStep == SearchFinds \/ SearchMisses \/ SearchDescends

DeleteStep ==
  \/ DeleteFromLeaf \/ DeleteMisses
  \/ DeleteByPredecessor \/ DeleteBySuccessor \/ DeleteByMerge
  \/ DeleteDescends
  \/ DeleteBorrowsLeft \/ DeleteBorrowsRight
  \/ DeleteMergesLeft \/ DeleteMergesRight

Step == InsertStep \/ SearchStep \/ DeleteStep

Next == InsertCall \/ SearchCall \/ DeleteCall \/ Step

(* A call, once made, is executed. *)
Spec == Init /\ [][Next]_vars /\ WF_vars(Step)

(* Trees that only grow, by insertions and searches in any order: all that a
   program can do to a table with the statements of MQL. *)
GrowNext == InsertCall \/ SearchCall \/ InsertStep \/ SearchStep

GrowSpec == Init /\ [][GrowNext]_vars

-----------------------------------------------------------------------------
(* What the tree holds: the pages d levels below one, and all of them.  The
   level of a page bounds the walk below it. *)
Levels(p) ==
  LET level[d \in 0 .. height[p]] ==
        IF d = 0 THEN {p}
                 ELSE UNION {ToSet(disk[q].kids) : q \in level[d - 1]}
  IN  level

PagesBelow(p) == UNION {Levels(p)[d] : d \in 0 .. height[p]}

RecordsBelow(p) == UNION {ToSet(disk[q].recs) : q \in PagesBelow(p)}

Live == DOMAIN disk \ freed

-----------------------------------------------------------------------------
(* The variables keep their types; during a call the key is a key, and an
   insertion carries a record. *)
TypeOK ==
  /\ disk \in Seq(Node)
  /\ height \in Seq(Nat) /\ Len(height) = Len(disk)
  /\ root \in DOMAIN disk /\ at \in DOMAIN disk
  /\ freed \subseteq DOMAIN disk
  /\ pc \in {"idle", "insert", "search", "delete"}
  /\ pc # "idle" => arg \in Key /\ key \in Key
  /\ pc = "insert" => rec \in Record
  /\ alias \in {"caller", "first", "last"}
  /\ ret \in Error

(* No node ever overflows its 2T - 1 slots, none but the root falls below
   T - 1 records, and an internal node has one child more than records: the
   arrays of mdbAllocateNode are never indexed past their end and
   mdbBtreeMergeNodes' constant 2T - 1 is the true count. *)
NodeBounds ==
  \A p \in Live :
    WellFormed(disk[p]) /\ (p # root => Count(disk[p]) >= Order - 1)

(* Splitting and merging on the way down leave the activation a node with
   room for the insertion below, or with a record to spare for the deletion
   (the root with any record): that is why neither has to come back up. *)
Room ==
  /\ pc = "insert" => ~Full(disk[at])
  /\ pc = "delete" =>
       IF at = root THEN Count(disk[at]) > 0 ELSE CanSpare(disk[at])

(* Every child pointer of a page in use leads one level down to another page
   in use, so all leaves are equally deep, and no activation is ever on a
   page given to DeleteNode. *)
ChildrenBelow ==
  \A p \in Live :
    /\ disk[p].leaf <=> height[p] = 0
    /\ \A i \in DOMAIN disk[p].kids :
         /\ disk[p].kids[i] \in Live \ {root}
         /\ height[disk[p].kids[i]] = height[p] - 1

Balanced == {root, at} \subseteq Live /\ ChildrenBelow

(* No two child pointers lead to the same page. *)
OneParent ==
  \A p, q \in Live :
    \A i \in DOMAIN disk[p].kids, j \in DOMAIN disk[q].kids :
      disk[p].kids[i] = disk[q].kids[j] => p = q /\ i = j

(* Splits, merges and a new or shrunk root lose no page: each one is in the
   tree or was given to DeleteNode, never both. *)
NoPageLost == PagesBelow(root) = Live

(* Between calls an in-order walk meets the keys in ascending order: what is
   below a child lies between the records on both sides of it. *)
Ordered ==
  pc # "delete" =>
    \A p \in Live : \A i \in 1 .. Count(disk[p]) :
      LET r == disk[p].recs[i]
      IN  /\ i > 1 => Cmp(KeyOf(disk[p].recs[i - 1]), KeyOf(r)) < 0
          /\ ~disk[p].leaf =>
               /\ \A s \in RecordsBelow(disk[p].kids[i]) :
                     Cmp(KeyOf(s), KeyOf(r)) < 0
               /\ \A s \in RecordsBelow(disk[p].kids[i + 1]) :
                     Cmp(KeyOf(s), KeyOf(r)) > 0

(* A deletion says "the record does not exist" (mdbbtree.c:562) only of the
   key the caller asked for, never of one it moved itself on the way, and
   only when no record in the tree has that key. *)
NotFoundMeansAbsent ==
  [][ret' = "MDB_BTREE_KEY_NOT_FOUND" /\ pc = "delete" =>
       key = arg /\ \A r \in RecordsBelow(root) : KeyOf(r) # arg]_vars

(* Deleting a key from an internal node puts the key's in-order predecessor
   in its place (mdbbtree.c:504-508): the greatest record below it. *)
PredecessorReplaces ==
  [][DeleteByPredecessor =>
       \E i \in 1 .. Count(disk[at]) :
         /\ disk'[at].recs[i] # disk[at].recs[i]
         /\ \A s \in RecordsBelow(disk[at].kids[i]) :
               Cmp(KeyOf(s), KeyOf(disk'[at].recs[i])) <= 0]_vars

(* MDB_BTREE_KEY_COLLISION answers "key already exists?" (mdbbtree.c:329):
   some record in the tree has the very key to be inserted. *)
CollisionMeansExists ==
  [][ret' = "MDB_BTREE_KEY_COLLISION" /\ pc = "insert" =>
       \E r \in RecordsBelow(root) : KeyOf(r) = arg]_vars

(* Each activation of a recursive function ends the call or goes on exactly
   one level further down: no call is deeper than the tree is high. *)
OneLevelDown ==
  [][pc # "idle" /\ pc' # "idle" => height'[at'] = height[at] - 1]_vars

(* The tree implements the set of records of BtreeMap.  A deletion has taken
   effect once the activation looks for another key than the caller's. *)
Map == INSTANCE BtreeMap WITH
         store <- RecordsBelow(root),
         op    <- IF pc = "delete" /\ key # arg THEN "removed" ELSE pc

ImplementsMap == Map!Spec

(* A call is executed, so it returns. *)
CallReturns == pc # "idle" ~> pc = "idle"
=============================================================================

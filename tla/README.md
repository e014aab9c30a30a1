# A verification development for MastersDB

MastersDB is a small relational database library: one file holds a catalog and
one B-tree for each table, a compiler turns MQL statements (`CREATE TABLE`,
`INSERT INTO`, `DESCRIBE`, `SELECT`) into code for a virtual machine, and the
machine runs it over the B-trees.  This directory holds TLA+ models of its
parts, TLC configurations that check them on small instances, and TLAPS proofs
of what holds for every instance.  Paths below are relative to `src/`; line
numbers without a file are those of `mastersdb/mdb/mdbbtree.c`.

## The system

| component | state | operations | calls |
|---|---|---|---|
| B-tree (`mdb/mdbbtree.c`, `mdbbtree_util.h`) | nodes in the file, the root node in memory, a key and a record while a call runs | create, insert, search, delete, traverse | node I/O through three function pointers, key comparison |
| node I/O (59-134, `demo/btree.c`) | the file; a node image has a position, 0 before it is written | allocate, read, write, delete | stdio |
| key comparison (137-149, `mdb/mdbdatabase.c` 48-81) | the table of data types | `mdbBtreeCmp` | `memcmp`, `strncmp`, a stub for FLOAT |
| optimal order (152-179) | none | size of a node for a record size | |
| tables (`mdb/mdbtable.c`) | records of `.Tables` and `.Columns`, a descriptor for each table | create, load, system tables | B-tree |
| database (`mdb/mdbdatabase.c`) | header, three system tables | create, open, close | tables, B-tree |
| virtual table (`mdb/mvm/mdbVirtualTable.cpp`) | columns, one record, a scan | load, create, insert, next, reset | tables, B-tree; called back with each column |
| virtual machine (`mdb/mvm/mdbVirtualMachine.*`) | code, memory, stack, 8 tables, results | 18 instructions, `Execute` | virtual tables, results |
| results (`mdb/mvm/mdbQueryResults.*`) | records | add, get | |
| parser (`mdb/mql/Parser.cpp`, from `cocomql/MQL.ATG`) | look-ahead, data pointer | one function for each production; emits code | virtual machine, SELECT compiler |
| SELECT compiler (`mdb/mql/MQLSelect.*`) | tables, columns, conditions, joins of the query | map a column, generate code | virtual machine |
| API (`MdbDatabase.cpp`, `MdbResultSet.cpp`) | the machine and the parser of a database; a position in a result | create, open, execute, explain, close; move and get | all of the above |
| scanner, buffer, loader, character tables | | generated or third-party code, constant data | |

Nothing runs concurrently: a statement is parsed, compiled and executed before
the call of `ExecuteMQL` returns, and a result set is a copy.  What makes the
program hard is elsewhere:

- a B-tree operation rebalances **on the way down and never comes back up**, so
  each step must leave the next one room, whatever came before;
- it moves records and child pointers between **images of nodes** with eight
  different copy and shift macros, and it keeps a **pointer into such an image**
  as the key it looks for;
- tables outlive the statements that use them only through **a descriptor in
  the file**;
- keys are **bytes compared in the way of a data type**;
- a scan keeps **a path into the tree** between calls;
- nothing looks at a failed read, write or allocation, and an operation writes
  several nodes one after the other, so that a program that is killed leaves a
  part of them;
- creating a table is a dozen insertions into two other tables, of which none is
  looked at.

What makes each component correct: the B-tree keeps its shape, its order and
its pages, and behaves as a set of records; a scan returns every record once,
in order, and ends; comparison is one total order in which different keys
differ; a table that is loaded again is the table that was put away; nothing in
the file overlaps, and a table that was created is found under its name; the
compiled program returns the rows that the query describes; the machine stays
inside its memory.  `PROJECT.json` lists the places where this can go wrong
("hazards") with the properties that would notice.

## Modules

```
BtreeNode            the image of one node, and what the code does to it
  |
Btree  ----------->  BtreeMap       (a set of records; Btree implements it)
  |  \  \
  |   \  BtreeWrites                (the writes of a step, one by one)
  |    BtreeTraverse  |             (a scan)
  |              \    |
  |              BtreeFile          (a table across statements and crashes)
  |
BtreeFileProofs -> BtreeOrderProofs -> BtreePagesProofs -> BtreeProofs -> ListProofs
                    (theorems on BtreeFile; the order in Btree and
                     BtreeTraverse; the shape of Btree; sequences)

KeyCompare           OptimalOrder   (bytes, data types; sizes of nodes)
        \            /
         \          /
           Catalog <- CatalogProofs (the file, the system tables; uses BtreeNode)

Compiler             the code of a statement
  |
VirtualMachine  -->  Mql            (what statements mean; the machine and
  |                                  the compiler implement it)
ResultSet            (a statement's records in the program)

QueryProofs -> MachineProofs -> ListProofs
                    (theorems on ResultSet and the code of SELECT; on
                     VirtualMachine and the code of the other statements)

MCBtree, MCBtreeTall, MCKeyCompare, MCTraverse, MCFile, MCCatalog, MCQuery, MCMql
```

**BtreeNode** has an operator for each thing `mdbbtree.c` does to a node image:
the scan for a slot, the halves of a split and what the parent adopts, the
merge, the two rotations, insertion and removal in a leaf.  A node is its leaf
flag, its records and its children as sequences; counts, offsets and the arrays
behind them become the lengths and indices of the sequences.  Sequences count
from 1, the code's arrays from 0.

**Btree** is the step machine: one action for each way through one activation
of `mdbBtreeInsert`, `mdbBtreeInsertRecursive`, `mdbBtreeSearch(Recursive)`,
`mdbBtreeDelete(Recursive)`.  Every recursive call is the last thing its caller
does to the tree, so the current activation (`pc`, `at`, `key`) is all there is
of the call stack.  `disk` is the file as a sequence of nodes in the order in
which they were appended; an image in memory is written before anything else
reads its page, so one variable stands for both.  `alias` says what the key
pointer of the current activation points to; it is what lets the model do what
the code does when a merge shifts the records the key lies in.  `freed` has the
pages given to `DeleteNode`, which does nothing in the library and zeroes the
page in the demo (constant `Wipe`).  `height` is a history variable, the level
at which a page was created.  `t->root` is never NULL after `mdbCreateTable` or
the demo's first lines, so MDB_BTREE_NO_ROOT cannot be answered.

**BtreeMap** is what `mdb.h` promises: a set of records, and calls that take
effect once and answer with the error code that tells what the set was.  A
deletion may take effect before it returns: the implementation replaces the
record high up in the tree and goes on removing the replacement below.

**BtreeTraverse** adds a scan.  The linked list of `mdbBtreeTraversal`s becomes
the sequence `cursor`, root first; one call of `mdbVirtualTable::NextRecord`
(or of the demo's loop) is one action, made of the descent to a leaf and one of
its three outcomes.  A change to the tree happens only while no scan exists.

**BtreeWrites** takes apart what Btree treats as one, a page in the file and its
images in memory.  `file` has what `mdbWriteNode` has written; each step of
Btree leaves in `writes` the pages the code writes in it, in the order of the
calls (left, right, parent in a split; left, parent in a merge; the sibling, the
child, the parent in a rotation), and `mdbWriteNode` writes them one by one
before the next step.  A new page gets its place when it is written, as
`fseek(SEEK_END)` gives it.  `AllWritten` is what justifies Btree.

**BtreeFile** composes the two with the descriptor: `LoadTable` takes the root
from where `mdbCreateTable` recorded it, a statement changes the table or scans
it, `PutAway` is `mdbVirtualTable::Reset`, and `Crash` may come between any two
writes: what was in memory is gone, `file` is what the next `LoadTable` finds.
The same holds of the system tables with `mdbOpenDatabase` and
`mdbCloseDatabase`.

**OptimalOrder** has the size of a node and `mdbBtreeOptimalOrder`, whose loop
becomes the choice it makes among the ideal sizes from 1 KB to 1 MB.
`IsOptimal` says what the order is for: at least 2, at most 1 MB, and no other
order leaves less of the last kilobyte free, nor a larger one as little.

**Catalog** is the file in bytes: its length, whether it starts with the header
of a database, the descriptors and the nodes by their positions.  One action for
each of `mdbCreateSystemTables`, the rest of `mdbCreateDatabase`,
`mdbOpenDatabase` and `mdbCloseDatabase`; `mdbCreateTable` is cut at each record
it lists, because the program may be killed there (`Kill`) and because nobody
looks at what the insertion answers; `mdbLoadTable` hands on the column before
for one that is not there, as the code's buffer does.  Records are inserted into
leaves with the operators of BtreeNode and compared as STRINGs with KeyCompare;
with the orders that `mdbBtreeOptimalOrder` gives, a node holds thousands of
records and no root of the catalog ever splits in the runs.  `created` is a
history variable: what the program was told.

**KeyCompare** models `mdbBtreeCmp` over the five data types, keys being the
bytes that are in the file.  `memcmp` and `strncmp` are modelled by what the C
standard says of the byte at which they stop.

**Compiler** has the code that a statement is turned into, as operators from
statements to instructions and memory: the semantic actions of `Parser.cpp` in
the order in which the parser meets the parts of a statement, and `MQLSelect`,
which maps tables and columns to virtual tables and addresses while the query
is parsed and then generates its loops.  A sequence of instructions `[op,
data]` stands for the 16-bit words of `bytecode`; the addresses of jumps and
data are the code's.  The parser's placeholders that are rewritten once the end
of a loop is known become functions from the level of a loop to its start and
its end.

**VirtualMachine** runs it: one action for each instruction, on `code`, `ip`,
`memory`, `stack`, `tp`, the eight virtual `tables` and `results`;
`ExecuteMQL`, which puts a statement's code behind whatever is there; and
`ExplainMQL`, which leaves its code there for the next one.  HALT is the
machine's `Reset` together with the end of `ExecuteMQL`.  After `ExplainMQL` the
model executes only the same statement: its first copy runs, and HALT must throw
the second away.  Any other statement would run the first one's code on its own
data.  What the module abstracts:

- a record is a sequence with one element for each column; strings are numbers,
  none of them a prefix of another (see `CatalogPrefix`), and table names are
  numbers in the order of the strings, because `std::map` keeps them in it;
- the B-tree of a table is its rows in key order, a scan a position among them
  (`BtreeTraverse` shows that this is what a scan does), an insertion puts a row
  in its place unless its key is taken; the tables of the runs fit into one
  node, so that no root moves (see `FileStaleRoot`);
- `Junk` is what `new char[]` left: columns nobody has written, and the upper
  bytes of a number, of which `MQLValue` writes the lowest only.  A comparison
  with it may come out either way.

**ResultSet** adds the program that executes the statements: what `Execute`
returns, the position in it that `ToFirst`, `ToNext`, `ToPrevious` and `ToLast`
move in unsigned arithmetic, and the loop of `db_read.cpp` that prints it.  The
program deletes a result set before it executes the next statement, as the
demonstration does.

**Mql** says what statements mean, without a compiler or a machine: a SELECT
answers those rows of the product of its tables, the table mentioned first
changing slowest, that satisfy its conditions, taken from left to right; an
INSERT adds a row unless its key is taken; DESCRIBE lists columns; CREATE adds
an empty table.  Its specification executes one statement in one step.  `Meant`
names the statements to which this applies: a query of one table or one whose
tables are all joined, with columns that exist, have names of their own, and are
named in one way (see `MqlMixedNames`); an insertion with a value for each
column, of which the numbers are bytes in INT-8 columns.  Of all others it says
only that asking changes no table.

`VirtualMachine!ImplementsMql` is the refinement: until HALT, the abstract tables
are those of the beginning of the statement (`before`, a history variable).

## What is checked

Constants: `Order` is the T of the code; with T = 2 a node holds 1 to 3 records
and each kind of rebalancing happens as soon as there are two levels.  `N`
bounds the keys, which are the numbers 1 to N, and two records share key 2 so
that a collision can be told from a replacement.  `MaxPages` bounds the file:
an insertion starts only while the file is shorter (it may then grow by two).
`MaxLength` bounds the database file in the same way for the creation of tables.
`Length` and `Calls` bound the scripts of the tall trees.  `MaxStatements` bounds
the statements that a program executes, `Statements` and `Databases` are the sets
they and the first tables come from, `MaxTables` is the code's 8.

| run | question | states |
|---|---|---|
| `BtreeSmall` | every program of insertions, searches and deletions over 6 keys on trees of two levels and up to 8 pages, demo version of `DeleteNode`: types, node bounds, room on the way down, balance, no page lost, order, one level down at each recursion, implements `BtreeMap`, every call returns | 84 000 |
| `BtreeTall` | trees of three levels: the keys 1 to 10 are inserted in ascending or descending order, then any four insertions or deletions; internal nodes split, merge and lend children, and every node keeps one parent and no page is lost | 114 000 |
| `BtreeGrow` | trees that only grow, up to three levels, any order of insertion over 8 keys, and scans of them at any time between calls, which climb two levels at once: implements `BtreeMap`, scans are in order and whole | 182 000 |
| `BtreeInt16` | order 3 and INT-16 keys as little-endian bytes: their order is the bytes' order, and the tree is a set of records all the same; a deletion that finds nothing, and an insertion that collides, tell the truth | 19 000 |
| `TableFile` | statements that insert, delete and scan over 5 keys on trees of two levels, the table put away and loaded at any time between them, the program killed between any two writes: every scan is a path, in order, whole, and ends; the tree in the file is the one in memory once a step has written; no page in the file points to one that is not there; only the first write of a split or rotation loses records; what is loaded is a B-tree, of the smallest records there were | 131 000 |
| `CatalogApart` | a database created, closed, opened, abandoned and created again, with up to two tables of two layouts under two names, one record each, killed at any step: what is in the file never overlaps, listed tables have trees, the system tables describe themselves, the orders are optimal, and what was created and inserted is found | 24 000 |
| `MqlAll` | any query of a family (one table or a join of two, five lists of columns, up to three conditions, all operators, AND and OR) or another statement, explained first or not, and two more statements, on six databases of two tables and two of one: each does what it means whatever ran before, the stack is bounded, no address is outside, scans are rewound only at their end, every statement ends, the program is never at a record that is not there and prints those that are | 103 000 |

`BtreeTall` and `MqlAll` (and the violations on their specifications) do not
check deadlock: a program ends after its script, or after `MaxStatements`
statements.

The runs that end in a violation show what the code does against what it says
of itself (`PROJECT.json`, "findings"):

- `BtreePredecessor`: in a tree of three levels deletion replaces a key by a
  record that is not its predecessor (513; the same with the successor, 534).
- `BtreeNotFound`: the key that a deletion passes down lies in a node that a
  merge then shifts (537, 453); it answers KEY_NOT_FOUND for a key it found,
  and leaves a record twice.
- `FileStaleRoot`: nothing writes a table's descriptor after its root moved.
- `CatalogPrefix`: a STRING key collides with every key it begins, so a table
  whose name begins another's is answered as created and is not listed
  (`mdbbtree.c` 144, `mdbtable.c` 149).
- `MqlMixedNames`: in SELECT Id, Department.Name FROM Department the second
  column is lost and the first answered twice (`MQLSelect.cpp` 146).

The first two are why `Ordered` and `ImplementsMap` are checked with deletions
on trees of two levels only (where a child is a leaf and has the predecessor),
`ImplementsMap` on taller ones while they grow, and why `NotFoundMeansAbsent` is
a property of `BtreeInt16` and not of `BtreeTall`.  The shape of the tree does
not suffer: the theorems below say of every tree that its nodes stay in their
bounds, have room and are balanced, and `BtreeTall` checks with deletions that
no node has two parents and no page is lost.

**Fairness.**  `Btree!Spec` has weak fairness of `Step`, one activation of the
running call: the code is sequential, and a call that was made is executed.
Nothing makes a program call again.  `BtreeFile!FileSpec` and the specification
of `BtreeGrow` have weak fairness of the next call of a scan that has begun:
`SELECT` compiles to a loop that asks for records until it is told that there is none.  A scan that has not
begun, and a statement after it, need not happen.  `VirtualMachine!Spec` has weak
fairness of `Decode`, the loop of `mdbVirtualMachine::Execute`, and `ResultSet!ResultSpec`
also of the loop that prints; nobody has to ask another statement.  `Catalog` has
no liveness property and no fairness: a creation may be killed at every step.

## What is proved

All of it holds for every value of the constants that the named assumptions
allow; the inductive invariants were first checked by TLC.

### The tree: `BtreeProofs`, `BtreePagesProofs`

These prove of `Btree!Spec`, for every order of at least 2, every set
of records and keys, **every comparison function into the integers** (it need
not even be an order), every file length and both versions of `DeleteNode`:

| theorem | |
|---|---|
| `TypesKept` | `[]TypeOK` |
| `NodesWithinBounds` | `[]NodeBounds`: 2T - 1 slots are enough, T - 1 are kept |
| `OnePassSuffices` | `[]Room`: rebalancing on the way down is enough |
| `AlwaysBalanced` | `[]Balanced`: all leaves at the same depth, no deleted page reachable |
| `NoPageShared` | `[]OneParent` |
| `RecursionIsBounded` | `OneLevelDown`: no call is deeper than the tree is high |
| `NothingLost` | `[]NoPageLost`: every page is below the root or was given to `DeleteNode` |

None of these is inductive alone.  A merge writes the constant 2T - 1 as the
count, which is right only if both children have exactly T - 1 records
(`NodeBounds`) and the parent has one to give (`Room`); a rotation keeps child
counts right only because siblings are equally deep (`ChildrenBelow`), and
changes three pages at once, which must be three (`OneParent`).  So the
inductive invariant is their conjunction with types,

    IInv == Tree /\ CallTypes /\ at \in Live /\ Room
    Tree == TreeTypes /\ root \in Live /\ NodeBounds /\ ChildrenBelow /\ OneParent

in which `Tree` speaks of the pages only and the rest of the call.  The proof
has one lemma for each way to change pages - `SameKids` (records of one page),
`SplitChild`, `SplitRoot`, `MergeChildren`, `Rotate` with `BorrowLeft` and
`BorrowRight`, `ShrinkRoot` - which shows that it preserves `Tree`, and one
lemma for each action, which shows that it is such a change and leaves the next
activation `Room`.  Its first part is about what the operators of `BtreeNode`
return: types, counts, and where each record and child of the result comes
from.  `ListProofs` has the facts about sequences, sets of numbers and folds of
both that the other modules cite.

`NoPageLost` speaks of the pages below the root, a union over the levels of a
recursive function.  The step from there to something that actions preserve is
that no page is lost if and only if **every live page but the root has a
parent**, in a tree whose levels fall (`ChildrenBelow`): a page without a way
up would lead to ever higher pages.  The induction is over sets of numbers (a
set of naturals has a least element), not over an operator.

### The order of keys: `BtreeOrderProofs`

What depends on the order is proved of trees that grow, `Btree!GrowSpec` (any
insertions and searches, which is all that the statements of MQL do to a table)
and `BtreeTraverse!GrowScanSpec` (with scans between them), for every
comparison that is a total order of the keys (`KeysOrdered`):

| theorem | |
|---|---|
| `GrownIsOrdered` | `[]Ordered` |
| `GrownIsMap` | `ImplementsMap`: the tree is the set of records of `BtreeMap` |
| `ScansAreInOrder` | `ScanInOrder`: each call returns the least record above the last |
| `ScansOmitNothing` | `EndMeansAll`: at the end there is none ahead |
| `CollisionIsReal` | `CollisionMeansExists`, of `Btree!Spec`, deletions included |

`KeysOrdered` is what `mdbBtreeCmp` gives for INT keys of the three sizes
(`IntegersOrdered`) and for STRING keys of which none begins another
(`StringsOrdered`); both theorems are about the definition of `mdbBtreeCmp` in
`KeyCompare`, over keys as sequences of bytes, and rest on one lemma about
`memcmp` (`FirstDifference`).  It is an order of bytes, which is not that of the
numbers: a little-endian 256 comes before 1.  STRING keys of which one begins another collide
(`CatalogPrefix`), and FLOAT keys all do.  The comparisons of the runs satisfy
`KeysOrdered`.  `CollisionIsReal` needs less, that only equal keys compare as
equal (`KeysDistinct`).

`Ordered` is not inductive: a split moves a median into a parent of which the
invariant says only that its own records are in order, and an insertion at a
leaf must be in order with records of all pages above it.  `GrowInv` adds to
`IInv` that there is an assignment of **a range of keys to each page**: all keys
to the root, and to a child those of its parent's range that lie between the
records on both sides of it (`Ranges`); that a page's records are in its range
and in order (`Fits`); and that the activation stands on a page whose range has
the key it looks for (`Placed`).  A split gives each half what is below or above
the median (`SplitChildRanges`, `SplitRootRanges`); what a leaf does not hold of
its range, no page does (`LeafMisses`, from `RangesApart`), which is why an
insertion that does not collide adds a key and a search that fails is right.

For scans (`GrowScanInv`) every entry of the list has returned the record before
its position and not the one after it, and below the last entry all is still to
come or it is a leaf (`Due`).  A record still to come is then at or behind the
next record of some entry (`AheadOfEntry`), and that of a deeper entry comes
first (`DeeperIsLess`): `mdbBtreeTraverse` takes that of the deepest that has
one.

### Files, crashes and scans: `BtreeFileProofs`

Of `BtreeFile!FileSpec`, with the same freedom of constants and a kill between
any two writes:

| theorem | |
|---|---|
| `EverythingWritten` | `[]AllWritten`: with nothing left to write, the file is the tree |
| `NoDanglingChild` | `[]ChildrenFirst`: no node in the file points past its end |
| `DescriptorStaysLeaf` | `[]DescriptorNamesLeaf` |
| `ScanFollowsPath` | `[]CursorIsPath` |
| `LoadedIsShapely` | bounds, balance, no page shared or lost, of what was loaded, too |
| `CutShortLosesNothing` | `MergeLosesNothing` |

Their invariant `FInv` (`FileInvariant`) joins the tree's, the file's and the
scan's: `IInv` for the tree in memory, and that no page is lost; the file
together with what is left to write is that tree, new pages in the order of their
places, children before parents; the page that the descriptor names is a live
leaf in memory and a leaf in the file; the cursor is a path.  `Crash` keeps it
because a table's descriptor still names the leaf it was created with
(`FileStaleRoot`): what is loaded after a kill is a tree of that one page, and all
other pages of the file are given up.

What depends on the order of keys is proved, as for `Btree`, of tables from
which nothing is deleted, `GrowFileSpec`, with `KeysOrdered`; MQL has no
statement that deletes:

| theorem | |
|---|---|
| `LoadedAgainIsBtree` | `[]LoadedIsBtree`, the order of its keys included |
| `SmallestStay` | `SmallestSurvive` |
| `ScansOfFileInOrder` | `ScanInOrder`, of scans between any two loads |
| `ScansOfFileOmitNothing` | `EndMeansAll` |

Their invariant `FGrowInv` adds to `FInv` the order of the tree and of the scan
(`GrowScanInv`), and `Smallest`: the leaf that the descriptor names is in order
in the file, and below it in the order of keys is nothing that the tree has
elsewhere.  That is because it is the leaf at the left edge of the tree: a split
leaves the lower half where the node was and appends the upper half, so that the
keys this leaf is responsible for remain all those up to some one
(`LeftmostIsLeast`).  A stale descriptor finds an initial segment of the records.

### The catalog: `CatalogProofs`

Of `Catalog!Spec`, for all names, layouts, keys and file lengths:

| theorem | |
|---|---|
| `NothingOverlaps` | `[]BlocksDisjoint` |
| `EveryTableHasTree` | `[]ListedHasTree` |
| `OptimalOrderIsOptimal` | `IsOptimal` of what `mdbBtreeOptimalOrder` returns, if that is at least 2 |
| `TreesAreOptimal` | `[]OrdersOptimal`, if all orders are at least 2 (`Growing`) |
| `SystemTablesStay` | `[]SystemTablesListed` |
| `CreatedStaysFound` | `[]CreatedIsFound`, if no two names compare as equal and none has a NUL (`NamesApart`) |

`CatalogInv` says of the file that blocks are in order and apart (`Sized`,
`Apart`), that each descriptor has a root of its own, as large as it says
(`Rooted`), and that `.Tables` lists descriptors that exist, those of the system
tables under their own names only (`Lists`); and of the memory that the trees
of an open database, and the tree of the loaded table, are those of the
descriptors (`Opened`, `Loaded`), while those of a database that is being
created are where `mdbCreateDatabase` will compute them to be (`Starting`).
Without the last, the positions it computes could not be shown to be those
where the nodes are; without the system tables' names, a program's insertion
could be into `.Tables` itself.

`OptimalOrderIsOptimal` is about the search: `mdbBtreeOptimalOrder` looks only
at the largest order for each of 1024 node sizes, and takes the last of those
that leave least.  For any order, what its node leaves of the last kilobyte is
at least what the largest order leaves of that size, so one of those looked at
is the best of all.

The last two theorems are about what a search finds.  Names are compared only
as far as both go, so that "compares as equal" is no equivalence (a name and one
that begins with it), but "is less" is a strict order (`LessTransitive`): two
names are told apart at one place, and of two such places the first one decides.
Hence a leaf of names stays in order whatever is inserted (`Chain`,
`InsertedChain`), the search stops at one of them, and a record that is there is
found under its key (`FoundItself`); an insertion takes none out.  With that,

- `SystemTablesStay` needs nothing of a program's names.  What
  `mdbCreateSystemTables` lists is computed once (`SystemRowsThere`,
  `SystemColumnsThere`: thirteen insertions, none of which collides); the file's
  roots only gain records, one with a key that a program can choose at a time
  (`Gains`), and the memory's are the file's between two steps (`Synced`), as
  `mdbOpenDatabase` relies on;
- `CreatedStaysFound` needs `NamesApart`: two tables of which one's name begins
  the other's cannot both be listed, and the run `CatalogPrefix` shows what is
  found then.  The invariant `FoundInv` says that only tables are listed and only
  columns of listed tables (`NamesKept`: the identifiers of a new table's columns
  are taken by none, also after a creation that was cut short), how far a
  creation that is under way has got (`CreationKept`), and that what was created
  is there (`CreatedKept`).  That the identifiers of two columns differ is in the
  digits of `%03u` (`DigitsApart`).

As everywhere in `Catalog` a tree is a leaf: that splits keep the records findable
is for `BtreeOrderProofs`, and that names are no longer than their field for the
caller.

Assumptions: `SizesAssumption` (no record is within 2 KB of the largest node;
above that `mdbBtreeOptimalOrder` gives 0, hazard at `mdbbtree.c` 167),
`NamesAssumption` (an identifier of `MQL.ATG` does not begin with a dot, as
the system tables' names do), `LayoutsAssumption` (`mdbTable.columns` is one byte)
and `RowsAssumption` (keys are bytes).

### The machine and its programs: `MachineProofs`, `QueryProofs`

Of `VirtualMachine!Spec`, for all databases, all statements the parser accepts,
any number of them, explained or not, and any number of virtual tables:

| theorem | |
|---|---|
| `MachineHasTypes` | `[]TypeOK` |
| `StackStaysShallow` | `[]StackShallow`: two words are enough for every statement |
| `MachineStaysInside` | `[]StaysInside` |
| `ScansStayWhole` | `[]ScansAreWhole` |

`Decode` checks nothing, so none of this is a matter of the machine alone: it
holds because of the code that the compiler generates.  The proof has the form
of a bytecode verifier.  `Knowledge` is what is known of the machine before the
instruction at an address: what may be on the stack, which virtual table `tp`
selects, which ones are loaded and have columns, which of their scans still have
records to give.  `Legal` has a rule for each instruction: what it asks of that,
and that what is known where it goes on follows from it.  JMPF, the only place
where paths part, takes away a scan on the branch that its NXTREC ended.  A
program is `Verified` if some assignment of knowledge to its addresses makes all
its instructions legal.

- The rules are enough: a machine that runs a verified program and is as is known
  at its address stays so (`MachineInv`, one lemma for each instruction), and what
  the properties say follows from it (`SafeHere`).  At HALT the code is cut back
  to what it was, so that the next program, or the second copy of an explained
  one, starts as on a new machine (`Idling`).
- Every statement's code is verified (`AllAreVerified`).  The knowledge is built
  along the code, in the order in which the compiler generates it: `Built` is a
  program whose addresses so far are legal, and each construct of the compiler has
  a lemma that extends it.  For SELECT these are the loads, the copies of columns,
  the conditions with AND and OR from left to right, and the loops, of which each
  starts its inner one after rewinding it and leaves through the `JMPF` of its own
  NXTREC (`LoopsBuilt`).  What `MQLSelect` stores while it parses - addresses of
  names and values, numbers of virtual tables - is shown to be there and to fit
  (`ParsedFacts`, `ResolvedFacts`).

The recursion of the compiler over lists is in folds and functions; the
inductions are over the numbers of elements, by the least counterexample.

`QueryProofs` closes with the result set, of `ResultSet!ResultSpec`:
`PositionStaysInside` proves `[]PositionInside`, `AllIsPrinted`
`[]PrintsTheRest`, however the program moves.  `AllIsPrinted` takes
that an answer has at most 65536 records (`Fits`), the model's number of
what a counter counts.  The invariant relates the position to the records the
result set was made of, and those to the answer.

### Assumptions, and what is only model-checked

`OrderAssumption` (T >= 2: `mdbBtreeOptimalOrder` gives at least 2
for every record of up to 1986 bytes, and 1 for one of 1987), `KeyAssumption`, `CmpAssumption`,
`WipeAssumption`, `NoneAssumption` (NULL is no record), `SizesAssumption`,
`NamesAssumption`, `LayoutsAssumption`, `RowsAssumption`; `ValuesAssumption`, `DatabasesAssumption` (tables have
columns and rows) and `StatementsAssumption` (what the grammar of `MQL.ATG`
makes of a statement: lists of columns, attributes and values, of which those
that the grammar repeats from one on are not empty; and a query that mentions no
more tables than there are virtual ones, which the code does not check).  That a
statement names tables that exist is a guard of the model (`Named`).  TLC
evaluates the assumptions in every run.

Only model-checked:

- what depends on the order of keys in trees from which records are deleted:
  `Ordered`, `ImplementsMap` and `NotFoundMeansAbsent` there, `ScanInOrder` and
  `EndMeansAll` of `BtreeFile`, `SmallestSurvive`, and the order in
  `LoadedIsBtree`.  In tall trees they are false (`BtreePredecessor`), so that a
  theorem would have to be about trees of two levels;
- that a statement does what it means (`ImplementsMql`): the proofs say where
  its code reads and writes, not what it computes;
- liveness, which the provers cannot do (fairness and ENABLED): `CallReturns`,
  `ScanEnds`, `StatementEnds`.

## Bounds, and why they are enough

Two levels with T = 2 show every action of `Btree` (the runs fire each of its
disjuncts), with each rebalancing at the first, a middle and the last slot of
the parent: 6 keys and 8 pages allow a root with 3 records and 4 leaves.  What
two levels cannot show are children that move between internal nodes, a split
or a merge two levels above the leaves, and replacements from internal nodes:
`BtreeTall`'s scripts build such trees and its four free calls are enough for
each of these (the two violations need two and three).  The theorems remove the
bounds for the shape.  For order 3 see `BtreeInt16`.

`TableFile` has one record for each key and makes no searches, which neither
write nor move a cursor (`BtreeSmall` has both); with 5 keys and 4 pages to
start from, a root splits twice, both rotations and all three merges happen, and
a crash cuts each of them at each of its writes.  Writes are whole and in the
order of the calls: what stdio has not yet handed on when a program is killed is
the end of the last write, which the model takes as not begun.

The positions in `CatalogApart` are the real ones, with nodes of up to 1 MB;
`MaxLength` lets a program create two tables, in one life of the file or after
closing or being killed in the creation of the first, with the same name or
another.  `TwoLayouts` has a small record and one of 1986 bytes, the longest up
to which every order is at least 2.  Names begin none of each other there;
`CatalogPrefix` has two of which one does, and needs no crash.

The code of a query depends on its shape and not on its values: which columns
name their table, how many columns and conditions there are, where a result
column's table differs from the one before it, which tables conditions join.
The family of `MCQuery` has each of these with none, one and several.  Two tables
show a loop within a loop and its rewinding; three conditions show that neither
AND nor OR binds stronger.  The tables have none, one, two or three rows, so
that outer and inner loops end at once, after one record, and later.  `Odd` has
queries without a promised answer, on which the machine must stay inside its
memory all the same.  Two statements are enough for whatever one could leave
behind to meet the next; the third lets a table be created, filled and queried.

## What is not modelled

- I/O and allocation that fail: the code looks at no result, a short read leaves
  a node of zeroes and the program goes on with it;
- a kill inside the last writes of `mdbCreateDatabase`, of which only the root of
  `.Indexes` is new to the file: what opens afterwards has a table created where
  that root belongs (hazard at `mdbdatabase.c` 116);
- a catalog with more tables than fit into one node of `.Tables` or `.Columns`:
  its root would split, and what happens then is `FileStaleRoot`;
- memory that the code leaks (`right`, `next` in 580-695);
- the free list in the header, which nothing uses;
- FLOAT keys in a tree: `mdbCompareFloat` is a stub that finds all keys equal
  (`KeyCompare` says so), although `TODO.md` lists it as finished;
- statements with a syntax error, which are compiled as far as they were
  understood and then executed, and statements that name a table that does not
  exist, which read through a NULL pointer (`Named`);
- statements too long for the machine: 1024 words of code, 1024 of memory, 8
  tables, without checks in the code;
- `ExplainMQL` followed by another statement, which runs the explained code on
  data of its own; and the snapshot of a short statement with AND or OR, which
  reads through NULL (`Printable`);
- columns of a type with a wrong or missing length (`Sized`);
- the use of a database after `Close`, or without one after a failed open;
- scanner, parser tables, buffer, the loader and the character tables:
  generated, third-party or constant.

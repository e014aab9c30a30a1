------------------------------- MODULE Catalog -------------------------------
(***************************************************************************)
(* The database file and its catalog: mastersdb/mdb/mdbdatabase.c and      *)
(* mdbtable.c, as the API (MdbDatabase.cpp) and the virtual table call     *)
(* them.  Positions and sizes are in bytes.  With the real orders a node   *)
(* holds thousands of records, so every tree here is a leaf, its root.     *)
(* Names are STRINGs as KeyCompare has them.                               *)
(***************************************************************************)
EXTENDS KeyCompare, OptimalOrder, SequencesExt

CONSTANTS Names,      \* the names a program gives its tables
          Layouts,    \* sequences of columns: [type, length]
          Rows,       \* the keys of its records
          None,       \* no database is open, no table loaded
          Junk,       \* a column buffer nobody has written
          MaxLength   \* bound: a table is created in a shorter file only

VARIABLES length,     \* of the file
          magic,      \* the file starts with the header of a database
          metas,      \* the B-tree descriptors in the file, by position
          nodes,      \* the nodes in the file, by position
          db,         \* mdbDatabase: the three system trees, or None
          tbl,        \* the virtual table: name asked for, columns, tree
          pc,         \* what runs: nothing, or where a creation has got to
          ret,        \* the mdbError of the last call
          created     \* history: the tables whose creation returned, with
                      \*   the records whose insertion has returned

onFile == <<length, magic, metas, nodes>>
vars == <<onFile, db, tbl, pc, ret, created>>

sizeofHeader == 132

sizeofMeta == 16

sizeofRecord == [tables |-> 64, columns |-> 128, indexes |-> 64]

(* The place of each system tree's descriptor. *)
MetaOf ==
  [tables  |-> sizeofHeader,
   columns |-> sizeofHeader + sizeofMeta,
   indexes |-> sizeofHeader + 2 * sizeofMeta]

System == DOMAIN MetaOf

SystemName ==
  [tables  |-> <<46, 84, 97, 98, 108, 101, 115>>,
   columns |-> <<46, 67, 111, 108, 117, 109, 110, 115>>,
   indexes |-> <<46, 73, 110, 100, 101, 120, 101, 115>>]

Placeholder == sizeofHeader + 3 * sizeofMeta

-----------------------------------------------------------------------------
(* Records with a `key', in a leaf: the nodes of the B-tree.               *)
KeyOfRecord(r) == r.key

CmpNames(k1, k2) == mdbBtreeCmp("STRING", k1, k2)

Leaf == INSTANCE BtreeNode WITH
          Record <- {}, Key <- {}, KeyOf <- KeyOfRecord, Cmp <- CmpNames,
          Order <- 2

(* mdbBtreeInsert and mdbBtreeSearch in a leaf that is not full. *)
HitsAt(n, k, i) == Leaf!Hits(n, k, i) /\ Leaf!Stops(n, k, i)

Collides(n, k) == \E i \in 1 .. Leaf!Count(n) : HitsAt(n, k, i)

Found(n, k) == n.recs[CHOOSE i \in 1 .. Leaf!Count(n) : HitsAt(n, k, i)]

SlotOf(n, k) == CHOOSE i \in 1 .. Leaf!Count(n) + 1 : Leaf!Stops(n, k, i)

Inserted(n, r) ==
  IF Collides(n, r.key) THEN n ELSE Leaf!WithRecord(n, SlotOf(n, r.key), r)

InsertedAll(n, rs) == FoldLeft(Inserted, n, rs)

(* mdbBtreeCreate: order 0 asks for the optimal one, once for each size. *)
ColumnSize(col) ==
  LET t == datatypes[col.type]
  IN  t.header + t.size * (IF t.header > 0 THEN col.length ELSE 1)

RecordSize(columns) == FoldLeft(LAMBDA size, col : size + ColumnSize(col), 0, columns)

RecordSizes == {sizeofRecord[s] : s \in System} \cup {RecordSize(l) : l \in Layouts}

(* A record that is almost as large as the largest node has no order: see
   mdbBtreeOptimalOrder. *)
ASSUME SizesAssumption == RecordSizes \subseteq 1 .. UPPER_NS - 2 * KB

(* An IDENTIFIER of MQL begins with a letter, a system table's name with a dot. *)
ASSUME NamesAssumption ==
  \A name \in Names : name \in Seq(0 .. 255) /\ name # <<>> /\ name[1] # 46

(* What a program creates a table of: the columns are counted in one byte; and
   its keys are bytes. *)
ASSUME LayoutsAssumption ==
  \A l \in Layouts : l \in Seq([type : DOMAIN datatypes, length : Nat]) /\ Len(l) <= 255

ASSUME RowsAssumption == Rows \subseteq Seq(0 .. 255)

Orders == [size \in RecordSizes |-> mdbBtreeOptimalOrder(size)]

mdbBtreeCreate(order, size) ==
  [order |-> IF order = 0 THEN Orders[size] ELSE order, record_size |-> size,
   root_position |-> 0]

nodeSize(meta) == NodeSize(meta.order, meta.record_size)

(* A tree in memory: its descriptor, its root, the root's position or 0. *)
Tree(meta, root, position) ==
  [meta |-> meta, root |-> root, position |-> position]

(* mdbWriteNode(tree->root): where, what, and the file after it. *)
Place(tree) == IF tree.position > 0 THEN tree.position ELSE length

Image(tree) == [size |-> nodeSize(tree.meta), node |-> tree.root]

(* The blocks with another one at p. *)
Put(blocks, p, block) ==
  [q \in DOMAIN blocks \cup {p} |-> IF q = p THEN block ELSE blocks[q]]

Write(tree) ==
  /\ nodes' = Put(nodes, Place(tree), Image(tree))
  /\ length' = Max({length, Place(tree) + nodeSize(tree.meta)})

-----------------------------------------------------------------------------
(* The rows of the system tables about themselves.                         *)
Str(n) == [type |-> "STRING", length |-> n]

Int8 == [type |-> "INT-8", length |-> 0]

Int32 == [type |-> "INT-32", length |-> 0]

SystemLayout ==
  [tables  |-> <<Str(55), Int8, Int32>>,
   columns |-> <<Str(58), Int8, Int8, Str(56), Int32>>,
   indexes |-> <<Str(56), Int32>>]

(* sprintf("%s%03u"): the digits of the column's number after the name. *)
Digits(c) == <<48 + (c \div 100), 48 + ((c \div 10) % 10), 48 + (c % 10)>>

Id(name, c) == name \o Digits(c)

TableRecord(name, columns, btree) ==
  [key |-> name, columns |-> columns, btree |-> btree]

SystemRow(s) == TableRecord(SystemName[s], Len(SystemLayout[s]), MetaOf[s])

ColumnRecord(name, c, column) == [key |-> Id(name, c), column |-> column]

ColumnRecords(name, columns) ==
  [c \in 1 .. Len(columns) |-> ColumnRecord(name, c - 1, columns[c])]

(* Mutant: the columns are counted from 1. *)
LoadedColumnsFromOne(root, record) ==
  LET there == {c \in 1 .. record.columns : Collides(root, Id(record.key, c))}
  IN  [c \in 1 .. record.columns |->
         IF there \cap 1 .. c = {}
           THEN Junk
           ELSE Found(root, Id(record.key, Max(there \cap 1 .. c))).column]

(* What mdbLoadTable hands to its call-back: the search that fails leaves
   the column before it in the buffer. *)
LoadedColumns(root, record) ==
  LET there == {c \in 1 .. record.columns : Collides(root, Id(record.key, c - 1))}
  IN  [c \in 1 .. record.columns |->
         IF there \cap 1 .. c = {}
           THEN Junk
           ELSE Found(root, Id(record.key, Max(there \cap 1 .. c) - 1)).column]

-----------------------------------------------------------------------------
(* No file yet. *)
Init ==
  /\ length = 0 /\ magic = FALSE /\ metas = <<>> /\ nodes = <<>>
  /\ db = None /\ tbl = None /\ pc = "idle" /\ ret = "MDB_NO_ERROR"
  /\ created = <<>>

(* mdbCreateDatabase up to the system tables: the file is emptied and starts
   with a placeholder; the first insertions append the roots of .Tables and
   .Columns; nothing is inserted into .Indexes. *)
mdbCreateSystemTables ==
  LET tree(s, root, position) ==
        Tree(mdbBtreeCreate(0, sizeofRecord[s]), root, position)
      tables  == tree("tables",
                      Inserted(Inserted(Inserted(Leaf!EmptyLeaf,
                        SystemRow("tables")), SystemRow("columns")), SystemRow("indexes")),
                      Placeholder)
      columns == tree("columns",
                      InsertedAll(Leaf!EmptyLeaf,
                        ColumnRecords(SystemName.tables, SystemLayout.tables) \o
                        ColumnRecords(SystemName.columns, SystemLayout.columns) \o
                        ColumnRecords(SystemName.indexes, SystemLayout.indexes)),
                      Placeholder + nodeSize(tables.meta))
  IN  /\ pc = "idle" /\ db = None
      /\ magic' = FALSE /\ metas' = <<>>
      /\ nodes' = Put(Put(<<>>, tables.position, Image(tables)),
                      columns.position, Image(columns))
      /\ length' = columns.position + nodeSize(columns.meta)
      /\ db' = [tables |-> tables, columns |-> columns,
                indexes |-> tree("indexes", Leaf!EmptyLeaf, 0)]
      /\ pc' = "create database" /\ created' = <<>>
      /\ UNCHANGED <<tbl, ret>>

(* Mutant: the root of .Indexes is sought one node of .Tables further. *)
RootPositionsTables ==
  LET tables  == Placeholder
      columns == tables + nodeSize(db.tables.meta)
  IN  [tables |-> tables, columns |-> columns,
       indexes |-> columns + nodeSize(db.tables.meta)]

RootPositions ==
  LET tables  == Placeholder
      columns == tables + nodeSize(db.tables.meta)
  IN  [tables |-> tables, columns |-> columns,
       indexes |-> columns + nodeSize(db.columns.meta)]

(* The rest of mdbCreateDatabase: the header, the three descriptors and the
   three roots are written one after the other from the start of the file; of
   all this only the root of .Indexes is not in the file yet.  One step: a
   program that is killed inside it is left out. *)
mdbCreateDatabase ==
  LET second == Placeholder + nodeSize(db.tables.meta)
      third  == second + nodeSize(db.columns.meta)
      meta(s)  == [db[s].meta EXCEPT !.root_position = RootPositions[s]]
  IN  /\ pc = "create database"
      /\ magic' = TRUE
      /\ metas' = Put(Put(Put(metas, MetaOf.tables, meta("tables")),
                          MetaOf.columns, meta("columns")),
                      MetaOf.indexes, meta("indexes"))
      /\ nodes' = Put(Put(Put(nodes, Placeholder, Image(db.tables)),
                          second, Image(db.columns)), third, Image(db.indexes))
      /\ length' = Max({length, third + nodeSize(db.indexes.meta)})
      /\ db' = [s \in System |->
                  Tree(meta(s), db[s].root,
                       IF s = "indexes" THEN RootPositions[s] ELSE db[s].position)]
      /\ pc' = "idle" /\ ret' = "MDB_NO_ERROR"
      /\ UNCHANGED <<tbl, created>>

ReadTree(meta) ==
  Tree([mdbBtreeCreate(meta.order, meta.record_size) EXCEPT
          !.root_position = meta.root_position],
       nodes[meta.root_position].node, meta.root_position)

(* Only the magic number and the version are looked at. *)
mdbOpenDatabase ==
  /\ pc = "idle" /\ db = None /\ length > 0
  /\ \/ /\ magic
        /\ db' = [s \in System |-> ReadTree(metas[MetaOf[s]])]
        /\ ret' = "MDB_NO_ERROR"
     \/ /\ ~magic
        /\ ret' = "MDB_INVALID_FILE"
        /\ UNCHANGED db
  /\ UNCHANGED <<onFile, tbl, pc, created>>

(* The roots are written again; the descriptors are not. *)
mdbCloseDatabase ==
  /\ pc = "idle" /\ db # None
  /\ nodes' = Put(Put(Put(nodes, db.tables.position, Image(db.tables)),
                      db.columns.position, Image(db.columns)),
                  db.indexes.position, Image(db.indexes))
  /\ magic' = TRUE
  /\ db' = None /\ ret' = "MDB_NO_ERROR"
  /\ UNCHANGED <<length, metas, tbl, pc, created>>

(* The program ends without closing the database, or is killed, between any
   two of the actions that write. *)
Kill ==
  /\ db # None
  /\ db' = None /\ tbl' = None /\ pc' = "idle"
  /\ UNCHANGED <<onFile, ret, created>>

-----------------------------------------------------------------------------
(* mdbCreateTable: the descriptor and an empty root are appended, then the
   table is listed, then its columns, one by one. *)
mdbCreateTable(name, columns) ==
  LET root == length + sizeofMeta
      meta == [mdbBtreeCreate(0, RecordSize(columns)) EXCEPT
                 !.root_position = root]
  IN  /\ pc = "idle" /\ db # None
      /\ length < MaxLength
      /\ metas' = Put(metas, length, meta)
      /\ nodes' = Put(nodes, root, Image(Tree(meta, Leaf!EmptyLeaf, root)))
      /\ length' = root + nodeSize(meta)
      /\ tbl' = [name |-> name, columns |-> columns, btree |-> length,
                 tree |-> Tree(meta, Leaf!EmptyLeaf, root),
                 listed |-> 0,
                 new |-> name \notin {r.key : r \in ToSet(db.tables.root.recs)}]
      /\ pc' = "list table"
      /\ UNCHANGED <<magic, db, ret, created>>

(* Mutant: a record whose key is taken replaces the one that is there. *)
InsertSystemOver(s, record) ==
  LET root == db[s].root
      tree == [db[s] EXCEPT
                 !.root = IF Collides(root, record.key)
                            THEN Leaf!Replace(root, SlotOf(root, record.key), record)
                            ELSE Inserted(root, record)]
  IN  Write(tree) /\ db' = [db EXCEPT ![s] = tree]

(* An insertion into a system table whose result nobody looks at. *)
InsertSystem(s, record) ==
  IF Collides(db[s].root, record.key)
    THEN UNCHANGED <<nodes, length, db>>
    ELSE LET tree == [db[s] EXCEPT !.root = Inserted(@, record)]
         IN  /\ Write(tree)
             /\ db' = [db EXCEPT ![s] = [tree EXCEPT !.position = Place(tree)]]

ListTable ==
  /\ pc = "list table"
  /\ InsertSystem("tables", TableRecord(tbl.name, Len(tbl.columns), tbl.btree))
  /\ pc' = "list columns"
  /\ UNCHANGED <<magic, metas, tbl, ret, created>>

ListColumn ==
  LET c == tbl.listed
  IN  /\ pc = "list columns"
      /\ c < Len(tbl.columns)
      /\ InsertSystem("columns", ColumnRecord(tbl.name, c, tbl.columns[c + 1]))
      /\ tbl' = [tbl EXCEPT !.listed = c + 1]
      /\ UNCHANGED <<magic, metas, pc, ret, created>>

(* It returns.  The statement promises nothing about a name that was taken. *)
TableCreated ==
  /\ pc = "list columns"
  /\ tbl.listed = Len(tbl.columns)
  /\ created' = IF tbl.new
                  THEN Put(created, tbl.name, [columns |-> tbl.columns, rows |-> {}])
                  ELSE created
  /\ pc' = "created" /\ ret' = "MDB_NO_ERROR"
  /\ UNCHANGED <<onFile, db, tbl>>

mdbLoadTable(name) ==
  /\ pc = "idle" /\ db # None
  /\ \/ /\ Collides(db.tables.root, name)
        /\ LET record == Found(db.tables.root, name)
           IN  tbl' = [name |-> name,
                       columns |-> LoadedColumns(db.columns.root, record),
                       btree |-> record.btree,
                       tree |-> ReadTree(metas[record.btree]),
                       listed |-> record.columns, new |-> FALSE]
        /\ pc' = "loaded" /\ ret' = "MDB_NO_ERROR"
     \/ /\ ~Collides(db.tables.root, name)
        /\ ret' = "MDB_TABLE_NOT_FOUND"
        /\ UNCHANGED <<tbl, pc>>
  /\ UNCHANGED <<onFile, db, created>>

(* mdbVirtualTable::InsertRecord into the table that was loaded. *)
InsertRecord(row) ==
  LET tree == [tbl.tree EXCEPT !.root = Inserted(@, [key |-> row])]
  IN  /\ pc = "loaded"
      /\ ~Collides(tbl.tree.root, row)
      /\ Write(tree)
      /\ tbl' = [tbl EXCEPT !.tree = tree]
      /\ created' = IF tbl.name \in DOMAIN created
                      THEN [created EXCEPT ![tbl.name].rows = @ \cup {row}]
                      ELSE created
      /\ UNCHANGED <<magic, metas, db, pc, ret>>

(* mdbVirtualTable::Reset at the end of the statement. *)
Reset ==
  /\ pc \in {"created", "loaded"}
  /\ Write(tbl.tree)
  /\ tbl' = None /\ pc' = "idle"
  /\ UNCHANGED <<magic, metas, db, ret, created>>

Next ==
  \/ mdbCreateSystemTables \/ mdbCreateDatabase
  \/ mdbOpenDatabase \/ mdbCloseDatabase \/ Kill
  \/ \E name \in Names, columns \in Layouts : mdbCreateTable(name, columns)
  \/ ListTable \/ ListColumn \/ TableCreated
  \/ \E name \in Names : mdbLoadTable(name)
  \/ \E row \in Rows : InsertRecord(row)
  \/ Reset

Spec == Init /\ [][Next]_vars

-----------------------------------------------------------------------------
(* The system tables as they are in the file. *)
OnFile(s) == nodes[metas[MetaOf[s]].root_position].node

Blocks ==
  (IF length > 0 THEN {<<0, sizeofHeader>>} ELSE {})
    \cup {<<p, p + sizeofMeta>> : p \in DOMAIN metas}
    \cup {<<p, p + nodes[p].size>> : p \in DOMAIN nodes}

(* Header, descriptors and nodes never overlap and end inside the file:
   where mdbWriteNode appends, where mdbCreateDatabase and mdbCreateTable
   compute that nodes are, and how large they take them to be agree. *)
BlocksDisjoint ==
  \A a, b \in Blocks :
    /\ a[2] <= length
    /\ a # b => a[2] <= b[1] \/ b[2] <= a[1]

(* The order of the writes in mdbCreateTable: at every moment a table in
   .Tables, a system table among them, has its descriptor and its root. *)
ListedHasTree ==
  magic =>
    \A i \in 1 .. Leaf!Count(OnFile("tables")) :
      LET btree == OnFile("tables").recs[i].btree
      IN  /\ btree \in DOMAIN metas
          /\ metas[btree].root_position \in DOMAIN nodes
          /\ nodes[metas[btree].root_position].size = nodeSize(metas[btree])

(* A file that mdbOpenDatabase accepts lists and describes the three system
   tables, however far a creation that was cut short had got. *)
SystemTablesListed ==
  magic =>
    \A s \in System :
      /\ Collides(OnFile("tables"), SystemName[s])
      /\ LET record == Found(OnFile("tables"), SystemName[s])
         IN  /\ record.btree = MetaOf[s]
             /\ LoadedColumns(OnFile("columns"), record) = SystemLayout[s]
             /\ RecordSize(SystemLayout[s]) = metas[record.btree].record_size

(* A table whose creation has returned is found in the file under its name,
   with the columns it was created with and the records whose insertion has
   returned, whatever was created, closed, opened or killed since. *)
CreatedIsFound ==
  \A name \in DOMAIN created :
    /\ Collides(OnFile("tables"), name)
    /\ LET record == Found(OnFile("tables"), name)
           root   == nodes[metas[record.btree].root_position].node
       IN  /\ record.key = name
           /\ LoadedColumns(OnFile("columns"), record) = created[name].columns
           /\ \A row \in created[name].rows : Collides(root, row)

(* Every tree in the file has the optimal order for its records. *)
WellOrdered == {size \in RecordSizes : IsOptimal(Orders[size], size)}

OrdersOptimal ==
  \A p \in DOMAIN metas :
    /\ metas[p].record_size \in WellOrdered
    /\ metas[p].order = Orders[metas[p].record_size]
=============================================================================

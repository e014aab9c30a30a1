--------------------------------- MODULE Mql ---------------------------------
(***************************************************************************)
(* What an MQL statement means, and a database that does what statements   *)
(* mean.  A database is a function from the names of its tables to their   *)
(* columns and their rows in the order of the key, the first column.       *)
(*                                                                         *)
(* Statements are records:                                                 *)
(*   [kind: "create",   table, attributes: a sequence of columns]          *)
(*   [kind: "insert",   table, values]                                     *)
(*   [kind: "describe", table]                                             *)
(*   [kind: "select",   columns: references, from: names, where]           *)
(* `where' is a sequence of conditions, each joined to those before it by  *)
(* its `link', "and" or "or"; neither binds stronger than the other.  A    *)
(* reference is [table, column], its table Default if it names none, and   *)
(* the right operand of a condition a reference or a value.                *)
(***************************************************************************)
EXTENDS Integers, SequencesExt, TLC

CONSTANTS Junk,         \* the content of memory nobody has written
          NoStatement   \* no statement is being executed

VARIABLES db,       \* the tables
          asked,    \* the statement being executed
          answer    \* the records of the last statement's result

Default == 0
Asterisk == "*"

Holds(op, l, r) ==
  CASE op = "<"  -> l < r
    [] op = ">"  -> l > r
    [] op = "="  -> l = r
    [] op = ">=" -> l >= r
    [] op = "<=" -> l <= r
    [] op = "<>" -> l # r

-----------------------------------------------------------------------------
(* SELECT: the rows of the product of the tables, the table mentioned first
   changing slowest, that satisfy the conditions, and of them the columns. *)
Home(q, ref) == IF ref.table = Default THEN q.from[1] ELSE ref.table

RightRefs(c) == IF c.right.kind = "column" THEN <<c.right.ref>> ELSE <<>>

Refs(q) ==
  q.columns \o FlattenSeq([i \in DOMAIN q.where |->
                             <<q.where[i].left>> \o RightRefs(q.where[i])])

(* The tables of a query, in the order in which it mentions them. *)
Scope(q) ==
  FoldLeft(LAMBDA names, ref :
             IF Contains(names, Home(q, ref)) THEN names
                                              ELSE Append(names, Home(q, ref)),
           <<>>, Refs(q))

Names(d, t) == [i \in DOMAIN d[t].columns |-> d[t].columns[i].name]

Value(d, q, row, ref) ==
  row[Home(q, ref)][SelectInSeq(Names(d, Home(q, ref)),
                                LAMBDA name : name = ref.column)]

Satisfies(d, q, row, c) ==
  Holds(c.op, Value(d, q, row, c.left),
              IF c.right.kind = "column" THEN Value(d, q, row, c.right.ref)
                                         ELSE c.right.value)

Chosen(d, q, row) ==
  FoldLeft(LAMBDA so, c : IF c.link = "and" THEN so /\ Satisfies(d, q, row, c)
                                            ELSE so \/ Satisfies(d, q, row, c),
           q.where = <<>> \/ Satisfies(d, q, row, q.where[1]), q.where)

(* Rows of the product: functions from the tables of the query to rows. *)
Product(d, names) ==
  FoldLeft(LAMBDA rows, t :
             FlattenSeq([i \in DOMAIN rows |->
               [j \in DOMAIN d[t].rows |-> (t :> d[t].rows[j]) @@ rows[i]]]),
           << <<>> >>, names)

Selected(d, q, row) ==
  IF q.columns[1].column = Asterisk
    THEN row[q.from[1]]
    ELSE [i \in DOMAIN q.columns |-> Value(d, q, row, q.columns[i])]

Selection(d, q) ==
  LET rows == SelectSeq(Product(d, Scope(q)), LAMBDA row : Chosen(d, q, row))
  IN  [i \in DOMAIN rows |-> Selected(d, q, rows[i])]

Description(d, t) ==
  [i \in DOMAIN d[t].columns |->
     LET c == d[t].columns[i] IN <<c.name, c.type, c.length, c.indexed>>]

(* The rows of a table with one more, unless its key is taken. *)
Inserted(rows, row) ==
  IF \E i \in DOMAIN rows : rows[i][1] = row[1]
    THEN rows
    ELSE InsertAt(rows, Cardinality({i \in DOMAIN rows : rows[i][1] < row[1]}) + 1, row)

-----------------------------------------------------------------------------
Answer(s, d) ==
  CASE s.kind = "select"   -> Selection(d, s)
    [] s.kind = "describe" -> Description(d, s.table)
    [] OTHER               -> <<>>

Effect(s, d) ==
  CASE s.kind = "insert" -> [d EXCEPT ![s.table].rows = Inserted(@, s.values)]
    [] s.kind = "create" -> d @@ (s.table :> [columns |-> s.attributes,
                                              rows |-> <<>>])
    [] OTHER             -> d

-----------------------------------------------------------------------------
(* The statements that have a meaning. *)
Known(d, q) ==
  /\ q.from # <<>> /\ ToSet(q.from) \subseteq DOMAIN d
  /\ \A i \in DOMAIN Refs(q) :
       LET ref == Refs(q)[i]
       IN  /\ Home(q, ref) \in DOMAIN d
           /\ \/ Contains(Names(d, Home(q, ref)), ref.column)
              \/ ref.column = Asterisk /\ i = 1
  /\ \A t \in ToSet(Scope(q)) :
       \A i \in DOMAIN d[t].rows : ~Contains(d[t].rows[i], Junk)

(* All columns of the result have names of their own. *)
DistinctColumns(q) ==
  \A i, j \in DOMAIN q.columns :
    q.columns[i].column = q.columns[j].column => i = j

(* A reference without a table is not followed by one with a table. *)
Uniform(q) ==
  Refs(q)[1].table = Default =>
    \A i \in DOMAIN q.columns : q.columns[i].table = Default

OneTable(q) == ToSet(q.from) = ToSet(Scope(q)) /\ Len(Scope(q)) = 1

(* Several tables, always named, each of them compared with another. *)
Joined(q) ==
  /\ ToSet(q.from) = ToSet(Scope(q)) /\ Len(Scope(q)) > 1
  /\ \A i \in DOMAIN Refs(q) : Refs(q)[i].table # Default
  /\ \A t \in ToSet(Scope(q)) : \E i \in DOMAIN q.where :
       LET c == q.where[i]
       IN  /\ c.right.kind = "column"
           /\ c.left.table # c.right.ref.table
           /\ t \in {c.left.table, c.right.ref.table}

(* A statement whose values are kept as they are: of the numbers, bytes. *)
Narrow(d, s) ==
  \A i \in DOMAIN s.values :
    \/ d[s.table].columns[i].type = "STRING"
    \/ d[s.table].columns[i].type = "INT-8" /\ s.values[i] \in 0 .. 255

Meant(s, d) ==
  CASE s.kind = "select"   -> /\ Known(d, s) /\ DistinctColumns(s) /\ Uniform(s)
                              /\ OneTable(s) \/ Joined(s)
    [] s.kind = "insert"   -> /\ s.table \in DOMAIN d
                              /\ Len(s.values) = Len(d[s.table].columns)
                              /\ Narrow(d, s)
    [] s.kind = "describe" -> s.table \in DOMAIN d
    [] s.kind = "create"   -> s.attributes # <<>>

Ask ==
  /\ asked = NoStatement
  /\ asked' # NoStatement
  /\ UNCHANGED <<db, answer>>

(* Of a statement without a meaning only this is known: those that ask
   change nothing. *)
Execute ==
  /\ asked # NoStatement
  /\ asked' = NoStatement
  /\ asked.kind \in {"select", "describe"} => db' = db
  /\ Meant(asked, db) => answer' = Answer(asked, db) /\ db' = Effect(asked, db)

Next == Ask \/ Execute

Spec == [][Next]_<<db, asked, answer>>
=============================================================================

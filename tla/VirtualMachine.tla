---------------------------- MODULE VirtualMachine ----------------------------
(***************************************************************************)
(* mastersdb/mdb/mvm: the virtual machine, its virtual tables and the      *)
(* query results, driven by MdbDatabase::ExecuteMQL.  One action for each  *)
(* instruction that the compiler emits (POP, NOP and PushOffsetByte are    *)
(* never used).  Addresses count from 0 as in the code, sequences from 1.  *)
(*                                                                         *)
(* A scan of a B-tree is a position among the rows in key order, see       *)
(* BtreeTraverse; Scanned(t) says that NextRecord has answered that there  *)
(* is none.  Offsets in a record become positions in a sequence.           *)
(***************************************************************************)
EXTENDS Compiler

CONSTANTS Statements, Databases,   \* those that the program may meet
          MaxStatements,           \* bounds the statements executed
          MaxTables,               \* MDB_VM_TABLES_SIZE
          Junk, NoTable, NoStatement

IsList(s) == s \in Seq(ToSet(s))

(* Names are numbers, those of statements and those of tables. *)
ASSUME ValuesAssumption ==
  /\ MaxTables \in Nat \ {0}
  /\ NoTable \notin Nat /\ NoStatement \notin Statements

(* A table has columns and rows. *)
ASSUME DatabasesAssumption ==
  \A d \in Databases : \A t \in DOMAIN d :
    /\ t \in Nat
    /\ d[t] = [columns |-> d[t].columns, rows |-> d[t].rows]
    /\ IsList(d[t].columns) /\ d[t].columns # <<>> /\ IsList(d[t].rows)

(* The tables that a query mentions: each gets a virtual table. *)
Mentioned(q) ==
  {q.columns[i].table : i \in DOMAIN q.columns}
    \cup {q.where[i].left.table : i \in DOMAIN q.where}
    \cup {q.where[i].right.ref.table :
            i \in {j \in DOMAIN q.where : q.where[j].right.kind # "value"}}

(* What the grammar makes of a statement: lists, none of them empty but that of
   the conditions; and not more tables than there are virtual ones. *)
ASSUME StatementsAssumption ==
  \A s \in Statements :
    \/ /\ s.kind = "select"
       /\ IsList(s.columns) /\ s.columns # <<>> /\ IsList(s.where)
       /\ s.from[1] \in Nat /\ Mentioned(s) \subseteq Nat
       /\ Cardinality(Mentioned(s)) <= MaxTables
    \/ s.kind = "insert" /\ s.table \in Nat /\ IsList(s.values)
    \/ s.kind = "describe" /\ s.table \in Nat
    \/ /\ s.kind = "create" /\ s.table \in Nat
       /\ IsList(s.attributes) /\ s.attributes # <<>>

VARIABLES db,         \* the tables in the file, as in Mql
          code, ip,   \* bytecode and the next instruction
          memory,     \* the data of the code
          stack,
          tp,         \* the current virtual table
          tables,     \* the virtual tables
          results,    \* an mdbQueryResults: columns, record, records
          asked,      \* the statement being executed
          explained,  \* the statement whose code ExplainMQL has left
          answer,     \* what the last one returned; none is <<>>
          before,     \* history: db when the statement began
          executed    \* bounds the runs

machine == <<code, ip, memory, stack, tp, tables, results>>
vars == <<db, machine, asked, explained, answer, before, executed>>

NoRecord == <<>>      \* record is NULL

EmptyTable ==
  [table |-> NoTable, columns |-> <<>>, record |-> NoRecord, position |-> 0, cp |-> 0]

NoResults == [columns |-> <<>>, record |-> NoRecord, records |-> <<>>]

Init ==
  /\ db \in Databases
  /\ code = <<>> /\ ip = 0 /\ memory = <<>> /\ stack = <<>> /\ tp = 0
  /\ tables = [t \in 0 .. MaxTables - 1 |-> EmptyTable]
  /\ results = NoResults
  /\ asked = NoStatement /\ explained = NoStatement
  /\ answer = <<>> /\ before = db /\ executed = 0

-----------------------------------------------------------------------------
(* mdbVirtualTable, the base class of mdbQueryResults too *)
Rows(t) == db[t.table].rows

Scanned(t) == t.table # NoTable /\ t.position > Len(Rows(t))

(* cmap gives the last column of that name, and 0 for an unknown one. *)
Index(t, name) ==
  LET i == SelectLastInSeq(t.columns, LAMBDA c : c.name = name)
  IN  IF i = 0 THEN 1 ELSE i

Allocated(t) == [i \in DOMAIN t.columns |-> Junk]

WithRecord(t) == IF t.record = NoRecord THEN [t EXCEPT !.record = Allocated(t)] ELSE t

GetValue(t, name) == t.record[Index(t, name)]

(* addValue by name, and addValue that goes round the columns *)
AddNamed(t, name, value) ==
  [WithRecord(t) EXCEPT !.record[Index(t, name)] = value]

AddNext(t, value) ==
  [WithRecord(t) EXCEPT !.record[t.cp + 1] = value,
                        !.cp = (t.cp + 1) % Len(t.columns)]

AddColumn(t, column) == [t EXCEPT !.columns = Append(@, column)]

(* MQLValue stores one byte of a number in four bytes of fresh memory: a wider
   column takes whatever the others are. *)
Literal(value, type) ==
  CASE type = "STRING" -> value
    [] type = "INT-8"  -> value % 256
    [] OTHER           -> Junk

(* What CMP makes of the result of the comparison function *)
Success(op, cmpval) ==
  CASE op = "<"  -> cmpval < 0
    [] op = ">"  -> cmpval > 0
    [] op = "="  -> cmpval = 0
    [] op = ">=" -> cmpval >= 0
    [] op = "<=" -> cmpval <= 0
    [] op = "<>" -> cmpval # 0

(* mdbQueryResults::NewRecord *)
PushRecord(r) ==
  [r EXCEPT !.records = IF r.record = NoRecord THEN @ ELSE Append(@, r.record),
            !.record = Allocated(r)]

(* What is promised: until a statement has ended, the tables are the old ones. *)
Promise == INSTANCE Mql WITH db <- IF asked = NoStatement THEN db ELSE before

-----------------------------------------------------------------------------
(* Decode *)
Running == asked # NoStatement

Current == code[ip + 1]

Instruction(op) == Running /\ Current.op = op

data == Current.data

Word(address) == memory[address + 1]

Step == ip' = ip + 1

Others == UNCHANGED <<code, memory, asked, explained, answer, before, executed>>

Keep == Others /\ Step

SetResults(r) == results' = r /\ UNCHANGED <<db, stack, tp, tables>>

SetTables(t, new) ==
  tables' = [tables EXCEPT ![t] = new] /\ UNCHANGED <<db, stack, tp, results>>

SetStack(s) == stack' = s /\ UNCHANGED <<db, tp, tables, results>>

PUSH == Instruction("PUSH") /\ Keep /\ SetStack(Append(stack, data))

SETTBL ==
  /\ Instruction("SETTBL") /\ Keep
  /\ tp' = data
  /\ UNCHANGED <<db, stack, tables, results>>

(* The parser lets only a STRING have a length: one word more to pop. *)
NEWCOL ==
  /\ Instruction("NEWCOL") /\ Keep
  /\ LET info  == Word(Last(stack))
         sized == Sized(info.type)
         rest  == Front(stack)
     IN  /\ tables' = [tables EXCEPT ![tp] = AddColumn(@,
                [name |-> Word(data), type |-> info.type, indexed |-> info.indexed,
                 length |-> IF sized THEN Word(Last(rest)) ELSE 0])]
         /\ stack' = IF sized THEN Front(rest) ELSE rest
  /\ UNCHANGED <<db, tp, results>>

(* mdbCreateTable ignores that the name is taken. *)
CRTTBL ==
  /\ Instruction("CRTTBL") /\ Keep
  /\ LET t == tables[tp]
     IN  /\ db' = IF Word(data) \in DOMAIN db THEN db
                   ELSE With(db, Word(data), [columns |-> t.columns, rows |-> <<>>])
         /\ tables' = [tables EXCEPT ![tp] =
                         [t EXCEPT !.table = Word(data), !.record = Allocated(t)]]
  /\ UNCHANGED <<stack, tp, results>>

(* Columns are added to those there are. *)
LDTBL ==
  /\ Instruction("LDTBL") /\ Keep
  /\ LET t == [tables[tp] EXCEPT !.table = Word(data),
                                 !.columns = @ \o db[Word(data)].columns]
     IN  SetTables(tp, [t EXCEPT !.record = Allocated(t)])

(* A record for each column, and one more for the next; addValue goes round the
   four columns of the result. *)
DSCTBL ==
  /\ Instruction("DSCTBL") /\ Keep
  /\ LET Shown(c)    == <<c.name, c.type, c.length, c.indexed>>
         Text(n, l)  == [name |-> n, type |-> "STRING", length |-> l, indexed |-> 0]
     IN  SetResults([results EXCEPT
           !.columns = <<[Text("Name", 58) EXCEPT !.indexed = 1], Text("Type", 12),
                         [Text("Length", 0) EXCEPT !.type = "INT-32"],
                         [Text("Indexed", 0) EXCEPT !.type = "INT-8"]>>,
           !.records = [i \in DOMAIN tables[tp].columns |->
                          Shown(tables[tp].columns[i])],
           !.record  = [i \in 1 .. 4 |-> Junk]])

RSTTBL ==
  /\ Instruction("RSTTBL") /\ Keep
  /\ SetTables(data, [tables[data] EXCEPT !.position = 0])

CPYCOL ==
  /\ Instruction("CPYCOL") /\ Keep
  /\ LET t == tables[tp]
     IN  SetResults(IF Word(data) = Asterisk
                      THEN FoldLeft(AddColumn, results, t.columns)
                      ELSE AddColumn(results, t.columns[Index(t, Word(data))]))

(* An operand that nobody has written may come out either way. *)
CMP ==
  /\ Instruction("CMP") /\ Keep
  /\ LET p    == Word(data)
         left == tables[p.tbl_left]
         type == left.columns[Index(left, Word(p.col_left))].type
         l    == GetValue(left, Word(p.col_left))
         r    == IF p.direct THEN Literal(Word(p.col_right), type)
                             ELSE GetValue(tables[p.tbl_right], Word(p.col_right))
     IN  \E result \in {0, 1} :
           /\ Junk \notin {l, r} => (result = 1 <=> Success(p.op, l - r))
           /\ SetStack(Append(stack, result))

(* Bitwise operations on zeros and ones *)
BOOL ==
  /\ Instruction("BOOL") /\ Keep
  /\ LET p1 == Last(stack)
         p2 == Last(Front(stack))
     IN  SetStack(Append(Front(Front(stack)),
                         IF data = "and" THEN p1 * p2 ELSE Max({p1, p2})))

INSVAL ==
  /\ Instruction("INSVAL") /\ Keep
  /\ LET t == tables[tp]
     IN  SetTables(tp, AddNext(t, Literal(Word(data), t.columns[t.cp + 1].type)))

(* The B-tree refuses a key it has, and nobody looks. *)
INSREC ==
  /\ Instruction("INSREC") /\ Keep
  /\ db' = [db EXCEPT ![tables[tp].table].rows = Promise!Inserted(@, tables[tp].record)]
  /\ UNCHANGED <<stack, tp, tables, results>>

(* The row is copied to the front of the record. *)
NXTREC ==
  /\ Instruction("NXTREC") /\ Keep
  /\ LET t    == tables[data]
         next == t.position + 1
     IN  IF next <= Len(Rows(t))
           THEN /\ tables' = [tables EXCEPT ![data] = [t EXCEPT !.position = next,
                     !.record = Rows(t)[next]
                                  \o SubSeq(@, Len(Rows(t)[next]) + 1, Len(@))]]
                /\ stack' = Append(stack, 1)
           ELSE /\ tables' = [tables EXCEPT ![data].position = Len(Rows(t)) + 1]
                /\ stack' = Append(stack, 0)
  /\ UNCHANGED <<db, tp, results>>

CPYREC ==
  /\ Instruction("CPYREC") /\ Keep
  /\ LET t == tables[data]
         Copy(r, c) == AddNamed(r, c.name, GetValue(t, c.name))
     IN  SetResults(PushRecord(FoldLeft(Copy, results, t.columns)))

CPYVAL ==
  /\ Instruction("CPYVAL") /\ Keep
  /\ SetResults(AddNamed(results, Word(data), GetValue(tables[tp], Word(data))))

NEWREC == Instruction("NEWREC") /\ Keep /\ SetResults(PushRecord(results))

JMP == Instruction("JMP") /\ Others /\ ip' = data /\ SetStack(stack)

JMPF ==
  /\ Instruction("JMPF") /\ Others
  /\ ip' = IF Last(stack) = 0 THEN data ELSE ip + 1
  /\ SetStack(Front(stack))

(* Mutants: the virtual tables keep their columns and their scan; the code
   pointer is not reset. *)
HALTKeepsTables ==
  /\ Instruction("HALT")
  /\ code' = <<>> /\ ip' = 0 /\ memory' = <<>> /\ stack' = <<>> /\ tp' = 0
  /\ answer' = results.records
  /\ results' = NoResults
  /\ asked' = NoStatement /\ explained' = NoStatement
  /\ UNCHANGED <<db, before, executed, tables>>

HALTKeepsCode ==
  /\ Instruction("HALT")
  /\ ip' = 0 /\ memory' = <<>> /\ stack' = <<>> /\ tp' = 0
  /\ tables' = [t \in DOMAIN tables |-> EmptyTable]
  /\ answer' = results.records
  /\ results' = NoResults
  /\ asked' = NoStatement /\ explained' = NoStatement
  /\ UNCHANGED <<db, before, executed, code>>

(* Reset, and the end of Execute: results without a record are thrown away and
   nothing is returned. *)
HALT ==
  /\ Instruction("HALT")
  /\ code' = <<>> /\ ip' = 0 /\ memory' = <<>> /\ stack' = <<>> /\ tp' = 0
  /\ tables' = [t \in DOMAIN tables |-> EmptyTable]
  /\ answer' = results.records
  /\ results' = NoResults
  /\ asked' = NoStatement /\ explained' = NoStatement
  /\ UNCHANGED <<db, before, executed>>

(* A name that is no table's is not looked at before it is dereferenced; such
   statements are left out. *)
Named(s) ==
  CASE s.kind = "select" -> {s.from[1]} \cup (Mentioned(s) \ {Default})
    [] s.kind = "create" -> {}
    [] OTHER             -> {s.table}

(* The parser appends its code to the code there is and stores its data from
   address 0 on; jumps are relative to the code of their own statement. *)
Moved(p) ==
  [i \in DOMAIN p.code |->
     IF p.code[i].op \in {"JMP", "JMPF"} THEN [p.code[i] EXCEPT !.data = @ + Len(code)]
                                         ELSE p.code[i]]

Parse(s) ==
  /\ Named(s) \subseteq DOMAIN db
  /\ LET p == Compiled(s)
     IN  /\ code' = code \o Moved(p)
         /\ memory' = p.memory \o SubSeq(memory, Len(p.memory) + 1, Len(memory))
  /\ UNCHANGED <<db, ip, stack, tp, tables, results, answer>>

(* After ExplainMQL only the statement explained is executed: any other would
   run the code left behind on its own data. *)
ExecuteMQL(s) ==
  /\ ~Running /\ executed < MaxStatements
  /\ explained \in {NoStatement, s}
  /\ Parse(s)
  /\ asked' = s
  /\ before' = db
  /\ executed' = executed + 1
  /\ UNCHANGED explained

(* The snapshot takes the operator of a BOOL for an address and reads the word
   there; where there is none the program ends. *)
Operator(link) == IF link = "and" THEN 6 ELSE 7

Printable(c) == c.op = "BOOL" => Operator(c.data) < Len(memory')

(* The statement is compiled for its code to be shown, and not run; a bound: it
   is explained once. *)
ExplainMQL(s) ==
  /\ ~Running /\ explained = NoStatement /\ executed < MaxStatements
  /\ Parse(s)
  /\ \A i \in DOMAIN code' : Printable(code'[i])
  /\ explained' = s
  /\ UNCHANGED <<asked, before, executed>>

Decode ==
  \/ PUSH \/ SETTBL \/ NEWCOL \/ CRTTBL \/ LDTBL \/ DSCTBL \/ RSTTBL
  \/ CPYCOL \/ CMP \/ BOOL \/ INSVAL \/ INSREC \/ NXTREC
  \/ CPYREC \/ CPYVAL \/ NEWREC \/ JMP \/ JMPF \/ HALT

Next == Decode \/ \E s \in Statements : ExecuteMQL(s) \/ ExplainMQL(s)

(* Execute runs the code to its end. *)
Spec == Init /\ [][Next]_vars /\ WF_vars(Decode)

-----------------------------------------------------------------------------
TypeOK ==
  /\ ip \in Nat /\ tp \in DOMAIN tables
  /\ stack \in Seq(Nat)
  /\ DOMAIN tables = 0 .. MaxTables - 1
  /\ \A t \in DOMAIN tables :
       tables[t].table \in DOMAIN db \cup {NoTable} /\ tables[t].cp \in Nat
  /\ results.records \in Seq(ToSet(results.records))
  /\ \A i \in DOMAIN results.records :
       Len(results.records[i]) = Len(results.columns)
  /\ asked \in Statements \cup {NoStatement}
  /\ explained \in Statements \cup {NoStatement}
  /\ (code = <<>>) = (asked = NoStatement /\ explained = NoStatement)

(* The stack of 64 words has no check (_push, _pop): whatever statement is
   compiled, no more than two words are ever on it, however many conditions or
   columns there are, and none when it halts. *)
StackShallow ==
  /\ Len(stack) <= 2
  /\ Instruction("HALT") => stack = <<>>

Pops(op) ==
  CASE op = "BOOL" -> 2 [] op \in {"NEWCOL", "JMPF"} -> 1 [] OTHER -> 0

(* The addresses that the current instruction reads. *)
Addresses ==
  CASE Current.op \in {"NEWCOL", "CRTTBL", "LDTBL", "CPYCOL", "INSVAL", "CPYVAL"} -> {data}
    [] Current.op = "CMP" ->
         {data} \cup (IF data < Len(memory) THEN {Word(data).col_left, Word(data).col_right}
                                            ELSE {})
    [] OTHER -> {}

(* Decode and the instructions check nothing: the machine stays inside the code
   of the statement, reads only memory that the compiler stored, pops only what
   was pushed, and asks only tables that it has loaded. *)
StaysInside ==
  Running =>
    /\ ip < Len(code)
    /\ \A a \in Addresses : a < Len(memory)
    /\ Pops(Current.op) <= Len(stack)
    /\ Current.op \in {"RSTTBL", "NXTREC", "CPYREC"} => tables[data].table # NoTable
    /\ Current.op = "JMP" => data < ip

(* A scan that was told that there are no more records is asked again only
   after it was rewound (mdbBtreeTraverse would go down into the tree again),
   and rewound, or freed by HALT, only when it stands at the root
   (ResetRecords reads what it has freed anywhere else). *)
ScansAreWhole ==
  Running =>
    /\ Current.op = "NXTREC" => ~Scanned(tables[data])
    /\ Current.op = "RSTTBL" => tables[data].position = 0 \/ Scanned(tables[data])
    /\ Current.op = "HALT" =>
         \A t \in DOMAIN tables : tables[t].position = 0 \/ Scanned(tables[t])

(* The code of a statement with a meaning does what it means, after any other
   statements: a SELECT answers the rows it describes, in the order of the
   nested loops, an INSERT adds one row unless its key is taken. *)
ImplementsMql == Promise!Spec

(* Execute's loop comes to HALT. *)
StatementEnds == Running ~> ~Running

(* A SELECT from one table answers its rows, however its columns are named
   (TODO.md lists "implement `SELECT` (single-table, with `WHERE`)" as
   finished, and the grammar lets a column go with or without its table). *)
EitherNameSelects ==
  [][(Running /\ asked' = NoStatement /\ asked.kind = "select" /\ Promise!Known(before, asked)
        /\ Promise!OneTable(asked) /\ Promise!DistinctColumns(asked)) =>
       answer' = Promise!Selection(before, asked)]_vars
=============================================================================

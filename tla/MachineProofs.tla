---------------------------- MODULE MachineProofs ---------------------------
(***************************************************************************)
(* Proofs about VirtualMachine: a verifier for its bytecode, and that what *)
(* it accepts keeps the machine in bounds.                                 *)
(*                                                                         *)
(* For each address of a program Knowledge says what is known of the       *)
(* machine before the instruction there; Legal is what an instruction asks *)
(* of that, and of what is known where it goes on.  A program is Verified  *)
(* if all its instructions are legal.  The machine itself checks nothing:  *)
(* the invariant is that it runs a verified program and is as is known at  *)
(* the current address.                                                    *)
(*                                                                         *)
(* The second half builds verified programs one instruction at a time, and *)
(* shows so that the code of INSERT, DESCRIBE and CREATE TABLE is verified.*)
(* QueryProofs does the same for SELECT.                                   *)
(***************************************************************************)
EXTENDS VirtualMachine, ListProofs, FiniteSetTheorems

(* The numbers of the virtual tables. *)
Virtual == 0 .. MaxTables - 1

(* What a comparison leaves on the stack. *)
Bit == {0, 1}

(* stack: the values that each word on it may have; current: what tp may be;
   loaded, columns: virtual tables that have a table, and columns; open: those
   whose scan has not been told that there is no more; fresh: nothing was
   scanned and there are no records yet; more: the table whose NXTREC has left
   the word on top. *)
Knowledge ==
  [stack: Seq(SUBSET Nat), current: SUBSET Virtual, loaded: SUBSET Virtual,
   columns: SUBSET Virtual, open: SUBSET Virtual, fresh: BOOLEAN,
   more: Virtual \cup {NoTable}]

(* What is known when a program starts. *)
AtStart ==
  [stack |-> <<>>, current |-> {0}, loaded |-> {}, columns |-> {}, open |-> {},
   fresh |-> TRUE, more |-> NoTable]

(* Who knows a knows b.  Before anything is scanned any table may be called
   open. *)
Implies(a, b) ==
  /\ a.stack = b.stack /\ a.more = b.more
  /\ a.current \subseteq b.current
  /\ b.loaded \subseteq a.loaded /\ b.columns \subseteq a.columns
  /\ b.fresh => a.fresh
  /\ a.fresh \/ a.open = b.open

(* The address is one of the program's memory. *)
Stored(p, address) == address \in 0 .. Len(p.memory) - 1

(* A word more on the stack. *)
Pushed(a, values) == [a EXCEPT !.stack = Append(@, values)]

(* The register tp is known to select t. *)
Known(a, t) == t \in Virtual /\ a.current = {t}

(* The address is in the code, and what is assigned to it is known. *)
Leads(know, address, a) == address \in DOMAIN know /\ Implies(a, know[address])

(* NEWCOL finds the type on top of the stack and, if that has a length, the
   length below it. *)
NewColumn(p, a) ==
  \E w \in 0 .. Len(p.memory) - 1 :
    /\ Last(a.stack) = {w}
    /\ Len(a.stack) = IF Sized(p.memory[w + 1].type) THEN 2 ELSE 1

(* A comparison names two addresses of the memory. *)
Operands(p, param) == Stored(p, param.col_left) /\ Stored(p, param.col_right)

(* The instruction at n can do no harm to a machine that is as know[n]
   says, and leaves it as is known where it goes on. *)
Legal(p, names, know, n) ==
  LET a == know[n]
      d == p.code[n + 1].data
      Then(b) == Leads(know, n + 1, b)
  IN
  /\ Len(a.stack) <= 2
  /\ a.more = NoTable \/ p.code[n + 1].op = "JMPF"
  /\ CASE p.code[n + 1].op = "PUSH" ->
            Len(a.stack) < 2 /\ d \in Nat /\ Then(Pushed(a, {d}))
       [] p.code[n + 1].op = "SETTBL" ->
            d \in Virtual /\ Then([a EXCEPT !.current = {d}])
       [] p.code[n + 1].op = "NEWCOL" ->
            /\ Stored(p, d) /\ a.stack # <<>> /\ NewColumn(p, a)
            /\ \E t \in Virtual : Known(a, t)
                   /\ Then([a EXCEPT !.stack = <<>>, !.columns = @ \cup {t}])
       [] p.code[n + 1].op = "CRTTBL" ->
            /\ Stored(p, d) /\ p.memory[d + 1] \in Nat /\ a.fresh
            /\ \E t \in a.columns : Known(a, t)
            /\ Then(a)
       [] p.code[n + 1].op = "LDTBL" ->
            /\ Stored(p, d) /\ p.memory[d + 1] \in names /\ a.fresh
            /\ \E t \in Virtual : Known(a, t)
                   /\ Then([a EXCEPT !.loaded = @ \cup {t}, !.columns = @ \cup {t}])
       [] p.code[n + 1].op = "DSCTBL" ->
            a.fresh /\ Then([a EXCEPT !.fresh = FALSE, !.open = {}])
       [] p.code[n + 1].op = "RSTTBL" ->
            /\ d \in a.loaded /\ d \notin a.open /\ ~a.fresh
            /\ Then([a EXCEPT !.open = @ \cup {d}])
       [] p.code[n + 1].op = "CPYCOL" -> Stored(p, d) /\ a.fresh /\ Then(a)
       [] p.code[n + 1].op = "CMP" ->
            /\ Stored(p, d) /\ Operands(p, p.memory[d + 1])
            /\ Len(a.stack) < 2 /\ Then(Pushed(a, Bit))
       [] p.code[n + 1].op = "BOOL" ->
            a.stack = <<Bit, Bit>> /\ Then([a EXCEPT !.stack = <<Bit>>])
       [] p.code[n + 1].op = "INSVAL" ->
            Stored(p, d) /\ (\E t \in a.columns : Known(a, t)) /\ Then(a)
       [] p.code[n + 1].op = "INSREC" -> a.fresh /\ Then(a)
       [] p.code[n + 1].op = "NXTREC" ->
            /\ d \in a.loaded /\ d \in a.open /\ ~a.fresh /\ a.stack = <<>>
            /\ Then([Pushed(a, Bit) EXCEPT !.more = d])
       [] p.code[n + 1].op = "CPYREC" -> d \in a.loaded /\ ~a.fresh /\ Then(a)
       [] p.code[n + 1].op = "CPYVAL" -> Stored(p, d) /\ ~a.fresh /\ Then(a)
       [] p.code[n + 1].op = "NEWREC" -> ~a.fresh /\ Then(a)
       [] p.code[n + 1].op = "JMP" -> d \in 0 .. n - 1 /\ Leads(know, d, a)
       [] p.code[n + 1].op = "JMPF" ->
            /\ d \in Nat /\ a.stack = <<Bit>> /\ ~a.fresh
            /\ Then([a EXCEPT !.stack = <<>>, !.more = NoTable])
            /\ Leads(know, d, [a EXCEPT !.stack = <<>>, !.more = NoTable,
                                        !.open = @ \ {a.more}])
       [] p.code[n + 1].op = "HALT" ->
            a.stack = <<>> /\ a.open = {}
       [] OTHER -> FALSE

(* A program is a list of instructions and a memory. *)
IsCode(p) ==
  /\ IsList(p.code) /\ p.code # <<>> /\ IsList(p.memory)
  /\ \A i \in DOMAIN p.code : p.code[i] = I(p.code[i].op, p.code[i].data)

(* The verifier accepts the program: each instruction is legal where it
   stands. *)
Verified(p, names, know) ==
  /\ IsCode(p)
  /\ know \in [0 .. Len(p.code) - 1 -> Knowledge]
  /\ Implies(AtStart, know[0])
  /\ \A n \in DOMAIN know : Legal(p, names, know, n)

-----------------------------------------------------------------------------
(* The machine is as is known: its stack, *)
StackIs(a) ==
  /\ stack \in Seq(Nat) /\ Len(stack) = Len(a.stack)
  /\ \A i \in 1 .. Len(stack) : stack[i] \in a.stack[i]

(* its tables, *)
TablesAre(a) ==
  /\ tp \in a.current
  /\ \A t \in a.loaded : tables[t].table # NoTable
  /\ \A t \in a.columns : tables[t].columns # <<>>

(* No scan has begun and there are no records. *)
NothingYet ==
  /\ \A t \in Virtual : tables[t].position = 0
  /\ results.records = <<>> /\ results.record = NoRecord

(* The scan has not begun or has been told that there is no more. *)
Whole(t) == t.position = 0 \/ Scanned(t)

(* its scans. *)
ScansAre(a) ==
  /\ a.fresh => NothingYet
  /\ ~a.fresh => \A t \in Virtual : IF t \in a.open THEN t # a.more => ~Scanned(tables[t])
                                                    ELSE Whole(tables[t])
  /\ a.more # NoTable => (Last(stack) = 0 <=> Scanned(tables[a.more]))

(* All of what is known. *)
Agrees(a) == StackIs(a) /\ TablesAre(a) /\ ScansAre(a)

(* What the machine never loses whatever it executes: a virtual table has
   its parts, *)
TableShape(t) ==
  /\ t = [table |-> t.table, columns |-> t.columns, record |-> t.record,
          position |-> t.position, cp |-> t.cp]
  /\ t.table \in DOMAIN db \cup {NoTable} /\ IsList(t.columns)
  /\ t.position \in Nat /\ t.cp \in Nat

(* a table of the database columns and rows, *)
DbShape ==
  \A n \in DOMAIN db : /\ n \in Nat
                       /\ db[n] = [columns |-> db[n].columns, rows |-> db[n].rows]
                       /\ IsList(db[n].columns) /\ db[n].columns # <<>>
                       /\ IsList(db[n].rows)

(* a row has a value for each column, *)
RowOf(columns, row) == IsList(row) /\ Len(row) = Len(columns)

(* the results have rows, *)
ResultsShape(q) ==
  /\ q = [columns |-> q.columns, record |-> q.record, records |-> q.records]
  /\ IsList(q.columns) /\ IsList(q.records)
  /\ q.record = NoRecord \/ RowOf(q.columns, q.record)
  /\ \A i \in DOMAIN q.records : RowOf(q.columns, q.records[i])

(* and so on, all together. *)
Shape ==
  /\ DbShape
  /\ DOMAIN tables = Virtual /\ \A t \in Virtual : TableShape(tables[t])
  /\ ResultsShape(results)

(* The code of the program is where the machine executes. *)
InCode(p) ==
  /\ IsList(code) /\ Len(p.code) <= Len(code)
  /\ \A i \in 1 .. Len(p.code) : code[i] = p.code[i]
  /\ memory = p.memory

(* The machine is somewhere in a verified program, and is as is known
   there. *)
Runs(p, names, know) ==
  /\ Verified(p, names, know)
  /\ InCode(p) /\ ip \in DOMAIN know
  /\ names \subseteq DOMAIN db
  /\ Agrees(know[ip])

-----------------------------------------------------------------------------
(* Lists are the tuples of the library. *)
LEMMA ListFacts ==
  ASSUME NEW s, IsList(s)
  PROVE  /\ Len(s) \in Nat
         /\ DOMAIN s = 1 .. Len(s)
         /\ Len(s) = 0 <=> s = <<>>
BY LenProperties, EmptySeq DEF IsList

(* A table that is scanned is one of the database. *)
LEMMA ScannedFacts ==
  ASSUME DbShape, NEW t, TableShape(t)
  PROVE  /\ t.position = 0 => ~Scanned(t)
         /\ t.table # NoTable => t.table \in DOMAIN db /\ Len(Rows(t)) \in Nat
<1>1. CASE t.table = NoTable
  BY <1>1 DEF Scanned
<1>2. CASE t.table # NoTable
  <2>1. t.table \in DOMAIN db
    BY <1>2 DEF TableShape
  <2>2. Len(Rows(t)) \in Nat
    BY <2>1, ListFacts DEF DbShape, Rows
  <2>3. QED
    BY <2>1, <2>2 DEF Scanned
<1>3. QED
  BY <1>1, <1>2

(* What is known becomes less. *)
LEMMA Weaker ==
  ASSUME NEW a \in Knowledge, NEW b \in Knowledge, Implies(a, b), Shape, Agrees(a)
  PROVE  Agrees(b)
<1>1. StackIs(b) /\ TablesAre(b)
  BY DEF Implies, Agrees, StackIs, TablesAre
<1>2. b.fresh => NothingYet
  BY DEF Implies, Agrees, ScansAre
<1>3. b.more # NoTable => (Last(stack) = 0 <=> Scanned(tables[b.more]))
  BY DEF Implies, Agrees, ScansAre
<1>4. ASSUME ~b.fresh, NEW t \in Virtual
      PROVE  IF t \in b.open THEN t # b.more => ~Scanned(tables[t])
                             ELSE Whole(tables[t])
  <2>1. CASE a.fresh
    <3>1. tables[t].position = 0
      BY <2>1 DEF Agrees, ScansAre, NothingYet
    <3>2. ~Scanned(tables[t])
      BY <3>1, ScannedFacts DEF Shape
    <3>3. QED
      BY <3>1, <3>2 DEF Whole
  <2>2. CASE ~a.fresh
    BY <2>2 DEF Implies, Agrees, ScansAre
  <2>3. QED
    BY <2>1, <2>2
<1>5. QED
  BY <1>1, <1>2, <1>3, <1>4 DEF Agrees, ScansAre

(* A machine that is as a says is as b says if a implies it. *)
LEMMA WeakerNext ==
  ASSUME NEW a \in Knowledge, NEW b \in Knowledge, Implies(a, b)
  PROVE  Shape' /\ Agrees(a)' => Agrees(b)'
<1>1. Shape /\ Agrees(a) => Agrees(b)
  BY Weaker
<1>2. (Shape /\ Agrees(a) => Agrees(b))'
  BY <1>1, PTL
<1>3. QED
  BY <1>2

(* The instruction is one of the statement's, and a legal one. *)
LEMMA Fetched ==
  ASSUME NEW p, NEW names, NEW know, Runs(p, names, know)
  PROVE  /\ ip \in 0 .. Len(p.code) - 1 /\ ip + 1 \in Nat
         /\ Current = p.code[ip + 1]
         /\ know[ip] \in Knowledge /\ Agrees(know[ip])
         /\ Legal(p, names, know, ip)
         /\ Len(p.code) \in Nat
<1>1. /\ IsList(p.code) /\ know \in [0 .. Len(p.code) - 1 -> Knowledge]
      /\ ip \in DOMAIN know
      /\ \A n \in DOMAIN know : Legal(p, names, know, n)
      /\ \A i \in 1 .. Len(p.code) : code[i] = p.code[i]
      /\ Agrees(know[ip])
  BY DEF Runs, Verified, IsCode, InCode
<1>2. Len(p.code) \in Nat
  BY <1>1, ListFacts
<1>3. ip \in 0 .. Len(p.code) - 1
  BY <1>1
<1>4. ip + 1 \in 1 .. Len(p.code)
  BY <1>2, <1>3
<1>5. QED
  BY <1>1, <1>2, <1>3, <1>4 DEF Current

(* The next instruction finds what the rules say that it finds. *)
LEMMA Continues ==
  ASSUME NEW p, NEW names, NEW know, Runs(p, names, know), UNCHANGED <<code, memory>>,
         NEW b \in Knowledge, Leads(know, ip', b),
         DOMAIN db \subseteq DOMAIN db', Shape', Agrees(b)'
  PROVE  Runs(p, names, know)'
<1>1. know \in [0 .. Len(p.code) - 1 -> Knowledge] /\ ip' \in DOMAIN know /\ Implies(b, know[ip'])
  BY DEF Runs, Verified, Leads
<1>2. know[ip'] \in Knowledge
  BY <1>1
<1>3. \A a \in Knowledge : Implies(b, a) => Agrees(a)'
  BY WeakerNext
<1>4. (Agrees(know[ip]))'
  BY <1>1, <1>2, <1>3
<1>5. InCode(p)'
  BY DEF Runs, InCode
<1>6. QED
  BY <1>1, <1>4, <1>5 DEF Runs

(* What is known after an instruction. *)
LEMMA KnowledgeParts ==
  ASSUME NEW a \in Knowledge
  PROVE  /\ a.stack \in Seq(SUBSET Nat) /\ Len(a.stack) \in Nat
         /\ a.current \subseteq Virtual /\ a.loaded \subseteq Virtual
         /\ a.columns \subseteq Virtual /\ a.open \subseteq Virtual
         /\ a.fresh \in BOOLEAN /\ a.more \in Virtual \cup {NoTable}
BY LenProperties DEF Knowledge

(* Pushing changes the stack only. *)
LEMMA PushedFacts ==
  ASSUME NEW a \in Knowledge, NEW S \in SUBSET Nat
  PROVE  /\ Pushed(a, S) \in Knowledge
         /\ Pushed(a, S).stack = Append(a.stack, S)
         /\ Pushed(a, S).current = a.current /\ Pushed(a, S).loaded = a.loaded
         /\ Pushed(a, S).columns = a.columns /\ Pushed(a, S).open = a.open
         /\ Pushed(a, S).fresh = a.fresh /\ Pushed(a, S).more = a.more
<1>1. Append(a.stack, S) \in Seq(SUBSET Nat)
  BY DEF Knowledge
<1> DEFINE w == Append(a.stack, S)
<1> HIDE DEF w
<1>2. Pushed(a, S) = [a EXCEPT !.stack = w]
  BY DEF Pushed, w
<1>3. [a EXCEPT !.stack = w] \in Knowledge
  BY <1>1 DEF Knowledge, w
<1>4. QED
  BY <1>2, <1>3 DEF Knowledge, w

(* The machine stands at an instruction of the statement p. *)
At(p, names, know, a, d) ==
  /\ Runs(p, names, know) /\ Shape
  /\ a = know[ip] /\ d = data

(* What is known at the current instruction. *)
LEMMA AtFacts ==
  ASSUME NEW p, NEW names, NEW know, NEW a, NEW d, At(p, names, know, a, d)
  PROVE  /\ a \in Knowledge /\ StackIs(a) /\ TablesAre(a) /\ ScansAre(a)
         /\ Legal(p, names, know, ip) /\ a = know[ip]
         /\ p.code[ip + 1] = Current /\ d = p.code[ip + 1].data
         /\ Shape /\ Runs(p, names, know) /\ memory = p.memory
BY Fetched DEF At, Agrees, data, Runs, InCode

(* The instructions that change nothing but the stack. *)
LEMMA OnlyStack ==
  ASSUME NEW p, NEW names, NEW know, NEW a, NEW d, At(p, names, know, a, d),
         UNCHANGED <<code, memory, db, tp, tables, results>>,
         NEW b \in Knowledge, Leads(know, ip', b),
         b.current = a.current, b.loaded = a.loaded, b.columns = a.columns,
         StackIs(b)', ScansAre(b)'
  PROVE  Shape' /\ Runs(p, names, know)'
<1>1. TablesAre(a) /\ Shape /\ Runs(p, names, know)
  BY AtFacts
<1>2. Shape'
  BY <1>1 DEF Shape, DbShape, TableShape
<1>3. TablesAre(b)'
  BY <1>1 DEF TablesAre
<1>4. QED
  BY <1>1, <1>2, <1>3, Continues DEF Agrees

(* Those that change nothing but the results. *)
LEMMA OnlyResults ==
  ASSUME NEW p, NEW names, NEW know, NEW a, NEW d, At(p, names, know, a, d),
         UNCHANGED <<code, memory, db, tp, stack, tables>>,
         ResultsShape(results'),
         a.fresh => results'.records = <<>> /\ results'.record = NoRecord,
         Leads(know, ip', a)
  PROVE  Shape' /\ Runs(p, names, know)'
<1>1. a \in Knowledge /\ StackIs(a) /\ TablesAre(a) /\ ScansAre(a) /\ Shape /\ Runs(p, names, know)
  BY AtFacts
<1>2. Shape'
  BY <1>1 DEF Shape, DbShape, TableShape
<1>3. StackIs(a)' /\ TablesAre(a)'
  BY <1>1 DEF TablesAre, StackIs
<1>4. ScansAre(a)'
  BY <1>1 DEF ScansAre, NothingYet, Whole, Scanned, Rows
<1>5. QED
  BY <1>1, <1>2, <1>3, <1>4, Continues DEF Agrees

(* Those that change one virtual table, and perhaps the stack. *)
LEMMA OnlyTable ==
  ASSUME NEW p, NEW names, NEW know, NEW a, NEW d, At(p, names, know, a, d),
         UNCHANGED <<code, memory, db, tp, results>>,
         NEW t \in Virtual, NEW new, TableShape(new), tables' = [tables EXCEPT ![t] = new],
         NEW b \in Knowledge, Leads(know, ip', b), b.current = a.current,
         b.loaded \subseteq a.loaded \/ (new.table # NoTable /\ b.loaded \subseteq a.loaded \cup {t}),
         t \in a.loaded => new.table # NoTable,
         b.columns \subseteq a.columns \/ (new.columns # <<>> /\ b.columns \subseteq a.columns \cup {t}),
         t \in a.columns => new.columns # <<>>,
         StackIs(b)', ScansAre(b)'
  PROVE  Shape' /\ Runs(p, names, know)'
<1>1. TablesAre(a) /\ Shape /\ Runs(p, names, know)
  BY AtFacts
<1>2. /\ DOMAIN tables' = Virtual
      /\ \A u \in Virtual : tables'[u] = IF u = t THEN new ELSE tables[u]
  BY <1>1 DEF Shape
<1>3. Shape'
  BY <1>1, <1>2 DEF Shape, DbShape, TableShape
<1>4. TablesAre(b)'
  <2>1. b.loaded \subseteq Virtual /\ b.columns \subseteq Virtual
    BY KnowledgeParts
  <2>2. QED
    BY <1>1, <1>2, <2>1 DEF TablesAre
<1>5. QED
  BY <1>1, <1>3, <1>4, Continues DEF Agrees

-----------------------------------------------------------------------------
(* The instructions, one by one. *)
LEMMA PUSHStep ==
  ASSUME NEW p, NEW names, NEW know, NEW a, NEW d, At(p, names, know, a, d), PUSH
  PROVE  Shape' /\ Runs(p, names, know)'
<1> DEFINE b == Pushed(a, {d})
<1>1. /\ a.more = NoTable /\ Len(a.stack) < 2 /\ d \in Nat
      /\ Leads(know, ip + 1, b)
  <2>1. p.code[ip + 1].op = "PUSH" /\ p.code[ip + 1].data = d
    BY AtFacts DEF PUSH, Instruction
  <2>2. Legal(p, names, know, ip) /\ a = know[ip]
    BY AtFacts
  <2>3. QED
    BY <2>1, <2>2 DEF Legal
<1>2. a \in Knowledge /\ StackIs(a) /\ ScansAre(a) /\ a.stack \in Seq(SUBSET Nat)
  BY AtFacts, KnowledgeParts
<1>3. /\ b \in Knowledge /\ b.stack = Append(a.stack, {d}) /\ b.current = a.current
      /\ b.loaded = a.loaded /\ b.columns = a.columns /\ b.open = a.open
      /\ b.fresh = a.fresh /\ b.more = a.more
  BY <1>1, <1>2, PushedFacts
<1> HIDE DEF b
<1>4. /\ ip' = ip + 1 /\ UNCHANGED <<code, memory, db, tp, tables, results>>
      /\ stack' = Append(stack, d)
  BY DEF PUSH, Keep, Others, Step, SetStack, At
<1>5. StackIs(b)'
  BY <1>1, <1>2, <1>3, <1>4 DEF StackIs
<1>6. ScansAre(b)'
  BY <1>1, <1>2, <1>3, <1>4 DEF ScansAre, NothingYet, Whole, Scanned, Rows
<1>7. QED
  BY <1>1, <1>3, <1>4, <1>5, <1>6, OnlyStack

(* One lemma for each instruction: a machine in a verified program stays in
   it. CMP, *)
LEMMA CMPStep ==
  ASSUME NEW p, NEW names, NEW know, NEW a, NEW d, At(p, names, know, a, d), CMP
  PROVE  Shape' /\ Runs(p, names, know)'
<1> DEFINE b == Pushed(a, Bit)
<1>1. /\ a.more = NoTable /\ Len(a.stack) < 2
      /\ Leads(know, ip + 1, b)
  <2>1. p.code[ip + 1].op = "CMP" /\ p.code[ip + 1].data = d
    BY AtFacts DEF CMP, Instruction
  <2>2. Legal(p, names, know, ip) /\ a = know[ip]
    BY AtFacts
  <2>3. QED
    BY <2>1, <2>2 DEF Legal
<1>2. a \in Knowledge /\ StackIs(a) /\ ScansAre(a) /\ a.stack \in Seq(SUBSET Nat)
  BY AtFacts, KnowledgeParts
<1>3. /\ b \in Knowledge /\ b.stack = Append(a.stack, Bit) /\ b.current = a.current
      /\ b.loaded = a.loaded /\ b.columns = a.columns /\ b.open = a.open
      /\ b.fresh = a.fresh /\ b.more = a.more
  BY <1>1, <1>2, PushedFacts DEF Bit
<1> HIDE DEF b
<1>4. PICK result \in Bit : stack' = Append(stack, result)
  BY DEF CMP, SetStack, Bit
<1>5. ip' = ip + 1 /\ UNCHANGED <<code, memory, db, tp, tables, results>>
  BY DEF CMP, Keep, Others, Step, SetStack
<1>6. StackIs(b)'
  BY <1>1, <1>2, <1>3, <1>4 DEF StackIs, Bit
<1>7. ScansAre(b)'
  BY <1>1, <1>2, <1>3, <1>5 DEF ScansAre, NothingYet, Whole, Scanned, Rows
<1>8. QED
  BY <1>1, <1>3, <1>5, <1>6, <1>7, OnlyStack

(* Knowledge with another stack, or with other scans. *)
LEMMA StackFacts ==
  ASSUME NEW a \in Knowledge, NEW w \in Seq(SUBSET Nat)
  PROVE  LET b == [a EXCEPT !.stack = w]
         IN  /\ b \in Knowledge /\ b.stack = w /\ b.current = a.current
             /\ b.loaded = a.loaded /\ b.columns = a.columns /\ b.open = a.open
             /\ b.fresh = a.fresh /\ b.more = a.more
BY DEF Knowledge

(* BOOL, *)
LEMMA BOOLStep ==
  ASSUME NEW p, NEW names, NEW know, NEW a, NEW d, At(p, names, know, a, d), BOOL
  PROVE  Shape' /\ Runs(p, names, know)'
<1> DEFINE w == <<Bit>>
           b == [a EXCEPT !.stack = w]
<1>1. /\ a.more = NoTable /\ a.stack = <<Bit, Bit>> /\ Leads(know, ip + 1, b)
  <2>1. p.code[ip + 1].op = "BOOL"
    BY AtFacts DEF BOOL, Instruction
  <2>2. Legal(p, names, know, ip) /\ a = know[ip]
    BY AtFacts
  <2>3. QED
    BY <2>1, <2>2 DEF Legal
<1>2. a \in Knowledge /\ StackIs(a) /\ ScansAre(a)
  BY AtFacts
<1>3. w \in Seq(SUBSET Nat) /\ Len(w) = 1 /\ w[1] = Bit
  BY DEF Bit
<1> HIDE DEF w
<1>4. /\ b \in Knowledge /\ b.stack = w /\ b.current = a.current
      /\ b.loaded = a.loaded /\ b.columns = a.columns /\ b.open = a.open
      /\ b.fresh = a.fresh /\ b.more = a.more
  BY <1>2, <1>3, StackFacts
<1> HIDE DEF b
<1>5. stack \in Seq(Nat) /\ Len(stack) = 2 /\ stack[1] \in Bit /\ stack[2] \in Bit
  BY <1>1, <1>2 DEF StackIs
<1>6. Last(stack) \in Bit /\ Last(Front(stack)) \in Bit /\ Front(Front(stack)) = <<>>
  BY <1>5 DEF Last, Front
<1>7. PICK v \in Bit : stack' = <<v>>
  <2> DEFINE p1 == Last(stack)
             p2 == Last(Front(stack))
             v == IF data = "and" THEN p1 * p2 ELSE Max({p1, p2})
  <2>1. v \in Bit
    <3>1. p1 * p2 \in Bit
      BY <1>6 DEF Bit
    <3>2. Max({p1, p2}) \in Bit
      BY <1>6 DEF Bit, Max
    <3>3. QED
      BY <3>1, <3>2
  <2>2. stack' = Append(Front(Front(stack)), v)
    BY DEF BOOL, SetStack
  <2>3. QED
    BY <1>6, <2>1, <2>2
<1>8. ip' = ip + 1 /\ UNCHANGED <<code, memory, db, tp, tables, results>>
  BY DEF BOOL, Keep, Others, Step, SetStack
<1>9. StackIs(b)'
  BY <1>3, <1>4, <1>7 DEF StackIs, Bit
<1>10. ScansAre(b)'
  BY <1>1, <1>2, <1>4, <1>8 DEF ScansAre, NothingYet, Whole, Scanned, Rows
<1>11. QED
  BY <1>1, <1>4, <1>8, <1>9, <1>10, OnlyStack

(* JMP: the code jumps to itself, *)
LEMMA JMPStep ==
  ASSUME NEW p, NEW names, NEW know, NEW a, NEW d, At(p, names, know, a, d), JMP
  PROVE  Shape' /\ Runs(p, names, know)'
<1>1. a.more = NoTable /\ Leads(know, d, a)
  <2>1. p.code[ip + 1].op = "JMP" /\ p.code[ip + 1].data = d
    BY AtFacts DEF JMP, Instruction
  <2>2. Legal(p, names, know, ip) /\ a = know[ip]
    BY AtFacts
  <2>3. QED
    BY <2>1, <2>2 DEF Legal
<1>2. a \in Knowledge /\ StackIs(a) /\ ScansAre(a)
  BY AtFacts
<1>3. ip' = d /\ UNCHANGED <<code, memory, db, tp, tables, results, stack>>
  BY DEF JMP, Others, SetStack, At
<1>4. StackIs(a)' /\ ScansAre(a)'
  BY <1>2, <1>3 DEF StackIs, ScansAre, NothingYet, Whole, Scanned, Rows
<1>5. QED
  BY <1>1, <1>2, <1>3, <1>4, OnlyStack

(* JMPF: the loop is left or goes on, *)
LEMMA JMPFStep ==
  ASSUME NEW p, NEW names, NEW know, NEW a, NEW d, At(p, names, know, a, d), JMPF
  PROVE  Shape' /\ Runs(p, names, know)'
<1> DEFINE zero == Last(stack) = 0
           w == <<>>
           O == a.open \ {a.more}
           on == [a EXCEPT !.stack = w, !.more = NoTable]
           away == [a EXCEPT !.stack = w, !.more = NoTable, !.open = O]
<1>1. /\ a.stack = <<Bit>> /\ ~a.fresh
      /\ Leads(know, ip + 1, on) /\ Leads(know, d, away)
  <2>1. p.code[ip + 1].op = "JMPF"
    BY AtFacts DEF JMPF, Instruction
  <2>2. Legal(p, names, know, ip) /\ a = know[ip] /\ d = p.code[ip + 1].data
    BY AtFacts
  <2>3. QED
    BY <2>1, <2>2 DEF Legal
<1>2. a \in Knowledge /\ StackIs(a) /\ ScansAre(a)
  BY AtFacts
<1>3. w \in Seq(SUBSET Nat) /\ Len(w) = 0 /\ O \in SUBSET Virtual /\ a.open \in SUBSET Virtual
      /\ \A t \in Virtual : t \in O <=> t \in a.open /\ t # a.more
  BY <1>2, KnowledgeParts
<1> HIDE DEF w, O
<1>4. /\ on \in Knowledge /\ on.stack = w /\ on.current = a.current
      /\ on.loaded = a.loaded /\ on.columns = a.columns /\ on.open = a.open
      /\ on.fresh = a.fresh /\ on.more = NoTable
  BY <1>2, <1>3 DEF Knowledge
<1>5. /\ away \in Knowledge /\ away.stack = w /\ away.current = a.current
      /\ away.loaded = a.loaded /\ away.columns = a.columns /\ away.open = O
      /\ away.fresh = a.fresh /\ away.more = NoTable
  BY <1>2, <1>3 DEF Knowledge
<1> HIDE DEF on, away
<1>6. stack \in Seq(Nat) /\ Len(stack) = 1 /\ Front(stack) = <<>>
  BY <1>1, <1>2 DEF StackIs, Front
<1>7. /\ ip' = IF zero THEN d ELSE ip + 1
      /\ stack' = <<>> /\ UNCHANGED <<code, memory, db, tp, tables, results>>
  BY <1>6 DEF JMPF, Others, SetStack, At
<1>8. CASE zero
  <2>1. StackIs(away)'
    BY <1>3, <1>5, <1>7 DEF StackIs
  <2>2. ScansAre(away)'
    <3>1. \A t \in Virtual : IF t \in O THEN ~Scanned(tables[t]) ELSE Whole(tables[t])
      <4> TAKE t \in Virtual
      <4>1. IF t \in a.open THEN t # a.more => ~Scanned(tables[t]) ELSE Whole(tables[t])
        BY <1>1, <1>2 DEF ScansAre
      <4>2. a.more # NoTable => Scanned(tables[a.more])
        BY <1>2, <1>8 DEF ScansAre
      <4>3. t = a.more => t # NoTable
        BY ValuesAssumption DEF Virtual
      <4>4. QED
        BY <1>3, <4>1, <4>2, <4>3 DEF Whole
    <3>2. QED
      BY <1>1, <1>5, <1>7, <3>1 DEF ScansAre, Whole, Scanned, Rows
  <2>3. QED
    BY <1>1, <1>5, <1>7, <1>8, <2>1, <2>2, OnlyStack
<1>9. CASE ~zero
  <2>1. StackIs(on)'
    BY <1>3, <1>4, <1>7 DEF StackIs
  <2>2. ScansAre(on)'
    <3>1. \A t \in Virtual : IF t \in a.open THEN ~Scanned(tables[t]) ELSE Whole(tables[t])
      <4> TAKE t \in Virtual
      <4>1. IF t \in a.open THEN t # a.more => ~Scanned(tables[t]) ELSE Whole(tables[t])
        BY <1>1, <1>2 DEF ScansAre
      <4>2. a.more # NoTable => ~Scanned(tables[a.more])
        BY <1>2, <1>9 DEF ScansAre
      <4>3. t = a.more => t # NoTable
        BY ValuesAssumption DEF Virtual
      <4>4. QED
        BY <4>1, <4>2, <4>3
    <3>2. QED
      BY <1>1, <1>4, <1>7, <3>1 DEF ScansAre, Whole, Scanned, Rows
  <2>3. QED
    BY <1>1, <1>4, <1>7, <1>9, <2>1, <2>2, OnlyStack
<1>10. QED
  BY <1>8, <1>9

(* SETTBL, *)
LEMMA SETTBLStep ==
  ASSUME NEW p, NEW names, NEW know, NEW a, NEW d, At(p, names, know, a, d), SETTBL
  PROVE  Shape' /\ Runs(p, names, know)'
<1> DEFINE C == {d}
           b == [a EXCEPT !.current = C]
<1>1. a.more = NoTable /\ d \in Virtual /\ Leads(know, ip + 1, b)
  <2>1. p.code[ip + 1].op = "SETTBL"
    BY AtFacts DEF SETTBL, Instruction
  <2>2. Legal(p, names, know, ip) /\ a = know[ip] /\ d = p.code[ip + 1].data
    BY AtFacts
  <2>3. QED
    BY <2>1, <2>2 DEF Legal
<1>2. a \in Knowledge /\ StackIs(a) /\ TablesAre(a) /\ ScansAre(a) /\ Shape /\ Runs(p, names, know)
  BY AtFacts
<1>3. C \in SUBSET Virtual /\ d \in C
  BY <1>1
<1> HIDE DEF C
<1>4. /\ b \in Knowledge /\ b.stack = a.stack /\ b.current = C
      /\ b.loaded = a.loaded /\ b.columns = a.columns /\ b.open = a.open
      /\ b.fresh = a.fresh /\ b.more = a.more
  BY <1>2, <1>3 DEF Knowledge
<1> HIDE DEF b
<1>5. /\ ip' = ip + 1 /\ tp' = d
      /\ UNCHANGED <<code, memory, db, stack, tables, results>>
  BY DEF SETTBL, Keep, Others, Step, At
<1>6. Shape'
  BY <1>2, <1>5 DEF Shape, DbShape, TableShape
<1>7. StackIs(b)' /\ TablesAre(b)'
  BY <1>2, <1>3, <1>4, <1>5 DEF StackIs, TablesAre
<1>8. ScansAre(b)'
  BY <1>2, <1>4, <1>5 DEF ScansAre, NothingYet, Whole, Scanned, Rows
<1>9. QED
  BY <1>1, <1>2, <1>4, <1>5, <1>6, <1>7, <1>8, Continues DEF Agrees

-----------------------------------------------------------------------------
(* CPYREC copies the values of the record one by one. *)
CopyValue(t, acc, c) == AddNamed(acc, c.name, GetValue(t, c.name))

(* All of them. *)
CopiedValues(t, base, s) == FoldLeft(LAMBDA acc, c : CopyValue(t, acc, c), base, s)

(* One more element of a fold, of any of the folds there are. *)
Accumulated(op, t, acc, e) ==
  CASE op = "AddColumn" -> AddColumn(acc, e)
    [] op = "Copy"      -> CopyValue(t, acc, e)
    [] op = "Column"    -> Column(acc, e)
    [] op = "Condition" -> Condition(acc, e)
    [] op = "Attribute" -> Attribute(acc, e)

(* A fold as the library defines it: over the subsets of the places. *)
Folds(it, op, t, base, s, n) ==
  it = [S \in SUBSET (1 .. n) |->
          IF S = {} THEN base ELSE Accumulated(op, t, it[S \ {Max(S)}], s[Max(S)])]

(* g is what is accumulated before the first element, after it, and so on. *)
Accumulates(g, op, t, base, s, n, result) ==
  /\ g[0] = base /\ g[n] = result
  /\ \A i \in 0 .. n - 1 : g[i + 1] = Accumulated(op, t, g[i], s[i + 1])

(* A fold has its intermediate results; the steps are named, since no
   operator can be handed to a lemma. *)
LEMMA FoldExists ==
  ASSUME NEW op, NEW t, NEW base, NEW s, NEW n \in Nat
  PROVE  \E it : Folds(it, op, t, base, s, n)
<1> DEFINE B == {i \in 0 .. n : \E it : Folds(it, op, t, base, s, i)}
<1>1. 0 \in B
  <2> DEFINE it == [S \in SUBSET (1 .. 0) |-> base]
  <2>1. \A S \in SUBSET (1 .. 0) : S = {}
    OBVIOUS
  <2>2. Folds(it, op, t, base, s, 0)
    BY <2>1 DEF Folds
  <2>3. QED
    BY <2>2
<1>2. ASSUME NEW i \in 0 .. n - 1, i \in B
      PROVE  i + 1 \in B
  <2>1. PICK it : Folds(it, op, t, base, s, i)
    BY <1>2
  <2> DEFINE new == [S \in SUBSET (1 .. i + 1) |->
                       IF i + 1 \in S THEN Accumulated(op, t, it[S \ {i + 1}], s[i + 1])
                                      ELSE it[S]]
  <2>2. ASSUME NEW S \in SUBSET (1 .. i + 1)
        PROVE  new[S] = IF S = {} THEN base
                        ELSE Accumulated(op, t, new[S \ {Max(S)}], s[Max(S)])
    <3>1. CASE i + 1 \in S
      <4>1. Max(S) = i + 1 /\ S \ {i + 1} \in SUBSET (1 .. i + 1) /\ i + 1 \notin S \ {i + 1}
        BY <3>1, MaxOfPrefix
      <4>2. new[S \ {i + 1}] = it[S \ {i + 1}]
        BY <4>1
      <4>3. new[S] = Accumulated(op, t, it[S \ {i + 1}], s[i + 1])
        BY <3>1
      <4>4. QED
        BY <3>1, <4>1, <4>2, <4>3
    <3>2. CASE i + 1 \notin S /\ S # {}
      <4>1. S \in SUBSET (1 .. i)
        BY <3>2
      <4>2. Max(S) \in S /\ S \ {Max(S)} \in SUBSET (1 .. i)
        BY <3>2, <4>1, MaxInside
      <4>3. S \ {Max(S)} \in SUBSET (1 .. i + 1) /\ i + 1 \notin S \ {Max(S)}
        BY <3>2, <4>2
      <4>4. new[S] = it[S] /\ new[S \ {Max(S)}] = it[S \ {Max(S)}]
        BY <3>2, <4>3
      <4>5. it[S] = Accumulated(op, t, it[S \ {Max(S)}], s[Max(S)])
        BY <2>1, <3>2, <4>1 DEF Folds
      <4>6. QED
        BY <3>2, <4>4, <4>5
    <3>3. CASE S = {}
      <4>1. new[S] = it[S] /\ S \in SUBSET (1 .. i)
        BY <3>3
      <4>2. it[S] = base
        BY <2>1, <3>3, <4>1 DEF Folds
      <4>3. QED
        BY <3>3, <4>1, <4>2
    <3>4. QED
      BY <3>1, <3>2, <3>3
  <2>3. new = [S \in SUBSET (1 .. i + 1) |-> new[S]]
    OBVIOUS
  <2> HIDE DEF new
  <2>4. Folds(new, op, t, base, s, i + 1)
    BY <2>2, <2>3 DEF Folds
  <2>5. QED
    BY <2>4
<1> HIDE DEF B
<1>3. n \in B
  BY <1>1, <1>2, SetInduction
<1>4. QED
  BY <1>3 DEF B

(* What a fold has accumulated, element by element. *)
LEMMA FoldParts ==
  ASSUME NEW op, NEW t, NEW base, NEW s, NEW n \in Nat, NEW it, Folds(it, op, t, base, s, n)
  PROVE  \E g : Accumulates(g, op, t, base, s, n, it[1 .. n])
<1> DEFINE g == [i \in 0 .. n |-> it[1 .. i]]
<1>1. g[0] = base
  <2>1. 1 .. 0 = {} /\ 1 .. 0 \in SUBSET (1 .. n)
    OBVIOUS
  <2>2. it[1 .. 0] = base
    BY <2>1 DEF Folds
  <2>3. QED
    BY <2>2
<1>2. ASSUME NEW i \in 0 .. n - 1
      PROVE  g[i + 1] = Accumulated(op, t, g[i], s[i + 1])
  <2> DEFINE S == 1 .. i + 1
  <2>1. S \in SUBSET (1 .. n) /\ S # {} /\ S \in SUBSET (1 .. i + 1) /\ i + 1 \in S
    OBVIOUS
  <2>2. Max(S) = i + 1
    BY <2>1, MaxOfPrefix
  <2>3. S \ {i + 1} = 1 .. i
    OBVIOUS
  <2> HIDE DEF S
  <2>4. it[S] = Accumulated(op, t, it[1 .. i], s[i + 1])
    BY <2>1, <2>2, <2>3 DEF Folds
  <2>5. g[i + 1] = it[S] /\ g[i] = it[1 .. i]
    BY DEF S
  <2>6. QED
    BY <2>4, <2>5
<1>3. g[n] = it[1 .. n]
  OBVIOUS
<1> HIDE DEF g
<1>4. QED
  BY <1>1, <1>2, <1>3 DEF Accumulates

(* FoldLeft takes such steps: the columns of a table, *)
LEMMA FoldAddColumn ==
  ASSUME NEW base, NEW s, IsList(s)
  PROVE  \E g : Accumulates(g, "AddColumn", 0, base, s, Len(s), FoldLeft(AddColumn, base, s))
<1> DEFINE all == FoldLeft(AddColumn, base, s)
<1>1. Len(s) \in Nat /\ DOMAIN s = 1 .. Len(s)
  BY ListFacts
<1>2. \E it : Folds(it, "AddColumn", 0, base, s, Len(s))
  BY <1>1, FoldExists
<1>3. \E it : Folds(it, "AddColumn", 0, base, s, Len(s)) /\ it[1 .. Len(s)] = all
  BY <1>1, <1>2, Zenon DEF Folds, Accumulated, FoldLeft, MapThenFoldSet
<1> HIDE DEF all
<1>4. \E g : Accumulates(g, "AddColumn", 0, base, s, Len(s), all)
  BY <1>1, <1>3, FoldParts
<1>5. QED
  BY <1>4, Zenon DEF all

(* the values of a record, *)
LEMMA FoldCopy ==
  ASSUME NEW t, NEW base, NEW s, IsList(s)
  PROVE  \E g : Accumulates(g, "Copy", t, base, s, Len(s), CopiedValues(t, base, s))
<1> DEFINE all == CopiedValues(t, base, s)
<1>1. Len(s) \in Nat /\ DOMAIN s = 1 .. Len(s)
  BY ListFacts
<1>2. \E it : Folds(it, "Copy", t, base, s, Len(s))
  BY <1>1, FoldExists
<1>3. \E it : Folds(it, "Copy", t, base, s, Len(s)) /\ it[1 .. Len(s)] = all
  BY <1>1, <1>2, Zenon DEF Folds, Accumulated, CopiedValues, FoldLeft, MapThenFoldSet
<1> HIDE DEF all
<1>4. \E g : Accumulates(g, "Copy", t, base, s, Len(s), all)
  BY <1>1, <1>3, FoldParts
<1>5. QED
  BY <1>4 DEF all

(* the columns a statement selects, *)
LEMMA FoldColumn ==
  ASSUME NEW base, NEW s, IsList(s)
  PROVE  \E g : Accumulates(g, "Column", 0, base, s, Len(s), FoldLeft(Column, base, s))
<1> DEFINE all == FoldLeft(Column, base, s)
<1>1. Len(s) \in Nat /\ DOMAIN s = 1 .. Len(s)
  BY ListFacts
<1>2. \E it : Folds(it, "Column", 0, base, s, Len(s))
  BY <1>1, FoldExists
<1>3. \E it : Folds(it, "Column", 0, base, s, Len(s)) /\ it[1 .. Len(s)] = all
  BY <1>1, <1>2, Zenon DEF Folds, Accumulated, FoldLeft, MapThenFoldSet
<1> HIDE DEF all
<1>4. \E g : Accumulates(g, "Column", 0, base, s, Len(s), all)
  BY <1>1, <1>3, FoldParts
<1>5. QED
  BY <1>4, Zenon DEF all

(* its conditions, *)
LEMMA FoldCondition ==
  ASSUME NEW base, NEW s, IsList(s)
  PROVE  \E g : Accumulates(g, "Condition", 0, base, s, Len(s), FoldLeft(Condition, base, s))
<1> DEFINE all == FoldLeft(Condition, base, s)
<1>1. Len(s) \in Nat /\ DOMAIN s = 1 .. Len(s)
  BY ListFacts
<1>2. \E it : Folds(it, "Condition", 0, base, s, Len(s))
  BY <1>1, FoldExists
<1>3. \E it : Folds(it, "Condition", 0, base, s, Len(s)) /\ it[1 .. Len(s)] = all
  BY <1>1, <1>2, Zenon DEF Folds, Accumulated, FoldLeft, MapThenFoldSet
<1> HIDE DEF all
<1>4. \E g : Accumulates(g, "Condition", 0, base, s, Len(s), all)
  BY <1>1, <1>3, FoldParts
<1>5. QED
  BY <1>4, Zenon DEF all

(* the attributes of a new table. *)
LEMMA FoldAttribute ==
  ASSUME NEW base, NEW s, IsList(s)
  PROVE  \E g : Accumulates(g, "Attribute", 0, base, s, Len(s), FoldLeft(Attribute, base, s))
<1> DEFINE all == FoldLeft(Attribute, base, s)
<1>1. Len(s) \in Nat /\ DOMAIN s = 1 .. Len(s)
  BY ListFacts
<1>2. \E it : Folds(it, "Attribute", 0, base, s, Len(s))
  BY <1>1, FoldExists
<1>3. \E it : Folds(it, "Attribute", 0, base, s, Len(s)) /\ it[1 .. Len(s)] = all
  BY <1>1, <1>2, Zenon DEF Folds, Accumulated, FoldLeft, MapThenFoldSet
<1> HIDE DEF all
<1>4. \E g : Accumulates(g, "Attribute", 0, base, s, Len(s), all)
  BY <1>1, <1>3, FoldParts
<1>5. QED
  BY <1>4, Zenon DEF all

(* A function on an interval is a list. *)
LEMMA FunctionIsList ==
  ASSUME NEW n \in Nat, NEW s, s = [i \in 1 .. n |-> s[i]]
  PROVE  IsList(s) /\ Len(s) = n
<1>1. \A i \in 1 .. n : s[i] \in ToSet(s)
  BY DEF ToSet
<1>2. s \in [1 .. n -> ToSet(s)]
  BY <1>1
<1>3. QED
  BY <1>2, LenProperties DEF IsList

(* A list with an element more, *)
LEMMA ListMore ==
  ASSUME NEW s, IsList(s), NEW e
  PROVE  /\ IsList(Append(s, e)) /\ Len(Append(s, e)) = Len(s) + 1
         /\ Append(s, e) # <<>>
         /\ \A i \in 1 .. Len(s) : Append(s, e)[i] = s[i]
         /\ Append(s, e)[Len(s) + 1] = e
<1> DEFINE S == ToSet(s) \cup {e}
           t == Append(s, e)
<1>1. s \in Seq(S) /\ e \in S /\ Len(s) \in Nat
  BY ListFacts DEF IsList
<1> HIDE DEF S
<1>2. /\ t \in Seq(S) /\ Len(t) = Len(s) + 1
      /\ \A i \in 1 .. Len(s) : t[i] = s[i]
      /\ t[Len(s) + 1] = e /\ t # <<>>
  BY <1>1
<1> HIDE DEF t
<1>3. t = [i \in 1 .. Len(s) + 1 |-> t[i]]
  BY <1>2
<1>4. IsList(t)
  BY <1>1, <1>3, FunctionIsList
<1>5. QED
  BY <1>2, <1>4 DEF t

(* or with one changed. *)
LEMMA ListChanged ==
  ASSUME NEW s, IsList(s), NEW k, NEW e
  PROVE  IsList([s EXCEPT ![k] = e]) /\ Len([s EXCEPT ![k] = e]) = Len(s)
<1> DEFINE t == [s EXCEPT ![k] = e]
<1>1. Len(s) \in Nat /\ DOMAIN s = 1 .. Len(s)
  BY ListFacts
<1>2. t = [i \in 1 .. Len(s) |-> t[i]]
  BY <1>1
<1> HIDE DEF t
<1>3. IsList(t) /\ Len(t) = Len(s)
  BY <1>1, <1>2, FunctionIsList
<1>4. QED
  BY <1>3 DEF t

(* A new record has a value for each column. *)
LEMMA AllocatedFacts ==
  ASSUME NEW q, IsList(q.columns)
  PROVE  RowOf(q.columns, Allocated(q))
<1> DEFINE s == [i \in DOMAIN q.columns |-> Junk]
<1>1. Len(q.columns) \in Nat /\ DOMAIN q.columns = 1 .. Len(q.columns)
  BY ListFacts
<1>2. s = [i \in 1 .. Len(q.columns) |-> s[i]]
  BY <1>1
<1> HIDE DEF s
<1>3. IsList(s) /\ Len(s) = Len(q.columns)
  BY <1>1, <1>2, FunctionIsList
<1>4. QED
  BY <1>3 DEF RowOf, Allocated, s

(* The record at work is put with the results. *)
LEMMA PushedRecord ==
  ASSUME NEW q, ResultsShape(q)
  PROVE  ResultsShape(PushRecord(q))
<1> DEFINE new == PushRecord(q)
           more == IF q.record = NoRecord THEN q.records ELSE Append(q.records, q.record)
           row == Allocated(q)
<1>1. RowOf(q.columns, row)
  BY AllocatedFacts DEF ResultsShape
<1>2. IsList(more) /\ \A i \in DOMAIN more : RowOf(q.columns, more[i])
  <2>1. CASE q.record = NoRecord
    BY <2>1 DEF ResultsShape
  <2>2. CASE q.record # NoRecord
    <3> DEFINE t == Append(q.records, q.record)
    <3>1. IsList(q.records) /\ RowOf(q.columns, q.record) /\ more = t
      BY <2>2 DEF ResultsShape
    <3>2. /\ Len(q.records) \in Nat /\ DOMAIN q.records = 1 .. Len(q.records)
      BY <3>1, ListFacts
    <3>3. /\ IsList(t) /\ Len(t) = Len(q.records) + 1
          /\ \A i \in 1 .. Len(q.records) : t[i] = q.records[i]
          /\ t[Len(q.records) + 1] = q.record
      BY <3>1, ListMore
    <3> HIDE DEF t
    <3>4. DOMAIN t = 1 .. Len(q.records) + 1
      BY <3>3, ListFacts
    <3>5. \A i \in 1 .. Len(q.records) : RowOf(q.columns, q.records[i])
      BY <3>2 DEF ResultsShape
    <3> HIDE DEF more
    <3>6. ASSUME NEW i \in 1 .. Len(q.records) + 1
          PROVE  RowOf(q.columns, t[i])
      <4>1. i \in 1 .. Len(q.records) \/ i = Len(q.records) + 1
        BY <3>2
      <4>2. QED
        BY <3>1, <3>3, <3>5, <4>1
    <3>7. QED
      BY <3>1, <3>3, <3>4, <3>6 DEF t
  <2>3. QED
    BY <2>1, <2>2
<1> HIDE DEF more, row
<1>3. new = [q EXCEPT !.records = more, !.record = row]
  BY DEF PushRecord, more, row
<1>4. q = [columns |-> q.columns, record |-> q.record, records |-> q.records]
  BY DEF ResultsShape
<1> DEFINE c == q.columns
<1> HIDE DEF c, new
<1>5. new = [columns |-> c, record |-> row, records |-> more]
  BY <1>3, <1>4 DEF c
<1>6. IsList(c)
  BY DEF ResultsShape, c
<1>7. QED
  BY <1>1, <1>2, <1>5, <1>6 DEF ResultsShape, c, new

(* A value more in the record: it has as many as before, or one for each
   column. *)
LEMMA AddedValue ==
  ASSUME NEW q, ResultsShape(q), NEW name, NEW value
  PROVE  /\ ResultsShape(AddNamed(q, name, value))
         /\ AddNamed(q, name, value).columns = q.columns
<1> DEFINE base == IF q.record = NoRecord THEN Allocated(q) ELSE q.record
           k == Index(q, name)
           row == [base EXCEPT ![k] = value]
           new == AddNamed(q, name, value)
<1>1. q = [columns |-> q.columns, record |-> q.record, records |-> q.records]
  BY DEF ResultsShape
<1>2. RowOf(q.columns, base)
  BY AllocatedFacts DEF ResultsShape
<1> HIDE DEF base
<1>3. IsList(row) /\ Len(row) = Len(q.columns)
  BY <1>2, ListChanged DEF RowOf
<1>4. WithRecord(q) = [columns |-> q.columns, record |-> base, records |-> q.records]
  BY <1>1 DEF WithRecord, base
<1> DEFINE w == WithRecord(q)
<1>6. w.record = base
  BY <1>4
<1>7. new = [w EXCEPT !.record = [w.record EXCEPT ![Index(q, name)] = value]]
  BY DEF AddNamed
<1>8. new = [w EXCEPT !.record = row]
  BY <1>6, <1>7
<1> HIDE DEF w, k, row, new
<1>9. new = [columns |-> q.columns, record |-> row, records |-> q.records]
  BY <1>4, <1>8 DEF w
<1>10. ResultsShape(new)
  BY <1>3, <1>9 DEF ResultsShape, RowOf
<1>11. QED
  BY <1>9, <1>10 DEF new

-----------------------------------------------------------------------------
(* NEWREC, *)
LEMMA NEWRECStep ==
  ASSUME NEW p, NEW names, NEW know, NEW a, NEW d, At(p, names, know, a, d), NEWREC
  PROVE  Shape' /\ Runs(p, names, know)'
<1>1. ~a.fresh /\ Leads(know, ip + 1, a)
  <2>1. p.code[ip + 1].op = "NEWREC" /\ p.code[ip + 1].data = d
    BY AtFacts DEF NEWREC, Instruction
  <2>2. Legal(p, names, know, ip) /\ a = know[ip]
    BY AtFacts
  <2>3. QED
    BY <2>1, <2>2 DEF Legal
<1>2. ip' = ip + 1 /\ UNCHANGED <<code, memory, db, tp, stack, tables>> /\ results' = PushRecord(results)
  BY DEF NEWREC, Keep, Others, Step, SetResults
<1>3. ResultsShape(results')
  BY <1>2, AtFacts, PushedRecord DEF Shape
<1>4. QED
  BY <1>1, <1>2, <1>3, OnlyResults

(* CPYVAL, *)
LEMMA CPYVALStep ==
  ASSUME NEW p, NEW names, NEW know, NEW a, NEW d, At(p, names, know, a, d), CPYVAL
  PROVE  Shape' /\ Runs(p, names, know)'
<1>1. ~a.fresh /\ Leads(know, ip + 1, a)
  <2>1. p.code[ip + 1].op = "CPYVAL" /\ p.code[ip + 1].data = d
    BY AtFacts DEF CPYVAL, Instruction
  <2>2. Legal(p, names, know, ip) /\ a = know[ip]
    BY AtFacts
  <2>3. QED
    BY <2>1, <2>2 DEF Legal
<1> DEFINE name == Word(data)
           value == GetValue(tables[tp], Word(data))
<1>2. ip' = ip + 1 /\ UNCHANGED <<code, memory, db, tp, stack, tables>>
      /\ results' = AddNamed(results, name, value)
  BY DEF CPYVAL, Keep, Others, Step, SetResults
<1> HIDE DEF name, value
<1>3. ResultsShape(results')
  BY <1>2, AtFacts, AddedValue DEF Shape
<1>4. QED
  BY <1>1, <1>2, <1>3, OnlyResults

(* Values are copied into a record that has a place for each. *)
LEMMA CopiedRecord ==
  ASSUME NEW t, NEW q, ResultsShape(q), NEW s, IsList(s)
  PROVE  ResultsShape(CopiedValues(t, q, s))
<1> DEFINE all == CopiedValues(t, q, s)
<1>1. PICK g : Accumulates(g, "Copy", t, q, s, Len(s), all)
  BY FoldCopy
<1> HIDE DEF all
<1> DEFINE n == Len(s)
           B == {i \in 0 .. n : ResultsShape(g[i])}
<1>2. n \in Nat
  BY ListFacts
<1>3. 0 \in B
  BY <1>1, <1>2 DEF Accumulates
<1>4. ASSUME NEW i \in 0 .. n - 1, i \in B
      PROVE  i + 1 \in B
  <2>1. g[i + 1] = AddNamed(g[i], s[i + 1].name, GetValue(t, s[i + 1].name))
    BY <1>1 DEF Accumulates, Accumulated, CopyValue
  <2>2. QED
    BY <1>2, <1>4, <2>1, AddedValue
<1> HIDE DEF B, n
<1>5. n \in B
  BY <1>2, <1>3, <1>4, SetInduction
<1>6. QED
  BY <1>1, <1>5 DEF Accumulates, B, n, all

(* CPYREC, *)
LEMMA CPYRECStep ==
  ASSUME NEW p, NEW names, NEW know, NEW a, NEW d, At(p, names, know, a, d), CPYREC
  PROVE  Shape' /\ Runs(p, names, know)'
<1>1. ~a.fresh /\ d \in a.loaded /\ Leads(know, ip + 1, a)
  <2>1. p.code[ip + 1].op = "CPYREC" /\ p.code[ip + 1].data = d
    BY AtFacts DEF CPYREC, Instruction
  <2>2. Legal(p, names, know, ip) /\ a = know[ip]
    BY AtFacts
  <2>3. QED
    BY <2>1, <2>2 DEF Legal
<1> DEFINE t == tables[data]
           copied == CopiedValues(t, results, t.columns)
<1>2. ip' = ip + 1 /\ UNCHANGED <<code, memory, db, tp, stack, tables>>
      /\ results' = PushRecord(copied)
  BY DEF CPYREC, Keep, Others, Step, SetResults, CopiedValues, CopyValue
<1>3. IsList(t.columns) /\ ResultsShape(results)
  <2>1. Shape /\ d \in Virtual /\ d = data
    BY <1>1, AtFacts, KnowledgeParts DEF At
  <2>2. QED
    BY <2>1 DEF Shape, TableShape
<1>4. ResultsShape(copied)
  BY <1>3, CopiedRecord
<1> HIDE DEF copied
<1>5. ResultsShape(results')
  BY <1>2, <1>4, PushedRecord
<1>6. QED
  BY <1>1, <1>2, <1>5, OnlyResults

(* Before there are records, the columns of the results. *)
Unfilled(q) == ResultsShape(q) /\ q.record = NoRecord /\ q.records = <<>>

(* A column of the results is added while there are no records, *)
LEMMA AddedColumn ==
  ASSUME NEW q, Unfilled(q), NEW column
  PROVE  Unfilled(AddColumn(q, column))
<1> DEFINE c == Append(q.columns, column)
<1>1. q = [columns |-> q.columns, record |-> NoRecord, records |-> <<>>]
  BY DEF ResultsShape, Unfilled
<1>2. IsList(c)
  BY ListMore DEF ResultsShape, Unfilled
<1>3. AddColumn(q, column) = [q EXCEPT !.columns = c]
  BY DEF AddColumn
<1> HIDE DEF c
<1>4. AddColumn(q, column) = [columns |-> c, record |-> NoRecord, records |-> <<>>]
  BY <1>1, <1>3
<1>5. IsList(<<>>) /\ DOMAIN <<>> = {}
  BY DEF IsList
<1>6. QED
  BY <1>2, <1>4, <1>5 DEF ResultsShape, Unfilled

(* and many are. *)
LEMMA AddedColumns ==
  ASSUME NEW q, Unfilled(q), NEW s, IsList(s)
  PROVE  Unfilled(FoldLeft(AddColumn, q, s))
<1> DEFINE all == FoldLeft(AddColumn, q, s)
<1>1. PICK g : Accumulates(g, "AddColumn", 0, q, s, Len(s), all)
  BY FoldAddColumn, Zenon
<1> HIDE DEF all
<1> DEFINE n == Len(s)
           B == {i \in 0 .. n : Unfilled(g[i])}
<1>2. n \in Nat
  BY ListFacts
<1>3. 0 \in B
  BY <1>1, <1>2 DEF Accumulates
<1>4. ASSUME NEW i \in 0 .. n - 1, i \in B
      PROVE  i + 1 \in B
  <2>1. g[i + 1] = AddColumn(g[i], s[i + 1])
    BY <1>1 DEF Accumulates, Accumulated
  <2>2. QED
    BY <1>2, <1>4, <2>1, AddedColumn
<1> HIDE DEF B, n
<1>5. n \in B
  BY <1>2, <1>3, <1>4, SetInduction
<1>6. QED
  BY <1>1, <1>5 DEF Accumulates, B, n, all

(* CPYCOL, *)
LEMMA CPYCOLStep ==
  ASSUME NEW p, NEW names, NEW know, NEW a, NEW d, At(p, names, know, a, d), CPYCOL
  PROVE  Shape' /\ Runs(p, names, know)'
<1>1. a.fresh /\ Leads(know, ip + 1, a)
  <2>1. p.code[ip + 1].op = "CPYCOL" /\ p.code[ip + 1].data = d
    BY AtFacts DEF CPYCOL, Instruction
  <2>2. Legal(p, names, know, ip) /\ a = know[ip]
    BY AtFacts
  <2>3. QED
    BY <2>1, <2>2 DEF Legal
<1> DEFINE t == tables[tp]
           all == FoldLeft(AddColumn, results, t.columns)
           one == AddColumn(results, t.columns[Index(t, Word(data))])
<1>2. ip' = ip + 1 /\ UNCHANGED <<code, memory, db, tp, stack, tables>>
      /\ (results' = all \/ results' = one)
  BY DEF CPYCOL, Keep, Others, Step, SetResults
<1>3. Shape /\ TablesAre(a) /\ ScansAre(a) /\ a \in Knowledge
  BY AtFacts
<1>4. IsList(t.columns) /\ Unfilled(results)
  <2>1. tp \in Virtual
    BY <1>3, KnowledgeParts DEF TablesAre
  <2>2. QED
    BY <1>1, <1>3, <2>1 DEF Shape, TableShape, ScansAre, NothingYet, Unfilled
<1>5. Unfilled(all)
  BY <1>4, AddedColumns
<1>6. Unfilled(one)
  BY <1>4, AddedColumn
<1> HIDE DEF all, one
<1>7. Unfilled(results')
  BY <1>2, <1>5, <1>6
<1>8. QED
  BY <1>1, <1>2, <1>7, OnlyResults DEF Unfilled

(* A tuple is a list. *)
LEMMA FourIsList ==
  ASSUME NEW a, NEW b, NEW c, NEW d
  PROVE  IsList(<<a, b, c, d>>) /\ Len(<<a, b, c, d>>) = 4
<1> DEFINE s == <<a, b, c, d>>
<1>1. s = [i \in 1 .. 4 |-> s[i]]
  OBVIOUS
<1> HIDE DEF s
<1>2. IsList(s) /\ Len(s) = 4
  BY <1>1, FunctionIsList
<1>3. QED
  BY <1>2 DEF s

(* DSCTBL: one row for each column of the table, *)
LEMMA DSCTBLStep ==
  ASSUME NEW p, NEW names, NEW know, NEW a, NEW d, At(p, names, know, a, d), DSCTBL
  PROVE  Shape' /\ Runs(p, names, know)'
<1> DEFINE b == [a EXCEPT !.fresh = FALSE, !.open = {}]
<1>1. a.more = NoTable /\ a.fresh /\ Leads(know, ip + 1, b)
  <2>1. p.code[ip + 1].op = "DSCTBL"
    BY AtFacts DEF DSCTBL, Instruction
  <2>2. Legal(p, names, know, ip) /\ a = know[ip] /\ d = p.code[ip + 1].data
    BY AtFacts
  <2>3. QED
    BY <2>1, <2>2 DEF Legal
<1>2. a \in Knowledge /\ StackIs(a) /\ TablesAre(a) /\ ScansAre(a) /\ Shape /\ Runs(p, names, know)
  BY AtFacts
<1>3. /\ b \in Knowledge /\ b.stack = a.stack /\ b.current = a.current
      /\ b.loaded = a.loaded /\ b.columns = a.columns /\ b.open = {}
      /\ ~b.fresh /\ b.more = a.more
  BY <1>2 DEF Knowledge
<1> HIDE DEF b
<1>4. /\ ip' = ip + 1
      /\ UNCHANGED <<code, memory, db, tp, stack, tables>>
  BY DEF DSCTBL, Keep, Others, Step, SetResults
<1> DEFINE Text(n, l) == [name |-> n, type |-> "STRING", length |-> l, indexed |-> 0]
           c == <<[Text("Name", 58) EXCEPT !.indexed = 1], Text("Type", 12),
                  [Text("Length", 0) EXCEPT !.type = "INT-32"],
                  [Text("Indexed", 0) EXCEPT !.type = "INT-8"]>>
           Shown(e) == <<e.name, e.type, e.length, e.indexed>>
           s == [i \in DOMAIN tables[tp].columns |-> Shown(tables[tp].columns[i])]
           row == [i \in 1 .. 4 |-> Junk]
<1>5. results' = [results EXCEPT !.columns = c, !.records = s, !.record = row]
  BY DEF DSCTBL, SetResults
<1>6. IsList(c) /\ Len(c) = 4
  BY FourIsList
<1>7. IsList(row) /\ Len(row) = 4
  <2>1. row = [i \in 1 .. 4 |-> row[i]]
    OBVIOUS
  <2> HIDE DEF row
  <2>2. QED
    BY <2>1, FunctionIsList
<1>8. \A e : IsList(Shown(e)) /\ Len(Shown(e)) = 4
  BY FourIsList
<1> HIDE DEF c, row
<1>9. IsList(s) /\ \A i \in DOMAIN s : IsList(s[i]) /\ Len(s[i]) = 4
  <2> DEFINE l == tables[tp].columns
  <2>1. tp \in Virtual
    BY <1>2, KnowledgeParts DEF TablesAre
  <2>2. IsList(l)
    BY <1>2, <2>1 DEF Shape, TableShape
  <2>3. Len(l) \in Nat /\ DOMAIN l = 1 .. Len(l)
    BY <2>2, ListFacts
  <2>4. \A i \in DOMAIN s : s[i] = Shown(tables[tp].columns[i])
    OBVIOUS
  <2>5. s = [i \in 1 .. Len(l) |-> s[i]]
    BY <2>3
  <2> HIDE DEF s
  <2>6. IsList(s)
    BY <2>3, <2>5, FunctionIsList
  <2>7. QED
    BY <1>8, <2>4, <2>6
<1> HIDE DEF s
<1>10. results' = [columns |-> c, record |-> row, records |-> s]
  <2>1. results = [columns |-> results.columns, record |-> results.record, records |-> results.records]
    BY <1>2 DEF Shape, ResultsShape
  <2>2. QED
    BY <1>5, <2>1
<1>11. ResultsShape(results')
  BY <1>6, <1>7, <1>9, <1>10 DEF ResultsShape, RowOf
<1>12. Shape'
  BY <1>2, <1>4, <1>11 DEF Shape, DbShape, TableShape
<1>13. StackIs(b)' /\ TablesAre(b)'
  BY <1>2, <1>3, <1>4 DEF StackIs, TablesAre
<1>14. ScansAre(b)'
  BY <1>1, <1>2, <1>3, <1>4 DEF ScansAre, NothingYet, Whole
<1>15. QED
  BY <1>1, <1>2, <1>3, <1>4, <1>12, <1>13, <1>14, Continues DEF Agrees

(* Before anything is scanned, and another table or other columns in place of
   those there were. *)
LEMMA StillFresh ==
  ASSUME NEW a \in Knowledge, NEW b \in Knowledge, ScansAre(a), a.fresh, a.more = NoTable,
         b.fresh, b.more = NoTable,
         NEW t \in Virtual, NEW new, DOMAIN tables = Virtual,
         tables' = [tables EXCEPT ![t] = new], new.position = 0, results' = results
  PROVE  ScansAre(b)'
<1>1. \A u \in Virtual : tables'[u] = IF u = t THEN new ELSE tables[u]
  OBVIOUS
<1>2. NothingYet'
  BY <1>1 DEF ScansAre, NothingYet
<1>3. QED
  BY <1>2 DEF ScansAre

(* Two lists in one. *)
LEMMA ListOfTwo ==
  ASSUME NEW s, NEW t, IsList(s), IsList(t)
  PROVE  /\ IsList(s \o t) /\ Len(s \o t) = Len(s) + Len(t)
         /\ t # <<>> => s \o t # <<>>
         /\ \A i \in 1 .. Len(s) : (s \o t)[i] = s[i]
         /\ \A i \in 1 .. Len(t) : (s \o t)[Len(s) + i] = t[i]
<1> DEFINE S == ToSet(s) \cup ToSet(t)
           u == s \o t
<1>1. s \in Seq(S) /\ t \in Seq(S) /\ Len(s) \in Nat /\ Len(t) \in Nat
  BY ListFacts DEF IsList
<1> HIDE DEF S
<1>2. /\ u \in Seq(S) /\ Len(u) = Len(s) + Len(t) /\ (t # <<>> => u # <<>>)
      /\ \A i \in 1 .. Len(s) : u[i] = s[i]
      /\ \A i \in 1 .. Len(t) : u[Len(s) + i] = t[i]
  BY <1>1
<1> HIDE DEF u
<1>3. u = [i \in 1 .. Len(u) |-> u[i]]
  BY <1>2
<1>4. IsList(u)
  BY <1>1, <1>2, <1>3, FunctionIsList
<1>5. QED
  BY <1>2, <1>4 DEF u

(* LDTBL, *)
LEMMA LDTBLStep ==
  ASSUME NEW p, NEW names, NEW know, NEW a, NEW d, At(p, names, know, a, d), LDTBL
  PROVE  Shape' /\ Runs(p, names, know)'
<1>1. a.more = NoTable /\ a.fresh /\ Stored(p, d) /\ p.memory[d + 1] \in names
      /\ \E t \in Virtual : Known(a, t)
           /\ Leads(know, ip + 1, [a EXCEPT !.loaded = @ \cup {t}, !.columns = @ \cup {t}])
  <2>1. p.code[ip + 1].op = "LDTBL"
    BY AtFacts DEF LDTBL, Instruction
  <2>2. Legal(p, names, know, ip) /\ a = know[ip] /\ d = p.code[ip + 1].data
    BY AtFacts
  <2>3. QED
    BY <2>1, <2>2 DEF Legal
<1>2. a \in Knowledge /\ StackIs(a) /\ TablesAre(a) /\ ScansAre(a) /\ Shape /\ Runs(p, names, know) /\ memory = p.memory
  BY AtFacts
<1>3. tp \in Virtual /\ tp \in a.current
  BY <1>2, KnowledgeParts DEF TablesAre
<1>4. PICK t : t = tp
  OBVIOUS
<1> DEFINE L == a.loaded \cup {t}
           C == a.columns \cup {t}
           b == [a EXCEPT !.loaded = L, !.columns = C]
           name == Word(data)
           old == tables[tp]
           columns == old.columns \o db[name].columns
           loaded == [old EXCEPT !.table = name, !.columns = columns]
           new == [loaded EXCEPT !.record = Allocated(loaded)]
<1>5. t \in Virtual /\ Leads(know, ip + 1, b)
  BY <1>1, <1>3, <1>4 DEF Known
<1>6. name \in DOMAIN db
  BY <1>1, <1>2 DEF Word, At, Runs
<1>7. old = [table |-> old.table, columns |-> old.columns, record |-> old.record,
             position |-> old.position, cp |-> old.cp]
      /\ IsList(old.columns) /\ old.position \in Nat /\ old.cp \in Nat
  BY <1>2, <1>3 DEF Shape, TableShape
<1> HIDE DEF name, old
<1>8. IsList(columns) /\ columns # <<>>
  <2>1. IsList(db[name].columns) /\ db[name].columns # <<>>
    BY <1>2, <1>6 DEF Shape, DbShape
  <2>2. QED
    BY <1>7, <2>1, ListOfTwo
<1>9. /\ ip' = ip + 1 /\ UNCHANGED <<code, memory, db, tp, stack, results>>
      /\ tables' = [tables EXCEPT ![t] = new]
  BY <1>4 DEF LDTBL, Keep, Others, Step, SetTables, name, old
<1> HIDE DEF columns
<1>10. new = [table |-> name, columns |-> columns, record |-> Allocated(loaded),
              position |-> old.position, cp |-> old.cp]
  <2>1. loaded = [table |-> name, columns |-> columns, record |-> old.record,
                  position |-> old.position, cp |-> old.cp]
    <3> DEFINE ot == old.table
               oc == old.columns
               o3 == old.record
               op == old.position
               ocp == old.cp
    <3>1. old = [table |-> ot, columns |-> oc, record |-> o3, position |-> op, cp |-> ocp]
      BY <1>7
    <3> HIDE DEF ot, oc, o3, op, ocp
    <3> DEFINE named == [old EXCEPT !.table = name]
    <3>2. named = [table |-> name, columns |-> oc, record |-> o3, position |-> op, cp |-> ocp]
      BY <3>1
    <3>3. loaded = [named EXCEPT !.columns = columns]
      OBVIOUS
    <3> HIDE DEF loaded, named
    <3>4. loaded = [table |-> name, columns |-> columns, record |-> o3, position |-> op, cp |-> ocp]
      BY <3>2, <3>3
    <3>5. QED
      BY <3>4 DEF o3, op, ocp
  <2> HIDE DEF loaded
  <2>2. QED
    BY <2>1
<1> HIDE DEF new, loaded
<1>11. TableShape(new) /\ new.table # NoTable /\ new.columns # <<>>
  <2>1. name # NoTable
    BY <1>2, <1>6, ValuesAssumption DEF Shape, DbShape
  <2>2. QED
    BY <1>6, <1>7, <1>8, <1>10, <2>1 DEF TableShape
<1>12. L \in SUBSET Virtual /\ C \in SUBSET Virtual
  BY <1>2, <1>5, KnowledgeParts
<1> HIDE DEF L, C
<1>13. /\ b \in Knowledge /\ b.stack = a.stack /\ b.current = a.current
       /\ b.loaded = L /\ b.columns = C /\ b.open = a.open
       /\ b.fresh = a.fresh /\ b.more = a.more
  BY <1>2, <1>12 DEF Knowledge
<1> HIDE DEF b
<1>14. StackIs(b)'
  BY <1>2, <1>9, <1>13 DEF StackIs
<1>15. ScansAre(b)'
  <2>1. new.position = 0 /\ DOMAIN tables = Virtual
    BY <1>1, <1>2, <1>3, <1>10 DEF ScansAre, NothingYet, old, Shape
  <2>2. QED
    BY <1>1, <1>2, <1>5, <1>9, <1>13, <2>1, StillFresh
<1>16. QED
  BY <1>5, <1>9, <1>11, <1>13, <1>14, <1>15, OnlyTable DEF L, C

(* The parts of a virtual table. *)
LEMMA TableParts ==
  ASSUME NEW t, TableShape(t)
  PROVE  /\ t = [table |-> t.table, columns |-> t.columns, record |-> t.record,
                 position |-> t.position, cp |-> t.cp]
         /\ t.table \in DOMAIN db \cup {NoTable} /\ IsList(t.columns)
         /\ t.position \in Nat /\ t.cp \in Nat
BY DEF TableShape

(* RSTTBL, *)
LEMMA RSTTBLStep ==
  ASSUME NEW p, NEW names, NEW know, NEW a, NEW d, At(p, names, know, a, d), RSTTBL
  PROVE  Shape' /\ Runs(p, names, know)'
<1> DEFINE O == a.open \cup {d}
           b == [a EXCEPT !.open = O]
           old == tables[d]
           new == [old EXCEPT !.position = 0]
<1>1. /\ a.more = NoTable /\ ~a.fresh /\ d \in a.loaded
      /\ Leads(know, ip + 1, b)
  <2>1. p.code[ip + 1].op = "RSTTBL"
    BY AtFacts DEF RSTTBL, Instruction
  <2>2. Legal(p, names, know, ip) /\ a = know[ip] /\ d = p.code[ip + 1].data
    BY AtFacts
  <2>3. QED
    BY <2>1, <2>2 DEF Legal
<1>2. a \in Knowledge /\ StackIs(a) /\ TablesAre(a) /\ ScansAre(a) /\ Shape
  BY AtFacts
<1>3. d \in Virtual /\ O \in SUBSET Virtual /\ DOMAIN tables = Virtual
  BY <1>1, <1>2, KnowledgeParts DEF Shape
<1>4. TableShape(old) /\ old.table # NoTable
  BY <1>1, <1>2, <1>3 DEF Shape, TablesAre
<1>5. /\ ip' = ip + 1 /\ UNCHANGED <<code, memory, db, tp, stack, results>>
      /\ tables' = [tables EXCEPT ![d] = new]
  BY DEF RSTTBL, Keep, Others, Step, SetTables, At
<1> HIDE DEF old
<1>6. new = [table |-> old.table, columns |-> old.columns, record |-> old.record,
             position |-> 0, cp |-> old.cp]
  BY <1>4, TableParts
<1> HIDE DEF new
<1>7. TableShape(new) /\ ~Scanned(new)
  <2>1. TableShape(new)
    BY <1>4, <1>6, TableParts DEF TableShape
  <2>2. QED
    BY <1>2, <1>6, <2>1, ScannedFacts DEF Shape
<1>8. /\ b \in Knowledge /\ b.stack = a.stack /\ b.current = a.current
      /\ b.loaded = a.loaded /\ b.columns = a.columns /\ b.open = O
      /\ b.fresh = a.fresh /\ b.more = a.more
  <2> HIDE DEF O
  <2>1. QED
    BY <1>2, <1>3 DEF Knowledge
<1> HIDE DEF b
<1>9. StackIs(b)'
  BY <1>2, <1>5, <1>8 DEF StackIs
<1>10. ScansAre(b)'
  <2>1. \A u \in Virtual : tables'[u] = IF u = d THEN new ELSE tables[u]
    BY <1>3, <1>5
  <2>2. \A u \in Virtual : IF u \in a.open THEN ~Scanned(tables[u]) ELSE Whole(tables[u])
    BY <1>1, <1>2, ValuesAssumption DEF ScansAre, Virtual
  <2>3. \A u \in Virtual : IF u \in O THEN ~Scanned(tables'[u]) ELSE Whole(tables'[u])
    BY <1>7, <2>1, <2>2
  <2>4. QED
    BY <1>1, <1>5, <1>8, <2>3 DEF ScansAre, Whole, Scanned, Rows
<1>11. new.table # NoTable /\ new.columns = old.columns
  BY <1>4, <1>6
<1>12. QED
  BY <1>1, <1>2, <1>3, <1>5, <1>7, <1>8, <1>9, <1>10, <1>11, OnlyTable DEF TablesAre, old

(* INSVAL, *)
LEMMA INSVALStep ==
  ASSUME NEW p, NEW names, NEW know, NEW a, NEW d, At(p, names, know, a, d), INSVAL
  PROVE  Shape' /\ Runs(p, names, know)'
<1>1. /\ a.more = NoTable /\ (\E t \in a.columns : Known(a, t))
      /\ Leads(know, ip + 1, a)
  <2>1. p.code[ip + 1].op = "INSVAL"
    BY AtFacts DEF INSVAL, Instruction
  <2>2. Legal(p, names, know, ip) /\ a = know[ip] /\ d = p.code[ip + 1].data
    BY AtFacts
  <2>3. QED
    BY <2>1, <2>2 DEF Legal
<1>2. a \in Knowledge /\ StackIs(a) /\ TablesAre(a) /\ ScansAre(a) /\ Shape
  BY AtFacts
<1>3. PICK t \in Virtual : t = tp /\ t \in a.columns
  BY <1>1, <1>2 DEF Known, TablesAre
<1> DEFINE old == tables[t]
           value == Literal(Word(data), old.columns[old.cp + 1].type)
           new == AddNext(old, value)
           base == IF old.record = NoRecord THEN Allocated(old) ELSE old.record
           row == [base EXCEPT ![old.cp + 1] = value]
           cp2 == (old.cp + 1) % Len(old.columns)
<1>4. TableShape(old) /\ old.columns # <<>> /\ DOMAIN tables = Virtual
  BY <1>2, <1>3 DEF Shape, TablesAre
<1>5. /\ ip' = ip + 1 /\ UNCHANGED <<code, memory, db, tp, stack, results>>
      /\ tables' = [tables EXCEPT ![t] = new]
  BY <1>3 DEF INSVAL, Keep, Others, Step, SetTables
<1> HIDE DEF old
<1>6. new.table = old.table /\ new.columns = old.columns /\ new.position = old.position
      /\ new = [table |-> old.table, columns |-> old.columns, record |-> row,
                position |-> old.position, cp |-> cp2]
  <2> DEFINE w == WithRecord(old)
  <2> HIDE DEF value, base, cp2
  <2>1. w = [table |-> old.table, columns |-> old.columns, record |-> base,
             position |-> old.position, cp |-> old.cp]
    BY <1>4, TableParts DEF WithRecord, base
  <2>2. w.record = base
    BY <2>1
  <2> DEFINE e == [w EXCEPT !.record = row]
  <2>3. new = [e EXCEPT !.cp = cp2]
    BY <2>2 DEF AddNext, cp2
  <2> HIDE DEF w, row, new
  <2>4. e = [table |-> old.table, columns |-> old.columns, record |-> row,
             position |-> old.position, cp |-> old.cp]
    BY <2>1
  <2> HIDE DEF e
  <2>5. QED
    BY <2>3, <2>4
<1>7. cp2 \in Nat
  BY <1>4, TableParts, ListFacts
<1> HIDE DEF new, row, cp2
<1>8. TableShape(new)
  BY <1>4, <1>6, <1>7, TableParts DEF TableShape
<1>9. StackIs(a)'
  BY <1>2, <1>5 DEF StackIs
<1>10. ScansAre(a)'
  <2>1. \A u \in Virtual : tables'[u] = IF u = t THEN new ELSE tables[u]
    BY <1>3, <1>4, <1>5
  <2>2. \A u \in Virtual : tables'[u].table = tables[u].table /\ tables'[u].position = tables[u].position
    BY <1>6, <2>1 DEF old
  <2>3. QED
    BY <1>1, <1>2, <1>5, <2>2 DEF ScansAre, NothingYet, Whole, Scanned, Rows
<1>11. t \in a.loaded => new.table # NoTable
  BY <1>2, <1>6 DEF TablesAre, old
<1>12. new.columns # <<>>
  BY <1>4, <1>6
<1>13. a \in Knowledge /\ a.loaded \subseteq a.loaded /\ a.columns \subseteq a.columns /\ Leads(know, ip', a)
  BY <1>1, <1>2, <1>5
<1>14. UNCHANGED <<code, memory, db, tp, results>>
  BY <1>5
<1>15. QED
  BY <1>5, <1>8, <1>9, <1>10, <1>11, <1>12, <1>13, <1>14, OnlyTable

(* Counting down from two. *)
LEMMA OneOrTwo ==
  ASSUME NEW n \in {1, 2}
  PROVE  n > 0 /\ (n = 2 => n - 1 > 0 /\ n - 1 - 1 = 0)
OBVIOUS

(* NEWCOL, *)
LEMMA NEWCOLStep ==
  ASSUME NEW p, NEW names, NEW know, NEW a, NEW d, At(p, names, know, a, d), NEWCOL
  PROVE  Shape' /\ Runs(p, names, know)'
<1>1. /\ a.more = NoTable /\ a.stack # <<>> /\ NewColumn(p, a)
      /\ \E t \in Virtual : Known(a, t)
           /\ Leads(know, ip + 1, [a EXCEPT !.stack = <<>>, !.columns = @ \cup {t}])
  <2>1. p.code[ip + 1].op = "NEWCOL"
    BY AtFacts DEF NEWCOL, Instruction
  <2>2. Legal(p, names, know, ip) /\ a = know[ip] /\ d = p.code[ip + 1].data
    BY AtFacts
  <2>3. QED
    BY <2>1, <2>2 DEF Legal
<1>2. a \in Knowledge /\ StackIs(a) /\ TablesAre(a) /\ ScansAre(a) /\ Shape /\ memory = p.memory
  BY AtFacts
<1>3. PICK t \in Virtual : t = tp /\ Leads(know, ip + 1, [a EXCEPT !.stack = <<>>, !.columns = @ \cup {t}])
  BY <1>1, <1>2 DEF Known, TablesAre
<1> DEFINE w0 == <<>>
           C == a.columns \cup {t}
           b == [a EXCEPT !.stack = w0, !.columns = C]
           old == tables[t]
           info == Word(Last(stack))
           sized == Sized(info.type)
           column == [name |-> Word(data), type |-> info.type, indexed |-> info.indexed,
                      length |-> IF sized THEN Word(Last(Front(stack))) ELSE 0]
           new == AddColumn(old, column)
<1>4. TableShape(old) /\ DOMAIN tables = Virtual
  BY <1>2, <1>3 DEF Shape
<1>5. /\ ip' = ip + 1 /\ UNCHANGED <<code, memory, db, tp, results>>
      /\ tables' = [tables EXCEPT ![t] = new]
      /\ stack' = IF sized THEN Front(Front(stack)) ELSE Front(stack)
  BY <1>3 DEF NEWCOL, Keep, Others, Step
<1>6. stack' = <<>>
  <2>1. PICK w \in 0 .. Len(p.memory) - 1 :
          /\ Last(a.stack) = {w}
          /\ Len(a.stack) = IF Sized(p.memory[w + 1].type) THEN 2 ELSE 1
    BY <1>1 DEF NewColumn
  <2>2. stack \in Seq(Nat) /\ Len(stack) = Len(a.stack) /\ Len(stack) \in {1, 2}
    BY <1>2, <2>1 DEF StackIs
  <2>3. Last(stack) = w
    BY <1>2, <2>1, <2>2 DEF StackIs, Last
  <2>4. sized = Sized(p.memory[w + 1].type)
    BY <1>2, <2>3 DEF Word
  <2> HIDE DEF sized
  <2>5. Len(stack) = 1 => Front(stack) = <<>>
    <3>1. Len(stack) > 0
      BY <2>2, OneOrTwo
    <3> DEFINE rest == Front(stack)
    <3>2. rest \in Seq(Nat) /\ Len(rest) = Len(stack) - 1
      BY <2>2, <3>1, FrontSeq
    <3> HIDE DEF rest
    <3>3. Len(stack) = 1 => rest = <<>>
      BY <2>2, <3>2, EmptySeq
    <3>4. QED
      BY <3>3 DEF rest
  <2>6. Len(stack) = 2 => Front(Front(stack)) = <<>>
    <3> DEFINE rest == Front(stack)
    <3>1. Len(stack) > 0
      BY <2>2, OneOrTwo
    <3>2. rest \in Seq(Nat) /\ Len(rest) = Len(stack) - 1
      BY <2>2, <3>1, FrontSeq
    <3> HIDE DEF rest
    <3>3. ASSUME Len(stack) = 2 PROVE Front(rest) = <<>>
      <4>1. Len(rest) > 0
        BY <2>2, <3>2, <3>3
      <4>2. Front(rest) \in Seq(Nat) /\ Len(Front(rest)) = Len(rest) - 1
        BY <3>2, <4>1, FrontSeq
      <4>3. Len(rest) - 1 = 0
        BY <2>2, <3>2, <3>3
      <4>4. QED
        BY <4>2, <4>3, EmptySeq
    <3>4. QED
      BY <3>3 DEF rest
  <2>7. QED
    BY <1>5, <2>1, <2>2, <2>4, <2>5, <2>6
<1> HIDE DEF old, column
<1>7. /\ new = [table |-> old.table, columns |-> Append(old.columns, column), record |-> old.record,
                position |-> old.position, cp |-> old.cp]
  BY <1>4, TableParts DEF AddColumn
<1> HIDE DEF new
<1>8. IsList(Append(old.columns, column)) /\ Append(old.columns, column) # <<>>
  <2>1. IsList(old.columns)
    BY <1>4, TableParts
  <2>2. QED
    BY <2>1, ListMore
<1>9. TableShape(new) /\ new.columns # <<>> /\ new.table = old.table /\ new.position = old.position
  BY <1>4, <1>7, <1>8, TableParts DEF TableShape
<1>10. w0 \in Seq(SUBSET Nat) /\ Len(w0) = 0 /\ C \in SUBSET Virtual
  BY <1>2, KnowledgeParts
<1> HIDE DEF w0, C
<1>11. /\ b \in Knowledge /\ b.stack = w0 /\ b.current = a.current
       /\ b.loaded = a.loaded /\ b.columns = C /\ b.open = a.open
       /\ b.fresh = a.fresh /\ b.more = a.more
  BY <1>2, <1>10 DEF Knowledge
<1>12. Leads(know, ip', b)
  BY <1>3, <1>5 DEF w0, C
<1> HIDE DEF b
<1>13. StackIs(b)'
  BY <1>6, <1>10, <1>11 DEF StackIs
<1>14. ScansAre(b)'
  <2>1. \A u \in Virtual : tables'[u] = IF u = t THEN new ELSE tables[u]
    BY <1>3, <1>4, <1>5
  <2>2. \A u \in Virtual : tables'[u].table = tables[u].table /\ tables'[u].position = tables[u].position
    BY <1>9, <2>1 DEF old
  <2>3. QED
    BY <1>1, <1>2, <1>5, <1>11, <2>2 DEF ScansAre, NothingYet, Whole, Scanned, Rows
<1>15. t \in a.loaded => new.table # NoTable
  BY <1>2, <1>9 DEF TablesAre, old
<1>16. UNCHANGED <<code, memory, db, tp, results>> /\ b.current = a.current /\ b.loaded \subseteq a.loaded
       /\ b.columns \subseteq a.columns \cup {t}
  BY <1>5, <1>11 DEF C
<1>17. QED
  BY <1>5, <1>9, <1>11, <1>12, <1>13, <1>14, <1>15, <1>16, OnlyTable

(* Knowledge after a table was asked. *)
LEMMA NXTRECStep ==
  ASSUME NEW p, NEW names, NEW know, NEW a, NEW d, At(p, names, know, a, d), NXTREC
  PROVE  Shape' /\ Runs(p, names, know)'
<1> DEFINE w0 == Append(a.stack, Bit)
           b == [Pushed(a, Bit) EXCEPT !.more = d]
           old == tables[d]
           next == old.position + 1
           inside == next <= Len(Rows(old))
           row == Rows(old)[next] \o SubSeq(old.record, Len(Rows(old)[next]) + 1, Len(old.record))
           found == [old EXCEPT !.position = next, !.record = row]
           missed == [old EXCEPT !.position = Len(Rows(old)) + 1]
           new == IF inside THEN found ELSE missed
           word == IF inside THEN 1 ELSE 0
<1>1. /\ a.more = NoTable /\ ~a.fresh /\ d \in a.loaded /\ d \in a.open /\ a.stack = <<>>
      /\ Leads(know, ip + 1, b)
  <2>1. p.code[ip + 1].op = "NXTREC"
    BY AtFacts DEF NXTREC, Instruction
  <2>2. Legal(p, names, know, ip) /\ a = know[ip] /\ d = p.code[ip + 1].data
    BY AtFacts
  <2>3. QED
    BY <2>1, <2>2 DEF Legal
<1>2. a \in Knowledge /\ StackIs(a) /\ TablesAre(a) /\ ScansAre(a) /\ Shape
  BY AtFacts
<1>3. d \in Virtual /\ DOMAIN tables = Virtual
  BY <1>1, <1>2, KnowledgeParts DEF Shape
<1>4. TableShape(old) /\ old.table # NoTable
  BY <1>1, <1>2, <1>3 DEF Shape, TablesAre
<1>5. ip' = ip + 1 /\ UNCHANGED <<code, memory, db, tp, results>>
  BY DEF NXTREC, Keep, Others, Step
<1>6. tables' = [tables EXCEPT ![d] = new] /\ stack' = Append(stack, word)
  <2>1. CASE inside
    BY <2>1 DEF NXTREC, At
  <2>2. CASE ~inside
    <3>1. tables' = [tables EXCEPT ![d].position = Len(Rows(old)) + 1]
      BY <2>2 DEF NXTREC, At
    <3>2. [tables EXCEPT ![d].position = Len(Rows(old)) + 1] = [tables EXCEPT ![d] = missed]
      OBVIOUS
    <3>3. QED
      BY <2>2, <3>1, <3>2 DEF NXTREC, At
  <2>3. QED
    BY <2>1, <2>2
<1>7. old.table \in DOMAIN db /\ Len(Rows(old)) \in Nat
  BY <1>2, <1>4, ScannedFacts DEF Shape
<1> HIDE DEF old, row
<1>8. /\ found = [table |-> old.table, columns |-> old.columns, record |-> row,
                  position |-> next, cp |-> old.cp]
      /\ missed = [table |-> old.table, columns |-> old.columns, record |-> old.record,
                  position |-> Len(Rows(old)) + 1, cp |-> old.cp]
  <2>1. old = [table |-> old.table, columns |-> old.columns, record |-> old.record,
               position |-> old.position, cp |-> old.cp]
    BY <1>4, TableParts
  <2> DEFINE moved(n) == [old EXCEPT !.position = n]
  <2>2. \A n : moved(n) = [table |-> old.table, columns |-> old.columns, record |-> old.record,
                          position |-> n, cp |-> old.cp]
    BY <2>1
  <2>3. found = [moved(next) EXCEPT !.record = row] /\ missed = moved(Len(Rows(old)) + 1)
    OBVIOUS
  <2> HIDE DEF moved, next, found, missed
  <2>4. QED
    BY <2>2, <2>3
<1> HIDE DEF found, missed
<1>9. /\ TableShape(new) /\ new.table = old.table /\ new.columns = old.columns
      /\ Scanned(new) <=> word = 0
  <2>1. next \in Nat /\ old.position \in Nat /\ IsList(old.columns) /\ old.cp \in Nat
    BY <1>4, TableParts
  <2>2. CASE inside
    BY <1>4, <1>7, <1>8, <2>1, <2>2 DEF TableShape, Scanned, Rows
  <2>3. CASE ~inside
    BY <1>4, <1>7, <1>8, <2>1, <2>3 DEF TableShape, Scanned, Rows
  <2>4. QED
    BY <2>2, <2>3
<1>10. word \in Bit
  BY DEF Bit
<1> HIDE DEF new, word
<1>11. /\ b \in Knowledge /\ b.stack = w0 /\ b.current = a.current
       /\ b.loaded = a.loaded /\ b.columns = a.columns /\ b.open = a.open
       /\ b.fresh = a.fresh /\ b.more = d
  <2> DEFINE c == Pushed(a, Bit)
  <2>1. /\ c \in Knowledge /\ c.stack = w0 /\ c.current = a.current
        /\ c.loaded = a.loaded /\ c.columns = a.columns /\ c.open = a.open
        /\ c.fresh = a.fresh
    BY <1>2, PushedFacts DEF Bit
  <2> HIDE DEF c, w0
  <2>2. b = [c EXCEPT !.more = d]
    BY DEF c
  <2> HIDE DEF b
  <2>3. QED
    BY <1>3, <2>1, <2>2 DEF Knowledge
<1>12. Leads(know, ip', b)
  BY <1>1, <1>5
<1> HIDE DEF b
<1>13. StackIs(b)' /\ Last(stack)' = word
  <2>1. stack = <<>> /\ stack' = <<word>> /\ w0 = <<Bit>>
    BY <1>1, <1>2, <1>6 DEF StackIs
  <2>2. QED
    BY <1>10, <1>11, <2>1 DEF StackIs, Last, Bit
<1>14. ScansAre(b)'
  <2>1. \A u \in Virtual : tables'[u] = IF u = d THEN new ELSE tables[u]
    BY <1>3, <1>6
  <2>2. \A u \in Virtual : IF u \in a.open THEN ~Scanned(tables[u]) ELSE Whole(tables[u])
    BY <1>1, <1>2, ValuesAssumption DEF ScansAre, Virtual
  <2>3. \A u \in Virtual : IF u \in a.open THEN u # d => ~Scanned(tables'[u]) ELSE Whole(tables'[u])
    BY <1>1, <2>1, <2>2
  <2>4. Last(stack)' = 0 <=> Scanned(tables'[d])
    BY <1>3, <1>9, <1>13, <2>1
  <2>5. QED
    BY <1>1, <1>5, <1>11, <2>3, <2>4 DEF ScansAre, Whole, Scanned, Rows
<1>16. d \in a.columns => new.columns # <<>>
  BY <1>2, <1>9 DEF TablesAre, old
<1>17. UNCHANGED <<code, memory, db, tp, results>> /\ b.current = a.current
       /\ b.loaded \subseteq a.loaded /\ b.columns \subseteq a.columns
  BY <1>5, <1>11
<1>18. QED
  BY <1>3, <1>4, <1>6, <1>9, <1>11, <1>12, <1>13, <1>14, <1>16, <1>17, OnlyTable

(* A row is inserted into a list of rows. *)
LEMMA InsertedList ==
  ASSUME NEW rows, IsList(rows), NEW row
  PROVE  IsList(Promise!Inserted(rows, row))
<1> DEFINE C == Cardinality({i \in DOMAIN rows : rows[i][1] < row[1]})
           S == ToSet(rows) \cup {row}
           more == InsertAt(rows, C + 1, row)
<1>1. Len(rows) \in Nat /\ DOMAIN rows = 1 .. Len(rows)
  BY ListFacts
<1>2. C \in 0 .. Len(rows)
  <2> DEFINE below == {i \in DOMAIN rows : rows[i][1] < row[1]}
  <2>1. IsFiniteSet(1 .. Len(rows)) /\ Cardinality(1 .. Len(rows)) = Len(rows)
    <3> DEFINE n == Len(rows)
    <3> HIDE DEF n
    <3>1. n \in Nat
      BY <1>1 DEF n
    <3>2. IsFiniteSet(1 .. n) /\ Cardinality(1 .. n) = IF 1 > n THEN 0 ELSE n - 1 + 1
      BY <3>1, FS_Interval
    <3>3. QED
      BY <3>1, <3>2 DEF n
  <2>2. below \subseteq 1 .. Len(rows)
    BY <1>1
  <2> HIDE DEF below
  <2>3. Cardinality(below) \in Nat /\ Cardinality(below) <= Len(rows)
    BY <2>1, <2>2, FS_Subset, FS_CardinalityType
  <2>4. QED
    BY <1>1, <2>3 DEF below
<1> HIDE DEF C
<1>3. rows \in Seq(S) /\ row \in S /\ C + 1 \in 1 .. Len(rows) + 1
  BY <1>1, <1>2 DEF IsList
<1> HIDE DEF S
<1>4. more \in Seq(S) /\ Len(more) = Len(rows) + 1
  BY <1>3, InsertAtSeq
<1> HIDE DEF more
<1>5. more = [i \in 1 .. Len(rows) + 1 |-> more[i]]
  BY <1>1, <1>4
<1>6. IsList(more)
  BY <1>1, <1>5, FunctionIsList
<1>7. Promise!Inserted(rows, row) = rows \/ Promise!Inserted(rows, row) = more
  BY Zenon DEF Promise!Inserted, Promise!InsertAt, InsertAt, more, C, Promise!Cardinality, Cardinality
<1>8. QED
  BY <1>6, <1>7

(* INSREC, *)
LEMMA INSRECStep ==
  ASSUME NEW p, NEW names, NEW know, NEW a, NEW d, At(p, names, know, a, d), INSREC
  PROVE  Shape' /\ Runs(p, names, know)'
<1>1. a.more = NoTable /\ a.fresh /\ Leads(know, ip + 1, a)
  <2>1. p.code[ip + 1].op = "INSREC"
    BY AtFacts DEF INSREC, Instruction
  <2>2. Legal(p, names, know, ip) /\ a = know[ip] /\ d = p.code[ip + 1].data
    BY AtFacts
  <2>3. QED
    BY <2>1, <2>2 DEF Legal
<1>2. a \in Knowledge /\ StackIs(a) /\ TablesAre(a) /\ ScansAre(a) /\ Shape /\ Runs(p, names, know)
  BY AtFacts
<1> DEFINE k == tables[tp].table
           rows == Promise!Inserted(db[k].rows, tables[tp].record)
<1>3. /\ ip' = ip + 1 /\ UNCHANGED <<code, memory, stack, tp, tables, results>>
      /\ db' = [db EXCEPT ![k].rows = rows]
  BY DEF INSREC, Keep, Others, Step
<1>4. k \in DOMAIN db => IsList(rows)
  BY <1>2, InsertedList DEF Shape, DbShape
<1> HIDE DEF k, rows
<1>5. DOMAIN db' = DOMAIN db
  BY <1>3
<1>6. ASSUME NEW n \in DOMAIN db
      PROVE  /\ n \in Nat
             /\ db'[n] = [columns |-> db'[n].columns, rows |-> db'[n].rows]
             /\ IsList(db'[n].columns) /\ db'[n].columns # <<>>
             /\ IsList(db'[n].rows)
  <2>1. /\ n \in Nat
        /\ db[n] = [columns |-> db[n].columns, rows |-> db[n].rows]
        /\ IsList(db[n].columns) /\ db[n].columns # <<>>
        /\ IsList(db[n].rows)
    BY <1>2 DEF Shape, DbShape
  <2>2. CASE n = k
    <3>1. db'[n] = [db[n] EXCEPT !.rows = rows]
      BY <1>3, <2>2
    <3>2. db'[n] = [columns |-> db[n].columns, rows |-> rows]
      BY <2>1, <3>1
    <3>3. QED
      BY <1>4, <2>1, <2>2, <3>2
  <2>3. CASE n # k
    BY <1>3, <2>1, <2>3
  <2>4. QED
    BY <2>2, <2>3
<1>7. DbShape'
  BY <1>5, <1>6 DEF DbShape
<1>8. Shape'
  BY <1>2, <1>3, <1>5, <1>7 DEF Shape, TableShape
<1>9. StackIs(a)' /\ TablesAre(a)'
  BY <1>2, <1>3 DEF StackIs, TablesAre
<1>10. ScansAre(a)'
  BY <1>1, <1>2, <1>3 DEF ScansAre, NothingYet
<1>11. QED
  BY <1>1, <1>2, <1>3, <1>5, <1>8, <1>9, <1>10, Continues DEF Agrees

(* and CRTTBL. *)
LEMMA CRTTBLStep ==
  ASSUME NEW p, NEW names, NEW know, NEW a, NEW d, At(p, names, know, a, d), CRTTBL
  PROVE  Shape' /\ Runs(p, names, know)'
<1>1. /\ a.more = NoTable /\ a.fresh /\ Stored(p, d) /\ p.memory[d + 1] \in Nat
      /\ \E t \in a.columns : Known(a, t)
      /\ Leads(know, ip + 1, a)
  <2>1. p.code[ip + 1].op = "CRTTBL"
    BY AtFacts DEF CRTTBL, Instruction
  <2>2. Legal(p, names, know, ip) /\ a = know[ip] /\ d = p.code[ip + 1].data
    BY AtFacts
  <2>3. QED
    BY <2>1, <2>2 DEF Legal
<1>2. a \in Knowledge /\ StackIs(a) /\ TablesAre(a) /\ ScansAre(a) /\ Shape /\ Runs(p, names, know) /\ memory = p.memory
  BY AtFacts
<1>3. PICK t \in Virtual : t = tp /\ t \in a.columns
  BY <1>1, <1>2 DEF Known, TablesAre
<1> DEFINE name == Word(data)
           old == tables[t]
           entry == [columns |-> old.columns, rows |-> <<>>]
           record == Allocated(old)
           new == [old EXCEPT !.table = name, !.record = record]
<1>4. /\ ip' = ip + 1 /\ UNCHANGED <<code, memory, stack, tp, results>>
      /\ db' = IF name \in DOMAIN db THEN db ELSE With(db, name, entry)
      /\ tables' = [tables EXCEPT ![t] = new]
  BY <1>3 DEF CRTTBL, Keep, Others, Step
<1>5. name \in Nat
  BY <1>1, <1>2 DEF Word, At
<1>6. TableShape(old) /\ old.columns # <<>> /\ DOMAIN tables = Virtual
  BY <1>2, <1>3 DEF Shape, TablesAre
<1> HIDE DEF name, record
<1>7. DOMAIN db \subseteq DOMAIN db' /\ name \in DOMAIN db' /\ DbShape'
  <2>1. CASE name \in DOMAIN db
    BY <1>2, <1>4, <2>1 DEF Shape, DbShape
  <2>2. CASE name \notin DOMAIN db
    <3>1. DOMAIN db' = DOMAIN db \cup {name}
          /\ \A n \in DOMAIN db' : db'[n] = IF n = name THEN entry ELSE db[n]
      BY <1>4, <2>2 DEF With
    <3>2. IsList(entry.columns) /\ entry.columns # <<>> /\ IsList(entry.rows)
      BY <1>6, TableParts DEF IsList
    <3>3. QED
      BY <1>2, <1>5, <3>1, <3>2 DEF Shape, DbShape
  <2>3. QED
    BY <2>1, <2>2
<1> HIDE DEF old, entry
<1>8. /\ new = [table |-> name, columns |-> old.columns, record |-> record,
                position |-> old.position, cp |-> old.cp]
  <2>1. old = [table |-> old.table, columns |-> old.columns, record |-> old.record,
               position |-> old.position, cp |-> old.cp]
    BY <1>6, TableParts
  <2> DEFINE named == [old EXCEPT !.table = name]
  <2>2. named = [table |-> name, columns |-> old.columns, record |-> old.record,
               position |-> old.position, cp |-> old.cp]
    BY <2>1
  <2>3. new = [named EXCEPT !.record = record]
    OBVIOUS
  <2> HIDE DEF named, new
  <2>4. QED
    BY <2>2, <2>3
<1> HIDE DEF new
<1>9. \A u \in Virtual : tables'[u] = IF u = t THEN new ELSE tables[u]
  BY <1>3, <1>4, <1>6
<1>10. /\ new = [table |-> new.table, columns |-> new.columns, record |-> new.record,
                 position |-> new.position, cp |-> new.cp]
       /\ new.table \in DOMAIN db' /\ IsList(new.columns)
       /\ new.position \in Nat /\ new.cp \in Nat
  BY <1>6, <1>7, <1>8, TableParts
<1>11. Shape'
  <2>1. DOMAIN tables' = Virtual /\ ResultsShape(results')
    BY <1>2, <1>4 DEF Shape
  <2>2. ASSUME NEW u \in Virtual
        PROVE  TableShape(tables[u])'
    <3>1. CASE u = t
      <4>1. tables'[u] = new
        BY <1>9, <3>1
      <4>2. QED
        BY <1>10, <4>1 DEF TableShape
    <3>2. CASE u # t
      <4>1. tables'[u] = tables[u]
        BY <1>9, <3>2
      <4>2. TableShape(tables[u])
        BY <1>2 DEF Shape
      <4>3. QED
        BY <1>7, <4>1, <4>2 DEF TableShape
    <3>3. QED
      BY <3>1, <3>2
  <2>3. QED
    BY <1>7, <2>1, <2>2 DEF Shape
<1>12. StackIs(a)'
  BY <1>2, <1>4 DEF StackIs
<1>13. name # NoTable
  BY <1>5, ValuesAssumption
<1>14. TablesAre(a)'
  <2>1. a.loaded \subseteq Virtual /\ a.columns \subseteq Virtual
    BY <1>2, KnowledgeParts
  <2>2. new.table # NoTable /\ new.columns # <<>>
    BY <1>6, <1>8, <1>13
  <2>3. QED
    BY <1>2, <1>4, <1>9, <2>1, <2>2 DEF TablesAre
<1>15. ScansAre(a)'
  <2>1. new.position = 0
    BY <1>1, <1>2, <1>8 DEF ScansAre, NothingYet, old
  <2>2. QED
    BY <1>1, <1>2, <1>3, <1>4, <1>6, <2>1, StillFresh
<1>16. QED
  BY <1>1, <1>2, <1>4, <1>7, <1>11, <1>12, <1>14, <1>15, Continues DEF Agrees

(* Nothing is left of the statement before but, after ExplainMQL, its code. *)
Idling ==
  /\ ip = 0 /\ stack = <<>> /\ tp = 0
  /\ tables = [t \in Virtual |-> EmptyTable] /\ results = NoResults
  /\ IF explained = NoStatement THEN code = <<>> /\ memory = <<>>
     ELSE /\ code = Compiled(explained).code /\ memory = Compiled(explained).memory
          /\ IsCode(Compiled(explained))

-----------------------------------------------------------------------------
(* The invariant: the machine runs a verified program or is between two. *)
MachineInv ==
  /\ Shape
  /\ asked \in Statements \cup {NoStatement}
  /\ explained \in Statements \cup {NoStatement}
  /\ Running => explained \in {NoStatement, asked}
  /\ Running => \E names, know : Runs(Compiled(asked), names, know)
  /\ ~Running => Idling

(* The code of every statement passes the rules. *)
AllVerified == \A s \in Statements : \E know : Verified(Compiled(s), Named(s), know)

(* What the properties say follows from what is known at an instruction. *)
LEMMA SafeHere ==
  ASSUME NEW p, NEW names, NEW know, Runs(p, names, know), Shape, Running
  PROVE  StackShallow /\ StaysInside /\ ScansAreWhole
<1>1. PICK a, d : a = know[ip] /\ d = data
  OBVIOUS
<1>2. At(p, names, know, a, d)
  BY <1>1 DEF At
<1>3. /\ a \in Knowledge /\ StackIs(a) /\ TablesAre(a) /\ ScansAre(a)
      /\ Legal(p, names, know, ip) /\ a = know[ip]
      /\ p.code[ip + 1] = Current /\ d = p.code[ip + 1].data
      /\ memory = p.memory
  BY <1>2, AtFacts
<1> DEFINE op == p.code[ip + 1].op
<1>4. /\ Len(a.stack) <= 2
      /\ a.more = NoTable \/ Current.op = "JMPF"
      /\ Current.op \in {"NEWCOL", "CRTTBL", "LDTBL", "CPYCOL", "INSVAL", "CPYVAL", "CMP"} => Stored(p, d)
  <2>1. Len(a.stack) <= 2 /\ (a.more = NoTable \/ op = "JMPF")
    BY <1>3 DEF Legal
  <2>2. ASSUME op = "NEWCOL" PROVE Stored(p, d)
    BY <1>3, <2>2 DEF Legal
  <2>3. ASSUME op = "CRTTBL" PROVE Stored(p, d)
    BY <1>3, <2>3 DEF Legal
  <2>4. ASSUME op = "LDTBL" PROVE Stored(p, d)
    BY <1>3, <2>4 DEF Legal
  <2>5. ASSUME op = "CPYCOL" PROVE Stored(p, d)
    BY <1>3, <2>5 DEF Legal
  <2>6. ASSUME op = "INSVAL" PROVE Stored(p, d)
    BY <1>3, <2>6 DEF Legal
  <2>7. ASSUME op = "CPYVAL" PROVE Stored(p, d)
    BY <1>3, <2>7 DEF Legal
  <2>8. ASSUME op = "CMP" PROVE Stored(p, d)
    BY <1>3, <2>8 DEF Legal
  <2> HIDE DEF op
  <2>9. op \in {"NEWCOL", "CRTTBL", "LDTBL", "CPYCOL", "INSVAL", "CPYVAL", "CMP"} => Stored(p, d)
    BY <2>2, <2>3, <2>4, <2>5, <2>6, <2>7, <2>8
  <2>10. op = Current.op
    BY <1>3 DEF op
  <2>11. QED
    BY <2>1, <2>9, <2>10, SMTT(30)
<1>5. /\ Current.op = "CMP" => Operands(p, p.memory[d + 1])
      /\ Current.op = "BOOL" => a.stack = <<Bit, Bit>>
      /\ Current.op = "NEWCOL" => a.stack # <<>>
      /\ Current.op = "JMPF" => a.stack = <<Bit>>
  <2>1. ASSUME op = "CMP" PROVE Operands(p, p.memory[d + 1])
    BY <1>3, <2>1 DEF Legal
  <2>2. ASSUME op = "BOOL" PROVE a.stack = <<Bit, Bit>>
    BY <1>3, <2>2 DEF Legal
  <2>3. ASSUME op = "NEWCOL" PROVE a.stack # <<>>
    BY <1>3, <2>3 DEF Legal
  <2>4. ASSUME op = "JMPF" PROVE a.stack = <<Bit>>
    BY <1>3, <2>4 DEF Legal
  <2> HIDE DEF op
  <2>5. QED
    BY <1>3, <2>1, <2>2, <2>3, <2>4 DEF op
<1>6. /\ Current.op = "RSTTBL" => d \in a.loaded /\ d \notin a.open /\ ~a.fresh
      /\ Current.op = "NXTREC" => d \in a.loaded /\ d \in a.open /\ ~a.fresh
      /\ Current.op = "CPYREC" => d \in a.loaded
  <2>1. ASSUME op = "RSTTBL" PROVE d \in a.loaded /\ d \notin a.open /\ ~a.fresh
    BY <1>3, <2>1 DEF Legal
  <2>2. ASSUME op = "NXTREC" PROVE d \in a.loaded /\ d \in a.open /\ ~a.fresh
    BY <1>3, <2>2 DEF Legal
  <2>3. ASSUME op = "CPYREC" PROVE d \in a.loaded
    BY <1>3, <2>3 DEF Legal
  <2> HIDE DEF op
  <2>4. QED
    BY <1>3, <2>1, <2>2, <2>3 DEF op
<1>7. /\ Current.op = "JMP" => d \in 0 .. ip - 1
      /\ Current.op = "HALT" => a.stack = <<>> /\ a.open = {}
  <2>1. ASSUME op = "JMP" PROVE d \in 0 .. ip - 1
    BY <1>3, <2>1 DEF Legal
  <2>2. ASSUME op = "HALT" PROVE a.stack = <<>> /\ a.open = {}
    BY <1>3, <2>2 DEF Legal
  <2> HIDE DEF op
  <2>3. QED
    BY <1>3, <2>1, <2>2 DEF op
<1> HIDE DEF op
<1>8. StackShallow
  BY <1>1, <1>3, <1>4, <1>7 DEF StackShallow, StackIs, Instruction
<1>9. ip \in Nat /\ ip < Len(code)
  <2>1. ip \in 0 .. Len(p.code) - 1 /\ Len(p.code) \in Nat
    BY Fetched
  <2>2. Len(p.code) <= Len(code) /\ IsList(code)
    BY DEF Runs, InCode
  <2>3. Len(code) \in Nat
    BY <2>2, ListFacts
  <2>4. QED
    BY <2>1, <2>2, <2>3
<1>10. Len(memory) \in Nat
  BY <1>3, ListFacts DEF Runs, Verified, IsCode
<1>11. \A x \in Addresses : x < Len(memory)
  BY <1>1, <1>3, <1>4, <1>5, <1>10 DEF Addresses, Stored, Operands, Word
<1>12. Pops(Current.op) <= Len(stack)
  <2>1. stack \in Seq(Nat) /\ Len(stack) = Len(a.stack)
    BY <1>3 DEF StackIs
  <2>2. CASE Current.op = "BOOL"
    <3>1. Len(a.stack) = 2
      BY <1>5, <2>2
    <3>2. QED
      BY <2>1, <2>2, <3>1 DEF Pops
  <2>3. CASE Current.op \in {"NEWCOL", "JMPF"}
    <3>1. a.stack \in Seq(SUBSET Nat)
      BY <1>3, KnowledgeParts
    <3>2. a.stack # <<>>
      <4>1. Current.op = "NEWCOL" \/ a.stack = <<Bit>>
        BY <1>5, <2>3
      <4>2. QED
        BY <1>5, <4>1
    <3>3. Len(a.stack) \in Nat /\ Len(a.stack) # 0
      BY <3>1, <3>2, LenProperties, EmptySeq
    <3>4. QED
      BY <2>1, <2>3, <3>3 DEF Pops
  <2>4. CASE Current.op \notin {"BOOL", "NEWCOL", "JMPF"}
    BY <2>1, <2>4, LenProperties DEF Pops
  <2>5. QED
    BY <2>2, <2>3, <2>4
<1>13. Current.op \in {"RSTTBL", "NXTREC", "CPYREC"} => tables[data].table # NoTable
  BY <1>1, <1>3, <1>6 DEF TablesAre
<1>14. Current.op = "JMP" => data < ip
  BY <1>1, <1>7, <1>9
<1>15. StaysInside
  BY <1>9, <1>11, <1>12, <1>13, <1>14 DEF StaysInside
<1>16. Current.op \in {"NXTREC", "RSTTBL"} => d \in Virtual
  BY <1>3, <1>6, KnowledgeParts
<1>17. Current.op # "JMPF" =>
         \A t \in Virtual : IF ~a.fresh /\ t \in a.open THEN ~Scanned(tables[t]) ELSE Whole(tables[t])
  BY <1>3, <1>4, ValuesAssumption DEF ScansAre, NothingYet, Whole, Virtual
<1>18. Current.op = "NXTREC" => ~Scanned(tables[data])
  BY <1>1, <1>6, <1>16, <1>17
<1>19. Current.op = "RSTTBL" => Whole(tables[data])
  BY <1>1, <1>6, <1>16, <1>17
<1>20. Current.op = "HALT" => \A t \in DOMAIN tables : Whole(tables[t])
  BY <1>7, <1>17 DEF Shape
<1>21. ScansAreWhole
  BY <1>18, <1>19, <1>20 DEF ScansAreWhole, Whole
<1>22. QED
  BY <1>8, <1>15, <1>21

(* What it says in terms of the properties. *)
LEMMA InvSafe ==
  ASSUME MachineInv
  PROVE  TypeOK /\ StackShallow /\ StaysInside /\ ScansAreWhole
<1>1. /\ DOMAIN tables = 0 .. MaxTables - 1
      /\ \A t \in DOMAIN tables :
           tables[t].table \in DOMAIN db \cup {NoTable} /\ tables[t].cp \in Nat
      /\ results.records \in Seq(ToSet(results.records))
      /\ \A i \in DOMAIN results.records :
           Len(results.records[i]) = Len(results.columns)
  BY DEF MachineInv, Shape, TableShape, ResultsShape, RowOf, IsList, Virtual
<1>2. CASE Running
  <2>1. PICK names, know : Runs(Compiled(asked), names, know)
    BY <1>2 DEF MachineInv
  <2>2. StackShallow /\ StaysInside /\ ScansAreWhole
    BY <1>2, <2>1, SafeHere DEF MachineInv
  <2>3. ip \in Nat /\ tp \in DOMAIN tables /\ stack \in Seq(Nat)
    <3>1. ip \in 0 .. Len(Compiled(asked).code) - 1 /\ know[ip] \in Knowledge /\ Agrees(know[ip])
      BY <2>1, Fetched
    <3>2. tp \in know[ip].current /\ stack \in Seq(Nat)
      BY <3>1 DEF Agrees, StackIs, TablesAre
    <3>3. QED
      BY <1>1, <3>1, <3>2, KnowledgeParts DEF Virtual
  <2>4. code # <<>>
    <3>1. ip < Len(code) /\ ip \in Nat
      BY <1>2, <2>2, <2>3 DEF StaysInside
    <3>2. QED
      BY <3>1
  <2>5. QED
    BY <1>1, <1>2, <2>2, <2>3, <2>4 DEF TypeOK, MachineInv, Running
<1>3. CASE ~Running
  <2>1. Idling
    BY <1>3 DEF MachineInv
  <2>2. StackShallow /\ StaysInside /\ ScansAreWhole
    BY <1>3, <2>1 DEF Idling, StackShallow, StaysInside, ScansAreWhole, Instruction
  <2>3. (code = <<>>) = (asked = NoStatement /\ explained = NoStatement)
    BY <1>3, <2>1 DEF Idling, Running, IsCode
  <2>4. QED
    BY <1>1, <1>3, <2>1, <2>2, <2>3, ValuesAssumption DEF Idling, TypeOK, MachineInv
<1>4. QED
  BY <1>2, <1>3

-----------------------------------------------------------------------------
(* An instruction that does not end the program. *)
LEMMA InstructionStep ==
  ASSUME NEW p, NEW names, NEW know, Runs(p, names, know), Shape, Decode, ~HALT
  PROVE  Shape' /\ Runs(p, names, know)'
<1>1. PICK a, d : a = know[ip] /\ d = data
  OBVIOUS
<1>2. At(p, names, know, a, d)
  BY <1>1 DEF At
<1>3. CASE PUSH
  BY <1>2, <1>3, PUSHStep
<1>4. CASE SETTBL
  BY <1>2, <1>4, SETTBLStep
<1>5. CASE NEWCOL
  BY <1>2, <1>5, NEWCOLStep
<1>6. CASE CRTTBL
  BY <1>2, <1>6, CRTTBLStep
<1>7. CASE LDTBL
  BY <1>2, <1>7, LDTBLStep
<1>8. CASE DSCTBL
  BY <1>2, <1>8, DSCTBLStep
<1>9. CASE RSTTBL
  BY <1>2, <1>9, RSTTBLStep
<1>10. CASE CPYCOL
  BY <1>2, <1>10, CPYCOLStep
<1>11. CASE CMP
  BY <1>2, <1>11, CMPStep
<1>12. CASE BOOL
  BY <1>2, <1>12, BOOLStep
<1>13. CASE INSVAL
  BY <1>2, <1>13, INSVALStep
<1>14. CASE INSREC
  BY <1>2, <1>14, INSRECStep
<1>15. CASE NXTREC
  BY <1>2, <1>15, NXTRECStep
<1>16. CASE CPYREC
  BY <1>2, <1>16, CPYRECStep
<1>17. CASE CPYVAL
  BY <1>2, <1>17, CPYVALStep
<1>18. CASE NEWREC
  BY <1>2, <1>18, NEWRECStep
<1>19. CASE JMP
  BY <1>2, <1>19, JMPStep
<1>20. CASE JMPF
  BY <1>2, <1>20, JMPFStep
<1>21. QED
  BY <1>3, <1>4, <1>5, <1>6, <1>7, <1>8, <1>9, <1>10, <1>11, <1>12, <1>13, <1>14,
     <1>15, <1>16, <1>17, <1>18, <1>19, <1>20 DEF Decode

(* An instruction either halts the machine or leaves the answer alone. *)
LEMMA DecodeAnswers ==
  ASSUME Decode
  PROVE  /\ Running
         /\ \/ HALT /\ Instruction("HALT") /\ answer' = results.records /\ asked' = NoStatement
            \/ ~Instruction("HALT") /\ answer' = answer /\ asked' = asked /\ explained' = explained
<1>1. CASE HALT
  BY <1>1 DEF HALT, Instruction
<1>2. CASE PUSH
  BY <1>2 DEF PUSH, Instruction, Keep, Others
<1>3. CASE SETTBL
  BY <1>3 DEF SETTBL, Instruction, Keep, Others
<1>4. CASE NEWCOL
  BY <1>4 DEF NEWCOL, Instruction, Keep, Others
<1>5. CASE CRTTBL
  BY <1>5 DEF CRTTBL, Instruction, Keep, Others
<1>6. CASE LDTBL
  BY <1>6 DEF LDTBL, Instruction, Keep, Others
<1>7. CASE DSCTBL
  BY <1>7 DEF DSCTBL, Instruction, Keep, Others
<1>8. CASE RSTTBL
  BY <1>8 DEF RSTTBL, Instruction, Keep, Others
<1>9. CASE CPYCOL
  BY <1>9 DEF CPYCOL, Instruction, Keep, Others
<1>10. CASE CMP
  BY <1>10 DEF CMP, Instruction, Keep, Others
<1>11. CASE BOOL
  BY <1>11 DEF BOOL, Instruction, Keep, Others
<1>12. CASE INSVAL
  BY <1>12 DEF INSVAL, Instruction, Keep, Others
<1>13. CASE INSREC
  BY <1>13 DEF INSREC, Instruction, Keep, Others
<1>14. CASE NXTREC
  BY <1>14 DEF NXTREC, Instruction, Keep, Others
<1>15. CASE CPYREC
  BY <1>15 DEF CPYREC, Instruction, Keep, Others
<1>16. CASE CPYVAL
  BY <1>16 DEF CPYVAL, Instruction, Keep, Others
<1>17. CASE NEWREC
  BY <1>17 DEF NEWREC, Instruction, Keep, Others
<1>18. CASE JMP
  BY <1>18 DEF JMP, Instruction, Others
<1>19. CASE JMPF
  BY <1>19 DEF JMPF, Instruction, Others
<1>20. QED
  BY <1>1, <1>2, <1>3, <1>4, <1>5, <1>6, <1>7, <1>8, <1>9, <1>10, <1>11,
     <1>12, <1>13, <1>14, <1>15, <1>16, <1>17, <1>18, <1>19 DEF Decode

(* HALT empties the tables and the results. *)
LEMMA EmptyShape == DbShape' => (\A t \in Virtual : TableShape(EmptyTable)') /\ ResultsShape(NoResults)
<1>1. IsList(<<>>)
  BY DEF IsList
<1>2. QED
  BY <1>1 DEF TableShape, ResultsShape, EmptyTable, NoResults

(* The program ends. *)
LEMMA HALTStep ==
  ASSUME MachineInv, HALT
  PROVE  MachineInv'
<1>1. /\ code' = <<>> /\ ip' = 0 /\ memory' = <<>> /\ stack' = <<>> /\ tp' = 0
      /\ tables' = [t \in Virtual |-> EmptyTable]
      /\ results' = NoResults /\ db' = db
      /\ asked' = NoStatement /\ explained' = NoStatement
  BY DEF HALT, MachineInv, Shape
<1>2. DbShape'
  BY <1>1 DEF MachineInv, Shape, DbShape
<1>3. Shape'
  BY <1>1, <1>2, EmptyShape DEF Shape
<1>4. Idling'
  BY <1>1 DEF Idling
<1>5. QED
  BY <1>1, <1>3, <1>4 DEF MachineInv, Running

(* The loop of Decode. *)
LEMMA DecodeStep ==
  ASSUME MachineInv, Decode
  PROVE  MachineInv'
<1>1. CASE HALT
  BY <1>1, HALTStep
<1>2. CASE ~HALT
  <2>1. Running /\ asked' = asked /\ explained' = explained
    BY <1>2, DecodeAnswers
  <2>2. PICK p, names, know : p = Compiled(asked) /\ Runs(p, names, know)
    BY <2>1 DEF MachineInv
  <2>3. Shape' /\ Runs(p, names, know)'
    BY <1>2, <2>2, InstructionStep DEF MachineInv
  <2>4. Compiled(asked') = p
    BY <2>1, <2>2
  <2>5. (\E names_1, know_1 : Runs(Compiled(asked), names_1, know_1))'
    BY <2>3, <2>4
  <2>6. QED
    BY <2>1, <2>3, <2>5 DEF MachineInv, Running
<1>3. QED
  BY <1>1, <1>2

-----------------------------------------------------------------------------
(* Nothing is added before or after a list. *)
LEMMA NothingMore ==
  ASSUME NEW s, IsList(s)
  PROVE  s \o <<>> = s /\ <<>> \o s = s
<1>1. s \in Seq(ToSet(s))
  BY DEF IsList
<1>2. QED
  BY <1>1

(* A program that is not longer than the last one covers it. *)
LEMMA NothingBehind ==
  ASSUME NEW s, IsList(s)
  PROVE  /\ SubSeq(s, Len(s) + 1, Len(s)) = <<>>
         /\ SubSeq(<<>>, Len(s) + 1, Len(<<>>)) = <<>>
<1>1. Len(s) \in Nat
  BY ListFacts
<1>2. Len(<<>>) = 0 /\ \A n \in Nat : n > n - 1 /\ n + 1 > n /\ n + 1 > 0
  OBVIOUS
<1>3. QED
  BY <1>1, <1>2, SubSeqEmpty

(* Jumps stay as they are when there is no code before them. *)
LEMMA MovedFacts ==
  ASSUME NEW p, NEW names, NEW know, Verified(p, names, know)
  PROVE  /\ IsList(Moved(p)) /\ Len(Moved(p)) = Len(p.code)
         /\ code = <<>> => Moved(p) = p.code
<1>1. /\ IsList(p.code) /\ Len(p.code) \in Nat /\ DOMAIN p.code = 1 .. Len(p.code)
      /\ \A i \in DOMAIN p.code : p.code[i] = I(p.code[i].op, p.code[i].data)
  BY ListFacts DEF Verified, IsCode
<1> DEFINE m == Moved(p)
<1>2. m = [i \in 1 .. Len(p.code) |-> m[i]]
  BY <1>1 DEF Moved
<1>3. IsList(m) /\ Len(m) = Len(p.code)
  <2> HIDE DEF m
  <2>1. QED
    BY <1>1, <1>2, FunctionIsList
<1>4. ASSUME code = <<>>, NEW i \in 1 .. Len(p.code)
      PROVE  m[i] = p.code[i]
  <2> DEFINE op == p.code[i].op
             d == p.code[i].data
  <2>1. p.code[i] = I(op, d)
    BY <1>1
  <2>2. CASE op \in {"JMP", "JMPF"}
    <3>1. PICK n : n = i - 1
      OBVIOUS
    <3>2. n \in DOMAIN know /\ Legal(p, names, know, n) /\ n + 1 = i /\ n \in Nat
      <4>1. Len(p.code) \in Nat /\ n + 1 = i /\ n \in 0 .. Len(p.code) - 1 /\ n \in Nat
        BY <1>1, <3>1
      <4>2. DOMAIN know = 0 .. Len(p.code) - 1 /\ \A k \in DOMAIN know : Legal(p, names, know, k)
        BY DEF Verified
      <4>3. QED
        BY <4>1, <4>2
    <3> DEFINE o == p.code[n + 1].op
               e == p.code[n + 1].data
    <3>3. o = op /\ e = d
      BY <3>2
    <3>4. ASSUME op = "JMP" PROVE e \in 0 .. n - 1
      <4>1. p.code[n + 1].op = "JMP"
        BY <3>4, <3>3
      <4>2. QED
        BY <3>2, <4>1 DEF Legal
    <3>5. ASSUME op = "JMPF" PROVE e \in Nat
      <4>1. p.code[n + 1].op = "JMPF"
        BY <3>5, <3>3
      <4>2. QED
        BY <3>2, <4>1 DEF Legal
    <3> HIDE DEF o, e
    <3>6. Len(code) = 0
      BY <1>4
    <3>7. m[i] = [p.code[i] EXCEPT !.data = d + Len(code)]
      BY <1>1, <2>2 DEF Moved
    <3>8. ASSUME op = "JMP" PROVE d \in Nat
      <4>1. d \in 0 .. n - 1
        BY <3>4, <3>8, <3>3
      <4>2. QED
        BY <3>2, <4>1
    <3> HIDE DEF op, d, m
    <3>9. d \in Nat
      BY <2>2, <3>5, <3>8, <3>3
    <3>10. QED
      BY <2>1, <3>6, <3>7, <3>9 DEF I
  <2>3. CASE op \notin {"JMP", "JMPF"}
    BY <1>1, <2>3 DEF Moved
  <2>4. QED
    BY <2>2, <2>3
<1>5. code = <<>> => m = p.code
  <2>1. p.code = [i \in 1 .. Len(p.code) |-> p.code[i]]
    BY <1>1 DEF IsList
  <2> HIDE DEF m
  <2>2. QED
    BY <1>2, <1>4, <2>1
<1>6. QED
  BY <1>3, <1>5

(* What parsing a statement leaves, before anything of it is executed. *)
LEMMA Parsing ==
  ASSUME MachineInv, ~Running, NEW s, NEW names, NEW know, Verified(Compiled(s), names, know),
         explained \in {NoStatement, s}, Parse(s)
  PROVE  /\ memory' = Compiled(s).memory
         /\ IsList(code') /\ Len(Compiled(s).code) <= Len(code')
         /\ \A i \in 1 .. Len(Compiled(s).code) : code'[i] = Compiled(s).code[i]
         /\ explained = NoStatement => code' = Compiled(s).code
         /\ UNCHANGED <<db, ip, stack, tp, tables, results, answer>>
         /\ Named(s) \subseteq DOMAIN db
<1> DEFINE p == Compiled(s)
<1>1. /\ Named(s) \subseteq DOMAIN db
      /\ code' = code \o Moved(p)
      /\ memory' = p.memory \o SubSeq(memory, Len(p.memory) + 1, Len(memory))
      /\ UNCHANGED <<db, ip, stack, tp, tables, results, answer>>
  BY DEF Parse
<1>2. Idling /\ Verified(p, names, know)
  BY DEF MachineInv
<1> HIDE DEF p
<1>3. /\ IsList(p.code) /\ IsList(p.memory)
      /\ Len(p.code) \in Nat
  BY <1>2, ListFacts DEF Verified, IsCode
<1>4. /\ IsList(Moved(p)) /\ Len(Moved(p)) = Len(p.code)
      /\ code = <<>> => Moved(p) = p.code
  BY <1>2, MovedFacts
<1>5. memory = <<>> \/ memory = p.memory
  BY <1>2 DEF Idling, p
<1>6. memory' = p.memory
  <2>1. SubSeq(memory, Len(p.memory) + 1, Len(memory)) = <<>>
    BY <1>3, <1>5, NothingBehind
  <2>2. QED
    BY <1>1, <1>3, <2>1, NothingMore
<1>7. /\ IsList(code') /\ Len(p.code) <= Len(code')
      /\ \A i \in 1 .. Len(p.code) : code'[i] = p.code[i]
      /\ explained = NoStatement => code' = p.code
  <2>1. CASE explained = NoStatement
    <3>1. code = <<>>
      BY <1>2, <2>1 DEF Idling
    <3>2. code' = p.code
      BY <1>1, <1>3, <1>4, <3>1, NothingMore
    <3>3. QED
      BY <1>3, <3>2
  <2>2. CASE explained # NoStatement
    <3>1. code = p.code
      BY <1>2, <2>2 DEF Idling, p
    <3> DEFINE m == Moved(p)
    <3> HIDE DEF m
    <3>2. code' = p.code \o m /\ IsList(m) /\ Len(m) = Len(p.code)
      BY <1>1, <1>4, <3>1 DEF m
    <3>3. IsList(p.code \o m) /\ Len(p.code \o m) = Len(p.code) + Len(m)
          /\ \A i \in 1 .. Len(p.code) : (p.code \o m)[i] = p.code[i]
      BY <1>3, <3>2, ListOfTwo
    <3>4. Len(code') = Len(p.code) + Len(p.code)
      BY <3>2, <3>3
    <3>5. Len(p.code) <= Len(code')
      BY <1>3, <3>4
    <3>6. QED
      BY <2>2, <3>2, <3>3, <3>5
  <2>3. QED
    BY <2>1, <2>2
<1>8. QED
  BY <1>1, <1>6, <1>7 DEF p

(* A program starts as AtStart says. *)
LEMMA Starts ==
  ASSUME MachineInv, ~Running, NEW p, NEW names, NEW know, Verified(p, names, know)
  PROVE  0 \in DOMAIN know /\ Agrees(know[0]) /\ ip = 0
<1>1. /\ stack = <<>> /\ tp = 0 /\ ip = 0 /\ results = NoResults
      /\ tables = [t \in Virtual |-> EmptyTable] /\ Shape
  BY DEF MachineInv, Idling
<1>2. 0 \in Virtual
  BY ValuesAssumption DEF Virtual
<1>3. AtStart \in Knowledge
  BY <1>2 DEF AtStart, Knowledge
<1>4. Agrees(AtStart)
  BY <1>1, <1>2 DEF Agrees, AtStart, StackIs, TablesAre, ScansAre, NothingYet, EmptyTable, NoResults
<1>5. Len(p.code) \in Nat /\ Len(p.code) # 0
  BY ListFacts DEF Verified, IsCode
<1>6. know \in [0 .. Len(p.code) - 1 -> Knowledge] /\ Implies(AtStart, know[0])
  BY DEF Verified
<1>7. 0 \in DOMAIN know /\ know[0] \in Knowledge
  BY <1>5, <1>6
<1>8. QED
  BY <1>1, <1>3, <1>4, <1>6, <1>7, Weaker

(* A statement is executed, *)
LEMMA ExecuteStep ==
  ASSUME MachineInv, AllVerified, NEW s \in Statements, ExecuteMQL(s)
  PROVE  MachineInv'
<1> DEFINE p == Compiled(s)
<1>1. ~Running /\ explained \in {NoStatement, s} /\ Parse(s) /\ asked' = s /\ explained' = explained
  BY DEF ExecuteMQL
<1>2. PICK names, know : names = Named(s) /\ Verified(p, names, know)
  BY DEF AllVerified
<1>3. /\ memory' = p.memory
      /\ IsList(code') /\ Len(p.code) <= Len(code')
      /\ \A i \in 1 .. Len(p.code) : code'[i] = p.code[i]
      /\ UNCHANGED <<db, ip, stack, tp, tables, results>>
      /\ names \subseteq DOMAIN db
  BY <1>1, <1>2, Parsing
<1>4. 0 \in DOMAIN know /\ Agrees(know[0]) /\ ip = 0
  BY <1>1, <1>2, Starts
<1> HIDE DEF p
<1>5. Shape'
  BY <1>3 DEF MachineInv, Shape, DbShape, TableShape
<1>6. PICK b : b = know[0]
  OBVIOUS
<1>7. Agrees(b)'
  BY <1>3, <1>4, <1>6 DEF Agrees, StackIs, TablesAre, ScansAre, NothingYet, Whole, Scanned, Rows
<1>8. Runs(p, names, know)'
  BY <1>2, <1>3, <1>4, <1>6, <1>7 DEF Runs, InCode
<1>9. asked' \in Statements /\ explained' \in {NoStatement, asked'} /\ Compiled(asked') = p
  BY <1>1 DEF p
<1>10. (\E names_1, know_1 : Runs(Compiled(asked), names_1, know_1))'
  BY <1>8, <1>9
<1>11. explained' \in Statements \cup {NoStatement} /\ Running'
  BY <1>1, ValuesAssumption DEF MachineInv, Running
<1>12. QED
  BY <1>5, <1>9, <1>10, <1>11 DEF MachineInv

(* or explained. *)
LEMMA ExplainStep ==
  ASSUME MachineInv, AllVerified, NEW s \in Statements, ExplainMQL(s)
  PROVE  MachineInv'
<1> DEFINE p == Compiled(s)
<1>1. ~Running /\ explained = NoStatement /\ Parse(s) /\ asked' = asked /\ explained' = s
  BY DEF ExplainMQL
<1>2. PICK names, know : Verified(p, names, know)
  BY DEF AllVerified
<1>3. /\ memory' = p.memory /\ code' = p.code
      /\ UNCHANGED <<db, ip, stack, tp, tables, results>>
  BY <1>1, <1>2, Parsing
<1>4. IsCode(p)
  BY <1>2 DEF Verified
<1>5. Shape'
  BY <1>3 DEF MachineInv, Shape, DbShape, TableShape
<1>6. Idling'
  BY <1>1, <1>3, <1>4, ValuesAssumption DEF MachineInv, Idling
<1>7. QED
  BY <1>1, <1>5, <1>6 DEF MachineInv, Running

(* A new machine. *)
LEMMA InitInv == Init => MachineInv
<1> SUFFICES ASSUME Init
             PROVE  MachineInv
  OBVIOUS
<1>1. /\ db \in Databases
      /\ tables = [t \in Virtual |-> EmptyTable] /\ results = NoResults
      /\ asked = NoStatement /\ explained = NoStatement
      /\ code = <<>> /\ ip = 0 /\ memory = <<>> /\ stack = <<>> /\ tp = 0
  BY DEF Init, Virtual
<1>2. DbShape
  BY <1>1, DatabasesAssumption DEF DbShape
<1>3. IsList(<<>>)
  BY DEF IsList
<1>4. Shape
  BY <1>1, <1>2, <1>3 DEF Shape, TableShape, ResultsShape, EmptyTable, NoResults
<1>5. Idling
  BY <1>1 DEF Idling
<1>6. QED
  BY <1>1, <1>4, <1>5 DEF MachineInv, Running

(* Every step keeps the invariant. *)
LEMMA NextInv == MachineInv /\ AllVerified /\ [Next]_vars => MachineInv'
<1> SUFFICES ASSUME MachineInv, AllVerified, [Next]_vars
             PROVE  MachineInv'
  OBVIOUS
<1>1. CASE UNCHANGED vars
  <2>1. UNCHANGED <<db, code, ip, memory, stack, tp, tables, results, asked, explained>>
    BY <1>1 DEF vars, machine
  <2>2. MachineInv => MachineInv'
    BY <2>1 DEF MachineInv, Shape, DbShape, TableShape, Idling, Running, Runs, InCode, Agrees, StackIs,
                TablesAre, ScansAre, NothingYet, Whole, Scanned, Rows
  <2>3. QED
    BY <2>2
<1>2. CASE Decode
  BY <1>2, DecodeStep
<1>3. CASE \E s \in Statements : ExecuteMQL(s) \/ ExplainMQL(s)
  BY <1>3, ExecuteStep, ExplainStep
<1>4. QED
  BY <1>1, <1>2, <1>3 DEF Next


-----------------------------------------------------------------------------
(* What is known implies itself. *)
LEMMA ImpliesItself == \A a : Implies(a, a)
BY DEF Implies

(* Short tuples are lists: of one, *)
LEMMA OneIsList ==
  ASSUME NEW e
  PROVE  IsList(<<e>>) /\ Len(<<e>>) = 1 /\ <<e>>[1] = e
<1> DEFINE s == <<e>>
<1>1. s = [i \in 1 .. 1 |-> s[i]]
  OBVIOUS
<1> HIDE DEF s
<1>2. IsList(s) /\ Len(s) = 1
  BY <1>1, FunctionIsList
<1>3. QED
  BY <1>2 DEF s

(* of two. *)
LEMMA TwoIsList ==
  ASSUME NEW e, NEW f
  PROVE  IsList(<<e, f>>) /\ Len(<<e, f>>) = 2
<1> DEFINE s == <<e, f>>
<1>1. s = [i \in 1 .. 2 |-> s[i]]
  OBVIOUS
<1> HIDE DEF s
<1>2. IsList(s) /\ Len(s) = 2
  BY <1>1, FunctionIsList
<1>3. QED
  BY <1>2 DEF s

(* a is known, part by part. *)
Knows(a, words, current, loaded, columns, open, fresh, more) ==
  /\ a \in Knowledge
  /\ a.stack = words /\ a.current = current /\ a.loaded = loaded /\ a.columns = columns
  /\ a.open = open /\ a.fresh = fresh /\ a.more = more

(* The record of these parts. *)
Made(words, current, loaded, columns, open, fresh, more) ==
  [stack |-> words, current |-> current, loaded |-> loaded, columns |-> columns,
   open |-> open, fresh |-> fresh, more |-> more]

(* It is one of knowledge. *)
LEMMA MadeFacts ==
  ASSUME NEW words \in Seq(SUBSET Nat), NEW current \in SUBSET Virtual,
         NEW loaded \in SUBSET Virtual, NEW columns \in SUBSET Virtual,
         NEW open \in SUBSET Virtual, NEW fresh \in BOOLEAN,
         NEW more \in Virtual \cup {NoTable}
  PROVE  Knows(Made(words, current, loaded, columns, open, fresh, more),
               words, current, loaded, columns, open, fresh, more)
BY DEF Made, Knows, Knowledge

(* There is a virtual table. *)
LEMMA ZeroIsVirtual == 0 \in Virtual
BY ValuesAssumption DEF Virtual

(* Whatever is known part by part is known. *)
LEMMA Knowable ==
  ASSUME NEW words \in Seq(SUBSET Nat), NEW current \in SUBSET Virtual,
         NEW loaded \in SUBSET Virtual, NEW columns \in SUBSET Virtual,
         NEW open \in SUBSET Virtual, NEW fresh \in BOOLEAN,
         NEW more \in Virtual \cup {NoTable}
  PROVE  \E a : Knows(a, words, current, loaded, columns, open, fresh, more)
<1> DEFINE a == Made(words, current, loaded, columns, open, fresh, more)
<1>1. Knows(a, words, current, loaded, columns, open, fresh, more)
  BY MadeFacts
<1> HIDE DEF a
<1>2. QED
  BY <1>1

(* What is known between the instructions that use virtual table 0. *)
LEMMA KnowableAlone ==
  ASSUME NEW loaded \in {{}, {0}}, NEW columns \in {{}, {0}}, NEW fresh \in BOOLEAN
  PROVE  \E a : Knows(a, <<>>, {0}, loaded, columns, {}, fresh, NoTable)
<1> DEFINE words == <<>>
           current == {0}
           open == {}
<1>1. /\ words \in Seq(SUBSET Nat) /\ current \in SUBSET Virtual
      /\ loaded \in SUBSET Virtual /\ columns \in SUBSET Virtual /\ open \in SUBSET Virtual
      /\ NoTable \in Virtual \cup {NoTable}
  BY ZeroIsVirtual
<1> HIDE DEF words, current, open
<1>2. \E a : Knows(a, words, current, loaded, columns, open, fresh, NoTable)
  BY <1>1, Knowable
<1>3. QED
  BY <1>2 DEF words, current, open

-----------------------------------------------------------------------------
(* The code of INSERT is verified, *)
LEMMA InsertVerified ==
  ASSUME NEW s \in Statements, s.kind = "insert"
  PROVE  \E know : Verified(Compiled(s), Named(s), know)
<1> DEFINE n == Len(s.values)
           values == [i \in DOMAIN s.values |-> I("INSVAL", i)]
           start == <<I("SETTBL", 0), I("LDTBL", 0)>>
           code1 == start \o values
           code2 == code1 \o <<I("INSREC", 0)>>
           all == Append(code2, I("HALT", 1))
           words == <<s.table>> \o s.values
           p == Compiled(s)
<1>1. IsList(s.values) /\ n \in Nat /\ DOMAIN s.values = 1 .. n
  BY StatementsAssumption, ListFacts
<1>2. p.code = all /\ p.memory = words
  BY DEF Compiled, Insert
<1>3. /\ IsList(start) /\ Len(start) = 2 /\ start[1] = I("SETTBL", 0) /\ start[2] = I("LDTBL", 0)
  BY TwoIsList
<1>4. /\ IsList(values) /\ Len(values) = n /\ \A i \in 1 .. n : values[i] = I("INSVAL", i)
  <2>1. values = [i \in 1 .. n |-> values[i]] /\ \A i \in 1 .. n : values[i] = I("INSVAL", i)
    BY <1>1
  <2> HIDE DEF values
  <2>2. QED
    BY <1>1, <2>1, FunctionIsList
<1> HIDE DEF start, values, n
<1>5. /\ IsList(code1) /\ Len(code1) = 2 + n
      /\ code1[1] = I("SETTBL", 0) /\ code1[2] = I("LDTBL", 0)
      /\ \A i \in 1 .. n : code1[2 + i] = I("INSVAL", i)
  <2>1. /\ IsList(code1) /\ Len(code1) = Len(start) + Len(values)
        /\ \A i \in 1 .. Len(start) : code1[i] = start[i]
        /\ \A i \in 1 .. Len(values) : code1[Len(start) + i] = values[i]
    <3>1. IsList(start) /\ IsList(values)
      BY <1>3, <1>4
    <3>2. QED
      BY <3>1, ListOfTwo
  <2>2. 1 \in 1 .. 2 /\ 2 \in 1 .. 2
    OBVIOUS
  <2>3. QED
    BY <1>3, <1>4, <2>1, <2>2
<1> HIDE DEF code1
<1>6. /\ IsList(code2) /\ Len(code2) = 2 + n + 1
      /\ \A i \in 1 .. 2 + n : code2[i] = code1[i]
      /\ code2[2 + n + 1] = I("INSREC", 0)
  BY <1>1, <1>5, OneIsList, ListOfTwo
<1> HIDE DEF code2
<1>7. /\ IsList(all) /\ Len(all) = n + 4 /\ all # <<>>
      /\ \A i \in 1 .. n + 3 : all[i] = code2[i]
      /\ all[n + 4] = I("HALT", 1)
  BY <1>1, <1>6, ListMore
<1> HIDE DEF all
<1>8. /\ all[1] = I("SETTBL", 0) /\ all[2] = I("LDTBL", 0)
      /\ \A i \in 3 .. n + 2 : all[i] = I("INSVAL", i - 2)
      /\ all[n + 3] = I("INSREC", 0)
  <2>1. 1 \in 1 .. 2 + n /\ 2 \in 1 .. 2 + n /\ n + 3 \in 1 .. n + 3
    BY <1>1
  <2>2. ASSUME NEW i \in 3 .. n + 2
        PROVE  all[i] = I("INSVAL", i - 2)
    <3>1. i - 2 \in 1 .. n /\ i = 2 + (i - 2) /\ i \in 1 .. 2 + n /\ i \in 1 .. n + 3
      BY <1>1
    <3>2. QED
      BY <1>5, <1>6, <1>7, <3>1
  <2>3. QED
    BY <1>1, <1>5, <1>6, <1>7, <2>1, <2>2
<1>9. IsList(words) /\ Len(words) = 1 + n /\ words[1] = s.table
  BY <1>1, OneIsList, ListOfTwo DEF n
<1>10. Named(s) = {s.table}
  BY DEF Named
<1> HIDE DEF words, p
<1>11. PICK k0 : Knows(k0, <<>>, {0}, {}, {}, {}, TRUE, NoTable)
  BY KnowableAlone
<1>12. PICK k2 : Knows(k2, <<>>, {0}, {0}, {0}, {}, TRUE, NoTable)
  BY KnowableAlone
<1>13. /\ k0 \in Knowledge /\ k0.stack = <<>> /\ Len(k0.stack) <= 2 /\ Known(k0, 0)
       /\ k2 \in Knowledge /\ k2.stack = <<>> /\ Len(k2.stack) <= 2 /\ Known(k2, 0)
  BY <1>11, <1>12, ZeroIsVirtual DEF Knows, Known
<1> DEFINE know == [i \in 0 .. n + 3 |-> IF i < 2 THEN k0 ELSE k2]
<1>14. /\ know \in [0 .. Len(p.code) - 1 -> Knowledge] /\ DOMAIN know = 0 .. n + 3
       /\ know[0] = k0 /\ know[1] = k0 /\ \A i \in 2 .. n + 3 : know[i] = k2
  <2>1. n + 4 - 1 = n + 3 /\ 0 \in 0 .. n + 3 /\ 1 \in 0 .. n + 3 /\ \A i \in 2 .. n + 3 : i \in 0 .. n + 3 /\ ~(i < 2)
    BY <1>1
  <2>2. QED
    BY <1>1, <1>2, <1>7, <1>13, <2>1
<1> HIDE DEF know
<1>15. IsCode(p)
  <2>1. ASSUME NEW i \in DOMAIN all
        PROVE  all[i] = I(all[i].op, all[i].data)
    <3>1. i \in 1 .. n + 4
      BY <1>7, ListFacts
    <3>2. PICK op, x : all[i] = I(op, x)
      <4>1. i = 1 \/ i = 2 \/ i \in 3 .. n + 2 \/ i = n + 3 \/ i = n + 4
        BY <1>1, <3>1
      <4>2. QED
        BY <1>7, <1>8, <4>1
    <3>3. QED
      BY <3>2 DEF I
  <2>2. QED
    BY <1>2, <1>7, <1>9, <2>1 DEF IsCode
<1>16. Implies(AtStart, know[0])
  BY <1>11, <1>14 DEF Implies, AtStart, Knows
<1>18. ASSUME NEW i \in DOMAIN know
       PROVE  Legal(p, Named(s), know, i)
  <2>0. i \in 0 .. n + 3 /\ n \in Nat
    BY <1>1, <1>14
  <2>1. CASE i = 0
    <3>1. p.code[i + 1].op = "SETTBL" /\ p.code[i + 1].data = 0
      BY <1>2, <1>8, <2>1 DEF I
    <3>2. [k0 EXCEPT !.current = {0}] = k0
      BY <1>11 DEF Knowledge, Knows
    <3>3. Leads(know, i + 1, k0)
      BY <1>14, <2>0, <2>1, ImpliesItself DEF Leads
    <3>4. QED
      BY <1>11, <1>13, <1>14, ZeroIsVirtual, <2>1, <3>1, <3>2, <3>3 DEF Legal, Knows
  <2>2. CASE i = 1
    <3>1. p.code[i + 1].op = "LDTBL" /\ p.code[i + 1].data = 0
      BY <1>2, <1>8, <2>2 DEF I
    <3>2. Implies([k0 EXCEPT !.loaded = @ \cup {0}, !.columns = @ \cup {0}], k2)
      BY <1>11, <1>12 DEF Implies, Knows, Knowledge
    <3>3. i + 1 \in DOMAIN know /\ know[i + 1] = k2
      BY <1>14, <2>0, <2>2
    <3>4. Leads(know, i + 1, [k0 EXCEPT !.loaded = @ \cup {0}, !.columns = @ \cup {0}])
      BY <3>2, <3>3 DEF Leads
    <3>5. Stored(p, 0) /\ p.memory[0 + 1] \in Named(s)
      BY <1>1, <1>2, <1>9, <1>10 DEF Stored
    <3>6. know[i] = k0
      BY <1>14, <2>2
    <3>7. QED
      BY <1>11, <1>13, ZeroIsVirtual, <3>1, <3>4, <3>5, <3>6 DEF Legal, Knows
  <2>3. CASE i \in 2 .. n + 1
    <3>1. p.code[i + 1].op = "INSVAL" /\ p.code[i + 1].data = i - 1
      <4>1. PICK j : j = i + 1
        OBVIOUS
      <4>2. j \in 3 .. n + 2 /\ j - 2 = i - 1
        BY <2>0, <2>3, <4>1
      <4>3. p.code[j] = I("INSVAL", j - 2)
        BY <1>2, <1>8, <4>2
      <4>4. QED
        BY <4>1, <4>2, <4>3 DEF I
    <3>2. know[i] = k2 /\ Leads(know, i + 1, k2) /\ Stored(p, i - 1)
      BY <1>2, <1>9, <1>14, <2>0, <2>3, ImpliesItself DEF Leads, Stored
    <3>3. QED
      BY <1>12, <1>13, <3>1, <3>2 DEF Legal, Knows
  <2>4. CASE i = n + 2
    <3>1. p.code[i + 1].op = "INSREC"
      BY <1>2, <1>8, <2>0, <2>4 DEF I
    <3>2. know[i] = k2 /\ Leads(know, i + 1, k2)
      BY <1>14, <2>0, <2>4, ImpliesItself DEF Leads
    <3>3. QED
      BY <1>12, <1>13, <3>1, <3>2 DEF Legal, Knows
  <2>5. CASE i = n + 3
    <3>1. p.code[i + 1].op = "HALT"
      BY <1>2, <1>7, <2>0, <2>5 DEF I
    <3>2. know[i] = k2
      BY <1>14, <2>0, <2>5
    <3>3. QED
      BY <1>12, <1>13, <3>1, <3>2 DEF Legal, Knows
  <2>6. QED
    BY <2>0, <2>1, <2>2, <2>3, <2>4, <2>5
<1>19. Verified(p, Named(s), know)
  BY <1>14, <1>15, <1>16, <1>18 DEF Verified
<1>20. QED
  BY <1>19 DEF p

(* and that of DESCRIBE. *)
LEMMA DescribeVerified ==
  ASSUME NEW s \in Statements, s.kind = "describe"
  PROVE  \E know : Verified(Compiled(s), Named(s), know)
<1> DEFINE three == <<I("SETTBL", 0), I("LDTBL", 0), I("DSCTBL", 0)>>
           all == Append(three, I("HALT", 1))
           words == <<s.table>>
           p == Compiled(s)
<1>1. p.code = all /\ p.memory = words
  BY DEF Compiled, Describe
<1>2. /\ IsList(three) /\ Len(three) = 3 /\ three[1] = I("SETTBL", 0)
      /\ three[2] = I("LDTBL", 0) /\ three[3] = I("DSCTBL", 0)
  <2>1. three = [i \in 1 .. 3 |-> three[i]] /\ 3 \in Nat
    OBVIOUS
  <2>2. three[1] = I("SETTBL", 0) /\ three[2] = I("LDTBL", 0) /\ three[3] = I("DSCTBL", 0)
    OBVIOUS
  <2> HIDE DEF three
  <2>3. QED
    BY <2>1, <2>2, FunctionIsList
<1> HIDE DEF three
<1>3. /\ IsList(all) /\ Len(all) = 4 /\ all # <<>>
      /\ all[1] = I("SETTBL", 0) /\ all[2] = I("LDTBL", 0)
      /\ all[3] = I("DSCTBL", 0) /\ all[4] = I("HALT", 1)
  <2>1. /\ IsList(all) /\ Len(all) = 4 /\ all # <<>>
        /\ \A i \in 1 .. 3 : all[i] = three[i]
        /\ all[4] = I("HALT", 1)
    <3>1. /\ IsList(all) /\ Len(all) = Len(three) + 1 /\ all # <<>>
          /\ \A i \in 1 .. Len(three) : all[i] = three[i]
          /\ all[Len(three) + 1] = I("HALT", 1)
      <4>1. IsList(three)
        BY <1>2
      <4>2. QED
        BY <4>1, ListMore
    <3>2. QED
      BY <1>2, <3>1
  <2>2. 1 \in 1 .. 3 /\ 2 \in 1 .. 3 /\ 3 \in 1 .. 3
    OBVIOUS
  <2>3. QED
    BY <1>2, <2>1, <2>2
<1> HIDE DEF all
<1>4. IsList(words) /\ Len(words) = 1 /\ words[1] = s.table
  BY OneIsList
<1>5. Named(s) = {s.table}
  BY DEF Named
<1> HIDE DEF words, p
<1>6. PICK k0 : Knows(k0, <<>>, {0}, {}, {}, {}, TRUE, NoTable)
  BY KnowableAlone
<1>7. PICK k2 : Knows(k2, <<>>, {0}, {0}, {0}, {}, TRUE, NoTable)
  BY KnowableAlone
<1>8. PICK k3 : Knows(k3, <<>>, {0}, {0}, {0}, {}, FALSE, NoTable)
  BY KnowableAlone
<1>9. /\ k0 \in Knowledge /\ k0.stack = <<>> /\ Len(k0.stack) <= 2 /\ Known(k0, 0)
      /\ k2 \in Knowledge /\ k2.stack = <<>> /\ Len(k2.stack) <= 2 /\ Known(k2, 0)
      /\ k3 \in Knowledge /\ k3.stack = <<>> /\ Len(k3.stack) <= 2
  BY <1>6, <1>7, <1>8, ZeroIsVirtual DEF Knows, Known
<1> DEFINE know == [i \in 0 .. 3 |-> IF i < 2 THEN k0 ELSE IF i = 2 THEN k2 ELSE k3]
<1>10. /\ know \in [0 .. Len(p.code) - 1 -> Knowledge] /\ DOMAIN know = 0 .. 3
       /\ know[0] = k0 /\ know[1] = k0 /\ know[2] = k2 /\ know[3] = k3
  BY <1>1, <1>3, <1>9
<1> HIDE DEF know
<1>11. IsCode(p)
  <2>1. \A i \in DOMAIN all : i \in 1 .. 4
    BY <1>3, ListFacts
  <2>2. \A i \in DOMAIN all : all[i] = I(all[i].op, all[i].data)
    BY <1>3, <2>1 DEF I
  <2>3. QED
    BY <1>1, <1>3, <1>4, <2>2 DEF IsCode
<1>12. Implies(AtStart, know[0])
  BY <1>6, <1>10 DEF Implies, AtStart, Knows
<1>13. ASSUME NEW i \in DOMAIN know
       PROVE  Legal(p, Named(s), know, i)
  <2>1. CASE i = 0
    <3>1. p.code[i + 1].op = "SETTBL" /\ p.code[i + 1].data = 0
      BY <1>1, <1>3, <2>1 DEF I
    <3>2. [k0 EXCEPT !.current = {0}] = k0
      BY <1>6 DEF Knowledge, Knows
    <3>3. Leads(know, i + 1, k0)
      BY <1>10, <2>1, ImpliesItself DEF Leads
    <3>4. QED
      BY <1>6, <1>9, <1>10, ZeroIsVirtual, <2>1, <3>1, <3>2, <3>3 DEF Legal, Knows
  <2>2. CASE i = 1
    <3>1. p.code[i + 1].op = "LDTBL" /\ p.code[i + 1].data = 0
      BY <1>1, <1>3, <2>2 DEF I
    <3>2. Implies([k0 EXCEPT !.loaded = @ \cup {0}, !.columns = @ \cup {0}], k2)
      BY <1>6, <1>7 DEF Implies, Knows, Knowledge
    <3>3. Leads(know, i + 1, [k0 EXCEPT !.loaded = @ \cup {0}, !.columns = @ \cup {0}])
      BY <1>10, <2>2, <3>2 DEF Leads
    <3>4. Stored(p, 0) /\ p.memory[0 + 1] \in Named(s)
      BY <1>1, <1>4, <1>5 DEF Stored
    <3>5. know[i] = k0
      BY <1>10, <2>2
    <3>6. QED
      BY <1>6, <1>9, ZeroIsVirtual, <3>1, <3>3, <3>4, <3>5 DEF Legal, Knows
  <2>3. CASE i = 2
    <3>1. p.code[i + 1].op = "DSCTBL"
      BY <1>1, <1>3, <2>3 DEF I
    <3>2. Implies([k2 EXCEPT !.fresh = FALSE, !.open = {}], k3)
      BY <1>7, <1>8 DEF Implies, Knows, Knowledge
    <3>3. Leads(know, i + 1, [k2 EXCEPT !.fresh = FALSE, !.open = {}])
      BY <1>10, <2>3, <3>2 DEF Leads
    <3>4. know[i] = k2
      BY <1>10, <2>3
    <3>5. QED
      BY <1>7, <1>9, <3>1, <3>3, <3>4 DEF Legal, Knows
  <2>4. CASE i = 3
    <3>1. p.code[i + 1].op = "HALT"
      BY <1>1, <1>3, <2>4 DEF I
    <3>2. know[i] = k3
      BY <1>10, <2>4
    <3>3. QED
      BY <1>8, <1>9, <3>1, <3>2 DEF Legal, Knows
  <2>5. QED
    BY <1>10, <2>1, <2>2, <2>3, <2>4
<1>14. Verified(p, Named(s), know)
  BY <1>10, <1>11, <1>12, <1>13 DEF Verified
<1>15. QED
  BY <1>14 DEF p

-----------------------------------------------------------------------------
(* The code so far passes the rules; of its end and of some places that will
   follow, those of `later', it is already known what holds there. *)
Passes(p, names, know, later) ==
  /\ IsList(p.code) /\ IsList(p.memory)
  /\ \A i \in DOMAIN p.code : p.code[i] = I(p.code[i].op, p.code[i].data)
  /\ know \in [0 .. Len(p.code) \cup DOMAIN later -> Knowledge]
  /\ \A n \in DOMAIN later : know[n] = later[n]
  /\ Implies(AtStart, know[0])
  /\ \A n \in 0 .. Len(p.code) - 1 : Legal(p, names, know, n)

(* What is known at the end. *)
Reaches(p, names, know, later, a) ==
  Passes(p, names, know, later) /\ know[Len(p.code)] = a

(* More is known, of more places. *)
More(know, wider) == \A n \in DOMAIN know : n \in DOMAIN wider /\ wider[n] = know[n]

(* Words were added to the memory. *)
Remembers(p, q) ==
  /\ IsList(q.memory) /\ Len(p.memory) <= Len(q.memory)
  /\ \A i \in 1 .. Len(p.memory) : q.memory[i] = p.memory[i]

(* A longer memory has the same words. *)
LEMMA StoredStays ==
  ASSUME NEW p, NEW q, IsList(p.memory), Remembers(p, q), NEW x, Stored(p, x)
  PROVE  Stored(q, x) /\ q.memory[x + 1] = p.memory[x + 1]
<1>1. Len(p.memory) \in Nat /\ Len(q.memory) \in Nat
  BY ListFacts DEF Remembers
<1>2. x \in 0 .. Len(p.memory) - 1
  BY DEF Stored
<1>3. x + 1 \in 1 .. Len(p.memory)
  BY <1>1, <1>2
<1>4. QED
  BY <1>1, <1>2, <1>3 DEF Stored, Remembers

(* An instruction stays legal when code and memory grow. *)
LEMMA LegalStays ==
  ASSUME NEW p, NEW q, NEW names, NEW know, NEW wider, NEW n,
         IsList(p.memory), Remembers(p, q), More(know, wider), n \in DOMAIN know,
         q.code[n + 1] = p.code[n + 1], Legal(p, names, know, n)
  PROVE  Legal(q, names, wider, n)
<1>1. \A x : Stored(p, x) => Stored(q, x) /\ q.memory[x + 1] = p.memory[x + 1]
  BY StoredStays
<1>2. \A x, b : Leads(know, x, b) => Leads(wider, x, b)
  BY DEF Leads, More
<1>3. wider[n] = know[n]
  BY DEF More
<1>4. \A a : NewColumn(p, a) => NewColumn(q, a)
  BY <1>1 DEF NewColumn, Stored
<1>5. \A x : Operands(p, x) => Operands(q, x)
  BY <1>1 DEF Operands
<1> DEFINE op == p.code[n + 1].op
<1>7. CASE op = "PUSH"
  BY <1>1, <1>2, <1>3, <1>4, <1>5, <1>7 DEF Legal
<1>8. CASE op = "SETTBL"
  BY <1>1, <1>2, <1>3, <1>4, <1>5, <1>8 DEF Legal
<1>9. CASE op = "NEWCOL"
  BY <1>1, <1>2, <1>3, <1>4, <1>5, <1>9 DEF Legal
<1>10. CASE op = "CRTTBL"
  BY <1>1, <1>2, <1>3, <1>4, <1>5, <1>10 DEF Legal
<1>11. CASE op = "LDTBL"
  <2> DEFINE a == know[n]
             d == p.code[n + 1].data
  <2>1. /\ Len(a.stack) <= 2 /\ a.more = NoTable
        /\ Stored(p, d) /\ p.memory[d + 1] \in names /\ a.fresh
        /\ \E t \in Virtual : Known(a, t)
               /\ Leads(know, n + 1, [a EXCEPT !.loaded = @ \cup {t}, !.columns = @ \cup {t}])
    BY <1>11 DEF Legal
  <2>2. /\ Stored(q, d) /\ q.memory[d + 1] \in names
        /\ \E t \in Virtual : Known(a, t)
               /\ Leads(wider, n + 1, [a EXCEPT !.loaded = @ \cup {t}, !.columns = @ \cup {t}])
    BY <1>1, <1>2, <2>1
  <2>3. q.code[n + 1].op = "LDTBL" /\ q.code[n + 1].data = d /\ wider[n] = a
    BY <1>3, <1>11
  <2> HIDE DEF a, d
  <2>4. QED
    BY <2>1, <2>2, <2>3 DEF Legal
<1>12. CASE op = "DSCTBL"
  BY <1>1, <1>2, <1>3, <1>4, <1>5, <1>12 DEF Legal
<1>13. CASE op = "RSTTBL"
  BY <1>1, <1>2, <1>3, <1>4, <1>5, <1>13 DEF Legal
<1>14. CASE op = "CPYCOL"
  BY <1>1, <1>2, <1>3, <1>4, <1>5, <1>14 DEF Legal
<1>15. CASE op = "CMP"
  BY <1>1, <1>2, <1>3, <1>4, <1>5, <1>15 DEF Legal
<1>16. CASE op = "BOOL"
  BY <1>1, <1>2, <1>3, <1>4, <1>5, <1>16 DEF Legal
<1>17. CASE op = "INSVAL"
  BY <1>1, <1>2, <1>3, <1>4, <1>5, <1>17 DEF Legal
<1>18. CASE op = "INSREC"
  BY <1>1, <1>2, <1>3, <1>4, <1>5, <1>18 DEF Legal
<1>19. CASE op = "NXTREC"
  BY <1>1, <1>2, <1>3, <1>4, <1>5, <1>19 DEF Legal
<1>20. CASE op = "CPYREC"
  BY <1>1, <1>2, <1>3, <1>4, <1>5, <1>20 DEF Legal
<1>21. CASE op = "CPYVAL"
  BY <1>1, <1>2, <1>3, <1>4, <1>5, <1>21 DEF Legal
<1>22. CASE op = "NEWREC"
  BY <1>1, <1>2, <1>3, <1>4, <1>5, <1>22 DEF Legal
<1>23. CASE op = "JMP"
  BY <1>1, <1>2, <1>3, <1>4, <1>5, <1>23 DEF Legal
<1>24. CASE op = "JMPF"
  BY <1>1, <1>2, <1>3, <1>4, <1>5, <1>24 DEF Legal
<1>25. CASE op = "HALT"
  BY <1>1, <1>2, <1>3, <1>4, <1>5, <1>25 DEF Legal
<1>40. QED
  BY <1>7, <1>8, <1>9, <1>10, <1>11, <1>12, <1>13, <1>14, <1>15, <1>16, <1>17, <1>18, <1>19, <1>20, <1>21, <1>22, <1>23, <1>24, <1>25,
     Zenon DEF Legal

(* One more instruction, that is legal and after which b is known. *)
LEMMA Adds ==
  ASSUME NEW p, NEW q, NEW names, NEW know, NEW later, NEW a, NEW b \in Knowledge, NEW e,
         Reaches(p, names, know, later, a), Remembers(p, q),
         q.code = Append(p.code, e), e = I(e.op, e.data),
         Len(p.code) + 1 \in DOMAIN later => b = later[Len(p.code) + 1],
         \A wider : More(know, wider) /\ Len(p.code) + 1 \in DOMAIN wider
                      /\ wider[Len(p.code) + 1] = b
                    => Legal(q, names, wider, Len(p.code))
  PROVE  \E wider : Reaches(q, names, wider, later, b) /\ More(know, wider)
<1> DEFINE n == Len(p.code)
           wider == [k \in 0 .. n + 1 \cup DOMAIN later |->
                       IF k \in DOMAIN know THEN know[k] ELSE b]
<1>1. /\ IsList(p.code) /\ IsList(p.memory)
      /\ \A i \in DOMAIN p.code : p.code[i] = I(p.code[i].op, p.code[i].data)
      /\ know \in [0 .. n \cup DOMAIN later -> Knowledge]
      /\ \A k \in DOMAIN later : know[k] = later[k]
      /\ Implies(AtStart, know[0])
      /\ \A k \in 0 .. n - 1 : Legal(p, names, know, k)
      /\ know[n] = a
  BY DEF Reaches, Passes
<1>2. n \in Nat /\ DOMAIN p.code = 1 .. n
  BY <1>1, ListFacts
<1>3. /\ IsList(q.code) /\ Len(q.code) = n + 1 /\ q.code[n + 1] = e
      /\ \A i \in 1 .. n : q.code[i] = p.code[i]
  BY <1>1, ListMore
<1>4. DOMAIN q.code = 1 .. n + 1
  BY <1>3, ListFacts
<1> HIDE DEF n
<1>5. /\ DOMAIN wider = 0 .. n + 1 \cup DOMAIN later
      /\ wider \in [0 .. n + 1 \cup DOMAIN later -> Knowledge]
  BY <1>1, <1>2
<1>6. \A k \in DOMAIN know : k \in DOMAIN wider /\ wider[k] = know[k]
  BY <1>1, <1>2
<1>7. wider[n + 1] = b
  <2>1. CASE n + 1 \in DOMAIN later
    BY <1>1, <1>2, <2>1 DEF n
  <2>2. CASE n + 1 \notin DOMAIN later
    BY <1>1, <1>2, <2>2
  <2>3. QED
    BY <2>1, <2>2
<1> HIDE DEF wider
<1>8. More(know, wider)
  BY <1>6 DEF More
<1>9. ASSUME NEW k \in 0 .. n
      PROVE  Legal(q, names, wider, k)
  <2>1. CASE k = n
    <3>1. n + 1 \in DOMAIN wider
      BY <1>2, <1>5
    <3>2. QED
      BY <1>7, <1>8, <2>1, <3>1 DEF n
  <2>2. CASE k \in 0 .. n - 1
    <3>1. k + 1 \in 1 .. n /\ k \in DOMAIN know
      BY <1>1, <1>2, <2>2
    <3>2. q.code[k + 1] = p.code[k + 1] /\ Legal(p, names, know, k)
      BY <1>1, <1>3, <2>2, <3>1
    <3>3. QED
      BY <1>1, <1>8, <3>1, <3>2, LegalStays
  <2>3. QED
    BY <1>2, <2>1, <2>2
<1>10. \A k \in DOMAIN later : wider[k] = later[k]
  BY <1>1, <1>6
<1>11. wider[0] = know[0]
  BY <1>1, <1>2, <1>6
<1>12. \A i \in DOMAIN q.code : q.code[i] = I(q.code[i].op, q.code[i].data)
  BY <1>1, <1>2, <1>3, <1>4
<1>13. Passes(q, names, wider, later)
  <2>1. Len(q.code) - 1 = n
    BY <1>2, <1>3
  <2>2. QED
    BY <1>1, <1>3, <1>5, <1>9, <1>10, <1>11, <1>12, <2>1 DEF Passes, Remembers
<1>14. Reaches(q, names, wider, later, b)
  BY <1>3, <1>7, <1>13 DEF Reaches
<1>15. QED
  BY <1>8, <1>14

(* q is p and the instruction e, before which a is known and after which b. *)
Adding(p, q, names, know, later, a, e, b) ==
  /\ Reaches(p, names, know, later, a) /\ Remembers(p, q)
  /\ q.code = Append(p.code, e) /\ e = I(e.op, e.data)
  /\ b \in Knowledge
  /\ Len(p.code) + 1 \in DOMAIN later => b = later[Len(p.code) + 1]
  /\ Len(a.stack) <= 2

(* A program with an instruction more reaches b. *)
Added(q, names, know, later, b) ==
  \E wider : Reaches(q, names, wider, later, b) /\ More(know, wider)

(* The instruction added is legal, so the longer program is. *)
LEMMA AddsLegal ==
  ASSUME NEW p, NEW q, NEW names, NEW know, NEW later, NEW a, NEW b, NEW e,
         Adding(p, q, names, know, later, a, e, b),
         \A wider : /\ More(know, wider) /\ Len(p.code) + 1 \in DOMAIN wider
                    /\ wider[Len(p.code) + 1] = b /\ wider[Len(p.code)] = a
                    /\ q.code[Len(p.code) + 1] = e
                    => Legal(q, names, wider, Len(p.code))
  PROVE  Added(q, names, know, later, b)
<1>1. /\ IsList(p.code) /\ know[Len(p.code)] = a
      /\ DOMAIN know = 0 .. Len(p.code) \cup DOMAIN later
  BY DEF Adding, Reaches, Passes
<1>2. Len(p.code) \in DOMAIN know
  BY <1>1, ListFacts
<1>3. q.code[Len(p.code) + 1] = e
  BY <1>1, ListMore DEF Adding
<1>4. \A wider : More(know, wider) => wider[Len(p.code)] = a
  BY <1>1, <1>2 DEF More
<1>5. QED
  BY <1>3, <1>4, Adds DEF Adding, Added

-----------------------------------------------------------------------------
(* One lemma for each instruction the compiler adds: PUSH, *)
LEMMA AddPUSH ==
  ASSUME NEW p, NEW q, NEW names, NEW know, NEW later, NEW a, NEW b, NEW d,
         Adding(p, q, names, know, later, a, I("PUSH", d), b),
         a.more = NoTable,
         Len(a.stack) < 2,
         d \in Nat,
         Implies(Pushed(a, {d}), b)
  PROVE  Added(q, names, know, later, b)
<1> DEFINE n == Len(p.code)
<1>1. ASSUME NEW wider, More(know, wider), n + 1 \in DOMAIN wider, wider[n + 1] = b,
             wider[n] = a, q.code[n + 1] = I("PUSH", d)
      PROVE  Legal(q, names, wider, n)
  <2>1. q.code[n + 1].op = "PUSH" /\ q.code[n + 1].data = d
    BY <1>1 DEF I
  <2>2. Leads(wider, n + 1, Pushed(a, {d}))
    BY <1>1 DEF Leads
  <2>3. Len(a.stack) <= 2
    BY DEF Adding
  <2> HIDE DEF n
  <2>4. QED
    BY <1>1, <2>1, <2>2, <2>3 DEF Legal
<1>2. QED
  BY <1>1, AddsLegal, SMTT(30)

(* SETTBL, *)
LEMMA AddSETTBL ==
  ASSUME NEW p, NEW q, NEW names, NEW know, NEW later, NEW a, NEW b, NEW d,
         Adding(p, q, names, know, later, a, I("SETTBL", d), b),
         a.more = NoTable,
         d \in Virtual,
         Implies([a EXCEPT !.current = {d}], b)
  PROVE  Added(q, names, know, later, b)
<1> DEFINE n == Len(p.code)
<1>1. ASSUME NEW wider, More(know, wider), n + 1 \in DOMAIN wider, wider[n + 1] = b,
             wider[n] = a, q.code[n + 1] = I("SETTBL", d)
      PROVE  Legal(q, names, wider, n)
  <2>1. q.code[n + 1].op = "SETTBL" /\ q.code[n + 1].data = d
    BY <1>1 DEF I
  <2>2. Leads(wider, n + 1, [a EXCEPT !.current = {d}])
    BY <1>1 DEF Leads
  <2>3. Len(a.stack) <= 2
    BY DEF Adding
  <2> HIDE DEF n
  <2>4. QED
    BY <1>1, <2>1, <2>2, <2>3 DEF Legal
<1>2. QED
  BY <1>1, AddsLegal, SMTT(30)

(* NEWCOL, *)
LEMMA AddNEWCOL ==
  ASSUME NEW p, NEW q, NEW names, NEW know, NEW later, NEW a, NEW b, NEW d,
         Adding(p, q, names, know, later, a, I("NEWCOL", d), b),
         a.more = NoTable,
         Stored(q, d),
         a.stack # <<>>,
         NewColumn(q, a),
         NEW t \in Virtual, Known(a, t),
         Implies([a EXCEPT !.stack = <<>>, !.columns = @ \cup {t}], b)
  PROVE  Added(q, names, know, later, b)
<1> DEFINE n == Len(p.code)
<1>1. ASSUME NEW wider, More(know, wider), n + 1 \in DOMAIN wider, wider[n + 1] = b,
             wider[n] = a, q.code[n + 1] = I("NEWCOL", d)
      PROVE  Legal(q, names, wider, n)
  <2>1. q.code[n + 1].op = "NEWCOL" /\ q.code[n + 1].data = d
    BY <1>1 DEF I
  <2>2. Leads(wider, n + 1, [a EXCEPT !.stack = <<>>, !.columns = @ \cup {t}])
    BY <1>1 DEF Leads
  <2>3. Len(a.stack) <= 2
    BY DEF Adding
  <2> HIDE DEF n
  <2>4. QED
    BY <1>1, <2>1, <2>2, <2>3 DEF Legal
<1>2. QED
  BY <1>1, AddsLegal

(* CRTTBL, *)
LEMMA AddCRTTBL ==
  ASSUME NEW p, NEW q, NEW names, NEW know, NEW later, NEW a, NEW b, NEW d,
         Adding(p, q, names, know, later, a, I("CRTTBL", d), b),
         a.more = NoTable,
         Stored(q, d),
         q.memory[d + 1] \in Nat,
         a.fresh,
         NEW t \in a.columns, Known(a, t),
         Implies(a, b)
  PROVE  Added(q, names, know, later, b)
<1> DEFINE n == Len(p.code)
<1>1. ASSUME NEW wider, More(know, wider), n + 1 \in DOMAIN wider, wider[n + 1] = b,
             wider[n] = a, q.code[n + 1] = I("CRTTBL", d)
      PROVE  Legal(q, names, wider, n)
  <2>1. q.code[n + 1].op = "CRTTBL" /\ q.code[n + 1].data = d
    BY <1>1 DEF I
  <2>2. Leads(wider, n + 1, a)
    BY <1>1 DEF Leads
  <2>3. Len(a.stack) <= 2
    BY DEF Adding
  <2> HIDE DEF n
  <2>4. QED
    BY <1>1, <2>1, <2>2, <2>3 DEF Legal
<1>2. QED
  BY <1>1, AddsLegal

(* LDTBL, *)
LEMMA AddLDTBL ==
  ASSUME NEW p, NEW q, NEW names, NEW know, NEW later, NEW a, NEW b, NEW d,
         Adding(p, q, names, know, later, a, I("LDTBL", d), b),
         a.more = NoTable,
         Stored(q, d),
         q.memory[d + 1] \in names,
         a.fresh,
         NEW t \in Virtual, Known(a, t),
         Implies([a EXCEPT !.loaded = @ \cup {t}, !.columns = @ \cup {t}], b)
  PROVE  Added(q, names, know, later, b)
<1> DEFINE n == Len(p.code)
<1>1. ASSUME NEW wider, More(know, wider), n + 1 \in DOMAIN wider, wider[n + 1] = b,
             wider[n] = a, q.code[n + 1] = I("LDTBL", d)
      PROVE  Legal(q, names, wider, n)
  <2>1. q.code[n + 1].op = "LDTBL" /\ q.code[n + 1].data = d
    BY <1>1 DEF I
  <2>2. Leads(wider, n + 1, [a EXCEPT !.loaded = @ \cup {t}, !.columns = @ \cup {t}])
    BY <1>1 DEF Leads
  <2>3. Len(a.stack) <= 2
    BY DEF Adding
  <2> HIDE DEF n
  <2>4. QED
    BY <1>1, <2>1, <2>2, <2>3 DEF Legal
<1>2. QED
  BY <1>1, AddsLegal

(* RSTTBL, *)
LEMMA AddRSTTBL ==
  ASSUME NEW p, NEW q, NEW names, NEW know, NEW later, NEW a, NEW b, NEW d,
         Adding(p, q, names, know, later, a, I("RSTTBL", d), b),
         a.more = NoTable,
         d \in a.loaded,
         d \notin a.open,
         ~a.fresh,
         Implies([a EXCEPT !.open = @ \cup {d}], b)
  PROVE  Added(q, names, know, later, b)
<1> DEFINE n == Len(p.code)
<1>1. ASSUME NEW wider, More(know, wider), n + 1 \in DOMAIN wider, wider[n + 1] = b,
             wider[n] = a, q.code[n + 1] = I("RSTTBL", d)
      PROVE  Legal(q, names, wider, n)
  <2>1. q.code[n + 1].op = "RSTTBL" /\ q.code[n + 1].data = d
    BY <1>1 DEF I
  <2>2. Leads(wider, n + 1, [a EXCEPT !.open = @ \cup {d}])
    BY <1>1 DEF Leads
  <2>3. Len(a.stack) <= 2
    BY DEF Adding
  <2> HIDE DEF n
  <2>4. QED
    BY <1>1, <2>1, <2>2, <2>3 DEF Legal
<1>2. QED
  BY <1>1, AddsLegal

(* CPYCOL, *)
LEMMA AddCPYCOL ==
  ASSUME NEW p, NEW q, NEW names, NEW know, NEW later, NEW a, NEW b, NEW d,
         Adding(p, q, names, know, later, a, I("CPYCOL", d), b),
         a.more = NoTable,
         Stored(q, d),
         a.fresh,
         Implies(a, b)
  PROVE  Added(q, names, know, later, b)
<1> DEFINE n == Len(p.code)
<1>1. ASSUME NEW wider, More(know, wider), n + 1 \in DOMAIN wider, wider[n + 1] = b,
             wider[n] = a, q.code[n + 1] = I("CPYCOL", d)
      PROVE  Legal(q, names, wider, n)
  <2>1. q.code[n + 1].op = "CPYCOL" /\ q.code[n + 1].data = d
    BY <1>1 DEF I
  <2>2. Leads(wider, n + 1, a)
    BY <1>1 DEF Leads
  <2>3. Len(a.stack) <= 2
    BY DEF Adding
  <2> HIDE DEF n
  <2>4. QED
    BY <1>1, <2>1, <2>2, <2>3 DEF Legal
<1>2. QED
  BY <1>1, AddsLegal

(* CMP, *)
LEMMA AddCMP ==
  ASSUME NEW p, NEW q, NEW names, NEW know, NEW later, NEW a, NEW b, NEW d,
         Adding(p, q, names, know, later, a, I("CMP", d), b),
         a.more = NoTable,
         Stored(q, d),
         Operands(q, q.memory[d + 1]),
         Len(a.stack) < 2,
         Implies(Pushed(a, Bit), b)
  PROVE  Added(q, names, know, later, b)
<1> DEFINE n == Len(p.code)
<1>1. ASSUME NEW wider, More(know, wider), n + 1 \in DOMAIN wider, wider[n + 1] = b,
             wider[n] = a, q.code[n + 1] = I("CMP", d)
      PROVE  Legal(q, names, wider, n)
  <2>1. q.code[n + 1].op = "CMP" /\ q.code[n + 1].data = d
    BY <1>1 DEF I
  <2>2. Leads(wider, n + 1, Pushed(a, Bit))
    BY <1>1 DEF Leads
  <2>3. Len(a.stack) <= 2
    BY DEF Adding
  <2> HIDE DEF n
  <2>4. QED
    BY <1>1, <2>1, <2>2, <2>3 DEF Legal
<1>2. QED
  BY <1>1, AddsLegal

(* BOOL, *)
LEMMA AddBOOL ==
  ASSUME NEW p, NEW q, NEW names, NEW know, NEW later, NEW a, NEW b, NEW d,
         Adding(p, q, names, know, later, a, I("BOOL", d), b),
         a.more = NoTable,
         a.stack = <<Bit, Bit>>,
         Implies([a EXCEPT !.stack = <<Bit>>], b)
  PROVE  Added(q, names, know, later, b)
<1> DEFINE n == Len(p.code)
<1>1. ASSUME NEW wider, More(know, wider), n + 1 \in DOMAIN wider, wider[n + 1] = b,
             wider[n] = a, q.code[n + 1] = I("BOOL", d)
      PROVE  Legal(q, names, wider, n)
  <2>1. q.code[n + 1].op = "BOOL" /\ q.code[n + 1].data = d
    BY <1>1 DEF I
  <2>2. Leads(wider, n + 1, [a EXCEPT !.stack = <<Bit>>])
    BY <1>1 DEF Leads
  <2>3. Len(a.stack) <= 2
    BY DEF Adding
  <2> HIDE DEF n
  <2>4. QED
    BY <1>1, <2>1, <2>2, <2>3 DEF Legal
<1>2. QED
  BY <1>1, AddsLegal

(* NXTREC, *)
LEMMA AddNXTREC ==
  ASSUME NEW p, NEW q, NEW names, NEW know, NEW later, NEW a, NEW b, NEW d,
         Adding(p, q, names, know, later, a, I("NXTREC", d), b),
         a.more = NoTable,
         d \in a.loaded,
         d \in a.open,
         ~a.fresh,
         a.stack = <<>>,
         Implies([Pushed(a, Bit) EXCEPT !.more = d], b)
  PROVE  Added(q, names, know, later, b)
<1> DEFINE n == Len(p.code)
<1>1. ASSUME NEW wider, More(know, wider), n + 1 \in DOMAIN wider, wider[n + 1] = b,
             wider[n] = a, q.code[n + 1] = I("NXTREC", d)
      PROVE  Legal(q, names, wider, n)
  <2>1. q.code[n + 1].op = "NXTREC" /\ q.code[n + 1].data = d
    BY <1>1 DEF I
  <2>2. Leads(wider, n + 1, [Pushed(a, Bit) EXCEPT !.more = d])
    BY <1>1 DEF Leads
  <2>3. Len(a.stack) <= 2
    BY DEF Adding
  <2> HIDE DEF n
  <2>4. QED
    BY <1>1, <2>1, <2>2, <2>3 DEF Legal
<1>2. QED
  BY <1>1, AddsLegal

(* CPYREC, *)
LEMMA AddCPYREC ==
  ASSUME NEW p, NEW q, NEW names, NEW know, NEW later, NEW a, NEW b, NEW d,
         Adding(p, q, names, know, later, a, I("CPYREC", d), b),
         a.more = NoTable,
         d \in a.loaded,
         ~a.fresh,
         Implies(a, b)
  PROVE  Added(q, names, know, later, b)
<1> DEFINE n == Len(p.code)
<1>1. ASSUME NEW wider, More(know, wider), n + 1 \in DOMAIN wider, wider[n + 1] = b,
             wider[n] = a, q.code[n + 1] = I("CPYREC", d)
      PROVE  Legal(q, names, wider, n)
  <2>1. q.code[n + 1].op = "CPYREC" /\ q.code[n + 1].data = d
    BY <1>1 DEF I
  <2>2. Leads(wider, n + 1, a)
    BY <1>1 DEF Leads
  <2>3. Len(a.stack) <= 2
    BY DEF Adding
  <2> HIDE DEF n
  <2>4. QED
    BY <1>1, <2>1, <2>2, <2>3 DEF Legal
<1>2. QED
  BY <1>1, AddsLegal

(* CPYVAL, *)
LEMMA AddCPYVAL ==
  ASSUME NEW p, NEW q, NEW names, NEW know, NEW later, NEW a, NEW b, NEW d,
         Adding(p, q, names, know, later, a, I("CPYVAL", d), b),
         a.more = NoTable,
         Stored(q, d),
         ~a.fresh,
         Implies(a, b)
  PROVE  Added(q, names, know, later, b)
<1> DEFINE n == Len(p.code)
<1>1. ASSUME NEW wider, More(know, wider), n + 1 \in DOMAIN wider, wider[n + 1] = b,
             wider[n] = a, q.code[n + 1] = I("CPYVAL", d)
      PROVE  Legal(q, names, wider, n)
  <2>1. q.code[n + 1].op = "CPYVAL" /\ q.code[n + 1].data = d
    BY <1>1 DEF I
  <2>2. Leads(wider, n + 1, a)
    BY <1>1 DEF Leads
  <2>3. Len(a.stack) <= 2
    BY DEF Adding
  <2> HIDE DEF n
  <2>4. QED
    BY <1>1, <2>1, <2>2, <2>3 DEF Legal
<1>2. QED
  BY <1>1, AddsLegal

(* NEWREC, *)
LEMMA AddNEWREC ==
  ASSUME NEW p, NEW q, NEW names, NEW know, NEW later, NEW a, NEW b, NEW d,
         Adding(p, q, names, know, later, a, I("NEWREC", d), b),
         a.more = NoTable,
         ~a.fresh,
         Implies(a, b)
  PROVE  Added(q, names, know, later, b)
<1> DEFINE n == Len(p.code)
<1>1. ASSUME NEW wider, More(know, wider), n + 1 \in DOMAIN wider, wider[n + 1] = b,
             wider[n] = a, q.code[n + 1] = I("NEWREC", d)
      PROVE  Legal(q, names, wider, n)
  <2>1. q.code[n + 1].op = "NEWREC" /\ q.code[n + 1].data = d
    BY <1>1 DEF I
  <2>2. Leads(wider, n + 1, a)
    BY <1>1 DEF Leads
  <2>3. Len(a.stack) <= 2
    BY DEF Adding
  <2> HIDE DEF n
  <2>4. QED
    BY <1>1, <2>1, <2>2, <2>3 DEF Legal
<1>2. QED
  BY <1>1, AddsLegal

(* JMP back to an address whose knowledge is there, *)
LEMMA AddJMP ==
  ASSUME NEW p, NEW q, NEW names, NEW know, NEW later, NEW a, NEW b, NEW d,
         Adding(p, q, names, know, later, a, I("JMP", d), b),
         a.more = NoTable,
         d \in 0 .. Len(p.code) - 1,
         Leads(know, d, a)
  PROVE  Added(q, names, know, later, b)
<1> DEFINE n == Len(p.code)
<1>1. ASSUME NEW wider, More(know, wider), n + 1 \in DOMAIN wider, wider[n + 1] = b,
             wider[n] = a, q.code[n + 1] = I("JMP", d)
      PROVE  Legal(q, names, wider, n)
  <2>1. q.code[n + 1].op = "JMP" /\ q.code[n + 1].data = d
    BY <1>1 DEF I
  <2>2. Leads(wider, d, a)
    BY <1>1 DEF Leads, More
  <2>3. Len(a.stack) <= 2
    BY DEF Adding
  <2> HIDE DEF n
  <2>4. QED
    BY <1>1, <2>1, <2>2, <2>3 DEF Legal, n
<1>2. QED
  BY <1>1, AddsLegal

(* and JMPF to one that may come later. *)
LEMMA AddJMPF ==
  ASSUME NEW p, NEW q, NEW names, NEW know, NEW later, NEW a, NEW b, NEW d,
         Adding(p, q, names, know, later, a, I("JMPF", d), b),
         d \in Nat,
         a.stack = <<Bit>>,
         ~a.fresh,
         Implies([a EXCEPT !.stack = <<>>, !.more = NoTable], b),
         Leads(know, d, [a EXCEPT !.stack = <<>>, !.more = NoTable,
                                        !.open = @ \ {a.more}])
  PROVE  Added(q, names, know, later, b)
<1> DEFINE n == Len(p.code)
<1>1. ASSUME NEW wider, More(know, wider), n + 1 \in DOMAIN wider, wider[n + 1] = b,
             wider[n] = a, q.code[n + 1] = I("JMPF", d)
      PROVE  Legal(q, names, wider, n)
  <2>1. q.code[n + 1].op = "JMPF" /\ q.code[n + 1].data = d
    BY <1>1 DEF I
  <2>2. /\ Leads(wider, n + 1, [a EXCEPT !.stack = <<>>, !.more = NoTable])
        /\ Leads(wider, d, [a EXCEPT !.stack = <<>>, !.more = NoTable,
                                        !.open = @ \ {a.more}])
    BY <1>1 DEF Leads, More
  <2>3. Len(a.stack) <= 2
    BY DEF Adding
  <2> HIDE DEF n
  <2>4. QED
    BY <1>1, <2>1, <2>2, <2>3 DEF Legal
<1>2. QED
  BY <1>1, AddsLegal


-----------------------------------------------------------------------------
(* Code that ends where nothing is left to do is the code of a statement. *)
LEMMA Finished ==
  ASSUME NEW p, NEW q, NEW names, NEW know, NEW later, NEW a,
         Reaches(p, names, know, later, a), DOMAIN later \subseteq 0 .. Len(p.code),
         a.stack = <<>>, a.open = {}, a.more = NoTable,
         q.memory = p.memory, q.code = Append(p.code, I("HALT", 1))
  PROVE  \E k : Verified(q, names, k)
<1> DEFINE n == Len(p.code)
           e == I("HALT", 1)
<1>1. /\ IsList(p.code) /\ IsList(p.memory)
      /\ \A i \in DOMAIN p.code : p.code[i] = I(p.code[i].op, p.code[i].data)
      /\ know \in [0 .. n \cup DOMAIN later -> Knowledge]
      /\ Implies(AtStart, know[0]) /\ know[n] = a
      /\ \A k \in 0 .. n - 1 : Legal(p, names, know, k)
  BY DEF Reaches, Passes
<1>2. n \in Nat /\ DOMAIN p.code = 1 .. n
  BY <1>1, ListFacts
<1>3. /\ IsList(q.code) /\ q.code # <<>> /\ Len(q.code) = n + 1 /\ q.code[n + 1] = e
      /\ \A i \in 1 .. n : q.code[i] = p.code[i]
  <2>1. q.code = Append(p.code, e) /\ IsList(p.code)
    BY <1>1
  <2> HIDE DEF e
  <2>2. QED
    BY <2>1, ListMore
<1>4. DOMAIN q.code = 1 .. n + 1
  BY <1>3, ListFacts
<1>5. e.op = "HALT" /\ e = I(e.op, e.data)
  BY DEF I
<1>6. DOMAIN know = 0 .. n /\ know \in [0 .. n -> Knowledge]
  BY <1>1
<1> HIDE DEF n, e
<1>7. Remembers(p, q)
  BY <1>1, ListFacts DEF Remembers
<1>8. More(know, know)
  BY DEF More
<1>9. ASSUME NEW k \in 0 .. n
      PROVE  Legal(q, names, know, k)
  <2>1. CASE k = n
    <3>1. q.code[k + 1].op = "HALT" /\ know[k] = a
      BY <1>1, <1>3, <1>5, <2>1
    <3>2. Len(a.stack) <= 2
      OBVIOUS
    <3>3. QED
      BY <3>1, <3>2 DEF Legal
  <2>2. CASE k \in 0 .. n - 1
    <3>1. k + 1 \in 1 .. n /\ k \in DOMAIN know
      BY <1>2, <1>6, <2>2
    <3>2. q.code[k + 1] = p.code[k + 1] /\ Legal(p, names, know, k)
      BY <1>1, <1>3, <2>2, <3>1
    <3>3. QED
      BY <1>1, <1>7, <1>8, <3>1, <3>2, LegalStays
  <2>3. QED
    BY <1>2, <2>1, <2>2
<1>10. IsCode(q)
  BY <1>1, <1>2, <1>3, <1>4, <1>5 DEF IsCode
<1>11. Len(q.code) - 1 = n
  BY <1>2, <1>3
<1>12. Verified(q, names, know)
  BY <1>1, <1>6, <1>9, <1>10, <1>11 DEF Verified
<1>13. QED
  BY <1>12

(* Appending as concatenation: of one, *)
LEMMA OneAfter ==
  ASSUME NEW s, IsList(s), NEW e
  PROVE  s \o <<e>> = Append(s, e)
<1> DEFINE S == ToSet(s) \cup {e}
<1>1. s \in Seq(S) /\ e \in S
  BY DEF IsList
<1> HIDE DEF S
<1>2. QED
  BY <1>1, AppendIsConcat

(* Lists with the same elements are the same. *)
LEMMA SameList ==
  ASSUME NEW s, NEW t, IsList(s), IsList(t), Len(s) = Len(t),
         \A i \in 1 .. Len(s) : s[i] = t[i]
  PROVE  s = t
<1>1. /\ DOMAIN s = 1 .. Len(s) /\ s = [i \in DOMAIN s |-> s[i]]
      /\ DOMAIN t = 1 .. Len(s) /\ t = [i \in DOMAIN t |-> t[i]]
  BY ListFacts, SeqDef DEF IsList
<1>2. QED
  BY <1>1

(* of two. *)
LEMMA TwoAfter ==
  ASSUME NEW s, IsList(s), NEW e, NEW f
  PROVE  s \o <<e, f>> = Append(Append(s, e), f)
<1> DEFINE n == Len(s)
           two == <<e, f>>
           l == s \o two
           m == Append(s, e)
           v == Append(m, f)
<1>1. IsList(two) /\ Len(two) = 2 /\ two[1] = e /\ two[2] = f
  BY TwoIsList
<1>2. n \in Nat
  BY ListFacts
<1> HIDE DEF two
<1>3. /\ IsList(l) /\ Len(l) = n + 2 /\ \A i \in 1 .. n : l[i] = s[i]
      /\ l[n + 1] = e /\ l[n + 2] = f
  <2>1. /\ IsList(l) /\ Len(l) = Len(s) + Len(two) /\ \A i \in 1 .. Len(s) : l[i] = s[i]
        /\ \A i \in 1 .. Len(two) : l[Len(s) + i] = two[i]
    <3>1. IsList(s) /\ IsList(two)
      BY <1>1
    <3>2. QED
      BY <3>1, ListOfTwo
  <2> HIDE DEF l
  <2>2. QED
    BY <1>1, <2>1
<1>4. IsList(m) /\ Len(m) = n + 1 /\ m[n + 1] = e /\ \A i \in 1 .. n : m[i] = s[i]
  BY ListMore
<1> HIDE DEF m, l
<1>5. /\ IsList(v) /\ Len(v) = n + 1 + 1 /\ v[n + 1 + 1] = f
      /\ \A i \in 1 .. n + 1 : v[i] = m[i]
  BY <1>4, ListMore
<1> HIDE DEF v, n
<1>6. n + 1 + 1 = n + 2
  BY <1>2
<1>7. ASSUME NEW i \in 1 .. n + 2
      PROVE  l[i] = v[i]
  <2>1. CASE i = n + 2
    BY <1>3, <1>5, <1>6, <2>1
  <2>2. CASE i = n + 1
    BY <1>2, <1>3, <1>4, <1>5, <2>2
  <2>3. CASE i \in 1 .. n
    BY <1>2, <1>3, <1>4, <1>5, <2>3
  <2>4. QED
    BY <1>2, <2>1, <2>2, <2>3
<1>8. l = v
  BY <1>3, <1>5, <1>6, <1>7, SameList
<1>9. QED
  BY <1>8 DEF l, m, v, two

(* What an attribute adds to the code of a CREATE. *)
LEMMA AttributeParts ==
  ASSUME NEW p, NEW x, IsList(p.code), IsList(p.memory)
  PROVE  LET dp == Len(p.memory)
             q  == Attribute(p, x)
             w  == [type |-> x.type, indexed |-> x.indexed]
         IN  IF Sized(x.type)
             THEN /\ q.memory = Append(Append(Append(p.memory, x.length), w), x.name)
                  /\ q.code = Append(Append(Append(p.code, I("PUSH", dp)), I("PUSH", dp + 1)),
                                     I("NEWCOL", dp + 2))
             ELSE /\ q.memory = Append(Append(p.memory, w), x.name)
                  /\ q.code = Append(Append(p.code, I("PUSH", dp)), I("NEWCOL", dp + 1))
<1> DEFINE dp == Len(p.memory)
           w == [type |-> x.type, indexed |-> x.indexed]
           q == Attribute(p, x)
           n == x.name
<1>0. dp \in Nat
  BY ListFacts
<1>1. CASE Sized(x.type)
  <2> DEFINE m == p.memory \o <<x.length>>
             k == p.code \o <<I("PUSH", dp)>>
  <2>1. m = Append(p.memory, x.length) /\ k = Append(p.code, I("PUSH", dp))
    BY OneAfter
  <2>2. IsList(m) /\ IsList(k)
    <3> DEFINE one == Append(p.memory, x.length)
               two == Append(p.code, I("PUSH", dp))
    <3>1. IsList(one) /\ IsList(two)
      BY ListMore
    <3>2. m = one /\ k = two
      BY <2>1
    <3> HIDE DEF one, two, m, k
    <3>3. QED
      BY <3>1, <3>2
  <2>3. [i \in DOMAIN <<x.length>> |-> I("PUSH", dp)] = <<I("PUSH", dp)>> /\ Len(<<x.length>>) = 1
    OBVIOUS
  <2>4. q.memory = m \o <<w, n>> /\ q.code = k \o <<I("PUSH", dp + 1), I("NEWCOL", dp + 1 + 1)>>
    BY <1>1, <2>3 DEF Attribute
  <2>5. dp + 1 + 1 = dp + 2
    BY <1>0
  <2> HIDE DEF m, k
  <2>6. /\ m \o <<w, n>> = Append(Append(m, w), n)
        /\ k \o <<I("PUSH", dp + 1), I("NEWCOL", dp + 1 + 1)>>
             = Append(Append(k, I("PUSH", dp + 1)), I("NEWCOL", dp + 1 + 1))
    BY <2>2, TwoAfter
  <2>7. QED
    BY <1>1, <2>1, <2>4, <2>5, <2>6
<1>2. CASE ~Sized(x.type)
  <2>1. [i \in DOMAIN <<>> |-> I("PUSH", dp)] = <<>> /\ Len(<<>>) = 0
    OBVIOUS
  <2>2. p.memory \o <<>> = p.memory /\ p.code \o <<>> = p.code
    BY NothingMore
  <2>3. dp + 0 = dp
    BY <1>0
  <2>4. q.memory = p.memory \o <<w, n>> /\ q.code = p.code \o <<I("PUSH", dp), I("NEWCOL", dp + 1)>>
    BY <1>2, <2>1, <2>2, <2>3 DEF Attribute
  <2>6. /\ p.memory \o <<w, n>> = Append(Append(p.memory, w), n)
        /\ p.code \o <<I("PUSH", dp), I("NEWCOL", dp + 1)>>
             = Append(Append(p.code, I("PUSH", dp)), I("NEWCOL", dp + 1))
    BY TwoAfter
  <2>7. QED
    BY <1>2, <2>4, <2>6
<1>3. QED
  BY <1>1, <1>2

(* A word on an empty stack, *)
LEMMA OneOnTop ==
  ASSUME NEW S
  PROVE  LET s == Append(<<>>, S)
         IN  /\ Len(s) = 1 /\ s # <<>> /\ Last(s) = S /\ IsList(s) /\ s = <<S>>
<1> DEFINE s == Append(<<>>, S)
<1>1. IsList(<<>>) /\ Len(<<>>) = 0
  BY DEF IsList
<1>2. IsList(s) /\ Len(s) = 0 + 1 /\ s # <<>> /\ s[0 + 1] = S
  BY <1>1, ListMore
<1>3. s = <<S>>
  OBVIOUS
<1> HIDE DEF s
<1>4. QED
  BY <1>2, <1>3 DEF Last, s

(* and a second. *)
LEMMA TwoOnTop ==
  ASSUME NEW S, NEW T
  PROVE  LET s == Append(Append(<<>>, S), T)
         IN  Len(s) = 2 /\ s # <<>> /\ Last(s) = T
<1> DEFINE one == Append(<<>>, S)
           s == Append(one, T)
<1>1. IsList(one) /\ Len(one) = 1
  BY OneOnTop
<1>2. IsList(s) /\ Len(s) = 1 + 1 /\ s # <<>> /\ s[1 + 1] = T
  <2>1. IsList(one)
    BY <1>1
  <2> HIDE DEF one
  <2>2. /\ IsList(s) /\ Len(s) = Len(one) + 1 /\ s # <<>> /\ s[Len(one) + 1] = T
    BY <2>1, ListMore
  <2>3. QED
    BY <1>1, <2>2
<1> HIDE DEF one
<1> HIDE DEF s
<1>3. QED
  BY <1>2 DEF Last, s, one

(* A program remembers its own memory. *)
LEMMA RemembersItself ==
  ASSUME NEW p, NEW q, IsList(p.memory), q.memory = p.memory
  PROVE  Remembers(p, q)
BY ListFacts DEF Remembers

(* NEWCOL added to the code. *)
LEMMA NewColumnAdds ==
  ASSUME NEW p, NEW q, NEW k, NEW later, DOMAIN later = {}, NEW c, NEW b, NEW f \in {{}, {0}},
         Reaches(p, {}, k, later, c), Knows(c, c.stack, {0}, {}, f, {}, TRUE, NoTable),
         c.stack # <<>>, Len(c.stack) <= 2,
         p.memory = q.memory, NEW d, Stored(q, d),
         q.code = Append(p.code, I("NEWCOL", d)), NewColumn(q, c),
         Knows(b, <<>>, {0}, {}, {0}, {}, TRUE, NoTable)
  PROVE  \E wider : Reaches(q, {}, wider, later, b)
<1>1. Remembers(p, q)
  BY RemembersItself DEF Reaches, Passes
<1>2. I("NEWCOL", d) = I(I("NEWCOL", d).op, I("NEWCOL", d).data)
  BY DEF I
<1>3. Adding(p, q, {}, k, later, c, I("NEWCOL", d), b)
  BY <1>1, <1>2 DEF Adding, Knows
<1>5. Implies([c EXCEPT !.stack = <<>>, !.columns = @ \cup {0}], b)
  BY DEF Implies, Knows, Knowledge
<1>6. Known(c, 0) /\ c.more = NoTable
  BY ZeroIsVirtual DEF Known, Knows
<1>7. Added(q, {}, k, later, b)
  BY <1>3, <1>5, <1>6, ZeroIsVirtual, AddNEWCOL
<1>8. QED
  BY <1>7 DEF Added

(* The instructions for one attribute of a new table. *)
LEMMA AttributeAdds ==
  ASSUME NEW p, NEW know, NEW later, DOMAIN later = {}, NEW a, NEW f \in {{}, {0}}, NEW x,
         Reaches(p, {}, know, later, a), Knows(a, <<>>, {0}, {}, f, {}, TRUE, NoTable)
  PROVE  \E wider, b : /\ Reaches(Attribute(p, x), {}, wider, later, b)
                       /\ Knows(b, <<>>, {0}, {}, {0}, {}, TRUE, NoTable)
                       /\ Remembers(p, Attribute(p, x))
<1> DEFINE dp == Len(p.memory)
           q == Attribute(p, x)
           w == [type |-> x.type, indexed |-> x.indexed]
           n == x.name
           m1 == Append(p.memory, x.length)
           m2 == Append(m1, w)
           k1 == Append(p.code, I("PUSH", dp))
           q1 == [memory |-> q.memory, code |-> k1]
           a1 == Pushed(a, {dp})
<1>1. IsList(p.code) /\ IsList(p.memory)
  BY DEF Reaches, Passes
<1>2. dp \in Nat
  BY <1>1, ListFacts
<1>3. PICK b : Knows(b, <<>>, {0}, {}, {0}, {}, TRUE, NoTable)
  BY KnowableAlone
<1>4. a \in Knowledge /\ a.stack = <<>> /\ Len(a.stack) = 0 /\ a.more = NoTable
  BY DEF Knows
<1>5. /\ a1 \in Knowledge /\ a1.stack = Append(<<>>, {dp}) /\ a1.current = {0}
      /\ a1.loaded = {} /\ a1.columns = f /\ a1.open = {} /\ a1.fresh = TRUE /\ a1.more = NoTable
  BY <1>2, PushedFacts DEF Knows
<1>6. \A k, e : ~(k \in DOMAIN later)
  OBVIOUS
<1>7. \A op, d : I(op, d) = I(I(op, d).op, I(op, d).data)
  BY DEF I
<1> HIDE DEF q1, a1, dp
<1>8. ASSUME Remembers(p, q)
      PROVE  \E k : Reaches(q1, {}, k, later, a1)
  <2>1. Remembers(p, q1) /\ q1.code = Append(p.code, I("PUSH", dp))
    BY <1>8 DEF q1, Remembers
  <2>2. Adding(p, q1, {}, know, later, a, I("PUSH", dp), a1)
    BY <1>4, <1>5, <1>7, <2>1 DEF Adding
  <2>3. Implies(Pushed(a, {dp}), a1)
    BY ImpliesItself DEF a1
  <2>4. Added(q1, {}, know, later, a1)
    BY <1>2, <1>4, <2>2, <2>3, AddPUSH
  <2>5. QED
    BY <2>4 DEF Added
<1>10. /\ IsList(m1) /\ Len(m1) = dp + 1 /\ \A i \in 1 .. dp : m1[i] = p.memory[i]
       /\ IsList(k1)
  BY <1>1, ListMore DEF dp
<1>11. CASE Sized(x.type)
  <2> DEFINE k2 == Append(k1, I("PUSH", dp + 1))
             q2 == [memory |-> q.memory, code |-> k2]
             a2 == Pushed(a1, {dp + 1})
  <2>1. /\ q.memory = Append(m2, n)
        /\ q.code = Append(k2, I("NEWCOL", dp + 2))
    BY <1>1, <1>11, AttributeParts DEF dp
  <2> HIDE DEF m1, k1
  <2>2. /\ IsList(m2) /\ Len(m2) = dp + 1 + 1 /\ m2[dp + 1 + 1] = w
        /\ \A i \in 1 .. dp + 1 : m2[i] = m1[i]
    BY <1>10, ListMore
  <2> HIDE DEF m2, q, k2
  <2>3. /\ IsList(q.memory) /\ Len(q.memory) = dp + 3
        /\ \A i \in 1 .. dp + 2 : q.memory[i] = m2[i]
    <3>1. /\ IsList(q.memory) /\ Len(q.memory) = Len(m2) + 1
          /\ \A i \in 1 .. Len(m2) : q.memory[i] = m2[i]
      BY <2>1, <2>2, ListMore
    <3>2. Len(m2) = dp + 2
      BY <1>2, <2>2
    <3>3. QED
      BY <1>2, <3>1, <3>2
  <2>4. Remembers(p, q)
    <3>1. \A i \in 1 .. dp : q.memory[i] = p.memory[i]
      BY <1>2, <1>10, <2>2, <2>3
    <3>2. QED
      BY <1>2, <2>3, <3>1 DEF Remembers, dp
  <2>5. PICK k : Reaches(q1, {}, k, later, a1)
    BY <1>8, <2>4
  <2>6. Remembers(q1, q2) /\ q2.code = Append(q1.code, I("PUSH", dp + 1))
    BY <2>3, RemembersItself DEF q1, k2
  <2>7. /\ a2 \in Knowledge /\ a2.stack = Append(Append(<<>>, {dp}), {dp + 1}) /\ a2.current = {0}
        /\ a2.loaded = {} /\ a2.columns = f /\ a2.open = {} /\ a2.fresh = TRUE /\ a2.more = NoTable
    <3>1. {dp + 1} \in SUBSET Nat
      BY <1>2
    <3>2. /\ a2 \in Knowledge /\ a2.stack = Append(a1.stack, {dp + 1}) /\ a2.current = a1.current
          /\ a2.loaded = a1.loaded /\ a2.columns = a1.columns /\ a2.open = a1.open
          /\ a2.fresh = a1.fresh /\ a2.more = a1.more
      BY <1>5, <3>1, PushedFacts
    <3>3. QED
      BY <1>5, <3>2
  <2>8. Len(a1.stack) = 1 /\ Len(a2.stack) = 2 /\ a2.stack # <<>> /\ Last(a2.stack) = {dp + 1}
    <3>1. Len(a1.stack) = 1
      BY <1>5, OneOnTop
    <3>2. LET s == Append(Append(<<>>, {dp}), {dp + 1})
          IN  Len(s) = 2 /\ s # <<>> /\ Last(s) = {dp + 1}
      BY TwoOnTop
    <3>3. QED
      BY <2>7, <3>1, <3>2
  <2>9. Adding(q1, q2, {}, k, later, a1, I("PUSH", dp + 1), a2)
    BY <1>7, <2>5, <2>6, <2>7, <2>8 DEF Adding
  <2>10. Implies(Pushed(a1, {dp + 1}), a2)
    BY ImpliesItself
  <2> HIDE DEF a2, q2
  <2>11. Added(q2, {}, k, later, a2)
    <3>1. dp + 1 \in Nat /\ Len(a1.stack) < 2 /\ a1.more = NoTable
      BY <1>2, <1>5, <2>8
    <3>2. QED
      BY <2>9, <2>10, <3>1, AddPUSH
  <2>12. PICK k3 : Reaches(q2, {}, k3, later, a2)
    BY <2>11 DEF Added
  <2>13. q.memory[dp + 1 + 1] = w /\ dp + 1 \in 0 .. Len(q.memory) - 1 /\ dp + 1 + 1 = dp + 2
    BY <1>2, <2>2, <2>3
  <2>14. NewColumn(q, a2)
    BY <1>11, <2>8, <2>13 DEF NewColumn
  <2>15. Stored(q, dp + 1 + 1)
    BY <1>2, <2>3 DEF Stored
  <2>16. q2.memory = q.memory /\ q.code = Append(q2.code, I("NEWCOL", dp + 1 + 1)) /\ dp + 1 \in Nat
    BY <1>2, <2>1, <2>13 DEF q2
  <2>17. \E wider : Reaches(q, {}, wider, later, b)
    <3>1. Knows(a2, a2.stack, {0}, {}, f, {}, TRUE, NoTable)
      BY <2>7 DEF Knows
    <3>2. Len(a2.stack) <= 2
      BY <2>8
    <3>3. Stored(q, dp + 2) /\ q.code = Append(q2.code, I("NEWCOL", dp + 2))
      BY <2>13, <2>15, <2>16
    <3>4. QED
      BY <1>3, <2>8, <2>12, <2>14, <2>16, <3>1, <3>2, <3>3, NewColumnAdds
  <2>18. QED
    BY <1>3, <2>4, <2>17 DEF q
<1>12. CASE ~Sized(x.type)
  <2> DEFINE o == Append(p.memory, w)
  <2>1. q.memory = Append(o, n) /\ q.code = Append(k1, I("NEWCOL", dp + 1))
    BY <1>1, <1>12, AttributeParts DEF dp
  <2>2. /\ IsList(o) /\ Len(o) = dp + 1 /\ o[dp + 1] = w
        /\ \A i \in 1 .. dp : o[i] = p.memory[i]
    BY <1>1, ListMore DEF dp
  <2> HIDE DEF o, k1, q
  <2>3. /\ IsList(q.memory) /\ Len(q.memory) = dp + 2
        /\ \A i \in 1 .. dp + 1 : q.memory[i] = o[i]
    <3>1. /\ IsList(q.memory) /\ Len(q.memory) = Len(o) + 1
          /\ \A i \in 1 .. Len(o) : q.memory[i] = o[i]
      BY <2>1, <2>2, ListMore
    <3>2. QED
      BY <1>2, <2>2, <3>1
  <2>4. Remembers(p, q)
    <3>1. \A i \in 1 .. dp : q.memory[i] = p.memory[i]
      BY <1>2, <2>2, <2>3
    <3>2. QED
      BY <1>2, <2>3, <3>1 DEF Remembers, dp
  <2>5. PICK k : Reaches(q1, {}, k, later, a1)
    BY <1>8, <2>4
  <2>6. Len(a1.stack) = 1 /\ a1.stack # <<>> /\ Last(a1.stack) = {dp}
    BY <1>5, OneOnTop
  <2>7. q.memory[dp + 1] = w /\ dp \in 0 .. Len(q.memory) - 1
    BY <1>2, <2>2, <2>3
  <2>8. NewColumn(q, a1)
    BY <1>12, <2>6, <2>7 DEF NewColumn
  <2>9. Stored(q, dp + 1)
    BY <1>2, <2>3 DEF Stored
  <2>10. q1.memory = q.memory /\ q.code = Append(q1.code, I("NEWCOL", dp + 1))
    BY <2>1 DEF q1
  <2>11. \E wider : Reaches(q, {}, wider, later, b)
    <3>1. Knows(a1, a1.stack, {0}, {}, f, {}, TRUE, NoTable)
      BY <1>5 DEF Knows
    <3>2. Len(a1.stack) <= 2
      BY <2>6
    <3>3. QED
      BY <1>3, <2>5, <2>6, <2>8, <2>9, <2>10, <3>1, <3>2, NewColumnAdds
  <2>12. QED
    BY <1>3, <2>4, <2>11 DEF q
<1>13. QED
  BY <1>11, <1>12

(* Code that has not begun. *)
LEMMA Beginning ==
  ASSUME NEW m, IsList(m), NEW names, NEW a \in Knowledge, Implies(AtStart, a), NEW later,
         \A n \in DOMAIN later : n # 0 /\ later[n] \in Knowledge
  PROVE  \E know : Reaches([code |-> <<>>, memory |-> m], names, know, later, a)
<1> DEFINE know == [n \in {0} \cup DOMAIN later |-> IF n = 0 THEN a ELSE later[n]]
           p == [code |-> <<>>, memory |-> m]
<1>1. IsList(<<>>) /\ Len(<<>>) = 0
  BY DEF IsList
<1>2. 0 .. 0 = {0} /\ 0 .. 0 - 1 = {}
  OBVIOUS
<1>3. know \in [0 .. 0 \cup DOMAIN later -> Knowledge] /\ know[0] = a /\ \A n \in DOMAIN later : know[n] = later[n]
  BY <1>2
<1> HIDE DEF know
<1>4. Passes(p, names, know, later)
  BY <1>1, <1>2, <1>3 DEF Passes
<1>5. Reaches(p, names, know, later, a)
  BY <1>1, <1>3, <1>4 DEF Reaches
<1>6. QED
  BY <1>5

(* Remembering is transitive. *)
LEMMA RemembersLonger ==
  ASSUME NEW p, NEW q, NEW o, IsList(p.memory), Remembers(p, q), Remembers(q, o)
  PROVE  Remembers(p, o)
BY ListFacts DEF Remembers

-----------------------------------------------------------------------------
(* The code of CREATE TABLE is verified. *)
LEMMA CreateVerified ==
  ASSUME NEW s \in Statements, s.kind = "create"
  PROVE  \E know : Verified(Compiled(s), Named(s), know)
<1> DEFINE later == [n \in {} |-> AtStart]
           n == Len(s.attributes)
           base == [memory |-> <<s.table>>, code |-> <<I("SETTBL", 0)>>]
           columns == FoldLeft(Attribute, base, s.attributes)
           done == [columns EXCEPT !.code = Append(@, I("CRTTBL", 0))]
<1>1. IsList(s.attributes) /\ s.attributes # <<>> /\ s.table \in Nat
  BY StatementsAssumption
<1>2. n \in Nat /\ n # 0
  BY <1>1, ListFacts
<1>3. DOMAIN later = {} /\ \A k \in DOMAIN later : k # 0 /\ later[k] \in Knowledge
  OBVIOUS
<1>4. Named(s) = {} /\ Create(s) = done /\ Compiled(s) = [Create(s) EXCEPT !.code = Append(@, I("HALT", 1))]
  BY DEF Compiled, Create, Named
<1> HIDE DEF later
<1>5. PICK g : Accumulates(g, "Attribute", 0, base, s.attributes, n, columns)
  BY <1>1, FoldAttribute, Zenon
<1> HIDE DEF columns, n
<1>6. /\ g[0] = base /\ g[n] = columns
      /\ \A i \in 0 .. n - 1 : g[i + 1] = Attribute(g[i], s.attributes[i + 1])
  BY <1>5 DEF Accumulates, Accumulated
<1> DEFINE Good(i, f) ==
             \E k, a : /\ Reaches(g[i], {}, k, later, a)
                       /\ Knows(a, <<>>, {0}, {}, f, {}, TRUE, NoTable)
           B == {i \in 0 .. n : /\ IF i = 0 THEN Good(i, {}) ELSE Good(i, {0})
                                /\ Remembers(base, g[i])}
<1>7. IsList(base.memory) /\ Len(base.memory) = 1 /\ base.memory[1] = s.table
  BY OneIsList
<1>8. 0 \in B
  <2> DEFINE p == [code |-> <<>>, memory |-> <<s.table>>]
  <2>1. PICK a : Knows(a, <<>>, {0}, {}, {}, {}, TRUE, NoTable)
    BY KnowableAlone
  <2>2. Implies(AtStart, a) /\ a \in Knowledge
    BY <2>1 DEF Implies, AtStart, Knows
  <2>3. PICK k : Reaches(p, {}, k, later, a)
    BY <1>3, <1>7, <2>2, Beginning
  <2>4. base.code = Append(p.code, I("SETTBL", 0)) /\ Remembers(p, base)
    BY <1>7, RemembersItself
  <2>5. I("SETTBL", 0) = I(I("SETTBL", 0).op, I("SETTBL", 0).data)
    BY DEF I
  <2> HIDE DEF p, base
  <2>6. Len(a.stack) <= 2 /\ a.more = NoTable
    BY <2>1 DEF Knows
  <2>7. Adding(p, base, {}, k, later, a, I("SETTBL", 0), a)
    BY <1>3, <2>2, <2>3, <2>4, <2>5, <2>6 DEF Adding
  <2>8. Implies([a EXCEPT !.current = {0}], a)
    BY <2>1 DEF Implies, Knows, Knowledge
  <2>9. Added(base, {}, k, later, a)
    BY <2>6, <2>7, <2>8, ZeroIsVirtual, AddSETTBL
  <2>10. PICK w : Reaches(base, {}, w, later, a)
    BY <2>9 DEF Added
  <2>11. Remembers(base, base)
    BY <1>7, RemembersItself
  <2>12. Good(0, {})
    BY <1>6, <2>1, <2>10
  <2> HIDE DEF Good
  <2>13. QED
    BY <1>2, <1>6, <2>11, <2>12
<1>9. ASSUME NEW i \in 0 .. n - 1, i \in B
      PROVE  i + 1 \in B
  <2>1. PICK f \in {{}, {0}} : Good(i, f)
    BY <1>9
  <2>2. PICK k, a : /\ Reaches(g[i], {}, k, later, a)
                    /\ Knows(a, <<>>, {0}, {}, f, {}, TRUE, NoTable)
    BY <2>1
  <2>3. /\ \E wider, b : /\ Reaches(Attribute(g[i], s.attributes[i + 1]), {}, wider, later, b)
                         /\ Knows(b, <<>>, {0}, {}, {0}, {}, TRUE, NoTable)
        /\ Remembers(g[i], Attribute(g[i], s.attributes[i + 1]))
    BY <1>3, <2>2, AttributeAdds
  <2>4. Good(i + 1, {0}) /\ Remembers(g[i], g[i + 1])
    BY <1>6, <2>3
  <2>5. Remembers(base, g[i + 1])
    <3>1. Remembers(base, g[i])
      BY <1>9
    <3>2. QED
      BY <1>7, <2>4, <3>1, RemembersLonger
  <2>6. i + 1 \in 0 .. n /\ i + 1 # 0
    BY <1>2
  <2> HIDE DEF Good
  <2>7. QED
    BY <2>4, <2>5, <2>6
<1> HIDE DEF B
<1>10. n \in B
  BY <1>2, <1>8, <1>9, SetInduction
<1>11. PICK k, a : /\ Reaches(columns, {}, k, later, a)
                   /\ Knows(a, <<>>, {0}, {}, {0}, {}, TRUE, NoTable)
  BY <1>2, <1>6, <1>10 DEF B
<1>12. Remembers(base, columns)
  BY <1>6, <1>10 DEF B
<1>13. /\ done.memory = columns.memory /\ done.code = Append(columns.code, I("CRTTBL", 0))
       /\ done = [memory |-> done.memory, code |-> done.code]
  <2>1. columns = [memory |-> columns.memory, code |-> columns.code]
    <3>1. n - 1 \in 0 .. n - 1 /\ (n - 1) + 1 = n
      BY <1>2
    <3>2. PICK x, c : columns = Attribute(c, x)
      BY <1>6, <3>1
    <3>3. QED
      BY <3>2 DEF Attribute
  <2>2. QED
    BY <2>1
<1>14. columns.memory[1] = s.table /\ Stored(columns, 0) /\ IsList(columns.memory)
  <2>1. Len(columns.memory) \in Nat /\ 1 <= Len(columns.memory) /\ columns.memory[1] = base.memory[1]
    BY <1>7, <1>12, ListFacts DEF Remembers
  <2>2. QED
    BY <1>7, <1>12, <2>1 DEF Stored, Remembers
<1> HIDE DEF done, base
<1>15. I("CRTTBL", 0) = I(I("CRTTBL", 0).op, I("CRTTBL", 0).data)
  BY DEF I
<1>16. /\ a \in Knowledge /\ Len(a.stack) <= 2 /\ a.more = NoTable /\ a.fresh /\ 0 \in a.columns
       /\ Known(a, 0) /\ a.stack = <<>> /\ a.open = {}
  BY <1>11, ZeroIsVirtual DEF Knows, Known
<1>17. Remembers(columns, done)
  BY <1>13, <1>14, RemembersItself
<1>18. Adding(columns, done, {}, k, later, a, I("CRTTBL", 0), a)
  BY <1>3, <1>11, <1>13, <1>15, <1>16, <1>17 DEF Adding
<1>19. Stored(done, 0) /\ done.memory[0 + 1] \in Nat
  BY <1>1, <1>13, <1>14 DEF Stored
<1>20. Added(done, {}, k, later, a)
  BY <1>16, <1>18, <1>19, ImpliesItself, AddCRTTBL
<1>21. PICK w : Reaches(done, {}, w, later, a)
  BY <1>20 DEF Added
<1>22. /\ Compiled(s).code = Append(done.code, I("HALT", 1))
       /\ Compiled(s).memory = done.memory
  BY <1>4, <1>13
<1>23. \E x : Verified(Compiled(s), {}, x)
  BY <1>3, <1>16, <1>21, <1>22, Finished
<1>24. QED
  BY <1>4, <1>23

=============================================================================

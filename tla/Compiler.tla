------------------------------- MODULE Compiler -------------------------------
(***************************************************************************)
(* The code of an MQL statement: the semantic actions of Parser.cpp        *)
(* (generated from cocomql/MQL.ATG) and MQLSelect.cpp.  Code is a sequence *)
(* of instructions [op, data]; data that the code refers to is stored in   *)
(* the machine's memory, here a sequence whose element n is memory[n - 1]. *)
(* Names of tables are numbers, in the order in which std::map keeps the   *)
(* strings; Default, the least, is the name ".Default".                    *)
(***************************************************************************)
EXTENDS Integers, SequencesExt, FiniteSetsExt

Default == 0
Asterisk == "*"

I(op, data) == [op |-> op, data |-> data]

(* A map with one more entry, or with another in its place. *)
With(map, key, value) ==
  [k \in DOMAIN map \cup {key} |-> IF k = key THEN value ELSE map[k]]

(* What parsing a query has made so far: the memory; a map from tables to
   [tp: index of the virtual table, dp: address of the name, columns: map
   from names to addresses]; the columns of the result; the addresses of the
   conditions; the virtual tables that are joined. *)
Empty == [memory |-> <<>>, tables |-> <<>>, dest |-> <<>>, where |-> <<>>,
          joins |-> {}]

(* Mutant: the data pointer is incremented before it is used. *)
DpIncremented(c) == Len(c.memory) + 1

Dp(c) == Len(c.memory)

Store(c, word) == [c EXCEPT !.memory = Append(@, word)]

First(c) == Min(DOMAIN c.tables)

(* A column without a table belongs to the first table there is. *)
TableOf(c, ref) ==
  IF ref.table # Default THEN ref.table
  ELSE IF c.tables # <<>> THEN First(c) ELSE Default

(* A new table stores its name, unless that is not known yet, and a new column
   of a table its own. *)
MapColumn(c, ref) ==
  LET t     == TableOf(c, ref)
      known == t \in DOMAIN c.tables
      named == IF known \/ t = Default THEN c ELSE Store(c, t)
      info  == IF known THEN c.tables[t]
               ELSE [tp |-> Cardinality(DOMAIN c.tables), dp |-> Dp(c),
                     columns |-> <<>>]
      mapped == [info EXCEPT !.columns = With(@, ref.column, Dp(named))]
  IN  IF known /\ ref.column \in DOMAIN info.columns
        THEN c
        ELSE [Store(named, ref.column)
                EXCEPT !.tables = With(@, t, mapped)]

(* operator[] of the map makes an entry of zero for a name it does not know. *)
Address(c, t, column) ==
  IF column \in DOMAIN c.tables[t].columns THEN c.tables[t].columns[column] ELSE 0

Column(c, ref) ==
  [MapColumn(c, ref)
     EXCEPT !.dest = Append(@, [table |-> TableOf(c, ref), column |-> ref.column])]

(* The name of the table that so far was called ".Default".  Its own entry is
   incremented and then decremented with all others. *)
ResolveDefaultTable(c, name) ==
  IF First(c) # Default THEN c
  ELSE LET stored == Store(c, name)
           own  == [c.tables[Default] EXCEPT !.dp = Dp(c)]
           less == [t \in DOMAIN c.tables \ {Default, name} |->
                      [c.tables[t] EXCEPT !.tp = @ - 1]]
           dest == [i \in DOMAIN c.dest |->
                      [c.dest[i] EXCEPT !.table = IF @ = Default THEN name ELSE @]]
       IN  [stored EXCEPT !.tables = With(less, name, own), !.dest = dest]

(* A condition, its operands first.  Its parameter holds the tables and the
   addresses of both operands and the comparison. *)
Condition(c, cond) ==
  LET left   == MapColumn(c, cond.left)
      tl     == TableOf(c, cond.left)
      direct == cond.right.kind = "value"
      both   == IF direct THEN Store(left, cond.right.value)
                          ELSE MapColumn(left, cond.right.ref)
      tr     == IF direct THEN tl ELSE TableOf(left, cond.right.ref)
      tps    == {both.tables[tl].tp, both.tables[tr].tp}
      param  == [op |-> cond.op, direct |-> direct,
                 tbl_left |-> both.tables[tl].tp,
                 tbl_right |-> IF direct THEN 0 ELSE both.tables[tr].tp,
                 col_left |-> Address(both, tl, cond.left.column),
                 col_right |-> IF direct THEN Dp(left)
                               ELSE Address(both, tr, cond.right.ref.column)]
  IN  [Store(both, param) EXCEPT
         !.where = Append(@, [link |-> cond.link, param |-> Dp(both)]),
         !.joins = IF Cardinality(tps) = 1 THEN @ ELSE @ \cup tps]

Parsed(q) ==
  FoldLeft(Condition,
           ResolveDefaultTable(FoldLeft(Column, Empty, q.columns), q.from[1]),
           q.where)

-----------------------------------------------------------------------------
(* MQLSelect::GenerateBytecode *)
(* The order of the keys of a std::map, and of a std::set. *)
Ascending(S) ==
  CHOOSE s \in [1 .. Cardinality(S) -> S] :
    \A i, j \in DOMAIN s : i < j => s[i] < s[j]

GenLoadTables(c) ==
  LET names == Ascending(DOMAIN c.tables)
  IN  FlattenSeq([i \in DOMAIN names |->
        <<I("SETTBL", c.tables[names[i]].tp), I("LDTBL", c.tables[names[i]].dp)>>])

(* One instruction for each result column, after a change of the current table
   where the column is of another table than the one before it. *)
ForEachColumn(c, op) ==
  LET Tp(i) == c.tables[c.dest[i].table].tp
  IN  FlattenSeq([i \in DOMAIN c.dest |->
        (IF i > 1 /\ Tp(i) = Tp(i - 1) THEN <<>> ELSE <<I("SETTBL", Tp(i))>>)
          \o <<I(op, Address(c, c.dest[i].table, c.dest[i].column))>>])

All(c) == c.dest[1].column = Asterisk

GenDefineResults(c) == ForEachColumn(c, "CPYCOL")

GenCopyResult(c, asterisk) ==
  IF asterisk THEN <<I("CPYREC", c.tables[First(c)].tp)>>
              ELSE <<I("NEWREC", 1)>> \o ForEachColumn(c, "CPYVAL")

(* Mutant: all comparisons first. *)
GenConditionCheckLate(c, fail_address) ==
  IF c.where = <<>> THEN <<>>
  ELSE [i \in DOMAIN c.where |-> I("CMP", c.where[i].param)]
       \o [i \in 1 .. Len(c.where) - 1 |-> I("BOOL", c.where[i + 1].link)]
       \o <<I("JMPF", fail_address)>>

(* The tree of the conditions leans to the left, operands come first. *)
GenConditionCheck(c, fail_address) ==
  IF c.where = <<>> THEN <<>>
  ELSE FlattenSeq([i \in DOMAIN c.where |->
         <<I("CMP", c.where[i].param)>>
           \o (IF i = 1 THEN <<>> ELSE <<I("BOOL", c.where[i].link)>>)])
       \o <<I("JMPF", fail_address)>>

(* Mutants: an inner table is made the current one, not rewound; the table of
   the loop outside is rewound. *)
NotRewound(tp) == I("SETTBL", tp)

RewindOuter(tp) == I("RSTTBL", tp - 1)

Rewind(tp) == I("RSTTBL", tp)

(* Mutant: nothing is left to do after the loops. *)
NoLastRecord(asterisk) == <<>>

(* NEWREC adds the record before it to the result, CPYREC its own. *)
LastRecord(asterisk) == IF asterisk THEN <<>> ELSE <<I("NEWREC", 1)>>

(* One loop for each joined table, or one over the first table.  The head of
   each leaves it for the end of the loop outside it; a failed condition
   starts the innermost one again. *)
GenerateBytecode(c) ==
  LET asterisk == All(c) /\ c.joins = {}
      over     == IF c.joins = {} THEN <<c.tables[First(c)].tp>>
                                  ELSE Ascending(c.joins)
      n        == Len(over)
      before   == GenLoadTables(c) \o GenDefineResults(c)
      loop_start[level \in 1 .. n] == Len(before) + 3 * (level - 1)
      body     == GenConditionCheck(c, loop_start[n]) \o GenCopyResult(c, asterisk)
      bodyEnd  == loop_start[n] + 2 + Len(body)
      loop_end[level \in 1 .. n] == bodyEnd + (n - level) + 1
      heads    == FlattenSeq([level \in 1 .. n |->
                    (IF level = 1 THEN <<>> ELSE <<Rewind(over[level])>>)
                      \o <<I("NXTREC", over[level]), I("JMPF", loop_end[level])>>])
      tails    == [i \in 1 .. n |-> I("JMP", loop_start[n + 1 - i])]
  IN  before \o heads \o body \o tails \o LastRecord(asterisk)

-----------------------------------------------------------------------------
(* The code and the memory of a statement. *)
Select(q) ==
  LET c == Parsed(q)
  IN  [code |-> GenerateBytecode(c), memory |-> c.memory]

Insert(s) ==
  [memory |-> <<s.table>> \o s.values,
   code   |-> <<I("SETTBL", 0), I("LDTBL", 0)>>
                \o [i \in DOMAIN s.values |-> I("INSVAL", i)]
                \o <<I("INSREC", 0)>>]

Describe(s) ==
  [memory |-> <<s.table>>,
   code   |-> <<I("SETTBL", 0), I("LDTBL", 0), I("DSCTBL", 0)>>]

(* Only a STRING has a length; the addresses of the length and of the type are
   pushed for NEWCOL. *)
Sized(type) == type = "STRING"

Attribute(p, a) ==
  LET dp     == Len(p.memory)
      length == IF Sized(a.type) THEN <<a.length>> ELSE <<>>
  IN  [memory |-> p.memory \o length
                    \o <<[type |-> a.type, indexed |-> a.indexed], a.name>>,
       code   |-> p.code \o [i \in DOMAIN length |-> I("PUSH", dp)]
                    \o <<I("PUSH", dp + Len(length)),
                         I("NEWCOL", dp + Len(length) + 1)>>]

Create(s) ==
  LET columns == FoldLeft(Attribute, [memory |-> <<s.table>>,
                                      code |-> <<I("SETTBL", 0)>>], s.attributes)
  IN  [columns EXCEPT !.code = Append(@, I("CRTTBL", 0))]

Compiled(s) ==
  LET p == CASE s.kind = "select"   -> Select(s)
             [] s.kind = "insert"   -> Insert(s)
             [] s.kind = "describe" -> Describe(s)
             [] s.kind = "create"   -> Create(s)
  IN  [p EXCEPT !.code = Append(@, I("HALT", 1))]
=============================================================================

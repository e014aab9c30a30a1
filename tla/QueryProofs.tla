----------------------------- MODULE QueryProofs ----------------------------
(***************************************************************************)
(* The code of every SELECT is verified: what MQLSelect stores while it    *)
(* parses names words of the memory and virtual tables that exist, and the *)
(* loops it generates load each table before they scan it, rewind it       *)
(* before they ask it for records, and leave it only when it has no more.  *)
(*                                                                         *)
(* With that the properties of the machine hold of all statements, and so  *)
(* do those of the result set that reads its answers.                      *)
(***************************************************************************)
EXTENDS ResultSet, MachineProofs

(* s lists the set in ascending order. *)
Sorts(s, T) ==
  /\ s \in [1 .. Cardinality(T) -> T]
  /\ \A i, j \in DOMAIN s : i < j => s[i] < s[j]

(* A finite set can be listed so. *)
LEMMA SortExists ==
  ASSUME NEW S \in SUBSET Nat, IsFiniteSet(S)
  PROVE  \E s : Sorts(s, S)
<1> DEFINE N == Cardinality(S)
           B == {n \in 0 .. N : \A T \in SUBSET S : Cardinality(T) = n => \E s : Sorts(s, T)}
<1>1. N \in Nat
  BY FS_CardinalityType
<1>2. \A T \in SUBSET S : IsFiniteSet(T) /\ Cardinality(T) \in Nat
  BY FS_Subset, FS_CardinalityType
<1>3. 0 \in B
  <2>1. ASSUME NEW T \in SUBSET S, Cardinality(T) = 0
        PROVE  \E s : Sorts(s, T)
    <3>1. [i \in 1 .. 0 |-> 0] \in [1 .. 0 -> T]
      OBVIOUS
    <3>2. \A i, j \in 1 .. 0 : FALSE
      OBVIOUS
    <3>3. Sorts([i \in 1 .. 0 |-> 0], T)
      BY <2>1, <3>1, <3>2 DEF Sorts
    <3>4. QED
      BY <3>3
  <2> HIDE DEF N
  <2>2. QED
    BY <1>1, <2>1
<1>4. ASSUME NEW n \in 0 .. N - 1, n \in B
      PROVE  n + 1 \in B
  <2>0. n \in Nat /\ n + 1 \in 0 .. N
    BY <1>1
  <2>1. ASSUME NEW T \in SUBSET S, Cardinality(T) = n + 1
        PROVE  \E s : Sorts(s, T)
    <3>1. T # {} /\ T \in SUBSET Nat
      BY <2>0, <2>1, FS_EmptySet
    <3>2. PICK m \in T : \A y \in T : m <= y
      BY <3>1, LeastElement
    <3> DEFINE R == T \ {m}
    <3>3. Cardinality(R) = n /\ R \in SUBSET S
      <4>1. IsFiniteSet(T)
        BY <1>2
      <4>2. Cardinality(T \ {m}) = Cardinality(T) - 1
        BY <4>1, FS_RemoveElement
      <4>3. QED
        BY <2>0, <2>1, <4>2
    <3>4. PICK s : Sorts(s, R)
      BY <1>4, <3>3
    <3>5. s \in [1 .. n -> R] /\ \A i, j \in 1 .. n : i < j => s[i] < s[j]
      BY <3>3, <3>4 DEF Sorts
    <3> DEFINE all == [i \in 1 .. n + 1 |-> IF i = 1 THEN m ELSE s[i - 1]]
    <3>6. \A i \in 1 .. n + 1 : i # 1 => i - 1 \in 1 .. n /\ all[i] = s[i - 1] /\ all[i] \in R
      BY <2>0, <3>5
    <3>7. all \in [1 .. n + 1 -> T]
      BY <3>6
    <3>8. ASSUME NEW i \in 1 .. n + 1, NEW j \in 1 .. n + 1, i < j
          PROVE  all[i] < all[j]
      <4>1. j # 1 /\ j - 1 \in 1 .. n /\ all[j] = s[j - 1] /\ all[j] \in R
        BY <2>0, <3>6, <3>8
      <4>2. CASE i = 1
        <5>1. m <= all[j] /\ all[j] # m /\ m \in Nat /\ all[j] \in Nat
          BY <3>1, <3>2, <4>1
        <5>2. all[i] = m
          BY <4>2
        <5>3. QED
          BY <5>1, <5>2
      <4>3. CASE i # 1
        <5>1. i - 1 \in 1 .. n /\ all[i] = s[i - 1] /\ i - 1 < j - 1
          BY <2>0, <3>6, <3>8, <4>3
        <5>2. QED
          BY <3>5, <4>1, <5>1
      <4>4. QED
        BY <4>2, <4>3
    <3> HIDE DEF all
    <3>9. Sorts(all, T)
      BY <2>1, <3>7, <3>8 DEF Sorts
    <3>10. QED
      BY <3>9
  <2> HIDE DEF N
  <2>2. QED
    BY <2>0, <2>1
<1> HIDE DEF B
<1>5. N \in B
  <2> HIDE DEF N
  <2>1. QED
    BY <1>1, <1>3, <1>4, SetInduction
<1>6. QED
  BY <1>5 DEF B

(* The keys of a map, in ascending order: each of them, and each once. *)
LEMMA AscendingFacts ==
  ASSUME NEW S \in SUBSET Nat, IsFiniteSet(S)
  PROVE  /\ Cardinality(S) \in Nat
         /\ DOMAIN Ascending(S) = 1 .. Cardinality(S)
         /\ \A i \in 1 .. Cardinality(S) : Ascending(S)[i] \in S
         /\ \A i, j \in 1 .. Cardinality(S) : Ascending(S)[i] = Ascending(S)[j] => i = j
         /\ \A x \in S : \E i \in 1 .. Cardinality(S) : Ascending(S)[i] = x
         /\ IsList(Ascending(S)) /\ Len(Ascending(S)) = Cardinality(S)
<1> DEFINE n == Cardinality(S)
           s == Ascending(S)
<1>1. n \in Nat
  BY FS_CardinalityType
<1>2. Sorts(s, S)
  BY SortExists, Zenon DEF Ascending, Sorts
<1> HIDE DEF s
<1>3. s \in [1 .. n -> S] /\ \A i, j \in 1 .. n : i < j => s[i] < s[j]
  BY <1>2 DEF Sorts
<1> HIDE DEF n
<1>4. \A i, j \in 1 .. n : s[i] = s[j] => i = j
  <2>1. ASSUME NEW i \in 1 .. n, NEW j \in 1 .. n, s[i] = s[j], i # j
        PROVE  FALSE
    <3>1. s[i] \in Nat /\ s[j] \in Nat
      BY <1>3
    <3>2. i < j \/ j < i
      BY <1>1, <2>1
    <3>3. s[i] < s[j] \/ s[j] < s[i]
      BY <1>3, <3>2
    <3>4. QED
      BY <2>1, <3>1, <3>3
  <2>2. QED
    BY <2>1
<1>5. s \in Injection(1 .. n, S)
  BY <1>3, <1>4 DEF Injection, IsInjective
<1>6. IsFiniteSet(1 .. n) /\ Cardinality(1 .. n) = n
  BY <1>1, FS_Interval
<1>7. s \in Surjection(1 .. n, S)
  BY <1>5, <1>6, FS_Injection DEF n
<1>8. \A x \in S : \E i \in 1 .. n : s[i] = x
  BY <1>7 DEF Surjection
<1>9. IsList(s) /\ Len(s) = n
  <2>1. s = [i \in 1 .. n |-> s[i]]
    BY <1>3
  <2>2. QED
    BY <1>1, <2>1, FunctionIsList
<1>10. DOMAIN s = 1 .. n /\ \A i \in 1 .. n : s[i] \in S
  BY <1>3
<1>11. QED
  BY <1>1, <1>4, <1>8, <1>9, <1>10 DEF n, s

(* The parts of a list of lists, one appended to the other. *)
LEMMA FlattenSteps ==
  ASSUME NEW ss, IsList(ss), \A i \in 1 .. Len(ss) : IsList(ss[i])
  PROVE  \E g : /\ g[0] = <<>> /\ g[Len(ss)] = FlattenSeq(ss)
                /\ \A i \in 0 .. Len(ss) - 1 : g[i + 1] = g[i] \o ss[i + 1]
<1> DEFINE n == Len(ss)
           Makes(f, k) == f = [i \in 1 .. k |-> IF i = 1 THEN ss[i] ELSE f[i - 1] \o ss[i]]
           B == {k \in 0 .. n : \E f : Makes(f, k)}
<1>1. n \in Nat /\ (n = 0 <=> ss = <<>>)
  BY ListFacts
<1>2. 0 \in B
  <2>1. [i \in 1 .. 0 |-> 0] = [i \in 1 .. 0 |-> IF i = 1 THEN ss[i] ELSE [k \in 1 .. 0 |-> 0][i - 1] \o ss[i]]
    OBVIOUS
  <2>2. Makes([i \in 1 .. 0 |-> 0], 0)
    BY <2>1
  <2> HIDE DEF Makes, n
  <2>3. QED
    BY <1>1, <2>2
<1>3. ASSUME NEW k \in 0 .. n - 1, k \in B
      PROVE  k + 1 \in B
  <2>1. PICK f : Makes(f, k)
    BY <1>3
  <2> DEFINE h == [i \in 1 .. k + 1 |-> IF i = k + 1 THEN (IF k = 0 THEN ss[1] ELSE f[k] \o ss[k + 1]) ELSE f[i]]
  <2>2. k \in Nat /\ k + 1 \in 0 .. n
    BY <1>1
  <2>3. ASSUME NEW i \in 1 .. k + 1
        PROVE  h[i] = IF i = 1 THEN ss[i] ELSE h[i - 1] \o ss[i]
    <3>1. CASE i = k + 1 /\ k = 0
      BY <3>1
    <3>2. CASE i = k + 1 /\ k # 0
      <4>1. i - 1 = k /\ k \in 1 .. k + 1 /\ k # k + 1 /\ i # 1
        BY <2>2, <3>2
      <4>2. h[i] = f[k] \o ss[k + 1] /\ h[i - 1] = f[k]
        BY <3>2, <4>1
      <4>3. QED
        BY <3>2, <4>1, <4>2
    <3>3. CASE i # k + 1
      <4>1. i \in 1 .. k
        BY <2>2, <3>3
      <4>2. f[i] = IF i = 1 THEN ss[i] ELSE f[i - 1] \o ss[i]
        BY <2>1, <4>1
      <4>3. h[i] = f[i]
        BY <3>3
      <4>4. i # 1 => i - 1 \in 1 .. k + 1 /\ i - 1 # k + 1
        BY <2>2, <4>1
      <4>5. i # 1 => h[i - 1] = f[i - 1]
        BY <4>4
      <4>6. QED
        BY <4>2, <4>3, <4>5
    <3>4. QED
      BY <3>1, <3>2, <3>3
  <2>4. h = [i \in 1 .. k + 1 |-> h[i]]
    OBVIOUS
  <2> HIDE DEF h
  <2>5. Makes(h, k + 1)
    BY <2>3, <2>4
  <2> HIDE DEF Makes
  <2>6. QED
    BY <2>2, <2>5
<1> HIDE DEF B
<1>4. n \in B
  <2> HIDE DEF n
  <2>1. n \in Nat /\ \A k \in 0 .. n - 1 : k \in B => k + 1 \in B
    BY <1>1, <1>3
  <2>2. 0 .. n \subseteq B
    BY <1>2, <2>1, SetInduction
  <2>3. QED
    BY <2>1, <2>2
<1>5. PICK f : Makes(f, n)
  BY <1>4 DEF B
<1>6. CASE n = 0
  <2>1. FlattenSeq(ss) = <<>>
    BY <1>1, <1>6 DEF FlattenSeq
  <2> DEFINE g == [i \in 0 .. 0 |-> <<>>]
  <2>2. g[0] = <<>> /\ g[n] = FlattenSeq(ss) /\ \A i \in 0 .. n - 1 : g[i + 1] = g[i] \o ss[i + 1]
    BY <1>6, <2>1
  <2> HIDE DEF g
  <2>3. QED
    BY <2>2
<1>7. CASE n # 0
  <2> DEFINE flatten == CHOOSE h : Makes(h, n)
  <2>1. Makes(flatten, n)
    BY <1>5, Zenon
  <2>2. FlattenSeq(ss) = flatten[n]
    BY <1>7 DEF FlattenSeq
  <2> HIDE DEF flatten
  <2> DEFINE g == [i \in 0 .. n |-> IF i = 0 THEN <<>> ELSE flatten[i]]
  <2>3. ASSUME NEW i \in 0 .. n - 1
        PROVE  g[i + 1] = g[i] \o ss[i + 1]
    <3>1. i + 1 \in 1 .. n /\ i \in 0 .. n /\ i + 1 # 0 /\ i + 1 \in 0 .. n
      BY <1>1
    <3>2. flatten[i + 1] = IF i + 1 = 1 THEN ss[i + 1] ELSE flatten[i + 1 - 1] \o ss[i + 1]
      <4>1. \A j \in 1 .. n : flatten[j] = IF j = 1 THEN ss[j] ELSE flatten[j - 1] \o ss[j]
        BY <2>1
      <4>2. QED
        BY <3>1, <4>1
    <3>3. CASE i = 0
      <4>1. g[i] = <<>> /\ g[i + 1] = ss[i + 1]
        BY <3>1, <3>2, <3>3
      <4>2. IsList(ss[i + 1])
        BY <3>1
      <4>3. QED
        BY <4>1, <4>2, NothingMore
    <3>4. CASE i # 0
      <4>1. i + 1 # 1 /\ i + 1 - 1 = i
        BY <3>1, <3>4
      <4>2. g[i] = flatten[i] /\ g[i + 1] = flatten[i + 1]
        BY <3>1, <3>4
      <4>3. QED
        BY <3>2, <4>1, <4>2
    <3>5. QED
      BY <3>3, <3>4
  <2>4. g[0] = <<>> /\ g[n] = FlattenSeq(ss)
    BY <1>1, <1>7, <2>2
  <2> HIDE DEF g
  <2>5. QED
    BY <2>3, <2>4, Zenon
<1>8. QED
  BY <1>6, <1>7

-----------------------------------------------------------------------------
(* The compiler's state has its parts. *)
FiveParts(c) ==
  c = [memory |-> c.memory, tables |-> c.tables, dest |-> c.dest, where |-> c.where,
       joins |-> c.joins]

(* A table of a query: its name, unless the table is one of U, and the names of
   its columns are in the memory. *)
Info(c, names, U, t) ==
  /\ c.tables[t] = [tp |-> c.tables[t].tp, dp |-> c.tables[t].dp,
                    columns |-> c.tables[t].columns]
  /\ c.tables[t].tp \in Virtual /\ Stored(c, c.tables[t].dp)
  /\ t \in U \/ c.memory[c.tables[t].dp + 1] \in names
  /\ \A x \in DOMAIN c.tables[t].columns : Stored(c, c.tables[t].columns[x])

(* The tables it has met are mentioned, each with a virtual table of its
   own and a name or none. *)
TableFacts(c, names, M, U) ==
  /\ FiveParts(c) /\ IsList(c.memory)
  /\ c.tables = [t \in DOMAIN c.tables |-> c.tables[t]] /\ DOMAIN c.tables \subseteq M
  /\ \A t \in DOMAIN c.tables : Info(c, names, U, t)

(* What refers to the tables: the columns of the result, the conditions, the
   tables that are joined. *)
UsedFacts(c) ==
  /\ IsList(c.dest)
  /\ \A i \in DOMAIN c.dest :
       /\ c.dest[i] = [table |-> c.dest[i].table, column |-> c.dest[i].column]
       /\ c.dest[i].table \in DOMAIN c.tables
  /\ IsList(c.where)
  /\ \A i \in DOMAIN c.where :
       Stored(c, c.where[i].param) /\ Operands(c, c.memory[c.where[i].param + 1])
  /\ \A j \in c.joins : \E t \in DOMAIN c.tables : c.tables[t].tp = j

(* A later state of the compiler knows the memory and the tables of an
   earlier one, *)
Grows(c, d) ==
  /\ Remembers(c, d)
  /\ \A t \in DOMAIN c.tables : t \in DOMAIN d.tables /\ d.tables[t].tp = c.tables[t].tp

(* and what was selected is the same. *)
Unused(c, d) == d.dest = c.dest /\ d.where = c.where /\ d.joins = c.joins

(* Facts about columns and conditions outlive a step that adds only words
   and tables, *)
LEMMA UsedStays ==
  ASSUME NEW c, NEW d, IsList(c.memory), UsedFacts(c), Grows(c, d), Unused(c, d)
  PROVE  UsedFacts(d)
<1>1. \A x : Stored(c, x) => Stored(d, x) /\ d.memory[x + 1] = c.memory[x + 1]
  BY StoredStays DEF Grows
<1>2. \A x : Operands(c, x) => Operands(d, x)
  BY <1>1 DEF Operands
<1>3. QED
  BY <1>1, <1>2 DEF UsedFacts, Grows, Unused

(* as storing a word does. *)
LEMMA StoreParts ==
  ASSUME NEW c, FiveParts(c), NEW w
  PROVE  LET d == Store(c, w)
         IN  /\ FiveParts(d) /\ d.memory = Append(c.memory, w) /\ d.tables = c.tables
             /\ Unused(c, d)
BY DEF FiveParts, Store, Unused

(* Another word in the memory. *)
LEMMA StoreFacts ==
  ASSUME NEW c, NEW names, NEW M, NEW U, TableFacts(c, names, M, U), NEW w
  PROVE  LET d == Store(c, w)
         IN  /\ TableFacts(d, names, M, U) /\ Grows(c, d) /\ Unused(c, d)
             /\ d.tables = c.tables
             /\ Dp(c) = Len(c.memory) /\ Dp(c) \in Nat /\ Len(d.memory) = Dp(c) + 1
             /\ Stored(d, Dp(c)) /\ d.memory[Dp(c) + 1] = w
<1> DEFINE d == Store(c, w)
           n == Len(c.memory)
<1>1. /\ FiveParts(d) /\ d.memory = Append(c.memory, w) /\ d.tables = c.tables /\ Unused(c, d)
  BY StoreParts DEF TableFacts
<1>2. IsList(c.memory) /\ n \in Nat
  BY ListFacts DEF TableFacts
<1> HIDE DEF d
<1>3. /\ IsList(d.memory) /\ Len(d.memory) = n + 1 /\ d.memory[n + 1] = w
      /\ \A i \in 1 .. n : d.memory[i] = c.memory[i]
  BY <1>1, <1>2, ListMore
<1>4. Remembers(c, d)
  BY <1>2, <1>3 DEF Remembers
<1>5. \A x : Stored(c, x) => Stored(d, x) /\ d.memory[x + 1] = c.memory[x + 1]
  BY <1>2, <1>4, StoredStays
<1>6. \A t \in DOMAIN c.tables : Info(d, names, U, t)
  BY <1>1, <1>5 DEF TableFacts, Info
<1>7. TableFacts(d, names, M, U)
  BY <1>1, <1>3, <1>6 DEF TableFacts
<1>8. Stored(d, n)
  BY <1>2, <1>3 DEF Stored
<1>9. Grows(c, d)
  BY <1>1, <1>4 DEF Grows
<1>10. QED
  BY <1>1, <1>2, <1>3, <1>7, <1>8, <1>9 DEF d, Dp

(* Growing is transitive *)
LEMMA GrowsMore ==
  ASSUME NEW c, NEW d, NEW e, IsList(c.memory), Grows(c, d), Grows(d, e)
  PROVE  Grows(c, e)
BY RemembersLonger DEF Grows

(* and reflexive. *)
LEMMA GrowsItself ==
  ASSUME NEW c, IsList(c.memory)
  PROVE  Grows(c, c) /\ Unused(c, c)
BY RemembersItself DEF Grows, Unused

(* The least table is one of them. *)
LEMMA FirstIsThere ==
  ASSUME NEW c, DOMAIN c.tables \subseteq Nat, DOMAIN c.tables # {}
  PROVE  First(c) \in DOMAIN c.tables /\ \A t \in DOMAIN c.tables : First(c) <= t
<1>1. \E x \in DOMAIN c.tables : \A y \in DOMAIN c.tables : x <= y
  BY LeastElement
<1>2. QED
  BY <1>1 DEF First, Min

(* d is c with a column of the table t. *)
Mapped(c, d, names, M, U, t) ==
  /\ TableFacts(d, names, M, U) /\ Grows(c, d) /\ Unused(c, d)
  /\ DOMAIN d.tables = DOMAIN c.tables \cup {t}
  /\ t \notin DOMAIN c.tables => d.tables[t].tp = Cardinality(DOMAIN c.tables)
  /\ Stored(d, 0)

(* MapColumn: the column is mapped to a word of the memory, the table to a
   virtual table. *)
LEMMA MapColumnFacts ==
  ASSUME NEW c, NEW names, NEW M \in SUBSET Nat, IsFiniteSet(M), Cardinality(M) <= MaxTables,
         NEW U, TableFacts(c, names, M, U), NEW ref, NEW t, t = TableOf(c, ref), t \in M,
         t \notin DOMAIN c.tables => IF t = Default THEN Default \in U ELSE t \in names
  PROVE  Mapped(c, MapColumn(c, ref), names, M, U, t)
<1> DEFINE known == t \in DOMAIN c.tables
           named == IF known \/ t = Default THEN c ELSE Store(c, t)
           info == IF known THEN c.tables[t]
                   ELSE [tp |-> Cardinality(DOMAIN c.tables), dp |-> Dp(c), columns |-> <<>>]
           mapped == [info EXCEPT !.columns = With(@, ref.column, Dp(named))]
           e == Store(named, ref.column)
           d == [e EXCEPT !.tables = With(@, t, mapped)]
           n == Dp(named)
<1>0. IsList(c.memory) /\ FiveParts(c)
  BY DEF TableFacts
<1>1. CASE known /\ ref.column \in DOMAIN info.columns
  <2>1. MapColumn(c, ref) = c
    BY <1>1 DEF MapColumn
  <2>2. Info(c, names, U, t)
    BY <1>1 DEF TableFacts
  <2>3. Stored(c, 0)
    <3>1. Stored(c, c.tables[t].dp) /\ Len(c.memory) \in Nat
      BY <1>0, <2>2, ListFacts DEF Info
    <3>2. QED
      BY <3>1 DEF Stored
  <2>4. DOMAIN c.tables = DOMAIN c.tables \cup {t}
    BY <1>1
  <2>5. QED
    BY <1>0, <1>1, <2>1, <2>3, <2>4, GrowsItself DEF Mapped
<1>2. CASE ~(known /\ ref.column \in DOMAIN info.columns)
  <2>1. MapColumn(c, ref) = d
    BY <1>2 DEF MapColumn
  <2>2. /\ TableFacts(named, names, M, U) /\ Grows(c, named) /\ Unused(c, named)
        /\ named.tables = c.tables
    BY <1>0, StoreFacts, GrowsItself
  <2>3. ~known /\ t # Default => Stored(named, Dp(c)) /\ named.memory[Dp(c) + 1] = t
    BY StoreFacts
  <2> HIDE DEF named
  <2>4. /\ TableFacts(e, names, M, U) /\ Grows(named, e) /\ Unused(named, e)
        /\ e.tables = named.tables
        /\ n \in Nat /\ Len(e.memory) = n + 1 /\ Stored(e, n)
    BY <2>2, StoreFacts
  <2> HIDE DEF e, n
  <2>5. Grows(c, e) /\ Unused(c, e) /\ e.tables = c.tables
    BY <1>0, <2>2, <2>4, GrowsMore DEF Unused
  <2>6. FiveParts(e) /\ IsList(e.memory) /\ IsList(named.memory)
    BY <2>2, <2>4 DEF TableFacts
  <2>7. \A x : Stored(c, x) => Stored(e, x) /\ e.memory[x + 1] = c.memory[x + 1]
    BY <1>0, <2>5, StoredStays DEF Grows
  <2>8. \A x : Stored(named, x) => Stored(e, x) /\ e.memory[x + 1] = named.memory[x + 1]
    BY <2>4, <2>6, StoredStays DEF Grows
  (* the entry so far *)
  <2>9. /\ info = [tp |-> info.tp, dp |-> info.dp, columns |-> info.columns]
        /\ info.tp \in Virtual /\ Stored(e, info.dp)
        /\ t \in U \/ e.memory[info.dp + 1] \in names
        /\ \A x \in DOMAIN info.columns : Stored(e, info.columns[x])
    <3>1. CASE known
      <4>1. info = c.tables[t] /\ Info(c, names, U, t)
        BY <3>1 DEF TableFacts
      <4> HIDE DEF info
      <4>2. QED
        BY <2>7, <4>1 DEF Info
    <3>2. CASE ~known
      <4>1. /\ info = [tp |-> Cardinality(DOMAIN c.tables), dp |-> Dp(c), columns |-> <<>>]
            /\ DOMAIN <<>> = {}
        BY <3>2
      <4>2. Cardinality(DOMAIN c.tables) \in Virtual
        <5>1. DOMAIN c.tables \in SUBSET M /\ DOMAIN c.tables \cup {t} \in SUBSET M
          BY DEF TableFacts
        <5>2. /\ IsFiniteSet(DOMAIN c.tables) /\ Cardinality(DOMAIN c.tables) \in Nat
          BY <5>1, FS_Subset, FS_CardinalityType
        <5>3. Cardinality(DOMAIN c.tables \cup {t}) = Cardinality(DOMAIN c.tables) + 1
          BY <3>2, <5>2, FS_AddElement
        <5>4. Cardinality(DOMAIN c.tables \cup {t}) <= Cardinality(M) /\ Cardinality(M) \in Nat
          BY <5>1, FS_Subset, FS_CardinalityType
        <5>5. QED
          BY <5>2, <5>3, <5>4, ValuesAssumption DEF Virtual
      <4>3. Stored(e, Dp(c)) /\ (t \in U \/ e.memory[Dp(c) + 1] \in names)
        <5>1. CASE t = Default
          <6>1. named = c
            BY <5>1 DEF named
          <6>2. n = Dp(c) /\ t \in U
            BY <3>2, <5>1, <6>1 DEF n
          <6>3. QED
            BY <2>4, <6>2
        <5>2. CASE t # Default
          BY <2>3, <2>8, <3>2, <5>2
        <5>3. QED
          BY <5>1, <5>2
      <4>4. QED
        BY <4>1, <4>2, <4>3
    <3>3. QED
      BY <3>1, <3>2
  <2> HIDE DEF info
  <2>10. /\ mapped = [tp |-> info.tp, dp |-> info.dp, columns |-> With(info.columns, ref.column, n)]
    BY <2>9 DEF n
  <2>11. /\ DOMAIN With(info.columns, ref.column, n) = DOMAIN info.columns \cup {ref.column}
         /\ \A x \in DOMAIN info.columns \cup {ref.column} :
              Stored(e, With(info.columns, ref.column, n)[x])
    BY <2>4, <2>9 DEF With
  <2> HIDE DEF mapped
  <2>12. /\ mapped.tp = info.tp /\ mapped.dp = info.dp
         /\ \A x \in DOMAIN mapped.columns : Stored(e, mapped.columns[x])
         /\ mapped = [tp |-> mapped.tp, dp |-> mapped.dp, columns |-> mapped.columns]
    BY <2>10, <2>11
  <2> DEFINE new == With(e.tables, t, mapped)
  <2>13. /\ DOMAIN new = DOMAIN c.tables \cup {t} /\ new = [x \in DOMAIN new |-> new[x]]
         /\ new[t] = mapped /\ \A x \in DOMAIN c.tables : x # t => new[x] = c.tables[x]
    BY <2>5 DEF With
  <2> HIDE DEF new
  <2>14. /\ d.tables = new /\ d.memory = e.memory /\ FiveParts(d) /\ Unused(e, d)
    <3>1. d = [e EXCEPT !.tables = new]
      BY DEF new
    <3> HIDE DEF d
    <3>2. QED
      BY <2>6, <3>1 DEF FiveParts, Unused
  <2> HIDE DEF d
  <2>15. \A x : Stored(e, x) <=> Stored(d, x)
    BY <2>14 DEF Stored
  <2>16. ASSUME NEW x \in DOMAIN d.tables
         PROVE  Info(d, names, U, x)
    <3>1. CASE x = t
      BY <2>9, <2>12, <2>13, <2>14, <2>15, <3>1 DEF Info
    <3>2. CASE x # t
      <4>1. x \in DOMAIN c.tables /\ d.tables[x] = c.tables[x]
        BY <2>13, <2>14, <3>2
      <4>2. Info(c, names, U, x)
        BY <4>1 DEF TableFacts
      <4>3. QED
        BY <2>7, <2>14, <2>15, <4>1, <4>2 DEF Info
    <3>3. QED
      BY <3>1, <3>2
  <2>17. TableFacts(d, names, M, U)
    BY <2>6, <2>13, <2>14, <2>16 DEF TableFacts
  <2>18. Grows(c, d)
    <3>1. Remembers(c, d)
      BY <2>5, <2>14 DEF Grows, Remembers
    <3>2. known => info.tp = c.tables[t].tp
      BY DEF info
    <3>3. QED
      BY <2>12, <2>13, <2>14, <3>1, <3>2 DEF Grows
  <2>19. Unused(c, d)
    BY <2>5, <2>14 DEF Unused
  <2>20. ~known => d.tables[t].tp = Cardinality(DOMAIN c.tables)
    BY <2>12, <2>13, <2>14 DEF info
  <2>21. Stored(d, 0)
    BY <2>4, <2>14 DEF Stored
  <2>22. QED
    BY <2>1, <2>13, <2>14, <2>17, <2>18, <2>19, <2>20, <2>21 DEF Mapped
<1>3. QED
  BY <1>1, <1>2

(* The tables that a query mentions are finitely many. *)
LEMMA MentionedFacts ==
  ASSUME NEW q \in Statements, q.kind = "select"
  PROVE  /\ IsList(q.columns) /\ q.columns # <<>> /\ IsList(q.where)
         /\ q.from[1] \in Nat /\ Mentioned(q) \subseteq Nat
         /\ IsFiniteSet(Mentioned(q)) /\ Cardinality(Mentioned(q)) <= MaxTables
         /\ Named(q) = {q.from[1]} \cup (Mentioned(q) \ {Default})
<1>1. /\ IsList(q.columns) /\ q.columns # <<>> /\ IsList(q.where)
      /\ q.from[1] \in Nat /\ Mentioned(q) \subseteq Nat
      /\ Cardinality(Mentioned(q)) <= MaxTables
  BY StatementsAssumption
<1>2. \A s : IsList(s) => IsFiniteSet(DOMAIN s)
  <2>1. ASSUME NEW s, IsList(s)
        PROVE  IsFiniteSet(DOMAIN s)
    <3>1. DOMAIN s = 1 .. Len(s) /\ Len(s) \in Nat
      BY <2>1, ListFacts
    <3>2. QED
      BY <3>1, FS_Interval
  <2>2. QED
    BY <2>1
<1> DEFINE A == {q.columns[i].table : i \in DOMAIN q.columns}
           B == {q.where[i].left.table : i \in DOMAIN q.where}
           J == {j \in DOMAIN q.where : q.where[j].right.kind # "value"}
           C == {q.where[i].right.ref.table : i \in J}
<1>3. IsFiniteSet(A)
  <2> DEFINE f == [i \in DOMAIN q.columns |-> q.columns[i].table]
  <2>1. f \in Surjection(DOMAIN q.columns, A)
    BY DEF Surjection
  <2>2. IsFiniteSet(DOMAIN q.columns)
    BY <1>1, <1>2
  <2> HIDE DEF f, A
  <2>3. QED
    BY <2>1, <2>2, FS_Surjection
<1>4. IsFiniteSet(B)
  <2> DEFINE f == [i \in DOMAIN q.where |-> q.where[i].left.table]
  <2>1. f \in Surjection(DOMAIN q.where, B)
    BY DEF Surjection
  <2>2. IsFiniteSet(DOMAIN q.where)
    BY <1>1, <1>2
  <2> HIDE DEF f, B
  <2>3. QED
    BY <2>1, <2>2, FS_Surjection
<1>5. IsFiniteSet(C)
  <2> DEFINE f == [i \in J |-> q.where[i].right.ref.table]
  <2>1. f \in Surjection(J, C)
    BY DEF Surjection
  <2>2. IsFiniteSet(DOMAIN q.where) /\ J \in SUBSET DOMAIN q.where
    BY <1>1, <1>2
  <2>3. IsFiniteSet(J)
    BY <2>2, FS_Subset
  <2> HIDE DEF f, C, J
  <2>4. QED
    BY <2>1, <2>3, FS_Surjection
<1>6. Mentioned(q) = (A \cup B) \cup C
  BY DEF Mentioned
<1> HIDE DEF A, B, C
<1>7. IsFiniteSet(Mentioned(q))
  <2>1. IsFiniteSet(A \cup B)
    BY <1>3, <1>4, FS_Union
  <2>2. QED
    BY <1>5, <1>6, <2>1, FS_Union
<1>8. Named(q) = {q.from[1]} \cup (Mentioned(q) \ {Default})
  BY DEF Named
<1>9. QED
  BY <1>1, <1>7, <1>8

(* While the columns of the result are parsed: the table without a name was the
   first there was. *)
Listing(c, q) ==
  /\ TableFacts(c, Named(q), Mentioned(q), {Default}) /\ UsedFacts(c)
  /\ c.where = <<>> /\ c.joins = {}
  /\ Default \in DOMAIN c.tables =>
       \A t \in DOMAIN c.tables : t = Default \/ c.tables[t].tp >= 1

(* At least one column is selected. *)
Listed(c) == c.dest # <<>> /\ DOMAIN c.tables # {} /\ Stored(c, 0)

(* A column of the list is parsed, *)
LEMMA ColumnFacts ==
  ASSUME NEW q \in Statements, q.kind = "select", NEW c, Listing(c, q),
         NEW i \in DOMAIN q.columns
  PROVE  Listing(Column(c, q.columns[i]), q) /\ Listed(Column(c, q.columns[i]))
<1> DEFINE ref == q.columns[i]
           t == TableOf(c, ref)
           e == MapColumn(c, ref)
           d == Column(c, ref)
           M == Mentioned(q)
           x == [table |-> t, column |-> ref.column]
<1>1. /\ TableFacts(c, Named(q), M, {Default}) /\ UsedFacts(c)
      /\ c.where = <<>> /\ c.joins = {} /\ IsList(c.memory)
      /\ c.tables = [u \in DOMAIN c.tables |-> c.tables[u]] /\ DOMAIN c.tables \subseteq M
  BY DEF Listing, TableFacts
<1>2. M \in SUBSET Nat /\ IsFiniteSet(M) /\ Cardinality(M) <= MaxTables
  BY MentionedFacts
<1>3. ref.table \in M
  BY DEF Mentioned
<1>4. DOMAIN c.tables = {} <=> c.tables = <<>>
  <2>1. \A f : f = [k \in DOMAIN f |-> f[k]] /\ DOMAIN f = {} => f = <<>>
    OBVIOUS
  <2>2. DOMAIN <<>> = {}
    OBVIOUS
  <2>3. QED
    BY <1>1, <2>1, <2>2
<1>5. /\ t \in M
      /\ t \in DOMAIN c.tables \/ t = ref.table
      /\ t = Default => t \in DOMAIN c.tables \/ DOMAIN c.tables = {}
  <2>1. CASE ref.table # Default
    BY <1>3, <2>1 DEF TableOf
  <2>2. CASE ref.table = Default /\ c.tables # <<>>
    <3>1. t = First(c) /\ First(c) \in DOMAIN c.tables
      BY <1>1, <1>2, <1>4, <2>2, FirstIsThere DEF TableOf
    <3>2. QED
      BY <1>1, <3>1
  <2>3. CASE ref.table = Default /\ c.tables = <<>>
    BY <1>3, <1>4, <2>3 DEF TableOf
  <2>4. QED
    BY <2>1, <2>2, <2>3
<1>6. t \notin DOMAIN c.tables => IF t = Default THEN Default \in {Default} ELSE t \in Named(q)
  BY <1>3, <1>5, MentionedFacts
<1>7. PICK u : u = t
  OBVIOUS
<1>8. /\ TableFacts(e, Named(q), M, {Default}) /\ Grows(c, e) /\ Unused(c, e)
      /\ DOMAIN e.tables = DOMAIN c.tables \cup {u}
      /\ u \notin DOMAIN c.tables => e.tables[u].tp = Cardinality(DOMAIN c.tables)
      /\ Stored(e, 0)
  <2>1. u = TableOf(c, ref) /\ u \in M
    BY <1>5, <1>7
  <2>2. u \notin DOMAIN c.tables => IF u = Default THEN Default \in {Default} ELSE u \in Named(q)
    BY <1>6, <1>7
  <2> DEFINE names == Named(q)
             U == {Default}
  <2>3. /\ TableFacts(c, names, M, U) /\ M \in SUBSET Nat /\ IsFiniteSet(M)
        /\ Cardinality(M) <= MaxTables
    BY <1>1, <1>2
  <2>4. u \notin DOMAIN c.tables => IF u = Default THEN Default \in U ELSE u \in names
    BY <2>2
  <2> HIDE DEF M, names, U, ref
  <2>5. Mapped(c, e, names, M, U, u)
    BY <2>1, <2>3, <2>4, MapColumnFacts
  <2>6. QED
    BY <2>5 DEF M, names, U, Mapped
<1>9. UsedFacts(e)
  BY <1>1, <1>8, UsedStays
<1>10. d = [e EXCEPT !.dest = Append(@, x)]
  BY DEF Column
<1> HIDE DEF e, x
<1>11. FiveParts(e) /\ IsList(e.dest)
  BY <1>8, <1>9 DEF TableFacts, UsedFacts
<1>12. /\ d.memory = e.memory /\ d.tables = e.tables /\ d.dest = Append(e.dest, x)
       /\ d.where = e.where /\ d.joins = e.joins /\ FiveParts(d)
  BY <1>10, <1>11 DEF FiveParts
<1> HIDE DEF d
<1>13. TableFacts(d, Named(q), M, {Default})
  BY <1>8, <1>12 DEF TableFacts, Info, Stored
<1>14. UsedFacts(d)
  <2>1. /\ IsList(d.dest) /\ d.dest # <<>> /\ Len(d.dest) = Len(e.dest) + 1
        /\ \A k \in 1 .. Len(e.dest) : d.dest[k] = e.dest[k]
        /\ d.dest[Len(e.dest) + 1] = x
    BY <1>11, <1>12, ListMore
  <2>2. DOMAIN d.dest = 1 .. Len(e.dest) + 1 /\ DOMAIN e.dest = 1 .. Len(e.dest) /\ Len(e.dest) \in Nat
    BY <1>11, <2>1, ListFacts
  <2>3. x.table \in DOMAIN d.tables /\ x = [table |-> x.table, column |-> x.column]
    BY <1>7, <1>8, <1>12 DEF x
  <2>4. \A k \in DOMAIN e.dest : /\ e.dest[k] = [table |-> e.dest[k].table, column |-> e.dest[k].column]
                                 /\ e.dest[k].table \in DOMAIN d.tables
    BY <1>9, <1>12 DEF UsedFacts
  <2>5. \A k \in DOMAIN d.dest : /\ d.dest[k] = [table |-> d.dest[k].table, column |-> d.dest[k].column]
                                 /\ d.dest[k].table \in DOMAIN d.tables
    BY <2>1, <2>2, <2>3, <2>4
  <2>6. QED
    BY <1>9, <1>12, <2>1, <2>5 DEF UsedFacts, Stored, Operands
<1>15. d.where = <<>> /\ d.joins = {}
  BY <1>1, <1>8, <1>12 DEF Unused
<1>16. ASSUME Default \in DOMAIN d.tables, NEW k \in DOMAIN d.tables, k # Default
       PROVE  d.tables[k].tp >= 1
  <2>1. CASE Default \in DOMAIN c.tables
    <3>1. CASE k \in DOMAIN c.tables
      <4>1. d.tables[k].tp = c.tables[k].tp
        BY <1>8, <1>12, <3>1 DEF Grows
      <4>2. QED
        BY <1>16, <2>1, <3>1, <4>1 DEF Listing
    <3>2. CASE k \notin DOMAIN c.tables
      <4>1. k = u /\ d.tables[k].tp = Cardinality(DOMAIN c.tables)
        BY <1>8, <1>12, <3>2
      <4>2. IsFiniteSet(DOMAIN c.tables)
        BY <1>1, <1>2, FS_Subset
      <4>3. Cardinality(DOMAIN c.tables) \in Nat /\ Cardinality(DOMAIN c.tables) # 0
        BY <2>1, <4>2, FS_EmptySet, FS_CardinalityType
      <4>4. QED
        BY <4>1, <4>3
    <3>3. QED
      BY <3>1, <3>2
  <2>2. CASE Default \notin DOMAIN c.tables
    <3>1. u = Default /\ DOMAIN c.tables = {}
      BY <1>5, <1>7, <1>8, <1>12, <1>16, <2>2
    <3>2. QED
      BY <1>8, <1>12, <1>16, <3>1
  <2>3. QED
    BY <2>1, <2>2
<1>17. Listing(d, q)
  BY <1>13, <1>14, <1>15, <1>16 DEF Listing
<1>18. Listed(d)
  <2>1. d.dest # <<>>
    BY <1>11, <1>12, ListMore
  <2>2. Stored(d, 0)
    BY <1>8, <1>12 DEF Stored
  <2>3. QED
    BY <1>8, <1>12, <2>1, <2>2 DEF Listed
<1>19. QED
  BY <1>17, <1>18 DEF d

(* and all are. *)
LEMMA ColumnsParsed ==
  ASSUME NEW q \in Statements, q.kind = "select"
  PROVE  Listing(FoldLeft(Column, Empty, q.columns), q) /\ Listed(FoldLeft(Column, Empty, q.columns))
<1> DEFINE n == Len(q.columns)
           all == FoldLeft(Column, Empty, q.columns)
<1>1. IsList(q.columns) /\ q.columns # <<>>
  BY MentionedFacts
<1>2. n \in Nat /\ n # 0 /\ DOMAIN q.columns = 1 .. n
  BY <1>1, ListFacts
<1>3. PICK g : Accumulates(g, "Column", 0, Empty, q.columns, n, all)
  BY <1>1, FoldColumn, Zenon
<1> HIDE DEF all, n
<1>4. /\ g[0] = Empty /\ g[n] = all
      /\ \A i \in 0 .. n - 1 : g[i + 1] = Column(g[i], q.columns[i + 1])
  BY <1>3 DEF Accumulates, Accumulated
<1> DEFINE B == {i \in 0 .. n : Listing(g[i], q) /\ (i = 0 \/ Listed(g[i]))}
<1>5. 0 \in B
  <2>1. DOMAIN <<>> = {} /\ IsList(<<>>)
    BY DEF IsList
  <2>2. Listing(Empty, q)
    BY <2>1 DEF Listing, TableFacts, UsedFacts, FiveParts, Empty
  <2>3. QED
    BY <1>2, <1>4, <2>2
<1>6. ASSUME NEW i \in 0 .. n - 1, i \in B
      PROVE  i + 1 \in B
  <2>1. i + 1 \in DOMAIN q.columns /\ i + 1 \in 0 .. n
    BY <1>2
  <2>2. Listing(g[i + 1], q) /\ Listed(g[i + 1])
    BY <1>4, <1>6, <2>1, ColumnFacts
  <2>3. QED
    BY <2>1, <2>2
<1> HIDE DEF B
<1>7. 0 .. n \subseteq B
  BY <1>2, <1>5, <1>6, SetInduction
<1>8. n \in 0 .. n /\ n # 0
  BY <1>2
<1>9. QED
  BY <1>4, <1>7, <1>8 DEF B, all

(* From then on all tables have names, and are no more than those mentioned. *)
Resolved(c, q, M) ==
  /\ M \in SUBSET Nat /\ IsFiniteSet(M) /\ Cardinality(M) <= MaxTables
  /\ Mentioned(q) \ {Default} \subseteq M
  /\ TableFacts(c, Named(q), M, {}) /\ UsedFacts(c) /\ Listed(c)

(* FROM resolves the default table. *)
LEMMA ResolvedFacts ==
  ASSUME NEW q \in Statements, q.kind = "select", NEW c, Listing(c, q), Listed(c)
  PROVE  \E M : Resolved(ResolveDefaultTable(c, q.from[1]), q, M)
<1> DEFINE name == q.from[1]
           names == Named(q)
           all == Mentioned(q)
           d == ResolveDefaultTable(c, name)
           old == c.tables
           dp == Dp(c)
<1>1. /\ TableFacts(c, names, all, {Default}) /\ UsedFacts(c)
      /\ c.where = <<>> /\ c.joins = {}
      /\ FiveParts(c) /\ IsList(c.memory) /\ DOMAIN old \subseteq all
      /\ \A t \in DOMAIN old : Info(c, names, {Default}, t)
  BY DEF Listing, TableFacts
<1>2. /\ all \in SUBSET Nat /\ IsFiniteSet(all) /\ Cardinality(all) <= MaxTables
      /\ name \in Nat /\ name \in names
  BY MentionedFacts
<1> HIDE DEF all, names
<1>3. First(c) \in DOMAIN old /\ \A t \in DOMAIN old : First(c) <= t
  BY <1>1, <1>2, FirstIsThere DEF Listed
<1>4. CASE First(c) # Default
  <2>1. d = c
    BY <1>4 DEF ResolveDefaultTable
  <2>2. ASSUME NEW t \in DOMAIN old
        PROVE  t \notin {Default}
    BY <1>1, <1>2, <1>3, <1>4, <2>2 DEF Default
  <2>3. TableFacts(c, names, all, {})
    BY <1>1, <2>2 DEF TableFacts, Info
  <2>4. Resolved(d, q, all)
    BY <1>1, <1>2, <2>1, <2>3 DEF Resolved, names, all
  <2>5. QED
    BY <2>4
<1>5. CASE First(c) = Default
  <2> DEFINE own == [old[Default] EXCEPT !.dp = dp]
             rest == DOMAIN old \ {Default, name}
             e == Store(c, name)
             less == [t \in rest |-> [old[t] EXCEPT !.tp = @ - 1]]
             new == With(less, name, own)
             dest == [i \in DOMAIN c.dest |->
                        [c.dest[i] EXCEPT !.table = IF @ = Default THEN name ELSE @]]
             f == [e EXCEPT !.tables = new]
             M == (all \ {Default}) \cup {name}
  <2>1. /\ TableFacts(e, names, all, {Default}) /\ Unused(c, e) /\ Grows(c, e)
        /\ e.tables = old /\ dp = Len(c.memory) /\ dp \in Nat /\ Len(e.memory) = dp + 1
        /\ Stored(e, dp) /\ e.memory[dp + 1] = name
    BY <1>1, StoreFacts
  <2>2. \A x : Stored(c, x) => Stored(e, x) /\ e.memory[x + 1] = c.memory[x + 1]
    BY <1>1, <2>1, StoredStays DEF Grows
  <2>3. FiveParts(e) /\ IsList(e.memory)
    BY <2>1 DEF TableFacts
  <2>4. d = [f EXCEPT !.dest = dest]
    <3>1. d = [e EXCEPT !.tables = new, !.dest = dest]
      BY <1>5, Zenon DEF ResolveDefaultTable
    <3> HIDE DEF e, new, dest, d
    <3>2. QED
      BY <3>1
  <2> HIDE DEF e
  <2>5. Default \in DOMAIN old
    BY <1>3, <1>5
  <2>6. /\ DOMAIN less = rest
        /\ \A t \in rest : /\ less[t].tp \in Virtual /\ less[t].dp = old[t].dp
                           /\ less[t].columns = old[t].columns
                           /\ less[t] = [tp |-> less[t].tp, dp |-> less[t].dp, columns |-> less[t].columns]
    <3>1. ASSUME NEW t \in rest
          PROVE  /\ less[t].tp \in Virtual /\ less[t].dp = old[t].dp
                 /\ less[t].columns = old[t].columns
                 /\ less[t] = [tp |-> less[t].tp, dp |-> less[t].dp, columns |-> less[t].columns]
      <4>1. less[t] = [old[t] EXCEPT !.tp = @ - 1]
        BY <2>1
      <4>2. /\ old[t] = [tp |-> old[t].tp, dp |-> old[t].dp, columns |-> old[t].columns]
            /\ old[t].tp \in Virtual
        BY <1>1 DEF Info
      <4>3. old[t].tp >= 1
        BY <2>5 DEF Listing
      <4>4. old[t].tp - 1 \in Virtual
        BY <4>2, <4>3, ValuesAssumption DEF Virtual
      <4> HIDE DEF less
      <4>5. QED
        BY <4>1, <4>2, <4>4
    <3>2. QED
      BY <3>1
  <2>7. /\ own.tp \in Virtual /\ own.dp = dp /\ own.columns = old[Default].columns
        /\ own = [tp |-> own.tp, dp |-> own.dp, columns |-> own.columns]
    <3>1. /\ old[Default] = [tp |-> old[Default].tp, dp |-> old[Default].dp,
                             columns |-> old[Default].columns]
          /\ old[Default].tp \in Virtual
      BY <1>1, <2>5 DEF Info
    <3>2. QED
      BY <3>1
  <2> HIDE DEF own, less
  <2>8. /\ DOMAIN new = rest \cup {name} /\ new = [t \in DOMAIN new |-> new[t]]
        /\ new[name] = own /\ \A t \in rest : new[t] = less[t]
    BY <2>6 DEF With
  <2> HIDE DEF new, dest
  <2>9. /\ d.tables = new /\ d.memory = e.memory /\ FiveParts(d)
        /\ d.dest = dest /\ d.where = <<>> /\ d.joins = {}
    <3> HIDE DEF d
    <3>1. /\ f.tables = new /\ f.memory = e.memory /\ f.dest = e.dest /\ f.where = e.where
          /\ f.joins = e.joins /\ FiveParts(f)
      BY <2>3 DEF FiveParts
    <3> HIDE DEF f
    <3>2. QED
      BY <1>1, <2>1, <2>4, <3>1 DEF FiveParts, Unused
  <2> HIDE DEF d
  <2>10. \A x : Stored(e, x) <=> Stored(d, x)
    BY <2>9 DEF Stored
  <2>11. ASSUME NEW t \in DOMAIN new
         PROVE  Info(d, names, {}, t)
    <3>1. CASE t = name
      <4>1. \A x \in DOMAIN own.columns : Stored(d, own.columns[x])
        BY <1>1, <2>2, <2>5, <2>7, <2>10 DEF Info
      <4>2. QED
        BY <1>2, <2>1, <2>7, <2>8, <2>9, <2>10, <3>1, <4>1 DEF Info
    <3>2. CASE t # name
      <4>1. t \in rest /\ d.tables[t] = less[t] /\ t \notin {Default}
        BY <2>8, <2>9, <3>2
      <4>2. Info(c, names, {Default}, t)
        BY <1>1, <4>1
      <4>3. /\ Stored(c, old[t].dp) /\ c.memory[old[t].dp + 1] \in names
            /\ \A x \in DOMAIN old[t].columns : Stored(c, old[t].columns[x])
        BY <4>1, <4>2 DEF Info
      <4>4. QED
        BY <2>2, <2>6, <2>9, <2>10, <4>1, <4>3 DEF Info
    <3>3. QED
      BY <3>1, <3>2
  <2>12. DOMAIN new \subseteq M
    BY <1>1, <2>8
  <2>13. TableFacts(d, names, M, {})
    BY <2>3, <2>8, <2>9, <2>11, <2>12 DEF TableFacts
  <2>14. /\ IsList(dest) /\ dest # <<>>
         /\ \A i \in DOMAIN dest :
              /\ dest[i] = [table |-> dest[i].table, column |-> dest[i].column]
              /\ dest[i].table \in DOMAIN new
    <3>1. /\ IsList(c.dest) /\ c.dest # <<>>
          /\ \A i \in DOMAIN c.dest :
               /\ c.dest[i] = [table |-> c.dest[i].table, column |-> c.dest[i].column]
               /\ c.dest[i].table \in DOMAIN old
      BY <1>1 DEF UsedFacts, Listed
    <3>2. Len(c.dest) \in Nat /\ DOMAIN c.dest = 1 .. Len(c.dest) /\ Len(c.dest) # 0
      BY <3>1, ListFacts
    <3>3. DOMAIN dest = 1 .. Len(c.dest) /\ dest = [i \in 1 .. Len(c.dest) |-> dest[i]]
      BY <3>2 DEF dest
    <3>4. IsList(dest) /\ Len(dest) = Len(c.dest)
      BY <3>2, <3>3, FunctionIsList
    <3>5. dest # <<>>
      BY <3>2, <3>4, ListFacts
    <3>6. ASSUME NEW i \in DOMAIN c.dest
          PROVE  /\ dest[i] = [table |-> dest[i].table, column |-> dest[i].column]
                 /\ dest[i].table \in rest \cup {name}
      <4>1. dest[i] = [c.dest[i] EXCEPT !.table = IF @ = Default THEN name ELSE @]
        BY DEF dest
      <4>2. /\ c.dest[i] = [table |-> c.dest[i].table, column |-> c.dest[i].column]
            /\ c.dest[i].table \in DOMAIN old
        BY <3>1
      <4>3. dest[i] = [table |-> IF c.dest[i].table = Default THEN name ELSE c.dest[i].table,
                       column |-> c.dest[i].column]
        BY <4>1, <4>2
      <4>4. QED
        BY <4>2, <4>3
    <3>7. QED
      BY <2>8, <3>2, <3>3, <3>4, <3>5, <3>6
  <2>15. UsedFacts(d)
    <3>1. IsList(<<>>) /\ DOMAIN <<>> = {}
      BY DEF IsList
    <3>2. QED
      BY <2>9, <2>14, <3>1 DEF UsedFacts
  <2>16. Listed(d)
    <3>1. DOMAIN new # {} /\ Stored(e, 0)
      BY <2>1, <2>8 DEF Stored
    <3>2. QED
      BY <2>9, <2>10, <2>14, <3>1 DEF Listed
  <2>17. IsFiniteSet(M) /\ Cardinality(M) <= MaxTables /\ M \in SUBSET Nat /\ all \ {Default} \subseteq M
    <3>1. Default \in all
      BY <1>1, <2>5
    <3>2. Cardinality(all) \in Nat
      BY <1>2, FS_CardinalityType
    <3>3. IsFiniteSet(all \ {Default}) /\ Cardinality(all \ {Default}) = Cardinality(all) - 1
      BY <1>2, <3>1, FS_RemoveElement
    <3>4. IsFiniteSet(M) /\ Cardinality(M) <= Cardinality(all \ {Default}) + 1
      BY <3>2, <3>3, FS_AddElement
    <3>5. M \in SUBSET Nat /\ all \ {Default} \subseteq M
      BY <1>2
    <3>6. Cardinality(M) \in Nat
      BY <3>4, FS_CardinalityType
    <3> HIDE DEF M
    <3>7. Cardinality(M) <= MaxTables
      BY <1>2, <3>2, <3>3, <3>4, <3>6, ValuesAssumption
    <3>8. QED
      BY <3>4, <3>5, <3>7
  <2>18. Resolved(d, q, M)
    BY <2>13, <2>15, <2>16, <2>17 DEF Resolved, names, all
  <2>19. QED
    BY <2>18 DEF d
<1>6. QED
  BY <1>4, <1>5

(* A column that a condition refers to. *)
LEMMA ReferenceFacts ==
  ASSUME NEW q \in Statements, q.kind = "select", NEW M, NEW c, Resolved(c, q, M),
         NEW ref, ref.table \in Mentioned(q)
  PROVE  /\ Resolved(MapColumn(c, ref), q, M) /\ Grows(c, MapColumn(c, ref))
         /\ Unused(c, MapColumn(c, ref))
         /\ TableOf(c, ref) \in DOMAIN MapColumn(c, ref).tables
         /\ DOMAIN c.tables \subseteq DOMAIN MapColumn(c, ref).tables
<1> DEFINE names == Named(q)
           d == MapColumn(c, ref)
           U == {}
<1>1. /\ M \in SUBSET Nat /\ IsFiniteSet(M) /\ Cardinality(M) <= MaxTables
      /\ Mentioned(q) \ {Default} \subseteq M
      /\ TableFacts(c, names, M, U) /\ UsedFacts(c) /\ Listed(c)
  BY DEF Resolved
<1>2. Mentioned(q) \ {Default} \subseteq names
  BY MentionedFacts
<1>3. IsList(c.memory) /\ DOMAIN c.tables \subseteq M /\ DOMAIN c.tables # {}
  BY <1>1 DEF TableFacts, Listed
<1>4. PICK t : t = TableOf(c, ref)
  OBVIOUS
<1>5. t \in M /\ (t \notin DOMAIN c.tables => IF t = Default THEN Default \in U ELSE t \in names)
  <2>1. CASE ref.table # Default
    BY <1>1, <1>2, <1>4, <2>1 DEF TableOf
  <2>2. CASE ref.table = Default
    <3>1. c.tables # <<>>
      <4>1. DOMAIN <<>> = {}
        OBVIOUS
      <4>2. QED
        BY <1>3, <4>1
    <3>2. t = First(c)
      BY <1>4, <2>2, <3>1 DEF TableOf
    <3>3. First(c) \in DOMAIN c.tables
      BY <1>1, <1>3, FirstIsThere
    <3>4. QED
      BY <1>3, <3>2, <3>3
  <2>3. QED
    BY <2>1, <2>2
<1> HIDE DEF names, U
<1>6. Mapped(c, d, names, M, U, t)
  BY <1>1, <1>4, <1>5, MapColumnFacts
<1> HIDE DEF d
<1>7. /\ TableFacts(d, names, M, U) /\ Grows(c, d) /\ Unused(c, d)
      /\ DOMAIN d.tables = DOMAIN c.tables \cup {t} /\ Stored(d, 0)
  BY <1>6 DEF Mapped
<1>8. UsedFacts(d)
  BY <1>1, <1>3, <1>7, UsedStays
<1>9. Listed(d)
  BY <1>1, <1>7 DEF Listed, Unused
<1>10. Resolved(d, q, M)
  BY <1>1, <1>7, <1>8, <1>9 DEF Resolved, names, U
<1>11. QED
  BY <1>4, <1>7, <1>10 DEF d

(* The address of a column of a table. *)
LEMMA AddressFacts ==
  ASSUME NEW c, NEW names, NEW M, NEW U, TableFacts(c, names, M, U), Stored(c, 0),
         NEW t \in DOMAIN c.tables, NEW x
  PROVE  Stored(c, Address(c, t, x))
BY DEF TableFacts, Info, Address

(* A condition of WHERE is parsed, *)
LEMMA ConditionFacts ==
  ASSUME NEW q \in Statements, q.kind = "select", NEW M, NEW c, Resolved(c, q, M),
         NEW i \in DOMAIN q.where
  PROVE  Resolved(Condition(c, q.where[i]), q, M)
<1> DEFINE cond == q.where[i]
           left == MapColumn(c, cond.left)
           tl == TableOf(c, cond.left)
           direct == cond.right.kind = "value"
           both == IF direct THEN Store(left, cond.right.value)
                             ELSE MapColumn(left, cond.right.ref)
           tr == IF direct THEN tl ELSE TableOf(left, cond.right.ref)
           tps == {both.tables[tl].tp, both.tables[tr].tp}
           colLeft == Address(both, tl, cond.left.column)
           colRight == IF direct THEN Dp(left) ELSE Address(both, tr, cond.right.ref.column)
           param == [op |-> cond.op, direct |-> direct,
                     tbl_left |-> both.tables[tl].tp,
                     tbl_right |-> IF direct THEN 0 ELSE both.tables[tr].tp,
                     col_left |-> colLeft, col_right |-> colRight]
           w == [link |-> cond.link, param |-> Dp(both)]
           more == IF Cardinality(tps) = 1 THEN {} ELSE tps
           e == Store(both, param)
           d == Condition(c, cond)
           names == Named(q)
<1>1. cond.left.table \in Mentioned(q)
  BY DEF Mentioned
<1>2. /\ Resolved(left, q, M) /\ Grows(c, left) /\ Unused(c, left) /\ tl \in DOMAIN left.tables
  BY <1>1, ReferenceFacts
<1> HIDE DEF left, tl
<1>3. /\ Resolved(both, q, M) /\ Grows(left, both) /\ Unused(left, both)
      /\ tl \in DOMAIN both.tables /\ tr \in DOMAIN both.tables
      /\ Stored(both, colLeft) /\ Stored(both, colRight)
  <2>1. CASE direct
    <3>1. both = Store(left, cond.right.value) /\ tr = tl /\ colRight = Dp(left)
      BY <2>1
    <3>2. TableFacts(left, names, M, {}) /\ UsedFacts(left) /\ Listed(left)
      BY <1>2 DEF Resolved
    <3>3. /\ TableFacts(both, names, M, {}) /\ Grows(left, both) /\ Unused(left, both)
          /\ both.tables = left.tables /\ Stored(both, Dp(left))
      BY <3>1, <3>2, StoreFacts
    <3> HIDE DEF both, tr, colRight
    <3>4. IsList(left.memory)
      BY <3>2 DEF TableFacts
    <3>5. UsedFacts(both)
      BY <3>2, <3>3, <3>4, UsedStays
    <3>6. Stored(both, 0)
      BY <3>2, <3>3, <3>4, StoredStays DEF Grows, Listed
    <3>7. Listed(both)
      BY <3>2, <3>3, <3>6 DEF Listed, Unused
    <3>8. Resolved(both, q, M)
      BY <1>2, <3>3, <3>5, <3>7 DEF Resolved
    <3>9. Stored(both, Address(both, tl, cond.left.column))
      <4>1. TableFacts(both, names, M, {}) /\ tl \in DOMAIN both.tables
        BY <1>2, <3>3
      <4>2. QED
        BY <3>6, <4>1, AddressFacts
    <3>10. QED
      BY <1>2, <3>1, <3>3, <3>8, <3>9
  <2>2. CASE ~direct
    <3>1. /\ both = MapColumn(left, cond.right.ref) /\ tr = TableOf(left, cond.right.ref)
          /\ colRight = Address(both, tr, cond.right.ref.column)
      BY <2>2
    <3>2. cond.right.ref.table \in Mentioned(q)
      <4>1. cond.right.kind # "value"
        BY <2>2
      <4>2. QED
        BY <4>1 DEF Mentioned
    <3>3. /\ Resolved(both, q, M) /\ Grows(left, both) /\ Unused(left, both)
          /\ tr \in DOMAIN both.tables /\ DOMAIN left.tables \subseteq DOMAIN both.tables
      BY <1>2, <3>1, <3>2, ReferenceFacts
    <3> HIDE DEF both, tr, colRight
    <3>4. tl \in DOMAIN both.tables
      BY <1>2, <3>3
    <3>5. TableFacts(both, names, M, {}) /\ Stored(both, 0)
      BY <3>3 DEF Resolved, Listed
    <3>6. \A t \in DOMAIN both.tables : \A x : Stored(both, Address(both, t, x))
      BY <3>5, AddressFacts
    <3>7. QED
      BY <3>1, <3>3, <3>4, <3>6
  <2>3. QED
    BY <2>1, <2>2
<1>4. d = [e EXCEPT !.where = Append(@, w),
                    !.joins = IF Cardinality(tps) = 1 THEN @ ELSE @ \cup tps]
  BY DEF Condition, left, tl
<1> HIDE DEF both, tr, colLeft, colRight
<1>5. param.col_left = colLeft /\ param.col_right = colRight
  OBVIOUS
<1>6. tps = {both.tables[tl].tp, both.tables[tr].tp}
  OBVIOUS
<1> HIDE DEF param, tps, cond
<1>7. TableFacts(both, names, M, {}) /\ UsedFacts(both) /\ Listed(both)
  BY <1>3 DEF Resolved
<1>8. /\ TableFacts(e, names, M, {}) /\ Grows(both, e) /\ Unused(both, e)
      /\ e.tables = both.tables /\ Stored(e, Dp(both)) /\ e.memory[Dp(both) + 1] = param
  BY <1>7, StoreFacts
<1> HIDE DEF e
<1>9. UsedFacts(e) /\ FiveParts(e) /\ IsList(both.memory)
  <2>1. IsList(both.memory)
    BY <1>7 DEF TableFacts
  <2>2. UsedFacts(e)
    BY <1>7, <1>8, <2>1, UsedStays
  <2>3. QED
    BY <1>8, <2>1, <2>2 DEF TableFacts
<1>10. \A x : Stored(both, x) => Stored(e, x)
  BY <1>8, <1>9, StoredStays DEF Grows
<1>11. w.param = Dp(both)
  OBVIOUS
<1> HIDE DEF w
<1>12. /\ d.memory = e.memory /\ d.tables = e.tables /\ d.dest = e.dest
       /\ d.where = Append(e.where, w) /\ d.joins = e.joins \cup more /\ FiveParts(d)
  BY <1>4, <1>9 DEF FiveParts
<1> HIDE DEF d
<1>13. \A x : Stored(e, x) <=> Stored(d, x)
  BY <1>12 DEF Stored
<1>14. TableFacts(d, names, M, {})
  BY <1>8, <1>12, <1>13 DEF TableFacts, Info
<1>15. \A j \in more : \E t \in DOMAIN d.tables : d.tables[t].tp = j
  BY <1>3, <1>6, <1>8, <1>12
<1>16. UsedFacts(d)
  <2>1. IsList(e.where) /\ IsList(e.dest)
    BY <1>9 DEF UsedFacts
  <2>2. /\ IsList(d.where) /\ Len(d.where) = Len(e.where) + 1
        /\ \A k \in 1 .. Len(e.where) : d.where[k] = e.where[k]
        /\ d.where[Len(e.where) + 1] = w
    BY <1>12, <2>1, ListMore
  <2>3. DOMAIN d.where = 1 .. Len(e.where) + 1 /\ DOMAIN e.where = 1 .. Len(e.where) /\ Len(e.where) \in Nat
    BY <2>1, <2>2, ListFacts
  <2>4. Stored(d, w.param) /\ Operands(d, d.memory[w.param + 1])
    BY <1>3, <1>5, <1>8, <1>10, <1>11, <1>12, <1>13 DEF Operands
  <2>5. \A k \in DOMAIN e.where : Stored(d, e.where[k].param) /\ Operands(d, d.memory[e.where[k].param + 1])
    BY <1>9, <1>12, <1>13 DEF UsedFacts, Operands
  <2>6. \A k \in DOMAIN d.where : Stored(d, d.where[k].param) /\ Operands(d, d.memory[d.where[k].param + 1])
    BY <2>2, <2>3, <2>4, <2>5
  <2>7. \A j \in d.joins : \E t \in DOMAIN d.tables : d.tables[t].tp = j
    BY <1>9, <1>12, <1>15 DEF UsedFacts
  <2>8. \A k \in DOMAIN d.dest : /\ d.dest[k] = [table |-> d.dest[k].table, column |-> d.dest[k].column]
                                 /\ d.dest[k].table \in DOMAIN d.tables
    BY <1>9, <1>12 DEF UsedFacts
  <2>9. QED
    BY <1>12, <2>1, <2>2, <2>6, <2>7, <2>8 DEF UsedFacts
<1>17. Listed(d)
  BY <1>7, <1>8, <1>10, <1>12, <1>13 DEF Listed, Unused
<1>18. Resolved(d, q, M)
  BY <1>3, <1>14, <1>16, <1>17 DEF Resolved, names
<1>19. QED
  BY <1>18 DEF d, cond

(* and with all of them the statement is. *)
LEMMA ParsedFacts ==
  ASSUME NEW q \in Statements, q.kind = "select"
  PROVE  \E M : Resolved(Parsed(q), q, M)
<1> DEFINE n == Len(q.where)
           listed == FoldLeft(Column, Empty, q.columns)
           base == ResolveDefaultTable(listed, q.from[1])
           all == FoldLeft(Condition, base, q.where)
<1>1. IsList(q.where)
  BY MentionedFacts
<1>2. n \in Nat /\ DOMAIN q.where = 1 .. n
  BY <1>1, ListFacts
<1>3. PICK x : x = listed
  OBVIOUS
<1>4. Listing(x, q) /\ Listed(x)
  BY <1>3, ColumnsParsed
<1>5. \E M : Resolved(base, q, M)
  <2> HIDE DEF listed
  <2>1. \E M : Resolved(ResolveDefaultTable(x, q.from[1]), q, M)
    BY <1>4, ResolvedFacts
  <2>2. QED
    BY <1>3, <2>1
<1> HIDE DEF base
<1>6. PICK M : Resolved(base, q, M)
  BY <1>5
<1>7. PICK g : Accumulates(g, "Condition", 0, base, q.where, n, all)
  BY <1>1, FoldCondition, Zenon
<1> HIDE DEF all, n
<1>8. /\ g[0] = base /\ g[n] = all
      /\ \A i \in 0 .. n - 1 : g[i + 1] = Condition(g[i], q.where[i + 1])
  BY <1>7 DEF Accumulates, Accumulated
<1> DEFINE B == {i \in 0 .. n : Resolved(g[i], q, M)}
<1>9. 0 \in B
  BY <1>2, <1>6, <1>8
<1>10. ASSUME NEW i \in 0 .. n - 1, i \in B
       PROVE  i + 1 \in B
  <2>1. i + 1 \in DOMAIN q.where /\ i + 1 \in 0 .. n
    BY <1>2
  <2>2. Resolved(g[i + 1], q, M)
    BY <1>8, <1>10, <2>1, ConditionFacts
  <2>3. QED
    BY <2>1, <2>2
<1> HIDE DEF B
<1>11. 0 .. n \subseteq B
  BY <1>2, <1>9, <1>10, SetInduction
<1>12. Resolved(all, q, M)
  <2>1. n \in 0 .. n
    BY <1>2
  <2>2. QED
    BY <1>8, <1>11, <2>1 DEF B
<1>13. all = Parsed(q)
  BY Zenon DEF all, base, Parsed
<1>14. QED
  BY <1>12, <1>13

-----------------------------------------------------------------------------
(* Concatenation is associative. *)
LEMMA ThreeLists ==
  ASSUME NEW s, NEW t, NEW u, IsList(s), IsList(t), IsList(u)
  PROVE  (s \o t) \o u = s \o (t \o u)
<1> DEFINE S == (ToSet(s) \cup ToSet(t)) \cup ToSet(u)
<1>1. s \in Seq(S) /\ t \in Seq(S) /\ u \in Seq(S)
  BY DEF IsList
<1> HIDE DEF S
<1>2. QED
  BY <1>1, ConcatAssociative

(* The parts of a list of lists, appended to a list one after the other. *)
Grown(g, base, ss, n, all) ==
  /\ g[0] = base /\ g[n] = all
  /\ \A i \in 0 .. n : IsList(g[i]) /\ Len(g[i]) <= Len(all)
  /\ \A i \in 0 .. n - 1 : g[i + 1] = g[i] \o ss[i + 1]

(* FlattenSeq appends list after list. *)
LEMMA FlattenAfter ==
  ASSUME NEW base, IsList(base), NEW ss, IsList(ss), \A i \in 1 .. Len(ss) : IsList(ss[i])
  PROVE  /\ \E g : Grown(g, base, ss, Len(ss), base \o FlattenSeq(ss))
         /\ IsList(FlattenSeq(ss))
<1> DEFINE n == Len(ss)
           all == FlattenSeq(ss)
<1>1. n \in Nat
  BY ListFacts
<1>2. PICK f : /\ f[0] = <<>> /\ f[n] = all
               /\ \A i \in 0 .. n - 1 : f[i + 1] = f[i] \o ss[i + 1]
  BY FlattenSteps
<1> HIDE DEF all, n
<1> DEFINE B == {i \in 0 .. n : IsList(f[i])}
<1>3. 0 .. n \subseteq B
  <2>1. 0 \in B
    <3>1. IsList(<<>>)
      BY DEF IsList
    <3>2. QED
      BY <1>1, <1>2, <3>1
  <2>2. ASSUME NEW i \in 0 .. n - 1, i \in B
        PROVE  i + 1 \in B
    <3>1. i + 1 \in 1 .. n /\ i + 1 \in 0 .. n
      BY <1>1
    <3>2. IsList(f[i]) /\ IsList(ss[i + 1]) /\ f[i + 1] = f[i] \o ss[i + 1]
      BY <1>2, <2>2, <3>1 DEF n
    <3>3. IsList(f[i + 1])
      BY <3>2, ListOfTwo
    <3>4. QED
      BY <3>1, <3>3
  <2> HIDE DEF B
  <2>3. QED
    BY <1>1, <2>1, <2>2, SetInduction
<1>4. \A i \in 0 .. n : IsList(f[i]) /\ Len(f[i]) \in Nat
  BY <1>3, ListFacts
<1>5. IsList(all)
  BY <1>1, <1>2, <1>4
<1> DEFINE D == {k \in 0 .. n : Len(f[n - k]) <= Len(all)}
<1>6. 0 .. n \subseteq D
  <2>1. 0 \in D
    <3>1. n - 0 = n /\ n \in 0 .. n
      BY <1>1
    <3>2. QED
      BY <1>1, <1>2, <1>4, <3>1
  <2>2. ASSUME NEW k \in 0 .. n - 1, k \in D
        PROVE  k + 1 \in D
    <3>1. PICK i \in 0 .. n - 1 : /\ i = n - (k + 1) /\ i + 1 = n - k /\ k + 1 \in 0 .. n
                                  /\ i + 1 \in 1 .. n /\ i + 1 \in 0 .. n
      BY <1>1
    <3>2. IsList(f[i]) /\ IsList(ss[i + 1]) /\ f[i + 1] = f[i] \o ss[i + 1]
      <4>1. IsList(ss[i + 1])
        BY <3>1 DEF n
      <4>2. \A j \in 0 .. n - 1 : f[j + 1] = f[j] \o ss[j + 1]
        BY <1>2
      <4>3. f[i + 1] = f[i] \o ss[i + 1]
        BY <3>1, <4>2
      <4>4. i \in 0 .. n
        BY <1>1, <3>1
      <4>5. QED
        BY <1>4, <4>1, <4>3, <4>4
    <3>3. Len(f[i + 1]) = Len(f[i]) + Len(ss[i + 1]) /\ Len(ss[i + 1]) \in Nat
      BY <3>2, ListOfTwo, ListFacts
    <3>4. Len(f[i]) <= Len(all)
      <4>1. Len(f[i]) \in Nat /\ Len(f[i + 1]) \in Nat /\ Len(all) \in Nat
        BY <1>4, <1>5, <3>1, ListFacts
      <4>2. Len(f[i + 1]) <= Len(all)
        BY <2>2, <3>1
      <4>3. QED
        <5>1. PICK x, y, z, w : x = Len(f[i]) /\ y = Len(f[i + 1]) /\ z = Len(all) /\ w = Len(ss[i + 1])
          OBVIOUS
        <5>2. x \in Nat /\ y \in Nat /\ z \in Nat /\ w \in Nat /\ y = x + w /\ y <= z
          BY <3>3, <4>1, <4>2, <5>1
        <5>3. x <= z
          BY <5>2
        <5>4. QED
          BY <5>1, <5>3
    <3>5. QED
      BY <3>1, <3>4
  <2> HIDE DEF D
  <2>3. QED
    BY <1>1, <2>1, <2>2, SetInduction
<1>7. \A i \in 0 .. n : Len(f[i]) <= Len(all)
  <2>1. ASSUME NEW i \in 0 .. n
        PROVE  Len(f[i]) <= Len(all)
    <3>1. n - i \in 0 .. n /\ n - (n - i) = i
      BY <1>1
    <3>2. n - i \in D
      BY <1>6, <3>1
    <3>3. QED
      BY <3>1, <3>2
  <2>2. QED
    BY <2>1
<1> HIDE DEF B, D
<1> DEFINE g == [i \in 0 .. n |-> base \o f[i]]
<1>8. g[0] = base
  <2>1. g[0] = base \o <<>>
    <3>1. 0 \in 0 .. n
      BY <1>1
    <3>2. g[0] = base \o f[0]
      BY <3>1
    <3>3. QED
      BY <1>2, <3>2
  <2> HIDE DEF g
  <2>2. QED
    BY <2>1, NothingMore
<1>9. g[n] = base \o all
  <2>1. n \in 0 .. n
    BY <1>1
  <2>2. g[n] = base \o f[n]
    BY <2>1
  <2> HIDE DEF g
  <2>3. QED
    BY <1>2, <2>2
<1>10. ASSUME NEW i \in 0 .. n
       PROVE  IsList(g[i]) /\ Len(g[i]) <= Len(base \o all)
  <2>1. g[i] = base \o f[i]
    OBVIOUS
  <2> HIDE DEF g
  <2>2. IsList(f[i]) /\ Len(f[i]) <= Len(all) /\ Len(f[i]) \in Nat
    BY <1>4, <1>7
  <2>3. Len(base) \in Nat /\ Len(all) \in Nat
    BY <1>5, ListFacts
  <2>4. /\ IsList(base \o f[i]) /\ Len(base \o f[i]) = Len(base) + Len(f[i])
        /\ Len(base \o all) = Len(base) + Len(all)
    BY <1>5, <2>2, ListOfTwo
  <2>5. QED
    BY <2>1, <2>2, <2>3, <2>4
<1>11. ASSUME NEW i \in 0 .. n - 1
       PROVE  g[i + 1] = g[i] \o ss[i + 1]
  <2>1. i + 1 \in 0 .. n /\ i \in 0 .. n /\ i + 1 \in 1 .. n
    BY <1>1
  <2>2. g[i + 1] = base \o f[i + 1] /\ g[i] = base \o f[i]
    BY <2>1
  <2> HIDE DEF g
  <2>3. IsList(f[i]) /\ IsList(ss[i + 1]) /\ f[i + 1] = f[i] \o ss[i + 1]
    <3>1. IsList(ss[i + 1])
      BY <2>1 DEF n
    <3>2. QED
      BY <1>2, <1>4, <2>1, <3>1
  <2>4. (base \o f[i]) \o ss[i + 1] = base \o (f[i] \o ss[i + 1])
    <3>1. PICK t, u : t = f[i] /\ u = ss[i + 1]
      OBVIOUS
    <3>2. IsList(base) /\ IsList(t) /\ IsList(u)
      BY <1>5, <2>3, <3>1
    <3>3. (base \o t) \o u = base \o (t \o u)
      BY <3>2, ThreeLists
    <3>4. QED
      BY <3>1, <3>3
  <2>5. QED
    BY <2>2, <2>3, <2>4
<1> HIDE DEF g
<1>12. Grown(g, base, ss, n, base \o all)
  BY <1>8, <1>9, <1>10, <1>11 DEF Grown
<1>13. QED
  BY <1>5, <1>12 DEF n, all

(* A list, appended to another element by element. *)
Appended(g, base, s, n) ==
  /\ g[0] = base /\ g[n] = base \o s
  /\ \A i \in 0 .. n : IsList(g[i]) /\ Len(g[i]) = Len(base) + i
  /\ \A i \in 0 .. n - 1 : g[i + 1] = Append(g[i], s[i + 1])

(* A list is appended one element at a time. *)
LEMMA ListSteps ==
  ASSUME NEW base, IsList(base), NEW s, IsList(s)
  PROVE  \E g : Appended(g, base, s, Len(s))
<1> DEFINE m == Len(base)
           n == Len(s)
           all == base \o s
           part(i) == [k \in 1 .. m + i |-> all[k]]
           g == [i \in 0 .. n |-> part(i)]
<1>1. m \in Nat /\ n \in Nat
  BY ListFacts
<1>2. /\ IsList(all) /\ Len(all) = m + n
      /\ \A i \in 1 .. m : all[i] = base[i]
      /\ \A i \in 1 .. n : all[m + i] = s[i]
  BY ListOfTwo
<1> HIDE DEF all, m, n
<1>3. ASSUME NEW i \in 0 .. n
      PROVE  /\ g[i] = part(i) /\ IsList(part(i)) /\ Len(part(i)) = m + i
             /\ \A k \in 1 .. m + i : part(i)[k] = all[k]
  <2>1. m + i \in Nat
    BY <1>1
  <2> DEFINE t == part(i)
  <2>2. t = [k \in 1 .. m + i |-> t[k]]
    OBVIOUS
  <2>3. \A k \in 1 .. m + i : t[k] = all[k]
    OBVIOUS
  <2> HIDE DEF t
  <2>4. IsList(t) /\ Len(t) = m + i
    BY <2>1, <2>2, FunctionIsList
  <2>5. QED
    BY <2>3, <2>4 DEF t
<1>4. \A i \in 0 .. n : IsList(g[i]) /\ Len(g[i]) = m + i /\ \A k \in 1 .. m + i : g[i][k] = all[k]
  BY <1>3
<1> HIDE DEF g
<1>5. g[0] = base
  <2>1. IsList(g[0]) /\ Len(g[0]) = m /\ \A k \in 1 .. m : g[0][k] = base[k]
    BY <1>1, <1>2, <1>4
  <2>2. QED
    BY <2>1, SameList DEF m
<1>6. g[n] = all
  <2>1. IsList(g[n]) /\ Len(g[n]) = m + n /\ \A k \in 1 .. m + n : g[n][k] = all[k]
    BY <1>1, <1>4
  <2>2. QED
    BY <1>2, <2>1, SameList
<1>7. ASSUME NEW i \in 0 .. n - 1
      PROVE  g[i + 1] = Append(g[i], s[i + 1])
  <2> DEFINE e == s[i + 1]
             t == g[i]
             u == g[i + 1]
  <2>1. i \in 0 .. n /\ i + 1 \in 0 .. n /\ i + 1 \in 1 .. n /\ m + i \in Nat /\ m + (i + 1) = (m + i) + 1
    BY <1>1
  <2>2. /\ IsList(t) /\ Len(t) = m + i /\ \A k \in 1 .. m + i : t[k] = all[k]
        /\ IsList(u) /\ Len(u) = (m + i) + 1 /\ \A k \in 1 .. (m + i) + 1 : u[k] = all[k]
    BY <1>4, <2>1
  <2>3. all[(m + i) + 1] = e
    BY <1>2, <2>1
  <2> HIDE DEF t, u, e
  <2>4. /\ IsList(Append(t, e)) /\ Len(Append(t, e)) = Len(t) + 1
        /\ \A k \in 1 .. Len(t) : Append(t, e)[k] = t[k]
        /\ Append(t, e)[Len(t) + 1] = e
    BY <2>2, ListMore
  <2>5. \A k \in 1 .. Len(u) : u[k] = Append(t, e)[k]
    BY <2>1, <2>2, <2>3, <2>4
  <2>6. u = Append(t, e)
    BY <2>2, <2>4, <2>5, SameList
  <2>7. QED
    BY <2>6 DEF t, u, e
<1>8. \A i \in 0 .. n : IsList(g[i]) /\ Len(g[i]) = m + i
  BY <1>4
<1>9. Appended(g, base, s, n)
  BY <1>5, <1>6, <1>7, <1>8 DEF m, all, Appended
<1>10. QED
  BY <1>9 DEF n

-----------------------------------------------------------------------------
(* A program of this code and memory. *)
Piece(x, m) == [code |-> x, memory |-> m]

(* Of each place that was marked it is known what was known then. *)
Marked(marks, know) == \A x \in marks : x[1] \in DOMAIN know /\ know[x[1]] = x[2]

(* The code is legal so far, and a is known at its end. *)
Built(m, names, marks, later, done, a) ==
  \E know : Reaches(Piece(done, m), names, know, later, a) /\ Marked(marks, know)

(* The next instruction, after which b will be known: a lemma on its operation
   is all that is missing. *)
Continuing(m, names, marks, later, done, a, e, b, know) ==
  /\ Adding(Piece(done, m), Piece(Append(done, e), m), names, know, later, a, e, b)
  /\ Marked(marks, know)
  /\ IsList(done) /\ DOMAIN know = 0 .. Len(done) \cup DOMAIN later
  /\ \A n \in DOMAIN later : know[n] = later[n]

(* One instruction more is about to be added, *)
LEMMA BuiltNext ==
  ASSUME NEW m, NEW names, NEW marks, NEW later, NEW done, NEW a, NEW op, NEW d,
         NEW b \in Knowledge, Built(m, names, marks, later, done, a), Len(a.stack) <= 2,
         Len(done) + 1 \notin DOMAIN later \/ b = later[Len(done) + 1]
  PROVE  \E know : Continuing(m, names, marks, later, done, a, I(op, d), b, know)
<1> DEFINE e == I(op, d)
           p == Piece(done, m)
           q == Piece(Append(done, e), m)
<1>1. PICK know : Reaches(p, names, know, later, a) /\ Marked(marks, know)
  BY DEF Built
<1>2. e = I(e.op, e.data)
  BY DEF I
<1> HIDE DEF e
<1>3. /\ p.code = done /\ p.memory = m /\ q.code = Append(done, e) /\ q.memory = m
  BY DEF Piece
<1> HIDE DEF p, q
<1>4. /\ IsList(p.memory) /\ IsList(p.code) /\ DOMAIN know = 0 .. Len(done) \cup DOMAIN later
      /\ \A n \in DOMAIN later : know[n] = later[n]
  BY <1>1, <1>3 DEF Reaches, Passes
<1>5. Remembers(p, q)
  BY <1>3, <1>4, RemembersItself
<1>6. Adding(p, q, names, know, later, a, e, b)
  BY <1>1, <1>2, <1>3, <1>5 DEF Adding
<1>7. Continuing(m, names, marks, later, done, a, e, b, know)
  BY <1>1, <1>3, <1>4, <1>6 DEF Continuing, p, q
<1>8. QED
  BY <1>7 DEF e

(* and is. *)
LEMMA BuiltAdded ==
  ASSUME NEW m, NEW names, NEW marks, NEW later, NEW done, NEW a, NEW e, NEW b, NEW know,
         Continuing(m, names, marks, later, done, a, e, b, know),
         Added(Piece(Append(done, e), m), names, know, later, b)
  PROVE  Built(m, names, marks, later, Append(done, e), b)
<1>1. PICK wider : Reaches(Piece(Append(done, e), m), names, wider, later, b) /\ More(know, wider)
  BY DEF Added
<1>2. Marked(marks, wider)
  BY <1>1 DEF Continuing, Marked, More
<1>3. QED
  BY <1>1, <1>2 DEF Built

(* The end of the code is marked. *)
LEMMA BuiltMarked ==
  ASSUME NEW m, NEW names, NEW marks, NEW later, NEW done, NEW a,
         Built(m, names, marks, later, done, a)
  PROVE  Built(m, names, marks \cup {<<Len(done), a>>}, later, done, a)
<1>1. PICK know : Reaches(Piece(done, m), names, know, later, a) /\ Marked(marks, know)
  BY DEF Built
<1>2. Piece(done, m).code = done
  BY DEF Piece
<1>3. /\ know[Len(done)] = a /\ DOMAIN know = 0 .. Len(done) \cup DOMAIN later /\ IsList(done)
  BY <1>1, <1>2 DEF Reaches, Passes
<1>4. Len(done) \in DOMAIN know
  BY <1>3, ListFacts
<1>5. Marked(marks \cup {<<Len(done), a>>}, know)
  BY <1>1, <1>3, <1>4 DEF Marked
<1>6. QED
  BY <1>1, <1>5 DEF Built

(* It is known in advance what will be known further on. *)
LEMMA BuiltLater ==
  ASSUME NEW m, NEW names, NEW none, DOMAIN none = {}, NEW later, NEW done, NEW a,
         Built(m, names, {}, none, done, a),
         \A n \in DOMAIN later : n \notin 0 .. Len(done) /\ later[n] \in Knowledge
  PROVE  Built(m, names, {}, later, done, a)
<1> DEFINE p == Piece(done, m)
           n == Len(p.code)
<1>1. PICK know : Reaches(p, names, know, none, a)
  BY DEF Built
<1>2. p.code = done /\ p.memory = m
  BY DEF Piece
<1> HIDE DEF p
<1>3. /\ IsList(p.code) /\ IsList(p.memory)
      /\ \A i \in DOMAIN p.code : p.code[i] = I(p.code[i].op, p.code[i].data)
      /\ know \in [0 .. n -> Knowledge] /\ know[n] = a
      /\ Implies(AtStart, know[0])
      /\ \A k \in 0 .. n - 1 : Legal(p, names, know, k)
  BY <1>1 DEF Reaches, Passes
<1>4. n \in Nat
  BY <1>3, ListFacts
<1>5. \A k \in DOMAIN later : k \notin 0 .. n /\ later[k] \in Knowledge
  BY <1>2
<1> HIDE DEF n
<1> DEFINE wider == [k \in 0 .. n \cup DOMAIN later |-> IF k \in 0 .. n THEN know[k] ELSE later[k]]
<1>6. /\ wider \in [0 .. n \cup DOMAIN later -> Knowledge]
      /\ \A k \in DOMAIN later : wider[k] = later[k]
      /\ \A k \in 0 .. n : k \in DOMAIN wider /\ wider[k] = know[k]
  BY <1>3, <1>5
<1> HIDE DEF wider
<1>7. More(know, wider)
  BY <1>3, <1>6 DEF More
<1>8. Remembers(p, p)
  BY <1>3, RemembersItself
<1>9. ASSUME NEW k \in 0 .. n - 1
      PROVE  Legal(p, names, wider, k)
  <2>1. k \in DOMAIN know /\ Legal(p, names, know, k)
    BY <1>3, <1>4
  <2>2. QED
    BY <1>3, <1>7, <1>8, <2>1, LegalStays
<1>10. wider[0] = know[0] /\ wider[n] = a
  BY <1>3, <1>4, <1>6
<1>11. Reaches(p, names, wider, later, a)
  BY <1>3, <1>6, <1>9, <1>10 DEF Reaches, Passes, n
<1>12. Marked({}, wider)
  BY DEF Marked
<1>13. QED
  BY <1>11, <1>12 DEF Built, p

(* The empty code. *)
LEMMA BuiltBegins ==
  ASSUME NEW m, IsList(m), NEW names, NEW a \in Knowledge, Implies(AtStart, a),
         NEW none, DOMAIN none = {}
  PROVE  Built(m, names, {}, none, <<>>, a)
<1>1. \E know : Reaches(Piece(<<>>, m), names, know, none, a)
  BY Beginning DEF Piece
<1>2. \A know : Marked({}, know)
  BY DEF Marked
<1>3. QED
  BY <1>1, <1>2 DEF Built

(* Built code is a list. *)
LEMMA BuiltIsList ==
  ASSUME NEW m, NEW names, NEW marks, NEW later, NEW done, NEW a,
         Built(m, names, marks, later, done, a)
  PROVE  IsList(done)
BY DEF Built, Reaches, Passes, Piece

(* HALT ends it, when all jumps ahead have been reached. *)
LEMMA BuiltFinished ==
  ASSUME NEW m, NEW names, NEW marks, NEW later, NEW done, NEW a,
         Built(m, names, marks, later, done, a), DOMAIN later \subseteq 0 .. Len(done),
         a.stack = <<>>, a.open = {}, a.more = NoTable,
         NEW q, q.memory = m, q.code = Append(done, I("HALT", 1))
  PROVE  \E k : Verified(q, names, k)
<1>1. PICK know : Reaches(Piece(done, m), names, know, later, a)
  BY DEF Built
<1>2. PICK p : p = Piece(done, m)
  OBVIOUS
<1>3. p.code = done /\ p.memory = m
  BY <1>2 DEF Piece
<1>4. /\ Reaches(p, names, know, later, a) /\ DOMAIN later \subseteq 0 .. Len(p.code)
      /\ Len(a.stack) <= 2
      /\ q.memory = p.memory /\ q.code = Append(p.code, I("HALT", 1))
  BY <1>1, <1>2, <1>3
<1>5. QED
  BY <1>4, Finished

-----------------------------------------------------------------------------
(* What is known while tables are loaded, and from the first loop on. *)
Loading(K, current) == Made(<<>>, current, K, K, {}, TRUE, NoTable)

(* What is known in the loops. *)
Looping(T, words, current, open, more) == Made(words, current, T, T, open, FALSE, more)

(* Both are knowledge: while tables are loaded, *)
LEMMA LoadingFacts ==
  ASSUME NEW K \in SUBSET Virtual, NEW current \in SUBSET Virtual
  PROVE  Knows(Loading(K, current), <<>>, current, K, K, {}, TRUE, NoTable)
<1> DEFINE words == <<>>
           open == {}
<1>1. words \in Seq(SUBSET Nat) /\ open \in SUBSET Virtual /\ NoTable \in Virtual \cup {NoTable}
  OBVIOUS
<1> HIDE DEF words, open
<1>2. Knows(Made(words, current, K, K, open, TRUE, NoTable), words, current, K, K, open, TRUE, NoTable)
  BY <1>1, MadeFacts
<1>3. QED
  BY <1>2 DEF Loading, words, open

(* and in the loops. *)
LEMMA LoopingFacts ==
  ASSUME NEW T \in SUBSET Virtual, NEW words \in {<<>>, <<Bit>>, <<Bit, Bit>>},
         NEW current \in SUBSET Virtual, NEW open \in SUBSET Virtual,
         NEW more \in Virtual \cup {NoTable}
  PROVE  /\ Knows(Looping(T, words, current, open, more), words, current, T, T, open, FALSE, more)
         /\ Len(Looping(T, words, current, open, more).stack) <= 2
<1>1. words \in Seq(SUBSET Nat) /\ Len(words) <= 2
  <2>1. Bit \in SUBSET Nat
    BY DEF Bit
  <2> HIDE DEF Bit
  <2>2. CASE words = <<>>
    BY <2>2
  <2>3. CASE words = <<Bit>>
    BY <2>1, <2>3
  <2>4. CASE words = <<Bit, Bit>>
    BY <2>1, <2>4
  <2>5. QED
    BY <2>2, <2>3, <2>4
<1>2. Knows(Made(words, current, T, T, open, FALSE, more), words, current, T, T, open, FALSE, more)
  BY <1>1, MadeFacts
<1>3. QED
  BY <1>1, <1>2 DEF Looping, Knows

(* A table is loaded, *)
LEMMA LoadBuilt ==
  ASSUME NEW m, NEW names, NEW none, DOMAIN none = {}, NEW done, NEW K \in SUBSET Virtual,
         Built(m, names, {}, none, done, Loading(K, Virtual)), NEW t \in Virtual,
         NEW d \in 0 .. Len(m) - 1, m[d + 1] \in names
  PROVE  Built(m, names, {}, none, done \o <<I("SETTBL", t), I("LDTBL", d)>>,
               Loading(K \cup {t}, Virtual))
<1> DEFINE a == Loading(K, Virtual)
           b == Loading(K, {t})
           c == Loading(K \cup {t}, Virtual)
           one == Append(done, I("SETTBL", t))
           two == Append(one, I("LDTBL", d))
<1>1. /\ Knows(a, <<>>, Virtual, K, K, {}, TRUE, NoTable)
      /\ Knows(b, <<>>, {t}, K, K, {}, TRUE, NoTable)
      /\ Knows(c, <<>>, Virtual, K \cup {t}, K \cup {t}, {}, TRUE, NoTable)
  BY LoadingFacts
<1>2. /\ Implies([a EXCEPT !.current = {t}], b)
      /\ Implies([b EXCEPT !.loaded = @ \cup {t}, !.columns = @ \cup {t}], c)
  BY DEF Loading, Made, Implies
<1>3. IsList(done)
  BY BuiltIsList
<1> HIDE DEF a, b, c
<1>4. Built(m, names, {}, none, done, a)
  BY DEF a
<1>5. /\ a.more = NoTable /\ Len(a.stack) <= 2
      /\ b \in Knowledge /\ b.more = NoTable /\ Len(b.stack) <= 2 /\ b.fresh /\ Known(b, t)
      /\ c \in Knowledge
  BY <1>1 DEF Knows, Known
<1>6. Built(m, names, {}, none, one, b)
  <2>1. PICK know : Continuing(m, names, {}, none, done, a, I("SETTBL", t), b, know)
    BY <1>4, <1>5, BuiltNext
  <2>2. Added(Piece(one, m), names, know, none, b)
    <3>1. Adding(Piece(done, m), Piece(one, m), names, know, none, a, I("SETTBL", t), b)
      BY <2>1 DEF Continuing
    <3>2. QED
      BY <1>2, <1>5, <3>1, AddSETTBL
  <2>3. QED
    BY <2>1, <2>2, BuiltAdded
<1> HIDE DEF one
<1>7. Built(m, names, {}, none, two, c)
  <2>1. PICK know : Continuing(m, names, {}, none, one, b, I("LDTBL", d), c, know)
    BY <1>5, <1>6, BuiltNext
  <2>2. Added(Piece(two, m), names, know, none, c)
    <3>1. Adding(Piece(one, m), Piece(two, m), names, know, none, b, I("LDTBL", d), c)
      BY <2>1 DEF Continuing
    <3>2. Stored(Piece(two, m), d) /\ Piece(two, m).memory[d + 1] \in names
      BY DEF Stored, Piece
    <3> HIDE DEF two
    <3>3. QED
      BY <1>2, <1>5, <3>1, <3>2, AddLDTBL
  <2>3. QED
    BY <2>1, <2>2, BuiltAdded
<1>8. done \o <<I("SETTBL", t), I("LDTBL", d)>> = two
  BY <1>3, TwoAfter DEF one
<1>9. QED
  BY <1>7, <1>8 DEF c

(* The virtual tables of the statement. *)
Loadable(c) == {c.tables[t].tp : t \in DOMAIN c.tables}

(* and all are (GenLoadTables). *)
LEMMA LoadsBuilt ==
  ASSUME NEW q \in Statements, q.kind = "select", NEW M, NEW c, Resolved(c, q, M),
         NEW none, DOMAIN none = {}
  PROVE  Built(c.memory, Named(q), {}, none, GenLoadTables(c), Loading(Loadable(c), Virtual))
<1> DEFINE names == Named(q)
           S == DOMAIN c.tables
           n == Cardinality(S)
           sorted == Ascending(S)
           ss == [i \in DOMAIN sorted |->
                    <<I("SETTBL", c.tables[sorted[i]].tp), I("LDTBL", c.tables[sorted[i]].dp)>>]
           K(i) == {c.tables[sorted[j]].tp : j \in 1 .. i}
           m == c.memory
<1>1. /\ M \in SUBSET Nat /\ IsFiniteSet(M) /\ S \subseteq M /\ IsList(m)
      /\ \A t \in S : Info(c, names, {}, t)
  BY DEF Resolved, TableFacts
<1>2. S \in SUBSET Nat /\ IsFiniteSet(S)
  BY <1>1, FS_Subset
<1> HIDE DEF S
<1>3. /\ n \in Nat /\ DOMAIN sorted = 1 .. n
      /\ \A i \in 1 .. n : sorted[i] \in S
      /\ \A x \in S : \E i \in 1 .. n : sorted[i] = x
  BY <1>2, AscendingFacts
<1> HIDE DEF sorted, n
<1>4. \A i \in 1 .. n : /\ c.tables[sorted[i]].tp \in Virtual
                        /\ c.tables[sorted[i]].dp \in 0 .. Len(m) - 1
                        /\ m[c.tables[sorted[i]].dp + 1] \in names
  BY <1>1, <1>3 DEF Info, Stored
<1>5. \A i \in 0 .. n : K(i) \in SUBSET Virtual
  <2>1. ASSUME NEW i \in 0 .. n, NEW x \in K(i)
        PROVE  x \in Virtual
    <3>1. PICK j \in 1 .. i : x = c.tables[sorted[j]].tp
      OBVIOUS
    <3>2. j \in 1 .. n
      BY <1>3
    <3>3. QED
      BY <1>4, <3>1, <3>2
  <2>2. QED
    BY <2>1
<1>6. /\ IsList(ss) /\ Len(ss) = n
      /\ \A i \in 1 .. n : /\ IsList(ss[i])
                           /\ ss[i] = <<I("SETTBL", c.tables[sorted[i]].tp), I("LDTBL", c.tables[sorted[i]].dp)>>
  <2>1. ss = [i \in 1 .. n |-> ss[i]]
    BY <1>3
  <2>2. \A i \in 1 .. n : ss[i] = <<I("SETTBL", c.tables[sorted[i]].tp), I("LDTBL", c.tables[sorted[i]].dp)>>
    BY <1>3
  <2> HIDE DEF ss
  <2>3. IsList(ss) /\ Len(ss) = n
    BY <1>3, <2>1, FunctionIsList
  <2>4. ASSUME NEW i \in 1 .. n
        PROVE  IsList(ss[i])
    <3> DEFINE e == I("SETTBL", c.tables[sorted[i]].tp)
               f == I("LDTBL", c.tables[sorted[i]].dp)
    <3>1. ss[i] = <<e, f>>
      BY <2>2
    <3> HIDE DEF e, f
    <3>2. IsList(<<e, f>>)
      BY TwoIsList
    <3>3. QED
      BY <3>1, <3>2
  <2>5. QED
    BY <2>2, <2>3, <2>4
<1>7. GenLoadTables(c) = FlattenSeq(ss)
  BY DEF GenLoadTables, sorted, S
<1> HIDE DEF ss
<1>8. IsList(<<>>)
  BY DEF IsList
<1>9. PICK g : Grown(g, <<>>, ss, n, <<>> \o FlattenSeq(ss))
  BY <1>6, <1>8, FlattenAfter
<1>10. IsList(FlattenSeq(ss))
  BY <1>6, <1>8, FlattenAfter
<1>11. <<>> \o FlattenSeq(ss) = FlattenSeq(ss)
  BY <1>10, NothingMore
<1>12. /\ g[0] = <<>> /\ g[n] = FlattenSeq(ss)
       /\ \A i \in 0 .. n - 1 : g[i + 1] = g[i] \o ss[i + 1]
  BY <1>9, <1>11 DEF Grown
<1> DEFINE B == {i \in 0 .. n : Built(m, names, {}, none, g[i], Loading(K(i), Virtual))}
<1>13. 0 \in B
  <2>1. K(0) = {}
    OBVIOUS
  <2>2. Knows(Loading({}, Virtual), <<>>, Virtual, {}, {}, {}, TRUE, NoTable)
    BY LoadingFacts
  <2>3. Implies(AtStart, Loading({}, Virtual))
    BY ZeroIsVirtual DEF Implies, AtStart, Loading, Made
  <2>4. Loading({}, Virtual) \in Knowledge
    BY <2>2 DEF Knows
  <2>5. Built(m, names, {}, none, <<>>, Loading({}, Virtual))
    BY <1>1, <2>3, <2>4, BuiltBegins
  <2> HIDE DEF K, m, names
  <2>6. Built(m, names, {}, none, g[0], Loading(K(0), Virtual))
    BY <1>12, <2>1, <2>5
  <2>7. 0 \in 0 .. n
    BY <1>3
  <2>8. QED
    BY <2>6, <2>7
<1>14. ASSUME NEW i \in 0 .. n - 1, i \in B
       PROVE  i + 1 \in B
  <2>1. i + 1 \in 1 .. n /\ i + 1 \in 0 .. n /\ i \in 0 .. n
    BY <1>3
  <2> DEFINE t == c.tables[sorted[i + 1]].tp
             d == c.tables[sorted[i + 1]].dp
  <2>2. K(i + 1) = K(i) \cup {t}
    <3>1. 1 .. i + 1 = (1 .. i) \cup {i + 1}
      BY <1>3
    <3>2. QED
      BY <3>1
  <2>3. t \in Virtual /\ d \in 0 .. Len(m) - 1 /\ m[d + 1] \in names /\ K(i) \in SUBSET Virtual
    BY <1>4, <1>5, <2>1
  <2>4. g[i + 1] = g[i] \o <<I("SETTBL", t), I("LDTBL", d)>>
    BY <1>6, <1>12, <2>1
  <2>5. Built(m, names, {}, none, g[i], Loading(K(i), Virtual))
    BY <1>14
  <2> HIDE DEF K, t, d, m, names
  <2>6. Built(m, names, {}, none, g[i] \o <<I("SETTBL", t), I("LDTBL", d)>>,
              Loading(K(i) \cup {t}, Virtual))
    BY <2>3, <2>5, LoadBuilt
  <2>7. QED
    BY <2>1, <2>2, <2>4, <2>6
<1>15. K(n) = Loadable(c)
  BY <1>3 DEF Loadable, S
<1> HIDE DEF B, K
<1>16. 0 .. n \subseteq B
  BY <1>3, <1>13, <1>14, SetInduction
<1>17. n \in B
  BY <1>3, <1>16
<1>18. QED
  BY <1>7, <1>12, <1>15, <1>17 DEF B

-----------------------------------------------------------------------------
(* What is known where columns of the result are dealt with. *)
Copying(T, current, open, fresh) == Made(<<>>, current, T, T, open, fresh, NoTable)

(* CPYCOL before the loops, CPYVAL in them. *)
Copies(op, fresh) == (op = "CPYCOL" /\ fresh = TRUE) \/ (op = "CPYVAL" /\ fresh = FALSE)

(* The knowledge between two copies. *)
LEMMA CopyingFacts ==
  ASSUME NEW T \in SUBSET Virtual, NEW current \in SUBSET Virtual, NEW open \in SUBSET Virtual,
         NEW fresh \in BOOLEAN
  PROVE  Knows(Copying(T, current, open, fresh), <<>>, current, T, T, open, fresh, NoTable)
<1> DEFINE words == <<>>
<1>1. words \in Seq(SUBSET Nat) /\ NoTable \in Virtual \cup {NoTable}
  OBVIOUS
<1> HIDE DEF words
<1>2. Knows(Made(words, current, T, T, open, fresh, NoTable), words, current, T, T, open, fresh, NoTable)
  BY <1>1, MadeFacts
<1>3. QED
  BY <1>2 DEF Copying, words

(* SETTBL before a copy, *)
LEMMA TableBuilt ==
  ASSUME NEW m, NEW names, NEW marks, NEW later, NEW done, NEW T \in SUBSET Virtual,
         NEW open \in SUBSET Virtual, NEW fresh \in BOOLEAN,
         Built(m, names, marks, later, done, Copying(T, Virtual, open, fresh)),
         NEW t \in Virtual, Len(done) + 1 \notin DOMAIN later
  PROVE  Built(m, names, marks, later, Append(done, I("SETTBL", t)), Copying(T, {t}, open, fresh))
<1> DEFINE a == Copying(T, Virtual, open, fresh)
           b == Copying(T, {t}, open, fresh)
           one == Append(done, I("SETTBL", t))
<1>1. /\ Knows(a, <<>>, Virtual, T, T, open, fresh, NoTable)
      /\ Knows(b, <<>>, {t}, T, T, open, fresh, NoTable)
  BY CopyingFacts
<1>2. Implies([a EXCEPT !.current = {t}], b)
  BY DEF Copying, Made, Implies
<1> HIDE DEF a, b
<1>3. Built(m, names, marks, later, done, a)
  BY DEF a
<1>4. a.more = NoTable /\ Len(a.stack) <= 2 /\ b \in Knowledge
  BY <1>1 DEF Knows
<1>5. PICK know : Continuing(m, names, marks, later, done, a, I("SETTBL", t), b, know)
  BY <1>3, <1>4, BuiltNext
<1>6. Added(Piece(one, m), names, know, later, b)
  <2>1. Adding(Piece(done, m), Piece(one, m), names, know, later, a, I("SETTBL", t), b)
    BY <1>5 DEF Continuing
  <2>2. QED
    BY <1>2, <1>4, <2>1, AddSETTBL
<1>7. Built(m, names, marks, later, one, b)
  BY <1>5, <1>6, BuiltAdded
<1>8. QED
  BY <1>7 DEF b

(* and the copy. *)
LEMMA CopyBuilt ==
  ASSUME NEW m, NEW names, NEW marks, NEW later, NEW done, NEW T \in SUBSET Virtual,
         NEW open \in SUBSET Virtual, NEW fresh \in BOOLEAN, NEW current \in SUBSET Virtual,
         Built(m, names, marks, later, done, Copying(T, current, open, fresh)),
         NEW op, Copies(op, fresh), NEW d \in 0 .. Len(m) - 1,
         NEW b \in Knowledge, Implies(Copying(T, current, open, fresh), b),
         Len(done) + 1 \notin DOMAIN later
  PROVE  Built(m, names, marks, later, Append(done, I(op, d)), b)
<1> DEFINE a == Copying(T, current, open, fresh)
           one == Append(done, I(op, d))
<1>1. Knows(a, <<>>, current, T, T, open, fresh, NoTable)
  BY CopyingFacts
<1>2. Implies(a, b)
  OBVIOUS
<1>3. Built(m, names, marks, later, done, a)
  OBVIOUS
<1> HIDE DEF a
<1>4. a.more = NoTable /\ Len(a.stack) <= 2 /\ a.fresh = fresh
  BY <1>1 DEF Knows
<1>5. PICK know : Continuing(m, names, marks, later, done, a, I(op, d), b, know)
  BY <1>3, <1>4, BuiltNext
<1>6. Stored(Piece(one, m), d)
  BY DEF Stored, Piece
<1>7. Adding(Piece(done, m), Piece(one, m), names, know, later, a, I(op, d), b)
  BY <1>5 DEF Continuing
<1> HIDE DEF one
<1>8. Added(Piece(one, m), names, know, later, b)
  <2>1. CASE op = "CPYCOL" /\ fresh = TRUE
    <3>1. /\ Adding(Piece(done, m), Piece(one, m), names, know, later, a, I("CPYCOL", d), b)
          /\ a.fresh
      BY <1>4, <1>7, <2>1
    <3>2. QED
      BY <1>2, <1>4, <1>6, <3>1, AddCPYCOL
  <2>2. CASE op = "CPYVAL" /\ fresh = FALSE
    <3>1. /\ Adding(Piece(done, m), Piece(one, m), names, know, later, a, I("CPYVAL", d), b)
          /\ ~a.fresh
      BY <1>4, <1>7, <2>2
    <3>2. QED
      BY <1>2, <1>4, <1>6, <3>1, AddCPYVAL
  <2>3. QED
    BY <2>1, <2>2 DEF Copies
<1>9. QED
  BY <1>5, <1>8, BuiltAdded DEF one

(* Selecting a table forgets nothing else. *)
LEMMA ImpliesCopying ==
  ASSUME NEW T, NEW open, NEW fresh, NEW t \in Virtual, NEW b,
         Implies(Copying(T, Virtual, open, fresh), b)
  PROVE  Implies(Copying(T, {t}, open, fresh), b)
BY DEF Copying, Made, Implies

(* One column of the result, with or without a change of the table. *)
LEMMA ColumnBuilt ==
  ASSUME NEW m, NEW names, NEW marks, NEW later, NEW done, NEW T \in SUBSET Virtual,
         NEW open \in SUBSET Virtual, NEW fresh \in BOOLEAN,
         Built(m, names, marks, later, done, Copying(T, Virtual, open, fresh)),
         NEW op, Copies(op, fresh), NEW d \in 0 .. Len(m) - 1, NEW t \in Virtual, NEW same \in BOOLEAN,
         NEW b \in Knowledge, Implies(Copying(T, Virtual, open, fresh), b),
         NEW part, part = (IF same THEN <<>> ELSE <<I("SETTBL", t)>>) \o <<I(op, d)>>,
         \A x \in DOMAIN later : x \notin 0 .. Len(done \o part)
  PROVE  Built(m, names, marks, later, done \o part, b)
<1> DEFINE e == I(op, d)
           f == I("SETTBL", t)
<1>1. IsList(done)
  BY BuiltIsList
<1>2. Len(done) \in Nat
  BY <1>1, ListFacts
<1>3. CASE same
  <2>1. part = <<e>>
    <3>1. part = <<>> \o <<e>>
      BY <1>3
    <3>2. IsList(<<e>>)
      BY OneIsList
    <3>3. QED
      BY <3>1, <3>2, NothingMore
  <2> HIDE DEF e
  <2>2. done \o part = Append(done, e)
    BY <1>1, <2>1, OneAfter
  <2>3. Len(done \o part) = Len(done) + 1
    BY <1>1, <2>2, ListMore
  <2>4. Len(done) + 1 \notin DOMAIN later
    BY <1>2, <2>3
  <2>5. Built(m, names, marks, later, Append(done, e), b)
    BY <2>4, CopyBuilt DEF e
  <2>6. QED
    BY <2>2, <2>5
<1>4. CASE ~same
  <2>1. part = <<f, e>>
    <3>1. part = <<f>> \o <<e>>
      BY <1>4
    <3> HIDE DEF e, f
    <3>2. IsList(<<f>>)
      BY OneIsList
    <3>3. <<f>> \o <<e>> = Append(<<f>>, e)
      BY <3>2, OneAfter
    <3>4. Append(<<f>>, e) = <<f, e>>
      <4> DEFINE s == <<f>>
                 two == <<f, e>>
      <4>1. IsList(s) /\ Len(s) = 1 /\ s[1] = f
        BY OneIsList
      <4>2. IsList(two) /\ Len(two) = 2
        BY TwoIsList
      <4>3. two[1] = f /\ two[2] = e
        OBVIOUS
      <4> HIDE DEF s, two
      <4>4. /\ IsList(Append(s, e)) /\ Len(Append(s, e)) = Len(s) + 1
            /\ \A i \in 1 .. Len(s) : Append(s, e)[i] = s[i]
            /\ Append(s, e)[Len(s) + 1] = e
        <5>1. IsList(s)
          BY <4>1
        <5>2. QED
          BY <5>1, ListMore
      <4>5. \A i \in 1 .. Len(two) : Append(s, e)[i] = two[i]
        BY <4>1, <4>2, <4>3, <4>4
      <4>6. Append(s, e) = two
        <5>1. PICK u : u = Append(s, e)
          OBVIOUS
        <5>2. IsList(u) /\ IsList(two) /\ Len(u) = Len(two) /\ \A i \in 1 .. Len(u) : u[i] = two[i]
          BY <4>1, <4>2, <4>4, <4>5, <5>1
        <5>3. u = two
          BY <5>2, SameList
        <5>4. QED
          BY <5>1, <5>3
      <4>7. QED
        BY <4>6 DEF s, two
    <3>5. QED
      BY <3>1, <3>3, <3>4
  <2> DEFINE one == Append(done, f)
  <2> HIDE DEF e, f
  <2>2. done \o part = Append(one, e)
    <3>1. done \o <<f, e>> = Append(one, e)
      BY <1>1, TwoAfter
    <3>2. QED
      BY <2>1, <3>1
  <2>3. IsList(one) /\ Len(one) = Len(done) + 1
    BY <1>1, ListMore
  <2> HIDE DEF one
  <2>4. Len(done \o part) = Len(one) + 1
    BY <2>2, <2>3, ListMore
  <2>5. Len(done) + 1 \notin DOMAIN later /\ Len(one) + 1 \notin DOMAIN later
    BY <1>2, <2>3, <2>4
  <2>6. Built(m, names, marks, later, one, Copying(T, {t}, open, fresh))
    BY <2>5, TableBuilt DEF one, f
  <2>7. Implies(Copying(T, {t}, open, fresh), b)
    BY ImpliesCopying
  <2>8. Built(m, names, marks, later, Append(one, e), b)
    <3>1. {t} \in SUBSET Virtual
      OBVIOUS
    <3>2. QED
      BY <2>5, <2>6, <2>7, <3>1, CopyBuilt DEF e
  <2>9. QED
    BY <2>2, <2>8
<1>5. QED
  BY <1>3, <1>4

(* What is the same for each column: a table that there is and an address. *)
LEMMA DestFacts ==
  ASSUME NEW q \in Statements, q.kind = "select", NEW M, NEW c, Resolved(c, q, M),
         NEW i \in DOMAIN c.dest
  PROVE  /\ c.tables[c.dest[i].table].tp \in Virtual
         /\ c.tables[c.dest[i].table].tp \in Loadable(c)
         /\ Address(c, c.dest[i].table, c.dest[i].column) \in 0 .. Len(c.memory) - 1
<1>1. TableFacts(c, Named(q), M, {}) /\ UsedFacts(c) /\ Listed(c)
  BY DEF Resolved
<1>2. PICK t : t = c.dest[i].table
  OBVIOUS
<1>3. t \in DOMAIN c.tables
  BY <1>1, <1>2 DEF UsedFacts
<1>4. c.tables[t].tp \in Virtual
  BY <1>1, <1>3 DEF TableFacts, Info
<1>5. Stored(c, 0)
  BY <1>1 DEF Listed
<1>6. Stored(c, Address(c, t, c.dest[i].column))
  BY <1>1, <1>3, <1>5, AddressFacts
<1>7. QED
  BY <1>2, <1>3, <1>4, <1>6 DEF Stored, Loadable

(* All columns are copied (ForEachColumn). *)
LEMMA ColumnsBuilt ==
  ASSUME NEW q \in Statements, q.kind = "select", NEW M, NEW c, Resolved(c, q, M),
         NEW marks, NEW later, NEW done, NEW T \in SUBSET Virtual,
         NEW open \in SUBSET Virtual, NEW fresh \in BOOLEAN,
         Built(c.memory, Named(q), marks, later, done, Copying(T, Virtual, open, fresh)),
         NEW op, Copies(op, fresh),
         NEW b \in Knowledge, Implies(Copying(T, Virtual, open, fresh), b),
         \A x \in DOMAIN later : x \notin 0 .. Len(done \o ForEachColumn(c, op))
  PROVE  /\ Built(c.memory, Named(q), marks, later, done \o ForEachColumn(c, op), b)
         /\ IsList(ForEachColumn(c, op))
<1> DEFINE Tp(i) == c.tables[c.dest[i].table].tp
           at(i) == Address(c, c.dest[i].table, c.dest[i].column)
           same(i) == i > 1 /\ Tp(i) = Tp(i - 1)
           part(i) == (IF same(i) THEN <<>> ELSE <<I("SETTBL", Tp(i))>>) \o <<I(op, at(i))>>
           ss == [i \in DOMAIN c.dest |-> part(i)]
           n == Len(c.dest)
           m == c.memory
           names == Named(q)
           a == Copying(T, Virtual, open, fresh)
           all == done \o FlattenSeq(ss)
<1>1. IsList(c.dest) /\ c.dest # <<>> /\ IsList(done)
  BY BuiltIsList DEF Resolved, UsedFacts, Listed
<1>2. n \in Nat /\ n # 0 /\ DOMAIN c.dest = 1 .. n
  BY <1>1, ListFacts
<1>3. \A i \in 1 .. n : /\ Tp(i) \in Virtual /\ at(i) \in 0 .. Len(m) - 1 /\ same(i) \in BOOLEAN
  BY <1>2, DestFacts
<1>4. ASSUME NEW i \in 1 .. n
      PROVE  IsList(part(i))
  <2> DEFINE one == <<I("SETTBL", Tp(i))>>
             two == <<I(op, at(i))>>
             lead == IF same(i) THEN <<>> ELSE one
  <2>1. IsList(one) /\ IsList(two) /\ IsList(<<>>)
    BY OneIsList DEF IsList
  <2> HIDE DEF one, two
  <2>2. IsList(lead)
    BY <2>1
  <2> HIDE DEF lead
  <2>3. IsList(lead \o two)
    BY <2>1, <2>2, ListOfTwo
  <2>4. QED
    BY <2>3 DEF lead, one, two
<1>5. ForEachColumn(c, op) = FlattenSeq(ss)
  BY Zenon DEF ForEachColumn
<1> HIDE DEF part, Tp, at, same
<1>6. ss = [i \in 1 .. n |-> part(i)] /\ ss = [i \in 1 .. n |-> ss[i]]
  BY <1>2
<1>7. \A i \in 1 .. n : ss[i] = part(i)
  BY <1>6
<1> HIDE DEF ss, n
<1>8. IsList(ss) /\ Len(ss) = n
  BY <1>2, <1>6, FunctionIsList
<1>9. \A i \in 1 .. Len(ss) : IsList(ss[i])
  BY <1>4, <1>7, <1>8
<1>10. (\E g : Grown(g, done, ss, Len(ss), all)) /\ IsList(FlattenSeq(ss))
  <2>1. IsList(ss)
    BY <1>8
  <2>2. QED
    BY <1>1, <1>9, <2>1, FlattenAfter
<1>11. PICK g : Grown(g, done, ss, n, all)
  BY <1>8, <1>10
<1> HIDE DEF all
<1>12. /\ g[0] = done /\ g[n] = all
       /\ \A i \in 0 .. n : IsList(g[i]) /\ Len(g[i]) <= Len(all)
       /\ \A i \in 0 .. n - 1 : g[i + 1] = g[i] \o ss[i + 1]
  BY <1>11 DEF Grown
<1>13. \A x \in DOMAIN later : x \notin 0 .. Len(all)
  BY <1>5 DEF all
<1>14. Knows(a, <<>>, Virtual, T, T, open, fresh, NoTable)
  BY CopyingFacts
<1>15. a \in Knowledge /\ Implies(a, a)
  BY <1>14, ImpliesItself DEF Knows
<1>16. Implies(a, b) /\ Built(m, names, marks, later, done, a)
  OBVIOUS
<1> HIDE DEF a, m, names
<1> DEFINE to(i) == IF i = n THEN b ELSE a
           B == {i \in 0 .. n : Built(m, names, marks, later, g[i], to(i))}
<1>17. 0 \in B
  <2>1. to(0) = a /\ 0 \in 0 .. n
    BY <1>2
  <2> HIDE DEF to
  <2>2. QED
    BY <1>12, <1>16, <2>1
<1>18. ASSUME NEW i \in 0 .. n - 1, i \in B
       PROVE  i + 1 \in B
  <2>1. i + 1 \in 1 .. n /\ i + 1 \in 0 .. n /\ i \in 0 .. n /\ i # n
    BY <1>2
  <2>2. to(i) = a /\ to(i + 1) \in Knowledge /\ Implies(a, to(i + 1))
    BY <1>15, <1>16, <2>1
  <2>3. Built(m, names, marks, later, g[i], to(i))
    BY <1>18
  <2> HIDE DEF to
  <2>4. PICK t, d, s, w : /\ t = Tp(i + 1) /\ d = at(i + 1) /\ s = same(i + 1) /\ w = part(i + 1)
    OBVIOUS
  <2>5. /\ t \in Virtual /\ d \in 0 .. Len(m) - 1 /\ s \in BOOLEAN
        /\ w = (IF s THEN <<>> ELSE <<I("SETTBL", t)>>) \o <<I(op, d)>>
    BY <1>3, <2>1, <2>4 DEF part
  <2>6. g[i + 1] = g[i] \o w
    <3>1. g[i + 1] = g[i] \o ss[i + 1]
      BY <1>12
    <3>2. QED
      BY <1>7, <2>1, <2>4, <3>1
  <2>7. \A x \in DOMAIN later : x \notin 0 .. Len(g[i] \o w)
    <3>1. Len(g[i + 1]) <= Len(all) /\ IsList(g[i + 1])
      BY <1>12, <2>1
    <3>2. Len(g[i + 1]) \in Nat
      BY <3>1, ListFacts
    <3>3. IsList(all)
      BY <1>2, <1>12
    <3>4. Len(all) \in Nat
      BY <3>3, ListFacts
    <3>5. PICK x, y : x = Len(g[i + 1]) /\ y = Len(all)
      OBVIOUS
    <3>6. 0 .. x \subseteq 0 .. y
      BY <3>1, <3>2, <3>4, <3>5
    <3>7. QED
      BY <1>13, <2>6, <3>5, <3>6
  <2>8. Built(m, names, marks, later, g[i], a)
    BY <2>2, <2>3
  <2>9. PICK h, z : h = g[i] /\ z = to(i + 1)
    OBVIOUS
  <2>10. Built(m, names, marks, later, h \o w, z)
    <3>1. Built(m, names, marks, later, h, Copying(T, Virtual, open, fresh))
      BY <2>8, <2>9 DEF a
    <3>2. z \in Knowledge /\ Implies(Copying(T, Virtual, open, fresh), z)
      BY <2>2, <2>9 DEF a
    <3>3. \A x \in DOMAIN later : x \notin 0 .. Len(h \o w)
      BY <2>7, <2>9
    <3>4. QED
      BY <2>5, <3>1, <3>2, <3>3, ColumnBuilt
  <2>11. QED
    BY <2>1, <2>6, <2>9, <2>10
<1> HIDE DEF B
<1>19. 0 .. n \subseteq B
  BY <1>2, <1>17, <1>18, SetInduction
<1>20. n \in B
  BY <1>2, <1>19
<1>21. Built(m, names, marks, later, all, b)
  <2>1. to(n) = b
    OBVIOUS
  <2> HIDE DEF to
  <2>2. QED
    BY <1>12, <1>20, <2>1 DEF B
<1>22. QED
  BY <1>5, <1>10, <1>21 DEF all, m, names

-----------------------------------------------------------------------------
(* What is known between the instructions of the loops. *)
Between(T, open) == Looping(T, <<>>, Virtual, open, NoTable)

(* The knowledge between two parts of the loops. *)
LEMMA BetweenFacts ==
  ASSUME NEW T \in SUBSET Virtual, NEW open \in SUBSET Virtual
  PROVE  /\ Knows(Between(T, open), <<>>, Virtual, T, T, open, FALSE, NoTable)
         /\ Len(Between(T, open).stack) <= 2
<1> DEFINE words == <<>>
<1>1. /\ words \in {<<>>, <<Bit>>, <<Bit, Bit>>} /\ Virtual \in SUBSET Virtual
      /\ NoTable \in Virtual \cup {NoTable}
  OBVIOUS
<1> HIDE DEF words
<1>2. /\ Knows(Looping(T, words, Virtual, open, NoTable), words, Virtual, T, T, open, FALSE, NoTable)
      /\ Len(Looping(T, words, Virtual, open, NoTable).stack) <= 2
  BY <1>1, LoopingFacts
<1>3. QED
  BY <1>2 DEF words, Between

(* RSTTBL opens a scan. *)
LEMMA RewindBuilt ==
  ASSUME NEW m, NEW names, NEW marks, NEW later, NEW done, NEW T \in SUBSET Virtual,
         NEW open \in SUBSET Virtual, Built(m, names, marks, later, done, Between(T, open)),
         NEW t \in T, t \notin open, Len(done) + 1 \notin DOMAIN later
  PROVE  Built(m, names, marks, later, Append(done, I("RSTTBL", t)), Between(T, open \cup {t}))
<1> DEFINE a == Between(T, open)
           b == Between(T, open \cup {t})
           one == Append(done, I("RSTTBL", t))
<1>1. open \cup {t} \in SUBSET Virtual
  OBVIOUS
<1>2. /\ Knows(a, <<>>, Virtual, T, T, open, FALSE, NoTable) /\ Len(a.stack) <= 2
      /\ Knows(b, <<>>, Virtual, T, T, open \cup {t}, FALSE, NoTable)
  BY <1>1, BetweenFacts
<1>3. Implies([a EXCEPT !.open = @ \cup {t}], b)
  BY DEF Between, Looping, Made, Implies
<1> HIDE DEF a, b
<1>4. Built(m, names, marks, later, done, a)
  BY DEF a
<1>5. /\ a.more = NoTable /\ t \in a.loaded /\ t \notin a.open /\ ~a.fresh /\ b \in Knowledge
  BY <1>2 DEF Knows
<1>6. PICK know : Continuing(m, names, marks, later, done, a, I("RSTTBL", t), b, know)
  BY <1>2, <1>4, <1>5, BuiltNext
<1>7. Added(Piece(one, m), names, know, later, b)
  <2>1. Adding(Piece(done, m), Piece(one, m), names, know, later, a, I("RSTTBL", t), b)
    BY <1>6 DEF Continuing
  <2>2. QED
    BY <1>3, <1>5, <2>1, AddRSTTBL
<1>8. Built(m, names, marks, later, one, b)
  BY <1>6, <1>7, BuiltAdded
<1>9. QED
  BY <1>8 DEF b

(* The head of a loop is marked; it leaves the loop to what is known already. *)
LEMMA HeadBuilt ==
  ASSUME NEW m, NEW names, NEW marks, NEW later, NEW done, NEW T \in SUBSET Virtual,
         NEW open \in SUBSET Virtual, Built(m, names, marks, later, done, Between(T, open)),
         NEW t \in T, t \in open, NEW d \in Nat, d \in DOMAIN later,
         later[d] = Between(T, open \ {t}),
         Len(done) + 1 \notin DOMAIN later, Len(done) + 2 \notin DOMAIN later
  PROVE  /\ Built(m, names, marks \cup {<<Len(done), Between(T, open)>>}, later,
                  done \o <<I("NXTREC", t), I("JMPF", d)>>, Between(T, open))
         /\ Len(done \o <<I("NXTREC", t), I("JMPF", d)>>) = Len(done) + 2
<1> DEFINE a == Between(T, open)
           words == <<Bit>>
           b == Looping(T, words, Virtual, open, t)
           one == Append(done, I("NXTREC", t))
           two == Append(one, I("JMPF", d))
           wider == marks \cup {<<Len(done), a>>}
<1>1. Knows(a, <<>>, Virtual, T, T, open, FALSE, NoTable) /\ Len(a.stack) <= 2
  BY BetweenFacts
<1>2. Knows(b, words, Virtual, T, T, open, FALSE, t) /\ Len(b.stack) <= 2
  <2>1. words \in {<<>>, <<Bit>>, <<Bit, Bit>>} /\ t \in Virtual \cup {NoTable}
    OBVIOUS
  <2> HIDE DEF words
  <2>2. QED
    BY <2>1, LoopingFacts
<1>3. Implies([Pushed(a, Bit) EXCEPT !.more = t], b)
  <2>1. Append(<<>>, Bit) = words
    BY OneOnTop
  <2> HIDE DEF words
  <2>2. QED
    BY <2>1 DEF Between, Looping, Made, Implies, Pushed
<1>4. Implies([b EXCEPT !.stack = <<>>, !.more = NoTable], a)
  BY DEF Between, Looping, Made, Implies
<1>5. Implies([b EXCEPT !.stack = <<>>, !.more = NoTable, !.open = @ \ {b.more}],
              Between(T, open \ {t}))
  BY DEF Between, Looping, Made, Implies
<1>6. IsList(done)
  BY BuiltIsList
<1>7. IsList(one) /\ Len(one) = Len(done) + 1 /\ Len(done) \in Nat
  BY <1>6, ListMore, ListFacts
<1>8. Built(m, names, wider, later, done, a)
  BY BuiltMarked
<1> HIDE DEF a, b, wider
<1>9. /\ a.more = NoTable /\ t \in a.loaded /\ t \in a.open /\ ~a.fresh /\ a.stack = <<>>
      /\ a \in Knowledge
  BY <1>1 DEF Knows
<1>10. b \in Knowledge /\ b.stack = <<Bit>> /\ ~b.fresh
  BY <1>2 DEF Knows
<1> HIDE DEF words
<1>11. Built(m, names, wider, later, one, b)
  <2>1. PICK know : Continuing(m, names, wider, later, done, a, I("NXTREC", t), b, know)
    BY <1>1, <1>8, <1>10, BuiltNext
  <2>2. Adding(Piece(done, m), Piece(one, m), names, know, later, a, I("NXTREC", t), b)
    BY <2>1 DEF Continuing
  <2>3. Added(Piece(one, m), names, know, later, b)
    BY <1>3, <1>9, <2>2, AddNXTREC
  <2>4. QED
    BY <2>1, <2>3, BuiltAdded
<1> HIDE DEF one
<1>12. Len(one) + 1 \notin DOMAIN later
  <2>1. Len(one) + 1 = Len(done) + 2
    BY <1>7
  <2>2. QED
    BY <2>1
<1>13. Built(m, names, wider, later, two, a)
  <2>1. PICK know : Continuing(m, names, wider, later, one, b, I("JMPF", d), a, know)
    BY <1>2, <1>9, <1>11, <1>12, BuiltNext
  <2>2. Adding(Piece(one, m), Piece(two, m), names, know, later, b, I("JMPF", d), a)
    BY <2>1 DEF Continuing
  <2>3. Leads(know, d, [b EXCEPT !.stack = <<>>, !.more = NoTable, !.open = @ \ {b.more}])
    <3>1. d \in DOMAIN know /\ know[d] = Between(T, open \ {t})
      BY <2>1 DEF Continuing
    <3>2. QED
      BY <1>5, <3>1 DEF Leads
  <2>4. Added(Piece(two, m), names, know, later, a)
    BY <1>4, <1>10, <2>2, <2>3, AddJMPF
  <2>5. QED
    BY <2>1, <2>4, BuiltAdded
<1>14. done \o <<I("NXTREC", t), I("JMPF", d)>> = two
  BY <1>6, TwoAfter DEF one
<1>15. Len(two) = Len(done) + 2
  <2>1. IsList(one)
    BY <1>7
  <2>2. Len(two) = Len(one) + 1
    BY <2>1, ListMore
  <2>3. QED
    BY <1>7, <2>2
<1>16. QED
  BY <1>13, <1>14, <1>15 DEF a, wider

(* The tables of the loops down to this level. *)
Opened(over, level) == {over[i] : i \in 1 .. level}

(* The heads of the loops: the head of each but the first rewinds its table. *)
HeadOf(over, ends, level) ==
  (IF level = 1 THEN <<>> ELSE <<I("RSTTBL", over[level])>>)
    \o <<I("NXTREC", over[level]), I("JMPF", ends[level])>>

(* Where the loops' tails jump back to, with what is known there. *)
Heads(T, over, n, start) == {<<start + 3 * (i - 1), Between(T, Opened(over, i))>> : i \in 1 .. n}

(* The tables of the loops; where each loop ends is known of the others. *)
LoopFacts(T, over, n, ends, later) ==
  /\ n \in Nat /\ n # 0 /\ T \in SUBSET Virtual
  /\ \A i \in 1 .. n : over[i] \in T
  /\ \A i, j \in 1 .. n : over[i] = over[j] => i = j
  /\ \A i \in 1 .. n : /\ ends[i] \in Nat /\ ends[i] \in DOMAIN later
                       /\ later[ends[i]] = Between(T, Opened(over, i) \ {over[i]})

(* A level deeper one more is open. *)
LEMMA OpenedMore ==
  ASSUME NEW over, NEW i \in Nat
  PROVE  /\ Opened(over, i + 1) = Opened(over, i) \cup {over[i + 1]}
         /\ Opened(over, 0) = {}
<1>1. 1 .. i + 1 = (1 .. i) \cup {i + 1}
  OBVIOUS
<1>2. QED
  BY <1>1 DEF Opened

(* The table of a level is loaded, and is not open above it. *)
LEMMA OpenedFacts ==
  ASSUME NEW T, NEW over, NEW n, NEW ends, NEW later, LoopFacts(T, over, n, ends, later),
         NEW i \in 0 .. n - 1
  PROVE  /\ Opened(over, i) \in SUBSET Virtual /\ Opened(over, i + 1) \in SUBSET Virtual
         /\ over[i + 1] \notin Opened(over, i) /\ over[i + 1] \in T
         /\ Opened(over, i + 1) = Opened(over, i) \cup {over[i + 1]}
         /\ Opened(over, i + 1) \ {over[i + 1]} = Opened(over, i)
<1>1. /\ n \in Nat /\ T \in SUBSET Virtual
      /\ \A k \in 1 .. n : over[k] \in T
      /\ \A k, j \in 1 .. n : over[k] = over[j] => k = j
  BY DEF LoopFacts
<1>2. i + 1 \in 1 .. n /\ i \in Nat /\ \A k \in 1 .. i : k \in 1 .. n /\ k # i + 1
  BY <1>1
<1>3. \A k \in 1 .. i : over[k] \in T /\ over[k] # over[i + 1]
  BY <1>1, <1>2
<1>4. over[i + 1] \notin Opened(over, i) /\ Opened(over, i) \in SUBSET T
  BY <1>3 DEF Opened
<1>5. Opened(over, i + 1) = Opened(over, i) \cup {over[i + 1]} /\ over[i + 1] \in T
  BY <1>1, <1>2, OpenedMore
<1>6. QED
  BY <1>1, <1>4, <1>5

(* A level deeper there is one more to jump back to. *)
LEMMA HeadsMore ==
  ASSUME NEW T, NEW over, NEW start, NEW i \in Nat
  PROVE  /\ Heads(T, over, i + 1, start)
              = Heads(T, over, i, start) \cup {<<start + 3 * i, Between(T, Opened(over, i + 1))>>}
         /\ Heads(T, over, 0, start) = {}
<1>1. 1 .. i + 1 = (1 .. i) \cup {i + 1} /\ (i + 1) - 1 = i
  OBVIOUS
<1>2. QED
  BY <1>1 DEF Heads

(* The heads of the loops, one after the other. *)
Heading(over, ends, n) == [level \in 1 .. n |-> HeadOf(over, ends, level)]

(* Where they end. *)
HeadsEnd(start, n, end) == end = Len(start) + 3 * n - 1

(* The heads of all loops are built. *)
LEMMA HeadsBuilt ==
  ASSUME NEW m, NEW names, NEW later, NEW before0, NEW T, NEW over, NEW n, NEW ends,
         LoopFacts(T, over, n, ends, later), NEW ss, ss = Heading(over, ends, n),
         Built(m, names, {}, later, before0, Between(T, Opened(over, 1))),
         NEW end, HeadsEnd(before0, n, end), \A x \in DOMAIN later : x \notin 0 .. end
  PROVE  /\ Built(m, names, Heads(T, over, n, Len(before0)), later, before0 \o FlattenSeq(ss),
                  Between(T, Opened(over, n)))
         /\ Len(before0 \o FlattenSeq(ss)) = end
         /\ IsList(FlattenSeq(ss))
<1> DEFINE start == Len(before0)
           all == before0 \o FlattenSeq(ss)
           nx(i) == I("NXTREC", over[i])
           jf(i) == I("JMPF", ends[i])
           rw(i) == I("RSTTBL", over[i])
           two(i) == <<nx(i), jf(i)>>
<1>1. /\ n \in Nat /\ n # 0 /\ T \in SUBSET Virtual
      /\ \A i \in 1 .. n : /\ ends[i] \in Nat /\ ends[i] \in DOMAIN later
                           /\ later[ends[i]] = Between(T, Opened(over, i) \ {over[i]})
  BY DEF LoopFacts
<1>2. IsList(before0)
  BY BuiltIsList
<1>3. start \in Nat
  BY <1>2, ListFacts
<1>4. /\ \A i \in 1 .. n : IsList(two(i)) /\ IsList(<<rw(i)>>)
      /\ IsList(<<>>)
  <2> HIDE DEF nx, jf, rw
  <2>1. IsList(<<>>)
    BY DEF IsList
  <2>2. QED
    BY <2>1, OneIsList, TwoIsList
<1>5. \A i \in 1 .. n : ss[i] = HeadOf(over, ends, i)
  BY DEF Heading
<1>6. IsList(ss) /\ Len(ss) = n
  <2>1. ss = [i \in 1 .. n |-> ss[i]]
    BY DEF Heading
  <2>2. QED
    BY <1>1, <2>1, FunctionIsList
<1>7. \A i \in 1 .. n : ss[i] = IF i = 1 THEN two(i) ELSE <<rw(i)>> \o two(i)
  <2>1. ASSUME NEW i \in 1 .. n
        PROVE  ss[i] = IF i = 1 THEN two(i) ELSE <<rw(i)>> \o two(i)
    <3>1. IsList(two(i))
      BY <1>4
    <3>2. ss[i] = (IF i = 1 THEN <<>> ELSE <<rw(i)>>) \o two(i)
      BY <1>5 DEF HeadOf
    <3> HIDE DEF two, rw
    <3>3. <<>> \o two(i) = two(i)
      BY <3>1, NothingMore
    <3>4. QED
      BY <3>2, <3>3
  <2>2. QED
    BY <2>1
<1> HIDE DEF two, rw
<1>8. \A i \in 1 .. Len(ss) : IsList(ss[i])
  <2>1. ASSUME NEW i \in 1 .. n
        PROVE  IsList(ss[i])
    <3>1. IsList(two(i)) /\ IsList(<<rw(i)>>)
      BY <1>4
    <3>2. IsList(<<rw(i)>> \o two(i))
      BY <3>1, ListOfTwo
    <3>3. QED
      BY <1>7, <3>1, <3>2
  <2>2. QED
    BY <1>6, <2>1
<1>9. (\E g : Grown(g, before0, ss, Len(ss), all)) /\ IsList(FlattenSeq(ss))
  <2>1. IsList(ss)
    BY <1>6
  <2>2. QED
    BY <1>2, <1>8, <2>1, FlattenAfter
<1>10. PICK g : Grown(g, before0, ss, n, all)
  BY <1>6, <1>9
<1> HIDE DEF all, start
<1>11. /\ g[0] = before0 /\ g[n] = all
       /\ \A i \in 0 .. n : IsList(g[i])
       /\ \A i \in 0 .. n - 1 : g[i + 1] = g[i] \o ss[i + 1]
  BY <1>10 DEF Grown
<1>12. \A k \in Nat : k <= start + 3 * n - 1 => k \notin DOMAIN later
  BY <1>1, <1>3 DEF start, HeadsEnd
<1> DEFINE length(i) == IF i = 0 THEN start ELSE start + 3 * i - 1
           open(i) == IF i = 0 THEN Opened(over, 1) ELSE Opened(over, i)
           marks(i) == Heads(T, over, i, start)
           B == {i \in 0 .. n : /\ Len(g[i]) = length(i)
                                /\ Built(m, names, marks(i), later, g[i], Between(T, open(i)))}
<1>13. 0 \in B
  <2>1. Built(m, names, marks(0), later, g[0], Between(T, open(0)))
    <3>1. marks(0) = {} /\ open(0) = Opened(over, 1)
      BY HeadsMore
    <3> HIDE DEF marks, open
    <3>2. QED
      BY <1>11, <3>1
  <2>2. Len(g[0]) = length(0) /\ 0 \in 0 .. n
    BY <1>1, <1>11 DEF start
  <2> HIDE DEF marks, open, length
  <2>3. QED
    BY <2>1, <2>2
<1>14. ASSUME NEW i \in 0 .. n - 1, i \in B
       PROVE  i + 1 \in B
  <2>1. i + 1 \in 1 .. n /\ i + 1 \in 0 .. n /\ i \in 0 .. n /\ i \in Nat /\ i + 1 # 0
    BY <1>1
  <2>2. PICK h, w, t, d, O : /\ h = g[i] /\ w = two(i + 1) /\ t = over[i + 1] /\ d = ends[i + 1]
                             /\ O = Opened(over, i + 1)
    OBVIOUS
  <2>3. IsList(h) /\ IsList(w) /\ w = <<I("NXTREC", t), I("JMPF", d)>>
    BY <1>4, <1>11, <2>1, <2>2 DEF two
  <2>4. /\ Opened(over, i) \in SUBSET Virtual /\ O \in SUBSET Virtual
        /\ t \notin Opened(over, i) /\ t \in T /\ O = Opened(over, i) \cup {t}
    BY <2>2, OpenedFacts
  <2>5. /\ d \in Nat /\ d \in DOMAIN later /\ later[d] = Between(T, O \ {t}) /\ t \in O
    BY <1>1, <2>1, <2>2, <2>4
  <2>6. /\ Len(h) = length(i)
        /\ Built(m, names, marks(i), later, h, Between(T, open(i)))
    BY <1>14, <2>2
  <2>7. ss[i + 1] = IF i + 1 = 1 THEN w ELSE <<I("RSTTBL", t)>> \o w
    BY <1>7, <2>1, <2>2 DEF rw
  <2>16. g[i + 1] = h \o ss[i + 1]
    <3>1. g[i + 1] = g[i] \o ss[i + 1]
      BY <1>11
    <3>2. QED
      BY <2>2, <3>1
  (* the table is rewound, unless it is the first *)
  <2>8. PICK u : /\ g[i + 1] = u \o w /\ Len(u) = start + 3 * i
                 /\ Built(m, names, marks(i), later, u, Between(T, O))
    <3>1. CASE i = 0
      <4>1. g[i + 1] = h \o w
        <5>1. ss[i + 1] = w
          BY <2>7, <3>1
        <5>2. QED
          BY <2>16, <5>1
      <4>2. Len(h) = start + 3 * i
        BY <1>3, <2>6, <3>1
      <4>3. open(i) = O
        BY <2>2, <3>1
      <4>4. QED
        BY <2>6, <4>1, <4>2, <4>3
    <3>2. CASE i # 0
      <4> DEFINE one == I("RSTTBL", t)
                 u == Append(h, one)
      <4>1. g[i + 1] = h \o (<<one>> \o w)
        <5>1. ss[i + 1] = <<one>> \o w
          <6>1. i + 1 # 1
            BY <2>1, <3>2
          <6>2. QED
            BY <2>7, <6>1
        <5> HIDE DEF one
        <5>2. QED
          BY <2>16, <5>1
      <4>2. Len(h) + 1 = start + 3 * i
        BY <1>3, <2>1, <2>6, <3>2
      <4>3. Built(m, names, marks(i), later, h, Between(T, Opened(over, i)))
        BY <2>6, <3>2
      <4>4. Len(h) + 1 \notin DOMAIN later
        BY <1>1, <1>3, <1>12, <2>1, <4>2
      <4>5. Built(m, names, marks(i), later, u, Between(T, Opened(over, i) \cup {t}))
        <5> HIDE DEF marks
        <5>1. QED
          BY <1>1, <2>4, <4>3, <4>4, RewindBuilt
      <4> HIDE DEF one
      <4>6. h \o <<one>> = u
        BY <2>3, OneAfter
      <4>7. IsList(<<one>>)
        BY OneIsList
      <4>8. (h \o <<one>>) \o w = h \o (<<one>> \o w)
        BY <2>3, <4>7, ThreeLists
      <4>9. Len(u) = Len(h) + 1
        BY <2>3, ListMore
      <4>10. g[i + 1] = u \o w
        BY <4>1, <4>6, <4>8
      <4> HIDE DEF u, marks
      <4>11. QED
        BY <2>4, <4>2, <4>5, <4>9, <4>10
    <3>3. QED
      BY <3>1, <3>2
  <2>9. Len(u) + 1 \notin DOMAIN later /\ Len(u) + 2 \notin DOMAIN later
    <3>1. /\ Len(u) + 1 \in Nat /\ Len(u) + 1 <= start + 3 * n - 1
          /\ Len(u) + 2 \in Nat /\ Len(u) + 2 <= start + 3 * n - 1
      BY <1>1, <1>3, <2>1, <2>8
    <3>2. QED
      BY <1>12, <3>1
  <2>10. /\ Built(m, names, marks(i) \cup {<<Len(u), Between(T, O)>>}, later, u \o w, Between(T, O))
         /\ Len(u \o w) = Len(u) + 2
    <3> DEFINE pair == <<I("NXTREC", t), I("JMPF", d)>>
    <3>1. PICK s : s = marks(i)
      OBVIOUS
    <3> HIDE DEF marks
    <3>2. Built(m, names, s, later, u, Between(T, O)) /\ T \in SUBSET Virtual
      BY <1>1, <2>8, <3>1
    <3>3. /\ Built(m, names, s \cup {<<Len(u), Between(T, O)>>}, later, u \o pair, Between(T, O))
          /\ Len(u \o pair) = Len(u) + 2
      <4>1. /\ O \in SUBSET Virtual /\ t \in T /\ t \in O /\ d \in Nat /\ d \in DOMAIN later
            /\ later[d] = Between(T, O \ {t})
            /\ Len(u) + 1 \notin DOMAIN later /\ Len(u) + 2 \notin DOMAIN later
        BY <2>4, <2>5, <2>9
      <4>2. QED
        BY <3>2, <4>1, HeadBuilt
    <3>4. pair = w
      BY <2>3
    <3> HIDE DEF pair
    <3>5. QED
      BY <3>1, <3>3, <3>4
  <2>11. marks(i + 1) = marks(i) \cup {<<Len(u), Between(T, O)>>}
    BY <2>1, <2>2, <2>8, HeadsMore
  <2>12. Len(g[i + 1]) = length(i + 1)
    <3>1. Len(g[i + 1]) = start + 3 * i + 2
      BY <2>8, <2>10
    <3>2. length(i + 1) = start + 3 * (i + 1) - 1
      BY <2>1
    <3>3. start + 3 * i + 2 = start + 3 * (i + 1) - 1
      BY <1>3, <2>1
    <3>4. QED
      BY <3>1, <3>2, <3>3
  <2>13. open(i + 1) = O
    BY <2>1, <2>2
  <2> HIDE DEF marks, open, length
  <2>14. Built(m, names, marks(i + 1), later, g[i + 1], Between(T, open(i + 1)))
    BY <2>8, <2>10, <2>11, <2>13
  <2>15. QED
    BY <2>1, <2>12, <2>14
<1> HIDE DEF B
<1>15. 0 .. n \subseteq B
  BY <1>1, <1>13, <1>14, SetInduction
<1>16. n \in B
  BY <1>1, <1>15
<1>17. /\ Len(all) = start + 3 * n - 1
       /\ Built(m, names, marks(n), later, all, Between(T, Opened(over, n)))
  <2>1. /\ Len(g[n]) = length(n) /\ Built(m, names, marks(n), later, g[n], Between(T, open(n)))
    BY <1>16 DEF B
  <2>2. length(n) = start + 3 * n - 1 /\ open(n) = Opened(over, n)
    BY <1>1
  <2> HIDE DEF marks, open, length
  <2>3. QED
    BY <1>11, <2>1, <2>2
<1>18. QED
  BY <1>9, <1>17 DEF all, start, HeadsEnd

-----------------------------------------------------------------------------
(* What is known within a condition. *)
Asking(T, words, open) == Looping(T, words, Virtual, open, NoTable)

(* It is knowledge. *)
LEMMA AskingFacts ==
  ASSUME NEW T \in SUBSET Virtual, NEW open \in SUBSET Virtual,
         NEW words \in {<<>>, <<Bit>>, <<Bit, Bit>>}
  PROVE  /\ Knows(Asking(T, words, open), words, Virtual, T, T, open, FALSE, NoTable)
         /\ Len(Asking(T, words, open).stack) <= 2
<1>1. Virtual \in SUBSET Virtual /\ NoTable \in Virtual \cup {NoTable}
  OBVIOUS
<1>2. QED
  BY <1>1, LoopingFacts DEF Asking

(* CMP leaves a bit, *)
LEMMA CompareBuilt ==
  ASSUME NEW m, NEW names, NEW marks, NEW later, NEW done, NEW T \in SUBSET Virtual,
         NEW open \in SUBSET Virtual, NEW words, NEW more,
         (words = <<>> /\ more = <<Bit>>) \/ (words = <<Bit>> /\ more = <<Bit, Bit>>),
         Built(m, names, marks, later, done, Asking(T, words, open)),
         NEW c, c.memory = m, NEW d, Stored(c, d), Operands(c, m[d + 1]),
         Len(done) + 1 \notin DOMAIN later
  PROVE  Built(m, names, marks, later, Append(done, I("CMP", d)), Asking(T, more, open))
<1> DEFINE a == Asking(T, words, open)
           b == Asking(T, more, open)
           one == Append(done, I("CMP", d))
<1>1. /\ words \in {<<>>, <<Bit>>, <<Bit, Bit>>} /\ more \in {<<>>, <<Bit>>, <<Bit, Bit>>}
      /\ Append(words, Bit) = more /\ Len(words) < 2
  <2>1. Append(<<>>, Bit) = <<Bit>>
    BY OneOnTop
  <2>2. Append(<<Bit>>, Bit) = <<Bit, Bit>>
    <3>1. \A x : Append(<<x>>, x) = <<x, x>>
      <4>1. ASSUME NEW x
            PROVE  Append(<<x>>, x) = <<x, x>>
        <5>1. IsList(<<>>)
          BY DEF IsList
        <5>2. <<>> \o <<x, x>> = Append(Append(<<>>, x), x)
          BY <5>1, TwoAfter
        <5>3. IsList(<<x, x>>)
          BY TwoIsList
        <5>4. <<>> \o <<x, x>> = <<x, x>>
          BY <5>3, NothingMore
        <5>5. Append(<<>>, x) = <<x>>
          BY OneOnTop
        <5>6. QED
          BY <5>2, <5>4, <5>5
      <4>2. QED
        BY <4>1
    <3> HIDE DEF Bit
    <3>2. QED
      BY <3>1
  <2>3. Len(<<>>) < 2 /\ Len(<<Bit>>) < 2
    OBVIOUS
  <2> HIDE DEF Bit
  <2>4. QED
    BY <2>1, <2>2, <2>3
<1>2. /\ Knows(a, words, Virtual, T, T, open, FALSE, NoTable) /\ Len(a.stack) <= 2
      /\ Knows(b, more, Virtual, T, T, open, FALSE, NoTable)
  BY <1>1, AskingFacts
<1>3. Implies(Pushed(a, Bit), b)
  BY <1>1 DEF Asking, Looping, Made, Implies, Pushed
<1> HIDE DEF a, b
<1>4. Built(m, names, marks, later, done, a)
  BY DEF a
<1>5. a.more = NoTable /\ Len(a.stack) < 2 /\ b \in Knowledge
  BY <1>1, <1>2 DEF Knows
<1>6. PICK know : Continuing(m, names, marks, later, done, a, I("CMP", d), b, know)
  BY <1>2, <1>4, <1>5, BuiltNext
<1>7. Stored(Piece(one, m), d) /\ Operands(Piece(one, m), Piece(one, m).memory[d + 1])
  BY DEF Stored, Operands, Piece
<1>8. Adding(Piece(done, m), Piece(one, m), names, know, later, a, I("CMP", d), b)
  BY <1>6 DEF Continuing
<1> HIDE DEF one
<1>9. Added(Piece(one, m), names, know, later, b)
  BY <1>3, <1>5, <1>7, <1>8, AddCMP
<1>10. QED
  BY <1>6, <1>9, BuiltAdded DEF b, one

(* BOOL makes one of two, *)
LEMMA CombineBuilt ==
  ASSUME NEW m, NEW names, NEW marks, NEW later, NEW done, NEW T \in SUBSET Virtual,
         NEW open \in SUBSET Virtual,
         Built(m, names, marks, later, done, Asking(T, <<Bit, Bit>>, open)),
         NEW d, Len(done) + 1 \notin DOMAIN later
  PROVE  Built(m, names, marks, later, Append(done, I("BOOL", d)), Asking(T, <<Bit>>, open))
<1> DEFINE two == <<Bit, Bit>>
           word == <<Bit>>
           a == Asking(T, two, open)
           b == Asking(T, word, open)
           one == Append(done, I("BOOL", d))
<1>1. two \in {<<>>, <<Bit>>, <<Bit, Bit>>} /\ word \in {<<>>, <<Bit>>, <<Bit, Bit>>}
  OBVIOUS
<1>2. /\ Knows(a, two, Virtual, T, T, open, FALSE, NoTable) /\ Len(a.stack) <= 2
      /\ Knows(b, word, Virtual, T, T, open, FALSE, NoTable)
  <2> HIDE DEF two, word
  <2>1. QED
    BY <1>1, AskingFacts
<1>3. Implies([a EXCEPT !.stack = <<Bit>>], b)
  BY DEF Asking, Looping, Made, Implies
<1> HIDE DEF a, b
<1>4. Built(m, names, marks, later, done, a)
  BY DEF a
<1>5. a.more = NoTable /\ a.stack = <<Bit, Bit>> /\ b \in Knowledge
  BY <1>2 DEF Knows
<1>6. PICK know : Continuing(m, names, marks, later, done, a, I("BOOL", d), b, know)
  BY <1>2, <1>4, <1>5, BuiltNext
<1>8. Adding(Piece(done, m), Piece(one, m), names, know, later, a, I("BOOL", d), b)
  BY <1>6 DEF Continuing
<1> HIDE DEF one
<1>9. Added(Piece(one, m), names, know, later, b)
  BY <1>3, <1>5, <1>8, AddBOOL
<1>10. QED
  BY <1>6, <1>9, BuiltAdded DEF b, one

(* and JMPF goes back if it is 0. *)
LEMMA FailBuilt ==
  ASSUME NEW m, NEW names, NEW marks, NEW later, NEW done, NEW T \in SUBSET Virtual,
         NEW open \in SUBSET Virtual,
         Built(m, names, marks, later, done, Asking(T, <<Bit>>, open)),
         NEW d \in Nat, <<d, Between(T, open)>> \in marks, Len(done) + 1 \notin DOMAIN later
  PROVE  Built(m, names, marks, later, Append(done, I("JMPF", d)), Between(T, open))
<1> DEFINE word == <<Bit>>
           a == Asking(T, word, open)
           b == Between(T, open)
           one == Append(done, I("JMPF", d))
<1>1. word \in {<<>>, <<Bit>>, <<Bit, Bit>>} /\ open \ {NoTable} = open
  <2>1. word \in {<<>>, <<Bit>>, <<Bit, Bit>>}
    OBVIOUS
  <2>2. NoTable \notin Virtual
    BY ValuesAssumption DEF Virtual
  <2>3. open \ {NoTable} = open
    BY <2>2
  <2>4. QED
    BY <2>1, <2>3
<1>2. /\ Knows(a, word, Virtual, T, T, open, FALSE, NoTable) /\ Len(a.stack) <= 2
      /\ Knows(b, <<>>, Virtual, T, T, open, FALSE, NoTable)
  <2> HIDE DEF word
  <2>1. QED
    BY <1>1, AskingFacts, BetweenFacts
<1>3. /\ Implies([a EXCEPT !.stack = <<>>, !.more = NoTable], b)
      /\ Implies([a EXCEPT !.stack = <<>>, !.more = NoTable, !.open = @ \ {a.more}], b)
  BY <1>1 DEF Asking, Between, Looping, Made, Implies
<1> HIDE DEF a, b
<1>4. Built(m, names, marks, later, done, a)
  BY DEF a
<1>5. a.stack = <<Bit>> /\ ~a.fresh /\ b \in Knowledge
  BY <1>2 DEF Knows
<1>6. PICK know : Continuing(m, names, marks, later, done, a, I("JMPF", d), b, know)
  BY <1>2, <1>4, <1>5, BuiltNext
<1>7. Leads(know, d, [a EXCEPT !.stack = <<>>, !.more = NoTable, !.open = @ \ {a.more}])
  <2> DEFINE x == <<d, b>>
  <2>1. x \in marks /\ x[1] = d /\ x[2] = b
    BY DEF b
  <2> HIDE DEF x
  <2>2. d \in DOMAIN know /\ know[d] = b
    BY <1>6, <2>1 DEF Continuing, Marked
  <2>3. QED
    BY <1>3, <2>2 DEF Leads
<1>8. Adding(Piece(done, m), Piece(one, m), names, know, later, a, I("JMPF", d), b)
  BY <1>6 DEF Continuing
<1> HIDE DEF one
<1>9. Added(Piece(one, m), names, know, later, b)
  BY <1>3, <1>5, <1>7, <1>8, AddJMPF
<1>10. QED
  BY <1>6, <1>9, BuiltAdded DEF b, one

(* A comparison, and from the second on its combination with those before it. *)
CheckOf(c, i) ==
  <<I("CMP", c.where[i].param)>> \o (IF i = 1 THEN <<>> ELSE <<I("BOOL", c.where[i].link)>>)

(* One condition, *)
LEMMA CheckBuilt ==
  ASSUME NEW m, NEW names, NEW marks, NEW later, NEW done, NEW T \in SUBSET Virtual,
         NEW open \in SUBSET Virtual, NEW lead \in BOOLEAN,
         Built(m, names, marks, later, done, Asking(T, IF lead THEN <<>> ELSE <<Bit>>, open)),
         NEW c, c.memory = m, NEW d, Stored(c, d), Operands(c, m[d + 1]), NEW link,
         NEW w, w = <<I("CMP", d)>> \o (IF lead THEN <<>> ELSE <<I("BOOL", link)>>),
         \A x \in DOMAIN later : x \notin 0 .. Len(done \o w)
  PROVE  Built(m, names, marks, later, done \o w, Asking(T, <<Bit>>, open))
<1> DEFINE e == I("CMP", d)
           f == I("BOOL", link)
           one == Append(done, e)
<1>1. IsList(done)
  BY BuiltIsList
<1>2. IsList(one) /\ Len(one) = Len(done) + 1 /\ Len(done) \in Nat
  <2> HIDE DEF e
  <2>1. QED
    BY <1>1, ListMore, ListFacts
<1>3. CASE lead
  <2>1. Built(m, names, marks, later, done, Asking(T, <<>>, open))
    BY <1>3
  <2>2. w = <<e>> \o <<>>
    BY <1>3
  <2> HIDE DEF e
  <2>3. IsList(<<e>>)
    BY OneIsList
  <2>4. w = <<e>>
    BY <2>2, <2>3, NothingMore
  <2>5. done \o w = one
    BY <1>1, <2>4, OneAfter
  <2> HIDE DEF one
  <2>6. Len(done) + 1 \notin DOMAIN later
    BY <1>2, <2>5
  <2>7. Built(m, names, marks, later, one, Asking(T, <<Bit>>, open))
    BY <2>1, <2>6, CompareBuilt DEF e, one
  <2>8. QED
    BY <2>5, <2>7
<1>4. CASE ~lead
  <2> DEFINE two == Append(one, f)
  <2>1. Built(m, names, marks, later, done, Asking(T, <<Bit>>, open))
    BY <1>4
  <2>2. w = <<e>> \o <<f>>
    BY <1>4
  <2> HIDE DEF e, f
  <2>3. IsList(<<e>>) /\ IsList(<<f>>)
    BY OneIsList
  <2>4. done \o w = (done \o <<e>>) \o <<f>>
    <3>1. PICK u, v : u = <<e>> /\ v = <<f>>
      OBVIOUS
    <3>2. IsList(u) /\ IsList(v)
      BY <2>3, <3>1
    <3>3. (done \o u) \o v = done \o (u \o v)
      BY <1>1, <3>2, ThreeLists
    <3>4. w = u \o v
      BY <2>2, <3>1
    <3>5. done \o w = (done \o u) \o v
      BY <3>3, <3>4
    <3>6. QED
      BY <3>1, <3>5
  <2>5. done \o <<e>> = one
    BY <1>1, OneAfter
  <2> HIDE DEF one
  <2>6. one \o <<f>> = two
    <3>1. IsList(one)
      BY <1>2
    <3>2. QED
      BY <3>1, OneAfter
  <2>7. Len(two) = Len(one) + 1
    <3>1. IsList(one)
      BY <1>2
    <3>2. QED
      BY <3>1, ListMore
  <2> HIDE DEF two
  <2>8. done \o w = two
    BY <2>4, <2>5, <2>6
  <2>9. Len(done) + 1 \notin DOMAIN later /\ Len(one) + 1 \notin DOMAIN later
    <3>1. Len(done \o w) = Len(done) + 2
      BY <1>2, <2>7, <2>8
    <3>2. Len(one) + 1 = Len(done) + 2
      BY <1>2
    <3>3. QED
      BY <1>2, <3>1, <3>2
  <2>10. Built(m, names, marks, later, one, Asking(T, <<Bit, Bit>>, open))
    BY <2>1, <2>9, CompareBuilt DEF e, one
  <2>11. Built(m, names, marks, later, two, Asking(T, <<Bit>>, open))
    BY <2>9, <2>10, CombineBuilt DEF f, two
  <2>12. QED
    BY <2>8, <2>11
<1>5. QED
  BY <1>3, <1>4

(* and all (GenConditionCheck). *)
LEMMA ConditionsBuilt ==
  ASSUME NEW q \in Statements, q.kind = "select", NEW M, NEW c, Resolved(c, q, M),
         NEW marks, NEW later, NEW done, NEW T \in SUBSET Virtual, NEW open \in SUBSET Virtual,
         Built(c.memory, Named(q), marks, later, done, Between(T, open)),
         NEW back \in Nat, <<back, Between(T, open)>> \in marks,
         \A x \in DOMAIN later : x \notin 0 .. Len(done \o GenConditionCheck(c, back))
  PROVE  /\ Built(c.memory, Named(q), marks, later, done \o GenConditionCheck(c, back),
                  Between(T, open))
         /\ IsList(GenConditionCheck(c, back))
<1> DEFINE m == c.memory
           names == Named(q)
           n == Len(c.where)
           part(i) == CheckOf(c, i)
           ss == [i \in DOMAIN c.where |-> part(i)]
           fail == I("JMPF", back)
           made == done \o FlattenSeq(ss)
           all == done \o GenConditionCheck(c, back)
<1>1. IsList(done) /\ IsList(c.where)
  BY BuiltIsList DEF Resolved, UsedFacts
<1>2. n \in Nat /\ DOMAIN c.where = 1 .. n /\ (n = 0 <=> c.where = <<>>)
  BY <1>1, ListFacts
<1>3. CASE c.where = <<>>
  <2>1. GenConditionCheck(c, back) = <<>>
    BY <1>3 DEF GenConditionCheck
  <2>2. IsList(<<>>)
    BY DEF IsList
  <2>3. done \o <<>> = done
    BY <1>1, NothingMore
  <2>4. QED
    BY <2>1, <2>2, <2>3
<1>4. CASE c.where # <<>>
  <2>1. GenConditionCheck(c, back) = FlattenSeq(ss) \o <<fail>>
    BY <1>4 DEF GenConditionCheck, CheckOf
  <2>2. /\ ss = [i \in 1 .. n |-> ss[i]]
        /\ \A i \in 1 .. n : ss[i] = part(i)
    BY <1>2
  <2>3. \A i \in 1 .. n : Stored(c, c.where[i].param) /\ Operands(c, m[c.where[i].param + 1])
    BY <1>2 DEF Resolved, UsedFacts
  <2>4. ASSUME NEW i \in 1 .. n
        PROVE  IsList(part(i))
    <3> DEFINE e == I("CMP", c.where[i].param)
               f == I("BOOL", c.where[i].link)
               tail == IF i = 1 THEN <<>> ELSE <<f>>
    <3>1. part(i) = <<e>> \o tail
      BY DEF CheckOf
    <3> HIDE DEF e, f
    <3>2. IsList(<<e>>) /\ IsList(<<f>>) /\ IsList(<<>>)
      BY OneIsList DEF IsList
    <3>3. IsList(tail)
      BY <3>2
    <3> HIDE DEF tail
    <3>4. IsList(<<e>> \o tail)
      BY <3>2, <3>3, ListOfTwo
    <3>5. QED
      BY <3>1, <3>4
  <2> HIDE DEF ss, part, n
  <2>5. IsList(ss) /\ Len(ss) = n
    BY <1>2, <2>2, FunctionIsList
  <2>6. \A i \in 1 .. Len(ss) : IsList(ss[i])
    BY <2>2, <2>4, <2>5
  <2>7. (\E g : Grown(g, done, ss, Len(ss), made)) /\ IsList(FlattenSeq(ss))
    <3>1. IsList(ss)
      BY <2>5
    <3>2. QED
      BY <1>1, <2>6, <3>1, FlattenAfter
  <2>8. PICK g : Grown(g, done, ss, n, made)
    BY <2>5, <2>7
  <2>9. IsList(<<fail>>)
    <3> HIDE DEF fail
    <3>1. QED
      BY OneIsList
  <2>10. all = made \o <<fail>>
    <3> HIDE DEF fail, all
    <3>1. (done \o FlattenSeq(ss)) \o <<fail>> = done \o (FlattenSeq(ss) \o <<fail>>)
      <4>1. PICK u, v : u = FlattenSeq(ss) /\ v = <<fail>>
        OBVIOUS
      <4>2. IsList(u) /\ IsList(v)
        BY <2>7, <2>9, <4>1
      <4>3. (done \o u) \o v = done \o (u \o v)
        BY <1>1, <4>2, ThreeLists
      <4>4. QED
        BY <4>1, <4>3
    <3>2. QED
      BY <2>1, <3>1 DEF all
  <2>11. IsList(made)
    BY <1>1, <2>7, ListOfTwo
  <2>12. IsList(GenConditionCheck(c, back))
    <3> HIDE DEF fail
    <3>1. IsList(FlattenSeq(ss) \o <<fail>>)
      BY <2>7, <2>9, ListOfTwo
    <3>2. QED
      BY <2>1, <3>1
  <2> HIDE DEF made
  <2>13. all = Append(made, fail)
    <3> HIDE DEF fail, all
    <3>1. made \o <<fail>> = Append(made, fail)
      BY <2>11, OneAfter
    <3>2. QED
      BY <2>10, <3>1
  <2>14. Len(all) = Len(made) + 1 /\ Len(made) \in Nat
    <3> HIDE DEF fail, all
    <3>1. Len(Append(made, fail)) = Len(made) + 1
      BY <2>11, ListMore
    <3>2. QED
      BY <2>11, <2>13, <3>1, ListFacts
  <2>15. \A x \in DOMAIN later : x \notin 0 .. Len(all)
    OBVIOUS
  <2> HIDE DEF all
  <2>16. /\ g[0] = done /\ g[n] = made
         /\ \A i \in 0 .. n : IsList(g[i]) /\ Len(g[i]) <= Len(made)
         /\ \A i \in 0 .. n - 1 : g[i + 1] = g[i] \o ss[i + 1]
    BY <2>8 DEF Grown
  <2>17. Built(m, names, marks, later, done, Asking(T, <<>>, open))
    BY DEF Between, Asking
  <2> HIDE DEF m, names
  <2> DEFINE words(i) == IF i = 0 THEN <<>> ELSE <<Bit>>
             B == {i \in 0 .. n : Built(m, names, marks, later, g[i], Asking(T, words(i), open))}
  <2>18. 0 \in B
    <3>1. words(0) = <<>> /\ 0 \in 0 .. n
      BY <1>2
    <3> HIDE DEF words
    <3>2. QED
      BY <2>16, <2>17, <3>1
  <2>19. ASSUME NEW i \in 0 .. n - 1, i \in B
         PROVE  i + 1 \in B
    <3>1. i + 1 \in 1 .. n /\ i + 1 \in 0 .. n /\ i \in 0 .. n /\ i \in Nat
      BY <1>2
    <3>2. PICK h, w, d, k : /\ h = g[i] /\ w = part(i + 1) /\ d = c.where[i + 1].param
                            /\ k = c.where[i + 1].link
      OBVIOUS
    <3> DEFINE lead == IF i = 0 THEN TRUE ELSE FALSE
    <3>3. lead \in BOOLEAN /\ (lead <=> i = 0)
      OBVIOUS
    <3> HIDE DEF lead
    <3>4. w = <<I("CMP", d)>> \o (IF lead THEN <<>> ELSE <<I("BOOL", k)>>)
      <4>1. i + 1 = 1 <=> lead
        BY <3>1, <3>3
      <4>0. w = <<I("CMP", d)>> \o (IF i + 1 = 1 THEN <<>> ELSE <<I("BOOL", k)>>)
        BY <3>2 DEF part, CheckOf
      <4>2. CASE lead
        <5>1. i + 1 = 1
          BY <4>1, <4>2
        <5>2. QED
          BY <4>0, <4>2, <5>1
      <4>3. CASE ~lead
        <5>1. i + 1 # 1
          BY <4>1, <4>3
        <5>2. QED
          BY <4>0, <4>3, <5>1
      <4>4. QED
        BY <3>3, <4>2, <4>3
    <3>5. Stored(c, d) /\ Operands(c, m[d + 1]) /\ c.memory = m
      BY <2>3, <3>1, <3>2 DEF m
    <3>6. g[i + 1] = h \o w
      <4>1. g[i + 1] = g[i] \o ss[i + 1]
        BY <2>16
      <4>2. QED
        BY <2>2, <3>1, <3>2, <4>1
    <3>7. \A x \in DOMAIN later : x \notin 0 .. Len(h \o w)
      <4>1. IsList(g[i + 1]) /\ Len(g[i + 1]) <= Len(made)
        BY <2>16, <3>1
      <4>2. Len(g[i + 1]) \in Nat
        BY <4>1, ListFacts
      <4>3. PICK x, y : x = Len(g[i + 1]) /\ y = Len(all)
        OBVIOUS
      <4>4. 0 .. x \subseteq 0 .. y
        BY <2>14, <4>1, <4>2, <4>3
      <4>5. QED
        BY <2>15, <3>6, <4>3, <4>4
    <3>8. Built(m, names, marks, later, h, Asking(T, IF lead THEN <<>> ELSE <<Bit>>, open))
      <4>1. words(i) = IF lead THEN <<>> ELSE <<Bit>>
        BY <3>3
      <4>2. Built(m, names, marks, later, h, Asking(T, words(i), open))
        BY <2>19, <3>2
      <4> HIDE DEF words
      <4>3. QED
        BY <4>1, <4>2
    <3>9. Built(m, names, marks, later, h \o w, Asking(T, <<Bit>>, open))
      BY <3>3, <3>4, <3>5, <3>7, <3>8, CheckBuilt
    <3>10. words(i + 1) = <<Bit>>
      BY <3>1
    <3> HIDE DEF words
    <3>11. Built(m, names, marks, later, g[i + 1], Asking(T, words(i + 1), open))
      BY <3>6, <3>9, <3>10
    <3>12. QED
      BY <3>1, <3>11
  <2> HIDE DEF B
  <2>20. 0 .. n \subseteq B
    BY <1>2, <2>18, <2>19, SetInduction
  <2>21. n \in B
    BY <1>2, <2>20
  <2>22. Built(m, names, marks, later, made, Asking(T, <<Bit>>, open))
    <3>1. words(n) = <<Bit>>
      BY <1>2, <1>4
    <3>2. Built(m, names, marks, later, g[n], Asking(T, words(n), open))
      BY <2>21 DEF B
    <3> HIDE DEF words
    <3>3. QED
      BY <2>16, <3>1, <3>2
  <2>23. Len(made) + 1 \notin DOMAIN later
    BY <2>14, <2>15
  <2>24. Built(m, names, marks, later, Append(made, fail), Between(T, open))
    BY <2>22, <2>23, FailBuilt
  <2>25. Built(m, names, marks, later, all, Between(T, open))
    BY <2>13, <2>24
  <2>26. QED
    BY <2>12, <2>25 DEF all, m, names
<1>5. QED
  BY <1>3, <1>4

(* A record of the result, made between the loops. *)
LEMMA RecordBuilt ==
  ASSUME NEW m, NEW names, NEW marks, NEW later, NEW done, NEW T \in SUBSET Virtual,
         NEW open \in SUBSET Virtual, Built(m, names, marks, later, done, Between(T, open)),
         NEW e, e = I("NEWREC", 1) \/ \E t \in T : e = I("CPYREC", t),
         Len(done) + 1 \notin DOMAIN later
  PROVE  Built(m, names, marks, later, Append(done, e), Between(T, open))
<1> DEFINE a == Between(T, open)
           one == Append(done, e)
<1>1. Knows(a, <<>>, Virtual, T, T, open, FALSE, NoTable) /\ Len(a.stack) <= 2
  BY BetweenFacts
<1>2. Implies(a, a)
  BY ImpliesItself
<1> HIDE DEF a
<1>3. Built(m, names, marks, later, done, a)
  BY DEF a
<1>4. a.more = NoTable /\ T = a.loaded /\ ~a.fresh /\ a \in Knowledge
  BY <1>1 DEF Knows
<1>5. CASE e = I("NEWREC", 1)
  <2>1. PICK know : Continuing(m, names, marks, later, done, a, I("NEWREC", 1), a, know)
    BY <1>1, <1>3, <1>4, BuiltNext
  <2>2. Adding(Piece(done, m), Piece(one, m), names, know, later, a, I("NEWREC", 1), a)
    BY <1>5, <2>1 DEF Continuing
  <2>3. Added(Piece(one, m), names, know, later, a)
    BY <1>2, <1>4, <2>2, AddNEWREC
  <2>4. Built(m, names, marks, later, one, a)
    BY <1>5, <2>1, <2>3, BuiltAdded
  <2>5. QED
    BY <2>4 DEF a
<1>6. ASSUME NEW t \in T, e = I("CPYREC", t)
      PROVE  Built(m, names, marks, later, one, a)
  <2>1. PICK know : Continuing(m, names, marks, later, done, a, I("CPYREC", t), a, know)
    BY <1>1, <1>3, <1>4, BuiltNext
  <2>2. Adding(Piece(done, m), Piece(one, m), names, know, later, a, I("CPYREC", t), a)
    BY <1>6, <2>1 DEF Continuing
  <2>3. Added(Piece(one, m), names, know, later, a)
    BY <1>2, <1>4, <2>2, AddCPYREC
  <2>4. QED
    BY <1>6, <2>1, <2>3, BuiltAdded
<1>7. QED
  BY <1>5, <1>6 DEF a

(* A loop is entered again at its head. *)
LEMMA JumpBuilt ==
  ASSUME NEW m, NEW names, NEW marks, NEW later, NEW done, NEW T \in SUBSET Virtual,
         NEW open \in SUBSET Virtual, Built(m, names, marks, later, done, Between(T, open)),
         NEW d \in 0 .. Len(done) - 1, <<d, Between(T, open)>> \in marks,
         NEW b \in Knowledge, Len(done) + 1 \notin DOMAIN later \/ b = later[Len(done) + 1]
  PROVE  Built(m, names, marks, later, Append(done, I("JMP", d)), b)
<1> DEFINE a == Between(T, open)
           one == Append(done, I("JMP", d))
<1>1. Knows(a, <<>>, Virtual, T, T, open, FALSE, NoTable) /\ Len(a.stack) <= 2
  BY BetweenFacts
<1>2. Implies(a, a)
  BY ImpliesItself
<1> HIDE DEF a
<1>3. Built(m, names, marks, later, done, a)
  BY DEF a
<1>4. a.more = NoTable
  BY <1>1 DEF Knows
<1>5. PICK know : Continuing(m, names, marks, later, done, a, I("JMP", d), b, know)
  BY <1>1, <1>3, BuiltNext
<1>6. Leads(know, d, a)
  <2> DEFINE x == <<d, a>>
  <2>1. x \in marks /\ x[1] = d /\ x[2] = a
    BY DEF a
  <2> HIDE DEF x
  <2>2. d \in DOMAIN know /\ know[d] = a
    BY <1>5, <2>1 DEF Continuing, Marked
  <2>3. QED
    BY <1>2, <2>2 DEF Leads
<1>7. Adding(Piece(done, m), Piece(one, m), names, know, later, a, I("JMP", d), b)
  BY <1>5 DEF Continuing
<1> HIDE DEF one
<1>8. d \in 0 .. Len(Piece(done, m).code) - 1
  BY DEF Piece
<1>9. Added(Piece(one, m), names, know, later, b)
  BY <1>4, <1>6, <1>7, <1>8, AddJMP
<1>10. QED
  BY <1>5, <1>9, BuiltAdded DEF one

(* The tables of the loops: tables that were loaded, each of them once. *)
Over(c) == IF c.joins = {} THEN <<c.tables[First(c)].tp>> ELSE Ascending(c.joins)

-----------------------------------------------------------------------------
(* The virtual tables of the statement are few enough. *)
LEMMA LoadableFacts ==
  ASSUME NEW q \in Statements, q.kind = "select", NEW M, NEW c, Resolved(c, q, M)
  PROVE  /\ Loadable(c) \in SUBSET Virtual
         /\ c.tables[First(c)].tp \in Loadable(c)
         /\ c.joins \in SUBSET Loadable(c)
<1>1. TableFacts(c, Named(q), M, {}) /\ UsedFacts(c) /\ Listed(c) /\ M \in SUBSET Nat
  BY DEF Resolved
<1>2. First(c) \in DOMAIN c.tables
  BY <1>1, FirstIsThere DEF TableFacts, Listed
<1>3. \A t \in DOMAIN c.tables : c.tables[t].tp \in Virtual
  BY <1>1 DEF TableFacts, Info
<1>4. \A j \in c.joins : \E t \in DOMAIN c.tables : c.tables[t].tp = j
  BY <1>1 DEF UsedFacts
<1>5. QED
  BY <1>2, <1>3, <1>4 DEF Loadable

(* The loops run over different tables. *)
Chosen(T, over, n) ==
  /\ T \in SUBSET Virtual /\ n \in Nat /\ n # 0
  /\ \A i \in 1 .. n : over[i] \in T
  /\ \A i, j \in 1 .. n : over[i] = over[j] => i = j

(* The compiler chooses such. *)
LEMMA OverFacts ==
  ASSUME NEW q \in Statements, q.kind = "select", NEW M, NEW c, Resolved(c, q, M)
  PROVE  Chosen(Loadable(c), Over(c), Len(Over(c)))
<1>1. /\ Loadable(c) \in SUBSET Virtual /\ c.tables[First(c)].tp \in Loadable(c)
      /\ c.joins \in SUBSET Loadable(c)
  BY LoadableFacts
<1>2. CASE c.joins = {}
  <2>1. PICK t : t = c.tables[First(c)].tp
    OBVIOUS
  <2>2. Over(c) = <<t>>
    BY <1>2, <2>1 DEF Over
  <2>3. QED
    BY <1>1, <2>1, <2>2 DEF Chosen
<1>3. CASE c.joins # {}
  <2>1. Over(c) = Ascending(c.joins)
    BY <1>3 DEF Over
  <2>2. c.joins \in SUBSET Nat /\ IsFiniteSet(c.joins)
    <3>1. MaxTables \in Nat /\ 0 \in Int
      BY ValuesAssumption
    <3>2. IsFiniteSet(Virtual) /\ Virtual \subseteq Nat
      BY <3>1, FS_Interval DEF Virtual
    <3>3. QED
      BY <1>1, <3>2, FS_Subset
  <2>3. Cardinality(c.joins) # 0
    BY <1>3, <2>2, FS_EmptySet
  <2>4. QED
    BY <1>1, <2>1, <2>2, <2>3, AscendingFacts DEF Chosen
<1>4. QED
  BY <1>2, <1>3

(* The copies are a list. *)
LEMMA ColumnsAreList ==
  ASSUME NEW c, IsList(c.dest), NEW op
  PROVE  IsList(ForEachColumn(c, op))
<1> DEFINE Tp(i) == c.tables[c.dest[i].table].tp
           at(i) == Address(c, c.dest[i].table, c.dest[i].column)
           same(i) == i > 1 /\ Tp(i) = Tp(i - 1)
           part(i) == (IF same(i) THEN <<>> ELSE <<I("SETTBL", Tp(i))>>) \o <<I(op, at(i))>>
           ss == [i \in DOMAIN c.dest |-> part(i)]
           n == Len(c.dest)
<1>1. n \in Nat /\ DOMAIN c.dest = 1 .. n
  BY ListFacts
<1>2. ASSUME NEW i \in 1 .. n
      PROVE  IsList(part(i))
  <2> DEFINE one == <<I("SETTBL", Tp(i))>>
             two == <<I(op, at(i))>>
             lead == IF same(i) THEN <<>> ELSE one
  <2>1. IsList(one) /\ IsList(two) /\ IsList(<<>>)
    BY OneIsList DEF IsList
  <2> HIDE DEF one, two
  <2>2. IsList(lead)
    BY <2>1
  <2> HIDE DEF lead
  <2>3. IsList(lead \o two)
    BY <2>1, <2>2, ListOfTwo
  <2>4. QED
    BY <2>3 DEF lead, one, two
<1>3. ForEachColumn(c, op) = FlattenSeq(ss)
  BY Zenon DEF ForEachColumn
<1> HIDE DEF part, Tp, at, same
<1>4. ss = [i \in 1 .. n |-> part(i)] /\ ss = [i \in 1 .. n |-> ss[i]]
  BY <1>1
<1>5. \A i \in 1 .. n : ss[i] = part(i)
  BY <1>4
<1> HIDE DEF ss, n
<1>6. IsList(ss) /\ Len(ss) = n
  BY <1>1, <1>4, FunctionIsList
<1>7. \A i \in 1 .. Len(ss) : IsList(ss[i])
  BY <1>2, <1>5, <1>6
<1>8. IsList(<<>>)
  BY DEF IsList
<1>9. IsList(FlattenSeq(ss))
  <2>1. IsList(ss)
    BY <1>6
  <2>2. QED
    BY <1>7, <1>8, <2>1, FlattenAfter
<1>10. QED
  BY <1>3, <1>9

(* What copies the row to the result, in the innermost loop. *)
LEMMA ResultBuilt ==
  ASSUME NEW q \in Statements, q.kind = "select", NEW M, NEW c, Resolved(c, q, M),
         NEW marks, NEW later, NEW done, NEW open \in SUBSET Virtual,
         Built(c.memory, Named(q), marks, later, done, Between(Loadable(c), open)),
         NEW asterisk \in BOOLEAN,
         \A x \in DOMAIN later : x \notin 0 .. Len(done \o GenCopyResult(c, asterisk))
  PROVE  /\ Built(c.memory, Named(q), marks, later, done \o GenCopyResult(c, asterisk),
                  Between(Loadable(c), open))
         /\ IsList(GenCopyResult(c, asterisk))
<1> DEFINE m == c.memory
           names == Named(q)
           T == Loadable(c)
           t == c.tables[First(c)].tp
           a == Between(T, open)
           e == IF asterisk THEN I("CPYREC", t) ELSE I("NEWREC", 1)
           columns == ForEachColumn(c, "CPYVAL")
           one == Append(done, e)
           all == done \o GenCopyResult(c, asterisk)
<1>1. IsList(done) /\ T \in SUBSET Virtual /\ t \in T
  BY BuiltIsList, LoadableFacts
<1>2. e = I("NEWREC", 1) \/ \E x \in T : e = I("CPYREC", x)
  BY <1>1
<1>3. asterisk => GenCopyResult(c, asterisk) = <<e>>
  BY DEF GenCopyResult
<1>4. ~asterisk => GenCopyResult(c, asterisk) = <<e>> \o columns
  BY DEF GenCopyResult
<1> HIDE DEF e, t
<1>5. IsList(<<e>>)
  BY OneIsList
<1>6. done \o <<e>> = one /\ Len(one) = Len(done) + 1 /\ IsList(one) /\ Len(done) \in Nat
  BY <1>1, OneAfter, ListMore, ListFacts
<1>7. ASSUME Len(done) + 1 \notin DOMAIN later
      PROVE  Built(m, names, marks, later, one, a)
  <2> HIDE DEF T, m, names
  <2>1. Built(m, names, marks, later, done, Between(T, open))
    BY DEF T, m, names
  <2>2. QED
    BY <1>1, <1>2, <1>7, <2>1, RecordBuilt
<1>8. CASE asterisk
  <2>1. all = one
    BY <1>3, <1>6, <1>8
  <2>2. Len(done) + 1 \notin DOMAIN later
    BY <1>6, <2>1
  <2>3. QED
    BY <1>3, <1>5, <1>7, <1>8, <2>1, <2>2
<1>9. CASE ~asterisk
  <2> HIDE DEF a, one
  <2>1. IsList(columns)
    BY ColumnsAreList DEF Resolved, UsedFacts
  <2>2. all = one \o columns
    <3>1. PICK u, v : u = <<e>> /\ v = columns
      OBVIOUS
    <3>2. IsList(u) /\ IsList(v)
      BY <1>5, <2>1, <3>1
    <3>3. (done \o u) \o v = done \o (u \o v)
      BY <1>1, <3>2, ThreeLists
    <3>4. QED
      BY <1>4, <1>6, <1>9, <3>1, <3>3
  <2> HIDE DEF columns, all
  <2>3. IsList(all) /\ Len(all) = Len(one) + Len(columns) /\ Len(columns) \in Nat
    BY <1>6, <2>1, <2>2, ListOfTwo, ListFacts
  <2>4. Len(done) + 1 \notin DOMAIN later
    <3>1. Len(done) + 1 \in 0 .. Len(all)
      BY <1>6, <2>3
    <3>2. QED
      BY <3>1 DEF all
  <2>5. Built(m, names, marks, later, one, a)
    BY <1>7, <2>4
  <2>6. a = Copying(T, Virtual, open, FALSE)
    BY DEF a, Between, Looping, Copying
  <2>7. Copies("CPYVAL", FALSE) /\ Implies(a, a) /\ a \in Knowledge
    <3>1. Knows(a, <<>>, Virtual, T, T, open, FALSE, NoTable)
      BY <1>1, BetweenFacts DEF a
    <3>2. QED
      BY <3>1, ImpliesItself DEF Copies, Knows
  <2>8. \A x \in DOMAIN later : x \notin 0 .. Len(one \o ForEachColumn(c, "CPYVAL"))
    BY <2>2 DEF all, columns
  <2>9. Built(c.memory, Named(q), marks, later, one \o ForEachColumn(c, "CPYVAL"), a)
    <3> HIDE DEF T
    <3>1. Built(c.memory, Named(q), marks, later, one, Copying(T, Virtual, open, FALSE))
      BY <2>5, <2>6
    <3>2. Implies(Copying(T, Virtual, open, FALSE), a)
      BY <2>6, <2>7
    <3>3. QED
      BY <1>1, <2>7, <2>8, <3>1, <3>2, ColumnsBuilt
  <2>10. IsList(GenCopyResult(c, asterisk))
    <3>1. PICK u, v : u = <<e>> /\ v = columns
      OBVIOUS
    <3>2. IsList(u \o v)
      BY <1>5, <2>1, <3>1, ListOfTwo DEF columns
    <3>3. QED
      BY <1>4, <1>9, <3>1, <3>2
  <2>11. QED
    BY <2>2, <2>9, <2>10 DEF a, all, columns
<1>10. QED
  BY <1>8, <1>9

(* The loops end from the inside to the outside. *)
Tails(n, start) == [i \in 1 .. n |-> I("JMP", start + 3 * (n - i))]

(* Where the loops' heads jump to when their table has no more. *)
Ends(n, last) == [level \in 1 .. n |-> last + (n - level) + 1]

(* The tails come behind the heads. *)
TailsBegin(done, start, n) == start + 3 * (n - 1) < Len(done)

(* The tails of all loops are built. *)
LEMMA TailsBuilt ==
  ASSUME NEW m, NEW names, NEW later, NEW done, NEW T, NEW over, NEW n, NEW ends,
         LoopFacts(T, over, n, ends, later), NEW start \in Nat,
         Built(m, names, Heads(T, over, n, start), later, done, Between(T, Opened(over, n))),
         TailsBegin(done, start, n), ends = Ends(n, Len(done))
  PROVE  /\ Built(m, names, Heads(T, over, n, start), later, done \o Tails(n, start),
                  Between(T, {}))
         /\ IsList(Tails(n, start)) /\ Len(Tails(n, start)) = n
<1> DEFINE s == Tails(n, start)
           marks == Heads(T, over, n, start)
           size == Len(done)
<1>1. /\ n \in Nat /\ n # 0 /\ T \in SUBSET Virtual
      /\ \A i \in 1 .. n : later[ends[i]] = Between(T, Opened(over, i) \ {over[i]})
  BY DEF LoopFacts
<1>2. IsList(done) /\ size \in Nat
  BY BuiltIsList, ListFacts
<1>3. s = [i \in 1 .. n |-> s[i]] /\ \A i \in 1 .. n : s[i] = I("JMP", start + 3 * (n - i))
  BY DEF Tails
<1> HIDE DEF s, size
<1>4. IsList(s) /\ Len(s) = n
  BY <1>1, <1>3, FunctionIsList
<1>5. PICK g : Appended(g, done, s, n)
  <2>1. IsList(s) /\ IsList(done)
    BY <1>2, <1>4
  <2>2. \E g : Appended(g, done, s, Len(s))
    BY <2>1, ListSteps
  <2>3. QED
    BY <1>4, <2>2
<1>6. /\ g[0] = done /\ g[n] = done \o s
      /\ \A i \in 0 .. n : Len(g[i]) = size + i
      /\ \A i \in 0 .. n - 1 : g[i + 1] = Append(g[i], s[i + 1])
  BY <1>5 DEF size, Appended
<1>7. Built(m, names, marks, later, done, Between(T, Opened(over, n)))
  OBVIOUS
<1>8. /\ start + 3 * (n - 1) < size
      /\ \A i \in 1 .. n : ends[i] = size + (n - i) + 1
  BY DEF size, Ends, TailsBegin
<1> DEFINE B == {i \in 0 .. n : Built(m, names, marks, later, g[i],
                                      Between(T, Opened(over, n - i)))}
<1>9. 0 \in B
  <2>1. n - 0 = n /\ 0 \in 0 .. n
    BY <1>1
  <2> HIDE DEF marks
  <2>2. Built(m, names, marks, later, g[0], Between(T, Opened(over, n - 0)))
    BY <1>6, <1>7, <2>1
  <2>3. QED
    BY <2>1, <2>2
<1>10. ASSUME NEW i \in 0 .. n - 1, i \in B
       PROVE  i + 1 \in B
  <2> DEFINE k == n - (i + 1)
             d == start + 3 * k
             open == Opened(over, k + 1)
             b == Between(T, Opened(over, k))
  <2>1. /\ k \in 0 .. n - 1 /\ k + 1 \in 1 .. n /\ k + 1 = n - i /\ i \in 0 .. n
        /\ i + 1 \in 0 .. n /\ i + 1 \in 1 .. n /\ i \in Nat
    BY <1>1
  <2>2. /\ Opened(over, k) \in SUBSET Virtual /\ open \in SUBSET Virtual
        /\ open \ {over[k + 1]} = Opened(over, k)
    BY <2>1, OpenedFacts
  <2>3. b \in Knowledge
    <3>1. Knows(b, <<>>, Virtual, T, T, Opened(over, k), FALSE, NoTable)
      BY <1>1, <2>2, BetweenFacts
    <3>2. QED
      BY <3>1 DEF Knows
  <2>4. ends[k + 1] = size + i + 1 /\ later[ends[k + 1]] = b
    <3>1. ends[k + 1] = size + (n - (k + 1)) + 1
      BY <1>8, <2>1
    <3>2. later[ends[k + 1]] = Between(T, Opened(over, k + 1) \ {over[k + 1]})
      BY <1>1, <2>1
    <3>3. QED
      BY <1>1, <1>2, <2>1, <2>2, <3>1, <3>2
  <2>5. Len(g[i]) = size + i
    BY <1>6, <2>1
  <2>6. <<d, Between(T, open)>> \in marks
    <3>1. (k + 1) - 1 = k
      BY <2>1
    <3>2. <<start + 3 * ((k + 1) - 1), Between(T, Opened(over, k + 1))>> \in marks
      BY <2>1 DEF Heads
    <3> HIDE DEF marks, k
    <3>3. QED
      BY <3>1, <3>2
  <2>7. d \in 0 .. Len(g[i]) - 1
    BY <1>1, <1>2, <1>8, <2>1, <2>5
  <2>8. g[i + 1] = Append(g[i], I("JMP", d))
    <3>1. s[i + 1] = I("JMP", d)
      BY <1>3, <2>1
    <3>2. QED
      BY <1>6, <3>1
  <2>9. Built(m, names, marks, later, g[i], Between(T, open))
    <3>1. Built(m, names, marks, later, g[i], Between(T, Opened(over, n - i)))
      BY <1>10
    <3> HIDE DEF marks, k
    <3>2. QED
      BY <2>1, <3>1
  <2>10. b = later[Len(g[i]) + 1]
    BY <2>4, <2>5
  <2> HIDE DEF marks, d, open, b
  <2>11. PICK h : h = g[i]
    OBVIOUS
  <2>12. Built(m, names, marks, later, Append(h, I("JMP", d)), b)
    <3>1. /\ Built(m, names, marks, later, h, Between(T, open)) /\ d \in 0 .. Len(h) - 1
          /\ b = later[Len(h) + 1] /\ open \in SUBSET Virtual /\ T \in SUBSET Virtual
      BY <1>1, <2>2, <2>7, <2>9, <2>10, <2>11
    <3>2. QED
      BY <2>3, <2>6, <3>1, JumpBuilt
  <2>13. Built(m, names, marks, later, g[i + 1], Between(T, Opened(over, n - (i + 1))))
    BY <2>8, <2>11, <2>12 DEF b
  <2>14. QED
    BY <2>1, <2>13
<1> HIDE DEF B
<1>11. n \in B
  <2>1. 0 .. n \subseteq B
    BY <1>1, <1>9, <1>10, SetInduction
  <2>2. QED
    BY <1>1, <2>1
<1>12. Built(m, names, marks, later, g[n], Between(T, {}))
  <2>1. Built(m, names, marks, later, g[n], Between(T, Opened(over, n - n)))
    BY <1>11 DEF B
  <2>2. Opened(over, n - n) = {}
    BY <1>1, OpenedMore
  <2> HIDE DEF marks
  <2>3. QED
    BY <2>1, <2>2
<1>13. QED
  BY <1>4, <1>6, <1>12 DEF s

(* The code of a query, part by part: what comes before the loops ends at start,
   the innermost of the n loops begins at back, the loops end at last. *)
CopiesAll(c) == All(c) /\ c.joins = {}

(* What comes before the loops, *)
Preamble(c) == GenLoadTables(c) \o GenDefineResults(c)

(* what is inside all of them. *)
Body(c, back) == GenConditionCheck(c, back) \o GenCopyResult(c, CopiesAll(c))

(* Where each part begins. *)
Layout(c, start, n, back, last) ==
  /\ start \in Nat /\ start = Len(Preamble(c))
  /\ n \in Nat /\ n # 0 /\ n = Len(Over(c))
  /\ back \in Nat /\ back = start + 3 * (n - 1)
  /\ last \in Nat /\ last = back + 2 + Len(Body(c, back))

(* The parts up to the end of the loops. *)
Loops(c, start, n, back, last) ==
  ((Preamble(c) \o FlattenSeq(Heading(Over(c), Ends(n, last), n)))
     \o Body(c, back)) \o Tails(n, start)

(* GenerateBytecode makes them. *)
LEMMA SelectCode ==
  ASSUME NEW c, NEW start, NEW n, NEW back, NEW last, Layout(c, start, n, back, last)
  PROVE  GenerateBytecode(c) = Loops(c, start, n, back, last) \o LastRecord(CopiesAll(c))
<1> DEFINE asterisk == All(c) /\ c.joins = {}
           over == IF c.joins = {} THEN <<c.tables[First(c)].tp>> ELSE Ascending(c.joins)
           k == Len(over)
           before0 == GenLoadTables(c) \o GenDefineResults(c)
           loop_start == [level \in 1 .. k |-> Len(before0) + 3 * (level - 1)]
           body == GenConditionCheck(c, loop_start[k]) \o GenCopyResult(c, asterisk)
           bodyEnd == loop_start[k] + 2 + Len(body)
           loop_end == [level \in 1 .. k |-> bodyEnd + (k - level) + 1]
           heads == [level \in 1 .. k |->
                       (IF level = 1 THEN <<>> ELSE <<Rewind(over[level])>>)
                         \o <<I("NXTREC", over[level]), I("JMPF", loop_end[level])>>]
           tails == [i \in 1 .. k |-> I("JMP", loop_start[k + 1 - i])]
<1>1. /\ start \in Nat /\ start = Len(Preamble(c))
      /\ n \in Nat /\ n # 0 /\ n = Len(Over(c))
      /\ back = start + 3 * (n - 1) /\ last \in Nat /\ last = back + 2 + Len(Body(c, back))
  BY DEF Layout
<1>2. GenerateBytecode(c)
        = (((before0 \o FlattenSeq(heads)) \o body) \o tails) \o LastRecord(asterisk)
  BY DEF GenerateBytecode
<1>3. over = Over(c) /\ before0 = Preamble(c) /\ asterisk = CopiesAll(c)
  BY DEF Over, Preamble, CopiesAll
<1>4. k = n
  BY <1>1, <1>3
<1> HIDE DEF over, before0, asterisk, k
<1>5. loop_start = [level \in 1 .. n |-> start + 3 * (level - 1)]
  BY <1>1, <1>3, <1>4
<1> HIDE DEF loop_start
<1>6. loop_start[k] = back
  BY <1>1, <1>4, <1>5
<1>7. body = Body(c, back)
  BY <1>3, <1>6 DEF Body
<1> HIDE DEF body
<1>8. bodyEnd = last
  BY <1>1, <1>6, <1>7
<1> HIDE DEF bodyEnd
<1>9. loop_end = Ends(n, last)
  BY <1>4, <1>8 DEF Ends
<1> HIDE DEF loop_end
<1>10. heads = Heading(Over(c), Ends(n, last), n)
  BY <1>3, <1>4, <1>9 DEF Heading, HeadOf, Rewind
<1>11. tails = Tails(n, start)
  <2>1. ASSUME NEW i \in 1 .. n
        PROVE  loop_start[k + 1 - i] = start + 3 * (n - i)
    <3>1. k + 1 - i \in 1 .. n /\ (k + 1 - i) - 1 = n - i
      BY <1>1, <1>4
    <3>2. QED
      BY <1>1, <1>5, <3>1
  <2>2. QED
    BY <1>4, <2>1 DEF Tails
<1> HIDE DEF heads, tails
<1>12. QED
  BY <1>2, <1>3, <1>7, <1>10, <1>11 DEF Loops

(* The checks are a list. *)
LEMMA ConditionsAreList ==
  ASSUME NEW c, IsList(c.where), NEW back
  PROVE  IsList(GenConditionCheck(c, back))
<1> DEFINE n == Len(c.where)
           part(i) == CheckOf(c, i)
           ss == [i \in DOMAIN c.where |-> part(i)]
           fail == I("JMPF", back)
<1>1. n \in Nat /\ DOMAIN c.where = 1 .. n
  BY ListFacts
<1>2. IsList(<<>>)
  BY DEF IsList
<1>3. ASSUME NEW i \in 1 .. n
      PROVE  IsList(part(i))
  <2> DEFINE e == I("CMP", c.where[i].param)
             f == I("BOOL", c.where[i].link)
             tail == IF i = 1 THEN <<>> ELSE <<f>>
  <2>1. part(i) = <<e>> \o tail
    BY DEF CheckOf
  <2> HIDE DEF e, f
  <2>2. IsList(<<e>>) /\ IsList(<<f>>)
    BY OneIsList
  <2>3. IsList(tail)
    BY <1>2, <2>2
  <2> HIDE DEF tail
  <2>4. IsList(<<e>> \o tail)
    BY <2>2, <2>3, ListOfTwo
  <2>5. QED
    BY <2>1, <2>4
<1>4. ss = [i \in 1 .. n |-> ss[i]] /\ \A i \in 1 .. n : ss[i] = part(i)
  BY <1>1
<1>5. c.where # <<>> => GenConditionCheck(c, back) = FlattenSeq(ss) \o <<fail>>
  BY DEF GenConditionCheck, CheckOf
<1> HIDE DEF ss, part, n, fail
<1>6. IsList(ss) /\ Len(ss) = n
  BY <1>1, <1>4, FunctionIsList
<1>7. \A i \in 1 .. Len(ss) : IsList(ss[i])
  BY <1>3, <1>4, <1>6
<1>8. IsList(FlattenSeq(ss))
  <2>1. IsList(ss)
    BY <1>6
  <2>2. QED
    BY <1>2, <1>7, <2>1, FlattenAfter
<1>9. IsList(FlattenSeq(ss) \o <<fail>>)
  <2>1. IsList(<<fail>>)
    BY OneIsList
  <2>2. QED
    BY <1>8, <2>1, ListOfTwo
<1>10. c.where = <<>> => GenConditionCheck(c, back) = <<>>
  BY DEF GenConditionCheck
<1>11. QED
  BY <1>2, <1>5, <1>9, <1>10

(* So is the body. *)
LEMMA BodyFacts ==
  ASSUME NEW q \in Statements, q.kind = "select", NEW M, NEW c, Resolved(c, q, M), NEW back
  PROVE  /\ IsList(GenConditionCheck(c, back)) /\ IsList(GenCopyResult(c, CopiesAll(c)))
         /\ IsList(Body(c, back)) /\ Len(Body(c, back)) \in Nat
<1>1. IsList(c.where) /\ IsList(c.dest)
  BY DEF Resolved, UsedFacts
<1>2. IsList(GenConditionCheck(c, back))
  BY <1>1, ConditionsAreList
<1>3. IsList(GenCopyResult(c, CopiesAll(c)))
  <2> DEFINE e == I("CPYREC", c.tables[First(c)].tp)
             f == I("NEWREC", 1)
             columns == ForEachColumn(c, "CPYVAL")
  <2>1. GenCopyResult(c, CopiesAll(c)) = IF CopiesAll(c) THEN <<e>> ELSE <<f>> \o columns
    BY DEF GenCopyResult
  <2> HIDE DEF e, f
  <2>2. IsList(<<e>>) /\ IsList(<<f>>) /\ IsList(columns)
    BY <1>1, OneIsList, ColumnsAreList
  <2> HIDE DEF columns
  <2>3. IsList(<<f>> \o columns)
    BY <2>2, ListOfTwo
  <2>4. QED
    BY <2>1, <2>2, <2>3
<1>4. PICK s, t : s = GenConditionCheck(c, back) /\ t = GenCopyResult(c, CopiesAll(c))
  OBVIOUS
<1>5. Body(c, back) = s \o t /\ IsList(s) /\ IsList(t)
  BY <1>2, <1>3, <1>4 DEF Body
<1>6. IsList(Body(c, back))
  BY <1>5, ListOfTwo
<1>7. QED
  BY <1>2, <1>3, <1>6, ListFacts

(* Before the loops: the tables are loaded and the columns of the result known;
   the first loop may begin. *)
LEMMA PreambleBuilt ==
  ASSUME NEW q \in Statements, q.kind = "select", NEW M, NEW c, Resolved(c, q, M),
         NEW none, DOMAIN none = {}, NEW open \in SUBSET Virtual
  PROVE  Built(c.memory, Named(q), {}, none, Preamble(c), Between(Loadable(c), open))
<1> DEFINE T == Loadable(c)
           a == Copying(T, Virtual, {}, TRUE)
           b == Between(T, open)
           loads == GenLoadTables(c)
<1>1. T \in SUBSET Virtual
  BY LoadableFacts
<1>2. Built(c.memory, Named(q), {}, none, loads, Loading(T, Virtual))
  BY LoadsBuilt
<1>3. Loading(T, Virtual) = a
  BY DEF Loading, Copying
<1>4. Knows(b, <<>>, Virtual, T, T, open, FALSE, NoTable)
  BY <1>1, BetweenFacts
<1>5. b \in Knowledge
  BY <1>4 DEF Knows
<1>6. Implies(a, b)
  BY DEF Implies, Copying, Between, Looping, Made
<1>7. Copies("CPYCOL", TRUE) /\ TRUE \in BOOLEAN /\ {} \in SUBSET Virtual
  BY DEF Copies
<1>8. \A x \in DOMAIN none : x \notin 0 .. Len(loads \o ForEachColumn(c, "CPYCOL"))
  OBVIOUS
<1> HIDE DEF T, b, loads
<1>9. Built(c.memory, Named(q), {}, none, loads, Copying(T, Virtual, {}, TRUE))
  BY <1>2, <1>3
<1>10. Built(c.memory, Named(q), {}, none, loads \o ForEachColumn(c, "CPYCOL"), b)
  BY <1>1, <1>5, <1>6, <1>7, <1>8, <1>9, ColumnsBuilt
<1>11. QED
  BY <1>10 DEF Preamble, GenDefineResults, b, T, loads

(* What is known after the loops: where each ends, the tables of those outside
   it are still scanned. *)
Later(T, over, n, last) ==
  [x \in {last + j : j \in 1 .. n} |-> Between(T, Opened(over, n - (x - last)))]

(* It names each address after the loops. *)
LaterOf(T, over, n, last, later) ==
  /\ DOMAIN later = last + 1 .. last + n
  /\ \A x \in last + 1 .. last + n : later[x] \in Knowledge
  /\ LoopFacts(T, over, n, Ends(n, last), later)

(* What is expected there. *)
LEMMA LaterFacts ==
  ASSUME NEW T, NEW over, NEW n, Chosen(T, over, n), NEW last \in Nat
  PROVE  LaterOf(T, over, n, last, Later(T, over, n, last))
<1> DEFINE later == Later(T, over, n, last)
           ends == Ends(n, last)
<1>1. /\ T \in SUBSET Virtual /\ n \in Nat /\ n # 0
      /\ \A i \in 1 .. n : over[i] \in T
      /\ \A i, j \in 1 .. n : over[i] = over[j] => i = j
  BY DEF Chosen
<1>2. DOMAIN later = last + 1 .. last + n
  <2>1. \A x \in last + 1 .. last + n : x - last \in 1 .. n /\ x = last + (x - last)
    BY <1>1
  <2>2. \A j \in 1 .. n : last + j \in last + 1 .. last + n
    BY <1>1
  <2>3. DOMAIN later = {last + j : j \in 1 .. n}
    BY <1>1 DEF Later
  <2>4. {last + j : j \in 1 .. n} = last + 1 .. last + n
    BY <1>1, <2>1, <2>2
  <2>5. QED
    BY <1>1, <2>3, <2>4
<1>3. \A j \in 1 .. n : later[last + j] = Between(T, Opened(over, n - j))
  <2>1. ASSUME NEW j \in 1 .. n
        PROVE  later[last + j] = Between(T, Opened(over, n - j))
    <3>1. (last + j) - last = j
      BY <1>1
    <3>2. later[last + j] = Between(T, Opened(over, n - ((last + j) - last)))
      BY <1>1 DEF Later
    <3> HIDE DEF later
    <3>3. QED
      BY <1>1, <3>1, <3>2
  <2>2. QED
    BY <1>1, <2>1
<1>4. \A i \in 0 .. n : Opened(over, i) \in SUBSET Virtual
  BY <1>1 DEF Opened
<1>5. ASSUME NEW x \in last + 1 .. last + n
      PROVE  later[x] \in Knowledge
  <2> DEFINE j == x - last
  <2>1. j \in 1 .. n /\ x = last + j /\ n - j \in 0 .. n
    BY <1>1
  <2> HIDE DEF j, later
  <2>2. later[x] = Between(T, Opened(over, n - j))
    BY <1>1, <1>3, <2>1
  <2>3. Opened(over, n - j) \in SUBSET Virtual
    BY <1>1, <1>4, <2>1
  <2>4. Knows(Between(T, Opened(over, n - j)), <<>>, Virtual, T, T, Opened(over, n - j), FALSE, NoTable)
    BY <1>1, <2>3, BetweenFacts
  <2>5. QED
    BY <1>1, <2>2, <2>4 DEF Knows
<1>6. ASSUME NEW i \in 1 .. n
      PROVE  /\ ends[i] \in Nat /\ ends[i] \in DOMAIN later
             /\ later[ends[i]] = Between(T, Opened(over, i) \ {over[i]})
  <2> DEFINE j == (n - i) + 1
             k == i - 1
  <2>1. j \in 1 .. n /\ n - j = k /\ k \in Nat /\ i = k + 1
    BY <1>1
  <2>2. ends[i] = last + j
    BY <1>1 DEF Ends
  <2> HIDE DEF ends, later, j
  <2>3. last + j \in Nat /\ last + j \in last + 1 .. last + n
    BY <1>1, <2>1
  <2>4. later[ends[i]] = Between(T, Opened(over, k))
    BY <1>1, <1>3, <2>1, <2>2
  <2>5. Opened(over, i) \ {over[i]} = Opened(over, k)
    <3>1. \A y \in 1 .. k : y \in 1 .. n /\ y # i
      BY <1>1
    <3>2. \A y \in 1 .. k : over[y] # over[i]
      BY <1>1, <3>1
    <3>3. over[i] \notin Opened(over, k)
      BY <1>1, <3>2 DEF Opened
    <3>4. Opened(over, k + 1) = Opened(over, k) \cup {over[k + 1]}
      BY <1>1, <2>1, OpenedMore
    <3> HIDE DEF k
    <3>5. Opened(over, i) = Opened(over, k) \cup {over[i]}
      BY <1>1, <2>1, <3>4
    <3>6. QED
      BY <1>1, <3>3, <3>5
  <2>6. QED
    BY <1>1, <1>2, <2>2, <2>3, <2>4, <2>5
<1> HIDE DEF later, ends, LaterOf
<1>7. LoopFacts(T, over, n, ends, later)
  BY <1>1, <1>6 DEF LoopFacts
<1>8. QED
  BY <1>2, <1>5, <1>7 DEF later, ends, LaterOf

(* The body of the innermost loop. *)
LEMMA BodyBuilt ==
  ASSUME NEW q \in Statements, q.kind = "select", NEW M, NEW c, Resolved(c, q, M),
         NEW marks, NEW later, NEW done, NEW open \in SUBSET Virtual,
         Built(c.memory, Named(q), marks, later, done, Between(Loadable(c), open)),
         NEW back \in Nat, <<back, Between(Loadable(c), open)>> \in marks,
         \A x \in DOMAIN later : x \notin 0 .. Len(done \o Body(c, back))
  PROVE  Built(c.memory, Named(q), marks, later, done \o Body(c, back),
               Between(Loadable(c), open))
<1> DEFINE T == Loadable(c)
           check == GenConditionCheck(c, back)
           copy == GenCopyResult(c, CopiesAll(c))
           lead == done \o check
<1>1. T \in SUBSET Virtual /\ IsList(done)
  BY LoadableFacts, BuiltIsList
<1>2. IsList(check) /\ IsList(copy)
  BY BodyFacts
<1> HIDE DEF T, check, copy
<1>3. done \o Body(c, back) = lead \o copy
  <2>1. (done \o check) \o copy = done \o (check \o copy)
    BY <1>1, <1>2, ThreeLists
  <2>2. Body(c, back) = check \o copy
    BY DEF Body, check, copy
  <2>3. QED
    BY <2>1, <2>2
<1>4. IsList(lead)
  BY <1>1, <1>2, ListOfTwo
<1> HIDE DEF lead
<1>5. Len(lead \o copy) = Len(lead) + Len(copy) /\ Len(lead) \in Nat /\ Len(copy) \in Nat
  BY <1>2, <1>4, ListOfTwo, ListFacts
<1>6. \A x \in DOMAIN later : x \notin 0 .. Len(lead \o copy)
  BY <1>3
<1>7. \A x \in DOMAIN later : x \notin 0 .. Len(lead)
  <2>1. PICK i, j : i = Len(lead) /\ j = Len(lead \o copy)
    OBVIOUS
  <2>2. 0 .. i \subseteq 0 .. j
    BY <1>5, <2>1
  <2>3. QED
    BY <1>6, <2>1, <2>2
<1>8. Built(c.memory, Named(q), marks, later, lead, Between(T, open))
  <2>1. Built(c.memory, Named(q), marks, later, done, Between(T, open))
    BY DEF T
  <2>2. <<back, Between(T, open)>> \in marks
    BY DEF T
  <2>3. \A x \in DOMAIN later : x \notin 0 .. Len(done \o GenConditionCheck(c, back))
    BY <1>7 DEF lead, check
  <2>4. Built(c.memory, Named(q), marks, later, done \o GenConditionCheck(c, back), Between(T, open))
    BY <1>1, <2>1, <2>2, <2>3, ConditionsBuilt
  <2>5. QED
    BY <2>4 DEF lead, check
<1>9. Built(c.memory, Named(q), marks, later, lead \o copy, Between(T, open))
  <2>1. Built(c.memory, Named(q), marks, later, lead, Between(Loadable(c), open))
    BY <1>8 DEF T
  <2>2. CopiesAll(c) \in BOOLEAN
    BY DEF CopiesAll
  <2>3. \A x \in DOMAIN later : x \notin 0 .. Len(lead \o GenCopyResult(c, CopiesAll(c)))
    BY <1>6 DEF copy
  <2>4. PICK w \in BOOLEAN : w = CopiesAll(c)
    BY <2>2
  <2>5. Built(c.memory, Named(q), marks, later, lead \o GenCopyResult(c, w),
              Between(Loadable(c), open))
    BY <2>1, <2>3, <2>4, ResultBuilt
  <2>6. QED
    BY <2>4, <2>5 DEF copy, T
<1>10. QED
  BY <1>3, <1>9 DEF T

(* The length of all parts. *)
LoopsEnd(c, start, n, back, last) == Len(Loops(c, start, n, back, last)) = last + n

(* The loops of a query and what ends them. *)
LEMMA LoopsBuilt ==
  ASSUME NEW q \in Statements, q.kind = "select", NEW M, NEW c, Resolved(c, q, M),
         NEW start, NEW n, NEW back, NEW last, Layout(c, start, n, back, last),
         NEW later, later = Later(Loadable(c), Over(c), n, last)
  PROVE  /\ \E marks : Built(c.memory, Named(q), marks, later, Loops(c, start, n, back, last),
                             Between(Loadable(c), {}))
         /\ LoopsEnd(c, start, n, back, last)
<1> DEFINE T == Loadable(c)
           over == Over(c)
           m == c.memory
           names == Named(q)
           p == Preamble(c)
           body == Body(c, back)
           tails == Tails(n, start)
           ends == Ends(n, last)
           heads == FlattenSeq(Heading(over, ends, n))
           marks == Heads(T, over, n, start)
           one == p \o heads
           two == one \o body
           three == two \o tails
           none == [x \in {} |-> {}]
           inner == Between(T, Opened(over, n))
<1>1. /\ start \in Nat /\ start = Len(p) /\ n \in Nat /\ n # 0 /\ n = Len(over)
      /\ back \in Nat /\ back = start + 3 * (n - 1)
      /\ last \in Nat /\ last = back + 2 + Len(body)
  BY DEF Layout
<1>2. Chosen(T, over, n) /\ T \in SUBSET Virtual
  <2>1. Chosen(T, over, n)
    BY <1>1, OverFacts
  <2>2. QED
    BY <2>1 DEF Chosen
<1>3. IsList(body) /\ Len(body) \in Nat
  BY BodyFacts
<1>4. last = start + 3 * n - 1 + Len(body) /\ start + 3 * (n - 1) = back
  BY <1>1, <1>3
<1>5. /\ DOMAIN later = last + 1 .. last + n
      /\ \A x \in last + 1 .. last + n : later[x] \in Knowledge
      /\ LoopFacts(T, over, n, ends, later)
  <2>1. later = Later(T, over, n, last)
    OBVIOUS
  <2> HIDE DEF T, over
  <2>2. Chosen(T, over, n) /\ last \in Nat
    BY <1>1, <1>2
  <2>3. LaterOf(T, over, n, last, Later(T, over, n, last))
    BY <2>2, LaterFacts
  <2>4. LaterOf(T, over, n, last, later)
    BY <2>1, <2>3
  <2>5. QED
    BY <2>4 DEF LaterOf
<1>6. DOMAIN none = {}
  OBVIOUS
<1>7. \A i \in 0 .. n : Opened(over, i) \in SUBSET Virtual
  <2> HIDE DEF T, over
  <2>1. QED
    BY <1>1, <1>2 DEF Opened, Chosen
<1>8. Built(m, names, {}, none, p, Between(T, Opened(over, 1)))
  <2>1. Opened(over, 1) \in SUBSET Virtual
    BY <1>1, <1>7
  <2> HIDE DEF over, none
  <2>2. QED
    BY <1>6, <2>1, PreambleBuilt
<1>9. Len(p) = start
  BY <1>1
<1> HIDE DEF T, over, m, names, p, body, tails, ends, heads, none
<1>10. Built(m, names, {}, later, p, Between(T, Opened(over, 1)))
  <2>1. \A x \in DOMAIN later : x \notin 0 .. Len(p) /\ later[x] \in Knowledge
    BY <1>1, <1>3, <1>4, <1>5, <1>9
  <2>2. QED
    BY <1>6, <1>8, <2>1, BuiltLater
<1>11. /\ Built(m, names, marks, later, one, inner)
       /\ Len(one) = start + 3 * n - 1
       /\ IsList(heads)
  <2>1. PICK ss : ss = Heading(over, ends, n)
    OBVIOUS
  <2>2. heads = FlattenSeq(ss)
    BY <2>1 DEF heads
  <2>3. PICK end : end = start + 3 * n - 1
    OBVIOUS
  <2>4. \A x \in DOMAIN later : x \notin 0 .. end
    BY <1>1, <1>3, <1>4, <1>5, <2>3
  <2>5. HeadsEnd(p, n, end)
    BY <1>9, <2>3 DEF HeadsEnd
  <2>6. LoopFacts(T, over, n, ends, later)
    BY <1>5
  <2>7. Built(m, names, {}, later, p, Between(T, Opened(over, 1)))
    BY <1>10
  <2>8. /\ Built(m, names, Heads(T, over, n, Len(p)), later, p \o FlattenSeq(ss),
                 Between(T, Opened(over, n)))
        /\ Len(p \o FlattenSeq(ss)) = end
        /\ IsList(FlattenSeq(ss))
    BY <2>1, <2>4, <2>5, <2>6, <2>7, HeadsBuilt
  <2>9. QED
    BY <1>9, <2>2, <2>3, <2>8
<1>12. IsList(one) /\ IsList(tails)
  <2>1. IsList(one)
    BY <1>11, BuiltIsList
  <2> DEFINE s == tails
  <2>2. s = [i \in 1 .. n |-> s[i]]
    BY DEF tails, Tails
  <2> HIDE DEF s
  <2>3. IsList(s)
    BY <1>1, <2>2, FunctionIsList
  <2>4. QED
    BY <2>1, <2>3 DEF s
<1> HIDE DEF one
<1>13. IsList(two) /\ Len(two) = last
  BY <1>1, <1>3, <1>4, <1>11, <1>12, ListOfTwo
<1>14. <<back, inner>> \in marks
  <2>1. n \in 1 .. n
    BY <1>1
  <2>2. <<start + 3 * (n - 1), Between(T, Opened(over, n))>> \in marks
    BY <2>1 DEF Heads
  <2> HIDE DEF marks
  <2>3. QED
    BY <1>4, <2>2
<1> HIDE DEF marks
<1>15. Built(m, names, marks, later, two, inner)
  <2>1. Opened(over, n) \in SUBSET Virtual
    BY <1>1, <1>7
  <2>2. \A x \in DOMAIN later : x \notin 0 .. Len(two)
    BY <1>1, <1>4, <1>5, <1>13
  <2>3. Built(c.memory, Named(q), marks, later, one, Between(Loadable(c), Opened(over, n)))
    BY <1>11 DEF m, names, T
  <2>4. <<back, Between(Loadable(c), Opened(over, n))>> \in marks
    BY <1>14 DEF T
  <2>5. \A x \in DOMAIN later : x \notin 0 .. Len(one \o Body(c, back))
    BY <2>2 DEF body
  <2>6. Built(c.memory, Named(q), marks, later, one \o Body(c, back),
              Between(Loadable(c), Opened(over, n)))
    BY <1>1, <2>1, <2>3, <2>4, <2>5, BodyBuilt
  <2>7. QED
    BY <2>6 DEF m, names, T, body
<1> HIDE DEF two
<1>16. Built(m, names, marks, later, three, Between(T, {})) /\ Len(tails) = n
  <2>1. TailsBegin(two, start, n)
    BY <1>1, <1>3, <1>4, <1>13 DEF TailsBegin
  <2>2. ends = Ends(n, Len(two))
    BY <1>13 DEF ends
  <2>3. Built(m, names, Heads(T, over, n, start), later, two, Between(T, Opened(over, n)))
    BY <1>15 DEF marks
  <2>4. LoopFacts(T, over, n, ends, later)
    BY <1>5
  <2>5. /\ Built(m, names, Heads(T, over, n, start), later, two \o Tails(n, start), Between(T, {}))
        /\ Len(Tails(n, start)) = n
    BY <1>1, <2>1, <2>2, <2>3, <2>4, TailsBuilt
  <2>6. QED
    BY <2>5 DEF marks, tails
<1>17. Len(three) = last + n
  <2>1. Len(two \o tails) = Len(two) + Len(tails)
    BY <1>12, <1>13, ListOfTwo
  <2>2. QED
    BY <1>13, <1>16, <2>1
<1>18. three = Loops(c, start, n, back, last)
  BY DEF Loops, two, one, p, body, tails, heads, ends, over
<1> HIDE DEF three
<1>19. LoopsEnd(c, start, n, back, last)
  BY <1>17, <1>18 DEF LoopsEnd
<1>20. QED
  BY <1>16, <1>18, <1>19 DEF m, names, T

-----------------------------------------------------------------------------
(* The code of a query passes the rules. *)
LEMMA SelectVerified ==
  ASSUME NEW q \in Statements, q.kind = "select"
  PROVE  \E know : Verified(Compiled(q), Named(q), know)
<1>1. PICK M : Resolved(Parsed(q), q, M)
  BY ParsedFacts
<1>2. PICK c : c = Parsed(q)
  OBVIOUS
<1>3. Resolved(c, q, M)
  BY <1>1, <1>2
<1>4. /\ Compiled(q).memory = c.memory
      /\ Compiled(q).code = Append(GenerateBytecode(c), I("HALT", 1))
  <2>1. Compiled(q) = [Select(q) EXCEPT !.code = Append(@, I("HALT", 1))]
    BY DEF Compiled
  <2>2. Select(q) = [code |-> GenerateBytecode(c), memory |-> c.memory]
    BY <1>2 DEF Select
  <2> HIDE DEF Select, Compiled
  <2>3. QED
    BY <2>1, <2>2
<1>5. PICK start, n : start = Len(Preamble(c)) /\ n = Len(Over(c))
  OBVIOUS
<1>6. start \in Nat
  <2>1. DOMAIN [x \in {} |-> {}] = {}
    OBVIOUS
  <2>2. IsList(Preamble(c))
    BY <1>3, <2>1, PreambleBuilt, BuiltIsList
  <2>3. QED
    BY <1>5, <2>2, ListFacts
<1>7. Chosen(Loadable(c), Over(c), n) /\ n \in Nat /\ n # 0
  <2>1. Chosen(Loadable(c), Over(c), n)
    BY <1>3, <1>5, OverFacts
  <2>2. QED
    BY <2>1 DEF Chosen
<1>8. PICK back \in Nat : back = start + 3 * (n - 1)
  <2>1. start + 3 * (n - 1) \in Nat
    BY <1>6, <1>7
  <2>2. QED
    BY <2>1
<1>9. PICK last \in Nat : last = back + 2 + Len(Body(c, back))
  <2>1. Len(Body(c, back)) \in Nat
    BY <1>3, BodyFacts
  <2>2. back + 2 + Len(Body(c, back)) \in Nat
    BY <1>8, <2>1
  <2>3. QED
    BY <2>2
<1>10. Layout(c, start, n, back, last)
  BY <1>5, <1>6, <1>7, <1>8, <1>9 DEF Layout
<1>11. PICK later : later = Later(Loadable(c), Over(c), n, last)
  OBVIOUS
<1> DEFINE three == Loops(c, start, n, back, last)
           whole == CopiesAll(c)
           a == Between(Loadable(c), {})
<1>12. /\ \E marks : Built(c.memory, Named(q), marks, later, three, a)
       /\ LoopsEnd(c, start, n, back, last)
  BY <1>3, <1>10, <1>11, LoopsBuilt
<1>13. PICK marks : Built(c.memory, Named(q), marks, later, three, a)
  BY <1>12
<1>14. Len(three) = last + n
  BY <1>12 DEF LoopsEnd
<1>15. GenerateBytecode(c) = three \o LastRecord(whole)
  BY <1>10, SelectCode
<1>16. DOMAIN later = last + 1 .. last + n
  <2>1. LaterOf(Loadable(c), Over(c), n, last, later)
    BY <1>7, <1>9, <1>11, LaterFacts
  <2>2. QED
    BY <2>1 DEF LaterOf
<1> HIDE DEF three, whole
<1>17. IsList(three)
  BY <1>13, BuiltIsList
<1>18. /\ Built(c.memory, Named(q), marks, later, GenerateBytecode(c), a)
       /\ DOMAIN later \subseteq 0 .. Len(GenerateBytecode(c))
  <2>1. CASE whole
    <3>1. three \o LastRecord(whole) = three
      <4>1. LastRecord(whole) = <<>>
        BY <2>1 DEF LastRecord
      <4>2. QED
        BY <1>17, <4>1, NothingMore
    <3>2. GenerateBytecode(c) = three
      BY <1>15, <3>1
    <3>3. DOMAIN later \subseteq 0 .. Len(three)
      BY <1>7, <1>9, <1>14, <1>16
    <3>4. QED
      BY <1>13, <3>2, <3>3
  <2>2. CASE ~whole
    <3> DEFINE e == I("NEWREC", 1)
    <3>1. LastRecord(whole) = <<e>>
      BY <2>2 DEF LastRecord
    <3>2. e = I("NEWREC", 1) \/ \E t \in Loadable(c) : e = I("CPYREC", t)
      OBVIOUS
    <3> HIDE DEF e
    <3>3. three \o <<e>> = Append(three, e) /\ Len(Append(three, e)) = Len(three) + 1
      BY <1>17, OneAfter, ListMore
    <3>4. GenerateBytecode(c) = Append(three, e)
      BY <1>15, <3>1, <3>3
    <3>5. Len(three) + 1 \notin DOMAIN later
      BY <1>7, <1>9, <1>14, <1>16
    <3>6. DOMAIN later \subseteq 0 .. Len(three) + 1
      BY <1>7, <1>9, <1>14, <1>16
    <3>7. Loadable(c) \in SUBSET Virtual /\ {} \in SUBSET Virtual
      BY <1>3, LoadableFacts
    <3>8. Built(c.memory, Named(q), marks, later, Append(three, e), a)
      BY <1>13, <3>2, <3>5, <3>7, RecordBuilt
    <3>9. QED
      BY <3>3, <3>4, <3>6, <3>8
  <2>3. QED
    BY <2>1, <2>2
<1>19. a.stack = <<>> /\ a.open = {} /\ a.more = NoTable
  BY DEF Between, Looping, Made
<1> HIDE DEF a
<1>20. QED
  BY <1>4, <1>13, <1>18, <1>19, BuiltFinished

(* The code of every statement is verified. *)
LEMMA AllAreVerified == AllVerified
<1>1. ASSUME NEW s \in Statements
      PROVE  \E know : Verified(Compiled(s), Named(s), know)
  <2>1. \/ s.kind = "select" \/ s.kind = "insert" \/ s.kind = "describe" \/ s.kind = "create"
    BY StatementsAssumption
  <2>2. QED
    BY <2>1, SelectVerified, InsertVerified, DescribeVerified, CreateVerified
<1>2. QED
  BY <1>1 DEF AllVerified

-----------------------------------------------------------------------------
(* Whatever statements are executed, the words of the machine have their types;
   what is executed, a compiler's code or the instructions that Parse appended to
   those of a statement that was explained, is never left without a program. *)
THEOREM MachineHasTypes == Spec => []TypeOK
<1>1. MachineInv => TypeOK
  BY InvSafe
<1>2. QED
  BY InitInv, NextInv, AllAreVerified, <1>1, PTL DEF Spec

(* No statement's code leaves more than two words on the stack, and at its HALT
   there is none. *)
THEOREM StackStaysShallow == Spec => []StackShallow
<1>1. MachineInv => StackShallow
  BY InvSafe
<1>2. QED
  BY InitInv, NextInv, AllAreVerified, <1>1, PTL DEF Spec

(* Decode indexes code, memory, stack and the virtual tables without a check: no
   statement's code makes it leave them, or use a virtual table that has none. *)
THEOREM MachineStaysInside == Spec => []StaysInside
<1>1. MachineInv => StaysInside
  BY InvSafe
<1>2. QED
  BY InitInv, NextInv, AllAreVerified, <1>1, PTL DEF Spec

(* The nested loops of a query read each of their tables to its end: none is
   asked for a record after its last one, none is rewound, and no query ends, in
   the middle of a scan. *)
THEOREM ScansStayWhole == Spec => []ScansAreWhole
<1>1. MachineInv => ScansAreWhole
  BY InvSafe
<1>2. QED
  BY InitInv, NextInv, AllAreVerified, <1>1, PTL DEF Spec

-----------------------------------------------------------------------------
(* The program and its result set. *)
(* The result set holds the records of the answer and a current one among
   them; there is none while a statement runs. *)
Placed ==
  /\ rs.made => /\ rs.records = answer
                /\ IsList(answer) /\ answer # <<>>
                /\ r \in Nat /\ r < Len(answer)
                /\ ~Running
  /\ ~rs.made => rs = NoResultSet /\ ~printing /\ printed = <<>>

(* What was printed begins at a record before the current one. *)
PrintedPart ==
  printed # <<>> =>
    /\ rs.made
    /\ first \in Nat /\ first < Len(answer)
    /\ printing => first < r
    /\ printed = SubSeq(answer, first + 1, IF printing THEN r ELSE Len(answer))

(* A row is printed while its columns are. *)
Printing == printing \in BOOLEAN /\ (printing => printed # <<>>)

(* The number of records fits the type of the counters. *)
Fits == Len(answer) <= 65536

-----------------------------------------------------------------------------
(* The last number is less than the count: the counters wrap only downwards. *)
LEMMA LastIsInside ==
  ASSUME NEW n \in Nat, n # 0
  PROVE  /\ Unsigned(n - 1) \in Nat
         /\ Unsigned(n - 1) < n
         /\ n <= 65536 => Unsigned(n - 1) = n - 1
<1>1. \A m \in Nat : m % 65536 \in Nat /\ m % 65536 <= m /\ (m < 65536 => m % 65536 = m)
  BY SMT
<1>2. n - 1 \in Nat
  OBVIOUS
<1>3. QED
  BY <1>1, <1>2 DEF Unsigned

(* A move of the program changes the position only, and no statement runs. *)
LEMMA MoveFacts ==
  ASSUME NEW to, Moves(to)
  PROVE  /\ rs.made /\ ~Running /\ ~printing /\ ~Running'
         /\ r' = to /\ rs' = rs /\ answer' = answer
         /\ printing' = printing /\ first' = first /\ printed' = printed
BY DEF Moves, Idle, Running, vars

(* A row printed is the current one, and what follows it becomes current. *)
LEMMA RowFacts ==
  ASSUME PrintRow, ~Running
  PROVE  /\ rs' = rs /\ answer' = answer /\ ~Running'
         /\ printed' = Append(printed, CurrentRecord)
         /\ printing' = HasNext
         /\ r' = IF HasNext THEN r + 1 ELSE r
BY DEF PrintRow, vars, Running

(* Before anything is executed there is no result set and nothing is printed. *)
LEMMA InitPlaced ==
  ASSUME ResultInit
  PROVE  Placed /\ PrintedPart /\ Printing
<1>1. rs = NoResultSet /\ ~printing /\ printing = FALSE /\ printed = <<>>
  BY DEF ResultInit
<1>2. rs.made = FALSE
  BY <1>1 DEF NoResultSet
<1>3. QED
  BY <1>1, <1>2 DEF Placed, PrintedPart, Printing

(* Every action keeps the current record among those of the answer. *)
LEMMA PlacedNext ==
  ASSUME TypeOK, Placed, [ResultNext]_<<vars, program>>
  PROVE  Placed'
<1>1. rs.made => Len(answer) \in Nat /\ Len(answer) # 0 /\ Highest \in Nat /\ Highest < Len(answer)
  BY ListFacts, LastIsInside DEF Placed, Highest, GetRecordCount
<1>2. CASE Receive
  <2>1. Decode /\ printing' = printing /\ printed' = printed
    BY <1>2 DEF Receive
  <2>2. ~rs.made /\ rs = NoResultSet /\ ~printing /\ printed = <<>>
    BY <2>1, DecodeAnswers DEF Placed
  <2>3. CASE ~Instruction("HALT")
    <3>1. rs' = rs /\ answer' = answer
      BY <1>2, <2>1, <2>3, DecodeAnswers DEF Receive
    <3>2. QED
      BY <2>1, <2>2, <3>1 DEF Placed
  <2>4. CASE Instruction("HALT")
    <3>1. rs' = Returned /\ r' = 0 /\ answer' = results.records /\ asked' = NoStatement
      BY <1>2, <2>1, <2>4, DecodeAnswers DEF Receive
    <3>2. ~Running'
      BY <3>1 DEF Running
    <3>3. IsList(results.records)
      BY DEF TypeOK, IsList
    <3>4. CASE results.records = <<>>
      BY <2>1, <2>2, <3>1, <3>4 DEF Placed, Returned, NoResultSet
    <3>5. CASE results.records # <<>>
      <4>1. rs'.made /\ rs'.records = answer'
        BY <3>1, <3>5 DEF Returned
      <4>2. Len(answer') \in Nat /\ Len(answer') # 0
        BY <3>1, <3>3, <3>5, ListFacts
      <4>3. IsList(answer')
        BY <3>1, <3>3
      <4>4. r' \in Nat /\ r' < Len(answer')
        BY <3>1, <4>2
      <4>5. QED
        BY <3>1, <3>2, <3>5, <4>1, <4>3, <4>4 DEF Placed, IsList
    <3>6. QED
      BY <3>4, <3>5
  <2>5. QED
    BY <2>3, <2>4
<1>3. CASE \E s \in Statements : ExecuteNext(s)
  BY <1>3 DEF ExecuteNext, NotPrinted, NoResultSet, Placed
<1>4. CASE \E s \in Statements : Explain(s)
  <2>1. UNCHANGED program /\ answer' = answer /\ asked' = asked
    BY <1>4 DEF Explain, ExplainMQL, Parse
  <2>2. QED
    BY <2>1 DEF Placed, program, Running, IsList
<1>5. CASE ToFirst \/ ToNext \/ ToPrevious \/ ToLast
  <2>1. rs.made /\ rs' = rs /\ answer' = answer /\ ~Running' /\ r' \in Nat /\ r' < Len(answer)
    <3>1. rs.made
      BY <1>5 DEF ToFirst, ToNext, ToPrevious, ToLast, Moves
    <3>2. r \in Nat /\ r < Len(answer)
      BY <3>1 DEF Placed
    <3>3. CASE ToFirst
      BY <1>1, <3>1, <3>3, MoveFacts DEF ToFirst
    <3>4. CASE ToNext
      <4>1. r < Highest /\ Moves(r + 1)
        BY <3>4 DEF ToNext, HasNext
      <4>2. QED
        BY <1>1, <3>1, <3>2, <4>1, MoveFacts
    <3>5. CASE ToPrevious
      <4>1. r > 0 /\ Moves(r - 1)
        BY <3>5 DEF ToPrevious
      <4>2. QED
        BY <1>1, <3>1, <3>2, <4>1, MoveFacts
    <3>6. CASE ToLast
      BY <1>1, <3>1, <3>6, MoveFacts DEF ToLast
    <3>7. QED
      BY <1>5, <3>3, <3>4, <3>5, <3>6
  <2>2. QED
    BY <2>1 DEF Placed, IsList
<1>6. CASE PrintFirst \/ PrintNext
  <2>1. rs.made /\ ~Running /\ PrintRow
    BY <1>6 DEF PrintFirst, PrintNext, Placed, Idle
  <2>2. rs' = rs /\ answer' = answer /\ ~Running' /\ r' = IF r < Highest THEN r + 1 ELSE r
    BY <2>1, RowFacts DEF HasNext
  <2>3. r' \in Nat /\ r' < Len(answer)
    BY <1>1, <2>1, <2>2 DEF Placed
  <2>4. QED
    BY <2>1, <2>2, <2>3 DEF Placed, IsList
<1>7. CASE UNCHANGED <<vars, program>>
  BY <1>7 DEF Placed, vars, program, Running, IsList
<1>8. QED
  BY <1>2, <1>3, <1>4, <1>5, <1>6, <1>7 DEF ResultNext

(* A row more is the part of the list that is one longer. *)
LEMMA OneRowMore ==
  ASSUME NEW s, IsList(s), NEW m \in Nat, NEW n \in Nat, m <= n, n < Len(s)
  PROVE  Append(SubSeq(s, m + 1, n), s[n + 1]) = SubSeq(s, m + 1, n + 1)
<1>1. s \in Seq(ToSet(s))
  BY DEF IsList
<1>2. Len(s) \in Nat
  BY ListFacts
<1>3. \A i \in 1 .. Len(s) : s[i] \in ToSet(s)
  BY <1>1
<1>4. SubSeq(s, m + 1, n) \in Seq(ToSet(s)) /\ Len(SubSeq(s, m + 1, n)) = n - m
  <2>1. \A i \in m + 1 .. n : s[i] \in ToSet(s)
    BY <1>2, <1>3
  <2>2. QED
    BY <2>1, SubSeqProperties
<1>5. SubSeq(s, m + 1, n + 1) \in Seq(ToSet(s)) /\ Len(SubSeq(s, m + 1, n + 1)) = n + 1 - m
  <2>1. \A i \in m + 1 .. n + 1 : s[i] \in ToSet(s)
    BY <1>2, <1>3
  <2>2. QED
    BY <2>1, SubSeqProperties
<1>6. QED
  BY <1>2, <1>3, <1>4, <1>5

(* Every action keeps what was printed to be a part of the answer. *)
LEMMA PrintedNext ==
  ASSUME TypeOK, Fits, Placed, Printing, PrintedPart, [ResultNext]_<<vars, program>>
  PROVE  PrintedPart' /\ Printing'
<1>1. rs.made => /\ Len(answer) \in Nat /\ Len(answer) # 0
                 /\ Highest = Len(answer) - 1
  BY ListFacts, LastIsInside DEF Placed, Highest, GetRecordCount, Fits
<1>2. CASE Receive
  <2>1. Running /\ printing' = printing /\ printed' = printed
    BY <1>2, DecodeAnswers DEF Receive
  <2>2. ~printing /\ printed = <<>>
    BY <2>1 DEF Placed
  <2>3. QED
    BY <2>1, <2>2 DEF PrintedPart, Printing
<1>3. CASE \E s \in Statements : ExecuteNext(s)
  BY <1>3 DEF ExecuteNext, NotPrinted, PrintedPart, Printing
<1>4. CASE \E s \in Statements : Explain(s)
  <2>1. UNCHANGED program /\ answer' = answer
    BY <1>4 DEF Explain, ExplainMQL, Parse
  <2>2. QED
    BY <2>1 DEF PrintedPart, Printing, program
<1>5. CASE ToFirst \/ ToNext \/ ToPrevious \/ ToLast
  <2>1. rs' = rs /\ answer' = answer /\ ~printing /\ printing' = printing
        /\ first' = first /\ printed' = printed
    BY <1>5, MoveFacts DEF ToFirst, ToNext, ToPrevious, ToLast
  <2>2. QED
    BY <2>1 DEF PrintedPart, Printing
<1>6. CASE PrintFirst \/ PrintNext
  <2>1. rs.made /\ ~Running /\ PrintRow
    BY <1>6 DEF PrintFirst, PrintNext, Placed, Idle
  <2> DEFINE from == IF PrintFirst THEN r ELSE first
  <2>2. /\ rs' = rs /\ answer' = answer
        /\ printed' = Append(printed, answer[r + 1])
        /\ printing' = HasNext
        /\ r' = IF HasNext THEN r + 1 ELSE r
    BY <2>1, RowFacts DEF CurrentRecord, Placed
  <2>3. IsList(answer) /\ r \in Nat /\ r < Len(answer)
    BY <2>1 DEF Placed
  <2>4. from \in Nat /\ from <= r /\ first' = from /\ printed = SubSeq(answer, from + 1, r)
    <3>1. CASE PrintFirst
      <4>1. SubSeq(answer, r + 1, r) = <<>>
        BY <2>3, SubSeqEmpty
      <4>2. QED
        BY <2>3, <3>1, <4>1 DEF PrintFirst
    <3>2. CASE ~PrintFirst
      <4>1. PrintNext /\ printing /\ first' = first
        BY <1>6, <3>2 DEF PrintNext
      <4>2. QED
        BY <2>3, <3>2, <4>1 DEF PrintedPart, Printing
    <3>3. QED
      BY <3>1, <3>2
  <2> HIDE DEF from
  <2>5. printed' = SubSeq(answer, from + 1, r + 1)
    BY <2>2, <2>3, <2>4, OneRowMore
  <2>6. printed' # <<>>
    <3>1. Len(printed') = r + 1 - from
      <4>1. \A i \in from + 1 .. r + 1 : answer[i] \in ToSet(answer)
        BY <2>3, <2>4 DEF IsList
      <4>2. QED
        BY <2>3, <2>4, <2>5, <4>1, SubSeqProperties
    <3>2. QED
      BY <2>3, <2>4, <3>1
  <2>7. (IF printing' THEN r' ELSE Len(answer')) = r + 1
    <3>1. CASE r < Highest
      BY <2>2, <3>1 DEF HasNext
    <3>2. CASE ~(r < Highest)
      <4>1. ~printing' /\ Len(answer) = r + 1
        <5>1. Len(answer) \in Nat /\ Highest = Len(answer) - 1
          BY <1>1, <2>1
        <5>2. Len(answer) = r + 1
          BY <2>3, <3>2, <5>1
        <5>3. QED
          BY <2>2, <3>2, <5>2 DEF HasNext
      <4>2. QED
        BY <2>2, <4>1
    <3>3. QED
      BY <3>1, <3>2
  <2>8. from < Len(answer) /\ (printing' => from < r')
    BY <1>1, <2>1, <2>2, <2>3, <2>4
  <2>9. printing' \in BOOLEAN
    BY <2>2 DEF HasNext
  <2>10. QED
    BY <2>1, <2>2, <2>4, <2>5, <2>6, <2>7, <2>8, <2>9 DEF PrintedPart, Printing
<1>7. CASE UNCHANGED <<vars, program>>
  BY <1>7 DEF PrintedPart, Printing, vars, program
<1>8. QED
  BY <1>2, <1>3, <1>4, <1>5, <1>6, <1>7 DEF ResultNext

-----------------------------------------------------------------------------
(* What the program does with a result set leaves the machine alone. *)
LEMMA MachineSteps ==
  ASSUME [ResultNext]_<<vars, program>>
  PROVE  [Next]_vars
<1>1. CASE Receive
  BY <1>1 DEF Receive, Next
<1>2. CASE \E s \in Statements : ExecuteNext(s) \/ Explain(s)
  BY <1>2 DEF ExecuteNext, Explain, Next
<1>3. CASE ToFirst \/ ToNext \/ ToPrevious \/ ToLast
  BY <1>3 DEF ToFirst, ToNext, ToPrevious, ToLast, Moves
<1>4. CASE PrintFirst \/ PrintNext
  BY <1>4 DEF PrintFirst, PrintNext, PrintRow
<1>5. CASE UNCHANGED <<vars, program>>
  BY <1>5
<1>6. QED
  BY <1>1, <1>2, <1>3, <1>4, <1>5 DEF ResultNext

(* The result set drives a machine that keeps its invariant. *)
LEMMA ResultMachineInv == ResultInit => MachineInv
BY InitInv DEF ResultInit

(* Every step does. *)
LEMMA ResultMachineNext ==
  MachineInv /\ [ResultNext]_<<vars, program>> => MachineInv'
BY MachineSteps, NextInv, AllAreVerified

(* Whatever the statements answer and however the program moves, its position is
   that of a record: PositionInside, and that the records are the answer's. *)
THEOREM PositionStaysInside == ResultSpec => []PositionInside
<1>1. ResultInit => Placed
  BY InitPlaced
<1>2. Placed /\ MachineInv /\ [ResultNext]_<<vars, program>> => Placed'
  BY PlacedNext, InvSafe
<1>3. Placed => PositionInside
  BY DEF PositionInside, Placed, GetRecordCount
<1>4. QED
  BY ResultMachineInv, ResultMachineNext, <1>1, <1>2, <1>3, PTL DEF ResultSpec

(* As long as answers have no more records than the counters can count, what
   printResults printed is the answer from the record it began with, to the
   record it has come to, and when it has ended, to the last. *)
THEOREM AllIsPrinted == ResultSpec /\ []Fits => []PrintsTheRest
<1> DEFINE Inv == Placed /\ PrintedPart /\ Printing
<1>1. ResultInit => Inv
  BY InitPlaced
<1>2. Inv /\ MachineInv /\ Fits /\ [ResultNext]_<<vars, program>> => Inv'
  BY PlacedNext, PrintedNext, InvSafe
<1>3. Inv => PrintsTheRest
  BY DEF PrintsTheRest, PrintedPart
<1>4. QED
  BY ResultMachineInv, ResultMachineNext, <1>1, <1>2, <1>3, PTL DEF ResultSpec
=============================================================================

----------------------------- MODULE KeyCompare -----------------------------
(***************************************************************************)
(* The data types of mdbInitializeTypes (mastersdb/mdb/mdbdatabase.c) and  *)
(* mdbBtreeCmp (mdbbtree.c), which compares two keys the way the data type *)
(* of a table's first column says.  A key is the sequence of its bytes; of *)
(* a STRING those after the 4-byte header, which holds their number.       *)
(***************************************************************************)
EXTENDS Integers, Sequences

(* header: bytes of the length prefix; size: bytes of the value. *)
datatypes ==
  [type \in {"INT-8", "INT-16", "INT-32", "FLOAT", "STRING"} |->
     CASE type = "INT-8"  -> [header |-> 0, size |-> 1, compare |-> "memcmp"]
       [] type = "INT-16" -> [header |-> 0, size |-> 2, compare |-> "memcmp"]
       [] type = "INT-32" -> [header |-> 0, size |-> 4, compare |-> "memcmp"]
       [] type = "FLOAT"  ->
            [header |-> 0, size |-> 4, compare |-> "mdbCompareFloat"]
       [] type = "STRING" -> [header |-> 4, size |-> 1, compare |-> "strncmp"]]

(* The first of n bytes at which the comparison of the C library stops. *)
Decides(k1, k2, n, i) ==
  /\ i \in 1 .. n
  /\ k1[i] # k2[i]
  /\ \A j \in 1 .. i - 1 : k1[j] = k2[j]

(* Mutant: the comparison gets the size of a byte. *)
memcmpFirst(k1, k2, n) == k1[1] - k2[1]

memcmp(k1, k2, n) ==
  IF \E i \in 1 .. n : Decides(k1, k2, n, i)
    THEN LET i == CHOOSE i \in 1 .. n : Decides(k1, k2, n, i)
         IN  k1[i] - k2[i]
    ELSE 0

(* As memcmp, but a common NUL byte ends both strings. *)
strncmp(k1, k2, n) ==
  LET ends == {i \in 1 .. n : k1[i] = 0 /\ k2[i] = 0}
      stop == IF ends = {} THEN n
                           ELSE CHOOSE i \in ends : \A j \in ends : i <= j
  IN  memcmp(k1, k2, stop)

mdbCompareFloat(k1, k2, n) == 0

Compare(f, k1, k2, n) ==
  CASE f = "memcmp"          -> memcmp(k1, k2, n)
    [] f = "strncmp"         -> strncmp(k1, k2, n)
    [] f = "mdbCompareFloat" -> mdbCompareFloat(k1, k2, n)

mdbBtreeCmp(type, k1, k2) ==
  LET t     == datatypes[type]
      size1 == Len(k1)
      size2 == Len(k2)
  IN  IF t.header > 0
        THEN Compare(t.compare, k1, k2, IF size2 < size1 THEN size2 ELSE size1)
        ELSE Compare(t.compare, k1, k2, t.size)
=============================================================================

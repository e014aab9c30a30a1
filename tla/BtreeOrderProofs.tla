-------------------------- MODULE BtreeOrderProofs --------------------------
(***************************************************************************)
(* The order of the keys in trees that grow, for every comparison that is  *)
(* a total order: an in-order walk meets the keys in ascending order, the  *)
(* tree is the set of records that BtreeMap promises, and a scan returns   *)
(* them all, in order.                                                     *)
(*                                                                         *)
(* The proofs give every page the range of keys it is responsible for: all *)
(* for the root, and for a child those of its parent that lie between the  *)
(* records on both sides of it.                                            *)
(***************************************************************************)
EXTENDS BtreeTraverse, BtreePagesProofs, KeyCompare

(* The comparison is a total order of the keys. *)
KeysOrdered ==
  \A i, j, k \in Key :
    /\ Cmp(i, j) = 0 <=> i = j
    /\ Cmp(i, j) < 0 <=> Cmp(j, i) > 0
    /\ Cmp(i, j) < 0 /\ Cmp(j, k) < 0 => Cmp(i, k) < 0

(* The order of the keys. *)
Less(j, k) == Cmp(j, k) < 0

(* What the sign of a comparison tells. *)
LEMMA Signs ==
  ASSUME KeysOrdered, NEW j \in Key, NEW k \in Key
  PROVE  /\ Cmp(j, k) < 0 <=> Less(j, k)
         /\ Cmp(j, k) > 0 <=> Less(k, j)
         /\ Cmp(j, k) = 0 <=> j = k
         /\ Cmp(j, k) <= 0 <=> Less(j, k) \/ j = k
<1>1. Cmp(j, k) \in Int /\ Cmp(k, j) \in Int
  BY CmpAssumption
<1>2. /\ Cmp(j, k) = 0 <=> j = k
      /\ Cmp(k, j) < 0 <=> Cmp(j, k) > 0
  BY DEF KeysOrdered
<1>3. QED
  BY <1>1, <1>2 DEF Less

(* A total order. *)
LEMMA Total ==
  ASSUME KeysOrdered
  PROVE  /\ \A k \in Key : ~Less(k, k)
         /\ \A j, k \in Key : Less(j, k) \/ j = k \/ Less(k, j)
         /\ \A j, k \in Key : ~(Less(j, k) /\ Less(k, j))
         /\ \A i, j, k \in Key : Less(i, j) /\ Less(j, k) => Less(i, k)
<1>1. \A k \in Key : ~Less(k, k)
  BY CmpAssumption DEF KeysOrdered, Less
<1>2. ASSUME NEW j \in Key, NEW k \in Key
      PROVE  Less(j, k) \/ j = k \/ Less(k, j)
  BY CmpAssumption, Signs
<1>3. ASSUME NEW i \in Key, NEW j \in Key, NEW k \in Key,
             Less(i, j), Less(j, k)
      PROVE  Less(i, k)
  BY <1>3 DEF KeysOrdered, Less
<1>4. QED
  BY <1>1, <1>2, <1>3

-----------------------------------------------------------------------------
(* The keys between the records on both sides of slot i. *)
Gap(recs, i) ==
  {k \in Key : /\ i > 1 => Less(KeyOf(recs[i - 1]), k)
               /\ i <= Len(recs) => Less(k, KeyOf(recs[i]))}

(* The keys below a key, and *)
Lower(keys, m) == {k \in keys : Less(k, m)}

(* those above it. *)
Upper(keys, m) == {k \in keys : Less(m, k)}

(* Records in ascending order, with keys of the set W. *)
Fits(recs, W) ==
  /\ \A i \in 1 .. Len(recs) : KeyOf(recs[i]) \in W
  /\ \A i, j \in 1 .. Len(recs) :
       i < j => Less(KeyOf(recs[i]), KeyOf(recs[j]))

(* The keys of a sequence of records. *)
LEMMA KeysOf ==
  ASSUME NEW recs \in Seq(Record)
  PROVE  /\ Len(recs) \in Nat
         /\ \A i \in 1 .. Len(recs) : recs[i] \in Record /\ KeyOf(recs[i]) \in Key
BY LenProperties, ElementOfSeq, KeyAssumption

(* No record lies in a gap, and no key in two gaps. *)
LEMMA GapsApart ==
  ASSUME KeysOrdered, NEW recs \in Seq(Record), NEW W, Fits(recs, W)
  PROVE  /\ \A i \in 1 .. Len(recs) + 1, j \in 1 .. Len(recs) :
              KeyOf(recs[j]) \notin Gap(recs, i)
         /\ \A i, j \in 1 .. Len(recs) + 1 :
              i # j => Gap(recs, i) \cap Gap(recs, j) = {}
<1>1. /\ Len(recs) \in Nat
      /\ \A i \in 1 .. Len(recs) : KeyOf(recs[i]) \in Key
  BY KeysOf
<1>2. \A i, j \in 1 .. Len(recs) :
        i < j => Less(KeyOf(recs[i]), KeyOf(recs[j]))
  BY DEF Fits
<1>3. ASSUME NEW i \in 1 .. Len(recs) + 1, NEW j \in 1 .. Len(recs),
             KeyOf(recs[j]) \in Gap(recs, i)
      PROVE  FALSE
  <2>1. CASE j < i
    <3>1. i > 1 /\ i - 1 \in 1 .. Len(recs) /\ (j = i - 1 \/ j < i - 1)
      BY <1>1, <2>1
    <3>2. Less(KeyOf(recs[i - 1]), KeyOf(recs[j]))
      BY <1>3, <3>1 DEF Gap
    <3>3. j = i - 1 \/ Less(KeyOf(recs[j]), KeyOf(recs[i - 1]))
      BY <1>2, <3>1
    <3>4. QED
      BY <1>1, <3>1, <3>2, <3>3, Total
  <2>2. CASE j >= i
    <3>1. i \in 1 .. Len(recs) /\ (j = i \/ i < j)
      BY <1>1, <2>2
    <3>2. Less(KeyOf(recs[j]), KeyOf(recs[i]))
      BY <1>3, <3>1 DEF Gap
    <3>3. j = i \/ Less(KeyOf(recs[i]), KeyOf(recs[j]))
      BY <1>2, <3>1
    <3>4. QED
      BY <1>1, <3>1, <3>2, <3>3, Total
  <2>3. QED
    BY <1>1, <2>1, <2>2
<1>4. ASSUME NEW i \in 1 .. Len(recs) + 1, NEW j \in 1 .. Len(recs) + 1, i < j,
             NEW k \in Gap(recs, i), k \in Gap(recs, j)
      PROVE  FALSE
  <2>1. /\ i \in 1 .. Len(recs) /\ j - 1 \in 1 .. Len(recs) /\ j > 1
        /\ i = j - 1 \/ i < j - 1
    BY <1>1, <1>4
  <2>2. /\ k \in Key /\ Less(k, KeyOf(recs[i])) /\ Less(KeyOf(recs[j - 1]), k)
    BY <1>4, <2>1 DEF Gap
  <2>3. i = j - 1 \/ Less(KeyOf(recs[i]), KeyOf(recs[j - 1]))
    BY <1>2, <2>1
  <2>4. QED
    BY <1>1, <2>1, <2>2, <2>3, Total
<1>5. QED
  BY <1>1, <1>3, <1>4

(* A record goes into the gap of its key, *)
LEMMA InsertFits ==
  ASSUME KeysOrdered, NEW recs \in Seq(Record), NEW W \in SUBSET Key,
         Fits(recs, W), NEW i \in 1 .. Len(recs) + 1, NEW r \in Record,
         KeyOf(r) \in W, KeyOf(r) \in Gap(recs, i)
  PROVE  LET t == InsertAt(recs, i, r)
         IN  /\ Fits(t, W)
             /\ \A j \in 1 .. i - 1 : Gap(t, j) = Gap(recs, j)
             /\ Gap(t, i) = Lower(Gap(recs, i), KeyOf(r))
             /\ Gap(t, i + 1) = Upper(Gap(recs, i), KeyOf(r))
             /\ \A j \in i + 2 .. Len(recs) + 2 : Gap(t, j) = Gap(recs, j - 1)
<1> DEFINE n == Len(recs)
           m == KeyOf(r)
           t == InsertAt(recs, i, r)
<1>1. /\ n \in Nat /\ t \in Seq(Record) /\ Len(t) = n + 1 /\ m \in Key
      /\ \A j \in 1 .. n : KeyOf(recs[j]) \in Key
      /\ \A j \in 1 .. n + 1 :
           t[j] = IF j < i THEN recs[j] ELSE IF j = i THEN r ELSE recs[j - 1]
  <2>1. n \in Nat /\ m \in Key /\ \A j \in 1 .. n : KeyOf(recs[j]) \in Key
    BY KeysOf, KeyAssumption
  <2>2. /\ t \in Seq(Record) /\ Len(t) = n + 1
        /\ \A j \in 1 .. n + 1 :
             t[j] = IF j < i THEN recs[j] ELSE IF j = i THEN r ELSE recs[j - 1]
    BY InsertAtSeq
  <2>3. QED
    BY <2>1, <2>2
<1> HIDE DEF t
<1>2. \A j \in 1 .. n + 1 :
        /\ j < i => t[j] = recs[j] /\ j \in 1 .. n
        /\ j = i => t[j] = r
        /\ j > i => t[j] = recs[j - 1] /\ j - 1 \in 1 .. n
  BY <1>1
<1>3. \A a, b \in 1 .. n : a < b => Less(KeyOf(recs[a]), KeyOf(recs[b]))
  BY DEF Fits
<1>4. /\ \A a \in 1 .. n : a < i => Less(KeyOf(recs[a]), m)
      /\ \A a \in 1 .. n : a >= i => Less(m, KeyOf(recs[a]))
  <2>1. ASSUME NEW a \in 1 .. n, a < i
        PROVE  Less(KeyOf(recs[a]), m)
    <3>1. i > 1 /\ i - 1 \in 1 .. n /\ (a = i - 1 \/ a < i - 1)
      BY <1>1, <2>1
    <3>2. Less(KeyOf(recs[i - 1]), m)
      BY <3>1 DEF Gap
    <3>3. a = i - 1 \/ Less(KeyOf(recs[a]), KeyOf(recs[i - 1]))
      BY <1>3, <3>1
    <3>4. QED
      BY <1>1, <3>1, <3>2, <3>3, Total
  <2>2. ASSUME NEW a \in 1 .. n, a >= i
        PROVE  Less(m, KeyOf(recs[a]))
    <3>1. i \in 1 .. n /\ (a = i \/ i < a)
      BY <1>1, <2>2
    <3>2. Less(m, KeyOf(recs[i]))
      BY <3>1 DEF Gap
    <3>3. a = i \/ Less(KeyOf(recs[i]), KeyOf(recs[a]))
      BY <1>3, <3>1
    <3>4. QED
      BY <1>1, <3>1, <3>2, <3>3, Total
  <2>3. QED
    BY <2>1, <2>2
<1> HIDE DEF m
<1>5. Fits(t, W)
  <2>1. ASSUME NEW j \in 1 .. n + 1
        PROVE  KeyOf(t[j]) \in W
    <3>1. j < i \/ j = i \/ j > i
      BY <1>1
    <3>2. t[j] = r \/ \E a \in 1 .. n : t[j] = recs[a]
      BY <1>2, <3>1
    <3>3. QED
      BY <3>2 DEF Fits
  <2>2. ASSUME NEW a \in 1 .. n + 1, NEW b \in 1 .. n + 1, a < b
        PROVE  Less(KeyOf(t[a]), KeyOf(t[b]))
    <3>1. CASE b < i
      BY <1>1, <1>2, <1>3, <2>2, <3>1
    <3>2. CASE b = i
      BY <1>1, <1>2, <1>4, <2>2, <3>2 DEF m
    <3>3. CASE b > i /\ a < i
      <4>1. /\ t[a] = recs[a] /\ t[b] = recs[b - 1]
            /\ a \in 1 .. n /\ b - 1 \in 1 .. n /\ a < b - 1
        BY <1>1, <1>2, <3>3
      <4>2. QED
        BY <1>3, <4>1
    <3>4. CASE a = i
      <4>1. /\ t[a] = r /\ t[b] = recs[b - 1] /\ b - 1 \in 1 .. n /\ b - 1 >= i
        BY <1>1, <1>2, <2>2, <3>4
      <4>2. QED
        BY <1>4, <4>1 DEF m
    <3>5. CASE a > i
      <4>1. /\ t[a] = recs[a - 1] /\ t[b] = recs[b - 1]
            /\ a - 1 \in 1 .. n /\ b - 1 \in 1 .. n /\ a - 1 < b - 1
        BY <1>1, <1>2, <2>2, <3>5
      <4>2. QED
        BY <1>3, <4>1
    <3>6. QED
      BY <1>1, <2>2, <3>1, <3>2, <3>3, <3>4, <3>5
  <2>3. QED
    BY <1>1, <2>1, <2>2 DEF Fits
<1>6. ASSUME NEW j \in 1 .. i - 1
      PROVE  Gap(t, j) = Gap(recs, j)
  <2>1. /\ j \in 1 .. n /\ j \in 1 .. n + 1 /\ j <= n /\ j <= n + 1
        /\ t[j] = recs[j]
        /\ j > 1 => j - 1 \in 1 .. n /\ t[j - 1] = recs[j - 1]
    BY <1>1, <1>2
  <2>2. QED
    BY <1>1, <2>1 DEF Gap
<1>7. Gap(t, i) = Lower(Gap(recs, i), m)
  <2>1. /\ t[i] = r /\ i <= Len(t)
        /\ i > 1 => i - 1 \in 1 .. n /\ t[i - 1] = recs[i - 1]
    BY <1>1, <1>2
  <2>2. ASSUME NEW k \in Key, Less(k, m), i <= n
        PROVE  Less(k, KeyOf(recs[i]))
    <3>1. i \in 1 .. n /\ Less(m, KeyOf(recs[i])) /\ KeyOf(recs[i]) \in Key
      BY <1>1, <1>4, <2>2
    <3>2. QED
      BY <1>1, <2>2, <3>1, Total
  <2>3. QED
    BY <1>1, <2>1, <2>2 DEF Gap, Lower, m
<1>8. Gap(t, i + 1) = Upper(Gap(recs, i), m)
  <2>1. /\ t[i] = r /\ i + 1 > 1 /\ (i + 1) - 1 = i
        /\ i + 1 <= Len(t) <=> i <= n
        /\ i <= n => t[i + 1] = recs[i]
    BY <1>1, <1>2
  <2>2. ASSUME NEW k \in Key, Less(m, k), i > 1
        PROVE  Less(KeyOf(recs[i - 1]), k)
    <3>1. i - 1 \in 1 .. n /\ i - 1 < i
      BY <1>1, <2>2
    <3>2. Less(KeyOf(recs[i - 1]), m) /\ KeyOf(recs[i - 1]) \in Key
      BY <1>1, <1>4, <3>1
    <3>3. QED
      BY <1>1, <2>2, <3>2, Total
  <2>3. QED
    BY <1>1, <2>1, <2>2 DEF Gap, Upper, m
<1>9. ASSUME NEW j \in i + 2 .. n + 2
      PROVE  Gap(t, j) = Gap(recs, j - 1)
  <2>1. /\ j > 1 /\ j - 1 > 1 /\ j - 1 \in 1 .. n + 1 /\ j - 1 > i
        /\ j <= n + 1 <=> j - 1 <= n
        /\ j <= n + 1 => j \in 1 .. n + 1 /\ j > i
    BY <1>1
  <2>2. /\ t[j - 1] = recs[(j - 1) - 1]
        /\ j <= n + 1 => t[j] = recs[j - 1]
    BY <1>2, <2>1
  <2>3. QED
    BY <1>1, <2>1, <2>2 DEF Gap
<1>10. QED
  BY <1>5, <1>6, <1>7, <1>8, <1>9 DEF m, t

(* The halves of a full node share its range at the median. *)
LEMMA HalvesFit ==
  ASSUME KeysOrdered, NEW recs \in Seq(Record), Len(recs) = 2 * Order - 1,
         NEW W \in SUBSET Key, Fits(recs, W)
  PROVE  LET l == SubSeq(recs, 1, Order - 1)
             h == SubSeq(recs, Order + 1, 2 * Order - 1)
             m == KeyOf(recs[Order])
         IN  /\ Fits(l, Lower(W, m)) /\ Fits(h, Upper(W, m))
             /\ \A j \in 1 .. Order :
                  /\ Lower(W, m) \cap Gap(l, j) = W \cap Gap(recs, j)
                  /\ Upper(W, m) \cap Gap(h, j) = W \cap Gap(recs, Order + j)
<1> DEFINE n == 2 * Order - 1
           l == SubSeq(recs, 1, Order - 1)
           h == SubSeq(recs, Order + 1, 2 * Order - 1)
           m == KeyOf(recs[Order])
           low == {k \in W : Less(k, m)}
           high == {k \in W : Less(m, k)}
<1>1. /\ Order \in Nat /\ Order >= 2 /\ n \in Nat /\ Order \in 1 .. n
      /\ \A j \in 1 .. n : KeyOf(recs[j]) \in Key
      /\ m \in Key /\ m = KeyOf(recs[Order])
  <2>1. Order \in Nat /\ Order >= 2 /\ n \in Nat /\ Order \in 1 .. n
    BY OrderAssumption
  <2>2. QED
    BY <2>1, KeysOf
<1>2. /\ l \in Seq(Record) /\ Len(l) = Order - 1
      /\ \A j \in 1 .. Order - 1 : l[j] = recs[j]
  <2>1. 1 \in 1 .. Len(recs) + 1 /\ Order - 1 \in 1 - 1 .. Len(recs)
    BY <1>1
  <2>2. /\ l \in Seq(Record) /\ Len(l) = (Order - 1) - 1 + 1
        /\ \A j \in 1 .. (Order - 1) - 1 + 1 : l[j] = recs[1 + j - 1]
    BY <2>1, SubSeqSeq
  <2>3. QED
    BY <1>1, <2>2
<1>3. /\ h \in Seq(Record) /\ Len(h) = Order - 1
      /\ \A j \in 1 .. Order - 1 : h[j] = recs[Order + j]
  <2>1. /\ Order + 1 \in 1 .. Len(recs) + 1
        /\ 2 * Order - 1 \in (Order + 1) - 1 .. Len(recs)
    BY <1>1
  <2>2. /\ h \in Seq(Record) /\ Len(h) = (2 * Order - 1) - (Order + 1) + 1
        /\ \A j \in 1 .. (2 * Order - 1) - (Order + 1) + 1 :
             h[j] = recs[(Order + 1) + j - 1]
    BY <2>1, SubSeqSeq
  <2>3. QED
    BY <1>1, <2>2
<1>4. /\ \A a \in 1 .. n : KeyOf(recs[a]) \in W
      /\ \A a, b \in 1 .. n : a < b => Less(KeyOf(recs[a]), KeyOf(recs[b]))
  BY DEF Fits
<1> HIDE DEF n, l, h, m
<1>5. ASSUME NEW j \in 1 .. Order - 1
      PROVE  /\ j \in 1 .. n /\ Order + j \in 1 .. n
             /\ Less(KeyOf(recs[j]), m) /\ Less(m, KeyOf(recs[Order + j]))
  <2>1. j \in 1 .. n /\ Order + j \in 1 .. n /\ j < Order /\ Order < Order + j
    BY <1>1 DEF n
  <2>2. QED
    BY <1>1, <1>4, <2>1
<1>6. Fits(l, low)
  <2>1. \A j \in 1 .. Order - 1 : KeyOf(l[j]) \in low
    BY <1>2, <1>4, <1>5
  <2>2. \A a, b \in 1 .. Order - 1 : a < b => Less(KeyOf(l[a]), KeyOf(l[b]))
    BY <1>2, <1>4, <1>5
  <2>3. QED
    BY <1>2, <2>1, <2>2 DEF Fits
<1>7. Fits(h, high)
  <2>1. \A j \in 1 .. Order - 1 : KeyOf(h[j]) \in high
    BY <1>3, <1>4, <1>5
  <2>2. ASSUME NEW a \in 1 .. Order - 1, NEW b \in 1 .. Order - 1, a < b
        PROVE  Less(KeyOf(h[a]), KeyOf(h[b]))
    <3>1. Order + a < Order + b
      BY <1>1, <2>2
    <3>2. QED
      BY <1>3, <1>4, <1>5, <3>1
  <2>3. QED
    BY <1>3, <2>1, <2>2 DEF Fits
<1>8. ASSUME NEW j \in 1 .. Order
      PROVE  low \cap Gap(l, j) = W \cap Gap(recs, j)
  <2>1. /\ j > 1 => j - 1 \in 1 .. Order - 1 /\ l[j - 1] = recs[j - 1]
        /\ j <= Len(l) <=> j < Order
        /\ j < Order => j \in 1 .. Order - 1 /\ l[j] = recs[j]
        /\ j <= Len(recs)
    <3>1. /\ j > 1 => j - 1 \in 1 .. Order - 1
          /\ j <= Order - 1 <=> j < Order
          /\ j < Order => j \in 1 .. Order - 1
          /\ j <= 2 * Order - 1
      BY <1>1
    <3>2. QED
      BY <1>2, <3>1
  <2>2. ASSUME NEW k \in Key
        PROVE  k \in low /\ k \in Gap(l, j) <=> k \in W /\ k \in Gap(recs, j)
    <3>1. CASE j < Order
      <4>1. Less(k, KeyOf(recs[j])) => Less(k, m)
        BY <1>1, <1>5, <2>1, <3>1, Total
      <4>2. QED
        BY <2>1, <3>1, <4>1 DEF Gap
    <3>2. CASE j = Order
      BY <1>1, <2>1, <3>2 DEF Gap
    <3>3. QED
      BY <1>1, <3>1, <3>2
  <2>3. QED
    BY <2>2 DEF Gap
<1>9. ASSUME NEW j \in 1 .. Order
      PROVE  high \cap Gap(h, j) = W \cap Gap(recs, Order + j)
  <2>1. /\ j > 1 => /\ j - 1 \in 1 .. Order - 1
                    /\ h[j - 1] = recs[Order + (j - 1)]
                    /\ Order + (j - 1) = (Order + j) - 1
        /\ j = 1 => (Order + j) - 1 = Order
        /\ j <= Len(h) <=> Order + j <= Len(recs)
        /\ j <= Len(h) => j \in 1 .. Order - 1 /\ h[j] = recs[Order + j]
        /\ Order + j > 1 /\ (j = 1 \/ j > 1)
    <3>1. /\ j > 1 => /\ j - 1 \in 1 .. Order - 1
                      /\ Order + (j - 1) = (Order + j) - 1
          /\ j = 1 => (Order + j) - 1 = Order
          /\ j <= Order - 1 <=> Order + j <= 2 * Order - 1
          /\ j <= Order - 1 => j \in 1 .. Order - 1
          /\ Order + j > 1 /\ (j = 1 \/ j > 1)
      BY <1>1
    <3>2. QED
      BY <1>3, <3>1
  <2>2. ASSUME NEW k \in Key
        PROVE  k \in high /\ k \in Gap(h, j)
                 <=> k \in W /\ k \in Gap(recs, Order + j)
    <3>1. CASE j > 1
      <4>1. Less(KeyOf(recs[(Order + j) - 1]), k) => Less(m, k)
        BY <1>1, <1>5, <2>1, <3>1, Total
      <4>2. QED
        BY <2>1, <3>1, <4>1 DEF Gap
    <3>2. CASE j = 1
      BY <1>1, <2>1, <3>2 DEF Gap
    <3>3. QED
      BY <2>1, <3>1, <3>2
  <2>3. QED
    BY <2>2 DEF Gap
<1>10. /\ Fits(l, Lower(W, m)) /\ Fits(h, Upper(W, m))
       /\ \A j \in 1 .. Order :
            /\ Lower(W, m) \cap Gap(l, j) = W \cap Gap(recs, j)
            /\ Upper(W, m) \cap Gap(h, j) = W \cap Gap(recs, Order + j)
  BY <1>6, <1>7, <1>8, <1>9 DEF Lower, Upper
<1>11. QED
  BY <1>10 DEF l, h, m

-----------------------------------------------------------------------------
(* A node that is responsible for the keys W shares them with its children. *)
Ranged(n, range, W) ==
  /\ Fits(n.recs, W)
  /\ \A i \in 1 .. Len(n.kids) : range[n.kids[i]] = W \cap Gap(n.recs, i)

(* Each page has the keys that a search for them leads through. *)
Ranges(range) ==
  /\ range \in [Live -> SUBSET Key]
  /\ range[root] = Key
  /\ \A p \in Live : Ranged(disk[p], range, range[p])

(* The records of a page. *)
LEMMA RecordsOf ==
  ASSUME Tree, NEW p \in Live
  PROVE  /\ disk[p].recs \in Seq(Record) /\ Len(disk[p].recs) = Count(disk[p])
         /\ ToSet(disk[p].recs) = {disk[p].recs[i] : i \in 1 .. Count(disk[p])}
         /\ ToSet(disk[p].recs) \subseteq Record
         /\ Len(disk[p].kids) = IF disk[p].leaf THEN 0 ELSE Count(disk[p]) + 1
<1>1. disk[p] \in Node /\ WellFormed(disk[p])
  BY PageFacts
<1>2. disk[p].recs \in Seq(Record)
  BY <1>1, NodeParts
<1>3. QED
  BY <1>1, <1>2, ElementsOf DEF Count, WellFormed

(* No page is higher than the root. *)
LEMMA RootHighest ==
  ASSUME Tree, Rooted, NEW p \in Live
  PROVE  height[p] <= height[root]
<1>1. PICK m \in Nat : \A q \in Live : height[q] \in Nat /\ height[q] <= m
  <2>1. PICK m \in Nat : \A q \in 1 .. Len(height) : height[q] <= m
    BY Bounded DEF Tree, TreeTypes
  <2>2. \A q \in Live : q \in 1 .. Len(height) /\ height[q] \in Nat
    BY PageFacts DEF Tree, TreeTypes
  <2>3. QED
    BY <2>1, <2>2
<1> DEFINE Depths == {m - height[q] : q \in Live}
<1>2. PICK q \in Live : \A o \in Live : m - height[q] <= m - height[o]
  <2>1. Depths \in SUBSET Nat /\ Depths # {}
    BY <1>1
  <2>2. PICK x \in Depths : \A y \in Depths : x <= y
    <3> HIDE DEF Depths
    <3>1. QED
      BY <2>1, LeastElement
  <2>3. QED
    BY <2>2
<1>3. q = root
  <2> SUFFICES ASSUME q # root
               PROVE  FALSE
    OBVIOUS
  <2>1. PICK o \in Live : q \in ToSet(disk[o].kids)
    BY DEF Rooted
  <2>2. height[q] = height[o] - 1
    BY <2>1, KidsOf
  <2>3. QED
    BY <1>1, <1>2, <2>2
<1>4. root \in Live
  BY DEF Tree
<1>5. QED
  BY <1>1, <1>2, <1>3, <1>4

(* A page with a key of p's range, in its records or in its own range, that
   is as high as p is p. *)
Alone(range, p) ==
  \A q \in Live \ {p} :
    /\ height[q] = height[p] => range[p] \cap range[q] = {}
    /\ height[q] >= height[p] =>
         \A i \in 1 .. Count(disk[q]) : KeyOf(disk[q].recs[i]) \notin range[p]

(* Going down from the root the ranges stay apart. *)
LEMMA RangesApart ==
  ASSUME KeysOrdered, Tree, Rooted, NEW range, Ranges(range), NEW p0 \in Live
  PROVE  Alone(range, p0)
<1> DEFINE h == height[root]
           S == {d \in 0 .. h :
                   \A p \in Live : height[p] = h - d => Alone(range, p)}
<1>1. /\ root \in Live /\ h \in Nat
      /\ \A p \in Live : height[p] \in Nat /\ height[p] <= h
  BY PageFacts, RootHighest DEF Tree
<1>2. /\ \A p \in Live : range[p] \subseteq Key /\ Fits(disk[p].recs, range[p])
      /\ \A p \in Live : \A i \in 1 .. Len(disk[p].kids) :
           range[disk[p].kids[i]] = range[p] \cap Gap(disk[p].recs, i)
  BY DEF Ranges, Ranged
<1>3. ASSUME NEW p \in Live \ {root}
      PROVE  \E o \in Live : \E i \in 1 .. Len(disk[o].kids) :
               p = disk[o].kids[i] /\ height[o] = height[p] + 1
  <2>1. PICK o \in Live : p \in ToSet(disk[o].kids)
    BY DEF Rooted
  <2>2. height[p] = height[o] - 1 /\ \E i \in 1 .. Len(disk[o].kids) :
          p = disk[o].kids[i]
    BY <2>1, KidsOf
  <2>3. QED
    BY <1>1, <2>2
<1>4. ASSUME NEW o \in Live
      PROVE  /\ Len(disk[o].kids) \in 0 .. Count(disk[o]) + 1
             /\ Count(disk[o]) \in Nat
             /\ \A i \in 1 .. Len(disk[o].kids), j \in 1 .. Count(disk[o]) :
                  KeyOf(disk[o].recs[j]) \notin Gap(disk[o].recs, i)
             /\ \A i, j \in 1 .. Len(disk[o].kids) :
                  i # j => Gap(disk[o].recs, i) \cap Gap(disk[o].recs, j) = {}
  <2>1. /\ disk[o].recs \in Seq(Record) /\ Len(disk[o].recs) = Count(disk[o])
        /\ Count(disk[o]) \in Nat
        /\ Len(disk[o].kids) \in 0 .. Count(disk[o]) + 1
    BY RecordsOf, PageFacts
  <2>2. QED
    BY <1>2, <2>1, GapsApart
<1>5. 0 \in S
  <2>1. ASSUME NEW p \in Live, height[p] = h
        PROVE  p = root
    BY <1>1, <1>3, <2>1
  <2>2. Alone(range, root)
    BY <1>1, <2>1, <1>3 DEF Alone
  <2>3. QED
    BY <1>1, <2>1, <2>2
<1>6. ASSUME NEW d \in 0 .. h - 1, d \in S
      PROVE  d + 1 \in S
  <2>1. SUFFICES ASSUME NEW p \in Live, height[p] = h - (d + 1)
                 PROVE  Alone(range, p)
    BY <1>1
  <2>a. PICK o \in Live : \E i \in 1 .. Len(disk[o].kids) :
          p = disk[o].kids[i] /\ height[o] = height[p] + 1
    BY <1>1, <1>3, <2>1
  <2>2. PICK i \in 1 .. Len(disk[o].kids) :
          p = disk[o].kids[i] /\ height[o] = height[p] + 1
    BY <2>a
  <2>3. Alone(range, o)
    BY <1>1, <1>6, <2>1, <2>2
  <2>4. range[p] = range[o] \cap Gap(disk[o].recs, i)
    BY <1>2, <2>2
  <2>5. ASSUME NEW q \in Live \ {p}, height[q] = height[p]
        PROVE  range[p] \cap range[q] = {}
    <3>1. q # root
      BY <1>1, <2>1, <2>5
    <3>a. PICK u \in Live : \E j \in 1 .. Len(disk[u].kids) :
            q = disk[u].kids[j] /\ height[u] = height[q] + 1
      BY <1>3, <3>1
    <3>2. PICK j \in 1 .. Len(disk[u].kids) :
            q = disk[u].kids[j] /\ height[u] = height[q] + 1
      BY <3>a
    <3>3. range[q] = range[u] \cap Gap(disk[u].recs, j)
      BY <1>2, <3>2
    <3>4. CASE u = o
      <4>1. i # j
        BY <2>2, <2>5, <3>2, <3>4
      <4>2. QED
        BY <1>4, <2>4, <3>3, <3>4, <4>1
    <3>5. CASE u # o
      <4>1. range[o] \cap range[u] = {}
        BY <2>2, <2>3, <2>5, <3>2, <3>5 DEF Alone
      <4>2. QED
        BY <2>4, <3>3, <4>1
    <3>6. QED
      BY <3>4, <3>5
  <2>6. ASSUME NEW q \in Live \ {p}, height[q] >= height[p],
               NEW j \in 1 .. Count(disk[q])
        PROVE  KeyOf(disk[q].recs[j]) \notin range[p]
    <3>1. CASE height[q] = height[p]
      BY <1>2, <1>4, <2>5, <2>6, <3>1, RecordsOf DEF Fits
    <3>2. CASE height[q] > height[p] /\ q = o
      BY <1>4, <2>4, <3>2
    <3>3. CASE height[q] > height[p] /\ q # o
      <4>1. height[q] >= height[o]
        BY <1>1, <2>2, <3>3
      <4>2. QED
        BY <2>3, <2>4, <3>3, <4>1 DEF Alone
    <3>4. QED
      BY <1>1, <2>6, <3>1, <3>2, <3>3
  <2>7. QED
    BY <2>5, <2>6 DEF Alone
<1>7. h - height[p0] \in 0 .. h /\ h - (h - height[p0]) = height[p0]
  BY <1>1
<1>8. 0 .. h \subseteq S
  <2>1. h \in Nat /\ \A d \in 0 .. h - 1 : d \in S => d + 1 \in S
    BY <1>1, <1>6
  <2> HIDE DEF S, h
  <2>2. QED
    BY <1>5, <2>1, SetInduction
<1>9. QED
  BY <1>7, <1>8

(* What is below a page has keys of its range. *)
LEMMA BelowInRange ==
  ASSUME Tree, NEW range, Ranges(range), NEW p \in Live, NEW s \in RecordsBelow(p)
  PROVE  KeyOf(s) \in range[p]
<1> DEFINE S == {q \in Live : range[q] \subseteq range[p]}
<1>1. \A q \in S \cap Live : ToSet(disk[q].kids) \subseteq S
  <2> SUFFICES ASSUME NEW q \in S \cap Live, NEW k \in ToSet(disk[q].kids)
               PROVE  k \in S
    OBVIOUS
  <2>1. /\ k \in Live
        /\ \E i \in 1 .. Len(disk[q].kids) : k = disk[q].kids[i]
    BY KidsOf
  <2>2. range[k] \subseteq range[q]
    BY <2>1 DEF Ranges, Ranged
  <2>3. QED
    BY <2>1, <2>2
<1>2. PagesBelow(p) \subseteq S
  <2>1. p \in S
    OBVIOUS
  <2> HIDE DEF S
  <2>2. QED
    BY <1>1, <2>1, BelowLeast
<1>3. PICK q \in PagesBelow(p) : s \in ToSet(disk[q].recs)
  BY DEF RecordsBelow
<1>4. q \in Live /\ range[q] \subseteq range[p]
  BY <1>2, <1>3
<1>5. PICK i \in 1 .. Count(disk[q]) : s = disk[q].recs[i]
  BY <1>3, <1>4, RecordsOf
<1>6. KeyOf(s) \in range[q]
  BY <1>4, <1>5, RecordsOf DEF Ranges, Ranged, Fits
<1>7. QED
  BY <1>4, <1>6

(* Ranges put the keys in order. *)
LEMMA RangesOrder ==
  ASSUME KeysOrdered, Tree, NEW range, Ranges(range)
  PROVE  Ordered
<1>1. SUFFICES ASSUME NEW p \in Live, NEW i \in 1 .. Count(disk[p])
      PROVE  LET r == disk[p].recs[i]
             IN  /\ i > 1 => Cmp(KeyOf(disk[p].recs[i - 1]), KeyOf(r)) < 0
                 /\ ~disk[p].leaf =>
                      /\ \A s \in RecordsBelow(disk[p].kids[i]) :
                            Cmp(KeyOf(s), KeyOf(r)) < 0
                      /\ \A s \in RecordsBelow(disk[p].kids[i + 1]) :
                            Cmp(KeyOf(s), KeyOf(r)) > 0
  BY DEF Ordered
<1> DEFINE recs == disk[p].recs
           r == recs[i]
<1>2. /\ recs \in Seq(Record) /\ Len(recs) = Count(disk[p])
      /\ Count(disk[p]) \in Nat /\ Fits(recs, range[p])
      /\ ~disk[p].leaf => Len(disk[p].kids) = Count(disk[p]) + 1
      /\ KeyOf(r) \in Key
  <2>1. recs \in Seq(Record) /\ Len(recs) = Count(disk[p])
    BY RecordsOf
  <2>2. QED
    BY <2>1, RecordsOf, PageFacts, KeysOf DEF Ranges, Ranged
<1>3. i > 1 => Cmp(KeyOf(recs[i - 1]), KeyOf(r)) < 0
  <2>1. i > 1 => i - 1 \in 1 .. Len(recs) /\ i - 1 < i /\ i \in 1 .. Len(recs)
    BY <1>2
  <2>2. QED
    BY <1>2, <2>1 DEF Fits, Less
<1>4. ASSUME ~disk[p].leaf, NEW j \in 1 .. Count(disk[p]) + 1,
             NEW s \in RecordsBelow(disk[p].kids[j])
      PROVE  KeyOf(s) \in Gap(recs, j) /\ KeyOf(s) \in Key
  <2>1. j \in 1 .. Len(disk[p].kids)
    BY <1>2, <1>4
  <2>2. disk[p].kids[j] \in Live
    BY <2>1, KidFacts
  <2>3. KeyOf(s) \in range[disk[p].kids[j]]
    BY <1>4, <2>2, BelowInRange
  <2>4. range[disk[p].kids[j]] = range[p] \cap Gap(recs, j)
    BY <2>1 DEF Ranges, Ranged
  <2>5. QED
    BY <2>3, <2>4 DEF Gap
<1>5. ASSUME ~disk[p].leaf, NEW s \in RecordsBelow(disk[p].kids[i])
      PROVE  Cmp(KeyOf(s), KeyOf(r)) < 0
  BY <1>2, <1>4, <1>5 DEF Gap, Less
<1>6. ASSUME ~disk[p].leaf, NEW s \in RecordsBelow(disk[p].kids[i + 1])
      PROVE  Cmp(KeyOf(s), KeyOf(r)) > 0
  <2>1. i + 1 \in 1 .. Count(disk[p]) + 1 /\ i + 1 > 1 /\ (i + 1) - 1 = i
    BY <1>2
  <2>2. KeyOf(s) \in Key /\ Less(KeyOf(r), KeyOf(s))
    BY <1>4, <1>6, <2>1 DEF Gap
  <2>3. QED
    BY <1>2, <2>2, Signs
<1>7. QED
  BY <1>3, <1>5, <1>6

-----------------------------------------------------------------------------
(* The records of the tree. *)
Records == UNION {ToSet(disk[q].recs) : q \in Live}

(* They are those below the root, *)
LEMMA RecordsAreBelow ==
  ASSUME Tree, Rooted
  PROVE  RecordsBelow(root) = Records
BY NoneLost DEF NoPageLost, RecordsBelow, Records

(* each in its place in a page. *)
LEMMA RecordsInPages ==
  ASSUME Tree
  PROVE  /\ Records \subseteq Record
         /\ \A r : r \in Records <=>
              \E q \in Live : \E i \in 1 .. Count(disk[q]) : r = disk[q].recs[i]
<1>1. \A q \in Live : /\ ToSet(disk[q].recs) \subseteq Record
                       /\ ToSet(disk[q].recs) =
                            {disk[q].recs[i] : i \in 1 .. Count(disk[q])}
  BY RecordsOf
<1>2. \A r : r \in Records <=> \E q \in Live : r \in ToSet(disk[q].recs)
  BY DEF Records
<1>3. QED
  BY <1>1, <1>2

(* Where the loop stops: at the key, or in the gap that it belongs to. *)
LEMMA SlotGap ==
  ASSUME KeysOrdered, NEW n \in Node, NEW k \in Key,
         NEW i \in 1 .. Count(n) + 1, Stops(n, k, i)
  PROVE  /\ ~Hits(n, k, i) => k \in Gap(n.recs, i)
         /\ Hits(n, k, i) => i \in 1 .. Count(n) /\ k = KeyOf(n.recs[i])
<1>1. /\ n.recs \in Seq(Record) /\ Len(n.recs) = Count(n) /\ Count(n) \in Nat
  BY NodeParts DEF Count
<1>2. \A j \in 1 .. Count(n) : KeyOf(n.recs[j]) \in Key
  BY <1>1, KeysOf
<1>3. ASSUME Hits(n, k, i)
      PROVE  i \in 1 .. Count(n) /\ k = KeyOf(n.recs[i])
  <2>1. i \in 1 .. Count(n) /\ Cmp(k, KeyOf(n.recs[i])) = 0
    BY <1>1, <1>3 DEF Hits
  <2>2. QED
    BY <1>2, <2>1, Signs
<1>4. ASSUME ~Hits(n, k, i)
      PROVE  k \in Gap(n.recs, i)
  <2>1. ASSUME i > 1
        PROVE  Less(KeyOf(n.recs[i - 1]), k)
    <3>1. i - 1 \in 1 .. Count(n) /\ i - 1 \in 1 .. i - 1
      BY <1>1, <2>1
    <3>2. Cmp(k, KeyOf(n.recs[i - 1])) > 0
      BY <3>1 DEF Stops
    <3>3. QED
      BY <1>2, <3>1, <3>2, Signs
  <2>2. ASSUME i <= Count(n)
        PROVE  Less(k, KeyOf(n.recs[i]))
    <3>1. /\ i \in 1 .. Count(n) /\ Cmp(k, KeyOf(n.recs[i])) <= 0
          /\ Cmp(k, KeyOf(n.recs[i])) # 0
      BY <1>1, <1>4, <2>2 DEF Stops, Hits
    <3>2. QED
      BY <1>2, <3>1, Signs
  <2>3. QED
    BY <1>1, <2>1, <2>2 DEF Gap
<1>5. QED
  BY <1>3, <1>4

(* A leaf in whose range a key lies and that does not hold it: no record of
   the tree has the key. *)
LEMMA LeafMisses ==
  ASSUME KeysOrdered, Tree, Rooted, NEW range, Ranges(range),
         NEW p \in Live, disk[p].leaf, NEW k \in range[p],
         NEW i \in 1 .. Count(disk[p]) + 1, k \in Gap(disk[p].recs, i)
  PROVE  \A r \in Records : KeyOf(r) # k
<1>1. SUFFICES ASSUME NEW q \in Live, NEW j \in 1 .. Count(disk[q])
               PROVE  KeyOf(disk[q].recs[j]) # k
  BY RecordsInPages
<1>2. CASE q = p
  <2>1. disk[p].recs \in Seq(Record) /\ Len(disk[p].recs) = Count(disk[p])
    BY RecordsOf
  <2>2. Fits(disk[p].recs, range[p])
    BY DEF Ranges, Ranged
  <2>3. QED
    BY <1>2, <2>1, <2>2, GapsApart
<1>3. CASE q # p
  <2>1. height[p] = 0 /\ height[q] \in Nat
    BY PageFacts DEF Tree, ChildrenBelow
  <2>2. height[q] >= height[p]
    BY <2>1
  <2>3. Alone(range, p)
    BY RangesApart
  <2>4. QED
    BY <1>3, <2>2, <2>3 DEF Alone
<1>4. QED
  BY <1>2, <1>3

(* A record that goes into the gap of its key in a leaf. *)
LEMMA LeafRanges ==
  ASSUME KeysOrdered, Tree, NEW range, Ranges(range),
         NEW p \in Live, disk[p].leaf, ~Full(disk[p]), NEW r \in Record,
         NEW i \in 1 .. Count(disk[p]) + 1,
         KeyOf(r) \in range[p], KeyOf(r) \in Gap(disk[p].recs, i),
         disk' = [disk EXCEPT ![p] = WithRecord(@, i, r)],
         UNCHANGED <<height, root, freed>>
  PROVE  Ranges(range)' /\ Records' = Records \cup {r}
<1> DEFINE n == WithRecord(disk[p], i, r)
           t == InsertAt(disk[p].recs, i, r)
<1>1. /\ p \in DOMAIN disk /\ Live' = Live /\ root' = root
      /\ \A q \in Live : disk'[q] = IF q = p THEN n ELSE disk[q]
  BY DEF Live
<1>2. /\ disk[p].recs \in Seq(Record) /\ Len(disk[p].recs) = Count(disk[p])
      /\ Len(disk[p].kids) = 0
  BY RecordsOf
<1>3. n.recs = t /\ n.kids = disk[p].kids
  BY DEF WithRecord, Holding
<1>4. range[p] \in SUBSET Key /\ Fits(disk[p].recs, range[p])
  BY DEF Ranges, Ranged
<1>5. Fits(t, range[p])
  BY <1>2, <1>4, InsertFits
<1>6. ToSet(t) = ToSet(disk[p].recs) \cup {r}
  BY <1>2, InsertAtSet
<1> HIDE DEF n, t
<1>7. /\ \A q \in Live : Fits(disk'[q].recs, range[q])
      /\ \A q \in Live : disk'[q].kids = disk[q].kids
      /\ \A q \in Live : q # p => disk'[q].recs = disk[q].recs
  BY <1>1, <1>3, <1>5 DEF Ranges, Ranged
<1>8. ASSUME NEW q \in Live, NEW j \in 1 .. Len(disk'[q].kids)
      PROVE  range[disk'[q].kids[j]] = range[q] \cap Gap(disk'[q].recs, j)
  <2>1. q # p
    BY <1>2, <1>7, <1>8
  <2>2. QED
    BY <1>7, <1>8, <2>1 DEF Ranges, Ranged
<1>9. Ranges(range)'
  BY <1>1, <1>7, <1>8 DEF Ranges, Ranged
<1>10. Records' = Records \cup {r}
  BY <1>1, <1>3, <1>6, <1>7 DEF Records
<1>11. QED
  BY <1>9, <1>10

(* A sequence is what comes before an element, the element, and the rest. *)
LEMMA CutAround ==
  ASSUME NEW S, NEW s \in Seq(S), NEW n \in 1 .. Len(s)
  PROVE  ToSet(s) = ToSet(SubSeq(s, 1, n - 1)) \cup {s[n]}
                      \cup ToSet(SubSeq(s, n + 1, Len(s)))
<1> DEFINE a == SubSeq(s, 1, n - 1)
           b == SubSeq(s, n + 1, Len(s))
           l == Len(s)
<1>1. l \in Nat
  BY LenProperties
<1>2. /\ a \in Seq(S) /\ Len(a) = n - 1
      /\ \A j \in 1 .. n - 1 : a[j] = s[j]
  <2>1. /\ 1 \in 1 .. l + 1 /\ n - 1 \in 1 - 1 .. l
        /\ (n - 1) - 1 + 1 = n - 1 /\ \A j \in 1 .. n - 1 : 1 + j - 1 = j
    BY <1>1
  <2>2. /\ a \in Seq(S) /\ Len(a) = (n - 1) - 1 + 1
        /\ \A j \in 1 .. (n - 1) - 1 + 1 : a[j] = s[1 + j - 1]
    BY <2>1, SubSeqSeq
  <2>3. QED
    BY <2>1, <2>2
<1>3. /\ b \in Seq(S) /\ Len(b) = l - n
      /\ \A j \in 1 .. l - n : b[j] = s[n + j]
  <2> DEFINE m == n + 1
  <2>1. /\ m \in 1 .. Len(s) + 1 /\ Len(s) \in m - 1 .. Len(s)
        /\ Len(s) - m + 1 = l - n
        /\ \A j \in 1 .. l - n : m + j - 1 = n + j
    BY <1>1
  <2> HIDE DEF m
  <2>2. /\ SubSeq(s, m, Len(s)) \in Seq(S)
        /\ Len(SubSeq(s, m, Len(s))) = Len(s) - m + 1
        /\ \A j \in 1 .. Len(s) - m + 1 :
             SubSeq(s, m, Len(s))[j] = s[m + j - 1]
    BY ONLY s \in Seq(S), <2>1, SubSeqSeq
  <2>3. b = SubSeq(s, m, Len(s))
    BY DEF m
  <2> HIDE DEF b, l
  <2>4. QED
    BY <2>1, <2>2, <2>3 DEF l
<1> HIDE DEF a, b
<1>4. /\ ToSet(s) = {s[j] : j \in 1 .. l}
      /\ ToSet(a) = {a[j] : j \in 1 .. n - 1}
      /\ ToSet(b) = {b[j] : j \in 1 .. l - n}
  BY <1>2, <1>3, ElementsOf
<1> HIDE DEF l
<1>5. ToSet(s) \subseteq ToSet(a) \cup {s[n]} \cup ToSet(b)
  <2> SUFFICES ASSUME NEW j \in 1 .. l
               PROVE  s[j] \in ToSet(a) \cup {s[n]} \cup ToSet(b)
    BY <1>4
  <2>1. j \in 1 .. n - 1 \/ j = n \/ (j - n \in 1 .. l - n /\ n + (j - n) = j)
    BY <1>1
  <2>2. QED
    BY <1>2, <1>3, <1>4, <2>1
<1>6. ToSet(a) \cup {s[n]} \cup ToSet(b) \subseteq ToSet(s)
  <2>1. /\ \A j \in 1 .. n - 1 : j \in 1 .. l
        /\ n \in 1 .. l
        /\ \A j \in 1 .. l - n : n + j \in 1 .. l
    BY <1>1 DEF l
  <2>2. QED
    BY <1>2, <1>3, <1>4, <2>1
<1>7. QED
  BY <1>5, <1>6 DEF a, b, l

(* Page c keeps the keys of its range below those of m, new gets those above. *)
Halved(f, range, c, m, new) ==
  /\ \A q \in Live \ {c} : f[q] = range[q]
  /\ f[c] = Lower(range[c], KeyOf(m))
  /\ f[new] = Upper(range[c], KeyOf(m))

(* The halves of a full node have its children, each with the range it had. *)
LEMMA HalvesRanges ==
  ASSUME KeysOrdered, Tree, NEW range, Ranges(range),
         NEW c \in Live, Full(disk[c]),
         NEW new, NEW f, Halved(f, range, c, Median(disk[c]), new)
  PROVE  LET L == LeftHalf(disk[c])
             R == RightHalf(disk[c])
             m == Median(disk[c])
         IN  /\ Ranged(L, f, f[c]) /\ Ranged(R, f, f[new])
             /\ ToSet(disk[c].recs) = ToSet(L.recs) \cup {m} \cup ToSet(R.recs)
             /\ m \in Record /\ KeyOf(m) \in range[c]
<1> DEFINE L == LeftHalf(disk[c])
           R == RightHalf(disk[c])
           recs == disk[c].recs
           W == range[c]
           m == Median(disk[c])
           k == KeyOf(m)
           low == f[c]
           high == f[new]
<1>1. /\ disk[c] \in Node /\ WellFormed(disk[c]) /\ recs \in Seq(Record)
      /\ Len(recs) = 2 * Order - 1 /\ Order \in Nat /\ Order >= 2
      /\ Len(disk[c].kids) = IF disk[c].leaf THEN 0 ELSE 2 * Order
  <2>1. /\ disk[c] \in Node /\ WellFormed(disk[c]) /\ recs \in Seq(Record)
        /\ Len(recs) = Count(disk[c]) /\ Count(disk[c]) = 2 * Order - 1
        /\ Len(disk[c].kids) = IF disk[c].leaf THEN 0 ELSE Count(disk[c]) + 1
    BY PageFacts, RecordsOf DEF Full, MaxCount
  <2>2. QED
    BY <2>1, OrderAssumption
<1>2. /\ L.recs = SubSeq(recs, 1, Order - 1)
      /\ R.recs = SubSeq(recs, Order + 1, 2 * Order - 1)
      /\ m = recs[Order]
  BY DEF LeftHalf, RightHalf, Median, Holding, MaxCount
<1>3. W \in SUBSET Key /\ Fits(recs, W)
  BY DEF Ranges, Ranged
<1>4. m \in Record /\ k \in W
  <2>1. Order \in 1 .. Len(recs)
    BY <1>1
  <2>2. recs[Order] \in Record /\ KeyOf(recs[Order]) \in W
    BY <1>1, <1>3, <2>1, ElementOfSeq DEF Fits
  <2>3. QED
    BY <1>2, <2>2
<1>5. \A i \in 1 .. Len(disk[c].kids) :
        f[disk[c].kids[i]] = W \cap Gap(recs, i)
  <2> SUFFICES ASSUME NEW i \in 1 .. Len(disk[c].kids)
               PROVE  f[disk[c].kids[i]] = W \cap Gap(recs, i)
    OBVIOUS
  <2>1. disk[c].kids[i] \in Live \ {c}
    BY KidFacts
  <2>2. QED
    BY <2>1 DEF Ranges, Ranged, Halved
<1>6. /\ \A i \in 1 .. Len(L.kids) :
           i \in 1 .. Order /\ L.kids[i] = disk[c].kids[i]
      /\ \A i \in 1 .. Len(R.kids) :
           i \in 1 .. Order /\ R.kids[i] = disk[c].kids[Order + i]
      /\ Len(L.kids) > 0 \/ Len(R.kids) > 0 =>
           \A i \in 1 .. Order : {i, Order + i} \subseteq 1 .. Len(disk[c].kids)
  <2>1. /\ Len(L.kids) = IF disk[c].leaf THEN 0 ELSE Order
        /\ \A i \in 1 .. Len(L.kids) : L.kids[i] = disk[c].kids[i]
    BY <1>1, LeftHalfNode
  <2>2. /\ Len(R.kids) = IF disk[c].leaf THEN 0 ELSE Order
        /\ \A i \in 1 .. Len(R.kids) : R.kids[i] = disk[c].kids[Order + i]
    BY <1>1, RightHalfNode
  <2> HIDE DEF L, R
  <2>3. QED
    BY <1>1, <2>1, <2>2
<1> HIDE 
     DEF L, R, recs, W, m, k, low, high, Ranged
<1>7. /\ Fits(L.recs, Lower(W, k)) /\ Fits(R.recs, Upper(W, k))
      /\ \A j \in 1 .. Order :
           /\ Lower(W, k) \cap Gap(L.recs, j) = W \cap Gap(recs, j)
           /\ Upper(W, k) \cap Gap(R.recs, j) = W \cap Gap(recs, Order + j)
  <2> DEFINE l == SubSeq(recs, 1, Order - 1)
             h == SubSeq(recs, Order + 1, 2 * Order - 1)
             o == KeyOf(recs[Order])
  <2>1. /\ Fits(l, Lower(W, o)) /\ Fits(h, Upper(W, o))
        /\ \A j \in 1 .. Order :
             /\ Lower(W, o) \cap Gap(l, j) = W \cap Gap(recs, j)
             /\ Upper(W, o) \cap Gap(h, j) = W \cap Gap(recs, Order + j)
    BY <1>1, <1>3, HalvesFit
  <2>2. L.recs = l /\ R.recs = h /\ k = o
    BY <1>2 DEF k
  <2> HIDE DEF l, h, o
  <2>3. QED
    BY <2>1, <2>2
<1>8. low = Lower(W, k) /\ high = Upper(W, k)
  BY DEF W, k, m, low, high, Halved
<1>9. ASSUME NEW i \in 1 .. Len(L.kids)
      PROVE  f[L.kids[i]] = low \cap Gap(L.recs, i)
  <2>1. /\ i \in 1 .. Order /\ L.kids[i] = disk[c].kids[i]
        /\ Len(L.kids) > 0
    BY <1>6, <1>9
  <2>2. i \in 1 .. Len(disk[c].kids)
    BY <1>6, <2>1
  <2>3. f[L.kids[i]] = W \cap Gap(recs, i)
    BY <1>5, <2>1, <2>2
  <2>4. QED
    BY <1>7, <1>8, <2>1, <2>3
<1>10. ASSUME NEW i \in 1 .. Len(R.kids)
       PROVE  f[R.kids[i]] = high \cap Gap(R.recs, i)
  <2>1. /\ i \in 1 .. Order /\ R.kids[i] = disk[c].kids[Order + i]
        /\ Len(R.kids) > 0
    BY <1>6, <1>10
  <2>2. Order + i \in 1 .. Len(disk[c].kids)
    BY <1>6, <2>1
  <2>3. f[R.kids[i]] = W \cap Gap(recs, Order + i)
    BY <1>5, <2>1, <2>2
  <2>4. QED
    BY <1>7, <1>8, <2>1, <2>3
<1>11. ToSet(recs) = ToSet(L.recs) \cup {m} \cup ToSet(R.recs)
  <2>1. Order \in 1 .. Len(recs)
    BY <1>1
  <2>2. ToSet(recs) = ToSet(SubSeq(recs, 1, Order - 1)) \cup {recs[Order]}
                        \cup ToSet(SubSeq(recs, Order + 1, Len(recs)))
    BY <1>1, <2>1, CutAround
  <2>3. QED
    BY <1>1, <1>2, <2>2
<1>12. QED
  BY <1>4, <1>7, <1>8, <1>9, <1>10, <1>11 
     DEF L, R, recs, W, m, k, low, high, Ranged

(* The parent of a page that splits has one record and one child more, and
   its other children keep their ranges. *)
LEMMA AdoptRanges ==
  ASSUME KeysOrdered, Tree, NEW range, Ranges(range),
         NEW p \in Live, ~disk[p].leaf, ~Full(disk[p]),
         NEW i \in 1 .. Len(disk[p].kids),
         NEW m \in Record, KeyOf(m) \in range[disk[p].kids[i]],
         NEW new \in Page, NEW f, Halved(f, range, disk[p].kids[i], m, new)
  PROVE  LET P == Adopt(disk[p], i, m, new)
         IN  Ranged(P, f, range[p])
<1> DEFINE P == Adopt(disk[p], i, m, new)
           n == Count(disk[p])
           recs == disk[p].recs
           kids == disk[p].kids
           c == kids[i]
           W == range[p]
           k == KeyOf(m)
<1>1. /\ n \in Nat /\ recs \in Seq(Record) /\ Len(recs) = n
      /\ Len(kids) = n + 1 /\ i \in 1 .. n + 1 /\ i \in 1 .. Len(recs) + 1
      /\ disk[p] \in Node /\ WellFormed(disk[p])
  BY PageFacts, RecordsOf
<1>2. /\ P.recs = InsertAt(recs, i, m)
      /\ Len(P.kids) = n + 2
      /\ \A j \in 1 .. n + 2 :
           P.kids[j] = IF j < i + 1 THEN kids[j]
                       ELSE IF j = i + 1 THEN new ELSE kids[j - 1]
  <2>1. P.recs = InsertAt(recs, i, m)
    BY DEF Adopt, Holding
  <2>2. /\ Len(P.kids) = Len(kids) + 1
        /\ \A j \in 1 .. Len(kids) + 1 :
             P.kids[j] = IF j < i + 1 THEN kids[j]
                         ELSE IF j = i + 1 THEN new ELSE kids[j - 1]
    <3> DEFINE A == disk[p]
    <3>1. /\ A \in Node /\ WellFormed(A) /\ ~A.leaf /\ ~Full(A)
          /\ i \in 1 .. Count(A) + 1 /\ kids = A.kids
          /\ P = Adopt(A, i, m, new)
      BY <1>1
    <3> HIDE DEF A, P, kids
    <3>2. QED
      BY <3>1, AdoptNode
  <2>3. Len(kids) + 1 = n + 2
    BY <1>1
  <2> HIDE DEF P, kids, n
  <2>4. QED
    BY <2>1, <2>2, <2>3
<1>3. /\ W \in SUBSET Key /\ Fits(recs, W)
      /\ \A j \in 1 .. Len(kids) : range[kids[j]] = W \cap Gap(recs, j)
  BY DEF Ranges, Ranged
<1>4. \A j \in 1 .. Len(kids) : j # i => f[kids[j]] = W \cap Gap(recs, j)
  <2> SUFFICES ASSUME NEW j \in 1 .. Len(kids), j # i
               PROVE  f[kids[j]] = W \cap Gap(recs, j)
    OBVIOUS
  <2>1. kids[j] \in Live /\ kids[j] # c
    BY KidFacts
  <2>2. f[kids[j]] = range[kids[j]]
    BY <2>1 DEF Halved
  <2>3. QED
    BY <1>3, <2>2
<1>5. range[c] = W \cap Gap(recs, i) /\ k \in W /\ k \in Gap(recs, i)
  BY <1>1, <1>3
<1>6. c = kids[i]
  OBVIOUS
<1>7. f[c] = Lower(range[c], k) /\ f[new] = Upper(range[c], k)
  BY DEF Halved
<1> HIDE DEF P, n, recs, kids, c, W
<1>9. /\ Fits(P.recs, W)
      /\ \A j \in 1 .. i - 1 : Gap(P.recs, j) = Gap(recs, j)
      /\ Gap(P.recs, i) = Lower(Gap(recs, i), k)
      /\ Gap(P.recs, i + 1) = Upper(Gap(recs, i), k)
      /\ \A j \in i + 2 .. n + 2 : Gap(P.recs, j) = Gap(recs, j - 1)
  <2> DEFINE t == InsertAt(recs, i, m)
  <2>1. /\ Fits(t, W)
        /\ \A j \in 1 .. i - 1 : Gap(t, j) = Gap(recs, j)
        /\ Gap(t, i) = Lower(Gap(recs, i), k)
        /\ Gap(t, i + 1) = Upper(Gap(recs, i), k)
        /\ \A j \in i + 2 .. Len(recs) + 2 : Gap(t, j) = Gap(recs, j - 1)
    BY <1>1, <1>3, <1>5, InsertFits
  <2>2. P.recs = t /\ Len(recs) = n
    BY <1>1, <1>2
  <2> HIDE DEF t
  <2>3. QED
    BY <2>1, <2>2
<1> HIDE DEF k
<1>10. ASSUME NEW j \in 1 .. n + 2
       PROVE  f[P.kids[j]] = W \cap Gap(P.recs, j)
  <2>1. CASE j < i
    <3>1. j \in 1 .. i - 1 /\ j \in 1 .. Len(kids) /\ P.kids[j] = kids[j]
      BY <1>1, <1>2, <2>1
    <3>2. QED
      BY <1>4, <1>9, <2>1, <3>1
  <2>2. CASE j = i
    <3>1. P.kids[j] = c
      BY <1>1, <1>2, <1>6, <2>2
    <3>2. QED
      BY <1>5, <1>7, <1>9, <2>2, <3>1 DEF Lower
  <2>3. CASE j = i + 1
    <3>1. P.kids[j] = new
      BY <1>1, <1>2, <2>3
    <3>2. QED
      BY <1>5, <1>7, <1>9, <2>3, <3>1 DEF Upper
  <2>4. CASE j > i + 1
    <3>1. /\ j \in i + 2 .. n + 2 /\ j - 1 \in 1 .. Len(kids) /\ j - 1 # i
          /\ P.kids[j] = kids[j - 1]
      <4>1. ~(j < i + 1) /\ j # i + 1 /\ j - 1 \in 1 .. n + 1 /\ j - 1 # i
        BY <1>1, <2>4
      <4>2. j \in i + 2 .. n + 2
        BY <1>1, <2>4
      <4>3. QED
        BY <1>1, <1>2, <4>1, <4>2
    <3>2. QED
      BY <1>4, <1>9, <3>1
  <2>5. QED
    BY <1>1, <2>1, <2>2, <2>3, <2>4
<1>11. QED
  BY <1>2, <1>9, <1>10 DEF P, W, Ranged

(* What the file holds after a child has split. *)
LEMMA SplitPages ==
  ASSUME Tree, NEW p \in Live, NEW c \in Live, c # p,
         NEW P \in Node, LeftHalf(disk[c]) \in Node, RightHalf(disk[c]) \in Node,
         Split(c, p, P)
  PROVE  /\ disk'[c] = LeftHalf(disk[c]) /\ disk'[p] = P
         /\ disk'[NewPage] = RightHalf(disk[c])
         /\ \A q \in Live : q # c /\ q # p => disk'[q] = disk[q]
<1> DEFINE L == LeftHalf(disk[c])
           R == RightHalf(disk[c])
           d == [disk EXCEPT ![c] = L, ![p] = P]
<1>1. disk' = Append(d, R)
  BY DEF Split
<1>2. /\ disk \in Seq(Node) /\ Len(disk) \in Nat
      /\ c \in 1 .. Len(disk) /\ p \in 1 .. Len(disk)
      /\ \A q \in Live : q \in 1 .. Len(disk)
  BY PageFacts DEF Tree, TreeTypes
<1> HIDE DEF L, R
<1>3. /\ d \in Seq(Node) /\ Len(d) = Len(disk)
      /\ \A q \in 1 .. Len(disk) :
           d[q] = IF q = p THEN P ELSE IF q = c THEN L ELSE disk[q]
  <2>1. L \in Node /\ P \in Node
    BY DEF L
  <2>2. QED
    BY <1>2, <2>1, TwoElements
<1>4. R \in Node
  BY DEF R
<1> HIDE DEF d
<1>5. /\ \A q \in 1 .. Len(disk) : disk'[q] = d[q]
      /\ disk'[Len(disk) + 1] = R
  BY <1>1, <1>3, <1>4, AppendProperties
<1>6. QED
  BY <1>2, <1>3, <1>5 DEF NewPage, L, R

(* A child that splits shares its range with the new page: the tree holds
   the same records. *)
LEMMA SplitChildRanges ==
  ASSUME KeysOrdered, Tree, NEW range, Ranges(range),
         NEW p \in Live, ~disk[p].leaf, ~Full(disk[p]),
         NEW i \in 1 .. Count(disk[p]) + 1,
         NEW c, c = disk[p].kids[i], Full(disk[c]),
         Split(c, p, Adopt(disk[p], i, Median(disk[c]), NewPage)),
         root' = root, Live' = Live \cup {NewPage},
         NEW f \in [Live \cup {NewPage} -> SUBSET Key],
         Halved(f, range, c, Median(disk[c]), NewPage)
  PROVE  Ranges(f)' /\ Records' = Records
<1> DEFINE m == Median(disk[c])
           L == LeftHalf(disk[c])
           R == RightHalf(disk[c])
           P == Adopt(disk[p], i, m, NewPage)
<1>1. /\ disk[p] \in Node /\ WellFormed(disk[p]) /\ root \in Live
      /\ i \in 1 .. Len(disk[p].kids)
      /\ NewPage \in Page /\ NewPage \notin Live
  BY PageFacts, RecordsOf DEF Tree, Page, NewPage
<1>2. /\ c \in Live /\ c # root /\ c # p
      /\ \A q \in Live : \A j \in 1 .. Len(disk[q].kids) :
           disk[q].kids[j] = c => q = p
  BY <1>1, KidFacts
<1>3. disk[c] \in Node /\ WellFormed(disk[c])
  BY <1>2, PageFacts
<1>4. /\ Ranged(L, f, f[c]) /\ Ranged(R, f, f[NewPage])
      /\ ToSet(disk[c].recs) = ToSet(L.recs) \cup {m} \cup ToSet(R.recs)
      /\ m \in Record /\ KeyOf(m) \in range[c]
  BY <1>2, HalvesRanges
<1>5. /\ Ranged(P, f, range[p])
      /\ ToSet(P.recs) = ToSet(disk[p].recs) \cup {m}
  <2> DEFINE new == NewPage
  <2>1. /\ KeysOrdered /\ Tree /\ Ranges(range) /\ p \in Live
        /\ ~disk[p].leaf /\ ~Full(disk[p]) /\ i \in 1 .. Len(disk[p].kids)
        /\ m \in Record /\ KeyOf(m) \in range[disk[p].kids[i]]
        /\ new \in Page /\ Halved(f, range, disk[p].kids[i], m, new)
    BY <1>1, <1>4
  <2> HIDE DEF m, new
  <2>2. \A q \in Live : ~disk[q].leaf /\ ~Full(disk[q]) =>
          \A j \in 1 .. Len(disk[q].kids) :
            /\ KeyOf(m) \in range[disk[q].kids[j]]
            /\ Halved(f, range, disk[q].kids[j], m, new)
            => Ranged(Adopt(disk[q], j, m, new), f, range[q])
    BY ONLY <2>1, AdoptRanges
  <2>3. ToSet(P.recs) = ToSet(disk[p].recs) \cup {m}
    <3>1. /\ disk[p].recs \in Seq(Record) /\ m \in Record
          /\ i \in 1 .. Len(disk[p].recs) + 1
      BY <1>1, <1>4, RecordsOf
    <3>2. P.recs = InsertAt(disk[p].recs, i, m)
      BY DEF Adopt, Holding
    <3>3. QED
      BY <3>1, <3>2, InsertAtSet
  <2>4. QED
    BY <2>1, <2>2, <2>3 DEF new
<1>6. L \in Node /\ R \in Node /\ P \in Node
  <2>1. L \in Node /\ R \in Node
    BY <1>3, LeftHalfNode, RightHalfNode
  <2>2. P \in Node
    BY <1>1, <1>4, AdoptNode
  <2>3. QED
    BY <2>1, <2>2
<1>7. /\ disk'[c] = L /\ disk'[p] = P /\ disk'[NewPage] = R
      /\ \A q \in Live : q # c /\ q # p => disk'[q] = disk[q]
  BY <1>2, <1>6, SplitPages
<1> DEFINE new == NewPage
<1> HIDE DEF L, R, P, m, new
<1>8. /\ new \notin Live /\ Live' = Live \cup {new} /\ c \in Live
      /\ disk'[c] = L /\ disk'[p] = P /\ disk'[new] = R
      /\ Ranged(L, f, f[c]) /\ Ranged(R, f, f[new])
  BY <1>1, <1>2, <1>4, <1>7 DEF new
<1>9. range[root] = Key /\ f[root'] = Key /\ f[p] = range[p]
  BY <1>1, <1>2 DEF Ranges, Halved
<1>10. /\ f \in [Live' -> SUBSET Key]
       /\ \A q \in Live : q # c => f[q] = range[q]
  BY DEF new, Halved
<1>11. ASSUME NEW q \in Live, q # c, q # p
       PROVE  Ranged(disk'[q], f, f[q])
  <2>1. disk'[q] = disk[q] /\ f[q] = range[q]
    BY <1>7, <1>10, <1>11
  <2>2. Ranged(disk[q], range, range[q])
    BY DEF Ranges
  <2>3. ASSUME NEW j \in 1 .. Len(disk[q].kids)
        PROVE  f[disk[q].kids[j]] = range[disk[q].kids[j]]
    <3>1. disk[q].kids[j] \in Live /\ disk[q].kids[j] # c
      BY <1>2, <1>11, KidFacts
    <3>2. QED
      BY <1>10, <3>1
  <2>4. QED
    BY <2>1, <2>2, <2>3 DEF Ranged
<1>12. \A q \in Live' : q = c \/ q = new \/ q = p \/ (q \in Live /\ q # c /\ q # p)
  BY <1>8
<1>13. \A q \in Live' : Ranged(disk'[q], f, f[q])
  BY <1>5, <1>8, <1>9, <1>11, <1>12
<1>14. Ranges(f)'
  BY <1>9, <1>10, <1>13 DEF Ranges
<1>15. Records' = Records
  <2>1. \A r : r \in Records' <=> \E q \in Live' : r \in ToSet(disk'[q].recs)
    BY DEF Records
  <2>2. \A r : r \in Records <=> \E q \in Live : r \in ToSet(disk[q].recs)
    BY DEF Records
  <2>3. \A q \in Live : q # c /\ q # p => disk'[q].recs = disk[q].recs
    BY <1>7
  <2>4. /\ ToSet(disk'[p].recs) = ToSet(disk[p].recs) \cup {m}
        /\ ToSet(disk[c].recs) =
             ToSet(disk'[c].recs) \cup {m} \cup ToSet(disk'[new].recs)
    BY <1>4, <1>5, <1>8
  <2>5. ASSUME NEW r \in Records
        PROVE  r \in Records'
    <3>1. PICK q \in Live : r \in ToSet(disk[q].recs)
      BY <2>2, <2>5
    <3>2. CASE q = c
      BY <1>8, <2>1, <2>4, <3>1, <3>2
    <3>3. CASE q = p
      BY <1>8, <2>1, <2>4, <3>1, <3>3
    <3>4. CASE q # c /\ q # p
      BY <1>8, <2>1, <2>3, <3>1, <3>4
    <3>5. QED
      BY <3>2, <3>3, <3>4
  <2>6. ASSUME NEW r \in Records'
        PROVE  r \in Records
    <3>1. PICK q \in Live' : r \in ToSet(disk'[q].recs)
      BY <2>1, <2>6
    <3>2. CASE q = c \/ q = new
      BY <1>8, <2>2, <2>4, <3>1, <3>2
    <3>3. CASE q = p
      BY <1>8, <2>2, <2>4, <3>1, <3>3
    <3>4. CASE q \in Live /\ q # c /\ q # p
      BY <2>2, <2>3, <3>1, <3>4
    <3>5. QED
      BY <1>12, <3>2, <3>3, <3>4
  <2>7. QED
    BY <2>5, <2>6
<1>16. QED
  BY <1>14, <1>15

(* What the file holds after the root has split. *)
LEMMA SplitRootPages ==
  ASSUME Tree, NEW r, InsertSplitRoot(r),
         NEW new, new = NewPage, NEW top, top = NewPage + 1
  PROVE  /\ disk'[root] = LeftHalf(disk[root])
         /\ disk'[new] = RightHalf(disk[root])
         /\ disk'[top] = NewRoot(Median(disk[root]), root, new)
         /\ \A q \in Live : q # root => disk'[q] = disk[q]
         /\ Live' = Live \cup {new, top} /\ root' = top
         /\ new \notin Live /\ top \notin Live /\ new # top
         /\ Median(disk[root]) \in Record
<1> DEFINE c == root
           L == LeftHalf(disk[c])
           R == RightHalf(disk[c])
           T == NewRoot(Median(disk[c]), c, new)
           d == [disk EXCEPT ![c] = L]
           e == Append(d, R)
<1>1. /\ disk' = Append(e, T) /\ Full(disk[c]) /\ root' = top /\ freed' = freed
  BY DEF InsertSplitRoot, NewPage
<1>2. /\ disk \in Seq(Node) /\ Len(disk) \in Nat /\ DOMAIN disk = 1 .. Len(disk)
      /\ \A q \in Live : q \in DOMAIN disk
      /\ c \in Live /\ c \in DOMAIN disk /\ c \in Page
      /\ disk[c] \in Node /\ WellFormed(disk[c]) /\ new \in Page
      /\ freed \subseteq DOMAIN disk
      /\ new = Len(disk) + 1 /\ top = Len(disk) + 2
  BY PageFacts DEF Tree, TreeTypes, Page, NewPage
<1>3. Median(disk[c]) \in Record
  BY <1>1, <1>2, MedianRecord
<1>4. L \in Node /\ R \in Node /\ T \in Node
  BY <1>1, <1>2, <1>3, LeftHalfNode, RightHalfNode, NewRootNode
<1> HIDE DEF L, R, T, c
<1>5. /\ d \in Seq(Node) /\ Len(d) = Len(disk)
      /\ \A q \in 1 .. Len(disk) : d[q] = IF q = c THEN L ELSE disk[q]
  BY <1>2, <1>4, OneElement
<1> HIDE DEF d
<1>6. /\ e \in Seq(Node) /\ Len(e) = new /\ e[new] = R
      /\ \A q \in 1 .. Len(disk) : e[q] = d[q]
  BY <1>2, <1>4, <1>5, AppendProperties
<1> HIDE DEF e
<1>7. /\ disk' \in Seq(Node) /\ Len(disk') = Len(disk) + 2
      /\ disk'[top] = T /\ disk'[new] = R
      /\ \A q \in 1 .. Len(disk) : disk'[q] = e[q]
  <2>1. /\ disk' \in Seq(Node) /\ Len(disk') = Len(e) + 1
        /\ disk'[Len(e) + 1] = T
        /\ \A q \in 1 .. Len(e) : disk'[q] = e[q]
    BY <1>1, <1>4, <1>6, AppendProperties
  <2>2. Len(e) + 1 = top /\ new \in 1 .. Len(e) /\ 1 .. Len(disk) \subseteq 1 .. Len(e)
    BY <1>2, <1>6
  <2>3. QED
    BY <1>2, <1>6, <2>1, <2>2
<1>8. DOMAIN disk' = DOMAIN disk \cup {new, top}
  <2>1. DOMAIN disk' = 1 .. Len(disk) + 2
    BY <1>7, LenProperties
  <2>2. QED
    BY <1>2, <2>1
<1>9. /\ disk'[c] = L
      /\ \A q \in DOMAIN disk : q # c => disk'[q] = disk[q]
  BY <1>2, <1>5, <1>6, <1>7
<1>10. /\ new \notin DOMAIN disk /\ top \notin DOMAIN disk /\ new # top
       /\ Live' = Live \cup {new, top}
  BY <1>1, <1>2, <1>8 DEF Live
<1>11. QED
  BY <1>1, <1>2, <1>3, <1>7, <1>9, <1>10 DEF L, R, T, c

(* The root that splits shares its range, which is all the keys, with the
   new page, and the new root above them has all the keys. *)
LEMMA SplitRootRanges ==
  ASSUME KeysOrdered, Tree, NEW range, Ranges(range),
         NEW r, InsertSplitRoot(r),
         NEW new, new = NewPage, NEW top, top = NewPage + 1,
         NEW f \in [Live \cup {new, top} -> SUBSET Key],
         Halved(f, range, root, Median(disk[root]), new), f[top] = Key
  PROVE  Ranges(f)' /\ Records' = Records
<1> DEFINE c == root
           m == Median(disk[c])
           L == LeftHalf(disk[c])
           R == RightHalf(disk[c])
           T == NewRoot(m, c, new)
<1>1. /\ disk'[c] = L /\ disk'[new] = R /\ disk'[top] = T
      /\ \A q \in Live : q # c => disk'[q] = disk[q]
      /\ Live' = Live \cup {new, top} /\ root' = top
      /\ new \notin Live /\ top \notin Live /\ new # top
  BY SplitRootPages
<1>2. c \in Live /\ Full(disk[c]) /\ range[c] = Key
  BY DEF Tree, Ranges, InsertSplitRoot
<1>3. /\ Ranged(L, f, f[c]) /\ Ranged(R, f, f[new])
      /\ ToSet(disk[c].recs) = ToSet(L.recs) \cup {m} \cup ToSet(R.recs)
      /\ m \in Record /\ KeyOf(m) \in Key
  <2>1. /\ KeysOrdered /\ Tree /\ Ranges(range) /\ c \in Live /\ Full(disk[c])
        /\ Halved(f, range, c, m, new)
    BY <1>2
  <2> HIDE DEF c
  <2>2. /\ Ranged(L, f, f[c]) /\ Ranged(R, f, f[new])
        /\ ToSet(disk[c].recs) = ToSet(L.recs) \cup {m} \cup ToSet(R.recs)
        /\ m \in Record /\ KeyOf(m) \in range[c]
    BY ONLY <2>1, HalvesRanges
  <2>3. QED
    BY <1>2, <2>2
<1>4. /\ T.recs = <<m>> /\ T.kids = <<c, new>>
      /\ f[c] = Lower(Key, KeyOf(m)) /\ f[new] = Upper(Key, KeyOf(m))
      /\ \A q \in Live \ {c} : f[q] = range[q]
  BY <1>2 DEF NewRoot, Halved
<1>5. \A q \in Live \ {c} : \A j \in 1 .. Len(disk[q].kids) :
        disk[q].kids[j] \in Live \ {c}
  BY KidFacts
<1>6. /\ f \in [Live' -> SUBSET Key] /\ f[root'] = Key
  BY <1>1
<1> HIDE DEF L, R, T, m, c
<1>7. Ranged(T, f, Key)
  <2>1. Len(T.recs) = 1 /\ T.recs[1] = m /\ Len(T.kids) = 2
    BY <1>4
  <2>2. T.kids[1] = c /\ T.kids[2] = new
    BY <1>4
  <2>3. /\ Gap(T.recs, 1) = Lower(Key, KeyOf(m))
        /\ Gap(T.recs, 2) = Upper(Key, KeyOf(m))
    BY <2>1 DEF Gap, Lower, Upper
  <2>4. Fits(T.recs, Key)
    BY <1>3, <2>1 DEF Fits
  <2>5. \A j \in 1 .. 2 : f[T.kids[j]] = Key \cap Gap(T.recs, j)
    <3>1. /\ f[T.kids[1]] = Key \cap Gap(T.recs, 1)
          /\ f[T.kids[2]] = Key \cap Gap(T.recs, 2)
      BY <1>4, <2>2, <2>3 DEF Lower, Upper
    <3>2. \A j \in 1 .. 2 : j = 1 \/ j = 2
      OBVIOUS
    <3>3. QED
      BY <3>1, <3>2
  <2>6. QED
    BY <2>1, <2>4, <2>5 DEF Ranged
<1>8. ASSUME NEW q \in Live, q # c
      PROVE  Ranged(disk'[q], f, f[q])
  <2>1. disk'[q] = disk[q] /\ f[q] = range[q]
    BY <1>1, <1>4, <1>8
  <2>2. Ranged(disk[q], range, range[q])
    BY DEF Ranges
  <2>3. \A j \in 1 .. Len(disk[q].kids) : f[disk[q].kids[j]] = range[disk[q].kids[j]]
    BY <1>4, <1>5, <1>8
  <2>4. QED
    BY <2>1, <2>2, <2>3 DEF Ranged
<1>9. \A q \in Live' : q = c \/ q = new \/ q = top \/ (q \in Live /\ q # c)
  BY <1>1
<1>10. \A q \in Live' : Ranged(disk'[q], f, f[q])
  BY <1>1, <1>3, <1>7, <1>8, <1>9
<1>11. Ranges(f)'
  BY <1>6, <1>10 DEF Ranges
<1>12. Records' = Records
  <2>1. \A x : x \in Records' <=> \E q \in Live' : x \in ToSet(disk'[q].recs)
    BY DEF Records
  <2>2. \A x : x \in Records <=> \E q \in Live : x \in ToSet(disk[q].recs)
    BY DEF Records
  <2>3. /\ ToSet(disk'[top].recs) = {m}
        /\ ToSet(disk[c].recs) =
             ToSet(disk'[c].recs) \cup {m} \cup ToSet(disk'[new].recs)
        /\ \A q \in Live : q # c => disk'[q].recs = disk[q].recs
    <3>1. ToSet(T.recs) = {m}
      <4>1. T.recs \in Seq(Record) /\ Len(T.recs) = 1 /\ T.recs[1] = m
        BY <1>3, <1>4
      <4>2. ToSet(T.recs) = {T.recs[j] : j \in 1 .. 1}
        BY <4>1, ElementsOf
      <4>3. QED
        BY <4>1, <4>2
    <3>2. QED
      BY <1>1, <1>3, <3>1
  <2>4. ASSUME NEW x \in Records
        PROVE  x \in Records'
    <3>1. PICK q \in Live : x \in ToSet(disk[q].recs)
      BY <2>2, <2>4
    <3>2. CASE q = c
      BY <1>1, <1>2, <2>1, <2>3, <3>1, <3>2 DEF c
    <3>3. CASE q # c
      BY <1>1, <2>1, <2>3, <3>1, <3>3
    <3>4. QED
      BY <3>2, <3>3
  <2>5. ASSUME NEW x \in Records'
        PROVE  x \in Records
    <3>1. PICK q \in Live' : x \in ToSet(disk'[q].recs)
      BY <2>1, <2>5
    <3>2. CASE q = c \/ q = new \/ q = top
      BY <1>2, <2>2, <2>3, <3>1, <3>2 DEF c
    <3>3. CASE q \in Live /\ q # c
      BY <2>2, <2>3, <3>1, <3>3
    <3>4. QED
      BY <1>9, <3>2, <3>3
  <2>6. QED
    BY <2>4, <2>5
<1>13. QED
  BY <1>11, <1>12

-----------------------------------------------------------------------------
(* Some record of the tree has the key. *)
Has(k) == \E r \in Records : KeyOf(r) = k

(* The key the activation looks for is one its page is responsible for. *)
Placed == \E range : Ranges(range) /\ (pc # "idle" => key \in range[at])

(* The activation looks for the key of the call. *)
Asked ==
  /\ pc \in {"idle", "insert", "search"}
  /\ pc # "idle" => key = arg
  /\ pc = "insert" => rec \in Record /\ KeyOf(rec) = arg

(* The inductive invariant. *)
GrowInv == IInv /\ Rooted /\ Asked /\ Placed

(* What the loop finds at the slot it stops at. *)
LEMMA SlotFound ==
  ASSUME KeysOrdered, Tree, Rooted, NEW range, Ranges(range),
         NEW p \in Live, NEW k \in range[p],
         NEW i \in 1 .. Count(disk[p]) + 1, Stops(disk[p], k, i)
  PROVE  /\ Hits(disk[p], k, i) =>
              /\ disk[p].recs[i] \in Records /\ KeyOf(disk[p].recs[i]) = k
         /\ ~Hits(disk[p], k, i) => k \in Gap(disk[p].recs, i)
         /\ ~Hits(disk[p], k, i) /\ ~disk[p].leaf => k \in range[disk[p].kids[i]]
         /\ ~Hits(disk[p], k, i) /\ disk[p].leaf => ~Has(k)
<1>1. k \in Key
  BY DEF Ranges
<1>2. /\ ~Hits(disk[p], k, i) => k \in Gap(disk[p].recs, i)
      /\ Hits(disk[p], k, i) =>
           i \in 1 .. Count(disk[p]) /\ k = KeyOf(disk[p].recs[i])
  <2>1. disk[p] \in Node
    BY PageFacts
  <2>2. QED
    BY <1>1, <2>1, SlotGap
<1>3. Hits(disk[p], k, i) => disk[p].recs[i] \in Records
  BY <1>2, RecordsInPages
<1>4. ASSUME ~Hits(disk[p], k, i), ~disk[p].leaf
      PROVE  k \in range[disk[p].kids[i]]
  <2>1. i \in 1 .. Len(disk[p].kids)
    BY <1>4, RecordsOf
  <2>2. range[disk[p].kids[i]] = range[p] \cap Gap(disk[p].recs, i)
    BY <2>1 DEF Ranges, Ranged
  <2>3. QED
    BY <1>2, <1>4, <2>2
<1>5. ASSUME ~Hits(disk[p], k, i), disk[p].leaf
      PROVE  ~Has(k)
  BY <1>2, <1>5, LeafMisses DEF Has
<1>6. QED
  BY <1>2, <1>3, <1>4, <1>5

(* Steps that leave the tree alone leave the ranges alone. *)
LEMMA SameRanges ==
  ASSUME UNCHANGED tree
  PROVE  /\ \A range : Ranges(range) => Ranges(range)'
         /\ Records' = Records
BY DEF tree, Ranges, Ranged, Records, Live

(* A call starts at the root, which is responsible for every key. *)
LEMMA CallPlaced ==
  ASSUME KeysOrdered, GrowInv, InsertCall \/ SearchCall
  PROVE  Placed' /\ Records' = Records
<1>1. PICK range : Ranges(range)
  BY DEF GrowInv, Placed
<1>2. Tree /\ root \in Live
  BY Here DEF GrowInv
<1>3. ASSUME NEW f, NEW k \in Key, NEW r, NEW page, Enter(f, k, r, page),
             page = root, UNCHANGED tree
      PROVE  Placed' /\ Records' = Records
  <2>1. Ranges(range)' /\ Records' = Records
    BY <1>1, <1>3, SameRanges
  <2>2. key' \in range[at']
    BY <1>1, <1>3 DEF Enter, Ranges
  <2>3. QED
    BY <2>1, <2>2 DEF Placed
<1>4. ASSUME NEW r \in Record, InsertSplitRoot(r)
      PROVE  Placed' /\ Records' = Records
  <2> DEFINE new == NewPage
             top == NewPage + 1
             m == Median(disk[root])
  <2>1. /\ new \notin Live /\ top \notin Live /\ new # top
        /\ m \in Record
    BY <1>2, <1>4, SplitRootPages
  <2>2. KeyOf(m) \in Key /\ KeyOf(r) \in Key
    BY <2>1, KeyAssumption
  <2>3. PICK f : f = [q \in Live \cup {new, top} |->
                        IF q = root THEN Lower(range[root], KeyOf(m))
                        ELSE IF q = new THEN Upper(range[root], KeyOf(m))
                        ELSE IF q = top THEN Key ELSE range[q]]
    OBVIOUS
  <2>4. range \in [Live -> SUBSET Key] /\ range[root] = Key
    BY <1>1 DEF Ranges
  <2> HIDE DEF new, top, m
  <2>5. /\ f \in [Live \cup {new, top} -> SUBSET Key] /\ f[top] = Key
        /\ Halved(f, range, root, m, new)
    BY <1>2, <2>1, <2>3, <2>4 DEF Halved, Lower, Upper
  <2>6. Ranges(f)' /\ Records' = Records
    BY <1>1, <1>2, <1>4, <2>5, SplitRootRanges DEF new, top, m
  <2>7. at' = top /\ key' = KeyOf(r)
    BY <1>4, PageFacts, <1>2 DEF InsertSplitRoot, Enter, top, NewPage
  <2>8. QED
    BY <2>2, <2>5, <2>6, <2>7 DEF Placed
<1>5. QED
  BY <1>3, <1>4, KeyAssumption
  DEF InsertCall, Insert, SearchCall, Search

(* The next activation is on a page responsible for the key. *)
LEMMA DescentPlaced ==
  ASSUME KeysOrdered, GrowInv, InsertDescends \/ SearchDescends
  PROVE  Placed' /\ Records' = Records
<1>1. PICK range : Ranges(range) /\ (pc # "idle" => key \in range[at])
  BY DEF GrowInv, Placed
<1>2. /\ pc # "idle" /\ ~disk[at].leaf /\ UNCHANGED tree
      /\ \E i \in 1 .. Count(disk[at]) + 1 :
           /\ Stops(disk[at], key, i) /\ ~Hits(disk[at], key, i)
           /\ at' = disk[at].kids[i] /\ key' = key
  BY DEF InsertDescends, SearchDescends, Recurse
<1>3. Tree /\ Rooted /\ at \in Live
  BY Here DEF GrowInv
<1>4. key' \in range[at']
  BY <1>1, <1>2, <1>3, SlotFound
<1>5. QED
  BY <1>1, <1>2, <1>4, SameRanges DEF Placed

(* A record is put into a leaf when no other has its key. *)
LEMMA LeafPlaced ==
  ASSUME KeysOrdered, GrowInv, InsertIntoLeaf
  PROVE  Placed' /\ Records' = Records \cup {rec} /\ ~Has(arg)
<1>1. PICK range : Ranges(range) /\ (pc # "idle" => key \in range[at])
  BY DEF GrowInv, Placed
<1>2. /\ pc = "insert" /\ pc' = "idle" /\ disk[at].leaf
      /\ UNCHANGED <<height, root, freed>>
  BY DEF InsertIntoLeaf, Return
<1>3. PICK i \in 1 .. Count(disk[at]) + 1 :
        /\ Stops(disk[at], key, i) /\ ~Hits(disk[at], key, i)
        /\ disk' = [disk EXCEPT ![at] = WithRecord(@, i, rec)]
  BY DEF InsertIntoLeaf
<1>4. /\ Tree /\ Rooted /\ at \in Live /\ ~Full(disk[at])
      /\ key = arg /\ rec \in Record /\ KeyOf(rec) = key /\ key \in range[at]
  BY <1>1, <1>2, Here DEF GrowInv, Asked, IInv, Room
<1>5. key \in Gap(disk[at].recs, i) /\ ~Has(key)
  BY <1>1, <1>2, <1>3, <1>4, SlotFound
<1>6. Ranges(range)' /\ Records' = Records \cup {rec}
  <2>1. /\ KeysOrdered /\ Tree /\ Ranges(range) /\ at \in Live
        /\ disk[at].leaf /\ ~Full(disk[at]) /\ rec \in Record
        /\ i \in 1 .. Count(disk[at]) + 1
        /\ KeyOf(rec) \in range[at] /\ KeyOf(rec) \in Gap(disk[at].recs, i)
        /\ disk' = [disk EXCEPT ![at] = WithRecord(@, i, rec)]
        /\ UNCHANGED <<height, root, freed>>
    BY <1>1, <1>2, <1>3, <1>4, <1>5
  <2>2. QED
    BY ONLY <2>1, LeafRanges
<1>7. QED
  BY <1>2, <1>4, <1>5, <1>6 DEF Placed

(* The half entered after a split is responsible for the key, and if neither
   is, the median has it. *)
LEMMA SplitPlaced ==
  ASSUME KeysOrdered, GrowInv, InsertSplitsChild
  PROVE  Placed' /\ Records' = Records /\ (pc' = "idle" => Has(arg))
<1>1. PICK range : Ranges(range) /\ (pc # "idle" => key \in range[at])
  BY DEF GrowInv, Placed
<1> DEFINE new == NewPage
<1>2. pc = "insert" /\ ~disk[at].leaf /\ root' = root /\ freed' = freed
  BY DEF InsertSplitsChild
<1>3. PICK i \in 1 .. Count(disk[at]) + 1 :
        LET c == disk[at].kids[i]
            m == Median(disk[c])
            sign == Cmp(key, KeyOf(m))
        IN  /\ Stops(disk[at], key, i) /\ ~Hits(disk[at], key, i)
            /\ Full(disk[c])
            /\ Split(c, at, Adopt(disk[at], i, m, new))
            /\ \/ sign > 0 /\ Recurse(new, key, alias)
               \/ sign < 0 /\ Recurse(c, key, alias)
               \/ sign = 0 /\ Return("MDB_BTREE_KEY_COLLISION")
  BY DEF InsertSplitsChild, NewPage
<1> DEFINE c == disk[at].kids[i]
           m == Median(disk[c])
<1>4. /\ Tree /\ Rooted /\ at \in Live /\ ~Full(disk[at])
      /\ key = arg /\ key \in range[at] /\ key \in Key
      /\ i \in 1 .. Len(disk[at].kids)
  <2>1. /\ Tree /\ Rooted /\ at \in Live /\ ~Full(disk[at])
        /\ key = arg /\ key \in range[at] /\ key \in Key
    BY <1>1, <1>2, Here DEF GrowInv, Asked, IInv, Room
  <2>2. QED
    BY <1>2, <2>1, RecordsOf
<1>5. key \in range[c]
  BY <1>1, <1>2, <1>3, <1>4, SlotFound
<1>6. c \in Live /\ c # root /\ new \notin Live /\ Live' = Live \cup {new}
  <2>1. c \in Live /\ c # root
    BY <1>4, KidFacts
  <2>2. new \notin Live
    BY <1>4, PageFacts DEF NewPage
  <2>3. Live' = Live \cup {new}
    BY <1>2, <1>3, <1>4, SplitChild DEF NewPage
  <2>4. QED
    BY <2>1, <2>2, <2>3
<1>7. m \in Record /\ KeyOf(m) \in Key /\ m \in Records
  <2>1. disk[c] \in Node /\ WellFormed(disk[c]) /\ Full(disk[c])
    BY <1>3, <1>4, <1>6, PageFacts
  <2>2. m \in Record
    BY <2>1, MedianRecord
  <2>3. Order \in 1 .. Count(disk[c])
    BY <2>1, OrderAssumption DEF Full, MaxCount
  <2>4. m \in Records
    BY <1>4, <1>6, <2>3, RecordsInPages DEF Median
  <2>5. QED
    BY <2>2, <2>4, KeyAssumption
<1>8. PICK f : f = [q \in Live \cup {new} |->
                      IF q = c THEN Lower(range[c], KeyOf(m))
                      ELSE IF q = new THEN Upper(range[c], KeyOf(m))
                      ELSE range[q]]
  OBVIOUS
<1>9. /\ f \in [Live \cup {new} -> SUBSET Key]
      /\ Halved(f, range, c, m, new)
  <2>1. range \in [Live -> SUBSET Key]
    BY <1>1 DEF Ranges
  <2> HIDE DEF new, c, m
  <2>2. QED
    BY <1>6, <1>8, <2>1 DEF Halved, Lower, Upper
<1>10. Ranges(f)' /\ Records' = Records
  BY <1>1, <1>2, <1>3, <1>4, <1>6, <1>9, SplitChildRanges
<1> HIDE DEF new, c, m
<1>11. \/ Less(KeyOf(m), key) /\ at' = new /\ key' = key /\ pc' = "insert"
       \/ Less(key, KeyOf(m)) /\ at' = c /\ key' = key /\ pc' = "insert"
       \/ key = KeyOf(m) /\ pc' = "idle"
  BY <1>2, <1>3, <1>4, <1>7, Signs DEF Recurse, Return, m, c
<1>12. pc' # "idle" => key' \in f[at']
  BY <1>5, <1>9, <1>11 DEF Halved, Lower, Upper
<1>13. pc' = "idle" => Has(arg)
  BY <1>4, <1>7, <1>11 DEF Has
<1>14. QED
  BY <1>10, <1>12, <1>13 DEF Placed

(* A call that ends without a change tells what the tree holds. *)
LEMMA AnswerPlaced ==
  ASSUME KeysOrdered, GrowInv, InsertCollides \/ SearchFinds \/ SearchMisses
  PROVE  /\ Placed' /\ Records' = Records
         /\ InsertCollides => Has(arg)
         /\ SearchFinds => out' \in Records /\ KeyOf(out') = arg
         /\ SearchMisses => ~Has(arg)
<1>1. PICK range : Ranges(range) /\ (pc # "idle" => key \in range[at])
  BY DEF GrowInv, Placed
<1>2. pc # "idle" /\ pc' = "idle" /\ UNCHANGED tree
  BY DEF InsertCollides, SearchFinds, SearchMisses, Return
<1>3. /\ Tree /\ Rooted /\ at \in Live /\ key = arg /\ key \in range[at]
      /\ Count(disk[at]) \in Nat
  BY <1>1, <1>2, Here DEF GrowInv, Asked
<1>4. Placed' /\ Records' = Records
  BY <1>1, <1>2, SameRanges DEF Placed
<1>5. \A i \in 1 .. Count(disk[at]) + 1 :
        /\ Stops(disk[at], key, i) /\ Hits(disk[at], key, i) =>
             disk[at].recs[i] \in Records /\ KeyOf(disk[at].recs[i]) = arg
        /\ /\ Stops(disk[at], key, i) /\ ~Hits(disk[at], key, i)
           /\ disk[at].leaf
           => ~Has(arg)
  BY <1>1, <1>3, SlotFound
<1>6. \A i \in 1 .. Count(disk[at]) : i \in 1 .. Count(disk[at]) + 1
  BY <1>3
<1>7. InsertCollides => Has(arg)
  BY <1>5, <1>6 DEF InsertCollides, Has
<1>8. SearchFinds => out' \in Records /\ KeyOf(out') = arg
  BY <1>5, <1>6 DEF SearchFinds
<1>9. SearchMisses => ~Has(arg)
  BY <1>5 DEF SearchMisses
<1>10. QED
  BY <1>4, <1>7, <1>8, <1>9

(* The invariant of trees that grow holds of the empty tree, *)
LEMMA GrowInit ==
  Init => GrowInv /\ Records = {}
<1> SUFFICES ASSUME Init
             PROVE  GrowInv /\ Records = {}
  OBVIOUS
<1>1. IInv
  BY InitInv
<1>2. /\ disk[1].recs = <<>> /\ disk[1].kids = <<>> /\ Live = {1} /\ root = 1
      /\ pc = "idle"
  <2>1. disk = <<EmptyLeaf>> /\ DOMAIN disk = {1}
    BY LenProperties DEF Init
  <2>2. QED
    BY <2>1 DEF Init, EmptyLeaf, Live
<1>3. Rooted
  BY <1>2 DEF Rooted
<1>4. Records = {}
  <2>1. ToSet(disk[1].recs) = {}
    BY <1>2 DEF ToSet
  <2>2. QED
    BY <1>2, <2>1 DEF Records
<1>5. PICK range : range = [q \in {1} |-> Key]
  OBVIOUS
<1>6. Ranges(range)
  <2>1. Len(disk[1].recs) = 0 /\ Len(disk[1].kids) = 0
    BY <1>2
  <2>2. Ranged(disk[1], range, Key)
    BY <2>1 DEF Ranged, Fits
  <2>3. QED
    BY <1>2, <1>5, <2>2 DEF Ranges
<1>7. QED
  BY <1>1, <1>2, <1>3, <1>4, <1>6 DEF GrowInv, Asked, Placed

(* and every step keeps it. *)
LEMMA GrowStep ==
  ASSUME KeysOrdered, GrowInv, [GrowNext]_vars
  PROVE  GrowInv'
<1>1. CASE GrowNext
  <2>1. Next
    BY <1>1 DEF GrowNext, Next, Step
  <2>2. IInv' /\ Rooted'
    BY <2>1, NextInv, NextKept DEF GrowInv, Kept
  <2>3. Placed'
    BY <1>1, CallPlaced, DescentPlaced, LeafPlaced, SplitPlaced, AnswerPlaced
    DEF GrowNext, InsertStep, SearchStep
  <2>4. Asked'
    BY <1>1, KeyAssumption
    DEF GrowNext, GrowInv, Asked, InsertCall, Insert, InsertSplitRoot,
        SearchCall, Search, Enter, InsertStep, InsertCollides, InsertIntoLeaf,
        InsertDescends, InsertSplitsChild, SearchStep, SearchFinds,
        SearchMisses, SearchDescends, Recurse, Return
  <2>5. QED
    BY <2>2, <2>3, <2>4 DEF GrowInv
<1>2. CASE UNCHANGED vars
  <2>1. /\ UNCHANGED tree /\ pc' = pc /\ arg' = arg /\ rec' = rec
        /\ at' = at /\ key' = key
    BY <1>2 DEF vars, call
  <2>2. IInv'
    BY <1>2, NextInv DEF GrowInv
  <2>3. Rooted'
    BY <2>1, Here, TreeKept DEF GrowInv, Kept
  <2>4. Placed'
    BY <2>1, SameRanges DEF GrowInv, Placed
  <2>5. Asked'
    BY <2>1 DEF GrowInv, Asked
  <2>6. QED
    BY <2>2, <2>3, <2>4, <2>5 DEF GrowInv
<1>3. QED
  BY <1>1, <1>2

(* In a tree that only grows an in-order walk meets the keys in ascending
   order, at every moment of every call: what is below a child lies between
   the records on both sides of it. *)
THEOREM GrownIsOrdered ==
  KeysOrdered /\ GrowSpec => []Ordered
<1>1. Init => GrowInv
  BY GrowInit
<1>2. CASE KeysOrdered
  <2>1. GrowInv /\ [GrowNext]_vars => GrowInv'
    BY <1>2, GrowStep
  <2>2. GrowInv => Ordered
    BY <1>2, Here, RangesOrder DEF GrowInv, Placed
  <2>3. QED
    BY <1>1, <2>1, <2>2, PTL DEF GrowSpec
<1>3. CASE ~KeysOrdered
  BY <1>3
<1>4. QED
  BY <1>2, <1>3

-----------------------------------------------------------------------------
(* While a tree grows the promised set is its records, and the call is the
   function being executed. *)
LEMMA MapState ==
  GrowInv => /\ RecordsBelow(root) = Records
             /\ (IF pc = "delete" /\ key # arg THEN "removed" ELSE pc) = pc
<1> SUFFICES ASSUME GrowInv
             PROVE  /\ RecordsBelow(root) = Records
                    /\ (IF pc = "delete" /\ key # arg THEN "removed" ELSE pc) = pc
  OBVIOUS
<1>1. RecordsBelow(root) = Records
  BY Here, RecordsAreBelow DEF GrowInv
<1>2. QED
  BY <1>1 DEF GrowInv, Asked

(* Every step of a growing tree is one the promised set may take, or changes
   nothing that it shows. *)
LEMMA GrowStepMap ==
  ASSUME KeysOrdered, GrowInv, [GrowNext]_vars
  PROVE  [Map!Next]_(Map!vars)
<1> DEFINE op == IF pc = "delete" /\ key # arg THEN "removed" ELSE pc
           store == RecordsBelow(root)
<1>1. store = Records /\ op = pc
  BY MapState
<1>2. store' = Records' /\ op' = pc'
  <2>1. GrowInv'
    BY GrowStep
  <2>2. (GrowInv => store = Records /\ op = pc)'
    BY MapState, PTL
  <2>3. QED
    BY <2>1, <2>2
<1>3. \A k : Map!With(k) = {} <=> ~Has(k)
  BY <1>1 DEF Map!With, Has
<1>4. \A r \in Records : KeyOf(r) = arg => r \in Map!With(arg)
  BY <1>1 DEF Map!With
<1> HIDE DEF op, store
<1>5. ASSUME InsertCall \/ SearchCall
      PROVE  Map!Next
  <2>1. Records' = Records
    BY <1>5, CallPlaced
  <2>2. CASE \E r \in Record : Enter("insert", KeyOf(r), r, root)
                                \/ Enter("insert", KeyOf(r), r, NewPage + 1)
    <3>1. PICK r \in Record : Map!Call("insert", KeyOf(r), r)
      BY <1>1, <1>2, <2>1, <2>2 DEF Map!Call, Enter, op, store
    <3>2. QED
      BY <3>1 DEF Map!Next
  <2>3. CASE \E k \in Key : Enter("search", k, None, root)
    <3>1. PICK k \in Key : Map!Call("search", k, None)
      BY <1>1, <1>2, <2>1, <2>3 DEF Map!Call, Enter, op, store
    <3>2. QED
      BY <3>1 DEF Map!Next
  <2>4. QED
    BY <1>5, <2>2, <2>3
    DEF InsertCall, Insert, InsertSplitRoot, SearchCall, Search, NewPage
<1>6. ASSUME InsertDescends \/ SearchDescends
      PROVE  UNCHANGED Map!vars
  <2>1. Records' = Records
    BY <1>6, DescentPlaced
  <2>2. UNCHANGED <<pc, arg, rec, ret, out>>
    BY <1>6 DEF InsertDescends, SearchDescends, Recurse, result
  <2>3. QED
    BY <1>1, <1>2, <2>1, <2>2 DEF Map!vars, op, store
<1>7. ASSUME InsertIntoLeaf
      PROVE  Map!Insert
  <2>1. Records' = Records \cup {rec} /\ ~Has(arg)
    BY <1>7, LeafPlaced
  <2>2. pc = "insert" /\ Return("MDB_NO_ERROR") /\ out' = out
    BY <1>7 DEF InsertIntoLeaf
  <2>3. QED
    BY <1>1, <1>2, <1>3, <2>1, <2>2
    DEF Map!Insert, Map!Return, Return, op, store
<1>8. ASSUME InsertSplitsChild
      PROVE  Map!Insert \/ UNCHANGED Map!vars
  <2>1. Records' = Records /\ (pc' = "idle" => Has(arg))
    BY <1>8, SplitPlaced
  <2>2. /\ pc = "insert"
        /\ \/ UNCHANGED <<pc, arg, rec, ret, out>>
           \/ Return("MDB_BTREE_KEY_COLLISION") /\ out' = out
    BY <1>8 DEF InsertSplitsChild, Recurse, result
  <2>3. CASE UNCHANGED <<pc, arg, rec, ret, out>>
    BY <1>1, <1>2, <2>1, <2>3 DEF Map!vars, op, store
  <2>4. CASE Return("MDB_BTREE_KEY_COLLISION") /\ out' = out
    BY <1>1, <1>2, <1>3, <2>1, <2>2, <2>4
    DEF Map!Insert, Map!Return, Return, op, store
  <2>5. QED
    BY <2>2, <2>3, <2>4
<1>9. ASSUME InsertCollides
      PROVE  Map!Insert
  <2>1. Records' = Records /\ Has(arg)
    BY <1>9, AnswerPlaced
  <2>2. /\ pc = "insert" /\ Return("MDB_BTREE_KEY_COLLISION") /\ out' = out
    BY <1>9 DEF InsertCollides
  <2>3. QED
    BY <1>1, <1>2, <1>3, <2>1, <2>2
    DEF Map!Insert, Map!Return, Return, op, store
<1>10. ASSUME SearchFinds \/ SearchMisses
       PROVE  Map!Search
  <2>1. /\ Records' = Records
        /\ SearchFinds => out' \in Records /\ KeyOf(out') = arg
        /\ SearchMisses => ~Has(arg)
    BY <1>10, AnswerPlaced
  <2>2. CASE SearchFinds
    <3>1. pc = "search" /\ Return("MDB_NO_ERROR")
      BY <2>2 DEF SearchFinds
    <3>2. out' \in Map!With(arg)
      BY <1>4, <2>1, <2>2
    <3>3. QED
      BY <1>1, <1>2, <2>1, <3>1, <3>2
      DEF Map!Search, Map!Return, Return, op, store
  <2>3. CASE SearchMisses
    <3>1. pc = "search" /\ Return("MDB_BTREE_KEY_NOT_FOUND") /\ out' = out
      BY <2>3 DEF SearchMisses
    <3>2. QED
      BY <1>1, <1>2, <1>3, <2>1, <2>3, <3>1
      DEF Map!Search, Map!Return, Return, op, store
  <2>4. QED
    BY <1>10, <2>2, <2>3
<1>11. ASSUME UNCHANGED vars
       PROVE  UNCHANGED Map!vars
  <2>1. UNCHANGED tree /\ UNCHANGED <<pc, arg, rec, ret, out>>
    BY <1>11 DEF vars, call, result
  <2>2. Records' = Records
    BY <2>1, SameRanges
  <2>3. QED
    BY <1>1, <1>2, <2>1, <2>2 DEF Map!vars, op, store
<1>12. CASE GrowNext
  BY <1>5, <1>6, <1>7, <1>8, <1>9, <1>10, <1>12
  DEF GrowNext, InsertStep, SearchStep, Map!Next
<1>13. QED
  BY <1>11, <1>12

(* A tree that only grows is the set of records with distinct keys that
   mdb.h promises: an insertion adds its record once and only if its key is
   not there, a search finds the record of its key if there is one, and the
   error code tells which it was. *)
THEOREM GrownIsMap ==
  KeysOrdered /\ GrowSpec => ImplementsMap
<1>1. Init => GrowInv
  BY GrowInit
<1>2. Init => Map!Init
  <2> SUFFICES ASSUME Init
               PROVE  Map!Init
    OBVIOUS
  <2>1. RecordsBelow(root) = {}
    BY GrowInit, MapState
  <2>2. QED
    BY <2>1 DEF Init, Map!Init
<1>3. CASE KeysOrdered
  <2>1. GrowInv /\ [GrowNext]_vars => GrowInv' /\ [Map!Next]_(Map!vars)
    BY <1>3, GrowStep, GrowStepMap
  <2>2. QED
    BY <1>1, <1>2, <2>1, PTL DEF GrowSpec, ImplementsMap, Map!Spec
<1>4. CASE ~KeysOrdered
  BY <1>4
<1>5. QED
  BY <1>3, <1>4

-----------------------------------------------------------------------------
(* Keys that compare equal are equal. *)
KeysDistinct == \A j, k \in Key : Cmp(j, k) = 0 => j = k

(* An insertion looks for the key of its call and has met no error yet. *)
Inserting ==
  IInv /\ Rooted /\ (pc = "insert" => key = arg /\ ret = "MDB_NO_ERROR")

(* Every step keeps that, deletions included, *)
LEMMA InsertingStep ==
  ASSUME Inserting, [Next]_vars
  PROVE  Inserting'
<1>1. CASE Next
  <2>1. IInv' /\ Rooted'
    BY <1>1, NextInv, NextKept DEF Inserting, Kept
  <2>2. pc' = "insert" => key' = arg' /\ ret' = "MDB_NO_ERROR"
    <3>1. CASE InsertCall
      BY <3>1 DEF InsertCall, Insert, InsertSplitRoot, Enter
    <3>2. CASE SearchCall \/ DeleteCall
      BY <3>2 DEF Inserting, SearchCall, Search, DeleteCall, Delete,
                  DeleteFromEmpty, DeleteShrinksRoot, Enter, call
    <3>3. CASE InsertStep
      BY <3>3 DEF Inserting, InsertStep, InsertCollides, InsertIntoLeaf,
                  InsertDescends, InsertSplitsChild, Recurse, Return, result
    <3>4. CASE SearchStep
      BY <3>4 DEF SearchStep, SearchFinds, SearchMisses, SearchDescends,
                  Recurse, Return
    <3>5. CASE DeleteStep
      <4>1. pc = "delete" /\ (pc' = pc \/ pc' = "idle")
        BY <3>5
        DEF DeleteStep, DeleteFromLeaf, DeleteMisses, DeleteByPredecessor,
            DeleteBySuccessor, DeleteByMerge, DeleteDescends,
            DeleteBorrowsLeft, DeleteBorrowsRight, DeleteMergesLeft,
            DeleteMergesRight, Below, Recurse, Return
      <4>2. QED
        BY <4>1
    <3>6. QED
      BY <1>1, <3>1, <3>2, <3>3, <3>4, <3>5 DEF Next, Step
  <2>3. QED
    BY <2>1, <2>2 DEF Inserting
<1>2. CASE UNCHANGED vars
  <2>1. UNCHANGED tree /\ pc' = pc /\ arg' = arg /\ key' = key /\ ret' = ret
    BY <1>2 DEF vars, call, result
  <2>2. IInv'
    BY <1>2, NextInv DEF Inserting
  <2>3. Rooted'
    BY <2>1, Here, TreeKept DEF Inserting, Kept
  <2>4. QED
    BY <2>1, <2>2, <2>3 DEF Inserting
<1>3. QED
  BY <1>1, <1>2

(* and a collision is with a record of the tree. *)
LEMMA CollisionStep ==
  ASSUME KeysDistinct, Inserting, Next,
         ret' = "MDB_BTREE_KEY_COLLISION", pc = "insert"
  PROVE  \E r \in RecordsBelow(root) : KeyOf(r) = arg
<1>1. /\ Tree /\ Rooted /\ at \in Live /\ key \in Key /\ key = arg
      /\ disk[at] \in Node /\ Count(disk[at]) \in Nat
  BY Here DEF Inserting
<1>2. ASSUME NEW q \in Live, NEW i \in 1 .. Count(disk[q]),
             Cmp(key, KeyOf(disk[q].recs[i])) = 0
      PROVE  \E r \in RecordsBelow(root) : KeyOf(r) = arg
  <2>1. disk[q].recs[i] \in Records /\ disk[q].recs[i] \in Record
    BY <1>1, RecordsInPages
  <2>2. KeyOf(disk[q].recs[i]) = key
    BY <1>1, <1>2, <2>1, KeyAssumption DEF KeysDistinct
  <2>3. QED
    BY <1>1, <2>1, <2>2, RecordsAreBelow
<1>3. InsertCollides \/ InsertSplitsChild
  BY DEF Inserting, Next, Step, InsertCall, Insert, InsertSplitRoot, SearchCall,
         Search, DeleteCall, Delete, DeleteFromEmpty, DeleteShrinksRoot, Enter,
         InsertStep, InsertIntoLeaf, InsertDescends,
         SearchStep, SearchFinds, SearchMisses,
         SearchDescends, DeleteStep, DeleteFromLeaf, DeleteMisses,
         DeleteByPredecessor, DeleteBySuccessor, DeleteByMerge, DeleteDescends,
         DeleteBorrowsLeft, DeleteBorrowsRight, DeleteMergesLeft,
         DeleteMergesRight, Below, Recurse, Return, result
<1>4. CASE InsertCollides
  <2>1. PICK i \in 1 .. Count(disk[at]) : Hits(disk[at], key, i)
    BY <1>4 DEF InsertCollides
  <2>2. QED
    BY <1>1, <1>2, <2>1 DEF Hits
<1>5. CASE InsertSplitsChild
  <2>1. PICK i \in 1 .. Count(disk[at]) + 1 :
          LET c == disk[at].kids[i]
          IN  /\ Full(disk[c])
              /\ Cmp(key, KeyOf(disk[c].recs[Order])) = 0
    BY <1>5 DEF Inserting, InsertSplitsChild, Recurse, result, Median
  <2>2. i \in 1 .. Len(disk[at].kids)
    BY <1>1, <1>5, RecordsOf DEF InsertSplitsChild
  <2>3. disk[at].kids[i] \in Live
    BY <1>1, <2>2, KidFacts
  <2>4. Order \in 1 .. Count(disk[disk[at].kids[i]])
    BY <2>1, OrderAssumption DEF Full, MaxCount
  <2>5. QED
    BY <1>2, <2>1, <2>3, <2>4
<1>6. QED
  BY <1>3, <1>4, <1>5

(* An insertion is told that its key exists only when some record of the tree
   has that very key, after any sequence of insertions, searches and
   deletions. *)
THEOREM CollisionIsReal ==
  KeysDistinct /\ Spec => CollisionMeansExists
<1>1. Init => Inserting
  BY GrowInit DEF Inserting, GrowInv, Init
<1>2. Inserting /\ [Next]_vars => Inserting'
  BY InsertingStep
<1>3. CASE KeysDistinct
  <2>1. Inserting /\ [Next]_vars =>
          [ret' = "MDB_BTREE_KEY_COLLISION" /\ pc = "insert" =>
             \E r \in RecordsBelow(root) : KeyOf(r) = arg]_vars
    BY <1>3, CollisionStep
  <2>2. QED
    BY <1>1, <1>2, <2>1, PTL DEF Spec, CollisionMeansExists
<1>4. CASE ~KeysDistinct
  BY <1>4
<1>5. QED
  BY <1>3, <1>4

-----------------------------------------------------------------------------
(* The list of traversal entries. *)
Entries == [page : Page, position : Nat]

(* A list of them is a path downwards. *)
Path(path) ==
  /\ path \in Seq([page : Page, position : Nat])
  /\ \A d \in 1 .. Len(path) :
       /\ path[d].page \in Live
       /\ path[d].position <= Count(disk[path[d].page])
       /\ d < Len(path) =>
            /\ ~disk[path[d].page].leaf
            /\ path[d + 1].page = Child(path[d])

(* The entries of a path are pages and places in them. *)
LEMMA PathFacts ==
  ASSUME NEW path, Path(path)
  PROVE  /\ path \in Seq(Entries) /\ Len(path) \in Nat
         /\ DOMAIN path = 1 .. Len(path)
         /\ \A d \in 1 .. Len(path) :
              /\ path[d] \in Entries /\ path[d].page \in Page
              /\ path[d].position \in Nat
         /\ path # <<>> => /\ Len(path) \in 1 .. Len(path) /\ 1 \in 1 .. Len(path)
                           /\ Last(path) = path[Len(path)]
<1>1. path \in Seq(Entries)
  BY DEF Path, Entries
<1>2. Len(path) \in Nat /\ DOMAIN path = 1 .. Len(path)
  BY <1>1, LenProperties
<1>3. ASSUME NEW d \in 1 .. Len(path)
      PROVE  /\ path[d] \in Entries /\ path[d].page \in Page
             /\ path[d].position \in Nat
  <2>1. path[d] \in Entries
    BY <1>1, ElementOfSeq
  <2>2. QED
    BY <2>1 DEF Entries
<1>4. ASSUME path # <<>>
      PROVE  /\ Len(path) \in 1 .. Len(path) /\ 1 \in 1 .. Len(path)
             /\ Last(path) = path[Len(path)]
  <2>1. Len(path) # 0
    BY <1>1, <1>4, EmptySeq
  <2>2. QED
    BY <1>2, <2>1 DEF Last
<1>5. QED
  BY <1>1, <1>2, <1>3, <1>4

(* An entry whose page has children can be followed by the child it is at. *)
LEMMA PathGrows ==
  ASSUME Tree, NEW path, Path(path), path # <<>>,
         ~disk[Last(path).page].leaf
  PROVE  /\ Path(Append(path, Entry(Child(Last(path)))))
         /\ Append(path, Entry(Child(Last(path)))) # <<>>
         /\ Append(path, Entry(Child(Last(path))))[1] = path[1]
         /\ height[Last(Append(path, Entry(Child(Last(path))))).page]
              = height[Last(path).page] - 1
<1> DEFINE n == Len(path)
           e == path[n]
           k == disk[e.page].kids[e.position + 1]
           new == [page |-> k, position |-> 0]
           more == Append(path, new)
<1>1. /\ path \in Seq(Entries) /\ n \in Nat /\ n \in 1 .. n /\ 1 \in 1 .. n
      /\ Last(path) = e /\ e.position \in Nat
  BY PathFacts
<1>2. /\ e.page \in Live /\ e.position <= Count(disk[e.page])
      /\ ~disk[e.page].leaf
  BY <1>1 DEF Path
<1>3. e.position + 1 \in 1 .. Len(disk[e.page].kids)
  <2>1. /\ Len(disk[e.page].kids) = Count(disk[e.page]) + 1
        /\ Count(disk[e.page]) \in Nat
    BY <1>2, PageFacts DEF WellFormed
  <2>2. QED
    BY <1>1, <1>2, <2>1
<1>4. k \in Live /\ k \in Page /\ height[k] = height[e.page] - 1
  BY <1>2, <1>3, KidFacts, PageFacts
<1>5. Entry(Child(Last(path))) = new /\ Child(e) = k
  BY <1>1 DEF Entry, Child, NodeOf
<1>6. Count(disk[k]) \in Nat
  BY <1>4, PageFacts
<1> HIDE DEF k
<1>7. new \in Entries /\ new.page = k /\ new.position = 0
  BY <1>4 DEF Entries
<1> HIDE DEF new
<1>8. /\ more \in Seq(Entries) /\ Len(more) = n + 1
      /\ \A d \in 1 .. n : more[d] = path[d]
      /\ more[n + 1] = new
  BY <1>1, <1>7
<1>9. more # <<>> /\ Last(more) = new
  BY <1>1, <1>8 DEF Last
<1> HIDE DEF more, n
<1>10. Path(more)
  <2>1. ASSUME NEW d \in 1 .. Len(more)
        PROVE  /\ more[d].page \in Live
               /\ more[d].position <= Count(disk[more[d].page])
               /\ d < Len(more) =>
                    /\ ~disk[more[d].page].leaf
                    /\ more[d + 1].page = Child(more[d])
    <3>1. CASE d = n + 1
      BY <1>1, <1>4, <1>6, <1>7, <1>8, <3>1
    <3>2. CASE d = n
      BY <1>1, <1>2, <1>5, <1>7, <1>8, <3>2
    <3>3. CASE d # n /\ d # n + 1
      <4>1. d \in 1 .. n /\ d + 1 \in 1 .. n /\ d < n
        BY <1>1, <1>8, <3>3
      <4>2. more[d] = path[d] /\ more[d + 1] = path[d + 1]
        BY <1>8, <4>1
      <4>3. QED
        BY <4>1, <4>2 DEF Path, n
    <3>4. QED
      BY <3>1, <3>2, <3>3
  <2>2. QED
    BY <1>8, <2>1 DEF Path, Entries
<1>11. QED
  BY <1>1, <1>4, <1>5, <1>7, <1>8, <1>9, <1>10 DEF more

(* The walk to a leaf is as long as the page is high. *)
LEMMA ToLeafDefined ==
  ASSUME NEW path, height[Last(path).page] \in Nat
  PROVE  \E down :
           /\ ToLeaf(path) = down[height[Last(path).page]] /\ down[0] = path
           /\ \A d \in 1 .. height[Last(path).page] :
                down[d] = Append(down[d - 1], Entry(Child(Last(down[d - 1]))))
<1> DEFINE h == height[Last(path).page]
           More(x) == Append(x, Entry(Child(Last(x))))
           Solves(n, g) ==
             g = [d \in 0 .. n |-> IF d = 0 THEN path ELSE More(g[d - 1])]
           S == {n \in 0 .. h : \E g : Solves(n, g)}
<1> HIDE DEF More
<1>1. Solves(0, [d \in 0 .. 0 |-> path])
  OBVIOUS
<1>2. ASSUME NEW n \in 0 .. h - 1, NEW g, Solves(n, g)
      PROVE  \E f : Solves(n + 1, f)
  <2> DEFINE f == [d \in 0 .. n + 1 |-> IF d = n + 1 THEN More(g[n]) ELSE g[d]]
             e == [d \in 0 .. n + 1 |-> IF d = 0 THEN path ELSE More(f[d - 1])]
  <2>1. \A d \in 0 .. n : g[d] = IF d = 0 THEN path ELSE More(g[d - 1])
    BY <1>2
  <2>2. ASSUME NEW d \in 0 .. n + 1
        PROVE  f[d] = e[d]
    <3>1. CASE d = n + 1
      BY <3>1
    <3>2. CASE d = 0
      BY <2>1, <3>2
    <3>3. CASE d # n + 1 /\ d # 0
      <4>1. f[d] = g[d] /\ f[d - 1] = g[d - 1] /\ d \in 0 .. n
        BY <3>3
      <4>2. QED
        BY <2>1, <3>3, <4>1
    <3>4. QED
      BY <3>1, <3>2, <3>3
  <2>3. f = e
    BY <2>2
  <2>4. QED
    BY <2>3
<1> HIDE DEF Solves
<1>3. 0 \in S
  BY <1>1
<1>4. \A n \in 0 .. h - 1 : n \in S => n + 1 \in S
  BY <1>2
<1>5. h \in S
  <2> HIDE DEF S
  <2>1. QED
    BY <1>3, <1>4, SetInduction
<1>6. PICK g : Solves(h, g)
  BY <1>5
<1> DEFINE down == CHOOSE f : f = [d \in 0 .. height[Last(path).page] |->
                                    IF d = 0 THEN path ELSE More(f[d - 1])]
<1>7. ToLeaf(path) = down[h]
  BY DEF ToLeaf, More
<1>8. down = [d \in 0 .. h |-> IF d = 0 THEN path ELSE More(down[d - 1])]
  BY <1>6 DEF Solves
<1> HIDE DEF down
<1>9. down[0] = path /\ \A d \in 1 .. h : down[d] = More(down[d - 1])
  <2>1. down[0] = path
    BY <1>8
  <2>2. ASSUME NEW d \in 1 .. h
        PROVE  down[d] = More(down[d - 1])
    <3>1. d \in 0 .. h /\ d # 0
      OBVIOUS
    <3>2. QED
      BY <1>8, <3>1
  <2>3. QED
    BY <2>1, <2>2
<1>10. QED
  BY <1>7, <1>9 DEF More

(* The descent to a leaf lengthens a path. *)
LEMMA ToLeafIsPath ==
  ASSUME Tree, NEW path, Path(path), path # <<>>
  PROVE  /\ Path(ToLeaf(path)) /\ ToLeaf(path) # <<>>
         /\ ToLeaf(path)[1] = path[1]
<1> DEFINE h == height[Last(path).page]
<1>1. h \in Nat /\ h = height[Last(path).page]
  <2>1. Last(path).page \in Live
    BY PathFacts DEF Path
  <2>2. QED
    BY <2>1, PageFacts
<1>2. PICK down :
        /\ ToLeaf(path) = down[h] /\ down[0] = path
        /\ \A d \in 1 .. h :
             down[d] = Append(down[d - 1], Entry(Child(Last(down[d - 1]))))
  BY <1>1, ToLeafDefined
<1> DEFINE Good(x, d) == /\ Path(x) /\ x # <<>> /\ x[1] = path[1]
                         /\ height[Last(x).page] = h - d
           S == {d \in 0 .. h : Good(down[d], d)}
<1>3. 0 \in S
  BY <1>1, <1>2
<1> HIDE DEF h
<1>4. ASSUME NEW d \in 0 .. h - 1, d \in S
      PROVE  d + 1 \in S
  <2> DEFINE x == down[d]
  <2>1. Path(x) /\ x # <<>> /\ x[1] = path[1] /\ height[Last(x).page] = h - d
    BY <1>4
  <2>2. d + 1 \in 1 .. h /\ d + 1 \in 0 .. h /\ (d + 1) - 1 = d
    BY <1>1
  <2>3. down[d + 1] = Append(x, Entry(Child(Last(x))))
    BY <1>2, <2>2
  <2> HIDE DEF x
  <2>4. ~disk[Last(x).page].leaf
    <3>1. Last(x).page \in Live
      BY <2>1, PathFacts DEF Path
    <3>2. height[Last(x).page] # 0
      BY <1>1, <2>1
    <3>3. QED
      BY <3>1, <3>2 DEF Tree, ChildrenBelow
  <2>5. /\ Path(down[d + 1]) /\ down[d + 1] # <<>> /\ down[d + 1][1] = path[1]
        /\ height[Last(down[d + 1]).page] = (h - d) - 1
    BY <2>1, <2>3, <2>4, PathGrows
  <2>6. (h - d) - 1 = h - (d + 1)
    BY <1>1
  <2>7. QED
    BY <2>2, <2>5, <2>6
<1>5. h \in S
  <2>1. \A d \in 0 .. h - 1 : d \in S => d + 1 \in S
    BY <1>4
  <2> HIDE DEF S
  <2>2. 0 .. h \subseteq S
    BY <1>1, <1>3, <2>1, SetInduction
  <2>3. QED
    BY <1>1, <2>2
<1>6. QED
  BY <1>2, <1>5

(* An entry counts one record further, and the list ends there. *)
LEMMA PathAdvances ==
  ASSUME Tree, NEW path, Path(path), NEW d \in 1 .. Len(path),
         ~Exhausted(path[d])
  PROVE  LET cut == Append(SubSeq(path, 1, d - 1), Advanced(path[d]))
         IN  /\ Path(cut) /\ cut # <<>>
             /\ cut[1].page = path[1].page
             /\ Last(cut) = Advanced(path[d])
             /\ Advanced(path[d]).page = path[d].page
<1> DEFINE e == path[d]
           f == [e EXCEPT !.position = @ + 1]
           kept == SubSeq(path, 1, d - 1)
           cut == Append(kept, f)
<1>1. /\ path \in Seq(Entries) /\ Len(path) \in Nat
      /\ e \in Entries /\ e.page \in Page /\ e.position \in Nat
  BY PathFacts
<1>2. /\ e.page \in Live /\ e.position <= Count(disk[e.page])
      /\ e.position # Count(disk[e.page])
  BY DEF Path, Exhausted, NodeOf
<1>3. Count(disk[e.page]) \in Nat
  BY <1>2, PageFacts
<1>4. f = Advanced(path[d])
  BY DEF Advanced
<1>5. f \in Entries /\ f.page = e.page /\ f.position = e.position + 1
  BY <1>1 DEF Entries
<1> HIDE DEF f, e
<1>6. /\ kept \in Seq(Entries) /\ Len(kept) = d - 1
      /\ \A i \in 1 .. d - 1 : kept[i] = path[i]
  BY <1>1
<1> HIDE DEF kept
<1>7. /\ cut \in Seq(Entries) /\ Len(cut) = d
      /\ \A i \in 1 .. d - 1 : cut[i] = path[i]
      /\ cut[d] = f
  BY <1>5, <1>6
<1> HIDE DEF cut
<1>8. cut # <<>> /\ Last(cut) = f
  BY <1>7, EmptySeq DEF Last
<1>9. Path(cut)
  <2>1. ASSUME NEW i \in 1 .. Len(cut)
        PROVE  /\ cut[i].page \in Live
               /\ cut[i].position <= Count(disk[cut[i].page])
               /\ i < Len(cut) =>
                    /\ ~disk[cut[i].page].leaf
                    /\ cut[i + 1].page = Child(cut[i])
    <3>1. CASE i = d
      BY <1>1, <1>2, <1>3, <1>5, <1>7, <3>1
    <3>2. CASE i # d
      <4>1. i \in 1 .. d - 1 /\ i \in 1 .. Len(path) /\ i < Len(path)
        BY <1>1, <1>7, <3>2
      <4>2. cut[i] = path[i] /\ cut[i + 1].page = path[i + 1].page
        <5>1. CASE i + 1 = d
          BY <1>5, <1>7, <4>1, <5>1 DEF e
        <5>2. CASE i + 1 # d
          <6>1. i + 1 \in 1 .. d - 1
            BY <4>1, <5>2
          <6>2. QED
            BY <1>7, <4>1, <6>1
        <5>3. QED
          BY <5>1, <5>2
      <4>3. QED
        BY <4>1, <4>2 DEF Path
    <3>3. QED
      BY <3>1, <3>2
  <2>2. QED
    BY <1>7, <2>1 DEF Path, Entries
<1>10. cut[1].page = path[1].page
  <2>1. CASE d = 1
    BY <1>5, <1>7, <2>1 DEF e
  <2>2. CASE d # 1
    <3>1. 1 \in 1 .. d - 1
      BY <2>2
    <3>2. QED
      BY <1>7, <3>1
  <2>3. QED
    BY <2>1, <2>2
<1>11. QED
  BY <1>4, <1>5, <1>8, <1>9, <1>10 DEF cut, kept, e

(* Two elements more at the end. *)
LEMMA TwoMore ==
  ASSUME NEW S, NEW a \in Seq(S), NEW x \in S, NEW y \in S
  PROVE  a \o <<x, y>> = Append(Append(a, x), y)
<1> DEFINE l == a \o <<x, y>>
           b == Append(a, x)
           r == Append(b, y)
           n == Len(a)
<1>1. n \in Nat
  BY LenProperties
<1>2. /\ <<x, y>> \in Seq(S) /\ Len(<<x, y>>) = 2
      /\ <<x, y>>[1] = x /\ <<x, y>>[2] = y
  OBVIOUS
<1>3. /\ l \in Seq(S) /\ Len(l) = n + 2
      /\ \A i \in 1 .. n + 2 :
           l[i] = IF i <= n THEN a[i] ELSE <<x, y>>[i - n]
  BY <1>1, <1>2, ConcatProperties
<1>4. /\ b \in Seq(S) /\ Len(b) = n + 1
      /\ \A i \in 1 .. n : b[i] = a[i]
      /\ b[n + 1] = x
  BY <1>1, AppendProperties
<1> HIDE DEF b
<1>5. /\ r \in Seq(S) /\ Len(r) = n + 2
      /\ \A i \in 1 .. n + 1 : r[i] = b[i]
      /\ r[n + 2] = y
  BY <1>1, <1>4, AppendProperties
<1> HIDE DEF l, r, n
<1>6. ASSUME NEW i \in 1 .. n + 2
      PROVE  l[i] = r[i]
  <2>1. CASE i = n + 2
    <3>1. i - n = 2 /\ ~ (i <= n)
      BY <1>1, <2>1
    <3>2. QED
      BY <1>2, <1>3, <1>5, <2>1, <3>1
  <2>2. CASE i = n + 1
    <3>1. i - n = 1 /\ ~ (i <= n) /\ i \in 1 .. n + 1
      BY <1>1, <2>2
    <3>2. QED
      BY <1>2, <1>3, <1>4, <1>5, <2>2, <3>1
  <2>3. CASE i # n + 1 /\ i # n + 2
    <3>1. i <= n /\ i \in 1 .. n /\ i \in 1 .. n + 1
      BY <1>1, <2>3
    <3>2. QED
      BY <1>3, <1>4, <1>5, <3>1
  <2>4. QED
    BY <2>1, <2>2, <2>3
<1>7. l = r
  BY <1>3, <1>5, <1>6, SeqEqual
<1>8. QED
  BY <1>7 DEF l, r, b

(* A scan's next record. *)
LEMMA NextRecordPath ==
  ASSUME Tree, Path(cursor), cursor # <<>> => cursor[1].page = root,
         NextRecord
  PROVE  /\ Path(cursor') /\ cursor' # <<>> /\ cursor'[1].page = root
<1> DEFINE start == IF cursor = <<>> THEN <<Entry(root)>> ELSE cursor
           path == ToLeaf(start)
<1>1. /\ FromLeaf(path) \/ FromAbove(path) \/ NoMoreRecords(path)
  BY DEF NextRecord
<1>2. Path(start) /\ start # <<>> /\ start[1].page = root
  <2>1. CASE cursor # <<>>
    BY <2>1
  <2>2. CASE cursor = <<>>
    <3> DEFINE e == Entry(root)
    <3>1. /\ root \in Live /\ root \in Page /\ Count(disk[root]) \in Nat
      BY PageFacts DEF Tree
    <3>2. e \in Entries /\ e.page = root /\ e.position = 0
      BY <3>1 DEF Entries, Entry
    <3> HIDE DEF e
    <3>3. /\ <<e>> \in Seq(Entries) /\ Len(<<e>>) = 1 /\ <<e>>[1] = e
          /\ \A i \in 1 .. 1 : i = 1
      BY <3>2
    <3>4. Path(<<e>>)
      BY <3>1, <3>2, <3>3 DEF Path, Entries
    <3>5. QED
      BY <2>2, <3>2, <3>3, <3>4, EmptySeq DEF e
  <2>3. QED
    BY <2>1, <2>2
<1> HIDE DEF start
<1>3. Path(path) /\ path # <<>> /\ path[1].page = root
  BY <1>2, ToLeafIsPath
<1> HIDE DEF path
<1>4. /\ path \in Seq(Entries) /\ Len(path) \in 1 .. Len(path)
      /\ 1 \in 1 .. Len(path) /\ Last(path) = path[Len(path)]
      /\ Len(path) \in Nat
  BY <1>3, PathFacts
<1>5. CASE FromLeaf(path)
  <2> DEFINE d == Len(path)
             cut == Append(SubSeq(path, 1, d - 1), Advanced(path[d]))
  <2>1. cursor' = Append(Front(path), Advanced(path[d])) /\ ~Exhausted(path[d])
    BY <1>4, <1>5 DEF FromLeaf
  <2>2. Front(path) = SubSeq(path, 1, d - 1)
    BY DEF Front
  <2>3. cursor' = cut
    BY <2>1, <2>2
  <2>4. Path(cut) /\ cut # <<>> /\ cut[1].page = path[1].page
    BY <1>3, <1>4, <2>1, PathAdvances
  <2>5. QED
    BY <1>3, <2>3, <2>4
<1>6. CASE FromAbove(path)
  <2>1. PICK d \in 1 .. Len(path) - 1 :
          /\ ~Exhausted(path[d])
          /\ cursor' = SubSeq(path, 1, d - 1)
                         \o <<Advanced(path[d]), Entry(Child(Advanced(path[d])))>>
    BY <1>6 DEF FromAbove
  <2> DEFINE next == Advanced(path[d])
             kept == SubSeq(path, 1, d - 1)
             cut == Append(kept, next)
             k == Entry(Child(Last(cut)))
  <2>2. d \in 1 .. Len(path) /\ d < Len(path)
    BY <1>4, <2>1
  <2>3. /\ Path(cut) /\ cut # <<>> /\ cut[1].page = path[1].page
        /\ Last(cut) = next /\ next.page = path[d].page
    BY <1>3, <2>1, <2>2, PathAdvances
  <2>4. ~disk[Last(cut).page].leaf
    BY <1>3, <2>2, <2>3 DEF Path
  <2>5. kept \in Seq(Entries)
    BY <1>4, <2>2
  <2>6. cursor' = kept \o <<next, k>>
    BY <2>1, <2>3
  <2>7. /\ Path(Append(cut, k)) /\ Append(cut, k) # <<>>
        /\ Append(cut, k)[1] = cut[1]
    BY <2>3, <2>4, PathGrows
  <2>8. next \in Entries /\ k \in Entries
    <3>1. cut \in Seq(Entries) /\ Append(cut, k) \in Seq(Entries)
      BY <2>3, <2>7, PathFacts
    <3>2. /\ Len(cut) \in 1 .. Len(cut) /\ Last(cut) = cut[Len(cut)]
          /\ Last(Append(cut, k)) = Append(cut, k)[Len(Append(cut, k))]
          /\ Len(Append(cut, k)) \in 1 .. Len(Append(cut, k))
      BY <2>3, <2>7, PathFacts
    <3>3. next \in Entries
      BY <2>3, <3>1, <3>2, ElementOfSeq
    <3>4. k = Append(cut, k)[Len(Append(cut, k))]
      <4> HIDE DEF cut, k
      <4>1. /\ Len(Append(cut, k)) = Len(cut) + 1
            /\ Append(cut, k)[Len(cut) + 1] = k
        BY <3>1
      <4>2. QED
        BY <4>1
    <3>5. k \in Entries
      BY <3>1, <3>2, <3>4, ElementOfSeq
    <3>6. QED
      BY <3>3, <3>5
  <2> HIDE DEF next, k, kept
  <2>9. cursor' = Append(cut, k)
    BY <2>5, <2>6, <2>8, TwoMore
  <2> HIDE DEF cut
  <2>10. QED
    BY <1>3, <2>3, <2>7, <2>9
<1>7. CASE NoMoreRecords(path)
  <2> DEFINE e == path[1]
  <2>1. cursor' = <<e>>
    BY <1>4, <1>7 DEF NoMoreRecords
  <2>2. /\ e \in Entries /\ e.page \in Live
        /\ e.position <= Count(disk[e.page])
    BY <1>3, <1>4, PathFacts DEF Path
  <2> HIDE DEF e
  <2>3. /\ <<e>> \in Seq(Entries) /\ Len(<<e>>) = 1 /\ <<e>>[1] = e
        /\ \A i \in 1 .. 1 : i = 1
    BY <2>2
  <2>4. Path(<<e>>) /\ <<e>> # <<>>
    BY <2>2, <2>3, EmptySeq DEF Path, Entries
  <2>5. QED
    BY <1>3, <2>1, <2>3, <2>4 DEF e
<1>8. QED
  BY <1>1, <1>5, <1>6, <1>7

-----------------------------------------------------------------------------
(* The key is still to come when r was returned last. *)
ToCome(r, k) == r # None => Less(KeyOf(r), k)

(* A list is at its record: those before its positions have been returned,
   those after them not, and below its last entry either none has or there
   is nothing. *)
Between(path, r) ==
  \A d \in 1 .. Len(path) :
    LET e == path[d]
    IN  /\ e.position > 0 => ~ToCome(r, KeyOf(NodeOf(e).recs[e.position]))
        /\ ~Exhausted(e) => ToCome(r, KeyOf(RecordAt(e)))

(* A node of the path that no record has been returned from yet. *)
Fresh(e, r, range) ==
  e.position = 0 /\ \A k \in range[e.page] : ToCome(r, k)

(* Where the path leads: to the record after the one returned last. *)
Due(path, r, range) ==
  /\ Between(path, r)
  /\ path # <<>> => Fresh(Last(path), r, range) \/ NodeOf(Last(path)).leaf

(* What comes after a key to come is to come. *)
LEMMA ComesLater ==
  ASSUME KeysOrdered, NEW r \in Record \cup {None}, NEW j \in Key,
         NEW k \in Key,
         ToCome(r, j), j = k \/ Less(j, k)
  PROVE  ToCome(r, k)
<1>1. CASE r = None
  BY <1>1 DEF ToCome
<1>2. CASE r # None
  <2>1. KeyOf(r) \in Key /\ Less(KeyOf(r), j)
    BY <1>2, KeyAssumption DEF ToCome
  <2>2. Less(KeyOf(r), k)
    BY <2>1, Total
  <2>3. QED
    BY <2>2 DEF ToCome
<1>3. QED
  BY <1>1, <1>2

(* What the entries of a path name. *)
LEMMA EntryFacts ==
  ASSUME Tree, NEW range, Ranges(range), NEW path, Path(path),
         NEW d \in 1 .. Len(path)
  PROVE  LET e == path[d]
             n == NodeOf(e)
         IN  /\ e \in Entries /\ e.page \in Live /\ e.position \in 0 .. Count(n)
             /\ n = disk[e.page] /\ n.recs \in Seq(Record)
             /\ Len(n.recs) = Count(n) /\ Count(n) \in Nat
             /\ ~n.leaf => Len(n.kids) = Count(n) + 1
             /\ Fits(n.recs, range[e.page]) /\ range[e.page] \subseteq Key
             /\ \A i \in 1 .. Len(n.kids) :
                  range[n.kids[i]] = range[e.page] \cap Gap(n.recs, i)
             /\ \A i \in 1 .. Count(n) :
                  /\ n.recs[i] \in Record /\ KeyOf(n.recs[i]) \in Key
                  /\ n.recs[i] \in Records
                  /\ KeyOf(n.recs[i]) \in range[e.page]
             /\ ~Exhausted(e) => /\ e.position + 1 \in 1 .. Count(n)
                                 /\ RecordAt(e) = n.recs[e.position + 1]
<1> DEFINE e == path[d]
           n == disk[e.page]
<1>1. /\ e \in Entries /\ e.page \in Live /\ e.position \in Nat
      /\ e.position <= Count(n)
  BY PathFacts DEF Path
<1>2. NodeOf(e) = n
  BY DEF NodeOf
<1> HIDE DEF e
<1>3. /\ n.recs \in Seq(Record) /\ Len(n.recs) = Count(n) /\ Count(n) \in Nat
      /\ ~n.leaf => Len(n.kids) = Count(n) + 1
  BY <1>1, RecordsOf, PageFacts
<1>4. /\ Fits(n.recs, range[e.page]) /\ range[e.page] \subseteq Key
      /\ \A i \in 1 .. Len(n.kids) :
           range[n.kids[i]] = range[e.page] \cap Gap(n.recs, i)
  BY <1>1 DEF Ranges, Ranged
<1>5. \A i \in 1 .. Count(n) :
        /\ n.recs[i] \in Record /\ KeyOf(n.recs[i]) \in Key
        /\ n.recs[i] \in Records /\ KeyOf(n.recs[i]) \in range[e.page]
  BY <1>1, <1>3, <1>4, KeysOf, RecordsInPages DEF Fits
<1>6. ~Exhausted(e) => /\ e.position + 1 \in 1 .. Count(n)
                       /\ RecordAt(e) = n.recs[e.position + 1]
  BY <1>1, <1>2, <1>3 DEF Exhausted, RecordAt
<1>7. e.position \in 0 .. Count(n)
  BY <1>1, <1>3
<1> HIDE DEF n
<1>8. QED
  BY <1>1, <1>2, <1>3, <1>4, <1>5, <1>6, <1>7 DEF e, n

(* An entry's child has the keys between the records on both sides of it. *)
LEMMA ChildRange ==
  ASSUME Tree, NEW range, Ranges(range), NEW path, Path(path),
         NEW d \in 1 .. Len(path) - 1
  PROVE  range[path[d + 1].page]
           = range[path[d].page]
               \cap Gap(NodeOf(path[d]).recs, path[d].position + 1)
<1> DEFINE e == path[d]
           n == disk[e.page]
<1>1. /\ d \in 1 .. Len(path) /\ d < Len(path)
      /\ e.page \in Live /\ e.position \in Nat /\ e.position <= Count(n)
  <2>1. d \in 1 .. Len(path) /\ d < Len(path)
    BY PathFacts
  <2>2. QED
    BY <2>1, PathFacts DEF Path
<1>2. ~n.leaf /\ path[d + 1].page = Child(e)
  BY <1>1 DEF Path
<1>3. NodeOf(e) = n /\ Child(e) = n.kids[e.position + 1]
  BY DEF Child, NodeOf
<1> HIDE DEF e
<1>4. /\ Count(n) \in Nat /\ Len(n.kids) = Count(n) + 1
      /\ \A i \in 1 .. Len(n.kids) :
           range[n.kids[i]] = range[e.page] \cap Gap(n.recs, i)
  BY <1>1, <1>2, RecordsOf, PageFacts DEF Ranges, Ranged
<1> HIDE DEF n
<1>5. e.position + 1 \in 1 .. Len(n.kids)
  BY <1>1, <1>4
<1>6. range[path[d + 1].page] = range[e.page] \cap Gap(n.recs, e.position + 1)
  BY <1>2, <1>3, <1>4, <1>5
<1>7. QED
  BY <1>3, <1>6 DEF e

(* Further down a path are only keys between the records on both sides of the
   child it leads to. *)
LEMMA PathNarrows ==
  ASSUME Tree, NEW range, Ranges(range), NEW path, Path(path),
         NEW d \in 1 .. Len(path), NEW e \in d + 1 .. Len(path)
  PROVE  range[path[e].page] \subseteq
           range[path[d].page]
             \cap Gap(NodeOf(path[d]).recs, path[d].position + 1)
<1> DEFINE W == range[path[d].page]
                  \cap Gap(NodeOf(path[d]).recs, path[d].position + 1)
           h == Len(path) - (d + 1)
           S == {i \in 0 .. h : range[path[d + 1 + i].page] \subseteq W}
<1>0. Tree /\ Ranges(range) /\ Path(path)
  OBVIOUS
<1>1. Len(path) \in Nat /\ h \in Nat /\ e - (d + 1) \in 0 .. h
  <2>1. Len(path) \in Nat
    BY PathFacts
  <2>2. QED
    BY <2>1
<1> HIDE DEF W, h, S
<1>2. ASSUME NEW i \in 1 .. Len(path) - 1
      PROVE  range[path[i + 1].page]
               = range[path[i].page]
                   \cap Gap(NodeOf(path[i]).recs, path[i].position + 1)
  BY ONLY <1>0, <1>1, ChildRange
<1> USE DEF W, h, S
<1>3. 0 \in S
  <2>1. d \in 1 .. Len(path) - 1 /\ d + 1 + 0 = d + 1 /\ 0 \in 0 .. h
    BY <1>1
  <2>2. QED
    BY <1>2, <2>1
<1>4. ASSUME NEW i \in 0 .. h - 1, i \in S
      PROVE  i + 1 \in S
  <2>1. /\ d + 1 + i \in 1 .. Len(path) - 1 /\ i + 1 \in 0 .. h
        /\ (d + 1 + i) + 1 = d + 1 + (i + 1)
    BY <1>1
  <2>2. range[path[d + 1 + (i + 1)].page] \subseteq range[path[d + 1 + i].page]
    BY <1>2, <2>1
  <2>3. QED
    BY <1>4, <2>1, <2>2
<1>5. 0 .. h \subseteq S
  <2> HIDE DEF S, h
  <2>1. QED
    BY <1>1, <1>3, <1>4, SetInduction
<1>6. e - (d + 1) \in S /\ d + 1 + (e - (d + 1)) = e
  <2> HIDE DEF S, h
  <2>1. QED
    BY <1>1, <1>5
<1>7. QED
  BY <1>6

(* An entry more, below which all is still to come. *)
LEMMA DueAppends ==
  ASSUME Tree, NEW range, Ranges(range), NEW r, NEW path, Path(path),
         NEW new, Path(Append(path, new)), Between(path, r), Fresh(new, r,
         range)
  PROVE  Due(Append(path, new), r, range)
<1> DEFINE n == Len(path)
           more == Append(path, new)
<1>0. Tree /\ Ranges(range) /\ Path(path) /\ Path(more)
  OBVIOUS
<1>1. path \in Seq(Entries) /\ n \in Nat
  BY ONLY <1>0, PathFacts
<1>2. /\ Len(more) = n + 1 /\ \A d \in 1 .. n : more[d] = path[d]
      /\ more[n + 1] = new /\ Last(more) = new
  BY <1>1 DEF Last
<1> HIDE DEF more, n
<1>3. Between(more, r)
  <2> SUFFICES ASSUME NEW d \in 1 .. Len(more)
               PROVE  LET f == more[d]
                      IN  /\ f.position > 0 =>
                               ~ToCome(r, KeyOf(NodeOf(f).recs[f.position]))
                          /\ ~Exhausted(f) => ToCome(r, KeyOf(RecordAt(f)))
    BY DEF Between
  <2>1. CASE d \in 1 .. n
    BY <1>2, <2>1 DEF Between, n
  <2>2. CASE d = n + 1
    <3>1. more[d] = new
      BY <1>2, <2>2
    <3>2. /\ ~Exhausted(new) => /\ new.position + 1 \in 1 .. Count(NodeOf(new))
                                /\ RecordAt(new) = NodeOf(new).recs[new.position + 1]
          /\ \A i \in 1 .. Count(NodeOf(new)) :
               KeyOf(NodeOf(new).recs[i]) \in range[new.page]
      BY ONLY <1>0, d \in 1 .. Len(more), <3>1, EntryFacts
    <3>3. ~Exhausted(new) => KeyOf(RecordAt(new)) \in range[new.page]
      BY <3>2
    <3>4. QED
      BY <3>1, <3>3 DEF Fresh
  <2>3. QED
    BY <1>1, <1>2, <2>1, <2>2
<1>4. Due(more, r, range)
  BY <1>2, <1>3 DEF Due
<1>5. QED
  BY <1>4 DEF more

(* The descent to a leaf leaves a scan where it is. *)
LEMMA DueGrows ==
  ASSUME Tree, NEW range, Ranges(range), NEW r,
         NEW path, Path(path), path # <<>>, Due(path, r, range),
         ~disk[Last(path).page].leaf
  PROVE  Due(Append(path, Entry(Child(Last(path)))), r, range)
<1> DEFINE e == Last(path)
           new == Entry(Child(e))
<1>0. Tree /\ Ranges(range) /\ Path(path) /\ path # <<>> /\ ~disk[e.page].leaf
  OBVIOUS
<1>1. Len(path) \in 1 .. Len(path) /\ e = path[Len(path)]
  BY ONLY <1>0, PathFacts
<1>2. /\ NodeOf(e) = disk[e.page] /\ Count(NodeOf(e)) \in Nat
      /\ Len(NodeOf(e).kids) = Count(NodeOf(e)) + 1
      /\ \A i \in 1 .. Len(NodeOf(e).kids) :
           range[NodeOf(e).kids[i]] = range[e.page] \cap Gap(NodeOf(e).recs, i)
  BY ONLY <1>0, <1>1, EntryFacts
<1>3. Fresh(e, r, range)
  BY <1>2 DEF Due
<1>4. Path(Append(path, new))
  BY ONLY <1>0, PathGrows
<1>5. Fresh(new, r, range)
  <2>1. e.position = 0
    BY <1>3 DEF Fresh
  <2>2. Child(e) = NodeOf(e).kids[1] /\ 1 \in 1 .. Len(NodeOf(e).kids)
    BY <1>2, <2>1 DEF Child
  <2>3. new.position = 0 /\ new.page = Child(e)
    BY DEF Entry
  <2>4. QED
    BY <1>2, <1>3, <2>2, <2>3 DEF Fresh
<1> HIDE DEF new, e
<1>6. Due(Append(path, new), r, range)
  BY <1>4, <1>5, DueAppends DEF Due
<1>7. QED
  BY <1>6 DEF new, e

(* The way down to a leaf leads there too, *)
LEMMA DueToLeaf ==
  ASSUME KeysOrdered, Tree, NEW range, Ranges(range),
         NEW r \in Record \cup {None},
         NEW path, Path(path), path # <<>>, Due(path, r, range)
  PROVE  /\ Due(ToLeaf(path), r, range)
         /\ disk[Last(ToLeaf(path)).page].leaf
<1> DEFINE h == height[Last(path).page]
<1>1. h \in Nat /\ h = height[Last(path).page]
  <2>1. Last(path).page \in Live
    BY PathFacts DEF Path
  <2>2. QED
    BY <2>1, PageFacts
<1>2. PICK down :
        /\ ToLeaf(path) = down[h] /\ down[0] = path
        /\ \A d \in 1 .. h :
             down[d] = Append(down[d - 1], Entry(Child(Last(down[d - 1]))))
  BY <1>1, ToLeafDefined
<1> DEFINE Good(x, d) == /\ Path(x) /\ x # <<>> /\ Due(x, r, range)
                         /\ height[Last(x).page] = h - d
           S == {d \in 0 .. h : Good(down[d], d)}
<1>3. 0 \in S
  BY <1>1, <1>2
<1> HIDE DEF h
<1>4. ASSUME NEW x, Path(x), x # <<>>
      PROVE  /\ Last(x).page \in Live
             /\ disk[Last(x).page].leaf <=> height[Last(x).page] = 0
  <2>1. Last(x).page \in Live
    BY <1>4, PathFacts DEF Path
  <2>2. QED
    BY <2>1 DEF Tree, ChildrenBelow
<1>5. ASSUME NEW d \in 0 .. h - 1, d \in S
      PROVE  d + 1 \in S
  <2> DEFINE x == down[d]
  <2>1. /\ Path(x) /\ x # <<>> /\ Due(x, r, range)
        /\ height[Last(x).page] = h - d
    BY <1>5
  <2>2. d + 1 \in 1 .. h /\ d + 1 \in 0 .. h /\ (d + 1) - 1 = d
    BY <1>1
  <2>3. down[d + 1] = Append(x, Entry(Child(Last(x))))
    BY <1>2, <2>2
  <2> HIDE DEF x
  <2>4. ~disk[Last(x).page].leaf
    BY <1>1, <1>4, <2>1
  <2>5. /\ Path(down[d + 1]) /\ down[d + 1] # <<>>
        /\ height[Last(down[d + 1]).page] = (h - d) - 1
    BY <2>1, <2>3, <2>4, PathGrows
  <2>6. Due(down[d + 1], r, range)
    BY <2>1, <2>3, <2>4, DueGrows
  <2>7. (h - d) - 1 = h - (d + 1)
    BY <1>1
  <2>8. QED
    BY <2>2, <2>5, <2>6, <2>7
<1>6. h \in S
  <2>1. \A d \in 0 .. h - 1 : d \in S => d + 1 \in S
    BY <1>5
  <2> HIDE DEF S
  <2>2. 0 .. h \subseteq S
    BY <1>1, <1>3, <2>1, SetInduction
  <2>3. QED
    BY <1>1, <2>2
<1>7. Good(down[h], h) /\ h - h = 0
  BY <1>1, <1>6
<1>8. QED
  BY <1>2, <1>4, <1>7

(* Whatever is still to come, some entry's next record comes before it or is
   it. *)
LEMMA AheadOfEntry ==
  ASSUME KeysOrdered, Tree, Rooted, NEW range, Ranges(range),
         NEW r \in Record \cup {None}, NEW path, Path(path), path # <<>>,
         path[1].page = root, disk[Last(path).page].leaf, Due(path, r, range),
         NEW x \in Records, ToCome(r, KeyOf(x))
  PROVE  \E d \in 1 .. Len(path) :
           /\ ~Exhausted(path[d])
           /\ \/ KeyOf(x) = KeyOf(RecordAt(path[d]))
              \/ Less(KeyOf(RecordAt(path[d])), KeyOf(x))
<1> DEFINE k == KeyOf(x)
           h == Len(path) - 1
           S == {i \in 0 .. h : k \in range[path[i + 1].page]}
<1>0. Tree /\ Ranges(range) /\ Path(path) /\ path # <<>>
  OBVIOUS
<1>1. /\ Len(path) \in Nat /\ Len(path) \in 1 .. Len(path) /\ h \in Nat
      /\ Last(path) = path[Len(path)] /\ h + 1 = Len(path)
  <2>1. /\ Len(path) \in Nat /\ Len(path) \in 1 .. Len(path)
        /\ Last(path) = path[Len(path)]
    BY ONLY <1>0, PathFacts
  <2>2. QED
    BY <2>1
<1>2. k \in Key
  BY RecordsInPages, KeyAssumption
<1> HIDE DEF k, h
<1>3. SUFFICES ASSUME \A d \in 1 .. Len(path) : ~Exhausted(path[d]) =>
                        Less(k, KeyOf(RecordAt(path[d])))
               PROVE  FALSE
  <2>1. ASSUME NEW d \in 1 .. Len(path), ~Exhausted(path[d])
        PROVE  KeyOf(RecordAt(path[d])) \in Key
    <3>1. /\ path[d].position + 1 \in 1 .. Count(NodeOf(path[d]))
          /\ RecordAt(path[d]) = NodeOf(path[d]).recs[path[d].position + 1]
          /\ \A i \in 1 .. Count(NodeOf(path[d])) :
               KeyOf(NodeOf(path[d]).recs[i]) \in Key
      BY ONLY <1>0, <2>1, EntryFacts
    <3>2. QED
      BY <3>1
  <2>2. QED
    BY <1>2, <2>1, Total DEF k
<1>4. ASSUME NEW d \in 1 .. Len(path)
      PROVE  k \in Gap(NodeOf(path[d]).recs, path[d].position + 1)
  <2> DEFINE e == path[d]
  <2>1. /\ e.position \in 0 .. Count(NodeOf(e)) /\ Count(NodeOf(e)) \in Nat
        /\ Len(NodeOf(e).recs) = Count(NodeOf(e))
        /\ ~Exhausted(e) => RecordAt(e) = NodeOf(e).recs[e.position + 1]
        /\ \A i \in 1 .. Count(NodeOf(e)) : KeyOf(NodeOf(e).recs[i]) \in Key
    BY ONLY <1>0, EntryFacts
  <2>2. ASSUME e.position > 0
        PROVE  Less(KeyOf(NodeOf(e).recs[e.position]), k)
    <3>1. /\ KeyOf(NodeOf(e).recs[e.position]) \in Key
          /\ ~ToCome(r, KeyOf(NodeOf(e).recs[e.position]))
      BY <2>1, <2>2 DEF Due, Between
    <3>2. /\ k # KeyOf(NodeOf(e).recs[e.position])
          /\ ~Less(k, KeyOf(NodeOf(e).recs[e.position]))
      BY <1>2, <3>1, ComesLater DEF k
    <3>3. QED
      BY <1>2, <3>1, <3>2, Total
  <2>3. ASSUME e.position + 1 <= Count(NodeOf(e))
        PROVE  Less(k, KeyOf(NodeOf(e).recs[e.position + 1]))
    <3>1. ~Exhausted(e)
      BY <2>1, <2>3 DEF Exhausted
    <3>2. QED
      BY <1>3, <2>1, <3>1
  <2>4. (e.position + 1) - 1 = e.position /\ (e.position + 1 > 1 <=> e.position > 0)
    BY <2>1
  <2>5. QED
    BY <1>2, <2>1, <2>2, <2>3, <2>4 DEF Gap
<1>5. 0 \in S
  <2>1. range[root] = Key
    BY DEF Ranges
  <2>2. QED
    BY <1>1, <1>2, <2>1
<1>6. ASSUME NEW i \in 0 .. h - 1, i \in S
      PROVE  i + 1 \in S
  <2>1. /\ i + 1 \in 1 .. Len(path) /\ i + 1 < Len(path) /\ i + 1 \in 0 .. h
    BY <1>1
  <2>2. i + 1 \in 1 .. Len(path) - 1
    BY <1>1
  <2>3. range[path[(i + 1) + 1].page]
          = range[path[i + 1].page]
              \cap Gap(NodeOf(path[i + 1]).recs, path[i + 1].position + 1)
    BY ONLY <1>0, <2>2, ChildRange
  <2>4. k \in range[path[(i + 1) + 1].page]
    BY <1>4, <1>6, <2>1, <2>3
  <2>5. QED
    BY <2>1, <2>4
<1>7. h \in S
  <2> HIDE DEF S
  <2>1. 0 .. h \subseteq S
    BY <1>1, <1>5, <1>6, SetInduction
  <2>2. QED
    BY <1>1, <2>1
<1> DEFINE e == path[Len(path)]
<1>8. k \in range[e.page] /\ k \in Gap(disk[e.page].recs, e.position + 1)
  BY <1>1, <1>4, <1>7 DEF NodeOf
<1>9. /\ e.page \in Live /\ disk[e.page].leaf
      /\ e.position + 1 \in 1 .. Count(disk[e.page]) + 1
  <2>1. /\ e.page \in Live /\ e.position \in 0 .. Count(NodeOf(e))
        /\ Count(NodeOf(e)) \in Nat /\ NodeOf(e) = disk[e.page]
    BY ONLY <1>0, <1>1, EntryFacts
  <2>2. QED
    BY <1>1, <2>1
<1> HIDE DEF e
<1>10. KeyOf(x) # k
  BY <1>8, <1>9, LeafMisses
<1>11. QED
  BY <1>10 DEF k

(* The next record of an entry further down comes first. *)
LEMMA DeeperIsLess ==
  ASSUME Tree, NEW range, Ranges(range), NEW path, Path(path),
         NEW d \in 1 .. Len(path), NEW e \in d + 1 .. Len(path),
         ~Exhausted(path[d]), ~Exhausted(path[e])
  PROVE  Less(KeyOf(RecordAt(path[e])), KeyOf(RecordAt(path[d])))
<1>0. /\ Tree /\ Ranges(range) /\ Path(path) /\ d \in 1 .. Len(path)
      /\ e \in d + 1 .. Len(path) /\ e \in 1 .. Len(path)
      /\ ~Exhausted(path[d]) /\ ~Exhausted(path[e])
  BY PathFacts
<1>1. /\ path[d].position + 1 \in 1 .. Len(NodeOf(path[d]).recs)
      /\ RecordAt(path[d]) = NodeOf(path[d]).recs[path[d].position + 1]
  BY ONLY <1>0, EntryFacts
<1>2. KeyOf(RecordAt(path[e])) \in range[path[e].page]
  <2>1. /\ path[e].position + 1 \in 1 .. Count(NodeOf(path[e]))
        /\ RecordAt(path[e]) = NodeOf(path[e]).recs[path[e].position + 1]
        /\ \A i \in 1 .. Count(NodeOf(path[e])) :
             KeyOf(NodeOf(path[e]).recs[i]) \in range[path[e].page]
    BY ONLY <1>0, EntryFacts
  <2>2. QED
    BY <2>1
<1>3. KeyOf(RecordAt(path[e])) \in Gap(NodeOf(path[d]).recs, path[d].position + 1)
  BY <1>2, PathNarrows
<1>4. QED
  BY <1>1, <1>3 DEF Gap

(* The lowest entry that has a next record has the least of those to come, *)
LEMMA NextIsLeast ==
  ASSUME KeysOrdered, Tree, Rooted, NEW range, Ranges(range),
         NEW r \in Record \cup {None}, NEW path, Path(path), path # <<>>,
         path[1].page = root, disk[Last(path).page].leaf, Due(path, r, range),
         NEW d \in 1 .. Len(path), ~Exhausted(path[d]),
         \A e \in d + 1 .. Len(path) : Exhausted(path[e])
  PROVE  /\ RecordAt(path[d]) \in Records /\ ToCome(r, KeyOf(RecordAt(path[d])))
         /\ \A x \in Records : ToCome(r, KeyOf(x)) =>
              ~Less(KeyOf(x), KeyOf(RecordAt(path[d])))
<1> DEFINE s == RecordAt(path[d])
<1>0. Tree /\ Ranges(range) /\ Path(path)
  OBVIOUS
<1>1. ASSUME NEW c \in 1 .. Len(path), ~Exhausted(path[c])
      PROVE  RecordAt(path[c]) \in Records /\ KeyOf(RecordAt(path[c])) \in Key
  <2>1. /\ path[c].position + 1 \in 1 .. Count(NodeOf(path[c]))
        /\ RecordAt(path[c]) = NodeOf(path[c]).recs[path[c].position + 1]
        /\ \A i \in 1 .. Count(NodeOf(path[c])) :
             /\ NodeOf(path[c]).recs[i] \in Records
             /\ KeyOf(NodeOf(path[c]).recs[i]) \in Key
    BY ONLY <1>0, <1>1, EntryFacts
  <2>2. QED
    BY <2>1
<1>2. s \in Records /\ ToCome(r, KeyOf(s)) /\ KeyOf(s) \in Key
  BY <1>1 DEF Due, Between
<1>3. ASSUME NEW x \in Records, ToCome(r, KeyOf(x)), Less(KeyOf(x), KeyOf(s))
      PROVE  FALSE
  <2>1. KeyOf(x) \in Key
    BY RecordsInPages, KeyAssumption
  <2>2. PICK c \in 1 .. Len(path) :
          /\ ~Exhausted(path[c])
          /\ \/ KeyOf(x) = KeyOf(RecordAt(path[c]))
             \/ Less(KeyOf(RecordAt(path[c])), KeyOf(x))
    BY <1>3, AheadOfEntry
  <2>3. c <= d
    BY <2>2, PathFacts
  <2>4. c = d \/ Less(KeyOf(s), KeyOf(RecordAt(path[c])))
    <3>1. CASE c # d
      <4>1. d \in c + 1 .. Len(path)
        BY <2>3, <3>1, PathFacts
      <4>2. QED
        BY <2>2, <4>1, DeeperIsLess
    <3>2. QED
      BY <3>1
  <2>5. KeyOf(RecordAt(path[c])) \in Key
    BY <1>1, <2>2
  <2> HIDE DEF s
  <2>6. c # d
    BY <1>2, <1>3, <2>1, <2>2, <2>5, Total DEF s
  <2>7. Less(KeyOf(s), KeyOf(RecordAt(path[c])))
    BY <2>4, <2>6
  <2>8. QED
    BY <1>2, <1>3, <2>1, <2>2, <2>5, <2>7, Total
<1>4. QED
  BY <1>2, <1>3

(* and when it is returned the list above is at it. *)
LEMMA BetweenMoves ==
  ASSUME KeysOrdered, Tree, NEW range, Ranges(range),
         NEW r \in Record \cup {None}, NEW path, Path(path), Between(path, r),
         NEW d \in 1 .. Len(path), ~Exhausted(path[d])
  PROVE  Between(Append(SubSeq(path, 1, d - 1), Advanced(path[d])),
                 RecordAt(path[d]))
<1> DEFINE e == path[d]
           n == NodeOf(e)
           f == Advanced(e)
           s == RecordAt(e)
           kept == SubSeq(path, 1, d - 1)
           cut == Append(kept, f)
<1>0. Tree /\ Ranges(range) /\ Path(path) /\ ~Exhausted(path[d])
  OBVIOUS
<1>1. path \in Seq(Entries) /\ Len(path) \in Nat
  BY PathFacts
<1>2. /\ e \in Entries /\ e.position \in 0 .. Count(n)
      /\ Len(n.recs) = Count(n) /\ Count(n) \in Nat
      /\ Fits(n.recs, range[e.page])
      /\ e.position + 1 \in 1 .. Count(n) /\ s = n.recs[e.position + 1]
      /\ \A i \in 1 .. Count(n) : n.recs[i] \in Record /\ KeyOf(n.recs[i]) \in Key
  BY ONLY <1>0, EntryFacts
<1>3. f.page = e.page /\ f.position = e.position + 1 /\ NodeOf(f) = n
  <2>1. f.page = e.page /\ f.position = e.position + 1
    BY <1>2 DEF Advanced, Entries
  <2>2. QED
    BY <2>1 DEF NodeOf
<1>4. s \in Record /\ KeyOf(s) \in Key /\ s # None
  BY <1>2, NoneAssumption
<1>5. ToCome(r, KeyOf(s))
  BY DEF Between
<1>6. /\ kept \in Seq(Entries) /\ Len(kept) = d - 1
      /\ \A i \in 1 .. d - 1 : kept[i] = path[i]
  BY <1>1
<1> HIDE DEF n, f, s, kept
<1>7. /\ Len(cut) = d /\ cut[d] = f
      /\ \A i \in 1 .. d - 1 : cut[i] = path[i]
  BY <1>6
<1> HIDE DEF cut
<1> SUFFICES ASSUME NEW i \in 1 .. Len(cut)
             PROVE  /\ cut[i].position > 0 =>
                         ~ToCome(s, KeyOf(NodeOf(cut[i]).recs[cut[i].position]))
                    /\ ~Exhausted(cut[i]) => ToCome(s, KeyOf(RecordAt(cut[i])))
  BY DEF Between, cut, kept, s, f
<1>8. CASE i = d
  <2>1. cut[i] = f /\ NodeOf(f).recs[f.position] = s
    BY <1>2, <1>3, <1>7, <1>8
  <2>2. ~ToCome(s, KeyOf(s))
    BY <1>4, Total DEF ToCome
  <2>3. ASSUME ~Exhausted(f)
        PROVE  Less(KeyOf(s), KeyOf(RecordAt(f)))
    <3>1. /\ RecordAt(f) = n.recs[(e.position + 1) + 1]
          /\ e.position + 1 # Count(n)
      BY <1>3, <2>3 DEF RecordAt, Exhausted
    <3>2. (e.position + 1) + 1 \in 1 .. Count(n)
      BY <1>2, <3>1
    <3>3. QED
      BY <1>2, <3>1, <3>2 DEF Fits
  <2>4. QED
    BY <2>1, <2>2, <2>3 DEF ToCome
<1>9. CASE i # d
  <2>1. i \in 1 .. d - 1 /\ i \in 1 .. Len(path) /\ d \in i + 1 .. Len(path)
    BY <1>1, <1>7, <1>9
  <2>2. cut[i] = path[i]
    BY <1>7, <2>1
  <2>3. ASSUME path[i].position > 0
        PROVE  ~ToCome(s, KeyOf(NodeOf(path[i]).recs[path[i].position]))
    <3>1. /\ path[i].position \in 0 .. Count(NodeOf(path[i]))
          /\ Count(NodeOf(path[i])) \in Nat
          /\ \A j \in 1 .. Count(NodeOf(path[i])) :
               KeyOf(NodeOf(path[i]).recs[j]) \in Key
      BY ONLY <1>0, <2>1, EntryFacts
    <3>2. KeyOf(NodeOf(path[i]).recs[path[i].position]) \in Key
      BY <2>3, <3>1
    <3>3. ~ToCome(r, KeyOf(NodeOf(path[i]).recs[path[i].position]))
      BY <2>1, <2>3 DEF Between
    <3>4. QED
      BY <1>4, <1>5, <3>2, <3>3, ComesLater DEF ToCome
  <2>4. ASSUME ~Exhausted(path[i])
        PROVE  ToCome(s, KeyOf(RecordAt(path[i])))
    <3>1. Less(KeyOf(RecordAt(path[d])), KeyOf(RecordAt(path[i])))
      BY <2>1, <2>4, DeeperIsLess
    <3>2. QED
      BY <3>1 DEF ToCome, s
  <2>5. QED
    BY <2>2, <2>3, <2>4
<1>10. QED
  BY <1>8, <1>9

(* Between two calls a scan that has not ended is at its record. *)
GrowScanInv ==
  /\ GrowInv
  /\ last \in Record \cup {None} /\ ended \in BOOLEAN
  /\ Path(cursor)
  /\ IF cursor = <<>> THEN last = None /\ ended = FALSE
                      ELSE cursor[1].page = root
  /\ ended = FALSE => \A range : Ranges(range) => Due(cursor, last, range)

(* The list from which the next record is looked for. *)
Start == IF cursor = <<>> THEN <<Entry(root)>> ELSE cursor

(* and so does the way from the root. *)
LEMMA StartFacts ==
  ASSUME Tree, Path(cursor), cursor # <<>> => cursor[1].page = root
  PROVE  /\ Path(Start) /\ Start # <<>> /\ Start[1].page = root
         /\ \A range : Ranges(range) /\ Due(cursor, last, range)
                         /\ (cursor = <<>> => last = None)
                       => Due(Start, last, range)
<1>1. CASE cursor # <<>>
  BY <1>1 DEF Start
<1>2. CASE cursor = <<>>
  <2> DEFINE e == Entry(root)
  <2>1. /\ root \in Live /\ root \in Page /\ Count(disk[root]) \in Nat
    BY PageFacts DEF Tree
  <2>2. e \in Entries /\ e.page = root /\ e.position = 0
    BY <2>1 DEF Entries, Entry
  <2> HIDE DEF e
  <2>3. /\ <<e>> \in Seq(Entries) /\ Len(<<e>>) = 1 /\ <<e>>[1] = e
        /\ \A i \in 1 .. 1 : i = 1
    BY <2>2
  <2>4. Path(<<e>>) /\ <<e>> # <<>> /\ Last(<<e>>) = e
    BY <2>1, <2>2, <2>3, EmptySeq DEF Path, Entries, Last
  <2>5. ASSUME last = None, NEW range
        PROVE  Due(<<e>>, last, range)
    BY <2>2, <2>3, <2>4, <2>5 DEF Due, Between, Fresh, ToCome
  <2>6. QED
    BY <1>2, <2>2, <2>3, <2>4, <2>5 DEF Start, e
<1>3. QED
  BY <1>1, <1>2

(* The record of an entry. *)
LEMMA EntryRecord ==
  ASSUME Tree, NEW path, Path(path), NEW d \in 1 .. Len(path),
         ~Exhausted(path[d])
  PROVE  RecordAt(path[d]) \in Record
<1> DEFINE e == path[d]
<1>1. /\ e.page \in Live /\ e.position \in Nat
      /\ e.position <= Count(disk[e.page]) /\ e.position # Count(disk[e.page])
  BY PathFacts DEF Path, Exhausted, NodeOf
<1> HIDE DEF e
<1>2. /\ disk[e.page].recs \in Seq(Record)
      /\ Len(disk[e.page].recs) = Count(disk[e.page])
      /\ Count(disk[e.page]) \in Nat
  BY <1>1, RecordsOf, PageFacts
<1>3. disk[e.page].recs[e.position + 1] \in Record
  BY <1>1, <1>2, ElementOfSeq
<1>4. QED
  BY <1>3 DEF RecordAt, NodeOf, e

(* The next record is the least of those to come, and when there is none the
   scan has returned all. *)
LEMMA NextRecordDue ==
  ASSUME KeysOrdered, GrowScanInv, NextRecord, ended = FALSE,
         NEW range, Ranges(range)
  PROVE  \/ /\ ended' = FALSE /\ Due(cursor', last', range)
            /\ last' \in Records /\ ToCome(last, KeyOf(last'))
            /\ \A x \in Records : ToCome(last, KeyOf(x)) =>
                 ~Less(KeyOf(x), KeyOf(last'))
         \/ /\ ended' = TRUE
            /\ \A x \in Records : ~ToCome(last, KeyOf(x))
<1> DEFINE path == ToLeaf(Start)
           n == Len(path)
<1>0. /\ Tree /\ Rooted /\ Path(cursor) /\ last \in Record \cup {None}
      /\ cursor # <<>> => cursor[1].page = root
      /\ cursor = <<>> => last = None
      /\ Ranges(range) /\ Due(cursor, last, range)
  BY Here DEF GrowScanInv, GrowInv
<1>1. FromLeaf(path) \/ FromAbove(path) \/ NoMoreRecords(path)
  BY DEF NextRecord, Start
<1>2. /\ Path(Start) /\ Start # <<>> /\ Start[1].page = root
      /\ Due(Start, last, range)
  BY <1>0, StartFacts
<1>3. /\ Path(path) /\ path # <<>> /\ path[1] = Start[1]
      /\ Due(path, last, range) /\ disk[Last(path).page].leaf
  BY <1>0, <1>2, ToLeafIsPath, DueToLeaf
<1> HIDE DEF path
<1>4. /\ path \in Seq(Entries) /\ n \in Nat /\ n \in 1 .. n
      /\ Last(path) = path[n]
  BY ONLY <1>3, PathFacts DEF n
<1>5. ASSUME NEW d \in 1 .. n, ~Exhausted(path[d]), last' = RecordAt(path[d]),
             \A e \in d + 1 .. n : Exhausted(path[e])
      PROVE  /\ last' \in Records /\ ToCome(last, KeyOf(last'))
             /\ \A x \in Records : ToCome(last, KeyOf(x)) =>
                  ~Less(KeyOf(x), KeyOf(last'))
             /\ Between(Append(SubSeq(path, 1, d - 1), Advanced(path[d])), last')
  <2>1. /\ RecordAt(path[d]) \in Records
        /\ ToCome(last, KeyOf(RecordAt(path[d])))
        /\ \A x \in Records : ToCome(last, KeyOf(x)) =>
             ~Less(KeyOf(x), KeyOf(RecordAt(path[d])))
    BY <1>0, <1>2, <1>3, <1>5, NextIsLeast
  <2>2. Between(Append(SubSeq(path, 1, d - 1), Advanced(path[d])),
                RecordAt(path[d]))
    BY <1>0, <1>3, <1>5, BetweenMoves DEF Due
  <2>3. QED
    BY <1>5, <2>1, <2>2
<1>6. CASE FromLeaf(path)
  <2> DEFINE cut == Append(SubSeq(path, 1, n - 1), Advanced(path[n]))
  <2>1. /\ ~Exhausted(path[n]) /\ last' = RecordAt(path[n]) /\ ended' = ended
        /\ cursor' = cut
    BY <1>4, <1>6 DEF FromLeaf, Front
  <2>2. \A e \in n + 1 .. n : Exhausted(path[e])
    BY <1>4
  <2>3. /\ last' \in Records /\ ToCome(last, KeyOf(last'))
        /\ \A x \in Records : ToCome(last, KeyOf(x)) =>
             ~Less(KeyOf(x), KeyOf(last'))
        /\ Between(cut, last')
    BY <1>4, <1>5, <2>1, <2>2
  <2>4. Last(cut) = Advanced(path[n]) /\ Advanced(path[n]).page = path[n].page
    BY <1>0, <1>3, <1>4, <2>1, PathAdvances
  <2>5. Due(cut, last', range)
    BY <1>3, <1>4, <2>3, <2>4 DEF Due, NodeOf
  <2>6. QED
    BY <2>1, <2>3, <2>5
<1>7. CASE FromAbove(path)
  <2>1. PICK d \in 1 .. n - 1 :
          /\ ~Exhausted(path[d]) /\ last' = RecordAt(path[d])
          /\ \A e \in d + 1 .. n : Exhausted(path[e])
          /\ cursor' = SubSeq(path, 1, d - 1)
                         \o <<Advanced(path[d]), Entry(Child(Advanced(path[d])))>>
    BY <1>7 DEF FromAbove, n
  <2> DEFINE f == Advanced(path[d])
             k == Entry(Child(f))
             kept == SubSeq(path, 1, d - 1)
             cut == Append(kept, f)
  <2>2. d \in 1 .. n /\ d < n /\ ended' = ended
    BY <1>4, <1>7, <2>1 DEF FromAbove
  <2>3. /\ last' \in Records /\ ToCome(last, KeyOf(last'))
        /\ \A x \in Records : ToCome(last, KeyOf(x)) =>
             ~Less(KeyOf(x), KeyOf(last'))
        /\ Between(cut, last')
    BY <1>5, <2>1, <2>2
  <2>4. Path(cut) /\ cut # <<>> /\ Last(cut) = f /\ f.page = path[d].page
    BY <1>0, <1>3, <2>1, <2>2, PathAdvances DEF n
  <2>5. ~disk[f.page].leaf
    BY <1>3, <2>2, <2>4 DEF Path, n
  <2>6. Path(Append(cut, k))
    BY <1>0, <2>4, <2>5, PathGrows
  <2>7. cursor' = Append(cut, k)
    <3>1. f \in Entries /\ k \in Entries
      <4>1. /\ Len(cut) \in 1 .. Len(cut) /\ cut[Len(cut)] = f
            /\ \A i \in 1 .. Len(cut) : cut[i] \in Entries
            /\ cut \in Seq(Entries)
        BY ONLY <2>4, PathFacts
      <4>2. /\ Len(Append(cut, k)) \in Nat
            /\ \A i \in 1 .. Len(Append(cut, k)) : Append(cut, k)[i] \in Entries
        BY ONLY <2>6, PathFacts
      <4> HIDE DEF cut, k, f
      <4>3. /\ Len(Append(cut, k)) = Len(cut) + 1
            /\ Append(cut, k)[Len(cut) + 1] = k
            /\ Len(cut) \in Nat
        BY <4>1
      <4>4. QED
        BY <4>1, <4>2, <4>3
    <3>2. kept \in Seq(Entries)
      BY <1>4, <2>2
    <3> HIDE DEF f, k, kept
    <3>3. kept \o <<f, k>> = Append(Append(kept, f), k)
      BY <3>1, <3>2, TwoMore
    <3>4. QED
      BY <2>1, <3>3 DEF f, k, kept
  <2>8. Fresh(k, last', range)
    <3>1. /\ path[d].position + 1 \in 1 .. Count(NodeOf(path[d]))
          /\ RecordAt(path[d]) = NodeOf(path[d]).recs[path[d].position + 1]
          /\ path[d] \in Entries
          /\ Count(NodeOf(path[d])) \in Nat
          /\ NodeOf(path[d]) = disk[path[d].page]
          /\ ~NodeOf(path[d]).leaf =>
               Len(NodeOf(path[d]).kids) = Count(NodeOf(path[d])) + 1
          /\ \A i \in 1 .. Len(NodeOf(path[d]).kids) :
               range[NodeOf(path[d]).kids[i]]
                 = range[path[d].page] \cap Gap(NodeOf(path[d]).recs, i)
      BY ONLY <1>0, <1>3, <2>1, d \in 1 .. Len(path), EntryFacts
    <3>2. f.position = path[d].position + 1 /\ NodeOf(f) = NodeOf(path[d])
      BY <2>4, <3>1 DEF Advanced, NodeOf, Entries
    <3>3. /\ (path[d].position + 1) + 1 \in 1 .. Len(NodeOf(path[d]).kids)
          /\ (path[d].position + 1) + 1 > 1
          /\ ((path[d].position + 1) + 1) - 1 = path[d].position + 1
      BY <2>4, <2>5, <3>1
    <3>4. Child(f) = NodeOf(path[d]).kids[(path[d].position + 1) + 1]
      BY <3>2 DEF Child
    <3>5. \A x \in range[Child(f)] : Less(KeyOf(RecordAt(path[d])), x)
      BY <3>1, <3>3, <3>4 DEF Gap
    <3>6. k.position = 0 /\ k.page = Child(f)
      BY DEF Entry
    <3>7. QED
      BY <2>1, <3>5, <3>6 DEF Fresh, ToCome
  <2>9. Due(Append(cut, k), last', range)
    BY <1>0, <2>3, <2>4, <2>6, <2>8, DueAppends
  <2>10. QED
    BY <2>2, <2>3, <2>7, <2>9
<1>8. CASE NoMoreRecords(path)
  <2>1. \A d \in 1 .. n : Exhausted(path[d])
    BY <1>8 DEF NoMoreRecords, n
  <2>2. ASSUME NEW x \in Records, ToCome(last, KeyOf(x))
        PROVE  FALSE
    <3>1. \E d \in 1 .. Len(path) : ~Exhausted(path[d])
      BY <1>0, <1>2, <1>3, <2>2, AheadOfEntry
    <3>2. QED
      BY <2>1, <3>1 DEF n
  <2>3. QED
    BY <1>8, <2>2 DEF NoMoreRecords
<1>9. QED
  BY <1>1, <1>6, <1>7, <1>8

(* Every step keeps it, *)
LEMMA ScanStep ==
  ASSUME KeysOrdered, GrowScanInv, [GrowScanNext]_scanVars
  PROVE  GrowScanInv'
<1>0. /\ Tree /\ Path(cursor) /\ (cursor # <<>> => cursor[1].page = root)
      /\ cursor = <<>> => last = None /\ ended = FALSE
      /\ GrowInv /\ last \in Record \cup {None} /\ ended \in BOOLEAN
  BY Here DEF GrowScanInv, GrowInv
<1>1. CASE NextRecord
  <2>1. /\ UNCHANGED vars /\ disk' = disk /\ freed' = freed /\ root' = root
        /\ Live' = Live
    BY <1>1 DEF NextRecord, vars, tree, Live
  <2>2. GrowInv'
    BY <1>0, <2>1, GrowStep
  <2>3. Path(cursor') /\ cursor' # <<>> /\ cursor'[1].page = root
    BY <1>0, <1>1, NextRecordPath
  <2>4. Path(cursor)'
    BY <2>1, <2>3 DEF Path, Child, NodeOf
  <2>5. last' \in Record \cup {None} /\ (ended' = TRUE \/ ended' = ended)
    <3> DEFINE path == ToLeaf(Start)
    <3>1. Path(path) /\ path # <<>>
      BY <1>0, StartFacts, ToLeafIsPath
    <3>2. FromLeaf(path) \/ FromAbove(path) \/ NoMoreRecords(path)
      BY <1>1 DEF NextRecord, Start
    <3> HIDE DEF path
    <3>3. /\ Last(path) = path[Len(path)] /\ Len(path) \in 1 .. Len(path)
          /\ \A d \in 1 .. Len(path) - 1 : d \in 1 .. Len(path)
      <4>1. /\ Last(path) = path[Len(path)] /\ Len(path) \in 1 .. Len(path)
            /\ Len(path) \in Nat
        BY ONLY <3>1, PathFacts
      <4>2. QED
        BY <4>1
    <3>4. \/ last' = last
          \/ \E d \in 1 .. Len(path) :
               ~Exhausted(path[d]) /\ last' = RecordAt(path[d])
      BY <3>2, <3>3 DEF FromLeaf, FromAbove, NoMoreRecords
    <3>5. last' \in Record \cup {None}
      BY <1>0, <3>1, <3>4, EntryRecord
    <3>6. QED
      BY <3>2, <3>5 DEF FromLeaf, FromAbove, NoMoreRecords
  <2>6. ASSUME ended' = FALSE, NEW range, Ranges(range)'
        PROVE  Due(cursor, last, range)'
    <3>1. Ranges(range)
      BY <2>1, <2>6 DEF Ranges, Ranged
    <3>2. ended = FALSE
      BY <2>5, <2>6
    <3>3. Due(cursor', last', range)
      BY <1>1, <2>6, <3>1, <3>2, NextRecordDue
    <3>4. QED
      BY <2>1, <3>3
      DEF Due, Between, Fresh, ToCome, Exhausted, RecordAt, NodeOf
  <2>7. QED
    BY <2>1, <2>2, <2>3, <2>4, <2>5, <2>6 DEF GrowScanInv
<1>2. ASSUME cursor' = <<>>, last' = None, ended' = FALSE, [GrowNext]_vars
      PROVE  GrowScanInv'
  <2>1. GrowInv'
    BY <1>0, <1>2, GrowStep
  <2>2. Len(<<>>) = 0 /\ <<>> \in Seq([page : Page, position : Nat])
    OBVIOUS
  <2>3. Path(cursor)'
    BY <1>2, <2>2 DEF Path
  <2>4. \A range : Due(cursor, last, range)'
    BY <1>2, <2>2 DEF Due, Between
  <2>5. QED
    BY <1>2, <2>1, <2>3, <2>4 DEF GrowScanInv
<1>3. CASE Reset
  BY <1>2, <1>3 DEF Reset
<1>4. CASE cursor = <<>> /\ GrowNext /\ UNCHANGED scan
  BY <1>0, <1>2, <1>4 DEF scan
<1>5. CASE UNCHANGED scanVars
  <2>1. /\ UNCHANGED vars /\ disk' = disk /\ freed' = freed /\ root' = root
        /\ Live' = Live /\ cursor' = cursor /\ last' = last /\ ended' = ended
    BY <1>5 DEF scanVars, scan, vars, tree, Live
  <2>2. GrowInv'
    BY <1>0, <2>1, GrowStep
  <2>3. Path(cursor)'
    BY <1>0, <2>1 DEF Path, Child, NodeOf
  <2>4. \A range : /\ Ranges(range)' <=> Ranges(range)
                   /\ Due(cursor, last, range)' <=> Due(cursor, last, range)
    BY <2>1
    DEF Ranges, Ranged, Due, Between, Fresh, ToCome, Exhausted, RecordAt,
        NodeOf
  <2>5. QED
    BY <2>1, <2>2, <2>3, <2>4 DEF GrowScanInv
<1>6. QED
  BY <1>1, <1>3, <1>4, <1>5 DEF GrowScanNext

(* and it holds initially. *)
LEMMA ScanBegins ==
  ScanInit => GrowScanInv
<1> SUFFICES ASSUME ScanInit
             PROVE  GrowScanInv
  OBVIOUS
<1>1. GrowInv /\ cursor = <<>> /\ last = None /\ ended = FALSE
  BY GrowInit DEF ScanInit
<1>2. Len(<<>>) = 0 /\ <<>> \in Seq([page : Page, position : Nat])
  OBVIOUS
<1>3. Path(cursor)
  BY <1>1, <1>2 DEF Path
<1>4. \A range : Due(cursor, last, range)
  BY <1>1, <1>2 DEF Due, Between
<1>5. QED
  BY <1>1, <1>3, <1>4 DEF GrowScanInv

(* What is ahead is what is still to come. *)
LEMMA AheadIsToCome ==
  ASSUME KeysOrdered, GrowScanInv
  PROVE  /\ \A x : x \in Ahead <=> x \in Records /\ ToCome(last, KeyOf(x))
         /\ \A x, y \in Records :
              Cmp(KeyOf(x), KeyOf(y)) >= 0 <=> ~Less(KeyOf(x), KeyOf(y))
<1>1. Tree /\ Rooted /\ last \in Record \cup {None}
  BY Here DEF GrowScanInv, GrowInv
<1>2. RecordsBelow(root) = Records
  BY <1>1, RecordsAreBelow
<1>3. \A x \in Records : x \in Record /\ KeyOf(x) \in Key
  BY <1>1, RecordsInPages, KeyAssumption
<1>4. last # None => last \in Record /\ KeyOf(last) \in Key
  BY <1>1, KeyAssumption
<1>5. ASSUME NEW x \in Records
      PROVE  (last # None => Cmp(KeyOf(x), KeyOf(last)) > 0)
               <=> ToCome(last, KeyOf(x))
  BY <1>3, <1>4, Signs DEF ToCome
<1>6. ASSUME NEW x \in Records, NEW y \in Records
      PROVE  Cmp(KeyOf(x), KeyOf(y)) >= 0 <=> ~Less(KeyOf(x), KeyOf(y))
  <2>1. Cmp(KeyOf(x), KeyOf(y)) \in Int
    BY <1>3, CmpAssumption
  <2>2. QED
    BY <2>1 DEF Less
<1>7. QED
  BY <1>2, <1>5, <1>6 DEF Ahead

(* The next record is the least of those ahead. *)
LEMMA NextInOrder ==
  ASSUME KeysOrdered, GrowScanInv, NextRecord, ~ended'
  PROVE  last' \in Ahead /\ \A r \in Ahead : Cmp(KeyOf(r), KeyOf(last')) >= 0
<1>1. CASE ended = FALSE
  <2>1. PICK range : Ranges(range)
    BY DEF GrowScanInv, GrowInv, Placed
  <2>2. /\ last' \in Records /\ ToCome(last, KeyOf(last'))
        /\ \A x \in Records : ToCome(last, KeyOf(x)) =>
             ~Less(KeyOf(x), KeyOf(last'))
    BY <1>1, <2>1, NextRecordDue
  <2>3. QED
    BY <2>2, AheadIsToCome
<1>2. CASE ended # FALSE
  BY <1>2 DEF GrowScanInv, NextRecord, FromLeaf, FromAbove, NoMoreRecords
<1>3. QED
  BY <1>1, <1>2

(* A scan of a tree that grows between scans returns its records in ascending
   order and passes over none, however many levels mdbBtreeTraverse climbs
   and descends between two of them. *)
THEOREM ScansAreInOrder ==
  KeysOrdered /\ GrowScanSpec => ScanInOrder
<1> DEFINE InOrder ==
      NextRecord /\ ~ended' =>
        last' \in Ahead /\ \A r \in Ahead : Cmp(KeyOf(r), KeyOf(last')) >= 0
<1>1. ASSUME KeysOrdered, GrowScanInv
      PROVE  InOrder
  BY <1>1, NextInOrder
<1>2. CASE KeysOrdered
  <2>1. GrowScanInv /\ [GrowScanNext]_scanVars => GrowScanInv'
    BY <1>2, ScanStep
  <2>2. GrowScanInv => [InOrder]_scanVars
    BY <1>1, <1>2
  <2>3. QED
    BY <2>1, <2>2, ScanBegins, PTL DEF GrowScanSpec, ScanInOrder
<1>3. CASE ~KeysOrdered
  BY <1>3
<1>4. QED
  BY <1>2, <1>3

(* A scan that is told there are no more records has returned every record of
   the tree. *)
THEOREM ScansOmitNothing ==
  KeysOrdered /\ GrowScanSpec => EndMeansAll
<1>1. ASSUME KeysOrdered, GrowScanInv, GrowScanNext, ~ended, ended'
      PROVE  Ahead = {}
  <2>1. ended = FALSE /\ ended' # FALSE
    BY <1>1 DEF GrowScanInv
  <2>2. NextRecord
    BY <1>1 DEF GrowScanNext, Reset, scan
  <2>3. PICK range : Ranges(range)
    BY <1>1 DEF GrowScanInv, GrowInv, Placed
  <2>4. \A x \in Records : ~ToCome(last, KeyOf(x))
    BY <1>1, <2>1, <2>2, <2>3, NextRecordDue
  <2>5. QED
    BY <1>1, <2>4, AheadIsToCome
<1>2. CASE KeysOrdered
  <2>1. GrowScanInv /\ [GrowScanNext]_scanVars => GrowScanInv'
    BY <1>2, ScanStep
  <2>2. GrowScanInv /\ [GrowScanNext]_scanVars =>
          [~ended /\ ended' => Ahead = {}]_scanVars
    BY <1>1, <1>2
  <2>3. QED
    BY <2>1, <2>2, ScanBegins, PTL DEF GrowScanSpec, EndMeansAll
<1>3. CASE ~KeysOrdered
  BY <1>3
<1>4. QED
  BY <1>2, <1>3

-----------------------------------------------------------------------------
(* memcmp compares the first bytes that differ. *)
LEMMA FirstDifference ==
  ASSUME NEW j, NEW k, NEW n \in Nat,
         \A i \in 1 .. n : j[i] \in 0 .. 255 /\ k[i] \in 0 .. 255
  PROVE  \/ memcmp(j, k, n) = 0 /\ \A i \in 1 .. n : j[i] = k[i]
         \/ \E i \in 1 .. n : Decides(j, k, n, i) /\ memcmp(j, k, n) = j[i] - k[i]
<1> DEFINE S == {i \in 1 .. n : j[i] # k[i]}
<1>1. CASE S = {}
  BY <1>1 DEF memcmp, Decides
<1>2. CASE S # {}
  <2>1. PICK i \in S : \A h \in S : i <= h
    <3>1. S \subseteq Nat
      OBVIOUS
    <3>2. QED
      BY <1>2, <3>1, LeastElement
  <2>2. Decides(j, k, n, i)
    <3>1. ASSUME NEW h \in 1 .. i - 1
          PROVE  j[h] = k[h]
      <4>1. h \in 1 .. n /\ ~(i <= h)
        BY <2>1
      <4>2. QED
        BY <2>1, <4>1
    <3>2. QED
      BY <2>1, <3>1 DEF Decides
  <2> DEFINE c == CHOOSE h \in 1 .. n : Decides(j, k, n, h)
  <2>3. c \in 1 .. n /\ Decides(j, k, n, c)
    BY <2>1, <2>2
  <2>4. memcmp(j, k, n) = j[c] - k[c]
    BY <2>1, <2>2 DEF memcmp
  <2> HIDE DEF c
  <2>5. QED
    BY <2>3, <2>4
<1>3. QED
  BY <1>1, <1>2

(* The sign of the difference of two bytes is their order. *)
LEMMA Bytes ==
  ASSUME NEW a \in 0 .. 255, NEW b \in 0 .. 255, NEW c \in 0 .. 255
  PROVE  /\ a - b = 0 <=> a = b
         /\ a - b < 0 <=> a < b
         /\ a - b > 0 <=> b < a
         /\ ~(a < a)
         /\ a < b /\ b < c => a < c
OBVIOUS

(* The number of bytes that mdbBtreeCmp looks at. *)
Shorter(j, k) == IF Len(k) < Len(j) THEN Len(k) ELSE Len(j)

(* Keys of which none begins another are in the order of the first bytes that
   differ. *)
LEMMA BytesOrdered ==
  ASSUME Key \subseteq Seq(0 .. 255),
         \A j, k \in Key : j # k => \E i \in 1 .. Shorter(j, k) : j[i] # k[i],
         \A j, k \in Key : Cmp(j, k) = memcmp(j, k, Shorter(j, k))
  PROVE  KeysOrdered
<1> DEFINE n(j, k) == Shorter(j, k)
           LessAt(j, k, i) == Decides(j, k, n(j, k), i) /\ j[i] < k[i]
<1>1. ASSUME NEW j \in Key, NEW k \in Key
      PROVE  /\ n(j, k) \in Nat /\ n(k, j) = n(j, k)
             /\ \A i \in 1 .. n(j, k) : /\ j[i] \in 0 .. 255 /\ k[i] \in 0 .. 255
                                        /\ i <= Len(j) /\ i <= Len(k)
             /\ \A i \in Nat : i <= Len(j) /\ i <= Len(k) => i <= n(j, k)
  <2>1. j \in Seq(0 .. 255) /\ k \in Seq(0 .. 255) /\ Len(j) \in Nat /\ Len(k) \in Nat
    BY LenProperties
  <2>2. /\ n(j, k) \in Nat /\ n(k, j) = n(j, k)
        /\ \A i \in 1 .. n(j, k) : i \in 1 .. Len(j) /\ i \in 1 .. Len(k)
        /\ \A i \in Nat : i <= Len(j) /\ i <= Len(k) => i <= n(j, k)
    BY <2>1 DEF Shorter
  <2>3. QED
    BY <2>1, <2>2, ElementOfSeq
<1> HIDE DEF n
<1>2. ASSUME NEW j \in Key, NEW k \in Key
      PROVE  /\ Cmp(j, k) = 0 <=> j = k
             /\ Cmp(j, k) < 0 <=> \E i \in 1 .. n(j, k) : LessAt(j, k, i)
             /\ Cmp(j, k) > 0 <=> \E i \in 1 .. n(j, k) : LessAt(k, j, i)
  <2>1. /\ Cmp(j, k) = memcmp(j, k, n(j, k)) /\ n(k, j) = n(j, k)
        /\ j # k => \E i \in 1 .. n(j, k) : j[i] # k[i]
    BY <1>1 DEF n
  <2>2. CASE memcmp(j, k, n(j, k)) = 0 /\ \A i \in 1 .. n(j, k) : j[i] = k[i]
    BY <2>1, <2>2 DEF Decides
  <2>3. ASSUME NEW i \in 1 .. n(j, k), Decides(j, k, n(j, k), i),
               memcmp(j, k, n(j, k)) = j[i] - k[i]
        PROVE  /\ Cmp(j, k) # 0 /\ j # k
               /\ Cmp(j, k) < 0 <=> \E h \in 1 .. n(j, k) : LessAt(j, k, h)
               /\ Cmp(j, k) > 0 <=> \E h \in 1 .. n(j, k) : LessAt(k, j, h)
    <3>1. /\ j[i] \in 0 .. 255 /\ k[i] \in 0 .. 255 /\ j[i] # k[i]
          /\ \A h \in 1 .. i - 1 : j[h] = k[h]
          /\ Decides(k, j, n(k, j), i)
      BY <1>1, <2>1, <2>3 DEF Decides
    <3>2. ASSUME NEW h \in 1 .. n(j, k),
                 Decides(j, k, n(j, k), h) \/ Decides(k, j, n(k, j), h)
          PROVE  h = i
      <4>1. j[h] # k[h] /\ \A g \in 1 .. h - 1 : j[g] = k[g]
        BY <3>2 DEF Decides
      <4>2. i \in Nat /\ h \in Nat /\ i >= 1 /\ h >= 1
        BY <1>1
      <4>3. ~(h < i)
        BY <3>1, <4>1, <4>2
      <4>4. ~(i < h)
        BY <3>1, <4>1, <4>2
      <4>5. QED
        BY <4>2, <4>3, <4>4
    <3>3. (\E h \in 1 .. n(j, k) : LessAt(j, k, h)) <=> j[i] < k[i]
      BY <2>3, <3>1, <3>2
    <3>4. (\E h \in 1 .. n(j, k) : LessAt(k, j, h)) <=> k[i] < j[i]
      BY <2>3, <3>1, <3>2
    <3>5. Cmp(j, k) = j[i] - k[i]
      BY <2>1, <2>3
    <3>6. /\ Cmp(j, k) # 0
          /\ Cmp(j, k) < 0 <=> j[i] < k[i]
          /\ Cmp(j, k) > 0 <=> k[i] < j[i]
      <4>1. /\ j[i] - k[i] = 0 <=> j[i] = k[i]
            /\ j[i] - k[i] < 0 <=> j[i] < k[i]
            /\ j[i] - k[i] > 0 <=> k[i] < j[i]
        BY <3>1, Bytes, Zenon
      <4>2. QED
        BY <3>1, <3>5, <4>1, Zenon
    <3>7. j # k
      BY <3>1
    <3>8. QED
      BY <3>3, <3>4, <3>6, <3>7
  <2>4. \/ /\ memcmp(j, k, n(j, k)) = 0
           /\ \A i \in 1 .. n(j, k) : j[i] = k[i]
        \/ \E i \in 1 .. n(j, k) : /\ Decides(j, k, n(j, k), i)
                                   /\ memcmp(j, k, n(j, k)) = j[i] - k[i]
    <3>1. /\ n(j, k) \in Nat
          /\ \A i \in 1 .. n(j, k) : j[i] \in 0 .. 255 /\ k[i] \in 0 .. 255
      BY <1>1
    <3>2. QED
      BY <3>1, FirstDifference, Zenon
  <2>5. QED
    BY <2>2, <2>3, <2>4
<1>3. ASSUME NEW i \in Key, NEW j \in Key, NEW k \in Key,
             Cmp(i, j) < 0, Cmp(j, k) < 0
      PROVE  Cmp(i, k) < 0
  <2>1. PICK p \in 1 .. n(i, j) : LessAt(i, j, p)
    BY <1>2, <1>3
  <2>2. PICK q \in 1 .. n(j, k) : LessAt(j, k, q)
    BY <1>2, <1>3
  <2>3. /\ p \in Nat /\ q \in Nat /\ p >= 1 /\ q >= 1
        /\ p <= Len(i) /\ p <= Len(j) /\ q <= Len(j) /\ q <= Len(k)
        /\ i[p] \in 0 .. 255 /\ j[p] \in 0 .. 255
        /\ j[q] \in 0 .. 255 /\ k[q] \in 0 .. 255
        /\ Len(i) \in Nat /\ Len(k) \in Nat /\ n(i, k) \in Nat
    BY <1>1, LenProperties
  <2>4. /\ i[p] < j[p] /\ \A h \in 1 .. p - 1 : i[h] = j[h]
        /\ j[q] < k[q] /\ \A h \in 1 .. q - 1 : j[h] = k[h]
    BY <2>1, <2>2 DEF Decides
  <2>5. PICK m \in {p, q} : m <= p /\ m <= q
    BY <2>3
  <2>6. m \in 1 .. n(i, k)
    <3>1. m \in Nat /\ m >= 1 /\ m <= Len(i) /\ m <= Len(k)
      BY <2>3, <2>5
    <3>2. m <= n(i, k)
      BY <1>1, <3>1
    <3>3. QED
      BY <2>3, <3>1, <3>2
  <2>7. i[m] < k[m]
    <3>1. CASE p = q
      <4>1. m = p
        BY <2>5, <3>1
      <4>2. i[p] < j[p] /\ j[p] < k[p] /\ k[p] \in 0 .. 255
        BY <2>3, <2>4, <3>1
      <4>3. QED
        BY <2>3, <4>1, <4>2, Bytes, Zenon
    <3>2. CASE p < q
      <4>1. m = p /\ p \in 1 .. q - 1
        BY <2>3, <2>5, <3>2
      <4>2. QED
        BY <2>4, <4>1
    <3>3. CASE q < p
      <4>1. m = q /\ q \in 1 .. p - 1
        BY <2>3, <2>5, <3>3
      <4>2. QED
        BY <2>4, <4>1
    <3>4. QED
      BY <2>3, <3>1, <3>2, <3>3
  <2>8. \A h \in 1 .. m - 1 : i[h] = k[h]
    <3>1. \A h \in 1 .. m - 1 : h \in 1 .. p - 1 /\ h \in 1 .. q - 1
      BY <2>3, <2>5
    <3>2. QED
      BY <2>4, <3>1
  <2>9. i[m] # k[m]
    <3>1. i[m] \in 0 .. 255 /\ k[m] \in 0 .. 255
      BY <1>1, <2>6, Zenon
    <3>2. QED
      BY <2>7, <3>1, Bytes, Zenon
  <2>10. LessAt(i, k, m)
    BY <2>6, <2>7, <2>8, <2>9 DEF Decides
  <2>11. Cmp(i, k) < 0 <=> \E h \in 1 .. n(i, k) : LessAt(i, k, h)
    BY <1>2
  <2>12. QED
    BY <2>6, <2>10, <2>11
<1>4. ASSUME NEW i \in Key, NEW j \in Key
      PROVE  Cmp(i, j) < 0 <=> Cmp(j, i) > 0
  BY <1>1, <1>2
<1>5. QED
  BY <1>2, <1>3, <1>4 DEF KeysOrdered

(* Integer keys, of any of the three sizes, have the order that the theorems
   ask for: mdbBtreeCmp compares all their bytes. *)
THEOREM IntegersOrdered ==
  ASSUME NEW type \in {"INT-8", "INT-16", "INT-32"},
         Key \subseteq {k \in Seq(0 .. 255) : Len(k) = datatypes[type].size},
         \A j, k \in Key : Cmp(j, k) = mdbBtreeCmp(type, j, k)
  PROVE  KeysOrdered
<1>1. /\ datatypes[type].header = 0 /\ datatypes[type].compare = "memcmp"
      /\ datatypes[type].size \in Nat
  BY DEF datatypes
<1>2. ASSUME NEW j \in Key, NEW k \in Key
      PROVE  /\ Cmp(j, k) = memcmp(j, k, Shorter(j, k))
             /\ j # k => \E i \in 1 .. Shorter(j, k) : j[i] # k[i]
  <2>1. /\ j \in Seq(0 .. 255) /\ k \in Seq(0 .. 255)
        /\ Len(j) = datatypes[type].size /\ Len(k) = datatypes[type].size
        /\ Shorter(j, k) = datatypes[type].size
    BY <1>1 DEF Shorter
  <2>2. Cmp(j, k) = memcmp(j, k, datatypes[type].size)
    BY <1>1 DEF mdbBtreeCmp, Compare
  <2>3. j # k => \E i \in 1 .. Len(j) : j[i] # k[i]
    BY <2>1, SeqEqual
  <2>4. QED
    BY <2>1, <2>2, <2>3
<1>3. QED
  BY <1>2, BytesOrdered

(* STRING keys have it as long as none begins another: beyond the end of the
   shorter one strncmp does not look. *)
THEOREM StringsOrdered ==
  ASSUME Key \subseteq Seq(1 .. 255),
         \A j, k \in Key : j # k => \E i \in 1 .. Shorter(j, k) : j[i] # k[i],
         \A j, k \in Key : Cmp(j, k) = mdbBtreeCmp("STRING", j, k)
  PROVE  KeysOrdered
<1>1. /\ datatypes["STRING"].header = 4
      /\ datatypes["STRING"].compare = "strncmp"
  BY DEF datatypes
<1>2. ASSUME NEW j \in Key, NEW k \in Key
      PROVE  Cmp(j, k) = memcmp(j, k, Shorter(j, k))
  <2>1. Cmp(j, k) = strncmp(j, k, Shorter(j, k))
    BY <1>1 DEF mdbBtreeCmp, Compare, Shorter
  <2>2. {i \in 1 .. Shorter(j, k) : j[i] = 0 /\ k[i] = 0} = {}
    <3>1. j \in Seq(1 .. 255) /\ Len(j) \in Nat /\ Len(k) \in Nat
      BY LenProperties
    <3>2. \A i \in 1 .. Shorter(j, k) : i \in 1 .. Len(j)
      BY <3>1 DEF Shorter
    <3>3. \A i \in 1 .. Len(j) : j[i] \in 1 .. 255
      BY <3>1, ElementOfSeq
    <3>4. ASSUME NEW i \in 1 .. Shorter(j, k)
          PROVE  j[i] # 0
      <4>1. j[i] \in 1 .. 255
        BY <3>2, <3>3
      <4>2. \A b \in 1 .. 255 : b # 0
        OBVIOUS
      <4>3. QED
        BY <4>1, <4>2, Zenon
    <3>5. QED
      BY <3>4
  <2>3. QED
    BY <2>1, <2>2 DEF strncmp
<1>3. Key \subseteq Seq(0 .. 255)
  <2>1. ASSUME NEW k \in Key
        PROVE  k \in Seq(0 .. 255)
    <3>1. k \in Seq(1 .. 255)
      OBVIOUS
    <3>2. 1 .. 255 \subseteq 0 .. 255
      OBVIOUS
    <3>3. QED
      BY <3>1, <3>2, SeqMonotonic
  <2>2. QED
    BY <2>1
<1>4. QED
  BY <1>2, <1>3, BytesOrdered
=============================================================================

---------------------------- MODULE CatalogProofs ----------------------------
(***************************************************************************)
(* Proofs about Catalog: whatever the statements are and wherever the      *)
(* program is killed, the blocks of the file lie apart, every table listed *)
(* has a tree, the system tables stay listed, and, if no two names compare *)
(* as equal, a table whose creation has returned is found ever after.      *)
(***************************************************************************)
EXTENDS Catalog, ListProofs

-----------------------------------------------------------------------------
(* The order of a tree is a positive number.                               *)

(* The larger of two numbers. *)
LEMMA MaxOfTwo ==
  ASSUME NEW a \in Int, NEW b \in Int
  PROVE  Max({a, b}) = IF a >= b THEN a ELSE b
<1> DEFINE m == IF a >= b THEN a ELSE b
<1>1. m \in {a, b} /\ \A y \in {a, b} : m >= y
  OBVIOUS
<1>2. \A x \in {a, b} : (\A y \in {a, b} : x >= y) => x = m
  OBVIOUS
<1>3. QED
  BY <1>1, <1>2 DEF Max

(* The sizes of nodes. *)
LEMMA Kilobytes ==
  /\ KB = 1024 /\ UPPER_NS = 1024 * 1024 /\ LOWER_NS = 1024
  /\ UPPER_NS \in Nat /\ UPPER_NS >= KB /\ UPPER_NS - 2 * KB \in Int
  /\ \A k \in 1 .. KB : k \in Nat
BY DEF UPPER_NS, LOWER_NS, KB

(* Division by a positive number, as the lemmas below use it. *)
LEMMA Quotient ==
  ASSUME NEW a \in Nat, NEW d \in Nat \ {0}
  PROVE  /\ a \div d \in Nat
         /\ d * (a \div d) <= a /\ a < d * (a \div d) + d
         /\ a < d => a \div d = 0
         /\ a >= d /\ a < 2 * d => a \div d = 1
<1>1. a \div d \in Int /\ d * (a \div d) <= a /\ a < d * (a \div d) + d
  BY Z3
<1>2. QED
  BY <1>1, Z3

(* What a node of the largest order leaves of the ideal size is less than a
   child and its record take twice. *)
LEMMA DifferenceFacts ==
  ASSUME NEW n \in Nat, n >= KB, NEW size \in Nat \ {0}
  PROVE  /\ LargestOrder(n, size) \in Nat
         /\ Difference(n, size) \in Nat
         /\ LargestOrder(n, size) = 0 =>
              n < size + 16 /\ Difference(n, size) = n + size - 8
         /\ n >= size + 16 /\ n < 3 * size + 24 =>
              Difference(n, size) = n - size - 16
<1> DEFINE a == n + size - 8
           d == (size + 4) * 2
           o == LargestOrder(n, size)
<1>1. a \in Nat /\ d \in Nat \ {0}
  BY DEF KB
<1>2. o = a \div d
  BY DEF LargestOrder
<1> HIDE DEF o
<1>3. /\ o \in Nat /\ d * o <= a /\ a < d * o + d
      /\ a < d => o = 0
      /\ a >= d /\ a < 2 * d => o = 1
  BY <1>1, <1>2, Quotient
<1>4. Difference(n, size) = a - d * o
  <2>1. Difference(n, size) = n - (2 * (o + 1) * 4 + (2 * o - 1) * size)
    BY DEF Difference, NodeSize, o
  <2>2. d * o = 2 * (size * o) + 8 * o
    BY <1>3
  <2>3. (2 * o - 1) * size = 2 * (size * o) - size
    BY <1>3
  <2> DEFINE m == size * o
  <2>4. m \in Int
    BY <1>3
  <2> HIDE DEF m
  <2>5. QED
    BY <1>3, <2>1, <2>2, <2>3, <2>4 DEF m
<1>5. d * o \in Int
  BY <1>1, <1>3
<1>6. Difference(n, size) \in Nat
  BY <1>1, <1>3, <1>4, <1>5
<1>7. ASSUME o = 0
      PROVE  n < size + 16 /\ Difference(n, size) = n + size - 8
  BY <1>3, <1>4, <1>7
<1>8. ASSUME n >= size + 16, n < 3 * size + 24
      PROVE  Difference(n, size) = n - size - 16
  <2>1. a >= d /\ a < 2 * d
    BY <1>8
  <2>2. d * o = d
    BY <1>1, <1>3, <2>1
  <2>3. QED
    BY <1>4, <2>2
<1>9. QED
  BY <1>3, <1>6, <1>7, <1>8 DEF o

(* A set of numbers up to a bound has a largest one. *)
LEMMA GreatestElement ==
  ASSUME NEW b \in Nat, NEW S \in SUBSET (0 .. b), S # {}
  PROVE  Max(S) \in S /\ \A y \in S : Max(S) >= y
<1> DEFINE Rest == {b - x : x \in S}
<1>0. \A x \in S : x \in Nat /\ b - x \in Nat
  OBVIOUS
<1>1. Rest \in SUBSET Nat /\ Rest # {}
  BY <1>0
<1>2. PICK r \in Rest : \A y \in Rest : r <= y
  BY <1>1, LeastElement
<1>3. PICK x \in S : r = b - x
  BY <1>2
<1>4. \A y \in S : x >= y
  BY <1>0, <1>2, <1>3
<1>5. QED
  BY <1>4 DEF Max

(* A set of numbers has its least one. *)
LEMMA MinElement ==
  ASSUME NEW S \in SUBSET Nat, S # {}
  PROVE  Min(S) \in S /\ \A y \in S : Min(S) <= y
<1>1. PICK x \in S : \A y \in S : x <= y
  BY LeastElement
<1>2. QED
  BY <1>1 DEF Min

(* The node size that mdbBtreeOptimalOrder goes by: of the multiples of 1 KB
   that hold a record, the last one with the least difference. *)
LEMMA BestSize ==
  ASSUME NEW size \in Nat, size # 0, size <= UPPER_NS - 2 * KB
  PROVE  /\ IdealSizes(size) = {m \in {k * KB : k \in 1 .. KB} : m >= size}
         /\ \A m \in IdealSizes(size) :
              /\ m \in 0 .. UPPER_NS /\ m >= KB /\ m >= size
              /\ Difference(m, size) \in Nat
         /\ \E n \in IdealSizes(size) :
              /\ mdbBtreeOptimalOrder(size) = LargestOrder(n, size)
              /\ \A m \in IdealSizes(size) :
                   /\ Difference(n, size) <= Difference(m, size)
                   /\ Difference(m, size) = Difference(n, size) => m <= n
<1>0. KB = 1024 /\ UPPER_NS = 1024 * 1024 /\ LOWER_NS = 1024
  BY Kilobytes
<1> DEFINE sizes == IdealSizes(size)
           differences == {Difference(n, size) : n \in sizes}
           best == {n \in sizes : Difference(n, size) = Min(differences)}
           n == Max(best)
<1>1. sizes = {m \in {k * KB : k \in 1 .. KB} : m >= size}
  <2>1. LOWER_NS \div KB = 1 /\ UPPER_NS \div KB = KB
    BY <1>0
  <2>2. \A m \in Nat : m \notin 0 .. size - 1 <=> m >= size
    OBVIOUS
  <2>3. \A k \in 1 .. KB : k * KB \in Nat
    BY <1>0
  <2>4. QED
    BY <2>1, <2>2, <2>3 DEF IdealSizes
<1>2. UPPER_NS \in sizes
  <2>1. UPPER_NS = KB * KB /\ KB \in 1 .. KB /\ UPPER_NS >= size
    BY <1>0
  <2>2. QED
    BY <1>1, <2>1
<1>3. \A m \in sizes : m \in 0 .. UPPER_NS /\ m >= KB /\ m >= size
  <2> SUFFICES ASSUME NEW m \in sizes
               PROVE  m \in 0 .. UPPER_NS /\ m >= KB /\ m >= size
    OBVIOUS
  <2>1. PICK k \in 1 .. KB : m = k * KB /\ m >= size
    BY <1>1
  <2>2. k \in Nat /\ 1 <= k /\ k <= 1024
    BY <1>0
  <2>3. k * 1024 \in Nat /\ k * 1024 <= 1024 * 1024 /\ k * 1024 >= 1024
    BY <2>2
  <2>4. m = k * 1024
    BY <1>0, <2>1
  <2>5. m \in Nat /\ m <= UPPER_NS /\ m >= KB
    BY <1>0, <2>3, <2>4
  <2>6. UPPER_NS \in Nat
    BY <1>0
  <2>7. QED
    BY <2>1, <2>5, <2>6
<1> HIDE DEF sizes
<1>5. size \in Nat \ {0} /\ UPPER_NS \in Nat
  BY <1>0
<1>6. \A m \in sizes : m \in Nat /\ Difference(m, size) \in Nat
  BY <1>3, <1>5, DifferenceFacts
<1>7. differences \in SUBSET Nat /\ differences # {}
  BY <1>2, <1>6
<1>8. Min(differences) \in differences /\ \A y \in differences : Min(differences) <= y
  BY <1>7, MinElement
<1>9. best \in SUBSET (0 .. UPPER_NS) /\ best # {}
  BY <1>3, <1>8
<1>10. n \in best
  BY <1>5, <1>9, GreatestElement
<1>11. n \in sizes /\ \A m \in sizes : Difference(n, size) <= Difference(m, size)
  BY <1>8, <1>10
<1>12. \A m \in sizes : Difference(m, size) = Difference(n, size) => m <= n
  <2> DEFINE least == Min(differences)
  <2>1. \A m \in best : n >= m
    BY <1>5, <1>9, GreatestElement
  <2>2. Difference(n, size) = least
    BY <1>10
  <2>3. n \in Nat /\ \A m \in best : m \in Nat
    BY <1>3, <1>11
  <2> HIDE DEF n, differences, least
  <2>4. QED
    BY <2>1, <2>2, <2>3 DEF least
<1>13. mdbBtreeOptimalOrder(size) = LargestOrder(n, size)
  BY DEF mdbBtreeOptimalOrder, sizes
<1> HIDE DEF differences, best, n
<1>14. QED
  BY <1>1, <1>3, <1>6, <1>11, <1>12, <1>13 DEF sizes

(* For a record that leaves a kilobyte or two of the largest node the order is
   positive: an ideal size into which the node of no order fits differs from it
   by almost twice the record, the ideal size after it by less. *)
LEMMA OrderPositive ==
  ASSUME NEW size \in Nat, size # 0, size <= UPPER_NS - 2 * KB
  PROVE  mdbBtreeOptimalOrder(size) \in Nat \ {0}
<1>0. KB = 1024 /\ UPPER_NS = 1024 * 1024 /\ LOWER_NS = 1024
  BY Kilobytes
<1> DEFINE sizes == IdealSizes(size)
<1>1. sizes = {m \in {k * KB : k \in 1 .. KB} : m >= size}
  BY BestSize
<1>2. PICK n \in sizes :
        /\ mdbBtreeOptimalOrder(size) = LargestOrder(n, size)
        /\ \A m \in sizes : Difference(n, size) <= Difference(m, size)
  BY BestSize
<1>3. n \in Nat /\ n >= KB /\ n >= size /\ n <= UPPER_NS /\ UPPER_NS \in Nat
  <2>1. n \in 0 .. UPPER_NS /\ n >= KB /\ n >= size
    BY BestSize
  <2>2. UPPER_NS \in Nat
    BY <1>0
  <2>3. QED
    BY <2>1, <2>2
<1>4. \A m \in sizes : m < UPPER_NS => m + KB \in sizes
  <2> SUFFICES ASSUME NEW m \in sizes, m < UPPER_NS
               PROVE  m + KB \in sizes
    OBVIOUS
  <2>1. PICK k \in 1 .. KB : m = k * KB /\ m >= size
    BY <1>1
  <2>2. k + 1 \in 1 .. KB /\ m + KB = (k + 1) * KB /\ m + KB >= size
    BY <2>1, <1>0
  <2>3. QED
    BY <1>1, <2>2
<1> HIDE DEF sizes
<1>5. size \in Nat \ {0}
  OBVIOUS
<1>6. LargestOrder(n, size) \in Nat
  BY <1>5, <1>3, DifferenceFacts
<1>7. ASSUME LargestOrder(n, size) = 0
       PROVE  FALSE
  <2>1. n < size + 16 /\ Difference(n, size) = n + size - 8
    BY <1>5, <1>3, <1>7, DifferenceFacts
  <2>2. n + KB \in sizes
    BY <1>4, <1>2, <1>3, <2>1, <1>0
  <2>3. n + KB >= size + 16 /\ n + KB < 3 * size + 24
    BY <1>3, <2>1, <1>0
  <2>4. Difference(n + KB, size) = n + KB - size - 16
    BY <1>5, <1>3, <2>3, DifferenceFacts, <1>0
  <2>5. n + KB - size - 16 < n + size - 8
    BY <1>3, <2>1, <1>0
  <2>6. QED
    BY <1>2, <1>3, <2>1, <2>2, <2>4, <2>5, <1>0
<1>8. QED
  BY <1>2, <1>6, <1>7

(* The size of a node grows with its order, by a child and a record twice. *)
LEMMA NodeSizeLinear ==
  ASSUME NEW o \in Int, NEW size \in Int
  PROVE  /\ ((size + 4) * 2) * o \in Int
         /\ NodeSize(o, size) = ((size + 4) * 2) * o + 8 - size
<1> DEFINE m == size * o
<1>1. m \in Int
  OBVIOUS
<1>2. ((size + 4) * 2) * o = 2 * m + 8 * o
  OBVIOUS
<1>3. (2 * o - 1) * size = 2 * m - size
  OBVIOUS
<1> HIDE DEF m
<1>4. NodeSize(o, size) = 2 * (o + 1) * 4 + (2 * m - size)
  BY <1>3 DEF NodeSize
<1>5. QED
  BY <1>1, <1>2, <1>4

(* The largest order is that of the largest node that fits, and only that one
   leaves as little of the ideal size. *)
LEMMA LargestFits ==
  ASSUME NEW n \in Nat, n >= KB, NEW size \in Nat \ {0}
  PROVE  /\ LargestOrder(n, size) \in Nat
         /\ Difference(n, size) = n - NodeSize(LargestOrder(n, size), size)
         /\ \A o \in Nat :
              NodeSize(o, size) <= n =>
                /\ o <= LargestOrder(n, size)
                /\ Difference(n, size) <= n - NodeSize(o, size)
                /\ Difference(n, size) = n - NodeSize(o, size) =>
                     o = LargestOrder(n, size)
<1> DEFINE p == LargestOrder(n, size)
           d == (size + 4) * 2
           a == n + size - 8
<1>1. a \in Nat /\ d \in Nat \ {0}
  BY DEF KB
<1>2. p = a \div d
  BY DEF LargestOrder
<1>3. Difference(n, size) = n - NodeSize(p, size)
  BY DEF Difference
<1> HIDE DEF p
<1>4. p \in Nat /\ d * p <= a /\ a < d * p + d
  BY <1>1, <1>2, Quotient
<1>5. d * p \in Int /\ NodeSize(p, size) = d * p + 8 - size
  BY <1>4, NodeSizeLinear
<1>6. ASSUME NEW o \in Nat, NodeSize(o, size) <= n
      PROVE  /\ o <= p
             /\ Difference(n, size) <= n - NodeSize(o, size)
             /\ Difference(n, size) = n - NodeSize(o, size) => o = p
  <2>1. d * o \in Int /\ NodeSize(o, size) = d * o + 8 - size
    BY NodeSizeLinear
  <2>2. d * o <= a
    BY <1>6, <2>1
  <2>3. o <= p
    <3>1. ASSUME o >= p + 1
          PROVE  FALSE
      <4> DEFINE k == o - (p + 1)
      <4>1. k \in Nat /\ o = p + 1 + k
        BY <1>4, <3>1
      <4> HIDE DEF k
      <4>2. d * o = d * p + d + d * k /\ d * k >= 0 /\ d * k \in Int
        BY <1>1, <1>4, <4>1
      <4> HIDE DEF d, a
      <4>3. QED
        BY <1>1, <1>4, <1>5, <2>1, <2>2, <4>2
    <3>2. QED
      BY <1>4, <3>1
  <2>4. /\ d * o <= d * p
        /\ d * o = d * p => o = p
    <3> DEFINE k == p - o
    <3>1. k \in Nat /\ p = o + k
      BY <1>4, <2>3
    <3> HIDE DEF k
    <3>2. d * p = d * o + d * k /\ d * k \in Int /\ d * k >= 0
      BY <1>1, <3>1
    <3>3. k # 0 => d * k # 0
      BY <1>1, <3>1
    <3> HIDE DEF d
    <3>4. QED
      BY <1>5, <2>1, <3>1, <3>2, <3>3
  <2> HIDE DEF d
  <2>5. QED
    BY <1>3, <1>5, <2>1, <2>3, <2>4
<1>7. QED
  BY <1>3, <1>4, <1>6 DEF p

(* What is left of the last kilobyte: so much more, and nothing less, makes a
   multiple of a kilobyte of it. *)
LEMMA WasteFacts ==
  ASSUME NEW x \in Nat \ {0}, x <= UPPER_NS
  PROVE  /\ (-x) % KB \in Nat
         /\ \E k \in 1 .. KB : x + ((-x) % KB) = k * KB
         /\ \A k \in Nat : k * KB >= x => (-x) % KB <= k * KB - x
<1>0. KB = 1024 /\ UPPER_NS = 1024 * 1024
  BY DEF KB, UPPER_NS
<1> DEFINE w == (-x) % 1024
           q == (-x) \div 1024
<1>1. w \in 0 .. 1023 /\ q \in Int /\ -x = 1024 * q + w
  OBVIOUS
<1> HIDE DEF w, q
<1>2. x + w = (-q) * 1024
  BY <1>1
<1>3. -q \in 1 .. 1024
  BY <1>0, <1>1
<1>4. \E k \in 1 .. 1024 : x + w = k * 1024
  BY <1>2, <1>3
<1>5. ASSUME NEW k \in Nat, k * 1024 >= x
      PROVE  w <= k * 1024 - x
  BY <1>1, <1>5
<1>6. (-x) % KB = w
  BY <1>0 DEF w
<1>7. w \in Nat
  BY <1>1
<1>8. KB = 1024
  BY <1>0
<1> DEFINE W == (-x) % KB
<1>9. W = w
  BY <1>6
<1> HIDE DEF W, KB
<1>10. W \in Nat /\ \E k \in 1 .. KB : x + W = k * KB
  BY <1>4, <1>7, <1>8, <1>9
<1>11. \A k \in Nat : k * KB >= x => W <= k * KB - x
  BY <1>5, <1>8, <1>9
<1>12. QED
  BY <1>10, <1>11 DEF W

(* mdbBtreeOptimalOrder is optimal: of all orders whose node has at most 1 MB
   the one it returns leaves least of the node's last kilobyte, and the largest
   of those that leave as little, though it only looks at the largest order for
   each size. *)
THEOREM OptimalOrderIsOptimal ==
  ASSUME NEW size \in 1 .. UPPER_NS - 2 * KB,
         mdbBtreeOptimalOrder(size) >= 2
  PROVE  IsOptimal(mdbBtreeOptimalOrder(size), size)
<1>0. KB = 1024 /\ UPPER_NS = 1024 * 1024 /\ LOWER_NS = 1024
  BY Kilobytes
<1> DEFINE best == mdbBtreeOptimalOrder(size)
<1>1. size \in Nat /\ size # 0 /\ size <= UPPER_NS - 2 * KB /\ UPPER_NS \in Nat
  <2> DEFINE most == UPPER_NS - 2 * KB
  <2>1. most \in Int /\ UPPER_NS \in Nat
    BY Kilobytes
  <2>2. size \in 1 .. most
    OBVIOUS
  <2> HIDE DEF most
  <2>3. size \in Nat /\ size # 0 /\ size <= most
    BY <2>1, <2>2
  <2>4. QED
    BY <2>1, <2>3 DEF most
<1>2. IdealSizes(size) = {m \in {k * KB : k \in 1 .. KB} : m >= size}
  BY <1>1, BestSize
<1>3. \A m \in IdealSizes(size) :
        m \in Nat /\ m <= UPPER_NS /\ m >= KB /\ m >= size /\ Difference(m, size) \in Nat
  <2>1. \A m \in IdealSizes(size) :
          m \in 0 .. UPPER_NS /\ m >= KB /\ m >= size /\ Difference(m, size) \in Nat
    BY <1>1, BestSize
  <2>2. QED
    BY <1>1, <2>1
<1>4. PICK n \in IdealSizes(size) :
        /\ best = LargestOrder(n, size)
        /\ \A m \in IdealSizes(size) :
             /\ Difference(n, size) <= Difference(m, size)
             /\ Difference(m, size) = Difference(n, size) => m <= n
  BY <1>1, BestSize
<1> HIDE DEF best
<1>5. /\ best \in Nat /\ best >= 2
      /\ Difference(n, size) = n - NodeSize(best, size)
  BY <1>1, <1>3, <1>4, LargestFits DEF best
<1>6. ASSUME NEW o \in Nat \ {0}, NodeSize(o, size) <= UPPER_NS
      PROVE  /\ NodeSize(o, size) \in Nat \ {0} /\ Waste(o, size) \in Nat
             /\ NodeSize(o, size) + Waste(o, size) \in IdealSizes(size)
             /\ \A k \in Nat : k * KB >= NodeSize(o, size) =>
                  Waste(o, size) <= k * KB - NodeSize(o, size)
  <2> DEFINE x == NodeSize(o, size)
             w == Waste(o, size)
  <2>1. x \in Nat \ {0} /\ x >= size
    <3>1. (2 * o - 1) * size >= size /\ (2 * o - 1) * size \in Int
      <4> DEFINE k == (o - 1) * size
      <4>1. k \in Int /\ k >= 0
        BY <1>1, SMTT(30)
      <4>2. (2 * o - 1) * size = 2 * k + size
        BY <1>1, SMTT(30)
      <4> HIDE DEF k
      <4>3. QED
        BY <1>1, <4>1, <4>2
    <3>2. x = 2 * (o + 1) * 4 + (2 * o - 1) * size
      BY DEF NodeSize
    <3> HIDE DEF x
    <3>3. QED
      BY <1>1, <3>1, <3>2
  <2> HIDE DEF x
  <2>2. w = (-x) % KB
    BY DEF Waste, x
  <2> HIDE DEF w
  <2>3. /\ w \in Nat
        /\ \E k \in 1 .. KB : x + w = k * KB
        /\ \A k \in Nat : k * KB >= x => w <= k * KB - x
    BY <1>6, <2>1, <2>2, WasteFacts DEF x
  <2>4. x + w \in IdealSizes(size)
    BY <1>1, <1>2, <2>1, <2>3
  <2>5. QED
    BY <2>1, <2>3, <2>4 DEF x, w
<1>7. NodeSize(best, size) <= UPPER_NS
  <2>1. NodeSize(best, size) \in Int
    BY <1>1, <1>5, NodeSizeLinear
  <2>2. QED
    BY <1>1, <1>3, <1>4, <1>5, <2>1
<1>8. Waste(best, size) = Difference(n, size)
  <2>1. \A j \in 1 .. KB : j \in Nat
    BY Kilobytes
  <2>2. PICK k \in Nat : n = k * KB
    BY <1>2, <2>1
  <2> DEFINE x == NodeSize(best, size)
             w == Waste(best, size)
  <2>3. /\ x \in Nat \ {0} /\ w \in Nat /\ x + w \in IdealSizes(size)
        /\ \A j \in Nat : j * KB >= x => w <= j * KB - x
    BY <1>5, <1>6, <1>7
  <2> HIDE DEF w
  <2>4. Difference(n, size) = n - x /\ Difference(n, size) \in Nat
    BY <1>3, <1>5
  <2>5. x \in Nat /\ n >= x /\ n \in Nat
    BY <1>3, <2>3, <2>4
  <2>6. w <= Difference(n, size)
    BY <2>2, <2>3, <2>4, <2>5
  <2>7. Difference(x + w, size) <= w
    <3> DEFINE y == x + w
    <3>1. y \in Nat /\ y >= KB
      BY <1>3, <2>3
    <3>2. x <= y
      BY <2>3
    <3> HIDE DEF y
    <3>3. Difference(y, size) <= y - x
      BY <1>1, <1>5, <3>1, <3>2, LargestFits
    <3> HIDE DEF x
    <3>4. y - x = w
      BY <2>3 DEF y
    <3>5. QED
      BY <3>3, <3>4 DEF y
  <2>8. Difference(n, size) <= Difference(x + w, size) /\ Difference(x + w, size) \in Nat
    BY <1>3, <1>4, <2>3
  <2> HIDE DEF x
  <2>9. QED
    BY <2>3, <2>4, <2>6, <2>7, <2>8 DEF w
<1>9. ASSUME NEW o \in 1 .. LargestOrder(UPPER_NS, size)
      PROVE  \/ Waste(best, size) < Waste(o, size)
             \/ Waste(best, size) = Waste(o, size) /\ o <= best
  <2> DEFINE top == LargestOrder(UPPER_NS, size)
             x == NodeSize(o, size)
             w == Waste(o, size)
             m == x + w
  <2>1. top \in Nat /\ Difference(UPPER_NS, size) = UPPER_NS - NodeSize(top, size)
        /\ Difference(UPPER_NS, size) \in Nat
    <3>1. UPPER_NS >= KB
      BY Kilobytes
    <3>2. QED
      BY <1>1, <3>1, LargestFits, DifferenceFacts
  <2> HIDE DEF top
  <2>2. o \in Nat \ {0} /\ o <= top
    BY <2>1 DEF top
  <2>3. NodeSize(top, size) \in Int /\ x \in Int /\ x <= NodeSize(top, size)
    <3> DEFINE d == (size + 4) * 2
               j == top - o
    <3>1. /\ d * top \in Int /\ NodeSize(top, size) = d * top + 8 - size
          /\ d * o \in Int /\ x = d * o + 8 - size
      BY <1>1, <2>1, <2>2, NodeSizeLinear
    <3>2. j \in Nat /\ top = o + j
      BY <2>1, <2>2
    <3> HIDE DEF j
    <3>3. d \in Nat
      BY <1>1
    <3> HIDE DEF d
    <3>4. d * top = d * o + d * j /\ d * j \in Int /\ d * j >= 0
      BY <2>2, <3>2, <3>3
    <3> HIDE DEF x
    <3>5. QED
      BY <1>1, <3>1, <3>4
  <2>4. x <= UPPER_NS
    <3> HIDE DEF x
    <3>1. QED
      BY <1>1, <2>1, <2>3
  <2>5. x \in Nat \ {0} /\ w \in Nat /\ m \in IdealSizes(size)
    BY <1>6, <2>2, <2>4
  <2> HIDE DEF w
  <2>6. /\ m \in Nat /\ m >= KB /\ x <= m /\ m - x = w
    <3> HIDE DEF x
    <3>1. QED
      BY <1>3, <2>5
  <2> HIDE DEF m
  <2>7. /\ LargestOrder(m, size) \in Nat
        /\ Difference(m, size) <= w
        /\ Difference(m, size) = w => o = LargestOrder(m, size)
    BY <1>1, <2>2, <2>6, LargestFits
  <2>8. /\ Difference(n, size) <= Difference(m, size)
        /\ Difference(m, size) = Difference(n, size) => m <= n
        /\ Difference(m, size) \in Nat /\ Difference(n, size) \in Nat
    BY <1>3, <1>4, <2>5
  <2>9. CASE Difference(n, size) = w
    <3>1. Difference(m, size) = w /\ m <= n
      BY <2>5, <2>7, <2>8, <2>9
    <3>2. o = LargestOrder(m, size)
      BY <2>7, <3>1
    <3>3. x <= n /\ n \in Nat /\ n >= KB
      <4>1. n \in Nat /\ n >= KB
        BY <1>3
      <4> HIDE DEF x
      <4>2. QED
        BY <2>5, <2>6, <3>1, <4>1
    <3>4. o <= best
      BY <1>1, <1>4, <2>2, <3>3, LargestFits
    <3>5. QED
      BY <1>8, <2>9, <3>4 DEF w
  <2>10. CASE Difference(n, size) # w
    BY <1>8, <2>5, <2>7, <2>8, <2>10 DEF w
  <2>11. QED
    BY <2>9, <2>10
<1>10. QED
  BY <1>5, <1>7, <1>9 DEF IsOptimal, best

(* The orders and sizes of the trees that a database can have. *)
LEMMA Sizes ==
  ASSUME NEW size \in RecordSizes
  PROVE  /\ size \in Nat \ {0}
         /\ Orders[size] \in Nat \ {0}
<1>1. size \in 1 .. UPPER_NS - 2 * KB
  BY SizesAssumption
<1>2. UPPER_NS - 2 * KB \in Int
  BY DEF UPPER_NS, KB
<1>3. size \in Nat /\ size # 0 /\ size <= UPPER_NS - 2 * KB
  BY <1>1, <1>2
<1>4. QED
  BY <1>3, OrderPositive DEF Orders

(* A node is larger than nothing. *)
LEMMA NodeSizePositive ==
  ASSUME NEW order \in Nat \ {0}, NEW size \in Nat \ {0}
  PROVE  NodeSize(order, size) \in Nat \ {0}
<1>1. (2 * order - 1) * size \in Nat
  BY SMTT(30)
<1>2. QED
  BY <1>1 DEF NodeSize

-----------------------------------------------------------------------------
(* Names.                                                                  *)

(* The first element at which two keys differ decides. *)
LEMMA MemcmpInt ==
  ASSUME NEW k1 \in Seq(Nat), NEW k2 \in Seq(Nat), NEW n \in Nat,
         n <= Len(k1), n <= Len(k2)
  PROVE  /\ memcmp(k1, k2, n) \in Int
         /\ n > 0 /\ k1[1] # k2[1] => memcmp(k1, k2, n) # 0
<1>1. \A i \in 1 .. n : k1[i] \in Nat /\ k2[i] \in Nat
  <2>1. Len(k1) \in Nat /\ Len(k2) \in Nat
    BY LenProperties
  <2>2. \A i \in 1 .. n : i \in 1 .. Len(k1) /\ i \in 1 .. Len(k2)
    BY <2>1
  <2>3. QED
    BY <2>2, ElementOfSeq
<1>2. CASE \E i \in 1 .. n : Decides(k1, k2, n, i)
  <2> DEFINE i == CHOOSE j \in 1 .. n : Decides(k1, k2, n, j)
  <2>1. i \in 1 .. n /\ Decides(k1, k2, n, i)
    BY <1>2
  <2>2. memcmp(k1, k2, n) = k1[i] - k2[i]
    BY <1>2 DEF memcmp
  <2> HIDE DEF i
  <2>3. k1[i] \in Nat /\ k2[i] \in Nat
    BY <1>1, <2>1
  <2>4. k1[i] # k2[i] /\ \A j \in 1 .. i - 1 : k1[j] = k2[j]
    BY <2>1 DEF Decides
  <2>5. memcmp(k1, k2, n) \in Int /\ memcmp(k1, k2, n) # 0
    BY <2>2, <2>3, <2>4
  <2>6. QED
    BY <2>5
<1>3. CASE ~ \E i \in 1 .. n : Decides(k1, k2, n, i)
  <2>1. memcmp(k1, k2, n) = 0
    BY <1>3 DEF memcmp
  <2>2. ASSUME n > 0, k1[1] # k2[1]
        PROVE  FALSE
    <3>1. 1 \in 1 .. n /\ \A j \in 1 .. 1 - 1 : k1[j] = k2[j]
      BY <2>2
    <3>2. Decides(k1, k2, n, 1)
      BY <2>2, <3>1 DEF Decides
    <3>3. QED
      BY <1>3, <3>1, <3>2
  <2>3. QED
    BY <2>1, <2>2
<1>4. QED
  BY <1>2, <1>3

(* Names can be compared, and those that begin differently differ. *)
LEMMA CmpInt ==
  ASSUME NEW k1 \in Seq(Nat), NEW k2 \in Seq(Nat)
  PROVE  /\ CmpNames(k1, k2) \in Int
         /\ k1 # <<>> /\ k2 # <<>> /\ k1[1] # k2[1] => CmpNames(k1, k2) # 0
<1> DEFINE n == IF Len(k2) < Len(k1) THEN Len(k2) ELSE Len(k1)
           ends == {i \in 1 .. n : k1[i] = 0 /\ k2[i] = 0}
           stop == IF ends = {} THEN n
                   ELSE CHOOSE i \in ends : \A j \in ends : i <= j
<1>1. n \in Nat /\ n <= Len(k1) /\ n <= Len(k2)
  BY LenProperties
<1>2. k1 # <<>> /\ k2 # <<>> => n > 0
  <2>1. Len(k1) \in Nat /\ Len(k2) \in Nat
    BY LenProperties
  <2>2. k1 # <<>> /\ k2 # <<>> => Len(k1) # 0 /\ Len(k2) # 0
    BY EmptySeq
  <2>3. QED
    BY <2>1, <2>2
<1>3. CmpNames(k1, k2) = strncmp(k1, k2, n)
  <2>1. datatypes["STRING"] = [header |-> 4, size |-> 1, compare |-> "strncmp"]
    BY DEF datatypes
  <2>2. CmpNames(k1, k2) = Compare("strncmp", k1, k2, n)
    BY <2>1 DEF CmpNames, mdbBtreeCmp
  <2>3. QED
    BY <2>2 DEF Compare
<1>4. strncmp(k1, k2, n) = memcmp(k1, k2, stop)
  BY DEF strncmp
<1>5. stop \in Nat /\ stop <= n /\ (n > 0 => stop > 0)
  <2>1. CASE ends = {}
    BY <1>1, <2>1
  <2>2. CASE ends # {}
    <3>1. ends \in SUBSET Nat
      BY <1>1
    <3>2. \E x \in ends : \A y \in ends : x <= y
      BY <2>2, <3>1, LeastElement
    <3>3. stop \in ends
      BY <2>2, <3>2
    <3>4. stop \in 1 .. n
      BY <3>3
    <3> HIDE DEF stop, n
    <3>5. QED
      BY <1>1, <3>4
  <2>3. QED
    BY <2>1, <2>2
<1> HIDE DEF n, stop
<1>6. stop <= Len(k1) /\ stop <= Len(k2)
  BY <1>1, <1>5, LenProperties
<1>7. QED
  BY <1>2, <1>3, <1>4, <1>5, <1>6, MemcmpInt

-----------------------------------------------------------------------------
(* The root of .Tables.                                                    *)

(* Where these are: the descriptors of the system tables. *)
SystemMetas == {MetaOf[s] : s \in System}

(* It lists tables whose descriptors are among these, and those of the system
   tables under the system tables' names only. *)
Lists(n, descriptors) ==
  /\ n.recs \in Seq(ToSet(n.recs))
  /\ \A e \in ToSet(n.recs) :
       /\ e.key \in Seq(Nat)
       /\ e.btree \in descriptors
       /\ e.btree \in SystemMetas => \E s \in System : e.key = SystemName[s]

(* The system tables and their places. *)
LEMMA SystemFacts ==
  /\ System = {"tables", "columns", "indexes"}
  /\ MetaOf["tables"] = 132 /\ MetaOf["columns"] = 148 /\ MetaOf["indexes"] = 164
  /\ SystemMetas = {132, 148, 164} /\ Placeholder = 180
  /\ sizeofHeader = 132 /\ sizeofMeta = 16
  /\ \A s \in System : SystemName[s] \in Seq(Nat) /\ SystemName[s] # <<>>
                       /\ SystemName[s][1] = 46
<1>1. System = {"tables", "columns", "indexes"}
  BY DEF System, MetaOf
<1>2. /\ MetaOf["tables"] = 132 /\ MetaOf["columns"] = 148
      /\ MetaOf["indexes"] = 164 /\ Placeholder = 180
      /\ sizeofHeader = 132 /\ sizeofMeta = 16
  BY DEF MetaOf, sizeofHeader, sizeofMeta, Placeholder
<1>3. SystemMetas = {132, 148, 164}
  BY <1>1, <1>2 DEF SystemMetas
<1>4. /\ SystemName["tables"] = <<46, 84, 97, 98, 108, 101, 115>>
      /\ SystemName["columns"] = <<46, 67, 111, 108, 117, 109, 110, 115>>
      /\ SystemName["indexes"] = <<46, 73, 110, 100, 101, 120, 101, 115>>
  BY DEF SystemName
<1>5. SystemName["tables"] \in Seq(Nat) /\ SystemName["tables"][1] = 46 /\ SystemName["tables"] # <<>>
  BY <1>4
<1>6. SystemName["columns"] \in Seq(Nat) /\ SystemName["columns"][1] = 46 /\ SystemName["columns"] # <<>>
  BY <1>4
<1>7. SystemName["indexes"] \in Seq(Nat) /\ SystemName["indexes"][1] = 46 /\ SystemName["indexes"] # <<>>
  BY <1>4
<1>8. QED
  BY <1>1, <1>2, <1>3, <1>5, <1>6, <1>7

(* Bytes are numbers. *)
LEMMA BytesAreNumbers ==
  ASSUME NEW s \in Seq(0 .. 255)
  PROVE  s \in Seq(Nat)
<1>1. Len(s) \in Nat /\ s \in [1 .. Len(s) -> 0 .. 255]
  BY LenProperties
<1>2. \A x \in 0 .. 255 : x \in Nat
  OBVIOUS
<1>3. s \in [1 .. Len(s) -> Nat]
  BY <1>1, <1>2
<1>4. QED
  BY <1>1, <1>3, IsASeq

(* The names of a program's tables, and that none is like a system table's. *)
LEMMA NameFacts ==
  ASSUME NEW name \in Names
  PROVE  /\ name \in Seq(Nat)
         /\ \A s \in System : CmpNames(name, SystemName[s]) # 0
<1>1. name \in Seq(0 .. 255) /\ name # <<>> /\ name[1] # 46
  BY NamesAssumption
<1>2. name \in Seq(Nat)
  BY <1>1, BytesAreNumbers
<1>3. ASSUME NEW s \in System
      PROVE  CmpNames(name, SystemName[s]) # 0
  <2> DEFINE other == SystemName[s]
  <2>1. other \in Seq(Nat) /\ other # <<>> /\ other[1] = 46
    BY SystemFacts
  <2> HIDE DEF other
  <2>2. name[1] # other[1]
    BY <1>1, <2>1
  <2>3. CmpNames(name, other) # 0
    BY <1>1, <1>2, <2>1, <2>2, CmpInt
  <2>4. QED
    BY <2>3 DEF other
<1>4. QED
  BY <1>2, <1>3

(* The records of a leaf have names. *)
Keyed(n) ==
  n.recs \in Seq(ToSet(n.recs)) /\ \A e \in ToSet(n.recs) : e.key \in Seq(Nat)

(* The record at a place. *)
LEMMA KeyedFacts ==
  ASSUME NEW n, Keyed(n)
  PROVE  /\ Len(n.recs) \in Nat
         /\ \A i \in 1 .. Len(n.recs) :
              n.recs[i] \in ToSet(n.recs) /\ n.recs[i].key \in Seq(Nat)
         /\ \A e \in ToSet(n.recs) : \E i \in 1 .. Len(n.recs) : n.recs[i] = e
BY LenProperties, ElementOfSeq, ElementsOf DEF Keyed

(* The search stops somewhere. *)
LEMMA SlotStops ==
  ASSUME NEW n, Keyed(n), NEW k \in Seq(Nat)
  PROVE  /\ SlotOf(n, k) \in 1 .. Len(n.recs) + 1
         /\ \A j \in 1 .. Len(n.recs) :
              j < SlotOf(n, k) => CmpNames(k, n.recs[j].key) > 0
         /\ SlotOf(n, k) <= Len(n.recs) => CmpNames(k, n.recs[SlotOf(n, k)].key) <= 0
<1>1. Len(n.recs) \in Nat /\ \A i \in 1 .. Len(n.recs) : n.recs[i].key \in Seq(Nat)
  BY KeyedFacts
<1>2. \A i \in 1 .. Len(n.recs) : CmpNames(k, n.recs[i].key) \in Int
  BY <1>1, CmpInt
<1> DEFINE stops == {i \in 1 .. Len(n.recs) : CmpNames(k, n.recs[i].key) <= 0}
           slot == IF stops = {} THEN Len(n.recs) + 1
                   ELSE CHOOSE i \in stops : \A j \in stops : i <= j
<1>3. /\ slot \in 1 .. Len(n.recs) + 1
      /\ \A j \in 1 .. Len(n.recs) : j < slot => CmpNames(k, n.recs[j].key) > 0
      /\ slot <= Len(n.recs) => CmpNames(k, n.recs[slot].key) <= 0
  <2>1. CASE stops = {}
    <3>1. slot = Len(n.recs) + 1
      BY <2>1
    <3>2. \A y \in 1 .. Len(n.recs) : CmpNames(k, n.recs[y].key) > 0
      BY <1>2, <2>1
    <3> HIDE DEF slot, stops
    <3>3. QED
      BY <1>1, <3>1, <3>2
  <2>2. CASE stops # {}
    <3>1. stops \in SUBSET Nat
      BY <1>1
    <3>2. \E x \in stops : \A y \in stops : x <= y
      BY <2>2, <3>1, LeastElement
    <3>3. slot \in stops /\ \A y \in stops : slot <= y
      BY <2>2, <3>2
    <3>4. \A y \in stops : y \in 1 .. Len(n.recs) /\ CmpNames(k, n.recs[y].key) <= 0
      OBVIOUS
    <3>5. \A y \in 1 .. Len(n.recs) : y \notin stops => CmpNames(k, n.recs[y].key) > 0
      BY <1>2
    <3> HIDE DEF slot, stops
    <3>6. QED
      BY <1>1, <3>3, <3>4, <3>5
  <2>3. QED
    BY <2>1, <2>2
<1> HIDE DEF slot
<1>4. Leaf!Stops(n, k, slot)
  <2>1. \A j \in 1 .. slot - 1 : j \in 1 .. Len(n.recs) /\ j < slot
    BY <1>1, <1>3
  <2>2. QED
    BY <1>3, <2>1 DEF Leaf!Stops, Leaf!Count, KeyOfRecord
<1> DEFINE at == SlotOf(n, k)
<1>5. at \in 1 .. Len(n.recs) + 1 /\ Leaf!Stops(n, k, at)
  BY <1>3, <1>4 DEF SlotOf, Leaf!Count
<1> HIDE DEF at
<1>6. /\ \A j \in 1 .. at - 1 : CmpNames(k, n.recs[j].key) > 0
      /\ at <= Len(n.recs) => CmpNames(k, n.recs[at].key) <= 0
  BY <1>5 DEF Leaf!Stops, Leaf!Count, KeyOfRecord
<1>7. \A j \in 1 .. Len(n.recs) : j < at => j \in 1 .. at - 1
  BY <1>1, <1>5
<1>8. QED
  BY <1>5, <1>6, <1>7 DEF at

(* What is found compares as equal. *)
LEMMA FoundCompares ==
  ASSUME NEW n, Keyed(n), NEW k, Collides(n, k)
  PROVE  Found(n, k) \in ToSet(n.recs) /\ CmpNames(k, Found(n, k).key) = 0
<1> DEFINE i == CHOOSE j \in 1 .. Leaf!Count(n) : HitsAt(n, k, j)
<1>1. i \in 1 .. Leaf!Count(n) /\ HitsAt(n, k, i)
  BY DEF Collides
<1>2. Found(n, k) = n.recs[i]
  BY DEF Found
<1> HIDE DEF i
<1>3. i \in 1 .. Len(n.recs) /\ CmpNames(k, n.recs[i].key) = 0
  BY <1>1 DEF HitsAt, Leaf!Hits, Leaf!Count, KeyOfRecord
<1>4. QED
  BY <1>2, <1>3, KeyedFacts

(* A row more in .Tables. *)
LEMMA InsertedLists ==
  ASSUME NEW n, NEW d, Lists(n, d),
         NEW r, r.key \in Seq(Nat), r.btree \in d,
         r.btree \in SystemMetas => \E s \in System : r.key = SystemName[s]
  PROVE  Lists(Inserted(n, r), d)
<1>1. CASE Collides(n, r.key)
  BY <1>1 DEF Inserted
<1>2. CASE ~Collides(n, r.key)
  <2> DEFINE S == ToSet(n.recs) \cup {r}
             i == SlotOf(n, r.key)
             new == InsertAt(n.recs, i, r)
  <2>1. Inserted(n, r).recs = new
    <3>1. Inserted(n, r) = Leaf!WithRecord(n, i, r)
      BY <1>2 DEF Inserted
    <3> HIDE DEF i
    <3>2. Leaf!WithRecord(n, i, r).recs = Leaf!InsertAt(n.recs, i, r)
      BY DEF Leaf!WithRecord, Leaf!Holding
    <3>3. Leaf!InsertAt(n.recs, i, r) = InsertAt(n.recs, i, r)
      BY DEF Leaf!InsertAt, InsertAt
    <3>4. QED
      BY <3>1, <3>2, <3>3
  <2>2. n.recs \in Seq(S)
    <3>1. n.recs \in Seq(ToSet(n.recs))
      BY DEF Lists
    <3>2. QED
      BY <3>1, SeqMonotonic
  <2>3. i \in 1 .. Len(n.recs) + 1
    BY SlotStops DEF Lists, Keyed
  <2> HIDE DEF i
  <2>4. new \in Seq(S) /\ ToSet(new) = ToSet(n.recs) \cup {r}
    BY <2>2, <2>3, InsertAtSeq, InsertAtSet
  <2> HIDE DEF new, S
  <2>5. new \in Seq(ToSet(new))
    BY <2>4 DEF S
  <2>6. \A e \in ToSet(new) : e \in ToSet(n.recs) \/ e = r
    BY <2>4
  <2>7. QED
    BY <2>1, <2>5, <2>6 DEF Lists
<1>3. QED
  BY <1>1, <1>2

(* The record found under a name is listed, and no system table's. *)
LEMMA FoundListed ==
  ASSUME NEW n, NEW d, Lists(n, d), NEW name \in Names, Collides(n, name)
  PROVE  Found(n, name).btree \in d \ SystemMetas
BY FoundCompares, NameFacts DEF Lists, Keyed

-----------------------------------------------------------------------------
(* The invariant.                                                          *)

(* A descriptor of a tree. *)
Descriptor ==
  [order : Nat \ {0}, record_size : Nat \ {0}, root_position : Nat \ {0}]

(* Blocks end inside the file: descriptors after the header, nodes after the
   descriptors of the system tables. *)
Sized ==
  /\ length \in Nat
  /\ length # 0 => Placeholder <= length
  /\ \A p \in DOMAIN metas :
       p \in Nat /\ sizeofHeader <= p /\ p + sizeofMeta <= length
  /\ \A p \in DOMAIN nodes :
       /\ p \in Nat /\ Placeholder <= p
       /\ nodes[p].size \in Nat \ {0} /\ p + nodes[p].size <= length

(* No block reaches into another one. *)
Apart ==
  /\ \A p, q \in DOMAIN metas : p # q => p + sizeofMeta <= q \/ q + sizeofMeta <= p
  /\ \A p, q \in DOMAIN nodes : p # q => p + nodes[p].size <= q \/ q + nodes[q].size <= p
  /\ \A p \in DOMAIN metas, q \in DOMAIN nodes :
       p + sizeofMeta <= q \/ q + nodes[q].size <= p

(* Every descriptor has a root of its own, as large as it says. *)
Rooted ==
  /\ \A p \in DOMAIN metas :
       /\ metas[p] \in Descriptor
       /\ metas[p].root_position \in DOMAIN nodes
       /\ nodes[metas[p].root_position].size = nodeSize(metas[p])
  /\ \A p, q \in DOMAIN metas :
       metas[p].root_position = metas[q].root_position => p = q

(* Once the file has its magic number the system tables' descriptors are there. *)
Described == \A s \in System : MetaOf[s] \in DOMAIN metas

(* The file. *)
FileInv ==
  /\ Sized /\ Apart /\ Rooted
  /\ magic \in BOOLEAN
  /\ magic => Described /\ Lists(OnFile("tables"), DOMAIN metas)

(* A tree as mdbBtreeCreate and mdbBtreeLoad make it. *)
IsTree(t) == t = Tree(t.meta, t.root, t.position)

(* A tree in memory is that of a descriptor. *)
TreeOf(t, p) ==
  IsTree(t) /\ t.meta = metas[p] /\ t.position = metas[p].root_position

(* The database in memory. *)
Opened ==
  /\ magic
  /\ db = [s \in System |-> db[s]]
  /\ \A s \in System : TreeOf(db[s], MetaOf[s])
  /\ Lists(db.tables.root, DOMAIN metas)

(* The descriptor of a new system table; its root comes later. *)
SystemMeta(s) == mdbBtreeCreate(0, sizeofRecord[s])

(* Where a new database has its second root, and *)
Second == Placeholder + nodeSize(SystemMeta("tables"))

(* its third. *)
Third == Second + nodeSize(SystemMeta("columns"))

(* A new database, of which only two roots are in the file. *)
Starting ==
  /\ ~magic /\ DOMAIN metas = {}
  /\ length = Third /\ DOMAIN nodes = {Placeholder, Second}
  /\ nodes[Placeholder].size = nodeSize(SystemMeta("tables"))
  /\ nodes[Second].size = nodeSize(SystemMeta("columns"))
  /\ db = [s \in System |-> db[s]]
  /\ \A s \in System : IsTree(db[s]) /\ db[s].meta = SystemMeta(s)
  /\ db["tables"].position = Placeholder /\ db["columns"].position = Second
  /\ Lists(db.tables.root, SystemMetas)

(* The virtual table has the tree of a table that is no system table. *)
Loaded ==
  /\ tbl = [name |-> tbl.name, columns |-> tbl.columns, btree |-> tbl.btree,
            tree |-> tbl.tree, listed |-> tbl.listed, new |-> tbl.new]
  /\ tbl.name \in Names
  /\ tbl.btree \in DOMAIN metas \ SystemMetas
  /\ TreeOf(tbl.tree, tbl.btree)

(* Where a virtual table is in use. *)
Working == {"list table", "list columns", "created", "loaded"}

(* The inductive invariant. *)
CatalogInv ==
  /\ FileInv
  /\ pc \in Working \cup {"idle", "create database"}
  /\ pc = "create database" => Starting
  /\ pc = "idle" /\ db # None => Opened
  /\ pc \in Working => Opened /\ Loaded

-----------------------------------------------------------------------------
(* Writing.                                                                *)

(* One block of the file written. *)
LEMMA PutFacts ==
  ASSUME NEW f, NEW d, NEW e
  PROVE  /\ DOMAIN Put(f, d, e) = {d} \cup DOMAIN f
         /\ Put(f, d, e)[d] = e
         /\ \A x \in DOMAIN f : x # d => Put(f, d, e)[x] = f[x]
BY DEF Put

(* What a descriptor takes up is known. *)
LEMMA DescriptorFacts ==
  ASSUME NEW m \in Descriptor
  PROVE  /\ nodeSize(m) \in Nat \ {0} /\ m.root_position \in Nat \ {0}
         /\ m.order # 0
         /\ m = [order |-> m.order, record_size |-> m.record_size,
                 root_position |-> m.root_position]
BY NodeSizePositive DEF Descriptor, nodeSize

(* A tree in the file is read as its descriptor says. *)
LEMMA ReadTreeFacts ==
  ASSUME Rooted, NEW p \in DOMAIN metas
  PROVE  /\ TreeOf(ReadTree(metas[p]), p)
         /\ ReadTree(metas[p]).root = nodes[metas[p].root_position].node
<1> DEFINE m == metas[p]
<1>1. m \in Descriptor
  BY DEF Rooted
<1> HIDE DEF m
<1>2. m.order # 0 /\ m = [order |-> m.order, record_size |-> m.record_size,
                          root_position |-> m.root_position]
  BY <1>1, DescriptorFacts
<1>3. [mdbBtreeCreate(m.order, m.record_size) EXCEPT !.root_position = m.root_position] = m
  BY <1>2 DEF mdbBtreeCreate
<1>4. ReadTree(m) = Tree(m, nodes[m.root_position].node, m.root_position)
  BY <1>3 DEF ReadTree
<1>5. QED
  BY <1>4 DEF TreeOf, IsTree, Tree, m

(* The blocks are where they were. *)
LEMMA SameBlocks ==
  ASSUME Sized, Apart, Rooted,
         length' = length, metas' = metas, DOMAIN nodes' = DOMAIN nodes,
         \A p \in DOMAIN nodes : nodes'[p].size = nodes[p].size
  PROVE  Sized' /\ Apart' /\ Rooted'
<1>1. Sized'
  BY DEF Sized
<1>2. Apart'
  BY DEF Apart
<1>3. Rooted'
  BY DEF Rooted
<1>4. QED
  BY <1>1, <1>2, <1>3

(* A tree's root is written where it is. *)
LEMMA WriteInPlace ==
  ASSUME Sized, Rooted, NEW p \in DOMAIN metas, NEW t, TreeOf(t, p), Write(t)
  PROVE  /\ Place(t) = metas[p].root_position
         /\ length' = length /\ DOMAIN nodes' = DOMAIN nodes
         /\ \A q \in DOMAIN nodes : nodes'[q].size = nodes[q].size
         /\ nodes'[metas[p].root_position].node = t.root
         /\ \A q \in DOMAIN nodes :
              q # metas[p].root_position => nodes'[q].node = nodes[q].node
<1> DEFINE at == metas[p].root_position
           block == Image(t)
<1>1. /\ metas[p] \in Descriptor /\ at \in DOMAIN nodes
      /\ nodes[at].size = nodeSize(metas[p])
  BY DEF Rooted
<1>2. at \in Nat \ {0}
  BY <1>1 DEF Descriptor
<1>3. t.position = at /\ t.meta = metas[p]
  BY DEF TreeOf
<1> HIDE DEF at
<1>4. Place(t) = at
  BY <1>2, <1>3 DEF Place
<1>5. block.size = nodes[at].size /\ block.node = t.root
  BY <1>1, <1>3 DEF Image
<1>6. nodes' = Put(nodes, at, block)
  BY <1>4 DEF Write
<1>7. length' = Max({length, at + nodes[at].size})
  BY <1>1, <1>3, <1>4 DEF Write
<1>8. length \in Nat /\ nodes[at].size \in Nat /\ at + nodes[at].size <= length
  BY <1>1 DEF Sized
<1>9. length' = length
  <2>1. at + nodes[at].size \in Int /\ length \in Int
    BY <1>2, <1>8
  <2>2. length' = IF length >= at + nodes[at].size THEN length ELSE at + nodes[at].size
    BY <1>7, <2>1, MaxOfTwo
  <2>3. QED
    BY <1>8, <2>1, <2>2
<1> HIDE DEF block
<1>10. /\ DOMAIN nodes' = DOMAIN nodes /\ nodes'[at] = block
       /\ \A q \in DOMAIN nodes : q # at => nodes'[q] = nodes[q]
  <2> DEFINE new == Put(nodes, at, block)
  <2>1. /\ DOMAIN new = {at} \cup DOMAIN nodes /\ new[at] = block
        /\ \A q \in DOMAIN nodes : q # at => new[q] = nodes[q]
    BY DEF Put
  <2> HIDE DEF new
  <2>2. nodes' = new
    BY <1>6 DEF new
  <2>3. QED
    BY <1>1, <2>1, <2>2
<1>11. QED
  BY <1>4, <1>5, <1>9, <1>10 DEF at

(* What is listed stays listed when descriptors are added. *)
LEMMA ListsMore ==
  ASSUME NEW n, NEW d, Lists(n, d), NEW e, d \subseteq e
  PROVE  Lists(n, e)
BY DEF Lists

(* An empty root lists nothing. *)
LEMMA EmptyLists ==
  ASSUME NEW d
  PROVE  Lists(Leaf!EmptyLeaf, d)
<1>1. Leaf!EmptyLeaf.recs = <<>>
  BY DEF Leaf!EmptyLeaf
<1>2. ToSet(<<>>) = {}
  BY DEF ToSet
<1>3. QED
  BY <1>1, <1>2 DEF Lists

(* The system trees' positions differ. *)
LEMMA SystemRoots ==
  ASSUME Rooted, Described
  PROVE  /\ \A s \in System : MetaOf[s] \in DOMAIN metas
         /\ \A s, u \in System :
              metas[MetaOf[s]].root_position = metas[MetaOf[u]].root_position => s = u
         /\ \A s \in System, p \in DOMAIN metas \ SystemMetas :
              metas[MetaOf[s]].root_position # metas[p].root_position
<1>1. \A s, u \in System : MetaOf[s] = MetaOf[u] => s = u
  BY SystemFacts
<1>2. \A s \in System : MetaOf[s] \in SystemMetas
  BY DEF SystemMetas
<1>3. QED
  BY <1>1, <1>2 DEF Rooted, Described

-----------------------------------------------------------------------------
(* The steps.                                                              *)

(* Nothing in the file changes. *)
LEMMA FileSame ==
  ASSUME FileInv, UNCHANGED onFile
  PROVE  FileInv'
<1>1. length' = length /\ magic' = magic /\ metas' = metas /\ nodes' = nodes
  BY DEF onFile
<1>2. Sized' /\ Apart' /\ Rooted'
  BY <1>1, SameBlocks DEF FileInv
<1>3. OnFile("tables")' = OnFile("tables") /\ Described' = Described
  BY <1>1 DEF OnFile, Described
<1>4. QED
  BY <1>1, <1>2, <1>3 DEF FileInv, Lists

(* The root of a tree that is in memory is written. *)
LEMMA FileWritten ==
  ASSUME FileInv, magic, NEW p \in DOMAIN metas, NEW t, TreeOf(t, p), Write(t),
         magic' = TRUE, metas' = metas,
         p = MetaOf["tables"] => Lists(t.root, DOMAIN metas)
  PROVE  FileInv' /\ Place(t) = metas[p].root_position
<1>1. Sized /\ Apart /\ Rooted /\ Described /\ Lists(OnFile("tables"), DOMAIN metas)
  BY DEF FileInv
<1>2. /\ Place(t) = metas[p].root_position
      /\ length' = length /\ DOMAIN nodes' = DOMAIN nodes
      /\ \A q \in DOMAIN nodes : nodes'[q].size = nodes[q].size
      /\ nodes'[metas[p].root_position].node = t.root
      /\ \A q \in DOMAIN nodes :
           q # metas[p].root_position => nodes'[q].node = nodes[q].node
  BY <1>1, WriteInPlace
<1>3. Sized' /\ Apart' /\ Rooted'
  BY <1>1, <1>2, SameBlocks
<1>4. Described'
  BY <1>1 DEF Described
<1>5. Lists(OnFile("tables")', DOMAIN metas)
  <2>1. MetaOf["tables"] \in DOMAIN metas
    BY <1>1, SystemFacts DEF Described
  <2>2. CASE p = MetaOf["tables"]
    BY <1>2, <2>2 DEF OnFile
  <2>3. CASE p # MetaOf["tables"]
    <3>1. /\ metas[MetaOf["tables"]].root_position \in DOMAIN nodes
          /\ metas[MetaOf["tables"]].root_position # metas[p].root_position
      BY <1>1, <2>1, <2>3 DEF Rooted
    <3>2. OnFile("tables")' = OnFile("tables")
      BY <1>2, <3>1 DEF OnFile
    <3>3. QED
      BY <1>1, <3>2
  <2>4. QED
    BY <2>2, <2>3
<1>6. QED
  BY <1>2, <1>3, <1>4, <1>5 DEF FileInv, Lists

(* The database is opened: its trees are those of the file. *)
LEMMA OpenStep ==
  ASSUME CatalogInv, mdbOpenDatabase
  PROVE  CatalogInv'
<1>1. FileInv' /\ pc' = "idle" /\ UNCHANGED onFile /\ db = None
  BY FileSame DEF mdbOpenDatabase, CatalogInv
<1>2. CASE ~magic
  BY <1>1, <1>2 DEF mdbOpenDatabase, CatalogInv, Working
<1>3. CASE magic
  <2>1. db' = [s \in System |-> ReadTree(metas[MetaOf[s]])]
    BY <1>3 DEF mdbOpenDatabase
  <2>2. Rooted /\ Described /\ Lists(OnFile("tables"), DOMAIN metas)
    BY <1>3 DEF CatalogInv, FileInv
  <2>3. \A s \in System : TreeOf(db'[s], MetaOf[s])
    BY <2>1, <2>2, ReadTreeFacts DEF Described
  <2>4. db'["tables"].root = OnFile("tables")
    BY <2>1, <2>2, ReadTreeFacts, SystemFacts DEF Described, OnFile
  <2>5. magic' = magic /\ metas' = metas
    BY <1>1 DEF onFile
  <2>6. Opened'
    <3>1. db' = [s \in System |-> db'[s]]
      BY <2>1
    <3>2. \A s \in System : TreeOf(db[s], MetaOf[s])'
      BY <2>3, <2>5 DEF TreeOf, IsTree
    <3>3. Lists(db.tables.root, DOMAIN metas)'
      BY <2>2, <2>4, <2>5 DEF Lists
    <3>4. QED
      BY <1>3, <2>5, <3>1, <3>2, <3>3 DEF Opened
  <2>7. QED
    BY <1>1, <2>6 DEF CatalogInv, Working
<1>4. QED
  BY <1>2, <1>3

(* An open database has its system trees at places of their own. *)
LEMMA OpenedFacts ==
  ASSUME FileInv, Opened, NEW s \in System
  PROVE  /\ MetaOf[s] \in DOMAIN metas
         /\ IsTree(db[s]) /\ TreeOf(db[s], MetaOf[s])
         /\ db[s].meta = metas[MetaOf[s]]
         /\ db[s].position = metas[MetaOf[s]].root_position
         /\ db[s].position \in DOMAIN nodes
         /\ nodes[db[s].position].size = nodeSize(db[s].meta)
         /\ \A u \in System : u # s => db[u].position # db[s].position
<1>1. Rooted /\ Described
  BY DEF FileInv, Opened
<1>2. /\ MetaOf[s] \in DOMAIN metas /\ TreeOf(db[s], MetaOf[s])
      /\ \A u \in System : TreeOf(db[u], MetaOf[u])
  BY <1>1 DEF Described, Opened
<1>3. /\ IsTree(db[s]) /\ db[s].meta = metas[MetaOf[s]]
      /\ \A u \in System : db[u].position = metas[MetaOf[u]].root_position
  BY <1>2 DEF TreeOf
<1>4. /\ metas[MetaOf[s]].root_position \in DOMAIN nodes
      /\ nodes[metas[MetaOf[s]].root_position].size = nodeSize(metas[MetaOf[s]])
  BY <1>1, <1>2 DEF Rooted
<1>5. \A u \in System :
        metas[MetaOf[u]].root_position = metas[MetaOf[s]].root_position => u = s
  BY <1>1, SystemRoots
<1>6. QED
  BY <1>2, <1>3, <1>4, <1>5

(* The database is closed: its roots are written where they are. *)
LEMMA CloseStep ==
  ASSUME CatalogInv, mdbCloseDatabase
  PROVE  CatalogInv'
<1>1. /\ FileInv /\ Opened /\ pc' = "idle" /\ db' = None
      /\ length' = length /\ metas' = metas /\ magic' = TRUE
  BY DEF CatalogInv, mdbCloseDatabase
<1> DEFINE a == db["tables"].position
           b == db["columns"].position
           c == db["indexes"].position
           new == Put(Put(Put(nodes, a, Image(db["tables"])),
                          b, Image(db["columns"])), c, Image(db["indexes"]))
<1>2. nodes' = new
  BY DEF mdbCloseDatabase
<1>3. /\ a \in DOMAIN nodes /\ b \in DOMAIN nodes /\ c \in DOMAIN nodes
      /\ a # b /\ a # c /\ b # c
      /\ nodes[a].size = nodeSize(db["tables"].meta)
      /\ nodes[b].size = nodeSize(db["columns"].meta)
      /\ nodes[c].size = nodeSize(db["indexes"].meta)
      /\ a = metas[MetaOf["tables"]].root_position
  BY <1>1, OpenedFacts, SystemFacts
<1> HIDE DEF a, b, c
<1>4. /\ DOMAIN new = DOMAIN nodes
      /\ new[a] = Image(db["tables"]) /\ new[b] = Image(db["columns"])
      /\ new[c] = Image(db["indexes"])
      /\ \A q \in DOMAIN nodes : q \notin {a, b, c} => new[q] = nodes[q]
  BY <1>3 DEF Put
<1> HIDE DEF new
<1>5. \A q \in DOMAIN nodes : new[q].size = nodes[q].size
  BY <1>3, <1>4 DEF Image
<1>6. Sized' /\ Apart' /\ Rooted'
  BY <1>1, <1>2, <1>4, <1>5, SameBlocks DEF FileInv
<1>7. OnFile("tables")' = db["tables"].root
  BY <1>1, <1>2, <1>3, <1>4 DEF OnFile, Image
<1>8. Described' /\ Lists(OnFile("tables"), DOMAIN metas)'
  <2>1. Described /\ Lists(db["tables"].root, DOMAIN metas)
    BY <1>1 DEF FileInv, Opened
  <2>2. QED
    BY <1>1, <1>7, <2>1 DEF Described, Lists
<1>9. QED
  BY <1>1, <1>6, <1>8 DEF CatalogInv, FileInv, Working

(* The program is killed. *)
LEMMA KillStep ==
  ASSUME CatalogInv, Kill
  PROVE  CatalogInv'
<1>1. FileInv' /\ pc' = "idle" /\ db' = None
  BY FileSame DEF CatalogInv, Kill
<1>2. QED
  BY <1>1 DEF CatalogInv, Working

(* A row more in a system table. *)
LEMMA SystemInserted ==
  ASSUME FileInv, Opened, NEW s \in System, NEW record, InsertSystem(s, record),
         magic' = magic, metas' = metas,
         s = "tables" => record.key \in Seq(Nat) /\ record.btree \in DOMAIN metas \ SystemMetas
  PROVE  FileInv' /\ Opened'
<1>1. /\ MetaOf[s] \in DOMAIN metas /\ IsTree(db[s]) /\ TreeOf(db[s], MetaOf[s])
      /\ db[s].meta = metas[MetaOf[s]]
      /\ db[s].position = metas[MetaOf[s]].root_position
  BY OpenedFacts
<1>2. CASE Collides(db[s].root, record.key)
  <2>1. nodes' = nodes /\ length' = length /\ db' = db
    BY <1>2 DEF InsertSystem
  <2>2. FileInv'
    BY <2>1, FileSame DEF onFile
  <2>3. QED
    BY <2>1, <2>2 DEF Opened, TreeOf, IsTree, Lists
<1>3. CASE ~Collides(db[s].root, record.key)
  <2> DEFINE tree == [db[s] EXCEPT !.root = Inserted(@, record)]
  <2>1. Write(tree) /\ db' = [db EXCEPT ![s] = [tree EXCEPT !.position = Place(tree)]]
    BY <1>3 DEF InsertSystem
  <2>2. tree = Tree(db[s].meta, Inserted(db[s].root, record), db[s].position)
    BY <1>1 DEF IsTree, Tree
  <2> HIDE DEF tree
  <2>3. TreeOf(tree, MetaOf[s]) /\ tree.root = Inserted(db[s].root, record)
    BY <1>1, <2>2 DEF TreeOf, IsTree, Tree
  <2>4. s = "tables" => Lists(tree.root, DOMAIN metas)
    BY <2>3, InsertedLists DEF Opened
  <2>5. MetaOf[s] = MetaOf["tables"] => s = "tables"
    BY SystemFacts
  <2>6. FileInv' /\ Place(tree) = metas[MetaOf[s]].root_position
    BY <1>1, <2>1, <2>3, <2>4, <2>5, FileWritten DEF Opened
  <2>7. [tree EXCEPT !.position = Place(tree)] = tree
    BY <1>1, <2>2, <2>6 DEF Tree
  <2>8. db' = [db EXCEPT ![s] = tree]
    BY <2>1, <2>7
  <2>9. db = [u \in System |-> db[u]]
    BY DEF Opened
  <2>10. db' = [u \in System |-> IF u = s THEN tree ELSE db[u]]
    BY <2>8, <2>9
  <2>11. \A u \in System : TreeOf(db'[u], MetaOf[u])
    BY <2>3, <2>10 DEF Opened
  <2>12. Lists(db'["tables"].root, DOMAIN metas)
    BY <2>4, <2>10, SystemFacts DEF Opened
  <2>13. Opened'
    <3>1. db' = [u \in System |-> db'[u]]
      BY <2>10
    <3>2. \A u \in System : TreeOf(db[u], MetaOf[u])'
      BY <2>11 DEF TreeOf, IsTree
    <3>3. QED
      BY <2>12, <3>1, <3>2 DEF Opened, Lists
  <2>14. QED
    BY <2>6, <2>13
<1>4. QED
  BY <1>2, <1>3

(* The table is listed. *)
LEMMA ListTableStep ==
  ASSUME CatalogInv, ListTable
  PROVE  CatalogInv'
<1>1. FileInv /\ Opened /\ Loaded /\ pc' = "list columns" /\ tbl' = tbl
      /\ magic' = magic /\ metas' = metas
  BY DEF CatalogInv, ListTable, Working
<1> DEFINE record == TableRecord(tbl.name, Len(tbl.columns), tbl.btree)
<1>2. InsertSystem("tables", record)
  BY DEF ListTable
<1>3. record.key \in Seq(Nat) /\ record.btree \in DOMAIN metas \ SystemMetas
  BY <1>1, NameFacts DEF Loaded, TableRecord
<1> HIDE DEF record
<1>4. FileInv' /\ Opened'
  <2>1. "tables" \in System
    BY SystemFacts
  <2>2. QED
    BY <1>1, <1>2, <1>3, <2>1, SystemInserted, Zenon
<1>5. Loaded'
  BY <1>1 DEF Loaded, TreeOf, IsTree
<1>6. QED
  BY <1>1, <1>4, <1>5 DEF CatalogInv, Working

(* One of its columns is. *)
LEMMA ListColumnStep ==
  ASSUME CatalogInv, ListColumn
  PROVE  CatalogInv'
<1>1. FileInv /\ Opened /\ Loaded /\ pc' = pc /\ pc \in Working
      /\ magic' = magic /\ metas' = metas
      /\ tbl' = [tbl EXCEPT !.listed = tbl.listed + 1]
  BY DEF CatalogInv, ListColumn, Working
<1>2. PICK record : InsertSystem("columns", record)
  BY DEF ListColumn
<1>3. FileInv' /\ Opened'
  BY <1>1, <1>2, SystemFacts, SystemInserted
<1>4. Loaded'
  <2>1. tbl' = [name |-> tbl.name, columns |-> tbl.columns, btree |-> tbl.btree,
                tree |-> tbl.tree, listed |-> tbl.listed + 1, new |-> tbl.new]
    BY <1>1 DEF Loaded
  <2>2. QED
    BY <1>1, <2>1 DEF Loaded, TreeOf, IsTree
<1>5. QED
  BY <1>1, <1>3, <1>4 DEF CatalogInv, Working

(* Its creation returns. *)
LEMMA TableCreatedStep ==
  ASSUME CatalogInv, TableCreated
  PROVE  CatalogInv'
<1>1. FileInv /\ Opened /\ Loaded /\ pc' = "created" /\ tbl' = tbl
      /\ UNCHANGED onFile /\ db' = db
  BY DEF CatalogInv, TableCreated, Working
<1>2. FileInv'
  BY <1>1, FileSame
<1>3. magic' = magic /\ metas' = metas
  BY <1>1 DEF onFile
<1>4. Opened' /\ Loaded'
  BY <1>1, <1>3 DEF Opened, Loaded, TreeOf, IsTree, Lists
<1>5. QED
  BY <1>1, <1>2, <1>4 DEF CatalogInv, Working

(* A table is loaded, or not found. *)
LEMMA LoadStep ==
  ASSUME CatalogInv, NEW name \in Names, mdbLoadTable(name)
  PROVE  CatalogInv'
<1>1. FileInv /\ Opened /\ UNCHANGED onFile /\ db' = db
  BY DEF CatalogInv, mdbLoadTable, Working
<1>2. magic' = magic /\ metas' = metas
  BY <1>1 DEF onFile
<1>3. FileInv' /\ Opened'
  BY <1>1, <1>2, FileSame DEF Opened, TreeOf, IsTree, Lists
<1>4. CASE ~Collides(db.tables.root, name)
  <2>1. tbl' = tbl /\ pc' = pc /\ pc = "idle"
    BY <1>4 DEF mdbLoadTable
  <2>2. QED
    BY <1>3, <2>1 DEF CatalogInv, Working
<1>5. CASE Collides(db.tables.root, name)
  <2> DEFINE record == Found(db.tables.root, name)
  <2>1. /\ tbl' = [name |-> name,
                   columns |-> LoadedColumns(db.columns.root, record),
                   btree |-> record.btree,
                   tree |-> ReadTree(metas[record.btree]),
                   listed |-> record.columns, new |-> FALSE]
        /\ pc' = "loaded"
    BY <1>5 DEF mdbLoadTable
  <2>2. record.btree \in DOMAIN metas \ SystemMetas
    BY <1>1, <1>5, FoundListed DEF Opened
  <2> HIDE DEF record
  <2>3. TreeOf(ReadTree(metas[record.btree]), record.btree)
    BY <1>1, <2>2, ReadTreeFacts DEF FileInv
  <2>4. Loaded'
    BY <1>2, <2>1, <2>2, <2>3 DEF Loaded, TreeOf, IsTree
  <2>5. QED
    BY <1>3, <2>1, <2>4 DEF CatalogInv, Working
<1>6. QED
  BY <1>4, <1>5

(* The virtual table's root is written. *)
LEMMA TableWritten ==
  ASSUME FileInv, Opened, Loaded, NEW root, Write([tbl.tree EXCEPT !.root = root]),
         magic' = magic, metas' = metas
  PROVE  FileInv' /\ TreeOf([tbl.tree EXCEPT !.root = root], tbl.btree)
<1> DEFINE tree == [tbl.tree EXCEPT !.root = root]
<1>1. TreeOf(tbl.tree, tbl.btree) /\ tbl.btree \in DOMAIN metas
      /\ tbl.btree # MetaOf["tables"]
  BY SystemFacts DEF Loaded
<1>2. tree = Tree(tbl.tree.meta, root, tbl.tree.position)
  BY <1>1 DEF TreeOf, IsTree, Tree
<1>3. TreeOf(tree, tbl.btree)
  BY <1>1, <1>2 DEF TreeOf, IsTree, Tree
<1> HIDE DEF tree
<1>4. Write(tree) /\ magic /\ magic' = TRUE
  BY DEF tree, Opened, FileInv
<1>5. FileInv'
  BY <1>1, <1>3, <1>4, FileWritten
<1>6. QED
  BY <1>3, <1>5 DEF tree

(* A record is inserted into the table. *)
LEMMA InsertRecordStep ==
  ASSUME CatalogInv, NEW row, InsertRecord(row)
  PROVE  CatalogInv'
<1>1. FileInv /\ Opened /\ Loaded /\ pc' = pc /\ pc \in Working
      /\ magic' = magic /\ metas' = metas /\ db' = db
  BY DEF CatalogInv, InsertRecord, Working
<1> DEFINE root == Inserted(tbl.tree.root, [key |-> row])
           tree == [tbl.tree EXCEPT !.root = root]
<1>2. Write(tree) /\ tbl' = [tbl EXCEPT !.tree = tree]
  BY DEF InsertRecord
<1> HIDE DEF root
<1>3. FileInv' /\ TreeOf(tree, tbl.btree)
  BY <1>1, <1>2, TableWritten
<1> HIDE DEF tree
<1>4. tbl' = [name |-> tbl.name, columns |-> tbl.columns, btree |-> tbl.btree,
              tree |-> tree, listed |-> tbl.listed, new |-> tbl.new]
  BY <1>1, <1>2 DEF Loaded
<1>5. Loaded'
  BY <1>1, <1>3, <1>4 DEF Loaded, TreeOf, IsTree
<1>6. Opened'
  BY <1>1 DEF Opened, TreeOf, IsTree, Lists
<1>7. QED
  BY <1>1, <1>3, <1>5, <1>6 DEF CatalogInv, Working

(* The virtual table is freed; its root is written once more. *)
LEMMA ResetStep ==
  ASSUME CatalogInv, Reset
  PROVE  CatalogInv'
<1>1. FileInv /\ Opened /\ Loaded /\ pc' = "idle"
      /\ magic' = magic /\ metas' = metas /\ db' = db
  BY DEF CatalogInv, Reset, Working
<1>2. [tbl.tree EXCEPT !.root = tbl.tree.root] = tbl.tree
  BY <1>1 DEF Loaded, TreeOf, IsTree, Tree
<1>3. Write([tbl.tree EXCEPT !.root = tbl.tree.root])
  BY <1>2 DEF Reset
<1>4. FileInv'
  BY <1>1, <1>3, TableWritten
<1>5. Opened'
  BY <1>1 DEF Opened, TreeOf, IsTree, Lists
<1>6. QED
  BY <1>1, <1>4, <1>5 DEF CatalogInv, Working

(* The descriptor of a new table. *)
LEMMA NewDescriptor ==
  ASSUME NEW size \in RecordSizes, NEW root \in Nat \ {0}
  PROVE  [mdbBtreeCreate(0, size) EXCEPT !.root_position = root] \in Descriptor
<1>1. mdbBtreeCreate(0, size) =
        [order |-> Orders[size], record_size |-> size, root_position |-> 0]
  BY DEF mdbBtreeCreate
<1>2. [mdbBtreeCreate(0, size) EXCEPT !.root_position = root] =
        [order |-> Orders[size], record_size |-> size, root_position |-> root]
  BY <1>1
<1>3. QED
  BY <1>2, Sizes DEF Descriptor

(* A table's descriptor and root are appended. *)
LEMMA CreateTableStep ==
  ASSUME CatalogInv, NEW name \in Names, NEW columns \in Layouts,
         mdbCreateTable(name, columns)
  PROVE  CatalogInv'
<1> DEFINE root == length + sizeofMeta
           size == RecordSize(columns)
           meta == [mdbBtreeCreate(0, size) EXCEPT !.root_position = root]
           image == Image(Tree(meta, Leaf!EmptyLeaf, root))
           isnew == name \notin {r.key : r \in ToSet(db.tables.root.recs)}
<1>1. /\ metas' = Put(metas, length, meta) /\ nodes' = Put(nodes, root, image)
      /\ length' = root + nodeSize(meta)
      /\ tbl' = [name |-> name, columns |-> columns, btree |-> length,
                 tree |-> Tree(meta, Leaf!EmptyLeaf, root),
                 listed |-> 0, new |-> isnew]
      /\ pc' = "list table" /\ magic' = magic /\ db' = db
  BY DEF mdbCreateTable
<1>2. FileInv /\ Opened
  BY DEF CatalogInv, mdbCreateTable
<1>3. Sized /\ Apart /\ Rooted /\ Described /\ magic
  BY <1>2 DEF FileInv, Opened
<1>4. length \in Nat /\ length >= 180
  <2>1. 132 \in DOMAIN metas
    BY <1>3, SystemFacts DEF Described
  <2>2. 132 + 16 <= length /\ length \in Nat
    BY <1>3, <2>1, SystemFacts DEF Sized
  <2>3. QED
    BY <1>3, <2>2, SystemFacts DEF Sized
<1>5. size \in RecordSizes
  BY DEF RecordSizes
<1>6. root \in Nat \ {0} /\ root = length + 16
  BY <1>4, SystemFacts
<1> HIDE DEF size, root
<1>7. meta \in Descriptor /\ meta.root_position = root
  <2>1. meta \in Descriptor
    BY <1>5, <1>6, NewDescriptor
  <2>2. meta.root_position = root
    BY DEF mdbBtreeCreate
  <2>3. QED
    BY <2>1, <2>2
<1> HIDE DEF meta, isnew
<1> DEFINE bytes == nodeSize(meta)
<1>8. bytes \in Nat \ {0}
  BY <1>7, DescriptorFacts
<1>9. image.size = bytes
  BY DEF Image, Tree
<1> HIDE DEF bytes, image
<1>10. /\ \A p \in DOMAIN metas : p \in Nat /\ p + 16 <= length /\ 132 <= p
       /\ \A p \in DOMAIN nodes : p \in Nat /\ nodes[p].size \in Nat \ {0}
                                  /\ p + nodes[p].size <= length /\ 180 <= p
  BY <1>3, SystemFacts DEF Sized
<1>11. length \notin DOMAIN metas /\ root \notin DOMAIN nodes
  BY <1>4, <1>6, <1>10
<1>12. /\ DOMAIN metas' = DOMAIN metas \cup {length} /\ metas'[length] = meta
       /\ \A p \in DOMAIN metas : metas'[p] = metas[p]
       /\ DOMAIN nodes' = DOMAIN nodes \cup {root} /\ nodes'[root] = image
       /\ \A p \in DOMAIN nodes : nodes'[p] = nodes[p]
  BY <1>1, <1>11 DEF Put
<1>13. length' = length + 16 + bytes
  BY <1>1, <1>6 DEF bytes
<1>14. Sized'
  <2>1. length' \in Nat /\ length' >= length /\ length' >= 180 /\ root + bytes <= length'
    BY <1>4, <1>6, <1>8, <1>13
  <2>2. \A p \in DOMAIN metas' : p \in Nat /\ 132 <= p /\ p + 16 <= length'
    BY <1>4, <1>8, <1>10, <1>12, <1>13
  <2>3. \A p \in DOMAIN nodes' :
          /\ p \in Nat /\ 180 <= p
          /\ nodes'[p].size \in Nat \ {0} /\ p + nodes'[p].size <= length'
    BY <1>4, <1>6, <1>8, <1>9, <1>10, <1>12, <1>13
  <2>4. QED
    BY <2>1, <2>2, <2>3, SystemFacts DEF Sized
<1>15. Apart'
  <2>1. \A p, q \in DOMAIN metas' : p # q => p + 16 <= q \/ q + 16 <= p
    <3> SUFFICES ASSUME NEW p \in DOMAIN metas', NEW q \in DOMAIN metas', p # q
                 PROVE  p + 16 <= q \/ q + 16 <= p
      OBVIOUS
    <3>1. CASE p \in DOMAIN metas /\ q \in DOMAIN metas
      BY <1>3, <3>1, SystemFacts DEF Apart
    <3>2. CASE p = length \/ q = length
      BY <1>10, <1>12, <3>2
    <3>3. QED
      BY <1>12, <3>1, <3>2
  <2>2. \A p, q \in DOMAIN nodes' :
          p # q => p + nodes'[p].size <= q \/ q + nodes'[q].size <= p
    <3> SUFFICES ASSUME NEW p \in DOMAIN nodes', NEW q \in DOMAIN nodes', p # q
                 PROVE  p + nodes'[p].size <= q \/ q + nodes'[q].size <= p
      OBVIOUS
    <3>1. CASE p \in DOMAIN nodes /\ q \in DOMAIN nodes
      BY <1>3, <1>12, <3>1 DEF Apart
    <3>2. CASE p = root
      <4>1. q \in DOMAIN nodes /\ nodes'[q] = nodes[q]
        BY <1>12, <3>2
      <4>2. q + nodes[q].size <= length /\ q + nodes[q].size \in Int
        BY <1>10, <4>1
      <4>3. QED
        BY <1>4, <1>6, <3>2, <4>1, <4>2
    <3>3. CASE q = root
      <4>1. p \in DOMAIN nodes /\ nodes'[p] = nodes[p]
        BY <1>12, <3>3
      <4>2. p + nodes[p].size <= length /\ p + nodes[p].size \in Int
        BY <1>10, <4>1
      <4>3. QED
        BY <1>4, <1>6, <3>3, <4>1, <4>2
    <3>4. QED
      BY <1>12, <3>1, <3>2, <3>3
  <2>3. \A p \in DOMAIN metas', q \in DOMAIN nodes' :
          p + 16 <= q \/ q + nodes'[q].size <= p
    <3> SUFFICES ASSUME NEW p \in DOMAIN metas', NEW q \in DOMAIN nodes'
                 PROVE  p + 16 <= q \/ q + nodes'[q].size <= p
      OBVIOUS
    <3>1. CASE p \in DOMAIN metas /\ q \in DOMAIN nodes
      BY <1>3, <1>12, <3>1, SystemFacts DEF Apart
    <3>2. CASE q = root
      BY <1>4, <1>6, <1>10, <1>12, <3>2
    <3>3. CASE p = length /\ q \in DOMAIN nodes
      <4>1. q + nodes[q].size <= length /\ nodes'[q] = nodes[q]
        BY <1>10, <1>12, <3>3
      <4>2. QED
        BY <3>3, <4>1
    <3>4. QED
      BY <1>12, <3>1, <3>2, <3>3
  <2>4. QED
    BY <2>1, <2>2, <2>3, SystemFacts DEF Apart
<1>16. Rooted'
  <2>1. \A p \in DOMAIN metas :
          /\ metas[p] \in Descriptor /\ metas[p].root_position \in DOMAIN nodes
          /\ nodes[metas[p].root_position].size = nodeSize(metas[p])
    BY <1>3 DEF Rooted
  <2>2. \A p \in DOMAIN metas' :
          /\ metas'[p] \in Descriptor /\ metas'[p].root_position \in DOMAIN nodes'
          /\ nodes'[metas'[p].root_position].size = nodeSize(metas'[p])
    BY <1>7, <1>9, <1>12, <2>1 DEF bytes
  <2>3. \A p \in DOMAIN metas : metas[p].root_position # root
    BY <1>11, <2>1
  <2>4. \A p, q \in DOMAIN metas' :
          metas'[p].root_position = metas'[q].root_position => p = q
    <3> SUFFICES ASSUME NEW p \in DOMAIN metas', NEW q \in DOMAIN metas',
                        metas'[p].root_position = metas'[q].root_position
                 PROVE  p = q
      OBVIOUS
    <3>1. CASE p \in DOMAIN metas /\ q \in DOMAIN metas
      BY <1>3, <1>12, <3>1 DEF Rooted
    <3>2. CASE p = length
      BY <1>7, <1>12, <2>3, <3>2
    <3>3. CASE q = length
      BY <1>7, <1>12, <2>3, <3>3
    <3>4. QED
      BY <1>12, <3>1, <3>2, <3>3
  <2>5. QED
    BY <2>2, <2>4 DEF Rooted
<1>17. FileInv'
  <2>1. Described'
    BY <1>3, <1>12 DEF Described
  <2>2. Lists(OnFile("tables"), DOMAIN metas)
    BY <1>2, <1>3 DEF FileInv
  <2>3. OnFile("tables")' = OnFile("tables")
    <3>1. 132 \in DOMAIN metas /\ metas[132].root_position \in DOMAIN nodes
      BY <1>3, SystemFacts DEF Described, Rooted
    <3>2. QED
      BY <1>12, <3>1, SystemFacts DEF OnFile
  <2>4. Lists(OnFile("tables")', DOMAIN metas')
    BY <1>12, <2>2, <2>3, ListsMore
  <2>5. QED
    BY <1>1, <1>3, <1>14, <1>15, <1>16, <2>1, <2>4 DEF FileInv, Lists
<1>18. Opened'
  <2>1. \A s \in System : TreeOf(db[s], MetaOf[s]) /\ MetaOf[s] \in DOMAIN metas
    BY <1>2, <1>3 DEF Opened, Described
  <2>2. \A s \in System : TreeOf(db[s], MetaOf[s])'
    BY <1>1, <1>12, <2>1 DEF TreeOf, IsTree
  <2>3. Lists(db.tables.root, DOMAIN metas')
    BY <1>2, <1>12, ListsMore DEF Opened
  <2>4. QED
    BY <1>1, <1>2, <2>2, <2>3 DEF Opened, Lists
<1>19. Loaded'
  <2>1. length \in DOMAIN metas' \ SystemMetas
    BY <1>4, <1>12, SystemFacts
  <2>2. QED
    BY <1>1, <1>7, <1>12, <2>1 DEF Loaded, TreeOf, IsTree, Tree
<1>20. QED
  BY <1>1, <1>17, <1>18, <1>19 DEF CatalogInv, Working

(* A system table's root is larger than nothing, wherever it is. *)
LEMMA SystemSizes ==
  \A s \in System : nodeSize(SystemMeta(s)) \in Nat \ {0}
<1> SUFFICES ASSUME NEW s \in System
             PROVE  nodeSize(SystemMeta(s)) \in Nat \ {0}
  OBVIOUS
<1> DEFINE size == sizeofRecord[s]
<1>1. size \in RecordSizes
  BY DEF RecordSizes
<1> HIDE DEF size
<1>2. SystemMeta(s).order = Orders[size] /\ SystemMeta(s).record_size = size
  BY DEF SystemMeta, mdbBtreeCreate, size
<1>3. QED
  BY <1>1, <1>2, Sizes, NodeSizePositive DEF nodeSize

(* The system tables' trees are made, and two roots written. *)
LEMMA CreateSystemTablesStep ==
  ASSUME CatalogInv, mdbCreateSystemTables
  PROVE  CatalogInv'
<1> DEFINE n1 == nodeSize(SystemMeta("tables"))
           n2 == nodeSize(SystemMeta("columns"))
<1>1. n1 \in Nat \ {0} /\ n2 \in Nat \ {0}
  BY SystemSizes, SystemFacts
<1> DEFINE listing == Inserted(Inserted(Inserted(Leaf!EmptyLeaf,
                        SystemRow("tables")), SystemRow("columns")), SystemRow("indexes"))
           rows == InsertedAll(Leaf!EmptyLeaf,
                     ColumnRecords(SystemName.tables, SystemLayout.tables) \o
                     ColumnRecords(SystemName.columns, SystemLayout.columns) \o
                     ColumnRecords(SystemName.indexes, SystemLayout.indexes))
           tables == Tree(SystemMeta("tables"), listing, Placeholder)
           columns == Tree(SystemMeta("columns"), rows, Second)
           indexes == Tree(SystemMeta("indexes"), Leaf!EmptyLeaf, 0)
<1>4. nodeSize(tables.meta) = n1 /\ nodeSize(columns.meta) = n2
  BY DEF Tree
<1>5. Placeholder + nodeSize(tables.meta) = Second
  BY <1>4 DEF Second
<1>6. /\ nodes' = Put(Put(<<>>, tables.position, Image(tables)),
                      columns.position, Image(columns))
      /\ length' = columns.position + nodeSize(columns.meta)
      /\ db' = [tables |-> tables, columns |-> columns, indexes |-> indexes]
  BY <1>5 DEF mdbCreateSystemTables, SystemMeta
<1>7. magic' = FALSE /\ metas' = <<>> /\ pc' = "create database"
  BY DEF mdbCreateSystemTables
<1>8. /\ tables.position = Placeholder /\ columns.position = Second
      /\ Image(tables).size = n1 /\ Image(columns).size = n2
  BY DEF Tree, Image
<1>9. Lists(listing, SystemMetas)
  <2>1. \A s \in System :
          /\ SystemRow(s).key = SystemName[s] /\ SystemName[s] \in Seq(Nat)
          /\ SystemRow(s).btree \in SystemMetas
    BY SystemFacts DEF SystemRow, TableRecord, SystemMetas
  <2> DEFINE one == Inserted(Leaf!EmptyLeaf, SystemRow("tables"))
             two == Inserted(one, SystemRow("columns"))
  <2>2. Lists(Leaf!EmptyLeaf, SystemMetas)
    BY EmptyLists
  <2>3. Lists(one, SystemMetas)
    BY <2>1, <2>2, SystemFacts, InsertedLists
  <2> HIDE DEF one
  <2>4. Lists(two, SystemMetas)
    BY <2>1, <2>3, SystemFacts, InsertedLists
  <2> HIDE DEF two
  <2>5. Lists(Inserted(two, SystemRow("indexes")), SystemMetas)
    BY <2>1, <2>4, SystemFacts, InsertedLists
  <2>6. QED
    BY <2>5 DEF one, two
<1> HIDE DEF listing, rows
<1>10. /\ db'["tables"] = tables /\ db'["columns"] = columns
       /\ db'["indexes"] = indexes /\ db' = [s \in System |-> db'[s]]
  BY <1>6, SystemFacts
<1>11. tables.root = listing /\ IsTree(tables) /\ IsTree(columns) /\ IsTree(indexes)
       /\ tables.meta = SystemMeta("tables") /\ columns.meta = SystemMeta("columns")
       /\ indexes.meta = SystemMeta("indexes")
  BY DEF Tree, IsTree
<1> HIDE DEF tables, columns, indexes
<1>12. /\ DOMAIN metas' = {}
       /\ Second = 180 + n1 /\ Second # 180 /\ Second \in Nat
       /\ DOMAIN nodes' = {180, Second}
       /\ nodes'[180].size = n1 /\ nodes'[Second].size = n2
       /\ length' = Second + n2 /\ length' = Third
  <2>1. Second = 180 + n1 /\ Third = Second + n2
    BY SystemFacts DEF Second, Third
  <2> HIDE DEF n1, n2
  <2>2. Second # 180 /\ Second \in Nat
    BY <1>1, <2>1
  <2>3. DOMAIN <<>> = {}
    OBVIOUS
  <2>4. nodes' = Put(Put(<<>>, 180, Image(tables)), Second, Image(columns))
    BY <1>6, <1>8, SystemFacts
  <2>5. DOMAIN nodes' = {180, Second} /\ nodes'[180] = Image(tables)
        /\ nodes'[Second] = Image(columns)
    BY <2>2, <2>3, <2>4 DEF Put
  <2>6. length' = Second + n2
    BY <1>4, <1>6, <1>8
  <2>7. QED
    BY <1>7, <1>8, <2>1, <2>2, <2>3, <2>5, <2>6
<1> HIDE DEF n1, n2
<1>13. FileInv'
  <2>1. Sized'
    <3>1. length' \in Nat /\ 180 <= length' /\ 180 + n1 <= length' /\ Second + n2 <= length'
      BY <1>1, <1>12
    <3>2. \A p \in DOMAIN nodes' :
            p \in Nat /\ 180 <= p /\ nodes'[p].size \in Nat \ {0}
            /\ p + nodes'[p].size <= length'
      BY <1>1, <1>12, <3>1
    <3>3. QED
      BY <1>12, <3>1, <3>2, SystemFacts DEF Sized
  <2>2. Apart'
    BY <1>1, <1>12 DEF Apart
  <2>3. Rooted'
    BY <1>12 DEF Rooted
  <2>4. QED
    BY <1>7, <2>1, <2>2, <2>3 DEF FileInv
<1>14. Starting'
  <2>1. \A s \in System : IsTree(db'[s]) /\ db'[s].meta = SystemMeta(s)
    BY <1>10, <1>11, SystemFacts
  <2>2. db'["tables"].position = Placeholder /\ db'["columns"].position = Second
    BY <1>8, <1>10
  <2>3. Lists(db'["tables"].root, SystemMetas)
    BY <1>9, <1>10, <1>11
  <2>4. nodes'[Placeholder].size = nodeSize(SystemMeta("tables"))
        /\ nodes'[Second].size = nodeSize(SystemMeta("columns"))
        /\ DOMAIN nodes' = {Placeholder, Second}
    BY <1>12, SystemFacts DEF n1, n2
  <2>5. QED
    BY <1>7, <1>10, <1>12, <2>1, <2>2, <2>3, <2>4 DEF Starting, IsTree, Lists
<1>15. QED
  BY <1>7, <1>13, <1>14 DEF CatalogInv, Working

(* The descriptor of a system table, once its root has a position. *)
LEMMA SystemDescriptor ==
  ASSUME NEW s \in System, NEW root \in Nat \ {0}
  PROVE  LET m == [SystemMeta(s) EXCEPT !.root_position = root]
         IN  /\ m \in Descriptor /\ m.root_position = root
             /\ nodeSize(m) = nodeSize(SystemMeta(s))
<1> DEFINE size == sizeofRecord[s]
<1>1. size \in RecordSizes
  BY DEF RecordSizes
<1> HIDE DEF size
<1>2. SystemMeta(s) = mdbBtreeCreate(0, size)
  BY DEF SystemMeta, size
<1> DEFINE m == [mdbBtreeCreate(0, size) EXCEPT !.root_position = root]
<1>3. m \in Descriptor
  BY <1>1, NewDescriptor
<1>4. /\ m.root_position = root
      /\ m.order = mdbBtreeCreate(0, size).order
      /\ m.record_size = mdbBtreeCreate(0, size).record_size
  BY DEF mdbBtreeCreate
<1> HIDE DEF m
<1>5. nodeSize(m) = nodeSize(mdbBtreeCreate(0, size))
  BY <1>4 DEF nodeSize
<1>6. QED
  BY <1>2, <1>3, <1>4, <1>5 DEF m

(* The header, the descriptors and the roots of a new database are written:
   the positions that were computed are those where the roots are. *)
LEMMA CreateDatabaseStep ==
  ASSUME CatalogInv, mdbCreateDatabase
  PROVE  CatalogInv'
<1> DEFINE n1 == nodeSize(SystemMeta("tables"))
           n2 == nodeSize(SystemMeta("columns"))
           n3 == nodeSize(SystemMeta("indexes"))
<1>1. n1 \in Nat \ {0} /\ n2 \in Nat \ {0} /\ n3 \in Nat \ {0}
  BY SystemSizes, SystemFacts
<1>2. FileInv /\ Starting /\ pc = "create database"
  BY DEF mdbCreateDatabase, CatalogInv
<1>3. /\ db["tables"].meta = SystemMeta("tables")
      /\ db["columns"].meta = SystemMeta("columns")
      /\ db["indexes"].meta = SystemMeta("indexes")
      /\ db["tables"].position = Placeholder /\ db["columns"].position = Second
      /\ Lists(db["tables"].root, SystemMetas)
  BY <1>2, SystemFacts DEF Starting
<1>4. /\ Placeholder = 180 /\ Second = 180 + n1 /\ Third = Second + n2
      /\ Second \in Nat \ {0} /\ Third \in Nat \ {0} /\ Placeholder \in Nat \ {0}
  <2>1. Placeholder = 180 /\ Second = 180 + n1 /\ Third = Second + n2
    BY SystemFacts DEF Second, Third
  <2> HIDE DEF n1, n2
  <2>2. QED
    BY <1>1, <2>1
<1>5. RootPositions = [tables |-> Placeholder, columns |-> Second, indexes |-> Third]
  BY <1>3 DEF RootPositions, Second, Third
<1> DEFINE m1 == [SystemMeta("tables") EXCEPT !.root_position = Placeholder]
           m2 == [SystemMeta("columns") EXCEPT !.root_position = Second]
           m3 == [SystemMeta("indexes") EXCEPT !.root_position = Third]
<1>6. /\ m1 \in Descriptor /\ m1.root_position = Placeholder /\ nodeSize(m1) = n1
      /\ m2 \in Descriptor /\ m2.root_position = Second /\ nodeSize(m2) = n2
      /\ m3 \in Descriptor /\ m3.root_position = Third /\ nodeSize(m3) = n3
  <2>1. "tables" \in System /\ "columns" \in System /\ "indexes" \in System
    BY SystemFacts
  <2>2. m1 \in Descriptor /\ m1.root_position = Placeholder /\ nodeSize(m1) = n1
    BY <1>4, <2>1, SystemDescriptor
  <2>3. m2 \in Descriptor /\ m2.root_position = Second /\ nodeSize(m2) = n2
    BY <1>4, <2>1, SystemDescriptor
  <2>4. m3 \in Descriptor /\ m3.root_position = Third /\ nodeSize(m3) = n3
    BY <1>4, <2>1, SystemDescriptor
  <2>5. QED
    BY <2>2, <2>3, <2>4
<1> DEFINE i1 == Image(db["tables"])
           i2 == Image(db["columns"])
           i3 == Image(db["indexes"])
           newMetas == Put(Put(Put(metas, 132, m1), 148, m2), 164, m3)
           newNodes == Put(Put(Put(nodes, Placeholder, i1), Second, i2), Third, i3)
<1>7. /\ i1.size = n1 /\ i2.size = n2 /\ i3.size = n3
      /\ i1.node = db["tables"].root
  BY <1>3 DEF Image
<1>8. metas' = newMetas
  BY <1>3, <1>5, SystemFacts DEF mdbCreateDatabase
<1>9. nodes' = newNodes /\ length' = Max({length, Third + n3})
  BY <1>3 DEF mdbCreateDatabase, Second, Third
<1>10. db' = [s \in System |->
               Tree([db[s].meta EXCEPT !.root_position = RootPositions[s]], db[s].root,
                    IF s = "indexes" THEN RootPositions[s] ELSE db[s].position)]
  BY DEF mdbCreateDatabase
<1>11. /\ db'["tables"] = Tree(m1, db["tables"].root, Placeholder)
       /\ db'["columns"] = Tree(m2, db["columns"].root, Second)
       /\ db'["indexes"] = Tree(m3, db["indexes"].root, Third)
       /\ db' = [s \in System |-> db'[s]]
  <2>1. /\ RootPositions["tables"] = Placeholder /\ RootPositions["columns"] = Second
        /\ RootPositions["indexes"] = Third
    BY <1>5
  <2>2. QED
    BY <1>3, <1>10, <2>1, SystemFacts
<1>12. /\ db'["tables"].meta = m1 /\ db'["tables"].position = Placeholder
       /\ db'["tables"].root = db["tables"].root
       /\ db'["columns"].meta = m2 /\ db'["columns"].position = Second
       /\ db'["indexes"].meta = m3 /\ db'["indexes"].position = Third
       /\ \A s \in System : IsTree(db'[s])
  <2>1. /\ \A x, y, z : Tree(x, y, z).meta = x /\ Tree(x, y, z).root = y
                       /\ Tree(x, y, z).position = z /\ IsTree(Tree(x, y, z))
    BY DEF Tree, IsTree
  <2> HIDE DEF m1, m2, m3
  <2>2. /\ db'["tables"].meta = m1 /\ db'["tables"].position = Placeholder
        /\ db'["tables"].root = db["tables"].root /\ IsTree(db'["tables"])
    BY <1>11, <2>1
  <2>3. /\ db'["columns"].meta = m2 /\ db'["columns"].position = Second
        /\ IsTree(db'["columns"])
    BY <1>11, <2>1
  <2>4. /\ db'["indexes"].meta = m3 /\ db'["indexes"].position = Third
        /\ IsTree(db'["indexes"])
    BY <1>11, <2>1
  <2>5. System = {"tables", "columns", "indexes"}
    BY SystemFacts
  <2>6. QED
    BY <2>2, <2>3, <2>4, <2>5
<1> HIDE DEF m1, m2, m3, i1, i2, i3
<1>13. DOMAIN metas = {} /\ DOMAIN nodes = {Placeholder, Second} /\ length = Third
  BY <1>2 DEF Starting
<1>14. /\ DOMAIN metas' = {132, 148, 164} /\ metas'[132] = m1
       /\ metas'[148] = m2 /\ metas'[164] = m3
  <2>1. /\ DOMAIN newMetas = {132, 148, 164} /\ newMetas[132] = m1
        /\ newMetas[148] = m2 /\ newMetas[164] = m3
    BY <1>13 DEF Put
  <2> HIDE DEF newMetas
  <2>2. QED
    BY <1>8, <2>1
<1> HIDE DEF n1, n2, n3
<1>15. Placeholder # Second /\ Placeholder # Third /\ Second # Third
  BY <1>1, <1>4
<1>16. /\ DOMAIN nodes' = {Placeholder, Second, Third} /\ nodes'[Placeholder] = i1
       /\ nodes'[Second] = i2 /\ nodes'[Third] = i3
  <2>1. /\ DOMAIN newNodes = {Placeholder, Second, Third} /\ newNodes[Placeholder] = i1
        /\ newNodes[Second] = i2 /\ newNodes[Third] = i3
    BY <1>13, <1>15 DEF Put
  <2> HIDE DEF newNodes
  <2>2. QED
    BY <1>9, <2>1
<1>17. length' = Third + n3
  <2>1. Third + n3 \in Int /\ Third \in Int /\ ~(Third >= Third + n3)
    BY <1>1, <1>4
  <2>2. QED
    BY <1>9, <1>13, <2>1, MaxOfTwo
<1> HIDE DEF newMetas, newNodes
<1>18. Sized'
  <2>1. length' \in Nat /\ 180 <= length' /\ 132 + 16 <= length' /\ 148 + 16 <= length'
        /\ 164 + 16 <= length' /\ 180 + n1 <= length' /\ Second + n2 <= length'
        /\ Third + n3 <= length' /\ 180 <= Second /\ 180 <= Third
    BY <1>1, <1>4, <1>17
  <2>2. \A p \in DOMAIN metas' : p \in Nat /\ 132 <= p /\ p + 16 <= length'
    BY <1>14, <2>1
  <2>3. \A p \in DOMAIN nodes' :
          /\ p \in Nat /\ 180 <= p
          /\ nodes'[p].size \in Nat \ {0} /\ p + nodes'[p].size <= length'
    BY <1>1, <1>4, <1>7, <1>16, <2>1
  <2>4. QED
    BY <2>1, <2>2, <2>3, SystemFacts DEF Sized
<1>19. Apart'
  <2>1. \A p, q \in DOMAIN metas' : p # q => p + 16 <= q \/ q + 16 <= p
    BY <1>14
  <2>2. \A p, q \in DOMAIN nodes' :
          p # q => p + nodes'[p].size <= q \/ q + nodes'[q].size <= p
    BY <1>1, <1>4, <1>7, <1>16
  <2>3. \A p \in DOMAIN metas', q \in DOMAIN nodes' : p + 16 <= q
    <3>1. \A p \in DOMAIN metas' : p \in Nat /\ p + 16 <= 180
      BY <1>14
    <3>2. \A q \in DOMAIN nodes' : q \in Nat /\ 180 <= q
      BY <1>1, <1>4, <1>16
    <3>3. QED
      BY <3>1, <3>2
  <2>4. QED
    BY <2>1, <2>2, <2>3, SystemFacts DEF Apart
<1>20. Rooted'
  <2>1. \A p \in DOMAIN metas' :
          /\ metas'[p] \in Descriptor
          /\ metas'[p].root_position \in DOMAIN nodes'
          /\ nodes'[metas'[p].root_position].size = nodeSize(metas'[p])
    BY <1>6, <1>7, <1>14, <1>16
  <2>2. \A p, q \in DOMAIN metas' :
          metas'[p].root_position = metas'[q].root_position => p = q
    BY <1>6, <1>14, <1>15
  <2>3. QED
    BY <2>1, <2>2 DEF Rooted
<1>21. Described' /\ DOMAIN metas' = SystemMetas
  BY <1>14, SystemFacts DEF Described
<1>22. Lists(db["tables"].root, DOMAIN metas')
  BY <1>3, <1>21
<1>23. FileInv'
  <2>1. OnFile("tables")' = db["tables"].root
    BY <1>6, <1>7, <1>14, <1>16, SystemFacts DEF OnFile
  <2>2. Lists(OnFile("tables"), DOMAIN metas)'
    BY <1>22, <2>1 DEF Lists
  <2>3. magic' = TRUE
    BY DEF mdbCreateDatabase
  <2>4. QED
    BY <1>18, <1>19, <1>20, <1>21, <2>2, <2>3 DEF FileInv
<1>24. Opened'
  <2>1. magic' = TRUE
    BY DEF mdbCreateDatabase
  <2>2. \A s \in System : TreeOf(db[s], MetaOf[s])'
    <3>1. \A s \in System :
            /\ db'[s].meta = metas'[MetaOf[s]]
            /\ db'[s].position = metas'[MetaOf[s]].root_position
      BY <1>6, <1>12, <1>14, SystemFacts
    <3>2. QED
      BY <1>12, <3>1 DEF TreeOf, IsTree
  <2>3. Lists(db.tables.root, DOMAIN metas)'
    BY <1>12, <1>22 DEF Lists
  <2>4. QED
    BY <1>11, <2>1, <2>2, <2>3 DEF Opened
<1>25. pc' = "idle"
  BY DEF mdbCreateDatabase
<1>26. QED
  BY <1>23, <1>24, <1>25 DEF CatalogInv, Working

(* Nothing happens. *)
LEMMA CatalogStutters ==
  ASSUME CatalogInv, UNCHANGED vars
  PROVE  CatalogInv'
<1>1. UNCHANGED onFile /\ db' = db /\ tbl' = tbl /\ pc' = pc
  BY DEF vars
<1>2. FileInv'
  BY <1>1, FileSame DEF CatalogInv
<1>3. metas' = metas /\ magic' = magic /\ length' = length /\ nodes' = nodes
  BY <1>1 DEF onFile
<1>4. Starting' = Starting
  BY <1>1, <1>3 DEF Starting, IsTree, Lists
<1>5. Opened' = Opened /\ Loaded' = Loaded
  BY <1>1, <1>3 DEF Opened, Loaded, TreeOf, IsTree, Lists
<1>6. QED
  BY <1>1, <1>2, <1>4, <1>5 DEF CatalogInv

(* No file. *)
LEMMA CatalogStarts ==
  ASSUME Init
  PROVE  CatalogInv
<1>1. /\ length = 0 /\ magic = FALSE /\ metas = <<>> /\ nodes = <<>>
      /\ db = None /\ pc = "idle"
  BY DEF Init
<1>2. DOMAIN <<>> = {}
  OBVIOUS
<1>3. Sized /\ Apart /\ Rooted
  BY <1>1, <1>2 DEF Sized, Apart, Rooted
<1>4. QED
  BY <1>1, <1>3 DEF CatalogInv, FileInv, Working

(* Every statement, every one cut short, keeps the invariant. *)
THEOREM CatalogInvariant == Spec => []CatalogInv
<1>1. Init => CatalogInv
  BY CatalogStarts
<1>2. CatalogInv /\ [Next]_vars => CatalogInv'
  <2> SUFFICES ASSUME CatalogInv, [Next]_vars
               PROVE  CatalogInv'
    OBVIOUS
  <2>1. CASE mdbCreateSystemTables
    BY <2>1, CreateSystemTablesStep
  <2>2. CASE mdbCreateDatabase
    BY <2>2, CreateDatabaseStep
  <2>3. CASE mdbOpenDatabase
    BY <2>3, OpenStep
  <2>4. CASE mdbCloseDatabase
    BY <2>4, CloseStep
  <2>5. CASE Kill
    BY <2>5, KillStep
  <2>6. CASE \E name \in Names, columns \in Layouts : mdbCreateTable(name, columns)
    BY <2>6, CreateTableStep
  <2>7. CASE ListTable
    BY <2>7, ListTableStep
  <2>8. CASE ListColumn
    BY <2>8, ListColumnStep
  <2>9. CASE TableCreated
    BY <2>9, TableCreatedStep
  <2>10. CASE \E name \in Names : mdbLoadTable(name)
    BY <2>10, LoadStep
  <2>11. CASE \E row \in Rows : InsertRecord(row)
    BY <2>11, InsertRecordStep
  <2>12. CASE Reset
    BY <2>12, ResetStep
  <2>13. CASE UNCHANGED vars
    BY <2>13, CatalogStutters
  <2>14. QED
    BY <2>1, <2>2, <2>3, <2>4, <2>5, <2>6, <2>7, <2>8, <2>9, <2>10, <2>11,
       <2>12, <2>13 DEF Next
<1>3. QED
  BY <1>1, <1>2, PTL DEF Spec

-----------------------------------------------------------------------------
(* What the invariant says of the file.                                    *)

(* The header, the descriptors and the nodes lie apart and inside the file. *)
LEMMA BlocksApart ==
  ASSUME CatalogInv
  PROVE  BlocksDisjoint
<1> DEFINE header == IF length > 0 THEN {<<0, sizeofHeader>>} ELSE {}
           desc == {<<p, p + sizeofMeta>> : p \in DOMAIN metas}
           node == {<<p, p + nodes[p].size>> : p \in DOMAIN nodes}
<1>1. Sized /\ Apart /\ sizeofHeader = 132 /\ sizeofMeta = 16 /\ Placeholder = 180
  BY SystemFacts DEF CatalogInv, FileInv
<1>2. /\ length \in Nat
      /\ \A p \in DOMAIN metas : p \in Nat /\ 132 <= p /\ p + 16 <= length
      /\ \A p \in DOMAIN nodes : /\ p \in Nat /\ 180 <= p /\ nodes[p].size \in Nat
                                 /\ p + nodes[p].size <= length
      /\ length # 0 => 180 <= length
  BY <1>1 DEF Sized
<1> SUFFICES ASSUME NEW a \in Blocks, NEW b \in Blocks
             PROVE  /\ a[2] <= length
                    /\ a # b => a[2] <= b[1] \/ b[2] <= a[1]
  BY DEF BlocksDisjoint
<1>3. Blocks = header \cup desc \cup node
  BY DEF Blocks
<1>4. \A x \in header : x[1] = 0 /\ x[2] = 132 /\ x = <<0, 132>> /\ length # 0
  BY <1>1, <1>2
<1>5. \A x \in desc : \E p \in DOMAIN metas : x[1] = p /\ x[2] = p + 16 /\ x = <<p, p + 16>>
  BY <1>1
<1>6. \A x \in node : \E p \in DOMAIN nodes :
        x[1] = p /\ x[2] = p + nodes[p].size /\ x = <<p, p + nodes[p].size>>
  OBVIOUS
<1>7. /\ \A p, q \in DOMAIN metas : p # q => p + 16 <= q \/ q + 16 <= p
      /\ \A p, q \in DOMAIN nodes : p # q => p + nodes[p].size <= q \/ q + nodes[q].size <= p
      /\ \A p \in DOMAIN metas, q \in DOMAIN nodes :
           p + 16 <= q \/ q + nodes[q].size <= p
  BY <1>1 DEF Apart
<1> HIDE DEF header, desc, node
<1>8. CASE a \in header
  <2>1. a[1] = 0 /\ a[2] = 132 /\ a = <<0, 132>> /\ length # 0
    BY <1>4, <1>8
  <2>2. b \in header => b = a
    BY <1>4, <2>1
  <2>3. b \in desc => a[2] <= b[1]
    BY <1>2, <1>5, <2>1
  <2>4. b \in node => a[2] <= b[1]
    <3>1. \A p \in DOMAIN nodes : 132 <= p
      BY <1>2
    <3>2. QED
      BY <1>6, <2>1, <3>1
  <2>5. a[2] <= length
    BY <1>2, <2>1
  <2>6. QED
    BY <1>3, <2>2, <2>3, <2>4, <2>5
<1>9. CASE a \in desc
  <2>1. PICK p \in DOMAIN metas : a[1] = p /\ a[2] = p + 16 /\ a = <<p, p + 16>>
    BY <1>5, <1>9
  <2>2. b \in header => b[2] <= a[1]
    BY <1>2, <1>4, <2>1
  <2>3. b \in desc => a = b \/ a[2] <= b[1] \/ b[2] <= a[1]
    BY <1>5, <1>7, <2>1
  <2>4. b \in node => a[2] <= b[1] \/ b[2] <= a[1]
    BY <1>6, <1>7, <2>1
  <2>5. a[2] <= length
    BY <1>2, <2>1
  <2>6. QED
    BY <1>3, <2>2, <2>3, <2>4, <2>5
<1>10. CASE a \in node
  <2>1. PICK p \in DOMAIN nodes :
          a[1] = p /\ a[2] = p + nodes[p].size /\ a = <<p, p + nodes[p].size>>
    BY <1>6, <1>10
  <2>2. b \in header => b[2] <= a[1]
    <3>1. 132 <= p
      BY <1>2
    <3>2. QED
      BY <1>4, <2>1, <3>1
  <2>3. b \in desc => a[2] <= b[1] \/ b[2] <= a[1]
    BY <1>5, <1>7, <2>1
  <2>4. b \in node => a = b \/ a[2] <= b[1] \/ b[2] <= a[1]
    BY <1>6, <1>7, <2>1
  <2>5. a[2] <= length
    BY <1>2, <2>1
  <2>6. QED
    BY <1>3, <2>2, <2>3, <2>4, <2>5
<1>11. QED
  BY <1>3, <1>8, <1>9, <1>10

(* What is listed has a descriptor, and that a root of its size. *)
LEMMA ListedTrees ==
  ASSUME CatalogInv
  PROVE  ListedHasTree
<1> SUFFICES ASSUME magic, NEW i \in 1 .. Leaf!Count(OnFile("tables"))
             PROVE  LET btree == OnFile("tables").recs[i].btree
                    IN  /\ btree \in DOMAIN metas
                        /\ metas[btree].root_position \in DOMAIN nodes
                        /\ nodes[metas[btree].root_position].size = nodeSize(metas[btree])
  BY DEF ListedHasTree
<1> DEFINE n == OnFile("tables")
<1>1. Rooted /\ Lists(n, DOMAIN metas)
  BY DEF CatalogInv, FileInv
<1>2. i \in 1 .. Len(n.recs)
  BY DEF Leaf!Count
<1> HIDE DEF n
<1>3. n.recs[i] \in ToSet(n.recs)
  BY <1>1, <1>2, ElementsOf DEF Lists
<1>4. n.recs[i].btree \in DOMAIN metas
  BY <1>1, <1>3 DEF Lists
<1>5. QED
  BY <1>1, <1>4 DEF Rooted, n

(* Where mdbWriteNode appends, where mdbCreateDatabase and mdbCreateTable
   compute that nodes are, and how large they take them to be agree, for
   every record size that has an order, and wherever the program is killed:
   header, descriptors and nodes never overlap and end inside the file. *)
THEOREM NothingOverlaps == Spec => []BlocksDisjoint
BY CatalogInvariant, BlocksApart, PTL

(* At every moment a table in the .Tables of the file, a system table among
   them, has its descriptor and its root: mdbCreateTable lists it last. *)
THEOREM EveryTableHasTree == Spec => []ListedHasTree
BY CatalogInvariant, ListedTrees, PTL

-----------------------------------------------------------------------------
(* The orders of the trees in the file.                                    *)

(* mdbBtreeCreate is asked for the optimal order. *)
OptimalMeta(m) == m.record_size \in RecordSizes /\ m.order = Orders[m.record_size]

(* Those of the file, and *)
OptimalMetas == \A p \in DOMAIN metas : OptimalMeta(metas[p])

(* those of a database that is being created. *)
OrdersInv ==
  OptimalMetas /\ (pc = "create database" => \A s \in System : OptimalMeta(db[s].meta))

(* Whatever its root's position becomes. *)
LEMMA CreatedOptimal ==
  ASSUME NEW size \in RecordSizes, NEW root
  PROVE  /\ OptimalMeta(mdbBtreeCreate(0, size))
         /\ OptimalMeta([mdbBtreeCreate(0, size) EXCEPT !.root_position = root])
BY DEF OptimalMeta, mdbBtreeCreate

(* Two actions write descriptors, from mdbBtreeCreate's. *)
LEMMA OrdersStep ==
  ASSUME CatalogInv, OrdersInv, [Next]_vars
  PROVE  OrdersInv'
<1>1. CASE UNCHANGED metas /\ (pc' # "create database" \/ UNCHANGED <<pc, db>>)
  BY <1>1 DEF OrdersInv, OptimalMetas
<1>2. CASE mdbCreateSystemTables
  <2>1. metas' = <<>>
    BY <1>2 DEF mdbCreateSystemTables
  <2>2. \A s \in System : db'[s].meta = mdbBtreeCreate(0, sizeofRecord[s])
    <3>1. /\ db'["tables"].meta = mdbBtreeCreate(0, sizeofRecord["tables"])
          /\ db'["columns"].meta = mdbBtreeCreate(0, sizeofRecord["columns"])
          /\ db'["indexes"].meta = mdbBtreeCreate(0, sizeofRecord["indexes"])
      BY <1>2 DEF mdbCreateSystemTables, Tree
    <3>2. QED
      BY <3>1, SystemFacts
  <2>3. \A s \in System : sizeofRecord[s] \in RecordSizes
    BY DEF RecordSizes
  <2>4. DOMAIN <<>> = {}
    OBVIOUS
  <2>5. QED
    BY <2>1, <2>2, <2>3, <2>4, CreatedOptimal DEF OrdersInv, OptimalMetas
<1>3. CASE mdbCreateDatabase
  <2> DEFINE m(s) == [db[s].meta EXCEPT !.root_position = RootPositions[s]]
             new == Put(Put(Put(metas, MetaOf["tables"], m("tables")),
                            MetaOf["columns"], m("columns")), MetaOf["indexes"], m("indexes"))
  <2>1. metas' = new /\ pc' = "idle"
    BY <1>3 DEF mdbCreateDatabase
  <2>2. Starting
    BY <1>3 DEF mdbCreateDatabase, CatalogInv
  <2>3. ASSUME NEW s \in System
        PROVE  OptimalMeta(m(s))
    <3>1. db[s].meta = mdbBtreeCreate(0, sizeofRecord[s]) /\ sizeofRecord[s] \in RecordSizes
      BY <2>2 DEF Starting, SystemMeta, RecordSizes
    <3>2. QED
      BY <3>1, CreatedOptimal
  <2> HIDE DEF m
  <2>4. \A p \in DOMAIN new :
          new[p] \in {m("tables"), m("columns"), m("indexes")} \/ (p \in DOMAIN metas /\ new[p] = metas[p])
    BY DEF Put
  <2> HIDE DEF new
  <2>5. QED
    BY <2>1, <2>3, <2>4, SystemFacts DEF OrdersInv, OptimalMetas
<1>4. CASE \E name \in Names, columns \in Layouts : mdbCreateTable(name, columns)
  <2>1. PICK name \in Names, columns \in Layouts : mdbCreateTable(name, columns)
    BY <1>4
  <2> DEFINE meta == [mdbBtreeCreate(0, RecordSize(columns)) EXCEPT
                        !.root_position = length + sizeofMeta]
             new == Put(metas, length, meta)
  <2>2. metas' = new /\ pc' = "list table"
    BY <2>1 DEF mdbCreateTable
  <2>3. RecordSize(columns) \in RecordSizes
    BY DEF RecordSizes
  <2>4. OptimalMeta(meta)
    BY <2>3, CreatedOptimal
  <2> HIDE DEF meta
  <2>5. \A p \in DOMAIN new : new[p] = meta \/ (p \in DOMAIN metas /\ new[p] = metas[p])
    BY DEF Put
  <2> HIDE DEF new
  <2>6. QED
    BY <2>2, <2>4, <2>5 DEF OrdersInv, OptimalMetas
<1>5. CASE mdbOpenDatabase \/ mdbCloseDatabase \/ Kill \/ Reset
  BY <1>1, <1>5 DEF mdbOpenDatabase, mdbCloseDatabase, Kill, Reset, onFile
<1>6. CASE ListTable \/ ListColumn \/ TableCreated
  BY <1>1, <1>6 DEF ListTable, ListColumn, TableCreated, onFile
<1>7. CASE \E name \in Names : mdbLoadTable(name)
  BY <1>1, <1>7 DEF mdbLoadTable, onFile
<1>8. CASE \E row \in Rows : InsertRecord(row)
  BY <1>1, <1>8 DEF InsertRecord
<1>9. CASE UNCHANGED vars
  BY <1>1, <1>9 DEF vars, onFile
<1>10. QED
  BY <1>2, <1>3, <1>4, <1>5, <1>6, <1>7, <1>8, <1>9 DEF Next

(* The trees can grow: the halves that mdbBtreeSplitChild makes of a full node
   of order 1 would hold no record. *)
Growing == \A size \in RecordSizes : Orders[size] >= 2

(* Every tree in the file, a system table's or another, has the order that
   wastes least of it, as mdbBtreeOptimalOrder promises, if only that order is
   at least 2: the search through the node sizes finds it. *)
THEOREM TreesAreOptimal == Spec /\ Growing => []OrdersOptimal
<1>1. Growing => RecordSizes \subseteq WellOrdered
  <2> SUFFICES ASSUME Growing, NEW size \in RecordSizes
               PROVE  IsOptimal(Orders[size], size)
    BY DEF WellOrdered
  <2>1. size \in 1 .. UPPER_NS - 2 * KB /\ Orders[size] = mdbBtreeOptimalOrder(size)
    BY SizesAssumption DEF Orders
  <2>2. mdbBtreeOptimalOrder(size) >= 2
    BY <2>1 DEF Growing
  <2>3. QED
    BY <2>1, <2>2, OptimalOrderIsOptimal
<1>2. Init => OrdersInv
  <2>1. Init => metas = <<>> /\ pc = "idle"
    BY DEF Init
  <2>2. DOMAIN <<>> = {}
    OBVIOUS
  <2>3. QED
    BY <2>1, <2>2 DEF OrdersInv, OptimalMetas
<1>3. CatalogInv /\ OrdersInv /\ [Next]_vars => OrdersInv'
  BY OrdersStep
<1>4. OrdersInv /\ RecordSizes \subseteq WellOrdered => OrdersOptimal
  BY DEF OrdersInv, OptimalMetas, OptimalMeta, OrdersOptimal
<1>5. Spec => []OrdersInv
  BY <1>2, <1>3, CatalogInvariant, PTL DEF Spec
<1>6. CASE Growing
  <2>1. OrdersInv => OrdersOptimal
    BY <1>1, <1>4, <1>6
  <2>2. QED
    BY <1>5, <2>1, PTL
<1>7. CASE ~Growing
  BY <1>7
<1>8. QED
  BY <1>6, <1>7

-----------------------------------------------------------------------------
(* The comparison of names orders them: not being told apart is no equality
   (a name and one that it begins), but being less is transitive, and so the
   names in a leaf, no two of which collide, are in order. *)

(* The place at which two names are told apart: both go on so far. *)
DecidesAt(a, b, i) ==
  /\ i \in 1 .. Len(a) /\ i \in 1 .. Len(b)
  /\ a[i] # b[i]
  /\ \A j \in 1 .. i - 1 : a[j] = b[j] /\ a[j] # 0

(* There the sign is that of the difference; without it there is none. *)
LEMMA CmpDecided ==
  ASSUME NEW a \in Seq(Nat), NEW b \in Seq(Nat)
  PROVE  /\ \A i : DecidesAt(a, b, i) => CmpNames(a, b) = a[i] - b[i]
         /\ (\A i : ~DecidesAt(a, b, i)) => CmpNames(a, b) = 0
<1> DEFINE n == IF Len(b) < Len(a) THEN Len(b) ELSE Len(a)
           ends == {i \in 1 .. n : a[i] = 0 /\ b[i] = 0}
           stop == IF ends = {} THEN n
                   ELSE CHOOSE i \in ends : \A j \in ends : i <= j
<1>1. /\ n \in Nat /\ n <= Len(a) /\ n <= Len(b)
      /\ Len(a) \in Nat /\ Len(b) \in Nat
      /\ \A i \in 1 .. Len(a) : i \in 1 .. Len(b) => i \in 1 .. n
  BY LenProperties
<1>2. CmpNames(a, b) = memcmp(a, b, stop)
  <2>1. datatypes["STRING"] = [header |-> 4, size |-> 1, compare |-> "strncmp"]
    BY DEF datatypes
  <2>2. CmpNames(a, b) = Compare("strncmp", a, b, n)
    BY <2>1 DEF CmpNames, mdbBtreeCmp
  <2>3. CmpNames(a, b) = strncmp(a, b, n)
    BY <2>2 DEF Compare
  <2>4. QED
    BY <2>3 DEF strncmp
<1>3. /\ stop \in 0 .. n
      /\ \A j \in 1 .. stop - 1 : ~(a[j] = 0 /\ b[j] = 0)
      /\ \A i \in 1 .. n : i > stop => stop > 0 /\ a[stop] = 0 /\ b[stop] = 0
  <2>1. CASE ends = {}
    <3>1. stop = n /\ \A j \in 1 .. n : ~(a[j] = 0 /\ b[j] = 0)
      BY <2>1
    <3> HIDE DEF stop, n, ends
    <3>2. QED
      BY <1>1, <3>1
  <2>2. CASE ends # {}
    <3>1. ends \in SUBSET Nat
      BY <1>1
    <3>2. \E x \in ends : \A y \in ends : x <= y
      BY <2>2, <3>1, LeastElement
    <3>3. stop \in ends /\ \A y \in ends : stop <= y
      BY <2>2, <3>2
    <3>4. stop \in 1 .. n /\ a[stop] = 0 /\ b[stop] = 0
      BY <3>3
    <3>5. \A j \in 1 .. n : a[j] = 0 /\ b[j] = 0 => stop <= j
      BY <3>3
    <3> HIDE DEF stop, n, ends
    <3>6. QED
      BY <1>1, <3>4, <3>5
  <2>3. QED
    BY <2>1, <2>2
<1> HIDE DEF n, stop, ends
<1>4. \A i : DecidesAt(a, b, i) <=> Decides(a, b, stop, i)
  <2> SUFFICES ASSUME NEW i
               PROVE  DecidesAt(a, b, i) <=> Decides(a, b, stop, i)
    OBVIOUS
  <2>1. ASSUME DecidesAt(a, b, i)
        PROVE  Decides(a, b, stop, i)
    <3>1. i \in 1 .. n /\ a[i] # b[i] /\ \A j \in 1 .. i - 1 : a[j] = b[j] /\ a[j] # 0
      BY <1>1, <2>1 DEF DecidesAt
    <3>2. i <= stop
      <4>1. ASSUME i > stop
            PROVE  FALSE
        <5>1. stop > 0 /\ a[stop] = 0
          BY <1>3, <3>1, <4>1
        <5>2. stop \in 1 .. i - 1
          BY <1>1, <1>3, <3>1, <4>1, <5>1
        <5>3. QED
          BY <3>1, <5>1, <5>2
      <4>2. QED
        BY <1>1, <1>3, <3>1, <4>1
    <3>3. i \in 1 .. stop
      BY <1>1, <1>3, <3>1, <3>2
    <3>4. QED
      BY <3>1, <3>3 DEF Decides
  <2>2. ASSUME Decides(a, b, stop, i)
        PROVE  DecidesAt(a, b, i)
    <3>1. i \in 1 .. stop /\ a[i] # b[i] /\ \A j \in 1 .. i - 1 : a[j] = b[j]
      BY <2>2 DEF Decides
    <3>2. i \in 1 .. Len(a) /\ i \in 1 .. Len(b)
      BY <1>1, <1>3, <3>1
    <3>3. \A j \in 1 .. i - 1 : j \in 1 .. stop - 1
      BY <1>1, <1>3, <3>1
    <3>4. QED
      BY <1>3, <3>1, <3>2, <3>3 DEF DecidesAt
  <2>3. QED
    BY <2>1, <2>2
<1>5. ASSUME NEW i, Decides(a, b, stop, i)
      PROVE  memcmp(a, b, stop) = a[i] - b[i]
  <2> DEFINE f == CHOOSE j \in 1 .. stop : Decides(a, b, stop, j)
  <2>1. i \in 1 .. stop
    BY <1>5 DEF Decides
  <2>2. f \in 1 .. stop /\ Decides(a, b, stop, f)
    BY <1>5, <2>1
  <2>3. memcmp(a, b, stop) = a[f] - b[f]
    BY <1>5, <2>1 DEF memcmp
  <2> HIDE DEF f
  <2>4. ~(f < i) /\ ~(i < f)
    <3>1. f < i => f \in 1 .. i - 1
      BY <1>1, <1>3, <2>1, <2>2
    <3>2. i < f => i \in 1 .. f - 1
      BY <1>1, <1>3, <2>1, <2>2
    <3>3. QED
      BY <1>5, <2>2, <3>1, <3>2 DEF Decides
  <2>5. f = i
    BY <1>1, <1>3, <2>1, <2>2, <2>4
  <2>6. QED
    BY <2>3, <2>5
<1>6. ASSUME \A i : ~Decides(a, b, stop, i)
      PROVE  memcmp(a, b, stop) = 0
  BY <1>6 DEF memcmp
<1>7. QED
  BY <1>2, <1>4, <1>5, <1>6

(* The name is before the other one. *)
Less(a, b) == CmpNames(a, b) < 0

(* To be told apart is the same from both sides. *)
LEMMA CmpBothWays ==
  ASSUME NEW a \in Seq(Nat), NEW b \in Seq(Nat)
  PROVE  /\ CmpNames(a, b) \in Int /\ CmpNames(b, a) \in Int
         /\ Less(a, b) <=> CmpNames(b, a) > 0
         /\ CmpNames(a, b) = 0 <=> CmpNames(b, a) = 0
         /\ CmpNames(a, a) = 0
         /\ CmpNames(a, b) # 0 <=> \E i : DecidesAt(a, b, i)
         /\ Less(a, b) <=> \E i : DecidesAt(a, b, i) /\ a[i] < b[i]
<1>1. CmpNames(a, b) \in Int /\ CmpNames(b, a) \in Int
  BY CmpInt
<1>2. \A i : DecidesAt(a, b, i) <=> DecidesAt(b, a, i)
  BY DEF DecidesAt
<1>3. \A i : DecidesAt(a, b, i) => a[i] \in Nat /\ b[i] \in Nat /\ a[i] # b[i]
  BY LenProperties, ElementOfSeq DEF DecidesAt
<1>4. /\ \A i : DecidesAt(a, b, i) => CmpNames(a, b) = a[i] - b[i]
      /\ (\A i : ~DecidesAt(a, b, i)) => CmpNames(a, b) = 0
  BY CmpDecided
<1>5. /\ \A i : DecidesAt(b, a, i) => CmpNames(b, a) = b[i] - a[i]
      /\ (\A i : ~DecidesAt(b, a, i)) => CmpNames(b, a) = 0
  BY CmpDecided
<1>6. CmpNames(a, a) = 0
  <2>1. \A i : ~DecidesAt(a, a, i)
    BY DEF DecidesAt
  <2>2. QED
    BY <2>1, CmpDecided
<1>7. CASE \E i : DecidesAt(a, b, i)
  <2>1. PICK i : DecidesAt(a, b, i)
    BY <1>7
  <2>2. /\ CmpNames(a, b) = a[i] - b[i] /\ CmpNames(b, a) = b[i] - a[i]
        /\ a[i] \in Nat /\ b[i] \in Nat /\ a[i] # b[i]
    BY <1>2, <1>3, <1>4, <1>5, <2>1
  <2>3. \A j : DecidesAt(a, b, j) /\ a[j] < b[j] => CmpNames(a, b) < 0
    BY <1>3, <1>4
  <2>4. CmpNames(a, b) < 0 <=> CmpNames(b, a) > 0
    BY <2>2
  <2>5. CmpNames(a, b) # 0 /\ CmpNames(b, a) # 0
    BY <2>2
  <2>6. CmpNames(a, b) < 0 => a[i] < b[i]
    BY <2>2
  <2>7. QED
    BY <1>1, <1>6, <2>1, <2>3, <2>4, <2>5, <2>6 DEF Less
<1>8. CASE \A i : ~DecidesAt(a, b, i)
  BY <1>1, <1>2, <1>4, <1>5, <1>6, <1>8 DEF Less
<1>9. QED
  BY <1>7, <1>8

(* The order is transitive, with names that begin one another among them. *)
LEMMA LessTransitive ==
  ASSUME NEW a \in Seq(Nat), NEW b \in Seq(Nat), NEW c \in Seq(Nat),
         Less(a, b), Less(b, c)
  PROVE  Less(a, c)
<1>1. PICK i : DecidesAt(a, b, i) /\ a[i] < b[i]
  BY CmpBothWays
<1>2. PICK j : DecidesAt(b, c, j) /\ b[j] < c[j]
  BY CmpBothWays
<1>3. i \in Nat /\ j \in Nat /\ Len(a) \in Nat /\ Len(b) \in Nat /\ Len(c) \in Nat
  BY <1>1, <1>2, LenProperties DEF DecidesAt
<1>4. /\ \A k \in 1 .. Len(a) : a[k] \in Nat
      /\ \A k \in 1 .. Len(b) : b[k] \in Nat
      /\ \A k \in 1 .. Len(c) : c[k] \in Nat
  BY ElementOfSeq
<1>5. CASE i <= j
  <2>1. i \in 1 .. Len(a) /\ i \in 1 .. Len(b) /\ i \in 1 .. Len(c)
    BY <1>1, <1>2, <1>3, <1>5 DEF DecidesAt
  <2>2. \A k \in 1 .. i - 1 : a[k] = c[k] /\ a[k] # 0
    <3>1. \A k \in 1 .. i - 1 : k \in 1 .. j - 1
      BY <1>3, <1>5
    <3>2. QED
      BY <1>1, <1>2, <3>1 DEF DecidesAt
  <2>3. a[i] < c[i]
    <3>1. CASE i = j
      <4>1. a[i] < b[i] /\ b[i] < c[i]
        BY <1>1, <1>2, <3>1
      <4>2. a[i] \in Nat /\ b[i] \in Nat /\ c[i] \in Nat
        BY <1>4, <2>1
      <4>3. QED
        BY <4>1, <4>2
    <3>2. CASE i # j
      <4>1. i \in 1 .. j - 1
        BY <1>3, <1>5, <2>1, <3>2
      <4>2. b[i] = c[i]
        BY <1>2, <4>1 DEF DecidesAt
      <4>3. QED
        BY <1>1, <4>2
    <3>3. QED
      BY <3>1, <3>2
  <2>4. a[i] # c[i]
    BY <1>4, <2>1, <2>3
  <2>5. DecidesAt(a, c, i)
    BY <2>1, <2>2, <2>4 DEF DecidesAt
  <2>6. QED
    BY <2>3, <2>5, CmpBothWays
<1>6. CASE j < i
  <2>1. j \in 1 .. Len(a) /\ j \in 1 .. Len(b) /\ j \in 1 .. Len(c) /\ j \in 1 .. i - 1
    BY <1>1, <1>2, <1>3, <1>6 DEF DecidesAt
  <2>2. a[j] = b[j]
    BY <1>1, <2>1 DEF DecidesAt
  <2>3. \A k \in 1 .. j - 1 : a[k] = c[k] /\ a[k] # 0
    <3>1. \A k \in 1 .. j - 1 : k \in 1 .. i - 1
      BY <1>3, <1>6
    <3>2. QED
      BY <1>1, <1>2, <3>1 DEF DecidesAt
  <2>4. a[j] < c[j] /\ a[j] # c[j]
    BY <1>2, <1>4, <2>1, <2>2
  <2>5. DecidesAt(a, c, j)
    BY <2>1, <2>3, <2>4 DEF DecidesAt
  <2>6. QED
    BY <2>4, <2>5, CmpBothWays
<1>7. QED
  BY <1>3, <1>5, <1>6

(* The digits of a number make it up. *)
DigitsMake(n) ==
  /\ n \div 100 \in Nat /\ n \div 10 \in Nat
  /\ (n \div 10) % 10 \in 0 .. 9 /\ n % 10 \in 0 .. 9
  /\ n = 10 * (n \div 10) + (n % 10)
  /\ n \div 10 = 10 * (n \div 100) + ((n \div 10) % 10)

(* The last one of them. *)
LEMMA LastDigit ==
  ASSUME NEW n \in Nat
  PROVE  n % 10 \in 0 .. 9 /\ n \div 10 \in Int /\ n = 10 * (n \div 10) + (n % 10)
<1> DEFINE w == n % 10
           q == n \div 10
<1>1. w \in 0 .. 9 /\ q \in Int /\ n = 10 * q + w
  OBVIOUS
<1>2. QED
  BY <1>1

(* They do. *)
LEMMA DigitsValue ==
  ASSUME NEW n \in Nat
  PROVE  DigitsMake(n)
<1> DEFINE m == n \div 10
           h == n \div 100
<1>1. /\ m \in Nat /\ 10 * m <= n /\ n < 10 * m + 10
      /\ h \in Nat /\ 100 * h <= n /\ n < 100 * h + 100
  BY Quotient
<1>2. n % 10 \in 0 .. 9 /\ n = 10 * m + (n % 10)
  BY LastDigit
<1> HIDE DEF m, h
<1> DEFINE u == m % 10
           v == m \div 10
<1>3. u \in 0 .. 9 /\ v \in Int /\ m = 10 * v + u
  BY <1>1, LastDigit
<1> HIDE DEF u, v
<1>4. m = 10 * h + u
  BY <1>1, <1>3
<1>5. QED
  BY <1>1, <1>2, <1>3, <1>4 DEF DigitsMake, m, h, u

(* The digits of two numbers differ, and are no NUL. *)
LEMMA DigitsApart ==
  ASSUME NEW c \in Nat, NEW d \in Nat, c # d
  PROVE  \E i \in 1 .. 3 : /\ Digits(c)[i] # Digits(d)[i]
                          /\ \A j \in 1 .. i - 1 : /\ Digits(c)[j] = Digits(d)[j]
                                                  /\ Digits(c)[j] # 0
<1> DEFINE x == Digits(c)
           y == Digits(d)
<1>1. \A n \in {c, d} : DigitsMake(n)
  BY DigitsValue
<1>2. /\ x[1] = 48 + (c \div 100) /\ y[1] = 48 + (d \div 100)
      /\ x[2] = 48 + ((c \div 10) % 10) /\ y[2] = 48 + ((d \div 10) % 10)
      /\ x[3] = 48 + (c % 10) /\ y[3] = 48 + (d % 10)
  BY DEF Digits
<1> HIDE DEF x, y
<1>3. x[1] # 0 /\ x[2] # 0
  BY <1>1, <1>2 DEF DigitsMake
<1>4. ~(x[1] = y[1] /\ x[2] = y[2] /\ x[3] = y[3])
  BY <1>1, <1>2 DEF DigitsMake
<1>5. QED
  <2>1. CASE x[1] # y[1]
    <3>1. \A j \in 1 .. 0 : FALSE
      OBVIOUS
    <3>2. QED
      BY <2>1, <3>1 DEF x, y
  <2>2. CASE x[1] = y[1] /\ x[2] # y[2]
    <3>1. \A j \in 1 .. 1 : j = 1
      OBVIOUS
    <3>2. QED
      BY <1>3, <2>2, <3>1 DEF x, y
  <2>3. CASE x[1] = y[1] /\ x[2] = y[2] /\ x[3] # y[3]
    <3>1. \A j \in 1 .. 2 : j = 1 \/ j = 2
      OBVIOUS
    <3>2. QED
      BY <1>3, <2>3, <3>1 DEF x, y
  <2>4. QED
    BY <1>4, <2>1, <2>2, <2>3

(* They are three. *)
LEMMA DigitsType ==
  ASSUME NEW c \in Nat
  PROVE  Digits(c) \in Seq(Nat) /\ Len(Digits(c)) = 3
<1>1. c \div 100 \in Nat /\ (c \div 10) % 10 \in Nat /\ c % 10 \in Nat
  BY Z3
<1>2. QED
  BY <1>1 DEF Digits

(* The identifiers of columns are told apart where their tables' names are, *)
LEMMA IdsOfTables ==
  ASSUME NEW a \in Seq(Nat), NEW b \in Seq(Nat), NEW c \in Nat, NEW d \in Nat,
         CmpNames(a, b) # 0
  PROVE  CmpNames(Id(a, c), Id(b, d)) # 0
<1> DEFINE x == Digits(c)
           y == Digits(d)
<1>1. x \in Seq(Nat) /\ y \in Seq(Nat)
  BY DigitsType
<1>2. PICK i : DecidesAt(a, b, i)
  BY CmpBothWays
<1> HIDE DEF x, y
<1>3. /\ Id(a, c) = a \o x /\ Id(b, d) = b \o y
      /\ a \o x \in Seq(Nat) /\ b \o y \in Seq(Nat)
      /\ Len(a \o x) = Len(a) + Len(x) /\ Len(b \o y) = Len(b) + Len(y)
      /\ \A j \in 1 .. Len(a) : (a \o x)[j] = a[j]
      /\ \A j \in 1 .. Len(b) : (b \o y)[j] = b[j]
      /\ Len(a) \in Nat /\ Len(b) \in Nat /\ Len(x) \in Nat /\ Len(y) \in Nat
  BY <1>1, ConcatProperties, LenProperties DEF Id, x, y
<1>4. DecidesAt(a \o x, b \o y, i)
  <2>1. /\ i \in 1 .. Len(a) /\ i \in 1 .. Len(b) /\ a[i] # b[i]
        /\ \A j \in 1 .. i - 1 : a[j] = b[j] /\ a[j] # 0
    BY <1>2 DEF DecidesAt
  <2>2. \A j \in 1 .. i - 1 : j \in 1 .. Len(a) /\ j \in 1 .. Len(b)
    BY <1>3, <2>1
  <2>3. i \in 1 .. Len(a \o x) /\ i \in 1 .. Len(b \o y)
    BY <1>3, <2>1
  <2>4. QED
    BY <1>3, <2>1, <2>2, <2>3 DEF DecidesAt
<1> DEFINE p == a \o x
           q == b \o y
<1>5. p \in Seq(Nat) /\ q \in Seq(Nat) /\ DecidesAt(p, q, i) /\ Id(a, c) = p /\ Id(b, d) = q
  BY <1>3, <1>4
<1> HIDE DEF p, q
<1>6. CmpNames(p, q) # 0
  BY <1>5, CmpBothWays
<1>7. QED
  BY <1>5, <1>6

(* those of one table in their digits, unless a NUL is in its name. *)
LEMMA IdsOfColumns ==
  ASSUME NEW a \in Seq(Nat), NEW c \in Nat, NEW d \in Nat, c # d,
         \A i \in 1 .. Len(a) : a[i] # 0
  PROVE  CmpNames(Id(a, c), Id(a, d)) # 0
<1> DEFINE x == Digits(c)
           y == Digits(d)
           l == Len(a)
<1>1. x \in Seq(Nat) /\ y \in Seq(Nat) /\ Len(x) = 3 /\ Len(y) = 3
  BY DigitsType
<1>2. PICK i \in 1 .. 3 : x[i] # y[i] /\ \A j \in 1 .. i - 1 : x[j] = y[j] /\ x[j] # 0
  BY DigitsApart
<1> HIDE DEF x, y
<1>3. /\ Id(a, c) = a \o x /\ Id(a, d) = a \o y
      /\ a \o x \in Seq(Nat) /\ a \o y \in Seq(Nat)
      /\ Len(a \o x) = l + 3 /\ Len(a \o y) = l + 3 /\ l \in Nat
      /\ \A j \in 1 .. l + 3 : (a \o x)[j] = IF j <= l THEN a[j] ELSE x[j - l]
      /\ \A j \in 1 .. l + 3 : (a \o y)[j] = IF j <= l THEN a[j] ELSE y[j - l]
  <2>1. l \in Nat
    BY LenProperties
  <2>2. /\ a \o x \in Seq(Nat) /\ Len(a \o x) = l + 3
        /\ \A j \in 1 .. l + 3 : (a \o x)[j] = IF j <= l THEN a[j] ELSE x[j - l]
    <3>1. /\ a \o x \in Seq(Nat) /\ Len(a \o x) = l + Len(x)
          /\ \A j \in 1 .. l + Len(x) :
               (a \o x)[j] = IF j <= l THEN a[j] ELSE x[j - l]
      BY <1>1, ConcatProperties
    <3>2. QED
      BY <1>1, <3>1
  <2>3. /\ a \o y \in Seq(Nat) /\ Len(a \o y) = l + 3
        /\ \A j \in 1 .. l + 3 : (a \o y)[j] = IF j <= l THEN a[j] ELSE y[j - l]
    <3>1. /\ a \o y \in Seq(Nat) /\ Len(a \o y) = l + Len(y)
          /\ \A j \in 1 .. l + Len(y) :
               (a \o y)[j] = IF j <= l THEN a[j] ELSE y[j - l]
      BY <1>1, ConcatProperties
    <3>2. QED
      BY <1>1, <3>1
  <2>4. Id(a, c) = a \o x /\ Id(a, d) = a \o y
    BY DEF Id, x, y
  <2>5. QED
    BY <2>1, <2>2, <2>3, <2>4
<1>4. \A j \in 1 .. l : a[j] # 0
  OBVIOUS
<1> HIDE DEF l
<1> DEFINE p == a \o x
           q == a \o y
<1>5. /\ p \in Seq(Nat) /\ q \in Seq(Nat) /\ Len(p) = l + 3 /\ Len(q) = l + 3
      /\ \A j \in 1 .. l + 3 : p[j] = IF j <= l THEN a[j] ELSE x[j - l]
      /\ \A j \in 1 .. l + 3 : q[j] = IF j <= l THEN a[j] ELSE y[j - l]
      /\ Id(a, c) = p /\ Id(a, d) = q
  BY <1>3
<1> HIDE DEF p, q
<1>6. \A j \in 1 .. (l + i) - 1 : p[j] = q[j] /\ p[j] # 0
  <2> SUFFICES ASSUME NEW j \in 1 .. (l + i) - 1
               PROVE  p[j] = q[j] /\ p[j] # 0
    OBVIOUS
  <2>1. j \in 1 .. l + 3
    BY <1>2, <1>3
  <2>2. CASE j <= l
    <3>1. j \in 1 .. l
      BY <1>3, <2>2
    <3>2. QED
      BY <1>4, <1>5, <2>1, <2>2, <3>1
  <2>3. CASE ~(j <= l)
    <3>1. j - l \in 1 .. i - 1
      BY <1>2, <1>3, <2>3
    <3>2. QED
      BY <1>2, <1>5, <2>1, <2>3, <3>1
  <2>4. QED
    BY <2>2, <2>3
<1>7. p[l + i] # q[l + i] /\ l + i \in 1 .. l + 3
  <2>1. ~(l + i <= l) /\ (l + i) - l = i /\ l + i \in 1 .. l + 3
    BY <1>2, <1>3
  <2>2. QED
    BY <1>2, <1>5, <2>1
<1>8. DecidesAt(p, q, l + i)
  BY <1>5, <1>6, <1>7 DEF DecidesAt
<1>9. CmpNames(p, q) # 0
  BY <1>5, <1>8, CmpBothWays
<1>10. QED
  BY <1>5, <1>9

(* An identifier can be compared. *)
LEMMA IdType ==
  ASSUME NEW a \in Seq(Nat), NEW c \in Nat
  PROVE  Id(a, c) \in Seq(Nat)
BY DigitsType, ConcatProperties DEF Id

-----------------------------------------------------------------------------
(* A leaf of the catalog.                                                  *)

(* Its records are in the order of their names. *)
Chain(n) ==
  /\ Keyed(n)
  /\ \A i, j \in 1 .. Len(n.recs) : i < j => Less(n.recs[i].key, n.recs[j].key)

(* An empty leaf. *)
LEMMA EmptyChain ==
  Chain(Leaf!EmptyLeaf) /\ ToSet(Leaf!EmptyLeaf.recs) = {}
<1>1. Leaf!EmptyLeaf.recs = <<>>
  BY DEF Leaf!EmptyLeaf
<1>2. ToSet(<<>>) = {} /\ <<>> \in Seq({}) /\ Len(<<>>) = 0
  BY DEF ToSet
<1>3. QED
  BY <1>1, <1>2 DEF Chain, Keyed

(* A record that is there is found under its key, it and no other. *)
LEMMA FoundItself ==
  ASSUME NEW n, Chain(n), NEW r \in ToSet(n.recs)
  PROVE  Collides(n, r.key) /\ Found(n, r.key) = r
<1>1. /\ Len(n.recs) \in Nat
      /\ \A i \in 1 .. Len(n.recs) : n.recs[i].key \in Seq(Nat)
      /\ \E i \in 1 .. Len(n.recs) : n.recs[i] = r
  BY KeyedFacts DEF Chain
<1>2. PICK m \in 1 .. Len(n.recs) : n.recs[m] = r
  BY <1>1
<1>3. r.key \in Seq(Nat)
  BY <1>1, <1>2
<1>4. \A j \in 1 .. Len(n.recs) : j < m => CmpNames(r.key, n.recs[j].key) > 0
  BY <1>1, <1>2, <1>3, CmpBothWays DEF Chain
<1>5. CmpNames(r.key, r.key) = 0
  BY <1>3, CmpBothWays
<1>6. HitsAt(n, r.key, m)
  <2>1. \A j \in 1 .. m - 1 : CmpNames(r.key, n.recs[j].key) > 0
    BY <1>1, <1>4
  <2>2. m \in 1 .. Len(n.recs) + 1
    BY <1>1
  <2>3. QED
    BY <1>2, <1>5, <2>1, <2>2 DEF HitsAt, Leaf!Hits, Leaf!Stops, Leaf!Count, KeyOfRecord
<1>7. ASSUME NEW i \in 1 .. Len(n.recs), HitsAt(n, r.key, i)
      PROVE  i = m
  <2>1. /\ CmpNames(r.key, n.recs[i].key) = 0
        /\ \A j \in 1 .. i - 1 : CmpNames(r.key, n.recs[j].key) > 0
    BY <1>7 DEF HitsAt, Leaf!Hits, Leaf!Stops, Leaf!Count, KeyOfRecord
  <2>2. ~(i < m)
    BY <1>4, <2>1
  <2>3. ~(m < i)
    <3>1. m < i => m \in 1 .. i - 1
      BY <1>1
    <3>2. QED
      BY <1>2, <1>5, <2>1, <3>1
  <2>4. QED
    BY <1>1, <2>2, <2>3
<1>8. \A i \in 1 .. Leaf!Count(n) : HitsAt(n, r.key, i) <=> i = m
  BY <1>6, <1>7 DEF Leaf!Count
<1>9. m \in 1 .. Leaf!Count(n)
  BY DEF Leaf!Count
<1>10. (CHOOSE i \in 1 .. Leaf!Count(n) : HitsAt(n, r.key, i)) = m
  BY <1>8, <1>9
<1>11. QED
  BY <1>2, <1>6, <1>9, <1>10 DEF Collides, Found

(* An insertion keeps the order, whatever the name, and all that was there. *)
LEMMA InsertedChain ==
  ASSUME NEW n, Chain(n), NEW r, r.key \in Seq(Nat)
  PROVE  /\ Chain(Inserted(n, r))
         /\ ToSet(n.recs) \subseteq ToSet(Inserted(n, r).recs)
         /\ ToSet(Inserted(n, r).recs) \subseteq ToSet(n.recs) \cup {r}
         /\ ~Collides(n, r.key) => r \in ToSet(Inserted(n, r).recs)
<1>1. CASE Collides(n, r.key)
  BY <1>1 DEF Inserted
<1>2. CASE ~Collides(n, r.key)
  <2> DEFINE S == ToSet(n.recs) \cup {r}
             i == SlotOf(n, r.key)
             new == InsertAt(n.recs, i, r)
             l == Len(n.recs)
  <2>1. Inserted(n, r).recs = new
    <3>1. Inserted(n, r) = Leaf!WithRecord(n, i, r)
      BY <1>2 DEF Inserted
    <3> HIDE DEF i
    <3>2. Leaf!WithRecord(n, i, r).recs = Leaf!InsertAt(n.recs, i, r)
      BY DEF Leaf!WithRecord, Leaf!Holding
    <3>3. Leaf!InsertAt(n.recs, i, r) = InsertAt(n.recs, i, r)
      BY DEF Leaf!InsertAt, InsertAt
    <3>4. QED
      BY <3>1, <3>2, <3>3
  <2>2. /\ n.recs \in Seq(S) /\ l \in Nat
        /\ \A j \in 1 .. l : n.recs[j].key \in Seq(Nat)
    <3>1. n.recs \in Seq(ToSet(n.recs))
      BY DEF Chain, Keyed
    <3>2. n.recs \in Seq(S)
      BY <3>1, SeqMonotonic
    <3>3. QED
      BY <3>2, KeyedFacts DEF Chain
  <2>3. /\ i \in 1 .. l + 1
        /\ \A j \in 1 .. l : j < i => CmpNames(r.key, n.recs[j].key) > 0
        /\ i <= l => CmpNames(r.key, n.recs[i].key) <= 0
    BY SlotStops DEF Chain
  <2> HIDE DEF i
  <2>4. new \in Seq(S) /\ ToSet(new) = S /\ Len(new) = l + 1
        /\ \A j \in 1 .. l + 1 :
             new[j] = IF j < i THEN n.recs[j] ELSE IF j = i THEN r ELSE n.recs[j - 1]
    BY <2>2, <2>3, InsertAtSeq, InsertAtSet
  <2> HIDE DEF new
  <2>5. \A j \in 1 .. l : j < i => Less(n.recs[j].key, r.key)
    BY <2>2, <2>3, CmpBothWays
  <2>6. ASSUME NEW j \in 1 .. l, i <= j
        PROVE  Less(r.key, n.recs[j].key)
    <3>1. i \in 1 .. l /\ i <= l
      BY <2>2, <2>3, <2>6
    <3>2. n.recs[i].key \in Seq(Nat) /\ CmpNames(r.key, n.recs[i].key) \in Int
      BY <2>2, <3>1, CmpInt
    <3>3. CmpNames(r.key, n.recs[i].key) # 0
      <4>1. ASSUME CmpNames(r.key, n.recs[i].key) = 0
            PROVE  FALSE
        <5>1. \A x \in 1 .. i - 1 : CmpNames(r.key, n.recs[x].key) > 0
          <6>1. \A x \in 1 .. i - 1 : x \in 1 .. l /\ x < i
            BY <2>2, <2>3
          <6>2. QED
            BY <2>3, <6>1
        <5>2. HitsAt(n, r.key, i)
          BY <2>3, <3>1, <4>1, <5>1 DEF HitsAt, Leaf!Hits, Leaf!Stops, Leaf!Count, KeyOfRecord
        <5>3. QED
          BY <1>2, <3>1, <5>2 DEF Collides, Leaf!Count
      <4>2. QED
        BY <4>1
    <3>4. Less(r.key, n.recs[i].key)
      BY <2>3, <3>1, <3>2, <3>3 DEF Less
    <3>5. CASE i = j
      BY <3>4, <3>5
    <3>6. CASE i # j
      <4>1. i < j
        BY <2>2, <2>6, <3>1, <3>6
      <4>2. Less(n.recs[i].key, n.recs[j].key)
        BY <3>1, <4>1 DEF Chain
      <4>3. n.recs[j].key \in Seq(Nat)
        BY <2>2
      <4>4. QED
        BY <3>2, <3>4, <4>2, <4>3, LessTransitive
    <3>7. QED
      BY <3>5, <3>6
  <2>7. Keyed(Inserted(n, r))
    <3>1. \A e \in S : e.key \in Seq(Nat)
      BY DEF Chain, Keyed
    <3>2. QED
      BY <2>1, <2>4, <3>1 DEF Keyed
  <2>8. ASSUME NEW x \in 1 .. l + 1, NEW y \in 1 .. l + 1, x < y
        PROVE  Less(new[x].key, new[y].key)
    <3>1. CASE y < i
      <4>1. x \in 1 .. l /\ y \in 1 .. l /\ new[x] = n.recs[x] /\ new[y] = n.recs[y]
        BY <2>2, <2>3, <2>4, <2>8, <3>1
      <4>2. QED
        BY <2>8, <4>1 DEF Chain
    <3>2. CASE y = i
      <4>1. x \in 1 .. l /\ x < i /\ new[x] = n.recs[x] /\ new[y] = r
        BY <2>2, <2>3, <2>4, <2>8, <3>2
      <4>2. QED
        BY <2>5, <4>1
    <3>3. CASE x < i /\ i < y
      <4>1. /\ x \in 1 .. l /\ y - 1 \in 1 .. l /\ x < y - 1
            /\ new[x] = n.recs[x] /\ new[y] = n.recs[y - 1]
        BY <2>2, <2>3, <2>4, <2>8, <3>3
      <4>2. QED
        BY <4>1 DEF Chain
    <3>4. CASE x = i
      <4>1. y - 1 \in 1 .. l /\ i <= y - 1 /\ new[x] = r /\ new[y] = n.recs[y - 1]
        BY <2>2, <2>3, <2>4, <2>8, <3>4
      <4>2. QED
        BY <2>6, <4>1
    <3>5. CASE i < x
      <4>1. /\ x - 1 \in 1 .. l /\ y - 1 \in 1 .. l /\ x - 1 < y - 1
            /\ new[x] = n.recs[x - 1] /\ new[y] = n.recs[y - 1]
        BY <2>2, <2>3, <2>4, <2>8, <3>5
      <4>2. QED
        BY <4>1 DEF Chain
    <3>6. QED
      BY <2>2, <2>3, <2>8, <3>1, <3>2, <3>3, <3>4, <3>5
  <2>9. Chain(Inserted(n, r))
    BY <2>1, <2>4, <2>7, <2>8 DEF Chain
  <2>10. QED
    BY <2>1, <2>4, <2>9
<1>3. QED
  BY <1>1, <1>2

(* The columns of a table, all of them listed, are those it is loaded with. *)
LEMMA ColumnsLoaded ==
  ASSUME NEW root, Chain(root), NEW S, NEW columns \in Seq(S), NEW record,
         record.columns = Len(columns),
         \A c \in 1 .. Len(columns) :
           ColumnRecord(record.key, c - 1, columns[c]) \in ToSet(root.recs)
  PROVE  LoadedColumns(root, record) = columns
<1> DEFINE l == Len(columns)
           id(c) == Id(record.key, c - 1)
           there == {c \in 1 .. l : Collides(root, id(c))}
<1>1. ASSUME NEW c \in 1 .. l
      PROVE  Collides(root, id(c)) /\ Found(root, id(c)).column = columns[c]
  <2> DEFINE r == ColumnRecord(record.key, c - 1, columns[c])
  <2>1. r.key = id(c) /\ r.column = columns[c] /\ r \in ToSet(root.recs)
    BY DEF ColumnRecord
  <2> HIDE DEF r, id
  <2>2. Collides(root, r.key) /\ Found(root, r.key) = r
    BY <2>1, FoundItself
  <2>3. QED
    BY <2>1, <2>2
<1>2. there = 1 .. l
  BY <1>1
<1>3. l \in Nat
  BY LenProperties
<1>4. ASSUME NEW c \in 1 .. l
      PROVE  there \cap 1 .. c # {} /\ Max(there \cap 1 .. c) = c
  <2> DEFINE T == there \cap 1 .. c
  <2>1. T = 1 .. c /\ c \in Nat /\ c >= 1
    BY <1>2, <1>3
  <2>2. T # {} /\ T \in SUBSET (0 .. c) /\ c \in T /\ \A y \in T : y \in Nat /\ y <= c
    BY <2>1
  <2> HIDE DEF T
  <2>3. Max(T) \in T /\ \A y \in T : Max(T) >= y
    BY <2>1, <2>2, GreatestElement
  <2>4. Max(T) = c
    BY <2>1, <2>2, <2>3
  <2>5. QED
    BY <2>2, <2>4 DEF T
<1>5. LoadedColumns(root, record) =
        [c \in 1 .. l |->
           IF there \cap 1 .. c = {} THEN Junk
           ELSE Found(root, Id(record.key, Max(there \cap 1 .. c) - 1)).column]
  BY DEF LoadedColumns
<1> HIDE DEF there, id
<1>6. LoadedColumns(root, record) = [c \in 1 .. l |-> columns[c]]
  <2>1. \A c \in 1 .. l : Found(root, Id(record.key, c - 1)).column = columns[c]
    BY <1>1 DEF id
  <2>2. QED
    BY <1>4, <1>5, <2>1
<1>7. columns = [c \in 1 .. l |-> columns[c]]
  BY LenProperties
<1>8. QED
  BY <1>6, <1>7

-----------------------------------------------------------------------------
(* Insertions one after the other, and the bytes of a record.              *)

(* One more element of one of the two folds. *)
Accumulated(op, acc, e) ==
  CASE op = "Inserted" -> Inserted(acc, e)
    [] op = "AddSize"  -> acc + ColumnSize(e)

(* A fold as the library defines it: over the subsets of the places. *)
Folds(it, op, base, s, n) ==
  it = [S \in SUBSET (1 .. n) |->
          IF S = {} THEN base ELSE Accumulated(op, it[S \ {Max(S)}], s[Max(S)])]

(* g is what is accumulated before the first element, after it, and so on. *)
Accumulates(g, op, base, s, n, result) ==
  /\ g[0] = base /\ g[n] = result
  /\ \A i \in 0 .. n - 1 : g[i + 1] = Accumulated(op, g[i], s[i + 1])

(* A fold has its intermediate results; the steps are named, since no
   operator can be handed to a lemma. *)
LEMMA FoldExists ==
  ASSUME NEW op, NEW base, NEW s, NEW n \in Nat
  PROVE  \E it : Folds(it, op, base, s, n)
<1> DEFINE B == {i \in 0 .. n : \E it : Folds(it, op, base, s, i)}
<1>1. 0 \in B
  <2> DEFINE it == [S \in SUBSET (1 .. 0) |-> base]
  <2>1. \A S \in SUBSET (1 .. 0) : S = {}
    OBVIOUS
  <2>2. Folds(it, op, base, s, 0)
    BY <2>1 DEF Folds
  <2>3. QED
    BY <2>2
<1>2. ASSUME NEW i \in 0 .. n - 1, i \in B
      PROVE  i + 1 \in B
  <2>1. PICK it : Folds(it, op, base, s, i)
    BY <1>2
  <2> DEFINE new == [S \in SUBSET (1 .. i + 1) |->
                       IF i + 1 \in S THEN Accumulated(op, it[S \ {i + 1}], s[i + 1])
                                      ELSE it[S]]
  <2>2. ASSUME NEW S \in SUBSET (1 .. i + 1)
        PROVE  new[S] = IF S = {} THEN base
                        ELSE Accumulated(op, new[S \ {Max(S)}], s[Max(S)])
    <3>1. CASE i + 1 \in S
      <4>1. Max(S) = i + 1 /\ S \ {i + 1} \in SUBSET (1 .. i + 1) /\ i + 1 \notin S \ {i + 1}
        BY <3>1, MaxOfPrefix
      <4>2. new[S \ {i + 1}] = it[S \ {i + 1}]
        BY <4>1
      <4>3. new[S] = Accumulated(op, it[S \ {i + 1}], s[i + 1])
        BY <3>1
      <4>4. QED
        BY <3>1, <4>1, <4>2, <4>3
    <3>2. CASE i + 1 \notin S /\ S # {}
      <4>1. S \in SUBSET (1 .. i)
        BY <3>2
      <4>2. Max(S) \in S /\ S \ {Max(S)} \in SUBSET (1 .. i)
        BY <3>2, <4>1, MaxInside
      <4>3. S \ {Max(S)} \in SUBSET (1 .. i + 1) /\ i + 1 \notin S \ {Max(S)}
        BY <3>2, <4>2
      <4>4. new[S] = it[S] /\ new[S \ {Max(S)}] = it[S \ {Max(S)}]
        BY <3>2, <4>3
      <4>5. it[S] = Accumulated(op, it[S \ {Max(S)}], s[Max(S)])
        BY <2>1, <3>2, <4>1 DEF Folds
      <4>6. QED
        BY <3>2, <4>4, <4>5
    <3>3. CASE S = {}
      <4>1. new[S] = it[S] /\ S \in SUBSET (1 .. i)
        BY <3>3
      <4>2. it[S] = base
        BY <2>1, <3>3, <4>1 DEF Folds
      <4>3. QED
        BY <3>3, <4>1, <4>2
    <3>4. QED
      BY <3>1, <3>2, <3>3
  <2>3. new = [S \in SUBSET (1 .. i + 1) |-> new[S]]
    OBVIOUS
  <2> HIDE DEF new
  <2>4. Folds(new, op, base, s, i + 1)
    BY <2>2, <2>3 DEF Folds
  <2>5. QED
    BY <2>4
<1> HIDE DEF B
<1>3. n \in B
  BY <1>1, <1>2, SetInduction
<1>4. QED
  BY <1>3 DEF B

(* What a fold has accumulated, element by element. *)
LEMMA FoldParts ==
  ASSUME NEW op, NEW base, NEW s, NEW n \in Nat, NEW it, Folds(it, op, base, s, n)
  PROVE  \E g : Accumulates(g, op, base, s, n, it[1 .. n])
<1> DEFINE g == [i \in 0 .. n |-> it[1 .. i]]
<1>1. g[0] = base
  <2>1. 1 .. 0 = {} /\ 1 .. 0 \in SUBSET (1 .. n)
    OBVIOUS
  <2>2. it[1 .. 0] = base
    BY <2>1 DEF Folds
  <2>3. QED
    BY <2>2
<1>2. ASSUME NEW i \in 0 .. n - 1
      PROVE  g[i + 1] = Accumulated(op, g[i], s[i + 1])
  <2> DEFINE S == 1 .. i + 1
  <2>1. S \in SUBSET (1 .. n) /\ S # {} /\ S \in SUBSET (1 .. i + 1) /\ i + 1 \in S
    OBVIOUS
  <2>2. Max(S) = i + 1
    BY <2>1, MaxOfPrefix
  <2>3. S \ {i + 1} = 1 .. i
    OBVIOUS
  <2> HIDE DEF S
  <2>4. it[S] = Accumulated(op, it[1 .. i], s[i + 1])
    BY <2>1, <2>2, <2>3 DEF Folds
  <2>5. g[i + 1] = it[S] /\ g[i] = it[1 .. i]
    BY DEF S
  <2>6. QED
    BY <2>4, <2>5
<1>3. g[n] = it[1 .. n]
  OBVIOUS
<1> HIDE DEF g
<1>4. QED
  BY <1>1, <1>2, <1>3 DEF Accumulates

(* FoldLeft takes such steps: of insertions, *)
LEMMA FoldInserted ==
  ASSUME NEW base, NEW S, NEW s \in Seq(S)
  PROVE  \E g : Accumulates(g, "Inserted", base, s, Len(s), InsertedAll(base, s))
<1> DEFINE all == InsertedAll(base, s)
<1>1. Len(s) \in Nat /\ DOMAIN s = 1 .. Len(s)
  BY LenProperties
<1>2. \E it : Folds(it, "Inserted", base, s, Len(s))
  BY <1>1, FoldExists
<1>3. \E it : Folds(it, "Inserted", base, s, Len(s)) /\ it[1 .. Len(s)] = all
  BY <1>1, <1>2, Zenon DEF Folds, Accumulated, InsertedAll, FoldLeft, MapThenFoldSet
<1> HIDE DEF all
<1>4. \E g : Accumulates(g, "Inserted", base, s, Len(s), all)
  BY <1>1, <1>3, FoldParts
<1>5. QED
  BY <1>4, Zenon DEF all

(* and of additions. *)
LEMMA FoldAddSize ==
  ASSUME NEW S, NEW s \in Seq(S)
  PROVE  \E g : Accumulates(g, "AddSize", 0, s, Len(s), RecordSize(s))
<1> DEFINE all == RecordSize(s)
<1>1. Len(s) \in Nat /\ DOMAIN s = 1 .. Len(s)
  BY LenProperties
<1>2. \E it : Folds(it, "AddSize", 0, s, Len(s))
  BY <1>1, FoldExists
<1>3. \E it : Folds(it, "AddSize", 0, s, Len(s)) /\ it[1 .. Len(s)] = all
  BY <1>1, <1>2, Zenon DEF Folds, Accumulated, RecordSize, FoldLeft, MapThenFoldSet
<1> HIDE DEF all
<1>4. \E g : Accumulates(g, "AddSize", 0, s, Len(s), all)
  BY <1>1, <1>3, FoldParts
<1>5. QED
  BY <1>4, Zenon DEF all

(* What is inserted is there if no two keys of it are taken for each other. *)
LEMMA AllInserted ==
  ASSUME NEW S, NEW s \in Seq(S),
         \A i \in 1 .. Len(s) : s[i].key \in Seq(Nat),
         \A i, j \in 1 .. Len(s) : i # j => CmpNames(s[i].key, s[j].key) # 0
  PROVE  /\ Chain(InsertedAll(Leaf!EmptyLeaf, s))
         /\ ToSet(InsertedAll(Leaf!EmptyLeaf, s).recs) = ToSet(s)
<1> DEFINE n == Len(s)
           all == InsertedAll(Leaf!EmptyLeaf, s)
<1>1. n \in Nat /\ ToSet(s) = {s[i] : i \in 1 .. n}
  BY LenProperties, ElementsOf
<1>2. PICK g : Accumulates(g, "Inserted", Leaf!EmptyLeaf, s, n, all)
  BY FoldInserted
<1> HIDE DEF n, all
<1>3. /\ g[0] = Leaf!EmptyLeaf /\ g[n] = all
      /\ \A i \in 0 .. n - 1 : g[i + 1] = Inserted(g[i], s[i + 1])
  BY <1>2 DEF Accumulates, Accumulated
<1> DEFINE B == {i \in 0 .. n : Chain(g[i]) /\ ToSet(g[i].recs) = {s[j] : j \in 1 .. i}}
<1>4. 0 \in B
  <2>1. {s[j] : j \in 1 .. 0} = {}
    OBVIOUS
  <2>2. Chain(g[0]) /\ ToSet(g[0].recs) = {}
    BY <1>3, EmptyChain, Zenon
  <2>3. 0 \in 0 .. n
    BY <1>1
  <2>4. QED
    BY <2>1, <2>2, <2>3
<1>5. ASSUME NEW i \in 0 .. n - 1, i \in B
      PROVE  i + 1 \in B
  <2>1. /\ g[i + 1] = Inserted(g[i], s[i + 1]) /\ Chain(g[i])
        /\ ToSet(g[i].recs) = {s[j] : j \in 1 .. i}
        /\ i + 1 \in 1 .. n /\ i \in Nat
    BY <1>1, <1>3, <1>5
  <2>2. s[i + 1].key \in Seq(Nat)
    BY <2>1 DEF n
  <2>3. ~Collides(g[i], s[i + 1].key)
    <3>1. ASSUME Collides(g[i], s[i + 1].key)
          PROVE  FALSE
      <4>1. PICK e \in ToSet(g[i].recs) : CmpNames(s[i + 1].key, e.key) = 0
        BY <2>1, <3>1, FoundCompares DEF Chain
      <4>2. PICK j \in 1 .. i : e = s[j]
        BY <2>1
      <4>3. j \in 1 .. n /\ j # i + 1
        BY <1>1, <2>1
      <4>4. QED
        BY <2>1, <4>1, <4>2, <4>3 DEF n
    <3>2. QED
      BY <3>1
  <2>4. Chain(g[i + 1]) /\ ToSet(g[i + 1].recs) = {s[j] : j \in 1 .. i} \cup {s[i + 1]}
    <3>1. /\ Chain(Inserted(g[i], s[i + 1]))
          /\ ToSet(g[i].recs) \subseteq ToSet(Inserted(g[i], s[i + 1]).recs)
          /\ ToSet(Inserted(g[i], s[i + 1]).recs) \subseteq ToSet(g[i].recs) \cup {s[i + 1]}
          /\ s[i + 1] \in ToSet(Inserted(g[i], s[i + 1]).recs)
      <4> DEFINE m == g[i]
                 r == s[i + 1]
      <4>1. Chain(m) /\ r.key \in Seq(Nat) /\ ~Collides(m, r.key)
        BY <2>1, <2>2, <2>3
      <4> HIDE DEF m, r
      <4>2. /\ Chain(Inserted(m, r))
            /\ ToSet(m.recs) \subseteq ToSet(Inserted(m, r).recs)
            /\ ToSet(Inserted(m, r).recs) \subseteq ToSet(m.recs) \cup {r}
            /\ r \in ToSet(Inserted(m, r).recs)
        BY <4>1, InsertedChain
      <4>3. QED
        BY <4>2 DEF m, r
    <3>2. QED
      BY <2>1, <3>1
  <2>5. {s[j] : j \in 1 .. i + 1} = {s[j] : j \in 1 .. i} \cup {s[i + 1]}
    BY <2>1
  <2>6. i + 1 \in 0 .. n
    BY <1>1
  <2>7. QED
    BY <2>4, <2>5, <2>6
<1> HIDE DEF B
<1>6. 0 .. n \subseteq B
  BY <1>1, <1>4, <1>5, SetInduction
<1>7. n \in B
  BY <1>1, <1>6
<1>8. QED
  BY <1>1, <1>3, <1>7 DEF B, all

-----------------------------------------------------------------------------
(* What mdbCreateSystemTables inserts.                                     *)

(* The columns of a table, as its creation is asked for them. *)
Column == [type : DOMAIN datatypes, length : Nat]

(* The names of the system tables are told apart by their second letters. *)
LEMMA SystemNames ==
  /\ \A s \in System : /\ SystemName[s] \in Seq(Nat)
                       /\ \A i \in 1 .. Len(SystemName[s]) : SystemName[s][i] # 0
  /\ \A s, u \in System : s # u => CmpNames(SystemName[s], SystemName[u]) # 0
<1>1. System = {"tables", "columns", "indexes"}
  BY SystemFacts
<1>2. /\ SystemName["tables"] = <<46, 84, 97, 98, 108, 101, 115>>
      /\ SystemName["columns"] = <<46, 67, 111, 108, 117, 109, 110, 115>>
      /\ SystemName["indexes"] = <<46, 73, 110, 100, 101, 120, 101, 115>>
  BY DEF SystemName
<1>3. /\ SystemName["tables"] \in Seq(Nat) /\ Len(SystemName["tables"]) = 7
      /\ SystemName["tables"][1] = 46 /\ SystemName["tables"][2] = 84
      /\ \A i \in 1 .. 7 : SystemName["tables"][i] # 0
  BY <1>2
<1>4. /\ SystemName["columns"] \in Seq(Nat) /\ Len(SystemName["columns"]) = 8
      /\ SystemName["columns"][1] = 46 /\ SystemName["columns"][2] = 67
      /\ \A i \in 1 .. 8 : SystemName["columns"][i] # 0
  BY <1>2
<1>5. /\ SystemName["indexes"] \in Seq(Nat) /\ Len(SystemName["indexes"]) = 8
      /\ SystemName["indexes"][1] = 46 /\ SystemName["indexes"][2] = 73
      /\ \A i \in 1 .. 8 : SystemName["indexes"][i] # 0
  BY <1>2
<1>6. ASSUME NEW s \in System, NEW u \in System, s # u
      PROVE  CmpNames(SystemName[s], SystemName[u]) # 0
  <2> DEFINE a == SystemName[s]
             b == SystemName[u]
  <2>1. /\ a \in Seq(Nat) /\ b \in Seq(Nat) /\ 2 \in 1 .. Len(a) /\ 2 \in 1 .. Len(b)
        /\ a[1] = 46 /\ b[1] = 46 /\ a[2] # b[2]
    <3>1. 2 \in 1 .. 7 /\ 2 \in 1 .. 8
      OBVIOUS
    <3>2. ASSUME NEW x \in System
          PROVE  /\ SystemName[x] \in Seq(Nat) /\ 2 \in 1 .. Len(SystemName[x])
                 /\ SystemName[x][1] = 46
                 /\ SystemName[x][2] = IF x = "tables" THEN 84
                                       ELSE IF x = "columns" THEN 67 ELSE 73
      <4>1. CASE x = "tables"
        BY <1>3, <3>1, <4>1
      <4>2. CASE x = "columns"
        BY <1>4, <3>1, <4>2
      <4>3. CASE x = "indexes"
        BY <1>5, <3>1, <4>3
      <4>4. QED
        BY <1>1, <4>1, <4>2, <4>3
    <3>3. a[2] # b[2]
      <4>1. /\ a[2] = IF s = "tables" THEN 84 ELSE IF s = "columns" THEN 67 ELSE 73
            /\ b[2] = IF u = "tables" THEN 84 ELSE IF u = "columns" THEN 67 ELSE 73
        BY <3>2
      <4> HIDE DEF a, b
      <4>2. QED
        BY <1>1, <1>6, <4>1
    <3>4. QED
      BY <3>2, <3>3
  <2> HIDE DEF a, b
  <2>2. \A j \in 1 .. 2 - 1 : j = 1
    OBVIOUS
  <2>3. DecidesAt(a, b, 2)
    BY <2>1, <2>2 DEF DecidesAt
  <2>4. CmpNames(a, b) # 0
    BY <2>1, <2>3, CmpBothWays
  <2>5. QED
    BY <2>4 DEF a, b
<1>7. \A s \in System : /\ SystemName[s] \in Seq(Nat)
                        /\ \A i \in 1 .. Len(SystemName[s]) : SystemName[s][i] # 0
  <2>1. ASSUME NEW s \in System
        PROVE  SystemName[s] \in Seq(Nat) /\ \A i \in 1 .. Len(SystemName[s]) : SystemName[s][i] # 0
    <3>1. CASE s = "tables"
      BY <1>3, <3>1
    <3>2. CASE s = "columns"
      BY <1>4, <3>2
    <3>3. CASE s = "indexes"
      BY <1>5, <3>3
    <3>4. QED
      BY <1>1, <3>1, <3>2, <3>3
  <2>2. QED
    BY <2>1
<1>8. QED
  BY <1>6, <1>7

(* The system tables' columns, and their bytes. *)
LEMMA SystemLayouts ==
  /\ \A s \in System : SystemLayout[s] \in Seq(Column)
  /\ Len(SystemLayout["tables"]) = 3 /\ Len(SystemLayout["columns"]) = 5
  /\ Len(SystemLayout["indexes"]) = 2
  /\ \A s \in System : RecordSize(SystemLayout[s]) = sizeofRecord[s]
<1>1. System = {"tables", "columns", "indexes"}
  BY SystemFacts
<1>2. /\ DOMAIN datatypes = {"INT-8", "INT-16", "INT-32", "FLOAT", "STRING"}
      /\ datatypes["STRING"].header = 4 /\ datatypes["STRING"].size = 1
      /\ datatypes["INT-8"].header = 0 /\ datatypes["INT-8"].size = 1
      /\ datatypes["INT-32"].header = 0 /\ datatypes["INT-32"].size = 4
  BY DEF datatypes
<1>3. /\ Str(55) \in Column /\ Str(56) \in Column /\ Str(58) \in Column
      /\ Int8 \in Column /\ Int32 \in Column
  BY <1>2 DEF Str, Int8, Int32, Column
<1>4. /\ ColumnSize(Str(55)) = 59 /\ ColumnSize(Str(56)) = 60 /\ ColumnSize(Str(58)) = 62
      /\ ColumnSize(Int8) = 1 /\ ColumnSize(Int32) = 4
  BY <1>2 DEF ColumnSize, Str, Int8, Int32
<1>5. /\ SystemLayout["tables"] = <<Str(55), Int8, Int32>>
      /\ SystemLayout["columns"] = <<Str(58), Int8, Int8, Str(56), Int32>>
      /\ SystemLayout["indexes"] = <<Str(56), Int32>>
  BY DEF SystemLayout
<1>6. /\ SystemLayout["tables"] \in Seq(Column) /\ Len(SystemLayout["tables"]) = 3
      /\ SystemLayout["columns"] \in Seq(Column) /\ Len(SystemLayout["columns"]) = 5
      /\ SystemLayout["indexes"] \in Seq(Column) /\ Len(SystemLayout["indexes"]) = 2
  BY <1>3, <1>5
<1>7. RecordSize(SystemLayout["tables"]) = 64
  <2> DEFINE l == SystemLayout["tables"]
  <2>1. PICK g : Accumulates(g, "AddSize", 0, l, 3, RecordSize(l))
    BY <1>6, FoldAddSize
  <2>2. l[1] = Str(55) /\ l[2] = Int8 /\ l[3] = Int32
    BY <1>5
  <2> HIDE DEF l
  <2>3. /\ g[0] = 0 /\ g[3] = RecordSize(l)
        /\ \A i \in 0 .. 2 : g[i + 1] = g[i] + ColumnSize(l[i + 1])
    BY <2>1 DEF Accumulates, Accumulated
  <2>4. g[1] = 59 /\ g[2] = 60 /\ g[3] = 64
    <3>1. g[1] = g[0] + ColumnSize(l[1])
      BY <2>3
    <3>2. g[2] = g[1] + ColumnSize(l[2])
      BY <2>3
    <3>3. g[3] = g[2] + ColumnSize(l[3])
      BY <2>3
    <3>4. QED
      BY <1>4, <2>2, <2>3, <3>1, <3>2, <3>3
  <2>5. QED
    BY <2>3, <2>4 DEF l
<1>8. RecordSize(SystemLayout["columns"]) = 128
  <2> DEFINE l == SystemLayout["columns"]
  <2>1. PICK g : Accumulates(g, "AddSize", 0, l, 5, RecordSize(l))
    BY <1>6, FoldAddSize
  <2>2. l[1] = Str(58) /\ l[2] = Int8 /\ l[3] = Int8 /\ l[4] = Str(56) /\ l[5] = Int32
    BY <1>5
  <2> HIDE DEF l
  <2>3. /\ g[0] = 0 /\ g[5] = RecordSize(l)
        /\ \A i \in 0 .. 4 : g[i + 1] = g[i] + ColumnSize(l[i + 1])
    BY <2>1 DEF Accumulates, Accumulated
  <2>4. g[1] = 62 /\ g[2] = 63 /\ g[3] = 64 /\ g[4] = 124 /\ g[5] = 128
    <3>1. g[1] = g[0] + ColumnSize(l[1])
      BY <2>3
    <3>2. g[2] = g[1] + ColumnSize(l[2])
      BY <2>3
    <3>3. g[3] = g[2] + ColumnSize(l[3])
      BY <2>3
    <3>4. g[4] = g[3] + ColumnSize(l[4])
      BY <2>3
    <3>5. g[5] = g[4] + ColumnSize(l[5])
      BY <2>3
    <3>6. QED
      BY <1>4, <2>2, <2>3, <3>1, <3>2, <3>3, <3>4, <3>5
  <2>5. QED
    BY <2>3, <2>4 DEF l
<1>9. RecordSize(SystemLayout["indexes"]) = 64
  <2> DEFINE l == SystemLayout["indexes"]
  <2>1. PICK g : Accumulates(g, "AddSize", 0, l, 2, RecordSize(l))
    BY <1>6, FoldAddSize
  <2>2. l[1] = Str(56) /\ l[2] = Int32
    BY <1>5
  <2> HIDE DEF l
  <2>3. /\ g[0] = 0 /\ g[2] = RecordSize(l)
        /\ \A i \in 0 .. 1 : g[i + 1] = g[i] + ColumnSize(l[i + 1])
    BY <2>1 DEF Accumulates, Accumulated
  <2>4. g[1] = 60 /\ g[2] = 64
    <3>1. g[1] = g[0] + ColumnSize(l[1])
      BY <2>3
    <3>2. g[2] = g[1] + ColumnSize(l[2])
      BY <2>3
    <3>3. QED
      BY <1>4, <2>2, <2>3, <3>1, <3>2
  <2>5. QED
    BY <2>3, <2>4 DEF l
<1>10. /\ sizeofRecord["tables"] = 64 /\ sizeofRecord["columns"] = 128
       /\ sizeofRecord["indexes"] = 64
  BY DEF sizeofRecord
<1>11. \A s \in System : RecordSize(SystemLayout[s]) = sizeofRecord[s]
  BY <1>1, <1>7, <1>8, <1>9, <1>10
<1>12. \A s \in System : SystemLayout[s] \in Seq(Column)
  BY <1>1, <1>6
<1>13. QED
  BY <1>6, <1>11, <1>12

(* A function on the first numbers is a sequence. *)
LEMMA ListOf ==
  ASSUME NEW R, NEW n \in Nat, NEW s \in [1 .. n -> R]
  PROVE  s \in Seq(R) /\ Len(s) = n
<1>1. s \in Seq(R)
  BY SeqDef
<1>2. Len(s) \in Nat /\ DOMAIN s = 1 .. Len(s) /\ DOMAIN s = 1 .. n
  BY <1>1, LenProperties
<1>3. QED
  BY <1>1, <1>2

(* The rows of .Columns that describe a table. *)
Describing(name, columns) ==
  {ColumnRecord(name, c - 1, columns[c]) : c \in 1 .. Len(columns)}

(* The insertions into .Tables. *)
SystemRows ==
  Inserted(Inserted(Inserted(Leaf!EmptyLeaf,
    SystemRow("tables")), SystemRow("columns")), SystemRow("indexes"))

(* All of them are there. *)
LEMMA SystemRowsThere ==
  Chain(SystemRows) /\ ToSet(SystemRows.recs) = {SystemRow(s) : s \in System}
<1> DEFINE one == Inserted(Leaf!EmptyLeaf, SystemRow("tables"))
           two == Inserted(one, SystemRow("columns"))
           three == Inserted(two, SystemRow("indexes"))
<1>1. \A s \in System : SystemRow(s).key = SystemName[s] /\ SystemName[s] \in Seq(Nat)
  BY SystemNames DEF SystemRow, TableRecord
<1>2. System = {"tables", "columns", "indexes"}
  BY SystemFacts
<1>3. Chain(one) /\ ToSet(one.recs) = {SystemRow("tables")}
  <2> DEFINE r == SystemRow("tables")
  <2>1. r.key \in Seq(Nat)
    BY <1>1, <1>2
  <2>2. ~Collides(Leaf!EmptyLeaf, r.key)
    BY EmptyChain, FoundCompares DEF Chain
  <2> HIDE DEF r
  <2>3. QED
    BY <2>1, <2>2, EmptyChain, InsertedChain DEF r
<1> HIDE DEF one
<1>4. Chain(two) /\ ToSet(two.recs) = {SystemRow("tables"), SystemRow("columns")}
  <2> DEFINE r == SystemRow("columns")
  <2>1. r.key \in Seq(Nat)
    BY <1>1, <1>2
  <2>2. ~Collides(one, r.key)
    <3>1. CmpNames(r.key, SystemRow("tables").key) # 0
      BY <1>1, <1>2, SystemNames
    <3>2. QED
      BY <1>3, <3>1, FoundCompares DEF Chain
  <2> HIDE DEF r
  <2>3. /\ Chain(Inserted(one, r)) /\ ToSet(one.recs) \subseteq ToSet(Inserted(one, r).recs)
        /\ ToSet(Inserted(one, r).recs) \subseteq ToSet(one.recs) \cup {r}
        /\ r \in ToSet(Inserted(one, r).recs)
    BY <1>3, <2>1, <2>2, InsertedChain
  <2>4. QED
    BY <1>3, <2>3 DEF r
<1> HIDE DEF two
<1>5. Chain(three) /\ ToSet(three.recs) = ToSet(two.recs) \cup {SystemRow("indexes")}
  <2> DEFINE r == SystemRow("indexes")
  <2>1. r.key \in Seq(Nat)
    BY <1>1, <1>2
  <2>2. ~Collides(two, r.key)
    <3>1. /\ CmpNames(r.key, SystemRow("tables").key) # 0
          /\ CmpNames(r.key, SystemRow("columns").key) # 0
      BY <1>1, <1>2, SystemNames
    <3>2. QED
      BY <1>4, <3>1, FoundCompares DEF Chain
  <2> HIDE DEF r
  <2>3. /\ Chain(Inserted(two, r)) /\ ToSet(two.recs) \subseteq ToSet(Inserted(two, r).recs)
        /\ ToSet(Inserted(two, r).recs) \subseteq ToSet(two.recs) \cup {r}
        /\ r \in ToSet(Inserted(two, r).recs)
    BY <1>4, <2>1, <2>2, InsertedChain
  <2>4. QED
    BY <2>3 DEF r
<1> HIDE DEF three
<1>6. SystemRows = three
  BY DEF SystemRows, three, two, one
<1>7. {SystemRow(s) : s \in System} =
        {SystemRow("tables"), SystemRow("columns"), SystemRow("indexes")}
  BY <1>2
<1>8. QED
  BY <1>4, <1>5, <1>6, <1>7

(* The insertions into .Columns. *)
SystemColumnList ==
  ColumnRecords(SystemName.tables, SystemLayout.tables) \o
  ColumnRecords(SystemName.columns, SystemLayout.columns) \o
  ColumnRecords(SystemName.indexes, SystemLayout.indexes)

(* The leaf after them. *)
SystemColumns == InsertedAll(Leaf!EmptyLeaf, SystemColumnList)

(* The records that mdbCreateTable inserts one after the other. *)
LEMMA ColumnsDescribe ==
  ASSUME NEW name, NEW columns \in Seq(Column), NEW R, Describing(name, columns) \subseteq R
  PROVE  /\ ColumnRecords(name, columns) \in Seq(R)
         /\ Len(ColumnRecords(name, columns)) = Len(columns)
         /\ \A c \in 1 .. Len(columns) :
              ColumnRecords(name, columns)[c] = ColumnRecord(name, c - 1, columns[c])
         /\ ToSet(ColumnRecords(name, columns)) = Describing(name, columns)
<1> DEFINE a == ColumnRecords(name, columns)
           column(c) == ColumnRecord(name, c - 1, columns[c])
           n == Len(columns)
<1>1. a = [c \in 1 .. n |-> column(c)]
  BY DEF ColumnRecords
<1>2. n \in Nat
  BY LenProperties
<1>3. Describing(name, columns) = {column(c) : c \in 1 .. n}
  BY DEF Describing
<1> HIDE DEF a, column, n
<1>4. \A c \in 1 .. n : column(c) \in R
  BY <1>3
<1>5. a \in [1 .. n -> R]
  BY <1>1, <1>4
<1>6. a \in Seq(R) /\ Len(a) = n
  BY <1>2, <1>5, ListOf
<1>7. \A c \in 1 .. n : a[c] = column(c)
  BY <1>1
<1>8. ToSet(a) = {a[c] : c \in 1 .. n}
  BY <1>6, ElementsOf
<1>9. ToSet(a) = Describing(name, columns)
  BY <1>3, <1>7, <1>8
<1>10. QED
  BY <1>6, <1>7, <1>9 DEF a, column, n

(* All of them are there, and describe the three tables. *)
LEMMA SystemColumnsThere ==
  /\ Chain(SystemColumns)
  /\ \A s \in System :
       Describing(SystemName[s], SystemLayout[s]) \subseteq ToSet(SystemColumns.recs)
  /\ \A e \in ToSet(SystemColumns.recs) :
       \E s \in System, c \in Nat : e.key = Id(SystemName[s], c)
<1> DEFINE R == UNION {Describing(SystemName[s], SystemLayout[s]) : s \in System}
           a == ColumnRecords(SystemName["tables"], SystemLayout["tables"])
           b == ColumnRecords(SystemName["columns"], SystemLayout["columns"])
           d == ColumnRecords(SystemName["indexes"], SystemLayout["indexes"])
           column(s, c) == ColumnRecord(SystemName[s], c - 1, SystemLayout[s][c])
           all == SystemColumnList
<1>1. System = {"tables", "columns", "indexes"}
  BY SystemFacts
<1>2. /\ a \in Seq(R) /\ Len(a) = 3 /\ \A c \in 1 .. 3 : a[c] = column("tables", c)
      /\ ToSet(a) = Describing(SystemName["tables"], SystemLayout["tables"])
  <2>1. SystemLayout["tables"] \in Seq(Column) /\ Len(SystemLayout["tables"]) = 3
    BY <1>1, SystemLayouts
  <2>2. Describing(SystemName["tables"], SystemLayout["tables"]) \subseteq R
    BY <1>1
  <2> HIDE DEF R
  <2>3. /\ a \in Seq(R) /\ Len(a) = Len(SystemLayout["tables"])
        /\ \A c \in 1 .. Len(SystemLayout["tables"]) : a[c] = column("tables", c)
        /\ ToSet(a) = Describing(SystemName["tables"], SystemLayout["tables"])
    BY <2>1, <2>2, ColumnsDescribe, Zenon
  <2> HIDE DEF a, column
  <2>4. QED
    BY <2>1, <2>3
<1>3. /\ b \in Seq(R) /\ Len(b) = 5 /\ \A c \in 1 .. 5 : b[c] = column("columns", c)
      /\ ToSet(b) = Describing(SystemName["columns"], SystemLayout["columns"])
  <2>1. SystemLayout["columns"] \in Seq(Column) /\ Len(SystemLayout["columns"]) = 5
    BY <1>1, SystemLayouts
  <2>2. Describing(SystemName["columns"], SystemLayout["columns"]) \subseteq R
    BY <1>1
  <2> HIDE DEF R
  <2>3. /\ b \in Seq(R) /\ Len(b) = Len(SystemLayout["columns"])
        /\ \A c \in 1 .. Len(SystemLayout["columns"]) : b[c] = column("columns", c)
        /\ ToSet(b) = Describing(SystemName["columns"], SystemLayout["columns"])
    BY <2>1, <2>2, ColumnsDescribe, Zenon
  <2> HIDE DEF b, column
  <2>4. QED
    BY <2>1, <2>3
<1>4. /\ d \in Seq(R) /\ Len(d) = 2 /\ \A c \in 1 .. 2 : d[c] = column("indexes", c)
      /\ ToSet(d) = Describing(SystemName["indexes"], SystemLayout["indexes"])
  <2>1. SystemLayout["indexes"] \in Seq(Column) /\ Len(SystemLayout["indexes"]) = 2
    BY <1>1, SystemLayouts
  <2>2. Describing(SystemName["indexes"], SystemLayout["indexes"]) \subseteq R
    BY <1>1
  <2> HIDE DEF R
  <2>3. /\ d \in Seq(R) /\ Len(d) = Len(SystemLayout["indexes"])
        /\ \A c \in 1 .. Len(SystemLayout["indexes"]) : d[c] = column("indexes", c)
        /\ ToSet(d) = Describing(SystemName["indexes"], SystemLayout["indexes"])
    BY <2>1, <2>2, ColumnsDescribe, Zenon
  <2> HIDE DEF d, column
  <2>4. QED
    BY <2>1, <2>3
<1>5. all = (a \o b) \o d
  BY DEF SystemColumnList
<1> HIDE DEF a, b, d, all, R
<1>6. /\ a \o b \in Seq(R) /\ Len(a \o b) = 8
      /\ \A i \in 1 .. 8 : (a \o b)[i] = IF i <= 3 THEN a[i] ELSE b[i - 3]
      /\ ToSet(a \o b) = ToSet(a) \cup ToSet(b)
  <2> DEFINE ab == a \o b
  <2>1. /\ ab \in Seq(R) /\ Len(ab) = Len(a) + Len(b) /\ ToSet(ab) = ToSet(a) \cup ToSet(b)
        /\ \A i \in 1 .. Len(a) + Len(b) :
             ab[i] = IF i <= Len(a) THEN a[i] ELSE b[i - Len(a)]
    <3>1. ToSet(ab) = ToSet(a) \cup ToSet(b)
      BY <1>2, <1>3, ConcatSet
    <3>2. a \in Seq(R) /\ b \in Seq(R)
      BY <1>2, <1>3
    <3>3. QED
      BY <3>1, <3>2, ConcatProperties, LenProperties
  <2> HIDE DEF ab
  <2>2. Len(a) = 3 /\ Len(b) = 5 /\ Len(a) + Len(b) = 8
    BY <1>2, <1>3
  <2>3. QED
    BY <2>1, <2>2 DEF ab
<1>7. /\ all \in Seq(R) /\ Len(all) = 10
      /\ \A i \in 1 .. 10 : all[i] = IF i <= 8 THEN (a \o b)[i] ELSE d[i - 8]
      /\ ToSet(all) = ToSet(a) \cup ToSet(b) \cup ToSet(d)
  <2> DEFINE ab == a \o b
  <2>1. ab \in Seq(R) /\ Len(ab) = 8 /\ all = ab \o d /\ ToSet(ab) = ToSet(a) \cup ToSet(b)
    BY <1>5, <1>6
  <2> HIDE DEF ab
  <2>2. /\ all \in Seq(R) /\ Len(all) = 10 /\ ToSet(all) = ToSet(ab) \cup ToSet(d)
        /\ \A i \in 1 .. 10 : all[i] = IF i <= 8 THEN ab[i] ELSE d[i - 8]
    <3> DEFINE abd == ab \o d
    <3>1. /\ abd \in Seq(R) /\ Len(abd) = Len(ab) + Len(d)
          /\ ToSet(abd) = ToSet(ab) \cup ToSet(d)
          /\ \A i \in 1 .. Len(ab) + Len(d) :
               abd[i] = IF i <= Len(ab) THEN ab[i] ELSE d[i - Len(ab)]
      <4>1. ToSet(abd) = ToSet(ab) \cup ToSet(d)
        BY <1>4, <2>1, ConcatSet
      <4>2. ab \in Seq(R) /\ d \in Seq(R)
        BY <1>4, <2>1
      <4>3. QED
        BY <4>1, <4>2, ConcatProperties, LenProperties
    <3>2. Len(ab) = 8 /\ Len(d) = 2 /\ Len(ab) + Len(d) = 10 /\ all = abd
      BY <1>4, <2>1
    <3> HIDE DEF abd
    <3>3. QED
      BY <3>1, <3>2
  <2>3. QED
    BY <2>1, <2>2 DEF ab
<1> DEFINE table(i) == IF i <= 3 THEN "tables" ELSE IF i <= 8 THEN "columns" ELSE "indexes"
           place(i) == IF i <= 3 THEN i ELSE IF i <= 8 THEN i - 3 ELSE i - 8
<1>8. ASSUME NEW i \in 1 .. 10
      PROVE  /\ all[i] = column(table(i), place(i)) /\ table(i) \in System
             /\ place(i) \in 1 .. 5
  <2> HIDE DEF column
  <2>1. CASE i <= 3
    <3>1. i \in 1 .. 3 /\ i \in 1 .. 8 /\ i <= 8
      BY <2>1
    <3>2. all[i] = a[i]
      <4>1. all[i] = (a \o b)[i]
        BY <1>7, <3>1
      <4>2. (a \o b)[i] = a[i]
        BY <1>6, <2>1, <3>1
      <4>3. QED
        BY <4>1, <4>2
    <3>3. QED
      BY <1>1, <1>2, <2>1, <3>1, <3>2
  <2>2. CASE ~(i <= 3) /\ i <= 8
    <3>1. i \in 1 .. 8 /\ i - 3 \in 1 .. 5
      BY <2>2
    <3>2. all[i] = b[i - 3]
      BY <1>6, <1>7, <2>2, <3>1
    <3>3. QED
      BY <1>1, <1>3, <2>2, <3>1, <3>2
  <2>3. CASE ~(i <= 8)
    <3>1. i - 8 \in 1 .. 2 /\ ~(i <= 3)
      BY <2>3
    <3>2. all[i] = d[i - 8]
      BY <1>7, <2>3
    <3>3. QED
      BY <1>1, <1>4, <2>3, <3>1, <3>2
  <2>4. QED
    BY <2>1, <2>2, <2>3
<1>9. \A i \in 1 .. 10 : all[i].key = Id(SystemName[table(i)], place(i) - 1)
  BY <1>8 DEF ColumnRecord
<1>10. \A i, j \in 1 .. 10 : i # j => table(i) # table(j) \/ place(i) # place(j)
  OBVIOUS
<1> HIDE DEF column, table, place
<1>11. \A i \in 1 .. 10 : all[i].key \in Seq(Nat) /\ place(i) - 1 \in Nat
  <2> SUFFICES ASSUME NEW i \in 1 .. 10
               PROVE  all[i].key \in Seq(Nat) /\ place(i) - 1 \in Nat
    OBVIOUS
  <2>1. place(i) - 1 \in Nat /\ table(i) \in System
    BY <1>8
  <2>2. SystemName[table(i)] \in Seq(Nat)
    BY <2>1, SystemNames
  <2>3. QED
    BY <1>9, <2>1, <2>2, IdType
<1>12. ASSUME NEW i \in 1 .. 10, NEW j \in 1 .. 10, i # j
       PROVE  CmpNames(all[i].key, all[j].key) # 0
  <2>1. /\ all[i].key = Id(SystemName[table(i)], place(i) - 1)
        /\ all[j].key = Id(SystemName[table(j)], place(j) - 1)
        /\ table(i) \in System /\ table(j) \in System
        /\ place(i) - 1 \in Nat /\ place(j) - 1 \in Nat
        /\ place(i) \in 1 .. 5 /\ place(j) \in 1 .. 5
    BY <1>8, <1>9, <1>11
  <2>2. CASE table(i) # table(j)
    BY <2>1, <2>2, IdsOfTables, SystemNames
  <2>3. CASE table(i) = table(j)
    <3>1. place(i) - 1 # place(j) - 1
      BY <1>10, <1>12, <2>1, <2>3
    <3>2. QED
      BY <2>1, <2>3, <3>1, IdsOfColumns, SystemNames
  <2>4. QED
    BY <2>2, <2>3
<1>13. Chain(SystemColumns) /\ ToSet(SystemColumns.recs) = ToSet(all)
  <2>1. /\ all \in Seq(R) /\ \A i \in 1 .. Len(all) : all[i].key \in Seq(Nat)
        /\ \A i, j \in 1 .. Len(all) : i # j => CmpNames(all[i].key, all[j].key) # 0
    BY <1>7, <1>11, <1>12
  <2>2. /\ Chain(InsertedAll(Leaf!EmptyLeaf, all))
        /\ ToSet(InsertedAll(Leaf!EmptyLeaf, all).recs) = ToSet(all)
    BY <2>1, AllInserted
  <2>3. QED
    BY <2>2 DEF SystemColumns, all
<1>14. \A s \in System : Describing(SystemName[s], SystemLayout[s]) \subseteq ToSet(all)
  BY <1>1, <1>2, <1>3, <1>4, <1>7
<1>15. \A e \in ToSet(all) : \E s \in System, c \in Nat : e.key = Id(SystemName[s], c)
  <2>1. ToSet(all) = {all[i] : i \in 1 .. 10}
    BY <1>7, ElementsOf
  <2>2. QED
    BY <1>8, <1>9, <1>11, <2>1
<1>16. QED
  BY <1>13, <1>14, <1>15

-----------------------------------------------------------------------------
(* What is in memory is in the file.                                       *)

(* The root of the tree with this descriptor, as it is in the file. *)
RootAt(p) == nodes[metas[p].root_position].node

(* Nothing is left to write once a step is done. *)
Synced ==
  /\ (pc = "idle" /\ db # None) \/ pc \in Working =>
       \A s \in System : db[s].root = OnFile(s)
  /\ pc \in Working => tbl.tree.root = RootAt(tbl.btree)

(* A step leaves the trees of the file as they are, *)
Unmoved ==
  \A p \in DOMAIN metas :
    p \in DOMAIN metas' /\ metas'[p] = metas[p] /\ RootAt(p)' = RootAt(p)

(* or inserts one record into one of them. *)
Gains(q, r) ==
  /\ metas' = metas /\ RootAt(q)' = Inserted(RootAt(q), r)
  /\ \A p \in DOMAIN metas : p # q => RootAt(p)' = RootAt(p)

(* The root of a tree is written, and no other one's. *)
LEMMA RootWritten ==
  ASSUME Sized, Rooted, NEW p \in DOMAIN metas, NEW t, TreeOf(t, p), Write(t),
         metas' = metas
  PROVE  /\ RootAt(p)' = t.root
         /\ \A q \in DOMAIN metas : q # p => RootAt(q)' = RootAt(q)
<1>1. /\ nodes'[metas[p].root_position].node = t.root
      /\ \A q \in DOMAIN nodes :
           q # metas[p].root_position => nodes'[q].node = nodes[q].node
  BY WriteInPlace
<1>2. \A q \in DOMAIN metas : /\ metas[q].root_position \in DOMAIN nodes
                              /\ q # p => metas[q].root_position # metas[p].root_position
  BY DEF Rooted
<1>3. QED
  BY <1>1, <1>2 DEF RootAt

(* The file is as it was. *)
LEMMA RootsSame ==
  ASSUME UNCHANGED onFile
  PROVE  /\ Unmoved /\ metas' = metas /\ \A p : RootAt(p)' = RootAt(p)
         /\ \A s \in System : OnFile(s)' = OnFile(s)
<1>1. metas' = metas /\ nodes' = nodes
  BY DEF onFile
<1>2. QED
  BY <1>1 DEF Unmoved, RootAt, OnFile

(* A system table's root is one of them. *)
LEMMA SystemRoot ==
  ASSUME FileInv, magic, NEW s \in System
  PROVE  MetaOf[s] \in DOMAIN metas /\ OnFile(s) = RootAt(MetaOf[s])
BY DEF FileInv, Described, OnFile, RootAt

(* A record more in a system table. *)
LEMMA SystemGains ==
  ASSUME FileInv, Opened, NEW s \in System, db[s].root = OnFile(s),
         NEW record, InsertSystem(s, record), metas' = metas
  PROVE  /\ Gains(MetaOf[s], record)
         /\ db'[s].root = RootAt(MetaOf[s])'
         /\ \A u \in System : u # s => db'[u].root = db[u].root
<1>1. /\ MetaOf[s] \in DOMAIN metas /\ TreeOf(db[s], MetaOf[s]) /\ IsTree(db[s])
      /\ OnFile(s) = RootAt(MetaOf[s])
  BY OpenedFacts DEF OnFile, RootAt
<1>2. CASE Collides(db[s].root, record.key)
  <2>1. nodes' = nodes /\ db' = db
    BY <1>2 DEF InsertSystem
  <2>2. Inserted(RootAt(MetaOf[s]), record) = RootAt(MetaOf[s])
    BY <1>1, <1>2 DEF Inserted
  <2>3. \A p : RootAt(p)' = RootAt(p)
    BY <2>1 DEF RootAt
  <2>4. QED
    BY <1>1, <2>1, <2>2, <2>3 DEF Gains
<1>3. CASE ~Collides(db[s].root, record.key)
  <2> DEFINE tree == [db[s] EXCEPT !.root = Inserted(@, record)]
  <2>1. Write(tree) /\ db' = [db EXCEPT ![s] = [tree EXCEPT !.position = Place(tree)]]
    BY <1>3 DEF InsertSystem
  <2>2. tree = Tree(db[s].meta, Inserted(db[s].root, record), db[s].position)
    BY <1>1 DEF IsTree, Tree
  <2> HIDE DEF tree
  <2>3. TreeOf(tree, MetaOf[s]) /\ tree.root = Inserted(db[s].root, record)
    BY <1>1, <2>2 DEF TreeOf, IsTree, Tree
  <2>4. /\ RootAt(MetaOf[s])' = tree.root
        /\ \A q \in DOMAIN metas : q # MetaOf[s] => RootAt(q)' = RootAt(q)
    BY <1>1, <2>1, <2>3, RootWritten DEF FileInv
  <2>5. [tree EXCEPT !.position = Place(tree)].root = tree.root
    BY <2>2 DEF Tree
  <2>6. db = [u \in System |-> db[u]]
    BY DEF Opened
  <2>7. db'[s].root = tree.root /\ \A u \in System : u # s => db'[u].root = db[u].root
    BY <2>1, <2>5, <2>6
  <2>8. QED
    BY <1>1, <2>3, <2>4, <2>7 DEF Gains
<1>4. QED
  BY <1>2, <1>3

(* While a statement runs, its database is open. *)
LEMMA WorkingFacts ==
  ASSUME CatalogInv, Synced, pc \in Working
  PROVE  /\ FileInv /\ Opened /\ Loaded /\ magic
         /\ tbl.btree \in DOMAIN metas \ SystemMetas
         /\ tbl.tree.root = RootAt(tbl.btree)
         /\ \A s \in System : /\ db[s].root = OnFile(s) /\ OnFile(s) = RootAt(MetaOf[s])
                              /\ MetaOf[s] \in DOMAIN metas /\ MetaOf[s] \in SystemMetas
<1>1. FileInv /\ Opened /\ Loaded /\ magic
  BY DEF CatalogInv, Opened
<1>2. QED
  BY <1>1, SystemRoot DEF Loaded, Synced, SystemMetas

(* The database is opened. *)
LEMMA SyncOpen ==
  ASSUME CatalogInv, Synced, mdbOpenDatabase
  PROVE  Synced' /\ Unmoved
<1>1. UNCHANGED onFile /\ pc' = pc /\ pc = "idle" /\ db = None
  BY DEF mdbOpenDatabase
<1>2. Unmoved /\ \A s \in System : OnFile(s)' = OnFile(s)
  BY <1>1, RootsSame
<1>3. CASE ~magic
  <2>1. db' = None
    BY <1>1, <1>3 DEF mdbOpenDatabase
  <2>2. QED
    BY <1>1, <1>2, <2>1 DEF Synced, Working
<1>4. CASE magic
  <2>1. db' = [s \in System |-> ReadTree(metas[MetaOf[s]])]
    BY <1>4 DEF mdbOpenDatabase
  <2>2. Rooted /\ Described
    BY <1>4 DEF CatalogInv, FileInv
  <2>3. \A s \in System : db'[s].root = OnFile(s)
    BY <2>1, <2>2, ReadTreeFacts DEF Described, OnFile
  <2>4. QED
    BY <1>1, <1>2, <2>3 DEF Synced, Working
<1>5. QED
  BY <1>3, <1>4

(* The database is closed: what is written is there already. *)
LEMMA SyncClose ==
  ASSUME CatalogInv, Synced, mdbCloseDatabase
  PROVE  Synced' /\ Unmoved
<1>1. /\ FileInv /\ Opened /\ pc' = "idle" /\ db' = None /\ metas' = metas
      /\ \A s \in System : db[s].root = OnFile(s)
  BY DEF CatalogInv, mdbCloseDatabase, Synced
<1> DEFINE a == db["tables"].position
           b == db["columns"].position
           c == db["indexes"].position
           new == Put(Put(Put(nodes, a, Image(db["tables"])),
                          b, Image(db["columns"])), c, Image(db["indexes"]))
<1>2. nodes' = new
  BY DEF mdbCloseDatabase
<1>3. /\ a \in DOMAIN nodes /\ b \in DOMAIN nodes /\ c \in DOMAIN nodes
      /\ a # b /\ a # c /\ b # c
      /\ a = metas[MetaOf["tables"]].root_position
      /\ b = metas[MetaOf["columns"]].root_position
      /\ c = metas[MetaOf["indexes"]].root_position
  BY <1>1, OpenedFacts, SystemFacts
<1>4. /\ nodes[a].node = db["tables"].root /\ nodes[b].node = db["columns"].root
      /\ nodes[c].node = db["indexes"].root
  BY <1>1, <1>3, SystemFacts DEF OnFile
<1> HIDE DEF a, b, c
<1>5. /\ new[a] = Image(db["tables"]) /\ new[b] = Image(db["columns"])
      /\ new[c] = Image(db["indexes"])
      /\ \A q \in DOMAIN nodes : q \notin {a, b, c} => new[q] = nodes[q]
  BY <1>3 DEF Put
<1> HIDE DEF new
<1>6. \A q \in DOMAIN nodes : nodes'[q].node = nodes[q].node
  BY <1>2, <1>4, <1>5 DEF Image
<1>7. Unmoved
  BY <1>1, <1>6 DEF Unmoved, RootAt, FileInv, Rooted
<1>8. QED
  BY <1>1, <1>7 DEF Synced, Working

(* The program is killed. *)
LEMMA SyncKill ==
  ASSUME CatalogInv, Synced, Kill
  PROVE  Synced' /\ Unmoved
<1>1. UNCHANGED onFile /\ pc' = "idle" /\ db' = None
  BY DEF Kill
<1>2. QED
  BY <1>1, RootsSame DEF Synced, Working

(* A table has got a descriptor and an empty root. *)
LEMMA SyncCreateTable ==
  ASSUME CatalogInv, Synced, NEW name \in Names, NEW columns \in Layouts,
         mdbCreateTable(name, columns)
  PROVE  /\ Synced' /\ Unmoved
         /\ length \notin DOMAIN metas /\ DOMAIN metas' = DOMAIN metas \cup {length}
         /\ nodes'[metas'[length].root_position].node = Leaf!EmptyLeaf
         /\ tbl'.name = name /\ tbl'.columns = columns /\ tbl'.btree = length
         /\ tbl'.listed = 0
         /\ tbl'.new = (name \notin {r.key : r \in ToSet(OnFile("tables").recs)})
         /\ pc' = "list table"
<1> DEFINE root == length + sizeofMeta
           meta == [mdbBtreeCreate(0, RecordSize(columns)) EXCEPT !.root_position = root]
           image == Image(Tree(meta, Leaf!EmptyLeaf, root))
           isnew == name \notin {r.key : r \in ToSet(db.tables.root.recs)}
<1>1. /\ metas' = Put(metas, length, meta) /\ nodes' = Put(nodes, root, image)
      /\ tbl' = [name |-> name, columns |-> columns, btree |-> length,
                 tree |-> Tree(meta, Leaf!EmptyLeaf, root),
                 listed |-> 0, new |-> isnew]
      /\ pc' = "list table" /\ db' = db
  BY DEF mdbCreateTable
<1>2. /\ FileInv /\ Opened /\ \A s \in System : db[s].root = OnFile(s)
  BY DEF CatalogInv, mdbCreateTable, Synced
<1>3. isnew = (name \notin {r.key : r \in ToSet(OnFile("tables").recs)})
  BY <1>2, SystemFacts
<1>4. /\ Sized /\ Rooted /\ Described
  BY <1>2 DEF FileInv, Opened
<1>5. meta.root_position = root /\ image.node = Leaf!EmptyLeaf
      /\ Tree(meta, Leaf!EmptyLeaf, root).root = Leaf!EmptyLeaf
  BY DEF mdbBtreeCreate, Image, Tree
<1>6. root \notin DOMAIN nodes /\ length \notin DOMAIN metas
  <2>1. length \in Nat /\ root = length + 16
    BY <1>4, SystemFacts DEF Sized
  <2>2. \A p \in DOMAIN metas : p \in Nat /\ p + 16 <= length
    BY <1>4, SystemFacts DEF Sized
  <2>3. \A p \in DOMAIN nodes : /\ p \in Nat /\ nodes[p].size \in Nat \ {0}
                                /\ p + nodes[p].size <= length
    BY <1>4 DEF Sized
  <2>4. \A p \in DOMAIN nodes : p < length
    BY <2>1, <2>3
  <2> HIDE DEF root
  <2>5. QED
    BY <2>1, <2>2, <2>4
<1> HIDE DEF meta, image, root, isnew
<1>7. /\ DOMAIN metas' = DOMAIN metas \cup {length} /\ metas'[length] = meta
      /\ \A p \in DOMAIN metas : metas'[p] = metas[p]
      /\ nodes'[root] = image /\ \A p \in DOMAIN nodes : nodes'[p] = nodes[p]
  BY <1>1, <1>6 DEF Put
<1>8. nodes'[metas'[length].root_position].node = Leaf!EmptyLeaf
  BY <1>5, <1>7
<1>u. Unmoved
  BY <1>4, <1>7 DEF Unmoved, RootAt, Rooted
<1>9. Synced'
  <2>1. \A s \in System : OnFile(s)' = OnFile(s)
    BY <1>4, <1>u DEF Unmoved, RootAt, OnFile, Described
  <2>2. tbl'.tree.root = Leaf!EmptyLeaf /\ tbl'.btree = length
    BY <1>1, <1>5
  <2>3. (RootAt(tbl.btree))' = Leaf!EmptyLeaf
    BY <1>8, <2>2 DEF RootAt
  <2>4. QED
    BY <1>1, <1>2, <2>1, <2>2, <2>3 DEF Synced
<1>10. QED
  BY <1>1, <1>3, <1>6, <1>7, <1>8, <1>u, <1>9

(* It is listed. *)
LEMMA SyncListTable ==
  ASSUME CatalogInv, Synced, ListTable
  PROVE  /\ Synced'
         /\ Gains(MetaOf["tables"], TableRecord(tbl.name, Len(tbl.columns), tbl.btree))
         /\ pc' = "list columns" /\ tbl' = tbl
<1> DEFINE record == TableRecord(tbl.name, Len(tbl.columns), tbl.btree)
<1>1. /\ InsertSystem("tables", record) /\ metas' = metas /\ tbl' = tbl
      /\ pc' = "list columns" /\ pc \in Working
  BY DEF ListTable, Working
<1> HIDE DEF record
<1>2. /\ FileInv /\ Opened /\ tbl.btree \in DOMAIN metas \ SystemMetas
      /\ tbl.tree.root = RootAt(tbl.btree)
      /\ \A s \in System : /\ db[s].root = OnFile(s) /\ OnFile(s) = RootAt(MetaOf[s])
                           /\ MetaOf[s] \in DOMAIN metas /\ MetaOf[s] \in SystemMetas
  BY <1>1, WorkingFacts
<1>3. "tables" \in System
  BY SystemFacts
<1>4. /\ Gains(MetaOf["tables"], record)
      /\ db'["tables"].root = RootAt(MetaOf["tables"])'
      /\ \A u \in System : u # "tables" => db'[u].root = db[u].root
  BY <1>1, <1>2, <1>3, SystemGains
<1>5. \A u, s \in System : u # s => MetaOf[u] # MetaOf[s]
  BY SystemFacts
<1>6. \A p \in DOMAIN metas : p # MetaOf["tables"] => RootAt(p)' = RootAt(p)
  BY <1>4 DEF Gains
<1>7. \A u \in System : db'[u].root = RootAt(MetaOf[u])'
  BY <1>2, <1>3, <1>4, <1>5, <1>6
<1>8. \A u \in System : OnFile(u)' = RootAt(MetaOf[u])'
  BY DEF OnFile, RootAt
<1>9. tbl'.tree.root = (RootAt(tbl.btree))'
  <2>1. tbl.btree # MetaOf["tables"] /\ tbl.btree \in DOMAIN metas
    BY <1>2, <1>3
  <2>2. nodes'[metas'[tbl.btree].root_position].node = RootAt(tbl.btree)
    BY <1>6, <2>1 DEF RootAt
  <2>3. QED
    BY <1>1, <1>2, <2>2 DEF RootAt
<1>10. Synced'
  BY <1>7, <1>8, <1>9 DEF Synced
<1>11. QED
  BY <1>1, <1>4, <1>10 DEF record

(* A column of it is. *)
LEMMA SyncListColumn ==
  ASSUME CatalogInv, Synced, ListColumn
  PROVE  /\ Synced'
         /\ Gains(MetaOf["columns"],
                  ColumnRecord(tbl.name, tbl.listed, tbl.columns[tbl.listed + 1]))
         /\ pc = "list columns" /\ pc' = pc /\ tbl.listed < Len(tbl.columns)
         /\ tbl' = [tbl EXCEPT !.listed = tbl.listed + 1]
<1> DEFINE record == ColumnRecord(tbl.name, tbl.listed, tbl.columns[tbl.listed + 1])
<1>1. /\ InsertSystem("columns", record) /\ metas' = metas
      /\ tbl' = [tbl EXCEPT !.listed = tbl.listed + 1]
      /\ pc = "list columns" /\ pc' = pc /\ pc \in Working
      /\ tbl.listed < Len(tbl.columns)
  BY DEF ListColumn, Working
<1> HIDE DEF record
<1>2. /\ FileInv /\ Opened /\ Loaded /\ tbl.btree \in DOMAIN metas \ SystemMetas
      /\ tbl.tree.root = RootAt(tbl.btree)
      /\ \A s \in System : /\ db[s].root = OnFile(s) /\ OnFile(s) = RootAt(MetaOf[s])
                           /\ MetaOf[s] \in DOMAIN metas /\ MetaOf[s] \in SystemMetas
  BY <1>1, WorkingFacts
<1>3. "columns" \in System
  BY SystemFacts
<1>4. /\ Gains(MetaOf["columns"], record)
      /\ db'["columns"].root = RootAt(MetaOf["columns"])'
      /\ \A u \in System : u # "columns" => db'[u].root = db[u].root
  BY <1>1, <1>2, <1>3, SystemGains
<1>5. \A u, s \in System : u # s => MetaOf[u] # MetaOf[s]
  BY SystemFacts
<1>6. \A p \in DOMAIN metas : p # MetaOf["columns"] => RootAt(p)' = RootAt(p)
  BY <1>4 DEF Gains
<1>7. \A u \in System : db'[u].root = RootAt(MetaOf[u])'
  BY <1>2, <1>3, <1>4, <1>5, <1>6
<1>8. \A u \in System : OnFile(u)' = RootAt(MetaOf[u])'
  BY DEF OnFile, RootAt
<1>9. tbl'.tree.root = (RootAt(tbl.btree))'
  <2>1. tbl.btree # MetaOf["columns"] /\ tbl.btree \in DOMAIN metas
    BY <1>2, <1>3
  <2>2. nodes'[metas'[tbl.btree].root_position].node = RootAt(tbl.btree)
    BY <1>6, <2>1 DEF RootAt
  <2>3. tbl'.tree = tbl.tree /\ tbl'.btree = tbl.btree
    <3>1. tbl = [name |-> tbl.name, columns |-> tbl.columns, btree |-> tbl.btree,
                 tree |-> tbl.tree, listed |-> tbl.listed, new |-> tbl.new]
      BY <1>2 DEF Loaded
    <3>2. QED
      BY <1>1, <3>1
  <2>4. QED
    BY <1>2, <2>2, <2>3 DEF RootAt
<1>10. Synced'
  BY <1>7, <1>8, <1>9 DEF Synced
<1>11. QED
  BY <1>1, <1>4, <1>10 DEF record

(* Its creation returns. *)
LEMMA SyncTableCreated ==
  ASSUME CatalogInv, Synced, TableCreated
  PROVE  Synced' /\ Unmoved
<1>1. UNCHANGED onFile /\ db' = db /\ tbl' = tbl /\ pc \in Working
  BY DEF TableCreated, Working
<1>2. /\ tbl.tree.root = RootAt(tbl.btree)
      /\ \A s \in System : db[s].root = OnFile(s)
  BY <1>1 DEF Synced
<1>3. /\ Unmoved /\ metas' = metas /\ nodes' = nodes
      /\ \A s \in System : OnFile(s)' = OnFile(s)
  BY <1>1, RootsSame DEF onFile
<1>4. QED
  BY <1>1, <1>2, <1>3 DEF Synced, RootAt

(* A table is loaded, or not found. *)
LEMMA SyncLoad ==
  ASSUME CatalogInv, Synced, NEW name \in Names, mdbLoadTable(name)
  PROVE  Synced' /\ Unmoved
<1>1. UNCHANGED onFile /\ db' = db /\ pc = "idle" /\ db # None /\ FileInv /\ Opened
  BY DEF mdbLoadTable, CatalogInv
<1>2. \A s \in System : db[s].root = OnFile(s)
  BY <1>1 DEF Synced
<1>3. /\ Unmoved /\ metas' = metas /\ nodes' = nodes
      /\ \A s \in System : OnFile(s)' = OnFile(s)
  BY <1>1, RootsSame DEF onFile
<1>4. CASE ~Collides(db.tables.root, name)
  <2>1. pc' = pc
    BY <1>4 DEF mdbLoadTable
  <2>2. QED
    BY <1>1, <1>2, <1>3, <2>1 DEF Synced, Working
<1>5. CASE Collides(db.tables.root, name)
  <2> DEFINE record == Found(db.tables.root, name)
  <2>1. tbl'.btree = record.btree /\ tbl'.tree = ReadTree(metas[record.btree])
    BY <1>5 DEF mdbLoadTable
  <2>2. record.btree \in DOMAIN metas
    BY <1>1, <1>5, FoundListed DEF Opened
  <2> HIDE DEF record
  <2>3. ReadTree(metas[record.btree]).root = RootAt(record.btree)
    BY <1>1, <2>2, ReadTreeFacts DEF FileInv, RootAt
  <2>4. tbl'.tree.root = (RootAt(tbl.btree))'
    BY <1>3, <2>1, <2>3 DEF RootAt
  <2>5. QED
    BY <1>1, <1>2, <1>3, <2>4 DEF Synced
<1>6. QED
  BY <1>4, <1>5

(* The root of a statement's table is written. *)
LEMMA SyncWritten ==
  ASSUME CatalogInv, Synced, pc \in Working, NEW root,
         Write([tbl.tree EXCEPT !.root = root]), metas' = metas
  PROVE  /\ nodes'[metas'[tbl.btree].root_position].node = root
         /\ \A p \in DOMAIN metas : p # tbl.btree => RootAt(p)' = RootAt(p)
         /\ \A s \in System : OnFile(s)' = db[s].root
<1> DEFINE tree == [tbl.tree EXCEPT !.root = root]
<1>1. /\ FileInv /\ Loaded /\ tbl.btree \in DOMAIN metas \ SystemMetas
      /\ \A s \in System : /\ db[s].root = OnFile(s) /\ OnFile(s) = RootAt(MetaOf[s])
                           /\ MetaOf[s] \in DOMAIN metas /\ MetaOf[s] \in SystemMetas
  BY WorkingFacts
<1>2. tree = Tree(tbl.tree.meta, root, tbl.tree.position)
  BY <1>1 DEF Loaded, TreeOf, IsTree, Tree
<1>3. TreeOf(tree, tbl.btree) /\ tree.root = root
  BY <1>1, <1>2 DEF Loaded, TreeOf, IsTree, Tree
<1>4. Write(tree) /\ Sized /\ Rooted /\ tbl.btree \in DOMAIN metas
  BY <1>1 DEF FileInv
<1> HIDE DEF tree
<1>5. /\ nodes'[metas[tbl.btree].root_position].node = tree.root
      /\ \A q \in DOMAIN nodes :
           q # metas[tbl.btree].root_position => nodes'[q].node = nodes[q].node
  BY <1>3, <1>4, WriteInPlace
<1>6. \A q \in DOMAIN metas :
        /\ metas[q].root_position \in DOMAIN nodes
        /\ q # tbl.btree => metas[q].root_position # metas[tbl.btree].root_position
  BY <1>4 DEF Rooted
<1>7. \A q \in DOMAIN metas : q # tbl.btree => RootAt(q)' = RootAt(q)
  BY <1>5, <1>6 DEF RootAt
<1>8. \A s \in System : OnFile(s)' = db[s].root
  BY <1>1, <1>7 DEF RootAt, OnFile
<1>9. QED
  BY <1>3, <1>5, <1>7, <1>8

(* A record is inserted into the statement's table. *)
LEMMA SyncInsertRecord ==
  ASSUME CatalogInv, Synced, NEW row, InsertRecord(row)
  PROVE  /\ Synced' /\ \A b : b = tbl.btree => Gains(b, [key |-> row])
         /\ tbl'.btree = tbl.btree /\ tbl'.name = tbl.name /\ pc' = pc
         /\ pc = "loaded" /\ ~Collides(RootAt(tbl.btree), row)
<1> DEFINE root == Inserted(tbl.tree.root, [key |-> row])
           tree == [tbl.tree EXCEPT !.root = root]
<1>1. /\ Write(tree) /\ tbl' = [tbl EXCEPT !.tree = tree]
      /\ pc' = pc /\ pc = "loaded" /\ pc \in Working /\ metas' = metas /\ db' = db
      /\ ~Collides(tbl.tree.root, row)
  BY DEF InsertRecord, Working
<1> HIDE DEF root
<1>2. /\ nodes'[metas'[tbl.btree].root_position].node = root
      /\ \A p \in DOMAIN metas : p # tbl.btree => RootAt(p)' = RootAt(p)
      /\ \A s \in System : OnFile(s)' = db[s].root
  BY <1>1, SyncWritten
<1>3. tbl.tree.root = RootAt(tbl.btree) /\ Loaded
  BY <1>1, WorkingFacts
<1>4. tbl = [name |-> tbl.name, columns |-> tbl.columns, btree |-> tbl.btree,
             tree |-> tbl.tree, listed |-> tbl.listed, new |-> tbl.new]
  BY <1>3 DEF Loaded
<1>5. tbl'.btree = tbl.btree /\ tbl'.name = tbl.name /\ tbl'.tree = tree
  BY <1>1, <1>4
<1>6. tree.root = root
  <2>1. tbl.tree = Tree(tbl.tree.meta, tbl.tree.root, tbl.tree.position)
    BY <1>3 DEF Loaded, TreeOf, IsTree
  <2>2. QED
    BY <2>1 DEF Tree
<1> HIDE DEF tree
<1>7. Synced'
  BY <1>1, <1>2, <1>5, <1>6 DEF Synced, RootAt
<1>8. ASSUME NEW b, b = tbl.btree
      PROVE  Gains(b, [key |-> row])
  <2>1. /\ nodes'[metas'[b].root_position].node = Inserted(RootAt(b), [key |-> row])
        /\ \A p \in DOMAIN metas : b # p => RootAt(p)' = RootAt(p)
    BY <1>2, <1>3, <1>8 DEF root
  <2>2. QED
    BY <1>1, <2>1 DEF Gains, RootAt
<1>9. QED
  BY <1>1, <1>3, <1>5, <1>7, <1>8

(* The statement ends. *)
LEMMA SyncReset ==
  ASSUME CatalogInv, Synced, Reset
  PROVE  Synced' /\ Unmoved
<1>1. /\ Write(tbl.tree) /\ pc' = "idle" /\ pc \in Working /\ metas' = metas /\ db' = db
  BY DEF Reset, Working
<1>2. tbl.tree.root = RootAt(tbl.btree) /\ Loaded
  BY <1>1, WorkingFacts
<1>3. [tbl.tree EXCEPT !.root = tbl.tree.root] = tbl.tree
  BY <1>2 DEF Loaded, TreeOf, IsTree, Tree
<1>4. /\ nodes'[metas'[tbl.btree].root_position].node = tbl.tree.root
      /\ \A p \in DOMAIN metas : p # tbl.btree => RootAt(p)' = RootAt(p)
      /\ \A s \in System : OnFile(s)' = db[s].root
  BY <1>1, <1>3, SyncWritten
<1>5. Unmoved
  BY <1>1, <1>2, <1>4 DEF Unmoved, RootAt
<1>6. QED
  BY <1>1, <1>4, <1>5 DEF Synced, Working

(* The system tables of a new database are in memory. *)
LEMMA SyncCreateSystemTables ==
  ASSUME mdbCreateSystemTables
  PROVE  /\ Synced' /\ magic' = FALSE /\ pc' = "create database" /\ created' = <<>>
         /\ db'["tables"].root = SystemRows /\ db'["columns"].root = SystemColumns
<1>1. pc' = "create database" /\ magic' = FALSE /\ created' = <<>>
  BY DEF mdbCreateSystemTables
<1>2. db'["tables"].root = SystemRows /\ db'["columns"].root = SystemColumns
  BY DEF mdbCreateSystemTables, Tree, SystemRows, SystemColumns, SystemColumnList
<1>3. QED
  BY <1>1, <1>2 DEF Synced, Working

(* They are in the file, under descriptors that know the sizes of their
   records. *)
LEMMA SyncCreateDatabase ==
  ASSUME CatalogInv, mdbCreateDatabase
  PROVE  /\ Synced' /\ magic' = TRUE /\ pc' = "idle" /\ created' = created
         /\ DOMAIN metas' = SystemMetas
         /\ \A s \in System : /\ OnFile(s)' = db[s].root
                              /\ metas'[MetaOf[s]].record_size = sizeofRecord[s]
<1>1. /\ pc = "create database" /\ pc' = "idle" /\ magic' = TRUE /\ created' = created
      /\ Starting
  BY DEF mdbCreateDatabase, CatalogInv
<1>2. /\ DOMAIN metas = {} /\ System = {"tables", "columns", "indexes"}
      /\ \A s \in System : db[s].meta = SystemMeta(s)
  BY <1>1, SystemFacts DEF Starting
<1> DEFINE n1 == nodeSize(SystemMeta("tables"))
           n2 == nodeSize(SystemMeta("columns"))
           m(s) == [db[s].meta EXCEPT !.root_position = RootPositions[s]]
           newMetas == Put(Put(Put(metas, 132, m("tables")), 148, m("columns")), 164, m("indexes"))
           newNodes == Put(Put(Put(nodes, Placeholder, Image(db["tables"])),
                               Second, Image(db["columns"])), Third, Image(db["indexes"]))
<1>3. n1 \in Nat \ {0} /\ n2 \in Nat \ {0}
  BY SystemSizes, SystemFacts
<1>4. RootPositions = [tables |-> Placeholder, columns |-> Second, indexes |-> Third]
  BY <1>2 DEF RootPositions, Second, Third
<1>5. Placeholder # Second /\ Placeholder # Third /\ Second # Third
  <2>1. Placeholder = 180 /\ Second = 180 + n1 /\ Third = Second + n2
    BY SystemFacts DEF Second, Third
  <2> HIDE DEF n1, n2
  <2>2. QED
    BY <1>3, <2>1
<1>6. metas' = newMetas /\ nodes' = newNodes
  BY <1>2, SystemFacts DEF mdbCreateDatabase, Second, Third
<1>7. \A s \in System : /\ m(s).root_position = RootPositions[s]
                        /\ m(s).record_size = sizeofRecord[s]
  BY <1>2 DEF SystemMeta, mdbBtreeCreate
<1> HIDE DEF m
<1>8. /\ DOMAIN newMetas = {132, 148, 164} /\ newMetas[132] = m("tables")
      /\ newMetas[148] = m("columns") /\ newMetas[164] = m("indexes")
  BY <1>2 DEF Put
<1>9. /\ newNodes[Placeholder] = Image(db["tables"]) /\ newNodes[Second] = Image(db["columns"])
      /\ newNodes[Third] = Image(db["indexes"])
  BY <1>5 DEF Put
<1> HIDE DEF newMetas, newNodes, n1, n2
<1>10. /\ DOMAIN metas' = SystemMetas
       /\ \A s \in System : metas'[MetaOf[s]] = m(s)
  BY <1>2, <1>6, <1>8, SystemFacts
<1>11. \A s \in System : nodes'[RootPositions[s]].node = db[s].root
  <2>1. \A s \in System : Image(db[s]).node = db[s].root
    BY DEF Image
  <2>2. /\ RootPositions["tables"] = Placeholder /\ RootPositions["columns"] = Second
        /\ RootPositions["indexes"] = Third
    BY <1>4
  <2>3. QED
    BY <1>2, <1>6, <1>9, <2>1, <2>2
<1>12. \A s \in System : OnFile(s)' = db[s].root
  BY <1>7, <1>10, <1>11 DEF OnFile
<1>13. \A s \in System : db'[s].root = db[s].root
  BY DEF mdbCreateDatabase, Tree
<1>14. Synced'
  BY <1>1, <1>12, <1>13 DEF Synced, Working
<1>15. QED
  BY <1>1, <1>7, <1>10, <1>12, <1>14

-----------------------------------------------------------------------------
(* The system tables stay listed.                                          *)

(* In these leaves the system tables are listed and described. *)
SystemKept(tables, columns) ==
  /\ Chain(tables) /\ Chain(columns)
  /\ \A s \in System :
       /\ SystemRow(s) \in ToSet(tables.recs)
       /\ Describing(SystemName[s], SystemLayout[s]) \subseteq ToSet(columns.recs)

(* In the file they are, and before it is one, in memory. *)
CatalogKept ==
  /\ magic => /\ SystemKept(OnFile("tables"), OnFile("columns"))
              /\ \A s \in System : metas[MetaOf[s]].record_size = sizeofRecord[s]
  /\ pc = "create database" => SystemKept(db["tables"].root, db["columns"].root)
  /\ pc \in {"list table", "list columns"} => tbl.listed \in Nat

(* A step that leaves the trees alone keeps that. *)
LEMMA UnmovedKept ==
  ASSUME CatalogInv, CatalogKept, Unmoved, magic' => magic, pc' # "create database",
         pc' \in {"list table", "list columns"} => tbl'.listed \in Nat
  PROVE  CatalogKept'
<1>1. CASE magic
  <2>1. \A s \in System : MetaOf[s] \in DOMAIN metas
    BY <1>1 DEF CatalogInv, FileInv, Described
  <2>2. \A s \in System : /\ metas'[MetaOf[s]] = metas[MetaOf[s]]
                         /\ RootAt(MetaOf[s])' = RootAt(MetaOf[s])
    BY <2>1 DEF Unmoved
  <2>3. \A s \in System : OnFile(s)' = OnFile(s)
    BY <2>2 DEF OnFile, RootAt
  <2>4. (OnFile("tables"))' = OnFile("tables") /\ (OnFile("columns"))' = OnFile("columns")
    BY <2>3, SystemFacts
  <2>5. QED
    BY <1>1, <2>2, <2>4 DEF CatalogKept, SystemKept, Chain, Keyed, Less
<1>2. CASE ~magic
  BY <1>2 DEF CatalogKept
<1>3. QED
  BY <1>1, <1>2

(* So does a record more, wherever it belongs. *)
LEMMA GainsKept ==
  ASSUME CatalogInv, CatalogKept, magic, NEW q, NEW r, Gains(q, r),
         r.key \in Seq(Nat) \/ q \notin SystemMetas, pc' # "create database",
         pc' \in {"list table", "list columns"} => tbl'.listed \in Nat
  PROVE  CatalogKept'
<1>1. \A s \in System : /\ MetaOf[s] \in DOMAIN metas /\ MetaOf[s] \in SystemMetas
                       /\ OnFile(s) = RootAt(MetaOf[s])
                       /\ OnFile(s)' = RootAt(MetaOf[s])'
  BY DEF CatalogInv, FileInv, Described, SystemMetas, OnFile, RootAt
<1>2. ASSUME NEW s \in System, Chain(OnFile(s))
      PROVE  Chain(OnFile(s)') /\ ToSet(OnFile(s).recs) \subseteq ToSet((OnFile(s)').recs)
  <2>1. CASE q = MetaOf[s]
    <3>1. OnFile(s)' = Inserted(OnFile(s), r) /\ r.key \in Seq(Nat)
      BY <1>1, <2>1 DEF Gains
    <3>2. PICK n : n = OnFile(s)
      OBVIOUS
    <3>3. Chain(Inserted(n, r)) /\ ToSet(n.recs) \subseteq ToSet(Inserted(n, r).recs)
      BY <1>2, <3>1, <3>2, InsertedChain
    <3>4. QED
      BY <3>1, <3>2, <3>3
  <2>2. CASE q # MetaOf[s]
    <3>1. OnFile(s)' = OnFile(s)
      BY <1>1, <2>2 DEF Gains
    <3>2. QED
      BY <1>2, <3>1
  <2>3. QED
    BY <2>1, <2>2
<1>3. /\ SystemKept(OnFile("tables"), OnFile("columns"))
      /\ "tables" \in System /\ "columns" \in System
  BY SystemFacts DEF CatalogKept
<1>4. SystemKept(OnFile("tables")', OnFile("columns")')
  BY <1>2, <1>3 DEF SystemKept
<1>5. SystemKept(OnFile("tables"), OnFile("columns"))'
  BY <1>4 DEF SystemKept, Chain, Keyed, Less
<1>6. metas' = metas
  BY DEF Gains
<1>7. QED
  BY <1>5, <1>6 DEF CatalogKept

(* New system tables are listed before there is a database. *)
LEMMA CreateSystemTablesKept ==
  ASSUME mdbCreateSystemTables
  PROVE  CatalogKept'
<1>1. /\ magic' = FALSE /\ pc' = "create database"
      /\ db'["tables"].root = SystemRows /\ db'["columns"].root = SystemColumns
  BY SyncCreateSystemTables
<1>2. SystemKept(SystemRows, SystemColumns)
  BY SystemRowsThere, SystemColumnsThere DEF SystemKept
<1>3. SystemKept(db'["tables"].root, db'["columns"].root)
  BY <1>1, <1>2
<1>4. SystemKept(db["tables"].root, db["columns"].root)'
  BY <1>3 DEF SystemKept, Chain, Keyed, Less
<1>5. QED
  BY <1>1, <1>4 DEF CatalogKept

(* They are when it is one. *)
LEMMA CreateDatabaseKept ==
  ASSUME CatalogInv, CatalogKept, mdbCreateDatabase
  PROVE  CatalogKept'
<1>1. /\ pc' = "idle"
      /\ \A s \in System : /\ OnFile(s)' = db[s].root
                           /\ metas'[MetaOf[s]].record_size = sizeofRecord[s]
  BY SyncCreateDatabase
<1>2. SystemKept(db["tables"].root, db["columns"].root)
  BY DEF mdbCreateDatabase, CatalogKept
<1>3. (OnFile("tables"))' = db["tables"].root /\ (OnFile("columns"))' = db["columns"].root
  BY <1>1, SystemFacts
<1>4. SystemKept(OnFile("tables"), OnFile("columns"))'
  BY <1>2, <1>3 DEF SystemKept, Chain, Keyed, Less
<1>5. QED
  BY <1>1, <1>4 DEF CatalogKept

(* The records of the system tables can be compared. *)
LEMMA RecordKeys ==
  /\ \A name \in Names : name \in Seq(Nat)
  /\ \A name \in Names : \A n, b : TableRecord(name, n, b).key \in Seq(Nat)
  /\ \A name \in Names, c \in Nat : \A column :
       ColumnRecord(name, c, column).key \in Seq(Nat)
<1>1. \A name \in Names : name \in Seq(Nat)
  BY NameFacts
<1>2. \A name \in Names, c \in Nat : Id(name, c) \in Seq(Nat)
  BY <1>1, IdType
<1>3. QED
  BY <1>1, <1>2 DEF TableRecord, ColumnRecord

(* Every step keeps them listed. *)
LEMMA KeptNext ==
  ASSUME CatalogInv, Synced, CatalogKept, [Next]_vars
  PROVE  Synced' /\ CatalogKept'
<1>w. pc \in Working => /\ magic /\ tbl.btree \in DOMAIN metas \ SystemMetas
                        /\ tbl.name \in Names
  BY DEF CatalogInv, Opened, Loaded
<1>1. CASE mdbCreateSystemTables
  BY <1>1, SyncCreateSystemTables, CreateSystemTablesKept
<1>2. CASE mdbCreateDatabase
  BY <1>2, SyncCreateDatabase, CreateDatabaseKept
<1>3. CASE mdbOpenDatabase
  <2>1. Synced' /\ Unmoved /\ magic' = magic /\ pc' = "idle"
    BY <1>3, SyncOpen DEF mdbOpenDatabase, onFile
  <2>2. QED
    BY <2>1, UnmovedKept
<1>4. CASE mdbCloseDatabase
  <2>1. Synced' /\ Unmoved /\ pc' = "idle" /\ magic
    BY <1>4, SyncClose DEF mdbCloseDatabase, CatalogInv, Opened
  <2>2. QED
    BY <2>1, UnmovedKept
<1>5. CASE Kill
  <2>1. Synced' /\ Unmoved /\ magic' = magic /\ pc' = "idle"
    BY <1>5, SyncKill DEF Kill, onFile
  <2>2. QED
    BY <2>1, UnmovedKept
<1>6. ASSUME NEW name \in Names, NEW columns \in Layouts, mdbCreateTable(name, columns)
      PROVE  Synced' /\ CatalogKept'
  <2>1. /\ Synced' /\ Unmoved /\ magic' = magic /\ pc' = "list table" /\ tbl'.listed = 0
    BY <1>6, SyncCreateTable DEF mdbCreateTable
  <2>2. 0 \in Nat
    OBVIOUS
  <2>3. tbl'.listed \in Nat
    BY <2>1, <2>2, Zenon
  <2>4. pc' # "create database"
    BY <2>1, Zenon
  <2>5. QED
    BY <2>1, <2>3, <2>4, UnmovedKept
<1>7. CASE ListTable
  <2> DEFINE r == TableRecord(tbl.name, Len(tbl.columns), tbl.btree)
  <2>1. /\ Synced' /\ Gains(MetaOf["tables"], r) /\ pc' = "list columns" /\ tbl' = tbl
        /\ pc = "list table"
    BY <1>7, SyncListTable DEF ListTable
  <2>2. magic /\ tbl.name \in Names /\ tbl.listed \in Nat
    BY <1>w, <2>1 DEF Working, CatalogKept
  <2>3. r.key \in Seq(Nat)
    BY <2>2, RecordKeys
  <2>4. PICK e : e = r
    OBVIOUS
  <2>5. Gains(MetaOf["tables"], e) /\ e.key \in Seq(Nat)
    BY <2>1, <2>3, <2>4 DEF Gains
  <2>6. QED
    BY <2>1, <2>2, <2>5, GainsKept
<1>8. CASE ListColumn
  <2> DEFINE r == ColumnRecord(tbl.name, tbl.listed, tbl.columns[tbl.listed + 1])
  <2>1. /\ Synced' /\ Gains(MetaOf["columns"], r) /\ pc = "list columns" /\ pc' = pc
        /\ tbl' = [tbl EXCEPT !.listed = tbl.listed + 1]
    BY <1>8, SyncListColumn
  <2>2. magic /\ tbl.name \in Names /\ tbl.listed \in Nat /\ Loaded
    BY <1>w, <2>1 DEF Working, CatalogKept, CatalogInv
  <2>3. r.key \in Seq(Nat)
    BY <2>2, RecordKeys
  <2>4. PICK e : e = r
    OBVIOUS
  <2>5. Gains(MetaOf["columns"], e) /\ e.key \in Seq(Nat)
    BY <2>1, <2>3, <2>4 DEF Gains
  <2>6. tbl'.listed \in Nat
    <3>1. tbl = [name |-> tbl.name, columns |-> tbl.columns, btree |-> tbl.btree,
                 tree |-> tbl.tree, listed |-> tbl.listed, new |-> tbl.new]
      BY <2>2 DEF Loaded
    <3>2. tbl'.listed = tbl.listed + 1
      BY <2>1, <3>1
    <3>3. QED
      BY <2>2, <3>2
  <2>7. QED
    BY <2>1, <2>2, <2>5, <2>6, GainsKept
<1>9. CASE TableCreated
  <2>1. Synced' /\ Unmoved /\ magic' = magic /\ pc' = "created"
    BY <1>9, SyncTableCreated DEF TableCreated, onFile
  <2>2. QED
    BY <2>1, UnmovedKept
<1>10. ASSUME NEW name \in Names, mdbLoadTable(name)
       PROVE  Synced' /\ CatalogKept'
  <2>1. Synced' /\ Unmoved /\ magic' = magic /\ pc' \in {"loaded", "idle"}
    BY <1>10, SyncLoad DEF mdbLoadTable, onFile
  <2>2. QED
    BY <2>1, UnmovedKept
<1>11. ASSUME NEW row \in Rows, InsertRecord(row)
       PROVE  Synced' /\ CatalogKept'
  <2>1. PICK b : b = tbl.btree
    OBVIOUS
  <2>2. /\ Synced' /\ Gains(b, [key |-> row]) /\ pc' = "loaded" /\ pc = "loaded"
    BY <1>11, <2>1, SyncInsertRecord
  <2>3. magic /\ b \notin SystemMetas
    BY <1>w, <2>1, <2>2 DEF Working
  <2>4. QED
    BY <2>2, <2>3, GainsKept
<1>12. CASE Reset
  <2>1. Synced' /\ Unmoved /\ magic' = magic /\ pc' = "idle"
    BY <1>12, SyncReset DEF Reset
  <2>2. QED
    BY <2>1, UnmovedKept
<1>13. CASE UNCHANGED vars
  <2>1. UNCHANGED onFile /\ pc' = pc /\ db' = db /\ tbl' = tbl
    BY <1>13 DEF vars
  <2>2. metas' = metas /\ nodes' = nodes /\ magic' = magic
    BY <2>1 DEF onFile
  <2>3. Synced'
    BY <2>1, <2>2 DEF Synced, OnFile, RootAt
  <2>4. OnFile("tables")' = OnFile("tables") /\ OnFile("columns")' = OnFile("columns")
    BY <2>2 DEF OnFile
  <2>5. db["tables"]' = db["tables"] /\ db["columns"]' = db["columns"]
    BY <2>1
  <2>6. SystemKept(OnFile("tables"), OnFile("columns"))
          => SystemKept(OnFile("tables"), OnFile("columns"))'
    BY <2>4 DEF SystemKept, Chain, Keyed, Less
  <2>7. SystemKept(db["tables"].root, db["columns"].root)
          => SystemKept(db["tables"].root, db["columns"].root)'
    BY <2>5 DEF SystemKept, Chain, Keyed, Less
  <2>8. CatalogKept'
    BY <2>1, <2>2, <2>6, <2>7 DEF CatalogKept
  <2>9. QED
    BY <2>3, <2>8
<1>14. QED
  BY <1>1, <1>2, <1>3, <1>4, <1>5, <1>6, <1>7, <1>8, <1>9, <1>10, <1>11, <1>12, <1>13
     DEF Next

(* A record listed is found under its name, *)
LEMMA SystemFound ==
  ASSUME NEW tables, NEW columns, SystemKept(tables, columns), NEW s \in System
  PROVE  /\ Collides(tables, SystemName[s])
         /\ Found(tables, SystemName[s]) = SystemRow(s)
         /\ SystemRow(s).btree = MetaOf[s]
         /\ LoadedColumns(columns, SystemRow(s)) = SystemLayout[s]
<1>1. /\ SystemRow(s).key = SystemName[s] /\ SystemRow(s).btree = MetaOf[s]
      /\ SystemRow(s).columns = Len(SystemLayout[s])
  BY DEF SystemRow, TableRecord
<1>2. /\ Chain(tables) /\ Chain(columns) /\ SystemRow(s) \in ToSet(tables.recs)
      /\ \A c \in 1 .. Len(SystemLayout[s]) :
           ColumnRecord(SystemName[s], c - 1, SystemLayout[s][c]) \in ToSet(columns.recs)
  BY DEF SystemKept, Describing
<1>3. Collides(tables, SystemName[s]) /\ Found(tables, SystemName[s]) = SystemRow(s)
  BY <1>1, <1>2, FoundItself
<1>4. LoadedColumns(columns, SystemRow(s)) = SystemLayout[s]
  BY <1>1, <1>2, SystemLayouts, ColumnsLoaded
<1>5. QED
  BY <1>1, <1>3, <1>4

(* A file that mdbOpenDatabase accepts lists the three system tables under their
   names, with their descriptors, with columns that are all listed in .Columns
   and that add up to the sizes of their records: whatever names a program
   gives its tables, the search in the leaves still finds them, and no
   creation that was cut short has taken them out. *)
THEOREM SystemTablesStay == Spec => []SystemTablesListed
<1> DEFINE Inv == Synced /\ CatalogKept
<1>1. Init => Inv
  BY DEF Init, Synced, CatalogKept, Working
<1>2. CatalogInv /\ Inv /\ [Next]_vars => Inv'
  BY KeptNext
<1>3. Inv => SystemTablesListed
  <2> SUFFICES ASSUME Inv, magic, NEW s \in System
               PROVE  /\ Collides(OnFile("tables"), SystemName[s])
                      /\ LET record == Found(OnFile("tables"), SystemName[s])
                         IN  /\ record.btree = MetaOf[s]
                             /\ LoadedColumns(OnFile("columns"), record) = SystemLayout[s]
                             /\ RecordSize(SystemLayout[s]) = metas[record.btree].record_size
    BY DEF SystemTablesListed
  <2>a. PICK t : t = OnFile("tables")
    OBVIOUS
  <2>b. PICK c : c = OnFile("columns")
    OBVIOUS
  <2>1. t = OnFile("tables") /\ c = OnFile("columns")
    BY <2>a, <2>b
  <2>2. SystemKept(t, c) /\ metas[MetaOf[s]].record_size = sizeofRecord[s]
    BY <2>1 DEF CatalogKept
  <2>3. /\ Collides(t, SystemName[s]) /\ Found(t, SystemName[s]) = SystemRow(s)
        /\ SystemRow(s).btree = MetaOf[s]
        /\ LoadedColumns(c, SystemRow(s)) = SystemLayout[s]
    BY <2>2, SystemFound
  <2>4. RecordSize(SystemLayout[s]) = sizeofRecord[s]
    BY SystemLayouts
  <2>5. QED
    BY <2>1, <2>2, <2>3, <2>4
<1>4. QED
  BY <1>1, <1>2, <1>3, CatalogInvariant, PTL DEF Spec

-----------------------------------------------------------------------------
(* What was created stays.                                                 *)

(* No two names of a program compare as equal, and none has a NUL. *)
NamesApart ==
  /\ \A a, b \in Names : a # b => CmpNames(a, b) # 0
  /\ \A a \in Names : \A i \in 1 .. Len(a) : a[i] # 0

(* The root of .Tables in the file. *)
Tables == RootAt(MetaOf["tables"])

(* The root of .Columns. *)
Columns == RootAt(MetaOf["columns"])

(* The names a leaf of .Tables lists. *)
Listed(t) == {e.key : e \in ToSet(t.recs)}

(* The columns of this new table are being listed. *)
Listing(name) == pc = "list columns" /\ tbl.new /\ tbl.name = name

(* Only tables are listed, and only columns of these, of a table that is being
   created no further than it has got. *)
NamesKept ==
  /\ Listed(Tables) \subseteq Names \cup {SystemName[s] : s \in System}
  /\ \A e \in ToSet(Columns.recs) :
       \E k \in Listed(Tables), i \in Nat :
         e.key = Id(k, i) /\ (Listing(k) => i < tbl.listed)

(* The table is listed, so long and there. *)
Entered(t, name, n, b) ==
  \E e \in ToSet(t.recs) : e.key = name /\ e.columns = n /\ e.btree = b

(* Its first n columns are. *)
DescribedTo(name, columns, n) ==
  \A c \in 1 .. n : ColumnRecord(name, c - 1, columns[c]) \in ToSet(Columns.recs)

(* The table is there with all its columns and rows. *)
Kept(name, r) ==
  \E b \in DOMAIN metas \ SystemMetas :
    /\ Entered(Tables, name, Len(r.columns), b)
    /\ DescribedTo(name, r.columns, Len(r.columns))
    /\ \A row \in r.rows : [key |-> row] \in ToSet(RootAt(b).recs)

(* What is remembered of a creation. *)
Creation == [columns : Seq(Column), rows : SUBSET Rows]

(* All that were created are. *)
CreatedKept ==
  \A name \in DOMAIN created : \A r \in {created[name]} :
    name \in Names /\ r \in Creation /\ Kept(name, r)

(* The records of all other trees are in order. *)
TreesKept == \A p \in DOMAIN metas \ SystemMetas : Chain(RootAt(p))

(* What a creation that is under way has done, *)
CreationKept ==
  /\ pc = "list table" => /\ tbl.columns \in Layouts /\ tbl.listed = 0
                          /\ tbl.new => tbl.name \notin Listed(Tables)
  /\ pc = "list columns" =>
       /\ tbl.columns \in Layouts /\ tbl.name \in Listed(Tables)
       /\ tbl.listed <= Len(tbl.columns)
       /\ tbl.new => /\ Entered(Tables, tbl.name, Len(tbl.columns), tbl.btree)
                     /\ DescribedTo(tbl.name, tbl.columns, tbl.listed)

(* and what is known of a table that was loaded. *)
LoadedKept ==
  pc = "loaded" => \E e \in ToSet(Tables.recs) : e.key = tbl.name /\ e.btree = tbl.btree

(* All of it: the catalog of a file that has its magic number, what is still
   empty before it has it, and the creation that is under way. *)
FoundInv ==
  /\ magic => NamesKept /\ CreatedKept /\ TreesKept
  /\ ~magic => DOMAIN created = {}
  /\ pc = "create database" =>
       db["tables"].root = SystemRows /\ db["columns"].root = SystemColumns
  /\ pc \in Working => CreationKept /\ LoadedKept

(* A program's name is no other one's that is listed. *)
LEMMA ListedApart ==
  ASSUME NamesApart, NEW a \in Names, NEW b \in Names \cup {SystemName[s] : s \in System},
         a # b
  PROVE  CmpNames(a, b) # 0 /\ b \in Seq(Nat)
<1>1. CASE b \in Names
  BY <1>1, NameFacts DEF NamesApart
<1>2. CASE \E s \in System : b = SystemName[s]
  BY <1>2, NameFacts, SystemNames
<1>3. QED
  BY <1>1, <1>2

(* What is found under a program's name has that name. *)
LEMMA FoundUnder ==
  ASSUME NamesApart, NEW t, Keyed(t),
         Listed(t) \subseteq Names \cup {SystemName[s] : s \in System},
         NEW name \in Names, Collides(t, name)
  PROVE  Found(t, name) \in ToSet(t.recs) /\ Found(t, name).key = name
<1>1. Found(t, name) \in ToSet(t.recs) /\ CmpNames(name, Found(t, name).key) = 0
  BY FoundCompares
<1>2. Found(t, name).key \in Listed(t)
  BY <1>1 DEF Listed
<1>3. QED
  BY <1>1, <1>2, ListedApart

(* A name is listed once. *)
LEMMA ListedOnce ==
  ASSUME NEW n, Chain(n), NEW a \in ToSet(n.recs), NEW b \in ToSet(n.recs), a.key = b.key
  PROVE  a = b
BY FoundItself

(* The system tables in the file. *)
LEMMA SystemTrees ==
  ASSUME CatalogInv, CatalogKept, magic
  PROVE  /\ MetaOf["tables"] \in DOMAIN metas /\ MetaOf["columns"] \in DOMAIN metas
         /\ MetaOf["tables"] \in SystemMetas /\ MetaOf["columns"] \in SystemMetas
         /\ MetaOf["tables"] # MetaOf["columns"]
         /\ OnFile("tables") = Tables /\ OnFile("columns") = Columns
         /\ Chain(Tables) /\ Chain(Columns)
<1>1. /\ MetaOf["tables"] \in DOMAIN metas /\ MetaOf["columns"] \in DOMAIN metas
      /\ MetaOf["tables"] \in SystemMetas /\ MetaOf["columns"] \in SystemMetas
      /\ MetaOf["tables"] # MetaOf["columns"]
  <2>1. "tables" \in System /\ "columns" \in System /\ MetaOf["tables"] # MetaOf["columns"]
    BY SystemFacts
  <2>2. \A s \in System : MetaOf[s] \in DOMAIN metas /\ MetaOf[s] \in SystemMetas
    BY DEF CatalogInv, FileInv, Described, SystemMetas
  <2>3. QED
    BY <2>1, <2>2
<1>2. OnFile("tables") = Tables /\ OnFile("columns") = Columns
  BY DEF OnFile, RootAt, Tables, Columns
<1>3. QED
  BY <1>1, <1>2 DEF CatalogKept, SystemKept

(* No tree of the file loses a record. *)
Grows ==
  \A p \in DOMAIN metas :
    p \in DOMAIN metas' /\ ToSet(RootAt(p).recs) \subseteq ToSet((RootAt(p)').recs)

(* Nor does one that stays as it is. *)
LEMMA UnmovedGrows == Unmoved => Grows
BY DEF Unmoved, Grows

(* An insertion takes none out. *)
LEMMA GainsGrows ==
  ASSUME NEW q \in DOMAIN metas, NEW r, r.key \in Seq(Nat), Gains(q, r), Chain(RootAt(q))
  PROVE  /\ Grows /\ DOMAIN metas' = DOMAIN metas
         /\ Chain(RootAt(q)') /\ RootAt(q)' = Inserted(RootAt(q), r)
         /\ ToSet((RootAt(q)').recs) \subseteq ToSet(RootAt(q).recs) \cup {r}
         /\ ~Collides(RootAt(q), r.key) => r \in ToSet((RootAt(q)').recs)
         /\ \A p \in DOMAIN metas : p # q => RootAt(p)' = RootAt(p)
<1>1. PICK n : n = RootAt(q)
  OBVIOUS
<1>2. /\ Chain(Inserted(n, r)) /\ ToSet(n.recs) \subseteq ToSet(Inserted(n, r).recs)
      /\ ToSet(Inserted(n, r).recs) \subseteq ToSet(n.recs) \cup {r}
      /\ ~Collides(n, r.key) => r \in ToSet(Inserted(n, r).recs)
  BY <1>1, InsertedChain
<1>3. /\ RootAt(q)' = Inserted(n, r) /\ metas' = metas
      /\ \A p \in DOMAIN metas : p # q => RootAt(p)' = RootAt(p)
  BY <1>1 DEF Gains
<1>4. Grows
  BY <1>1, <1>2, <1>3 DEF Grows
<1>5. QED
  BY <1>1, <1>2, <1>3, <1>4

(* So what was created stays. *)
LEMMA KeptStays ==
  ASSUME CatalogInv, CatalogKept, magic, Grows, NEW name, NEW r, Kept(name, r)
  PROVE  Kept(name, r)'
<1>1. PICK b \in DOMAIN metas \ SystemMetas :
        /\ Entered(Tables, name, Len(r.columns), b)
        /\ DescribedTo(name, r.columns, Len(r.columns))
        /\ \A row \in r.rows : [key |-> row] \in ToSet(RootAt(b).recs)
  BY DEF Kept
<1>2. /\ MetaOf["tables"] \in DOMAIN metas /\ MetaOf["columns"] \in DOMAIN metas
  BY SystemTrees
<1>3. /\ ToSet(Tables.recs) \subseteq ToSet((Tables').recs)
      /\ ToSet(Columns.recs) \subseteq ToSet((Columns').recs)
      /\ ToSet(RootAt(b).recs) \subseteq ToSet((RootAt(b)').recs)
      /\ b \in DOMAIN metas' \ SystemMetas
  BY <1>2 DEF Grows, Tables, Columns
<1>4. Entered(Tables, name, Len(r.columns), b)'
  BY <1>1, <1>3 DEF Entered
<1>5. DescribedTo(name, r.columns, Len(r.columns))'
  BY <1>1, <1>3 DEF DescribedTo
<1>6. QED
  BY <1>1, <1>3, <1>4, <1>5 DEF Kept

(* As long as no creation has returned that is all there is to it. *)
LEMMA CreatedStays ==
  ASSUME CatalogInv, CatalogKept, magic, Grows, CreatedKept, created' = created
  PROVE  CreatedKept'
<1>1. ASSUME NEW name \in DOMAIN created, NEW r \in {created[name]}
      PROVE  name \in Names /\ r \in Creation /\ Kept(name, r)'
  BY <1>1, KeptStays DEF CreatedKept
<1>2. QED
  BY <1>1 DEF CreatedKept, Kept, Entered, DescribedTo

(* A step that neither writes a record nor goes on with a statement. *)
LEMMA QuietFound ==
  ASSUME CatalogInv, CatalogKept, FoundInv, Unmoved, magic' = magic, metas' = metas,
         created' = created, pc' \in {"idle", "created"}
  PROVE  FoundInv'
<1>1. /\ pc' # "create database" /\ pc' # "list table" /\ pc' # "list columns"
      /\ pc' # "loaded" /\ CreationKept' /\ LoadedKept'
  BY DEF CreationKept, LoadedKept
<1>2. CASE ~magic
  BY <1>1, <1>2 DEF FoundInv
<1>3. CASE magic
  <2>1. /\ MetaOf["tables"] \in DOMAIN metas /\ MetaOf["columns"] \in DOMAIN metas
    BY <1>3, SystemTrees
  <2>2. Tables' = Tables /\ Columns' = Columns
    BY <2>1 DEF Tables, Columns, Unmoved
  <2>3. NamesKept'
    BY <1>1, <1>3, <2>2 DEF FoundInv, NamesKept, Listed, Listing
  <2>4. TreesKept'
    BY <1>3 DEF FoundInv, TreesKept, Unmoved, Chain, Keyed, Less
  <2>5. CreatedKept'
    BY <1>3, UnmovedGrows, CreatedStays DEF FoundInv
  <2>6. QED
    BY <1>1, <1>3, <2>3, <2>4, <2>5 DEF FoundInv
<1>4. QED
  BY <1>2, <1>3

(* A table is created: it has an empty root. *)
LEMMA CreateTableFound ==
  ASSUME CatalogInv, Synced, CatalogKept, FoundInv, NEW name \in Names,
         NEW columns \in Layouts, mdbCreateTable(name, columns)
  PROVE  FoundInv'
<1>1. /\ Unmoved /\ DOMAIN metas' = DOMAIN metas \cup {length}
      /\ nodes'[metas'[length].root_position].node = Leaf!EmptyLeaf
      /\ tbl'.name = name /\ tbl'.columns = columns /\ tbl'.listed = 0
      /\ tbl'.new = (name \notin {r.key : r \in ToSet(OnFile("tables").recs)})
      /\ pc' = "list table"
  BY SyncCreateTable
<1>2. /\ magic' = magic /\ magic /\ created' = created
  BY DEF mdbCreateTable, CatalogInv, Opened
<1>3. /\ MetaOf["tables"] \in DOMAIN metas /\ MetaOf["columns"] \in DOMAIN metas
      /\ OnFile("tables") = Tables
  BY <1>2, SystemTrees
<1>4. Tables' = Tables /\ Columns' = Columns
  BY <1>1, <1>3 DEF Tables, Columns, Unmoved
<1>5. NamesKept'
  <2>1. \A k : ~Listing(k)'
    BY <1>1 DEF Listing
  <2>2. QED
    BY <1>2, <1>4, <2>1 DEF FoundInv, NamesKept, Listed
<1>6. TreesKept'
  <2>1. ASSUME NEW p \in DOMAIN metas' \ SystemMetas
        PROVE  Chain(RootAt(p)')
    <3>1. CASE p \in DOMAIN metas
      <4>1. RootAt(p)' = RootAt(p)
        BY <1>1, <3>1 DEF Unmoved
      <4>2. QED
        BY <1>2, <2>1, <3>1, <4>1 DEF FoundInv, TreesKept
    <3>2. CASE p = length
      <4>1. RootAt(p)' = Leaf!EmptyLeaf
        BY <1>1, <3>2 DEF RootAt
      <4>2. QED
        BY <4>1, EmptyChain
    <3>3. QED
      BY <1>1, <2>1, <3>1, <3>2
  <2>2. QED
    BY <2>1 DEF TreesKept, Chain, Keyed, Less
<1>7. CreatedKept'
  BY <1>1, <1>2, UnmovedGrows, CreatedStays DEF FoundInv
<1>8. CreationKept'
  <2>1. tbl'.new => name \notin Listed(Tables)
    BY <1>1, <1>3 DEF Listed
  <2>2. QED
    BY <1>1, <1>4, <2>1 DEF CreationKept, Listed
<1>9. LoadedKept'
  BY <1>1 DEF LoadedKept
<1>10. QED
  BY <1>1, <1>2, <1>5, <1>6, <1>7, <1>8, <1>9 DEF FoundInv

(* It is listed: its name was not, or it was listed before. *)
LEMMA ListTableFound ==
  ASSUME NamesApart, CatalogInv, Synced, CatalogKept, FoundInv, ListTable
  PROVE  FoundInv'
<1>1. /\ Gains(MetaOf["tables"], TableRecord(tbl.name, Len(tbl.columns), tbl.btree))
      /\ pc' = "list columns" /\ tbl' = tbl
  BY SyncListTable
<1>2. /\ pc = "list table" /\ pc \in Working /\ magic' = magic /\ created' = created
  BY DEF ListTable, Working
<1>3. /\ magic /\ tbl.btree \in DOMAIN metas \ SystemMetas
  BY <1>2, WorkingFacts
<1>4. tbl.name \in Names /\ tbl.columns \in Layouts /\ tbl.listed = 0
  BY <1>2 DEF CatalogInv, Loaded, FoundInv, CreationKept
<1> DEFINE T == MetaOf["tables"]
<1>5. /\ T \in DOMAIN metas /\ T \in SystemMetas /\ MetaOf["columns"] \in DOMAIN metas
      /\ MetaOf["columns"] # T /\ Chain(RootAt(T)) /\ RootAt(T) = Tables
  BY <1>3, SystemTrees DEF Tables
<1>6. PICK r : r = TableRecord(tbl.name, Len(tbl.columns), tbl.btree)
  OBVIOUS
<1>7. /\ r.key = tbl.name /\ r.columns = Len(tbl.columns) /\ r.btree = tbl.btree
      /\ r.key \in Seq(Nat)
  BY <1>4, <1>6, RecordKeys DEF TableRecord
<1>8. Gains(T, r)
  BY <1>1, <1>6 DEF Gains
<1> HIDE DEF T
<1>9. /\ Grows /\ DOMAIN metas' = DOMAIN metas
      /\ ToSet((RootAt(T)').recs) \subseteq ToSet(RootAt(T).recs) \cup {r}
      /\ ~Collides(RootAt(T), r.key) => r \in ToSet((RootAt(T)').recs)
      /\ \A p \in DOMAIN metas : p # T => RootAt(p)' = RootAt(p)
  BY <1>5, <1>7, <1>8, GainsGrows
<1>10. /\ Columns' = Columns /\ RootAt(T)' = Tables'
       /\ ToSet(Tables.recs) \subseteq ToSet((Tables').recs)
       /\ ToSet((Tables').recs) \subseteq ToSet(Tables.recs) \cup {r}
       /\ ~Collides(Tables, tbl.name) => r \in ToSet((Tables').recs)
  BY <1>5, <1>7, <1>9 DEF Grows, Columns, Tables, T
<1>11. /\ Listed(Tables) \subseteq Listed(Tables)'
       /\ Listed(Tables)' \subseteq Listed(Tables) \cup {tbl.name}
  BY <1>7, <1>10 DEF Listed
<1>12. NamesKept
  BY <1>3 DEF FoundInv
<1>13. tbl.name \in Listed(Tables)' /\ (tbl.new => r \in ToSet((Tables').recs))
  <2>1. PICK t : t = Tables
    OBVIOUS
  <2>2. Keyed(t) /\ Listed(t) \subseteq Names \cup {SystemName[s] : s \in System}
    BY <1>5, <1>12, <2>1 DEF Chain, NamesKept
  <2>3. PICK name : name = tbl.name
    OBVIOUS
  <2>4. CASE Collides(t, name)
    <3>1. name \in Listed(t)
      BY <1>4, <2>2, <2>3, <2>4, FoundUnder DEF Listed
    <3>2. ~tbl.new
      BY <1>2, <2>1, <2>3, <3>1 DEF FoundInv, CreationKept
    <3>3. QED
      BY <1>11, <2>1, <2>3, <3>1, <3>2
  <2>5. CASE ~Collides(t, name)
    <3>1. r \in ToSet((Tables').recs)
      BY <1>10, <2>1, <2>3, <2>5
    <3>2. QED
      BY <1>7, <3>1 DEF Listed
  <2>6. QED
    BY <2>4, <2>5
<1>14. NamesKept'
  <2>1. Listed(Tables)' \subseteq Names \cup {SystemName[s] : s \in System}
    BY <1>4, <1>11, <1>12 DEF NamesKept
  <2>2. ASSUME NEW e \in ToSet((Columns').recs)
        PROVE  \E k \in Listed(Tables)', i \in Nat :
                 e.key = Id(k, i) /\ (Listing(k)' => i < tbl'.listed)
    <3>1. PICK k \in Listed(Tables), i \in Nat : e.key = Id(k, i)
      BY <1>10, <1>12, <2>2 DEF NamesKept
    <3>2. ~Listing(k)'
      BY <1>1, <1>2, <3>1 DEF Listing, FoundInv, CreationKept
    <3>3. QED
      BY <1>11, <3>1, <3>2
  <2>3. QED
    BY <2>1, <2>2 DEF NamesKept
<1>15. TreesKept'
  <2>1. ASSUME NEW p \in DOMAIN metas' \ SystemMetas
        PROVE  Chain(RootAt(p)')
    <3>1. RootAt(p)' = RootAt(p) /\ p \in DOMAIN metas
      BY <1>5, <1>9, <2>1
    <3>2. QED
      BY <1>3, <2>1, <3>1 DEF FoundInv, TreesKept
  <2>2. QED
    BY <2>1 DEF TreesKept, Chain, Keyed, Less
<1>16. CreatedKept'
  BY <1>2, <1>3, <1>9, CreatedStays DEF FoundInv
<1>17. CreationKept'
  <2>1. tbl.new => Entered(Tables, tbl.name, Len(tbl.columns), tbl.btree)'
    BY <1>1, <1>7, <1>13 DEF Entered
  <2>2. DescribedTo(tbl.name, tbl.columns, tbl.listed)'
    <3>1. tbl'.listed = 0
      BY <1>1, <1>4, Zenon
    <3>2. \A c \in 1 .. 0 : FALSE
      OBVIOUS
    <3>3. QED
      BY <3>1, <3>2 DEF DescribedTo
  <2>3. tbl'.listed <= Len(tbl'.columns)
    <3>1. Len(tbl.columns) \in Nat
      BY <1>4, LayoutsAssumption, LenProperties
    <3>2. 0 <= Len(tbl.columns)
      BY <3>1
    <3>3. QED
      BY <1>1, <1>4, <3>2
  <2>4. QED
    BY <1>1, <1>4, <1>13, <2>1, <2>2, <2>3 DEF CreationKept
<1>18. LoadedKept'
  BY <1>1 DEF LoadedKept
<1>19. QED
  BY <1>1, <1>2, <1>14, <1>15, <1>16, <1>17, <1>18 DEF FoundInv

(* A column is listed: no column that is there is taken for it. *)
LEMMA ListColumnFound ==
  ASSUME NamesApart, CatalogInv, Synced, CatalogKept, FoundInv, ListColumn
  PROVE  FoundInv'
<1>1. /\ Gains(MetaOf["columns"],
               ColumnRecord(tbl.name, tbl.listed, tbl.columns[tbl.listed + 1]))
      /\ pc = "list columns" /\ pc' = pc /\ tbl.listed < Len(tbl.columns)
      /\ tbl' = [tbl EXCEPT !.listed = tbl.listed + 1]
  BY SyncListColumn
<1>2. /\ pc \in Working /\ magic' = magic /\ created' = created
  BY <1>1 DEF ListColumn, Working
<1>3. /\ magic /\ tbl.btree \in DOMAIN metas \ SystemMetas /\ Loaded
  BY <1>2, WorkingFacts
<1>4. /\ tbl.name \in Names /\ tbl.columns \in Layouts /\ tbl.listed \in Nat
      /\ tbl.name \in Listed(Tables)
      /\ tbl.new => /\ Entered(Tables, tbl.name, Len(tbl.columns), tbl.btree)
                    /\ DescribedTo(tbl.name, tbl.columns, tbl.listed)
  BY <1>1, <1>2, <1>3 DEF Loaded, FoundInv, CreationKept, CatalogKept
<1>5. /\ tbl'.name = tbl.name /\ tbl'.columns = tbl.columns /\ tbl'.btree = tbl.btree
      /\ tbl'.new = tbl.new /\ tbl'.listed = tbl.listed + 1
  <2>1. tbl = [name |-> tbl.name, columns |-> tbl.columns, btree |-> tbl.btree,
               tree |-> tbl.tree, listed |-> tbl.listed, new |-> tbl.new]
    BY <1>3 DEF Loaded
  <2>2. QED
    BY <1>1, <2>1
<1> DEFINE C == MetaOf["columns"]
<1>6. /\ C \in DOMAIN metas /\ C \in SystemMetas /\ MetaOf["tables"] \in DOMAIN metas
      /\ MetaOf["tables"] # C /\ Chain(RootAt(C)) /\ RootAt(C) = Columns
  BY <1>3, SystemTrees DEF Columns
<1>7. PICK r : r = ColumnRecord(tbl.name, tbl.listed, tbl.columns[tbl.listed + 1])
  OBVIOUS
<1>8. r.key = Id(tbl.name, tbl.listed) /\ r.key \in Seq(Nat)
  BY <1>4, <1>7, RecordKeys DEF ColumnRecord
<1>9. Gains(C, r)
  BY <1>1, <1>7 DEF Gains
<1> HIDE DEF C
<1>10. /\ Grows /\ DOMAIN metas' = DOMAIN metas
       /\ ToSet((RootAt(C)').recs) \subseteq ToSet(RootAt(C).recs) \cup {r}
       /\ ~Collides(RootAt(C), r.key) => r \in ToSet((RootAt(C)').recs)
       /\ \A p \in DOMAIN metas : p # C => RootAt(p)' = RootAt(p)
  BY <1>6, <1>8, <1>9, GainsGrows
<1>11. /\ Tables' = Tables /\ RootAt(C)' = Columns'
       /\ ToSet(Columns.recs) \subseteq ToSet((Columns').recs)
       /\ ToSet((Columns').recs) \subseteq ToSet(Columns.recs) \cup {r}
       /\ ~Collides(Columns, r.key) => r \in ToSet((Columns').recs)
       /\ Listed(Tables)' = Listed(Tables)
  BY <1>6, <1>10 DEF Grows, Columns, Tables, C, Listed
<1>12. NamesKept
  BY <1>3 DEF FoundInv
<1>13. ASSUME tbl.new
       PROVE  r \in ToSet((Columns').recs)
  <2>1. PICK c : c = Columns
    OBVIOUS
  <2>2. PICK name : name = tbl.name
    OBVIOUS
  <2>3. PICK n \in Nat : n = tbl.listed
    BY <1>4
  <2>4. SUFFICES ASSUME Collides(c, r.key) PROVE FALSE
    BY <1>11, <2>1
  <2>5. PICK e \in ToSet(c.recs) : CmpNames(r.key, e.key) = 0
    BY <1>6, <2>1, <2>4, FoundCompares DEF Chain
  <2>6. PICK k \in Listed(Tables), i \in Nat : e.key = Id(k, i) /\ (Listing(k) => i < n)
    BY <1>12, <2>1, <2>3, <2>5 DEF NamesKept
  <2>7. r.key = Id(name, n) /\ name \in Names /\ name \in Seq(Nat)
    BY <1>4, <1>8, <2>2, <2>3, RecordKeys
  <2>8. CASE k = name
    <3>1. i < n
      BY <1>1, <1>13, <2>2, <2>6, <2>8 DEF Listing
    <3>2. n # i /\ \A j \in 1 .. Len(name) : name[j] # 0
      BY <2>7, <3>1 DEF NamesApart
    <3>3. CmpNames(Id(name, n), Id(name, i)) # 0
      BY <2>7, <3>2, IdsOfColumns
    <3>4. QED
      BY <2>5, <2>6, <2>7, <2>8, <3>3
  <2>9. CASE k # name
    <3>1. CmpNames(name, k) # 0 /\ k \in Seq(Nat)
      BY <1>12, <2>6, <2>7, <2>9, ListedApart DEF NamesKept
    <3>2. CmpNames(Id(name, n), Id(k, i)) # 0
      BY <2>7, <3>1, IdsOfTables
    <3>3. QED
      BY <2>5, <2>6, <2>7, <3>2
  <2>10. QED
    BY <2>8, <2>9
<1>14. NamesKept'
  <2>1. Listed(Tables)' \subseteq Names \cup {SystemName[s] : s \in System}
    BY <1>11, <1>12 DEF NamesKept
  <2>2. ASSUME NEW e \in ToSet((Columns').recs)
        PROVE  \E k \in Listed(Tables)', i \in Nat :
                 e.key = Id(k, i) /\ (Listing(k)' => i < tbl'.listed)
    <3>1. CASE e \in ToSet(Columns.recs)
      <4>1. PICK k \in Listed(Tables), i \in Nat :
              e.key = Id(k, i) /\ (Listing(k) => i < tbl.listed)
        BY <1>12, <3>1 DEF NamesKept
      <4>2. Listing(k)' => Listing(k)
        BY <1>1, <1>5 DEF Listing
      <4>3. Listing(k)' => i < tbl'.listed
        BY <1>4, <1>5, <4>1, <4>2
      <4>4. QED
        BY <1>11, <4>1, <4>3
    <3>2. CASE e = r
      <4>1. e.key = Id(tbl.name, tbl.listed) /\ tbl.name \in Listed(Tables)'
        BY <1>4, <1>8, <1>11, <3>2
      <4>2. tbl.listed < tbl'.listed
        BY <1>4, <1>5
      <4>3. QED
        BY <1>4, <4>1, <4>2
    <3>3. QED
      BY <1>11, <2>2, <3>1, <3>2
  <2>3. QED
    BY <2>1, <2>2 DEF NamesKept
<1>15. TreesKept'
  <2>1. ASSUME NEW p \in DOMAIN metas' \ SystemMetas
        PROVE  Chain(RootAt(p)')
    <3>1. RootAt(p)' = RootAt(p) /\ p \in DOMAIN metas
      BY <1>6, <1>10, <2>1
    <3>2. QED
      BY <1>3, <2>1, <3>1 DEF FoundInv, TreesKept
  <2>2. QED
    BY <2>1 DEF TreesKept, Chain, Keyed, Less
<1>16. CreatedKept'
  BY <1>2, <1>3, <1>10, CreatedStays DEF FoundInv
<1>17. CreationKept'
  <2>1. tbl.new => Entered(Tables, tbl.name, Len(tbl.columns), tbl.btree)'
    BY <1>4, <1>5, <1>11 DEF Entered
  <2>2. tbl.new => DescribedTo(tbl.name, tbl.columns, tbl.listed)'
    <3> SUFFICES ASSUME tbl.new, NEW c \in 1 .. tbl'.listed
                 PROVE  ColumnRecord(tbl.name, c - 1, tbl.columns[c]) \in ToSet((Columns').recs)
      BY <1>5 DEF DescribedTo
    <3>1. CASE c \in 1 .. tbl.listed
      BY <1>4, <1>11, <3>1 DEF DescribedTo
    <3>2. CASE c = tbl.listed + 1
      <4>1. c - 1 = tbl.listed
        BY <1>4, <3>2
      <4>2. QED
        BY <1>7, <1>13, <3>2, <4>1
    <3>3. QED
      BY <1>4, <1>5, <3>1, <3>2
  <2>3. tbl'.listed <= Len(tbl'.columns)
    <3>1. Len(tbl.columns) \in Nat
      BY <1>4, LayoutsAssumption, LenProperties
    <3>a. tbl.listed < Len(tbl.columns) /\ tbl.listed \in Nat
      BY <1>1, <1>4, Zenon
    <3>2. tbl.listed + 1 <= Len(tbl.columns)
      BY <3>1, <3>a
    <3>3. QED
      BY <1>5, <3>2
  <2>4. tbl'.name \in Listed(Tables)' /\ tbl'.columns \in Layouts
    BY <1>4, <1>5, <1>11
  <2>5. pc' # "list table"
    BY <1>1
  <2>6. QED
    BY <1>5, <2>1, <2>2, <2>3, <2>4, <2>5 DEF CreationKept
<1>18. LoadedKept'
  BY <1>1 DEF LoadedKept
<1>19. QED
  BY <1>1, <1>2, <1>14, <1>15, <1>16, <1>17, <1>18 DEF FoundInv

(* Its creation returns: all its columns are there. *)
LEMMA TableCreatedFound ==
  ASSUME CatalogInv, Synced, CatalogKept, FoundInv, TableCreated
  PROVE  FoundInv'
<1>1. /\ Unmoved /\ metas' = metas /\ magic' = magic /\ pc' = "created"
      /\ pc = "list columns" /\ pc \in Working /\ tbl.listed = Len(tbl.columns)
      /\ created' = IF tbl.new
                      THEN Put(created, tbl.name, [columns |-> tbl.columns, rows |-> {}])
                      ELSE created
  BY SyncTableCreated DEF TableCreated, Working, onFile
<1>2. magic /\ tbl.btree \in DOMAIN metas \ SystemMetas /\ tbl.name \in Names
  BY <1>1, WorkingFacts DEF Loaded
<1>3. CASE ~tbl.new
  <2>1. created' = created
    BY <1>1, <1>3
  <2>2. QED
    BY <1>1, <2>1, QuietFound
<1>4. CASE tbl.new
  <2>1. PICK r : r = [columns |-> tbl.columns, rows |-> {}]
    OBVIOUS
  <2>2. PICK name : name = tbl.name
    OBVIOUS
  <2>3. r \in Creation /\ r.columns = tbl.columns /\ r.rows = {}
    <3>1. tbl.columns \in Layouts
      BY <1>1, <1>2 DEF FoundInv, CreationKept
    <3>2. tbl.columns \in Seq(Column)
      BY <3>1, LayoutsAssumption DEF Column
    <3>3. QED
      BY <2>1, <3>2 DEF Creation
  <2>4. Kept(name, r)
    <3>1. /\ Entered(Tables, tbl.name, Len(tbl.columns), tbl.btree)
          /\ DescribedTo(tbl.name, tbl.columns, tbl.listed)
      BY <1>1, <1>2, <1>4 DEF FoundInv, CreationKept
    <3>2. QED
      BY <1>1, <1>2, <2>2, <2>3, <3>1 DEF Kept
  <2>5. Kept(name, r)'
    BY <1>1, <1>2, <2>4, UnmovedGrows, KeptStays
  <2>6. created' = Put(created, name, r)
    BY <1>1, <1>4, <2>1, <2>2
  <2>7. /\ DOMAIN created' = DOMAIN created \cup {name} /\ created'[name] = r
        /\ \A x \in DOMAIN created : x # name => created'[x] = created[x]
    BY <2>6 DEF Put
  <2>8. ASSUME NEW x \in DOMAIN created', NEW y \in {created'[x]}
        PROVE  x \in Names /\ y \in Creation /\ Kept(x, y)'
    <3>1. CASE x = name
      BY <1>2, <2>2, <2>3, <2>5, <2>7, <2>8, <3>1
    <3>2. CASE x # name
      <4>1. x \in DOMAIN created /\ y \in {created[x]}
        BY <2>7, <2>8, <3>2
      <4>2. x \in Names /\ y \in Creation /\ Kept(x, y)
        BY <1>2, <4>1 DEF FoundInv, CreatedKept
      <4>3. QED
        BY <1>1, <1>2, <4>2, UnmovedGrows, KeptStays
    <3>3. QED
      BY <3>1, <3>2
  <2>9. CreatedKept'
    BY <2>8 DEF CreatedKept, Kept, Entered, DescribedTo
  <2>10. /\ MetaOf["tables"] \in DOMAIN metas /\ MetaOf["columns"] \in DOMAIN metas
    BY <1>2, SystemTrees
  <2>11. Tables' = Tables /\ Columns' = Columns
    BY <1>1, <2>10 DEF Tables, Columns, Unmoved
  <2>12. NamesKept'
    BY <1>1, <1>2, <2>11 DEF FoundInv, NamesKept, Listed, Listing
  <2>13. TreesKept'
    BY <1>1, <1>2 DEF FoundInv, TreesKept, Unmoved, Chain, Keyed, Less
  <2>14. CreationKept' /\ LoadedKept'
    BY <1>1 DEF CreationKept, LoadedKept
  <2>15. QED
    BY <1>1, <1>2, <2>9, <2>12, <2>13, <2>14 DEF FoundInv
<1>5. QED
  BY <1>3, <1>4

(* A table is loaded: it is the one that is listed under its name. *)
LEMMA LoadFound ==
  ASSUME NamesApart, CatalogInv, Synced, CatalogKept, FoundInv,
         NEW name \in Names, mdbLoadTable(name)
  PROVE  FoundInv'
<1>1. /\ Unmoved /\ metas' = metas /\ magic' = magic /\ created' = created
      /\ pc = "idle" /\ db # None
  BY SyncLoad DEF mdbLoadTable, onFile
<1>2. magic /\ \A s \in System : db[s].root = OnFile(s)
  BY <1>1 DEF CatalogInv, Opened, Synced
<1>3. CASE ~Collides(db.tables.root, name)
  <2>1. pc' = "idle"
    BY <1>1, <1>3 DEF mdbLoadTable
  <2>2. QED
    BY <1>1, <2>1, QuietFound
<1>4. CASE Collides(db.tables.root, name)
  <2>1. /\ pc' = "loaded" /\ tbl'.name = name
        /\ tbl'.btree = Found(db.tables.root, name).btree
    BY <1>4 DEF mdbLoadTable
  <2>2. /\ MetaOf["tables"] \in DOMAIN metas /\ MetaOf["columns"] \in DOMAIN metas
        /\ OnFile("tables") = Tables /\ Chain(Tables)
    BY <1>2, SystemTrees
  <2>3. Tables' = Tables /\ Columns' = Columns
    BY <1>1, <2>2 DEF Tables, Columns, Unmoved
  <2>4. db["tables"].root = Tables
    BY <1>2, <2>2, SystemFacts
  <2>5. PICK t : t = Tables
    OBVIOUS
  <2>6. Keyed(t) /\ Listed(t) \subseteq Names \cup {SystemName[s] : s \in System}
    BY <1>2, <2>2, <2>5 DEF Chain, FoundInv, NamesKept
  <2>7. Found(t, name) \in ToSet(t.recs) /\ Found(t, name).key = name
    BY <1>4, <2>4, <2>5, <2>6, FoundUnder
  <2>8. LoadedKept'
    BY <2>1, <2>3, <2>4, <2>5, <2>7 DEF LoadedKept
  <2>9. NamesKept'
    BY <1>2, <2>1, <2>3 DEF FoundInv, NamesKept, Listed, Listing
  <2>10. TreesKept'
    BY <1>1, <1>2 DEF FoundInv, TreesKept, Unmoved, Chain, Keyed, Less
  <2>11. CreatedKept'
    BY <1>1, <1>2, UnmovedGrows, CreatedStays DEF FoundInv
  <2>12. CreationKept'
    BY <2>1 DEF CreationKept
  <2>13. QED
    BY <1>1, <1>2, <2>1, <2>8, <2>9, <2>10, <2>11, <2>12 DEF FoundInv
<1>5. QED
  BY <1>3, <1>4

(* A record is inserted into a table's tree: the one that is listed under the
   name that the program knows. *)
LEMMA InsertRecordFound ==
  ASSUME NamesApart, CatalogInv, Synced, CatalogKept, FoundInv,
         NEW row \in Rows, InsertRecord(row)
  PROVE  FoundInv'
<1>1. PICK b : b = tbl.btree
  OBVIOUS
<1>2. PICK name : name = tbl.name
  OBVIOUS
<1>3. PICK e : e = [key |-> row]
  OBVIOUS
<1>4. Gains(b, e)
  BY <1>1, <1>3, SyncInsertRecord
<1>5. /\ pc = "loaded" /\ pc' = "loaded" /\ pc \in Working /\ ~Collides(RootAt(b), row)
      /\ tbl'.btree = b /\ tbl'.name = name
  BY <1>1, <1>2, SyncInsertRecord DEF Working
<1>6. /\ magic' = magic
      /\ created' = IF name \in DOMAIN created
                      THEN [created EXCEPT ![name].rows = @ \cup {row}] ELSE created
  BY <1>2 DEF InsertRecord
<1>7. magic /\ b \in DOMAIN metas \ SystemMetas
  BY <1>1, <1>5, WorkingFacts
<1>8. /\ NamesKept /\ CreatedKept /\ TreesKept
      /\ \E x \in ToSet(Tables.recs) : x.key = name /\ x.btree = b
  BY <1>1, <1>2, <1>5, <1>7 DEF FoundInv, LoadedKept
<1>9. e.key = row /\ e.key \in Seq(Nat)
  BY <1>3, RowsAssumption, BytesAreNumbers
<1>10. /\ Grows /\ DOMAIN metas' = DOMAIN metas /\ Chain(RootAt(b)')
       /\ e \in ToSet((RootAt(b)').recs)
       /\ \A p \in DOMAIN metas : p # b => RootAt(p)' = RootAt(p)
  <2>1. Chain(RootAt(b)) /\ b \in DOMAIN metas
    BY <1>7, <1>8 DEF TreesKept
  <2>2. QED
    BY <1>4, <1>5, <1>9, <2>1, GainsGrows
<1>11. /\ MetaOf["tables"] \in DOMAIN metas /\ MetaOf["columns"] \in DOMAIN metas
       /\ MetaOf["tables"] \in SystemMetas /\ MetaOf["columns"] \in SystemMetas
       /\ Chain(Tables)
  BY <1>7, SystemTrees
<1>12. Tables' = Tables /\ Columns' = Columns
  BY <1>7, <1>10, <1>11 DEF Tables, Columns
<1>13. NamesKept'
  BY <1>5, <1>8, <1>12 DEF NamesKept, Listed, Listing
<1>14. TreesKept'
  <2>1. ASSUME NEW p \in DOMAIN metas' \ SystemMetas
        PROVE  Chain(RootAt(p)')
    BY <1>8, <1>10, <2>1 DEF TreesKept
  <2>2. QED
    BY <2>1 DEF TreesKept, Chain, Keyed, Less
<1>15. ASSUME NEW x \in DOMAIN created, NEW r \in {created[x]}
       PROVE  /\ x \in Names /\ r \in Creation /\ Kept(x, r)'
              /\ x = name => Kept(x, [r EXCEPT !.rows = @ \cup {row}])'
                             /\ [r EXCEPT !.rows = @ \cup {row}] \in Creation
  <2>1. x \in Names /\ r \in Creation /\ Kept(x, r)
    BY <1>8, <1>15 DEF CreatedKept
  <2>2. Kept(x, r)'
    BY <1>7, <1>10, <2>1, KeptStays
  <2>3. ASSUME x = name
        PROVE  /\ Kept(x, [r EXCEPT !.rows = @ \cup {row}])'
               /\ [r EXCEPT !.rows = @ \cup {row}] \in Creation
    <3> DEFINE more == [r EXCEPT !.rows = @ \cup {row}]
    <3>1. more \in Creation /\ more.columns = r.columns /\ more.rows = r.rows \cup {row}
      BY <2>1 DEF Creation
    <3> HIDE DEF more
    <3>2. PICK q \in DOMAIN metas \ SystemMetas :
            /\ Entered(Tables, x, Len(r.columns), q)
            /\ DescribedTo(x, r.columns, Len(r.columns))
            /\ \A y \in r.rows : [key |-> y] \in ToSet(RootAt(q).recs)
      BY <2>1 DEF Kept
    <3>3. q = b
      <4>1. PICK f \in ToSet(Tables.recs) : f.key = x /\ f.btree = q
        BY <3>2 DEF Entered
      <4>2. PICK g \in ToSet(Tables.recs) : g.key = name /\ g.btree = b
        BY <1>8
      <4>3. PICK t : t = Tables
        OBVIOUS
      <4>4. f = g
        BY <1>11, <2>3, <4>1, <4>2, <4>3, ListedOnce
      <4>5. QED
        BY <4>1, <4>2, <4>4
    <3>4. /\ Entered(Tables, x, Len(r.columns), b)'
          /\ DescribedTo(x, r.columns, Len(r.columns))'
      BY <1>12, <3>2, <3>3 DEF Entered, DescribedTo
    <3>5. ToSet(RootAt(b).recs) \subseteq ToSet((RootAt(b)').recs)
      BY <1>7, <1>10 DEF Grows
    <3>6. \A y \in r.rows \cup {row} : [key |-> y] \in ToSet((RootAt(b)').recs)
      BY <1>3, <1>10, <3>2, <3>3, <3>5
    <3>7. Kept(x, more)'
      BY <1>7, <1>10, <3>1, <3>4, <3>6 DEF Kept
    <3>8. QED
      BY <3>1, <3>7 DEF more
  <2>4. QED
    BY <2>1, <2>2, <2>3
<1>16. CreatedKept'
  <2>1. ASSUME NEW x \in DOMAIN created', NEW y \in {created'[x]}
        PROVE  x \in Names /\ y \in Creation /\ Kept(x, y)'
    <3>1. CASE name \notin DOMAIN created
      <4>1. created' = created
        BY <1>6, <3>1
      <4>2. QED
        BY <1>15, <2>1, <4>1
    <3>2. CASE name \in DOMAIN created
      <4>1. created' = [created EXCEPT ![name].rows = @ \cup {row}]
        BY <1>6, <3>2
      <4>2. PICK r : r = created[x]
        OBVIOUS
      <4>3. x \in DOMAIN created /\ r \in {created[x]}
        BY <2>1, <4>1, <4>2
      <4>4. y = IF x = name THEN [r EXCEPT !.rows = @ \cup {row}] ELSE r
        BY <2>1, <4>1, <4>2, <4>3
      <4>5. CASE x = name
        BY <1>15, <4>3, <4>4, <4>5
      <4>6. CASE x # name
        BY <1>15, <4>3, <4>4, <4>6
      <4>7. QED
        BY <4>5, <4>6
    <3>3. QED
      BY <3>1, <3>2
  <2>2. QED
    BY <2>1 DEF CreatedKept, Kept, Entered, DescribedTo
<1>17. CreationKept' /\ LoadedKept'
  BY <1>5, <1>8, <1>12 DEF CreationKept, LoadedKept
<1>18. QED
  BY <1>5, <1>6, <1>7, <1>13, <1>14, <1>16, <1>17 DEF FoundInv

(* A new database has only its system tables. *)
LEMMA CreateDatabaseFound ==
  ASSUME CatalogInv, FoundInv, mdbCreateDatabase
  PROVE  FoundInv'
<1>1. /\ magic' = TRUE /\ pc' = "idle" /\ created' = created /\ DOMAIN metas' = SystemMetas
      /\ \A s \in System : OnFile(s)' = db[s].root
  BY SyncCreateDatabase
<1>2. /\ pc = "create database" /\ ~magic
  BY DEF mdbCreateDatabase, CatalogInv, Starting
<1>3. /\ DOMAIN created = {}
      /\ db["tables"].root = SystemRows /\ db["columns"].root = SystemColumns
  BY <1>2 DEF FoundInv
<1>4. Tables' = SystemRows /\ Columns' = SystemColumns
  <2>1. (OnFile("tables"))' = SystemRows /\ (OnFile("columns"))' = SystemColumns
    BY <1>1, <1>3, SystemFacts
  <2>2. QED
    BY <2>1 DEF OnFile, RootAt, Tables, Columns
<1>5. NamesKept'
  <2>1. Listed(SystemRows) = {SystemName[s] : s \in System}
    <3>1. ToSet(SystemRows.recs) = {SystemRow(s) : s \in System}
      BY SystemRowsThere
    <3>2. \A s : SystemRow(s).key = SystemName[s]
      BY DEF SystemRow, TableRecord
    <3>3. Listed(SystemRows) = {e.key : e \in ToSet(SystemRows.recs)}
      BY DEF Listed
    <3> HIDE DEF SystemRows
    <3>4. QED
      BY <3>1, <3>2, <3>3
  <2>2. Listed(Tables)' = {SystemName[s] : s \in System}
    BY <1>4, <2>1 DEF Listed
  <2>3. ASSUME NEW e \in ToSet((Columns').recs)
        PROVE  \E k \in Listed(Tables)', i \in Nat :
                 e.key = Id(k, i) /\ (Listing(k)' => i < tbl'.listed)
    <3>1. PICK s \in System, c \in Nat : e.key = Id(SystemName[s], c)
      BY <1>4, <2>3, SystemColumnsThere
    <3>2. \A k : ~Listing(k)'
      BY <1>1 DEF Listing
    <3>3. QED
      BY <2>2, <3>1, <3>2
  <2>4. QED
    BY <2>2, <2>3 DEF NamesKept
<1>6. TreesKept' /\ CreatedKept'
  BY <1>1, <1>3 DEF TreesKept, CreatedKept
<1>7. CreationKept' /\ LoadedKept'
  BY <1>1 DEF CreationKept, LoadedKept
<1>8. QED
  BY <1>1, <1>5, <1>6, <1>7 DEF FoundInv

(* Every step keeps what was created. *)
LEMMA FoundNext ==
  ASSUME NamesApart, CatalogInv, Synced, CatalogKept, FoundInv, [Next]_vars
  PROVE  FoundInv'
<1>1. CASE mdbCreateSystemTables
  <2>1. /\ magic' = FALSE /\ pc' = "create database" /\ created' = <<>>
        /\ db'["tables"].root = SystemRows /\ db'["columns"].root = SystemColumns
    BY <1>1, SyncCreateSystemTables
  <2>2. DOMAIN <<>> = {}
    OBVIOUS
  <2>3. QED
    BY <2>1, <2>2 DEF FoundInv, Working
<1>2. CASE mdbCreateDatabase
  BY <1>2, CreateDatabaseFound
<1>3. CASE mdbOpenDatabase
  <2>1. Unmoved /\ magic' = magic /\ metas' = metas /\ created' = created /\ pc' = "idle"
    BY <1>3, SyncOpen DEF mdbOpenDatabase, onFile
  <2>2. QED
    BY <2>1, QuietFound
<1>4. CASE mdbCloseDatabase
  <2>1. Unmoved /\ metas' = metas /\ created' = created /\ pc' = "idle" /\ magic'
    BY <1>4, SyncClose DEF mdbCloseDatabase
  <2>2. magic' = magic
    BY <1>4, <2>1 DEF mdbCloseDatabase, CatalogInv, Opened
  <2>3. QED
    BY <2>1, <2>2, QuietFound
<1>5. CASE Kill
  <2>1. Unmoved /\ magic' = magic /\ metas' = metas /\ created' = created /\ pc' = "idle"
    BY <1>5, SyncKill DEF Kill, onFile
  <2>2. QED
    BY <2>1, QuietFound
<1>6. CASE \E name \in Names, columns \in Layouts : mdbCreateTable(name, columns)
  BY <1>6, CreateTableFound
<1>7. CASE ListTable
  BY <1>7, ListTableFound
<1>8. CASE ListColumn
  BY <1>8, ListColumnFound
<1>9. CASE TableCreated
  BY <1>9, TableCreatedFound
<1>10. CASE \E name \in Names : mdbLoadTable(name)
  BY <1>10, LoadFound
<1>11. CASE \E row \in Rows : InsertRecord(row)
  BY <1>11, InsertRecordFound
<1>12. CASE Reset
  <2>1. Unmoved /\ magic' = magic /\ metas' = metas /\ created' = created /\ pc' = "idle"
    BY <1>12, SyncReset DEF Reset
  <2>2. QED
    BY <2>1, QuietFound
<1>13. CASE UNCHANGED vars
  <2>1. UNCHANGED onFile /\ pc' = pc /\ db' = db /\ tbl' = tbl /\ created' = created
    BY <1>13 DEF vars
  <2>2. metas' = metas /\ nodes' = nodes /\ magic' = magic
    BY <2>1 DEF onFile
  <2>3. Tables' = Tables /\ Columns' = Columns /\ \A p : RootAt(p)' = RootAt(p)
    BY <2>2 DEF Tables, Columns, RootAt
  <2>4. NamesKept => NamesKept'
    BY <2>1, <2>3 DEF NamesKept, Listed, Listing
  <2>5. CreatedKept => CreatedKept'
    BY <2>1, <2>2, <2>3 DEF CreatedKept, Kept, Entered, DescribedTo
  <2>6. TreesKept => TreesKept'
    BY <2>2, <2>3 DEF TreesKept, Chain, Keyed, Less
  <2>7. CreationKept /\ LoadedKept => CreationKept' /\ LoadedKept'
    BY <2>1, <2>3 DEF CreationKept, LoadedKept, Listed, Entered, DescribedTo
  <2>8. QED
    BY <2>1, <2>2, <2>4, <2>5, <2>6, <2>7 DEF FoundInv
<1>14. QED
  BY <1>1, <1>2, <1>3, <1>4, <1>5, <1>6, <1>7, <1>8, <1>9, <1>10, <1>11, <1>12, <1>13
     DEF Next

(* What is kept is found. *)
LEMMA KeptIsFound ==
  ASSUME CatalogInv, CatalogKept, FoundInv
  PROVE  CreatedIsFound
<1> SUFFICES ASSUME NEW name \in DOMAIN created
             PROVE  /\ Collides(OnFile("tables"), name)
                    /\ LET record == Found(OnFile("tables"), name)
                           root   == nodes[metas[record.btree].root_position].node
                       IN  /\ record.key = name
                           /\ LoadedColumns(OnFile("columns"), record) = created[name].columns
                           /\ \A row \in created[name].rows : Collides(root, row)
  BY DEF CreatedIsFound
<1>1. magic
  BY DEF FoundInv
<1>2. PICK r : r = created[name]
  OBVIOUS
<1>3. r \in Creation /\ Kept(name, r) /\ TreesKept
  BY <1>1, <1>2 DEF FoundInv, CreatedKept
<1>4. PICK b \in DOMAIN metas \ SystemMetas :
        /\ Entered(Tables, name, Len(r.columns), b)
        /\ DescribedTo(name, r.columns, Len(r.columns))
        /\ \A row \in r.rows : [key |-> row] \in ToSet(RootAt(b).recs)
  BY <1>3 DEF Kept
<1>5. PICK e \in ToSet(Tables.recs) : e.key = name /\ e.columns = Len(r.columns) /\ e.btree = b
  BY <1>4 DEF Entered
<1>6. PICK t : t = OnFile("tables")
  OBVIOUS
<1>7. PICK c : c = OnFile("columns")
  OBVIOUS
<1>8. t = Tables /\ c = Columns /\ Chain(t) /\ Chain(c)
  BY <1>1, <1>6, <1>7, SystemTrees
<1>9. Collides(t, name) /\ Found(t, name) = e
  BY <1>5, <1>8, FoundItself
<1>10. LoadedColumns(c, e) = r.columns
  <2>1. r.columns \in Seq(Column)
    BY <1>3 DEF Creation
  <2>2. \A i \in 1 .. Len(r.columns) :
          ColumnRecord(e.key, i - 1, r.columns[i]) \in ToSet(c.recs)
    BY <1>4, <1>5, <1>8 DEF DescribedTo
  <2>3. QED
    BY <1>5, <1>8, <2>1, <2>2, ColumnsLoaded
<1>11. PICK n : n = RootAt(b)
  OBVIOUS
<1>12. \A row \in r.rows : Collides(n, row)
  <2>1. Chain(n)
    BY <1>3, <1>11 DEF TreesKept
  <2>2. ASSUME NEW row \in r.rows
        PROVE  Collides(n, row)
    <3>1. PICK f : f = [key |-> row]
      OBVIOUS
    <3>2. f \in ToSet(n.recs) /\ f.key = row
      BY <1>4, <1>11, <3>1
    <3>3. QED
      BY <2>1, <3>2, FoundItself
  <2>3. QED
    BY <2>2
<1>13. nodes[metas[e.btree].root_position].node = n
  BY <1>5, <1>11 DEF RootAt
<1>14. QED
  BY <1>2, <1>5, <1>6, <1>7, <1>9, <1>10, <1>12, <1>13

(* If no name of the program compares as equal to another and none has a NUL, a
   table whose creation has returned is found in the file under its name, with
   the columns it was created with and the records whose insertion has returned,
   whatever was created, closed, opened or killed since: for any number of
   tables of any layouts, the trees being leaves as they are in Catalog. *)
THEOREM CreatedStaysFound == Spec /\ NamesApart => []CreatedIsFound
<1> DEFINE Inv == Synced /\ CatalogKept /\ FoundInv
<1>1. CASE NamesApart
  <2>1. Init => Inv
    <3>1. DOMAIN <<>> = {}
      OBVIOUS
    <3>2. QED
      BY <3>1 DEF Init, Synced, CatalogKept, FoundInv, Working
  <2>2. CatalogInv /\ Inv /\ [Next]_vars => Inv'
    BY <1>1, KeptNext, FoundNext
  <2>3. CatalogInv /\ Inv => CreatedIsFound
    BY KeptIsFound
  <2>4. QED
    BY <2>1, <2>2, <2>3, CatalogInvariant, PTL DEF Spec
<1>2. CASE ~NamesApart
  BY <1>2
<1>3. QED
  BY <1>1, <1>2
=============================================================================

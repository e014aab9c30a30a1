----------------------------- MODULE BtreeProofs -----------------------------
(***************************************************************************)
(* The shape of the B-tree, for every order, key type, record set and file *)
(* length: no node over- or underflows, all leaves are equally deep, no    *)
(* page has two parents, none that was deleted is ever reached.            *)
(*                                                                         *)
(* Tree says this of the pages alone.  One lemma per way to change pages   *)
(* shows that it preserves Tree; one step per action then shows that the   *)
(* action is one of these ways and leaves the call in order.               *)
(***************************************************************************)
EXTENDS Btree, ListProofs

-----------------------------------------------------------------------------
(* The nodes. *)

(* The parts of a node. *)
LEMMA NodeParts ==
  ASSUME NEW n \in Node
  PROVE  /\ n.leaf \in BOOLEAN /\ n.recs \in Seq(Record) /\ n.kids \in Seq(Page)
         /\ Count(n) \in Nat /\ Len(n.kids) \in Nat
         /\ DOMAIN n.kids = 1 .. Len(n.kids)
BY LenProperties DEF Node, Count

(* A node that is not full has room for a record. *)
LEMMA NodeRoom ==
  ASSUME NEW n \in Node, WellFormed(n), ~Full(n)
  PROVE  /\ Count(n) \in Nat /\ Count(n) < 2 * Order - 1 /\ Order \in Nat
         /\ ~n.leaf => Len(n.kids) = Count(n) + 1
BY OrderAssumption, NodeParts DEF WellFormed, Full, MaxCount

(* Half a node is less than a node. *)
LEMMA HalfNotFull ==
  ASSUME NEW n, Count(n) = Order - 1
  PROVE  ~Full(n)
BY OrderAssumption DEF Full, MaxCount

(* A split leaves two well-formed nodes of T - 1 records. *)
LEMMA LeftHalfNode ==
  ASSUME NEW n \in Node, WellFormed(n), Full(n)
  PROVE  /\ LeftHalf(n) \in Node
         /\ WellFormed(LeftHalf(n))
         /\ LeftHalf(n).leaf = n.leaf
         /\ Count(LeftHalf(n)) = Order - 1
         /\ Len(LeftHalf(n).kids) = IF n.leaf THEN 0 ELSE Order
         /\ \A i \in 1 .. Len(LeftHalf(n).kids) :
              LeftHalf(n).kids[i] = n.kids[i]
<1> DEFINE recs == SubSeq(n.recs, 1, Order - 1)
           kids == SubSeq(n.kids, 1, Order)
<1>1. Order \in Nat /\ Order >= 2 /\ Len(n.recs) = 2 * Order - 1
  BY OrderAssumption DEF Full, Count, MaxCount
<1>2. recs \in Seq(Record) /\ Len(recs) = Order - 1
  <2>1. 1 \in 1 .. Len(n.recs) + 1 /\ Order - 1 \in 1 - 1 .. Len(n.recs)
    BY <1>1
  <2>2. Len(recs) = Order - 1 - 1 + 1 /\ recs \in Seq(Record)
    BY <2>1, NodeParts, SubSeqSeq
  <2>3. QED
    BY <1>1, <2>2
<1>3. ASSUME ~n.leaf
      PROVE  /\ kids \in Seq(Page) /\ Len(kids) = Order
             /\ \A i \in 1 .. Order : kids[i] = n.kids[i]
  <2>1. Len(n.kids) = 2 * Order
    BY <1>1, <1>3 DEF WellFormed, Count
  <2>2. 1 \in 1 .. Len(n.kids) + 1 /\ Order \in 1 - 1 .. Len(n.kids)
    BY <1>1, <2>1
  <2>3. /\ kids \in Seq(Page) /\ Len(kids) = Order - 1 + 1
        /\ \A i \in 1 .. Order - 1 + 1 : kids[i] = n.kids[1 + i - 1]
    BY <2>2, NodeParts, SubSeqSeq
  <2> HIDE DEF kids
  <2>4. QED
    BY <1>1, <2>3
<1> HIDE DEF recs, kids
<1>4. LeftHalf(n) = [leaf |-> n.leaf, recs |-> recs,
                     kids |-> IF n.leaf THEN <<>> ELSE kids]
  BY DEF LeftHalf, Holding, recs, kids
<1>5. CASE n.leaf
  BY <1>1, <1>2, <1>4, <1>5, NodeParts
  DEF Node, Count, WellFormed, MaxCount
<1>6. CASE ~n.leaf
  BY <1>1, <1>2, <1>3, <1>4, <1>6, NodeParts
  DEF Node, Count, WellFormed, MaxCount
<1>7. QED
  BY <1>5, <1>6

(* The right half of a full node is a node of T - 1 records. *)
LEMMA RightHalfNode ==
  ASSUME NEW n \in Node, WellFormed(n), Full(n)
  PROVE  /\ RightHalf(n) \in Node
         /\ WellFormed(RightHalf(n))
         /\ RightHalf(n).leaf = n.leaf
         /\ Count(RightHalf(n)) = Order - 1
         /\ Len(RightHalf(n).kids) = IF n.leaf THEN 0 ELSE Order
         /\ \A i \in 1 .. Len(RightHalf(n).kids) :
              RightHalf(n).kids[i] = n.kids[Order + i]
<1> DEFINE recs == SubSeq(n.recs, Order + 1, MaxCount)
           kids == SubSeq(n.kids, Order + 1, 2 * Order)
<1>1. /\ Order \in Nat /\ Order >= 2 /\ Len(n.recs) = 2 * Order - 1
      /\ MaxCount = 2 * Order - 1
  BY OrderAssumption DEF Full, Count, MaxCount
<1>2. recs \in Seq(Record) /\ Len(recs) = Order - 1
  <2>1. /\ Order + 1 \in 1 .. Len(n.recs) + 1
        /\ MaxCount \in (Order + 1) - 1 .. Len(n.recs)
    BY <1>1
  <2>2. Len(recs) = MaxCount - (Order + 1) + 1 /\ recs \in Seq(Record)
    BY <2>1, NodeParts, SubSeqSeq
  <2>3. QED
    BY <1>1, <2>2
<1>3. ASSUME ~n.leaf
      PROVE  /\ kids \in Seq(Page) /\ Len(kids) = Order
             /\ \A i \in 1 .. Order : kids[i] = n.kids[Order + i]
  <2>1. Len(n.kids) = 2 * Order
    BY <1>1, <1>3 DEF WellFormed, Count
  <2>2. /\ Order + 1 \in 1 .. Len(n.kids) + 1
        /\ 2 * Order \in (Order + 1) - 1 .. Len(n.kids)
    BY <1>1, <2>1
  <2>3. /\ kids \in Seq(Page) /\ Len(kids) = 2 * Order - (Order + 1) + 1
        /\ \A i \in 1 .. 2 * Order - (Order + 1) + 1 :
             kids[i] = n.kids[Order + 1 + i - 1]
    BY ZenonT(60), <2>2, NodeParts, SubSeqSeq
  <2> HIDE DEF kids
  <2>4. /\ 2 * Order - (Order + 1) + 1 = Order
        /\ \A i \in 1 .. Order : Order + 1 + i - 1 = Order + i
    BY <1>1
  <2>5. QED
    BY <2>3, <2>4
<1> HIDE DEF recs, kids
<1>4. RightHalf(n) = [leaf |-> n.leaf, recs |-> recs,
                      kids |-> IF n.leaf THEN <<>> ELSE kids]
  BY DEF RightHalf, Holding, recs, kids
<1>5. CASE n.leaf
  BY <1>1, <1>2, <1>4, <1>5, NodeParts
  DEF Node, Count, WellFormed, MaxCount
<1>6. CASE ~n.leaf
  BY SMTT(60), <1>1, <1>2, <1>3, <1>4, <1>6, NodeParts
  DEF Node, Count, WellFormed, MaxCount
<1>7. QED
  BY <1>5, <1>6

(* The record between the halves is a record. *)
LEMMA MedianRecord ==
  ASSUME NEW n \in Node, Full(n)
  PROVE  Median(n) \in Record
<1>1. Order \in 1 .. Len(n.recs)
  BY OrderAssumption DEF Full, Count, MaxCount
<1>2. QED
  BY <1>1, NodeParts, ElementOfSeq DEF Median

(* The parent of the two halves. *)
LEMMA AdoptNode ==
  ASSUME NEW n \in Node, WellFormed(n), ~n.leaf, ~Full(n),
         NEW i \in 1 .. Count(n) + 1, NEW r \in Record, NEW right \in Page
  PROVE  /\ Adopt(n, i, r, right) \in Node
         /\ WellFormed(Adopt(n, i, r, right))
         /\ Adopt(n, i, r, right).leaf = n.leaf
         /\ Count(Adopt(n, i, r, right)) = Count(n) + 1
         /\ Len(Adopt(n, i, r, right).kids) = Len(n.kids) + 1
         /\ \A j \in 1 .. Len(n.kids) + 1 :
              Adopt(n, i, r, right).kids[j] =
                IF j < i + 1 THEN n.kids[j]
                ELSE IF j = i + 1 THEN right ELSE n.kids[j - 1]
<1> DEFINE recs == InsertAt(n.recs, i, r)
           kids == InsertAt(n.kids, i + 1, right)
<1>1. /\ Len(n.kids) = Count(n) + 1 /\ Count(n) \in Nat
      /\ Count(n) < 2 * Order - 1 /\ Order \in Nat
  BY OrderAssumption, NodeParts DEF WellFormed, Full, MaxCount
<1>2. recs \in Seq(Record) /\ Len(recs) = Count(n) + 1
  BY NodeParts, InsertAtSeq DEF Count
<1>3. /\ kids \in Seq(Page) /\ Len(kids) = Len(n.kids) + 1
      /\ \A j \in 1 .. Len(n.kids) + 1 :
           kids[j] = IF j < i + 1 THEN n.kids[j]
                     ELSE IF j = i + 1 THEN right ELSE n.kids[j - 1]
  <2> DEFINE k == i + 1
  <2>1. k \in 1 .. Len(n.kids) + 1
    BY <1>1
  <2> HIDE DEF k
  <2>2. /\ InsertAt(n.kids, k, right) \in Seq(Page)
        /\ Len(InsertAt(n.kids, k, right)) = Len(n.kids) + 1
        /\ \A j \in 1 .. Len(n.kids) + 1 :
             InsertAt(n.kids, k, right)[j] =
               IF j < k THEN n.kids[j]
               ELSE IF j = k THEN right ELSE n.kids[j - 1]
    BY SMTT(60), <2>1, NodeParts, InsertAtSeq
  <2>3. QED
    BY <2>2 DEF k
<1> HIDE DEF recs, kids
<1>4. Adopt(n, i, r, right) = [leaf |-> n.leaf, recs |-> recs, kids |-> kids]
  BY DEF Adopt, Holding, recs, kids
<1>5. QED
  BY <1>1, <1>2, <1>3, <1>4, NodeParts DEF Node, Count, WellFormed, MaxCount

(* A new root has one record and two children. *)
LEMMA NewRootNode ==
  ASSUME NEW r \in Record, NEW left \in Page, NEW right \in Page
  PROVE  /\ NewRoot(r, left, right) \in Node
         /\ WellFormed(NewRoot(r, left, right))
         /\ NewRoot(r, left, right).leaf = FALSE
         /\ Count(NewRoot(r, left, right)) = 1
         /\ Len(NewRoot(r, left, right).kids) = 2
         /\ NewRoot(r, left, right).kids[1] = left
         /\ NewRoot(r, left, right).kids[2] = right
BY OrderAssumption DEF NewRoot, Node, WellFormed, Count, MaxCount

(* A record more or less, or another one, leaves the children alone. *)
LEMMA WithRecordNode ==
  ASSUME NEW n \in Node, WellFormed(n), n.leaf, ~Full(n),
         NEW i \in 1 .. Count(n) + 1, NEW r \in Record
  PROVE  /\ WithRecord(n, i, r) \in Node
         /\ WellFormed(WithRecord(n, i, r))
         /\ WithRecord(n, i, r).leaf = n.leaf
         /\ WithRecord(n, i, r).kids = n.kids
         /\ Count(WithRecord(n, i, r)) = Count(n) + 1
<1> DEFINE recs == InsertAt(n.recs, i, r)
<1>1. /\ Count(n) \in Nat /\ Count(n) < 2 * Order - 1 /\ Order \in Nat
      /\ Len(n.kids) = 0
  BY OrderAssumption, NodeParts DEF WellFormed, Full, MaxCount
<1>2. recs \in Seq(Record) /\ Len(recs) = Count(n) + 1
  BY NodeParts, InsertAtSeq DEF Count
<1> HIDE DEF recs
<1>3. WithRecord(n, i, r) = [leaf |-> n.leaf, recs |-> recs, kids |-> n.kids]
  BY DEF WithRecord, Holding, recs
<1>4. QED
  BY <1>1, <1>2, <1>3, NodeParts DEF Node, Count, WellFormed, MaxCount

(* A leaf without one of its records. *)
LEMMA WithoutRecordNode ==
  ASSUME NEW n \in Node, WellFormed(n), n.leaf, NEW i \in 1 .. Count(n)
  PROVE  /\ WithoutRecord(n, i) \in Node
         /\ WellFormed(WithoutRecord(n, i))
         /\ WithoutRecord(n, i).leaf = n.leaf
         /\ WithoutRecord(n, i).kids = n.kids
         /\ Count(WithoutRecord(n, i)) = Count(n) - 1
<1> DEFINE recs == RemoveAt(n.recs, i)
<1>1. /\ Count(n) \in Nat /\ Count(n) <= 2 * Order - 1 /\ Order \in Nat
      /\ Len(n.kids) = 0
  BY OrderAssumption, NodeParts DEF WellFormed, MaxCount
<1>2. recs \in Seq(Record) /\ Len(recs) = Count(n) - 1
  BY NodeParts, RemoveAtSeq DEF Count
<1> HIDE DEF recs
<1>3. WithoutRecord(n, i) = [leaf |-> n.leaf, recs |-> recs, kids |-> n.kids]
  BY DEF WithoutRecord, Holding, recs
<1>4. QED
  BY <1>1, <1>2, <1>3, NodeParts DEF Node, Count, WellFormed, MaxCount

(* A node in which one record is replaced. *)
LEMMA ReplaceNode ==
  ASSUME NEW n \in Node, WellFormed(n), NEW i \in 1 .. Count(n),
         NEW r \in Record
  PROVE  /\ Replace(n, i, r) \in Node
         /\ WellFormed(Replace(n, i, r))
         /\ Replace(n, i, r).leaf = n.leaf
         /\ Replace(n, i, r).kids = n.kids
         /\ Count(Replace(n, i, r)) = Count(n)
<1> DEFINE recs == [n.recs EXCEPT ![i] = r]
<1>1. recs \in Seq(Record) /\ Len(recs) = Count(n)
  BY NodeParts, ExceptSeq DEF Count
<1> HIDE DEF recs
<1>2. Replace(n, i, r) = [leaf |-> n.leaf, recs |-> recs, kids |-> n.kids]
  BY DEF Replace, Holding, recs
<1>3. QED
  BY <1>1, <1>2, NodeParts DEF Node, Count, WellFormed, MaxCount

(* Two small siblings and the record between them fill one node. *)
LEMMA MergedNode ==
  ASSUME NEW a \in Node, WellFormed(a), Count(a) = Order - 1,
         NEW b \in Node, WellFormed(b), Count(b) = Order - 1,
         a.leaf = b.leaf, NEW r \in Record
  PROVE  /\ Merged(a, r, b) \in Node
         /\ WellFormed(Merged(a, r, b))
         /\ Merged(a, r, b).leaf = a.leaf
         /\ Count(Merged(a, r, b)) = MaxCount
         /\ Len(Merged(a, r, b).kids) = Len(a.kids) + Len(b.kids)
         /\ \A j \in 1 .. Len(a.kids) + Len(b.kids) :
              Merged(a, r, b).kids[j] =
                IF j <= Len(a.kids) THEN a.kids[j]
                                    ELSE b.kids[j - Len(a.kids)]
<1> DEFINE front == Append(a.recs, r)
           recs == front \o b.recs
           kids == a.kids \o b.kids
<1>1. /\ Order \in Nat /\ Order >= 2 /\ MaxCount = 2 * Order - 1
      /\ Len(a.kids) = IF a.leaf THEN 0 ELSE Order
      /\ Len(b.kids) = IF a.leaf THEN 0 ELSE Order
  BY OrderAssumption DEF WellFormed, MaxCount
<1>2. front \in Seq(Record) /\ Len(front) = Order
  BY <1>1, NodeParts, AppendProperties DEF Count
<1>3. recs \in Seq(Record) /\ Len(recs) = MaxCount
  <2> HIDE DEF front
  <2>1. recs \in Seq(Record) /\ Len(recs) = Len(front) + Len(b.recs)
    BY <1>2, NodeParts, ConcatProperties
  <2> HIDE DEF recs
  <2>2. QED
    BY <1>1, <1>2, <2>1 DEF Count
<1>4. /\ kids \in Seq(Page) /\ Len(kids) = Len(a.kids) + Len(b.kids)
      /\ \A j \in 1 .. Len(a.kids) + Len(b.kids) :
           kids[j] = IF j <= Len(a.kids) THEN a.kids[j]
                                         ELSE b.kids[j - Len(a.kids)]
  BY NodeParts, ConcatProperties
<1>5. Merged(a, r, b) = [leaf |-> a.leaf, recs |-> recs, kids |-> kids]
  BY DEF Merged, Holding
<1> HIDE DEF recs, kids
<1>6. QED
  BY <1>1, <1>3, <1>4, <1>5, NodeParts DEF Node, Count, WellFormed

(* Their parent loses the record and the right one of them. *)
LEMMA DropNode ==
  ASSUME NEW n \in Node, WellFormed(n), ~n.leaf, NEW i \in 1 .. Count(n)
  PROVE  /\ Drop(n, i) \in Node
         /\ WellFormed(Drop(n, i))
         /\ Drop(n, i).leaf = n.leaf
         /\ Count(Drop(n, i)) = Count(n) - 1
         /\ Len(Drop(n, i).kids) = Len(n.kids) - 1
         /\ \A j \in 1 .. Len(n.kids) - 1 :
              Drop(n, i).kids[j] = IF j < i + 1 THEN n.kids[j]
                                                ELSE n.kids[j + 1]
<1> DEFINE recs == RemoveAt(n.recs, i)
           kids == RemoveAt(n.kids, i + 1)
<1>1. /\ Len(n.kids) = Count(n) + 1 /\ Count(n) \in Nat
      /\ Count(n) <= 2 * Order - 1 /\ Order \in Nat
  BY OrderAssumption, NodeParts DEF WellFormed, MaxCount
<1>2. recs \in Seq(Record) /\ Len(recs) = Count(n) - 1
  BY NodeParts, RemoveAtSeq DEF Count
<1>3. /\ kids \in Seq(Page) /\ Len(kids) = Len(n.kids) - 1
      /\ \A j \in 1 .. Len(n.kids) - 1 :
           kids[j] = IF j < i + 1 THEN n.kids[j] ELSE n.kids[j + 1]
  <2> DEFINE k == i + 1
  <2>1. k \in 1 .. Len(n.kids)
    BY <1>1
  <2> HIDE DEF k
  <2>2. /\ RemoveAt(n.kids, k) \in Seq(Page)
        /\ Len(RemoveAt(n.kids, k)) = Len(n.kids) - 1
        /\ \A j \in 1 .. Len(n.kids) - 1 :
             RemoveAt(n.kids, k)[j] =
               IF j < k THEN n.kids[j] ELSE n.kids[j + 1]
    BY <2>1, NodeParts, RemoveAtSeq
  <2>3. QED
    BY <2>2 DEF k
<1>4. Drop(n, i) = [leaf |-> n.leaf, recs |-> recs, kids |-> kids]
  BY DEF Drop, Holding
<1> HIDE DEF recs, kids
<1>5. QED
  BY <1>1, <1>2, <1>3, <1>4, NodeParts DEF Node, Count, WellFormed, MaxCount

-----------------------------------------------------------------------------
(* The rotations. *)

(* The first and the last record of a node that has any. *)
LEMMA EndRecords ==
  ASSUME NEW n \in Node, Count(n) > 0
  PROVE  LastRecord(n) \in Record /\ FirstRecord(n) \in Record
<1>1. n.recs \in Seq(Record) /\ Len(n.recs) > 0
  BY NodeParts DEF Count
<1>2. Len(n.recs) \in Nat /\ n.recs # <<>>
  BY <1>1, LenProperties
<1>3. QED
  BY <1>1, <1>2, FrontSeq, HeadTailProperties DEF LastRecord, FirstRecord

(* A node that gets a record, and a child, in front, *)
LEMMA GainFirstNode ==
  ASSUME NEW n \in Node, WellFormed(n), ~Full(n), NEW r \in Record,
         NEW from \in Node, WellFormed(from), from.leaf = n.leaf
  PROVE  /\ GainFirst(n, r, from) \in Node
         /\ WellFormed(GainFirst(n, r, from))
         /\ GainFirst(n, r, from).leaf = n.leaf
         /\ Count(GainFirst(n, r, from)) = Count(n) + 1
         /\ Len(GainFirst(n, r, from).kids) =
              IF n.leaf THEN 0 ELSE Len(n.kids) + 1
         /\ \A j \in 1 .. Len(GainFirst(n, r, from).kids) :
              GainFirst(n, r, from).kids[j] =
                IF j = 1 THEN from.kids[Len(from.kids)] ELSE n.kids[j - 1]
<1> DEFINE recs == <<r>> \o n.recs
           last == Last(from.kids)
           kids == <<last>> \o n.kids
<1>1. /\ Count(n) \in Nat /\ Count(n) < 2 * Order - 1 /\ Order \in Nat
      /\ ~n.leaf => Len(n.kids) = Count(n) + 1
  BY NodeRoom
<1>2. recs \in Seq(Record) /\ Len(recs) = Count(n) + 1
  BY NodeParts, ConsSeq DEF Count
<1>3. ASSUME ~n.leaf
      PROVE  last \in Page /\ last = from.kids[Len(from.kids)]
  <2>1. Len(from.kids) > 0 /\ from.kids \in Seq(Page)
    BY <1>3, NodeParts DEF WellFormed
  <2>2. QED
    BY <2>1, FrontSeq
<1> HIDE DEF last
<1>4. ASSUME ~n.leaf
      PROVE  /\ kids \in Seq(Page) /\ Len(kids) = Len(n.kids) + 1
             /\ \A j \in 1 .. Len(n.kids) + 1 :
                  kids[j] = IF j = 1 THEN last ELSE n.kids[j - 1]
  BY <1>3, <1>4, NodeParts, ConsSeq
<1>5. GainFirst(n, r, from) = [leaf |-> n.leaf, recs |-> recs,
                               kids |-> IF n.leaf THEN <<>> ELSE kids]
  BY DEF GainFirst, Holding, last
<1> HIDE DEF recs, kids
<1>6. CASE n.leaf
  BY <1>1, <1>2, <1>5, <1>6, NodeParts DEF Node, Count, WellFormed, MaxCount
<1>7. CASE ~n.leaf
  BY <1>1, <1>2, <1>3, <1>4, <1>5, <1>7, NodeParts
  DEF Node, Count, WellFormed, MaxCount
<1>8. QED
  BY <1>6, <1>7

(* or behind. *)
LEMMA GainLastNode ==
  ASSUME NEW n \in Node, WellFormed(n), ~Full(n), NEW r \in Record,
         NEW from \in Node, WellFormed(from), from.leaf = n.leaf
  PROVE  /\ GainLast(n, r, from) \in Node
         /\ WellFormed(GainLast(n, r, from))
         /\ GainLast(n, r, from).leaf = n.leaf
         /\ Count(GainLast(n, r, from)) = Count(n) + 1
         /\ Len(GainLast(n, r, from).kids) =
              IF n.leaf THEN 0 ELSE Len(n.kids) + 1
         /\ \A j \in 1 .. Len(GainLast(n, r, from).kids) :
              GainLast(n, r, from).kids[j] =
                IF j <= Len(n.kids) THEN n.kids[j] ELSE from.kids[1]
<1> DEFINE recs == Append(n.recs, r)
           head == Head(from.kids)
           kids == Append(n.kids, head)
<1>1. /\ Count(n) \in Nat /\ Count(n) < 2 * Order - 1 /\ Order \in Nat
      /\ ~n.leaf => Len(n.kids) = Count(n) + 1
  BY NodeRoom
<1>2. recs \in Seq(Record) /\ Len(recs) = Count(n) + 1
  BY NodeParts, AppendProperties DEF Count
<1>3. ASSUME ~n.leaf
      PROVE  head \in Page /\ head = from.kids[1]
  <2>1. Len(from.kids) > 0 /\ from.kids \in Seq(Page)
    BY <1>3, NodeParts DEF WellFormed
  <2>2. from.kids # <<>>
    BY <2>1, EmptySeq
  <2>3. QED
    BY <2>1, <2>2, HeadTailProperties
<1> HIDE DEF head
<1>4. ASSUME ~n.leaf
      PROVE  /\ kids \in Seq(Page) /\ Len(kids) = Len(n.kids) + 1
             /\ \A j \in 1 .. Len(n.kids) : kids[j] = n.kids[j]
             /\ kids[Len(n.kids) + 1] = head
  BY <1>3, <1>4, NodeParts, AppendProperties
<1>5. GainLast(n, r, from) = [leaf |-> n.leaf, recs |-> recs,
                              kids |-> IF n.leaf THEN <<>> ELSE kids]
  BY DEF GainLast, Holding, head
<1> HIDE DEF recs, kids
<1>6. QED
  BY <1>1, <1>2, <1>3, <1>4, <1>5, NodeParts
  DEF Node, Count, WellFormed, MaxCount

(* A node that gives its last record, and child, away, *)
LEMMA LoseLastNode ==
  ASSUME NEW n \in Node, WellFormed(n), Count(n) > 0
  PROVE  /\ LoseLast(n) \in Node
         /\ WellFormed(LoseLast(n))
         /\ LoseLast(n).leaf = n.leaf
         /\ Count(LoseLast(n)) = Count(n) - 1
         /\ Len(LoseLast(n).kids) = IF n.leaf THEN 0 ELSE Len(n.kids) - 1
         /\ \A j \in 1 .. Len(LoseLast(n).kids) :
              LoseLast(n).kids[j] = n.kids[j]
<1> DEFINE recs == Front(n.recs)
           kids == Front(n.kids)
<1>1. /\ Count(n) \in Nat /\ Count(n) <= 2 * Order - 1 /\ Order \in Nat
      /\ ~n.leaf => Len(n.kids) = Count(n) + 1
  BY OrderAssumption, NodeParts DEF WellFormed, MaxCount
<1>2. recs \in Seq(Record) /\ Len(recs) = Count(n) - 1
  BY NodeParts, FrontSeq DEF Count
<1>3. ASSUME ~n.leaf
      PROVE  /\ kids \in Seq(Page) /\ Len(kids) = Len(n.kids) - 1
             /\ \A j \in 1 .. Len(n.kids) - 1 : kids[j] = n.kids[j]
  <2>1. Len(n.kids) > 0 /\ n.kids \in Seq(Page)
    BY <1>1, <1>3, NodeParts
  <2>2. QED
    BY <2>1, FrontSeq
<1>4. LoseLast(n) = [leaf |-> n.leaf, recs |-> recs,
                     kids |-> IF n.leaf THEN <<>> ELSE kids]
  BY DEF LoseLast, Holding
<1> HIDE DEF recs, kids
<1>5. QED
  BY <1>1, <1>2, <1>3, <1>4, NodeParts DEF Node, Count, WellFormed, MaxCount

(* or its first. *)
LEMMA LoseFirstNode ==
  ASSUME NEW n \in Node, WellFormed(n), Count(n) > 0
  PROVE  /\ LoseFirst(n) \in Node
         /\ WellFormed(LoseFirst(n))
         /\ LoseFirst(n).leaf = n.leaf
         /\ Count(LoseFirst(n)) = Count(n) - 1
         /\ Len(LoseFirst(n).kids) = IF n.leaf THEN 0 ELSE Len(n.kids) - 1
         /\ \A j \in 1 .. Len(LoseFirst(n).kids) :
              LoseFirst(n).kids[j] = n.kids[j + 1]
<1> DEFINE recs == Tail(n.recs)
           kids == Tail(n.kids)
<1>1. /\ Count(n) \in Nat /\ Count(n) <= 2 * Order - 1 /\ Order \in Nat
      /\ ~n.leaf => Len(n.kids) = Count(n) + 1
  BY OrderAssumption, NodeParts DEF WellFormed, MaxCount
<1>2. recs \in Seq(Record) /\ Len(recs) = Count(n) - 1
  <2>1. n.recs # <<>>
    BY EmptySeq DEF Count
  <2>2. QED
    BY <2>1, NodeParts, HeadTailProperties DEF Count
<1>3. ASSUME ~n.leaf
      PROVE  /\ kids \in Seq(Page) /\ Len(kids) = Len(n.kids) - 1
             /\ \A j \in 1 .. Len(n.kids) - 1 : kids[j] = n.kids[j + 1]
  <2>1. n.kids # <<>>
    BY <1>1, <1>3, EmptySeq
  <2>2. QED
    BY <2>1, NodeParts, HeadTailProperties
<1>4. LoseFirst(n) = [leaf |-> n.leaf, recs |-> recs,
                      kids |-> IF n.leaf THEN <<>> ELSE kids]
  BY DEF LoseFirst, Holding
<1> HIDE DEF recs, kids
<1>5. QED
  BY <1>1, <1>2, <1>3, <1>4, NodeParts DEF Node, Count, WellFormed, MaxCount
-----------------------------------------------------------------------------
(* The children and records the nodes have afterwards. *)

(* A leaf has no children. *)
LEMMA LeafHasNoKids ==
  ASSUME NEW n \in Node, WellFormed(n), n.leaf
  PROVE  n.kids = <<>> /\ ToSet(n.kids) = {}
<1>1. n.kids \in Seq(Page) /\ Len(n.kids) = 0
  BY NodeParts DEF WellFormed
<1>2. n.kids = <<>>
  BY <1>1, EmptySeq
<1>3. QED
  BY <1>2 DEF ToSet

(* The children of a full node are those of its halves. *)
LEMMA SplitElements ==
  ASSUME NEW n \in Node, WellFormed(n), Full(n)
  PROVE  ToSet(n.kids) =
           ToSet(LeftHalf(n).kids) \cup ToSet(RightHalf(n).kids)
<1>1. CASE n.leaf
  <2>1. LeftHalf(n).kids = <<>> /\ RightHalf(n).kids = <<>>
    BY <1>1 DEF LeftHalf, RightHalf, Holding
  <2>2. QED
    BY <1>1, <2>1, LeafHasNoKids
<1>2. CASE ~n.leaf
  <2>1. Order \in Nat /\ Order >= 2 /\ Len(n.kids) = 2 * Order
    BY <1>2, OrderAssumption DEF WellFormed, Full, MaxCount
  <2>2. LeftHalf(n).kids = SubSeq(n.kids, 1, Order)
    BY <1>2 DEF LeftHalf, Holding
  <2>3. RightHalf(n).kids = SubSeq(n.kids, Order + 1, Len(n.kids))
    BY <1>2, <2>1 DEF RightHalf, Holding
  <2>4. Order \in 0 .. Len(n.kids)
    BY <2>1
  <2>5. QED
    BY <2>2, <2>3, <2>4, NodeParts, CutSet
<1>3. QED
  BY <1>1, <1>2

(* A parent that adopts the right half has one child more. *)
LEMMA AdoptElements ==
  ASSUME NEW n \in Node, WellFormed(n), ~n.leaf,
         NEW i \in 1 .. Count(n) + 1, NEW r \in Record, NEW right \in Page
  PROVE  /\ ToSet(n.kids) \subseteq ToSet(Adopt(n, i, r, right).kids)
         /\ right \in ToSet(Adopt(n, i, r, right).kids)
<1> DEFINE k == i + 1
<1>1. k \in 1 .. Len(n.kids) + 1
  BY NodeParts DEF WellFormed
<1>2. Adopt(n, i, r, right).kids = InsertAt(n.kids, k, right)
  BY DEF Adopt, Holding
<1> HIDE DEF k
<1>3. QED
  BY <1>1, <1>2, NodeParts, InsertAtSet

(* A merged node has the children of both. *)
LEMMA MergedElements ==
  ASSUME NEW a \in Node, NEW b \in Node, NEW r \in Record
  PROVE  /\ ToSet(a.kids) \subseteq ToSet(Merged(a, r, b).kids)
         /\ ToSet(b.kids) \subseteq ToSet(Merged(a, r, b).kids)
         /\ ToSet(a.recs) \subseteq ToSet(Merged(a, r, b).recs)
<1>1. /\ Merged(a, r, b).kids = a.kids \o b.kids
      /\ Merged(a, r, b).recs = Append(a.recs, r) \o b.recs
  BY DEF Merged, Holding
<1>2. Append(a.recs, r) \in Seq(Record)
  BY NodeParts, AppendProperties
<1>3. ToSet(Merged(a, r, b).kids) = ToSet(a.kids) \cup ToSet(b.kids)
  BY <1>1, NodeParts, ConcatSet
<1>4. ToSet(Append(a.recs, r)) = ToSet(a.recs) \cup {r}
  BY NodeParts, AppendSet
<1>5. ToSet(Merged(a, r, b).recs) =
        ToSet(Append(a.recs, r)) \cup ToSet(b.recs)
  <2> DEFINE front == Append(a.recs, r)
  <2>1. front \in Seq(Record) /\ Merged(a, r, b).recs = front \o b.recs
    BY <1>1, <1>2
  <2> HIDE DEF front
  <2>2. ToSet(front \o b.recs) = ToSet(front) \cup ToSet(b.recs)
    BY <2>1, NodeParts, ConcatSet
  <2>3. QED
    BY <2>1, <2>2 DEF front
<1>6. QED
  BY <1>3, <1>4, <1>5

(* A parent of a merge has one child less. *)
LEMMA DropElements ==
  ASSUME NEW n \in Node, WellFormed(n), ~n.leaf, NEW i \in 1 .. Count(n)
  PROVE  \A k \in ToSet(n.kids) :
           k # n.kids[i + 1] => k \in ToSet(Drop(n, i).kids)
<1> DEFINE k == i + 1
<1>1. k \in 1 .. Len(n.kids)
  BY NodeParts DEF WellFormed
<1>2. Drop(n, i).kids = RemoveAt(n.kids, k)
  BY DEF Drop, Holding
<1>3. k = i + 1
  OBVIOUS
<1> HIDE DEF k
<1>4. QED
  BY <1>1, <1>2, <1>3, NodeParts, RemoveAtSet

(* What one sibling gives up the other takes. *)
LEMMA RotateElements ==
  ASSUME NEW n \in Node, WellFormed(n), NEW from \in Node, WellFormed(from),
         n.leaf = from.leaf, NEW r \in Record
  PROVE  /\ \A k \in ToSet(n.kids) \cup ToSet(from.kids) :
              \/ k \in ToSet(GainFirst(n, r, from).kids)
              \/ k \in ToSet(LoseLast(from).kids)
         /\ \A k \in ToSet(n.kids) \cup ToSet(from.kids) :
              \/ k \in ToSet(GainLast(n, r, from).kids)
              \/ k \in ToSet(LoseFirst(from).kids)
         /\ ToSet(n.recs) \subseteq ToSet(GainFirst(n, r, from).recs)
         /\ ToSet(n.recs) \subseteq ToSet(GainLast(n, r, from).recs)
<1>1. /\ GainFirst(n, r, from).recs = <<r>> \o n.recs
      /\ GainLast(n, r, from).recs = Append(n.recs, r)
  BY DEF GainFirst, GainLast, Holding
<1>2. <<r>> \in Seq(Record)
  OBVIOUS
<1>3. /\ ToSet(n.recs) \subseteq ToSet(GainFirst(n, r, from).recs)
      /\ ToSet(n.recs) \subseteq ToSet(GainLast(n, r, from).recs)
  <2>1. n.recs \in Seq(Record)
    BY NodeParts
  <2>2. ToSet(<<r>> \o n.recs) = ToSet(<<r>>) \cup ToSet(n.recs)
    <3> DEFINE e == <<r>>
    <3>1. e \in Seq(Record)
      BY <1>2
    <3> HIDE DEF e
    <3>2. ToSet(e \o n.recs) = ToSet(e) \cup ToSet(n.recs)
      BY <2>1, <3>1, ConcatSet
    <3>3. QED
      BY <3>2 DEF e
  <2>3. ToSet(Append(n.recs, r)) = ToSet(n.recs) \cup {r}
    BY <2>1, AppendSet
  <2>4. QED
    BY <1>1, <2>2, <2>3
<1>4. CASE n.leaf
  <2>1. /\ GainFirst(n, r, from).kids = <<>> /\ LoseLast(from).kids = <<>>
        /\ GainLast(n, r, from).kids = <<>> /\ LoseFirst(from).kids = <<>>
    BY <1>4 DEF GainFirst, GainLast, LoseFirst, LoseLast, Holding
  <2>2. n.kids = <<>> /\ from.kids = <<>>
    BY <1>4, LeafHasNoKids
  <2>3. QED
    BY <1>3, <2>1, <2>2
<1>5. CASE ~n.leaf
  <2>1. /\ n.kids \in Seq(Page) /\ from.kids \in Seq(Page)
        /\ Len(from.kids) > 0 /\ Len(from.kids) \in Nat
    BY <1>5, NodeParts DEF WellFormed
  <2>2. /\ GainFirst(n, r, from).kids = <<Last(from.kids)>> \o n.kids
        /\ LoseLast(from).kids = Front(from.kids)
        /\ GainLast(n, r, from).kids = Append(n.kids, Head(from.kids))
        /\ LoseFirst(from).kids = Tail(from.kids)
    BY <1>5 DEF GainFirst, GainLast, LoseFirst, LoseLast, Holding
  <2>3. Last(from.kids) \in Page /\ Head(from.kids) \in Page
    BY <2>1, FrontSeq, HeadTailProperties, EmptySeq
  <2>4. /\ ToSet(from.kids) = ToSet(Front(from.kids)) \cup {Last(from.kids)}
        /\ ToSet(from.kids) = ToSet(Tail(from.kids)) \cup {Head(from.kids)}
    BY <2>1, EndsSet
  <2>5. /\ <<Last(from.kids)>> \in Seq(Page)
        /\ ToSet(<<Last(from.kids)>>) = {Last(from.kids)}
    BY <2>3 DEF ToSet
  <2>6. ToSet(GainFirst(n, r, from).kids) = {Last(from.kids)} \cup ToSet(n.kids)
    <3> DEFINE e == <<Last(from.kids)>>
    <3>1. /\ e \in Seq(Page) /\ ToSet(e) = {Last(from.kids)}
          /\ GainFirst(n, r, from).kids = e \o n.kids
      BY <2>2, <2>5
    <3> HIDE DEF e
    <3>2. ToSet(e \o n.kids) = ToSet(e) \cup ToSet(n.kids)
      BY <2>1, <3>1, ConcatSet
    <3>3. QED
      BY <3>1, <3>2
  <2>7. ToSet(GainLast(n, r, from).kids) = ToSet(n.kids) \cup {Head(from.kids)}
    BY <2>1, <2>2, <2>3, AppendSet
  <2>8. QED
    BY <1>3, <2>2, <2>4, <2>6, <2>7
<1>6. QED
  BY <1>4, <1>5

-----------------------------------------------------------------------------
(* The tree. *)

(* What the tree is made of. *)
TreeTypes ==
  /\ disk \in Seq(Node)
  /\ height \in Seq(Nat) /\ Len(height) = Len(disk)
  /\ root \in DOMAIN disk
  /\ freed \subseteq DOMAIN disk

(* The tree. *)
Tree ==
  /\ TreeTypes
  /\ root \in Live
  /\ NodeBounds
  /\ ChildrenBelow
  /\ OneParent

(* The call of the current activation. *)
CallTypes ==
  /\ at \in DOMAIN disk
  /\ pc \in {"idle", "insert", "search", "delete"}
  /\ pc # "idle" => arg \in Key /\ key \in Key
  /\ pc = "insert" => rec \in Record
  /\ alias \in {"caller", "first", "last"}
  /\ ret \in Error

(* The inductive invariant. *)
IInv == Tree /\ CallTypes /\ at \in Live /\ Room

-----------------------------------------------------------------------------

(* What TreeTypes says of a page. *)
LEMMA PageFacts ==
  ASSUME Tree
  PROVE  /\ Len(disk) \in Nat /\ DOMAIN disk = 1 .. Len(disk)
         /\ DOMAIN height = 1 .. Len(disk)
         /\ \A p \in DOMAIN disk :
              p \in Page /\ disk[p] \in Node /\ height[p] \in Nat
         /\ \A p \in Live :
              /\ p \in DOMAIN disk /\ p \notin freed
              /\ WellFormed(disk[p])
              /\ p # root => Count(disk[p]) >= Order - 1
              /\ Count(disk[p]) \in Nat
              /\ DOMAIN disk[p].kids = 1 .. Len(disk[p].kids)
<1>1. disk \in Seq(Node) /\ height \in Seq(Nat) /\ Len(height) = Len(disk)
  BY DEF Tree, TreeTypes
<1>2. /\ Len(disk) \in Nat /\ DOMAIN disk = 1 .. Len(disk)
      /\ DOMAIN height = 1 .. Len(disk)
  BY <1>1, LenProperties
<1>3. \A p \in DOMAIN disk :
        p \in Page /\ disk[p] \in Node /\ height[p] \in Nat
  BY <1>1, <1>2, ElementOfSeq DEF Page
<1>4. ASSUME NEW p \in Live
      PROVE  /\ p \in DOMAIN disk /\ p \notin freed
             /\ WellFormed(disk[p])
             /\ p # root => Count(disk[p]) >= Order - 1
             /\ Count(disk[p]) \in Nat
             /\ DOMAIN disk[p].kids = 1 .. Len(disk[p].kids)
  <2>1. p \in DOMAIN disk /\ p \notin freed /\ disk[p] \in Node
    BY <1>3 DEF Live
  <2>2. QED
    BY <2>1, NodeParts DEF Tree, NodeBounds
<1>5. QED
  BY <1>2, <1>3, <1>4

(* A child of a page in use. *)
LEMMA KidFacts ==
  ASSUME Tree, NEW p \in Live, NEW i \in 1 .. Len(disk[p].kids)
  PROVE  /\ disk[p].kids[i] \in Live
         /\ disk[p].kids[i] # root
         /\ disk[p].kids[i] # p
         /\ height[disk[p].kids[i]] = height[p] - 1
         /\ \A q \in Live : \A j \in 1 .. Len(disk[q].kids) :
              disk[q].kids[j] = disk[p].kids[i] => q = p /\ j = i
<1>1. i \in DOMAIN disk[p].kids
  BY PageFacts
<1>2. /\ disk[p].kids[i] \in Live \ {root}
      /\ height[disk[p].kids[i]] = height[p] - 1
  BY <1>1 DEF Tree, ChildrenBelow
<1>3. height[p] \in Nat
  BY PageFacts
<1>4. ASSUME NEW q \in Live, NEW j \in 1 .. Len(disk[q].kids),
             disk[q].kids[j] = disk[p].kids[i]
      PROVE  q = p /\ j = i
  <2>1. j \in DOMAIN disk[q].kids
    BY <1>4, PageFacts
  <2>2. OneParent
    BY DEF Tree
  <2>3. QED
    BY <1>1, <1>4, <2>1, <2>2 DEF OneParent
<1>5. QED
  BY <1>2, <1>3, <1>4

(* The same of all pages at once: what the children of a changed page are
   compared with. *)
LEMMA AllKids ==
  ASSUME Tree
  PROVE  /\ \A p \in Live : \A i \in 1 .. Len(disk[p].kids) :
              /\ disk[p].kids[i] \in Live \ {root}
              /\ height[disk[p].kids[i]] = height[p] - 1
         /\ \A p, q \in Live :
              \A i \in 1 .. Len(disk[p].kids), j \in 1 .. Len(disk[q].kids) :
                disk[p].kids[i] = disk[q].kids[j] => p = q /\ i = j
BY KidFacts

(* The halves of a split and the result of a merge have enough records. *)
LEMMA NoFewer ==
  Order - 1 >= Order - 1 /\ 2 * Order - 1 >= Order - 1
BY OrderAssumption

(* No page has the same child twice. *)
LEMMA OwnKids ==
  ASSUME Tree, NEW p \in Live
  PROVE  \A i, j \in 1 .. Len(disk[p].kids) :
            disk[p].kids[i] = disk[p].kids[j] => i = j
<1> SUFFICES ASSUME NEW i \in 1 .. Len(disk[p].kids),
                    NEW j \in 1 .. Len(disk[p].kids),
                    disk[p].kids[i] = disk[p].kids[j]
             PROVE  i = j
  OBVIOUS
<1>1. QED
  BY AllKids

-----------------------------------------------------------------------------
(* A page whose children stay what they are. *)
LEMMA SameKids ==
  ASSUME Tree, NEW p \in Live, NEW n \in Node, WellFormed(n),
         n.leaf = disk[p].leaf, n.kids = disk[p].kids,
         p # root => Count(n) >= Order - 1,
         disk' = [disk EXCEPT ![p] = n],
         UNCHANGED <<height, root, freed>>
  PROVE  Tree' /\ Live' = Live
<1>1. p \in DOMAIN disk /\ DOMAIN disk = 1 .. Len(disk) /\ disk \in Seq(Node)
  BY PageFacts DEF Tree, TreeTypes
<1>2. /\ disk' \in Seq(Node) /\ Len(disk') = Len(disk)
      /\ DOMAIN disk' = DOMAIN disk
      /\ \A q \in DOMAIN disk : disk'[q] = IF q = p THEN n ELSE disk[q]
  BY <1>1, ExceptSeq, LenProperties
<1>3. Live' = Live
  BY <1>2 DEF Live
<1>4. TreeTypes' /\ (root \in Live)'
  BY <1>2, <1>3 DEF Tree, TreeTypes
<1>5. \A q \in Live : q \in DOMAIN disk
  BY DEF Live
<1>6. \A q \in Live : disk'[q].leaf = disk[q].leaf /\ disk'[q].kids = disk[q].kids
  BY <1>2, <1>5
<1>7. NodeBounds'
  BY <1>2, <1>3, <1>5 DEF Tree, NodeBounds
<1>8. ChildrenBelow'
  BY <1>3, <1>6 DEF Tree, ChildrenBelow
<1>9. OneParent'
  BY <1>3, <1>6 DEF Tree, OneParent
<1>10. QED
  BY <1>3, <1>4, <1>7, <1>8, <1>9 DEF Tree

-----------------------------------------------------------------------------
(* A child splits: its right half is a new page, next to it. *)
LEMMA SplitChild ==
  ASSUME Tree, NEW p \in Live, ~disk[p].leaf, ~Full(disk[p]),
         NEW i \in 1 .. Count(disk[p]) + 1,
         NEW c, c = disk[p].kids[i], Full(disk[c]),
         NEW new, new = Len(disk) + 1,
         Split(c, p, Adopt(disk[p], i, Median(disk[c]), new)),
         UNCHANGED <<root, freed>>
  PROVE  /\ Tree'
         /\ Live' = Live \cup {new} /\ c \in Live /\ c # root
         /\ ~Full(disk'[c]) /\ ~Full(disk'[new])
         /\ height'[c] = height[p] - 1 /\ height'[new] = height[p] - 1
<1> DEFINE n == Len(disk[p].kids)
           L == LeftHalf(disk[c])
           R == RightHalf(disk[c])
           P == Adopt(disk[p], i, Median(disk[c]), new)
           l == Len(L.kids)
           m == Len(R.kids)
<1>a. /\ n \in Nat /\ i \in 1 .. n /\ n = Count(disk[p]) + 1
      /\ disk[p] \in Node /\ WellFormed(disk[p])
  BY SMTT(60), PageFacts, NodeRoom DEF WellFormed, Live
<1>2. /\ c \in Live /\ c # root /\ c # p
      /\ height[c] = height[p] - 1 /\ height[c] \in Nat
      /\ height[p] \in Nat /\ c \in DOMAIN disk /\ p \in DOMAIN disk
  BY <1>a, KidFacts, PageFacts
<1>b. disk[c] \in Node /\ WellFormed(disk[c]) /\ Median(disk[c]) \in Record
  BY <1>2, PageFacts, MedianRecord
<1>c. new \in Page /\ Len(disk) \in Nat
  BY SMTT(60), PageFacts DEF Page
<1> HIDE DEF n, l, m
<1>L. /\ L \in Node /\ WellFormed(L) /\ L.leaf = disk[c].leaf
      /\ Count(L) = Order - 1
      /\ Len(L.kids) = IF disk[c].leaf THEN 0 ELSE Order
      /\ \A j \in 1 .. Len(L.kids) : L.kids[j] = disk[c].kids[j]
  BY <1>b, LeftHalfNode, Zenon
<1>R. /\ R \in Node /\ WellFormed(R) /\ R.leaf = disk[c].leaf
      /\ Count(R) = Order - 1
      /\ Len(R.kids) = IF disk[c].leaf THEN 0 ELSE Order
      /\ \A j \in 1 .. Len(R.kids) : R.kids[j] = disk[c].kids[Order + j]
  BY <1>b, RightHalfNode
<1>P. /\ P \in Node /\ WellFormed(P) /\ P.leaf = disk[p].leaf
      /\ Count(P) = Count(disk[p]) + 1
      /\ Len(P.kids) = n + 1
      /\ \A j \in 1 .. n + 1 :
           P.kids[j] = IF j < i + 1 THEN disk[p].kids[j]
                       ELSE IF j = i + 1 THEN new ELSE disk[p].kids[j - 1]
  <2>1. P \in Node /\ WellFormed(P) /\ P.leaf = disk[p].leaf
    BY <1>a, <1>b, <1>c, AdoptNode
  <2>2. /\ Count(P) = Count(disk[p]) + 1
        /\ Len(P.kids) = Len(disk[p].kids) + 1
    BY <1>a, <1>b, <1>c, AdoptNode
  <2>3. \A j \in 1 .. Len(disk[p].kids) + 1 :
          P.kids[j] = IF j < i + 1 THEN disk[p].kids[j]
                      ELSE IF j = i + 1 THEN new ELSE disk[p].kids[j - 1]
    <3> SUFFICES
          ASSUME NEW j \in 1 .. Len(disk[p].kids) + 1
          PROVE  P.kids[j] = IF j < i + 1 THEN disk[p].kids[j]
                             ELSE IF j = i + 1 THEN new
                             ELSE disk[p].kids[j - 1]
      OBVIOUS
    <3>1. QED
      BY SMTT(60), <1>a, <1>b, <1>c, AdoptNode, SMTT(30)
  <2> HIDE DEF P
  <2>4. QED
    BY <2>1, <2>2, <2>3 DEF n
<1>1. /\ l \in Nat /\ m \in Nat /\ n \in Nat
      /\ disk \in Seq(Node) /\ height \in Seq(Nat)
      /\ Len(height) = Len(disk) /\ Len(disk) \in Nat
      /\ DOMAIN disk = 1 .. Len(disk)
      /\ root \in Live /\ Order \in Nat /\ Order >= 2
  BY <1>a, <1>L, <1>R, PageFacts, NodeParts, OrderAssumption
  DEF Tree, TreeTypes, l, m
<1>S. /\ disk' = Append([disk EXCEPT ![c] = L, ![p] = P], R)
      /\ height' = Append(height, height[c])
  BY SMTT(60) DEF Split
<1>K. Len(disk[c].kids) = l + m /\ (l + m > 0 => l = Order /\ m = Order)
  <2>1. ~disk[c].leaf => Len(disk[c].kids) = 2 * Order
    BY <1>1, <1>b DEF WellFormed, Full, MaxCount
  <2>2. disk[c].leaf => Len(disk[c].kids) = 0
    BY <1>b DEF WellFormed
  <2>3. l = IF disk[c].leaf THEN 0 ELSE Order
    BY ZenonT(60), <1>L DEF l
  <2>4. m = IF disk[c].leaf THEN 0 ELSE Order
    BY <1>R DEF m
  <2>5. Order \in Nat /\ Order + Order = 2 * Order
    BY <1>1
  <2>6. CASE disk[c].leaf
    <3>1. l = 0 /\ m = 0 /\ Len(disk[c].kids) = 0
      BY <2>2, <2>3, <2>4, <2>6, Zenon
    <3>2. QED
      BY <3>1
  <2>7. CASE ~disk[c].leaf
    <3>1. l = Order /\ m = Order /\ Len(disk[c].kids) = 2 * Order
      BY <2>1, <2>3, <2>4, <2>7, Zenon
    <3>2. QED
      BY <2>5, <3>1
  <2>8. QED
    BY <2>6, <2>7, Zenon
<1> HIDE DEF L, R, P
<1>3. /\ disk' \in Seq(Node) /\ Len(disk') = Len(disk) + 1
      /\ DOMAIN disk' = DOMAIN disk \cup {new}
      /\ disk'[new] = R /\ disk'[c] = L /\ disk'[p] = P
      /\ \A q \in DOMAIN disk : q # c /\ q # p => disk'[q] = disk[q]
  <2> DEFINE d == [disk EXCEPT ![c] = L]
             e == [d EXCEPT ![p] = P]
  <2>1. disk' = Append(e, R)
    BY <1>S
  <2>2. c \in 1 .. Len(disk) /\ p \in 1 .. Len(disk) /\ disk \in Seq(Node)
    BY <1>1, <1>2
  <2> HIDE DEF e
  <2>3. /\ d \in Seq(Node) /\ Len(d) = Len(disk)
        /\ \A q \in 1 .. Len(disk) : d[q] = IF q = c THEN L ELSE disk[q]
    BY <1>L, <2>2, OneElement
  <2> USE DEF e
  <2> HIDE DEF d
  <2>4. /\ e \in Seq(Node) /\ Len(e) = Len(disk)
        /\ \A q \in 1 .. Len(disk) : e[q] = IF q = p THEN P ELSE d[q]
    BY SMTT(60), <1>P, <2>2, <2>3, OneElement
  <2> HIDE DEF e
  <2>5. /\ disk' \in Seq(Node) /\ Len(disk') = Len(disk) + 1
        /\ \A q \in 1 .. Len(disk) : disk'[q] = e[q]
        /\ disk'[Len(disk) + 1] = R
    BY <1>R, <2>1, <2>4, AppendProperties
  <2>6. DOMAIN disk' = 1 .. Len(disk) + 1
    BY <2>5, LenProperties
  <2>7. DOMAIN disk' = DOMAIN disk \cup {new}
    BY SMTT(60), <1>1, <2>6
  <2>8. QED
    BY <1>1, <1>2, <2>3, <2>4, <2>5, <2>7
<1>4. /\ height' \in Seq(Nat) /\ Len(height') = Len(disk')
      /\ height'[new] = height[c]
      /\ \A q \in DOMAIN disk : height'[q] = height[q]
  BY <1>1, <1>2, <1>3, <1>S, AppendProperties
<1>5. /\ Live' = Live \cup {new} /\ new \notin Live
      /\ \A q \in Live : q \in DOMAIN disk
      /\ root' = root /\ root # new
  BY <1>1, <1>3 DEF Live, Tree, TreeTypes
<1>6. TreeTypes' /\ (root \in Live)'
  BY <1>3, <1>4, <1>5 DEF Tree, TreeTypes
<1>7. NodeBounds'
  <2> SUFFICES ASSUME NEW q \in Live'
               PROVE  /\ WellFormed(disk'[q])
                      /\ q # root => Count(disk'[q]) >= Order - 1
    BY SMTT(60), <1>5 DEF NodeBounds
  <2>1. CASE q = new
    BY <1>3, <1>R, <2>1, NoFewer, Zenon
  <2>2. CASE q = c
    BY <1>3, <1>L, <2>2, NoFewer, Zenon
  <2>3. CASE q = p
    <3>1. Count(disk[p]) \in Nat
      BY PageFacts
    <3>2. p # root => Count(disk[p]) >= Order - 1
      BY PageFacts
    <3>3. QED
      BY <1>1, <1>3, <1>P, <2>3, <3>1, <3>2
  <2>4. CASE q \in Live /\ q # c /\ q # p
    BY SMTT(60), <1>3, <1>5, <2>4, PageFacts
  <2>5. QED
    BY <1>5, <2>1, <2>2, <2>3, <2>4
<1>8. \A q \in Live' : DOMAIN disk'[q].kids = 1 .. Len(disk'[q].kids)
  <2>1. \A q \in Live' : disk'[q] \in Node
    BY <1>3, <1>5, <1>L, <1>R, <1>P, PageFacts
  <2>2. QED
    BY <2>1, NodeParts
(* The pointer in slot j of page q was in slot x of page o. *)
<1> DEFINE Old(q, j) == ~(q = p /\ j = i + 1)
           Origin(q, j, o, x) ==
             \/ q = new /\ o = c /\ x = l + j
             \/ q = c /\ o = c /\ x = j /\ j <= l
             \/ q = p /\ o = p /\ j < i + 1 /\ x = j
             \/ q = p /\ o = p /\ j > i + 1 /\ x = j - 1
             \/ q # new /\ q # c /\ q # p /\ o = q /\ x = j
<1>9. ASSUME NEW q \in Live', NEW j \in DOMAIN disk'[q].kids, Old(q, j)
      PROVE  \E o \in Live : \E x \in 1 .. Len(disk[o].kids) :
               /\ Origin(q, j, o, x) /\ j \in 1 .. Len(disk'[q].kids)
               /\ disk'[q].kids[j] = disk[o].kids[x]
               /\ height'[q] = height[o]
  <2>1. j \in 1 .. Len(disk'[q].kids)
    BY <1>8
  <2>2. CASE q = new
    <3>1. j \in 1 .. m
      BY <1>3, <2>1, <2>2 DEF m
    <3>2. l + j \in 1 .. Len(disk[c].kids)
      BY <1>1, <1>K, <3>1
    <3>3. R.kids[j] = disk[c].kids[Order + j]
      BY <1>R, <3>1 DEF m
    <3>4. l = Order
      BY <1>1, <1>K, <3>1
    <3>5. disk'[q].kids[j] = disk[c].kids[l + j]
      BY <1>3, <2>2, <3>3, <3>4
    <3>6. QED
      BY <1>2, <1>4, <2>1, <2>2, <3>2, <3>5
  <2>3. CASE q = c
    <3>1. j \in 1 .. l
      BY <1>3, <2>1, <2>3 DEF l
    <3>2. j \in 1 .. Len(disk[c].kids) /\ j <= l
      BY SMTT(60), <1>1, <1>K, <3>1
    <3>3. disk'[q].kids[j] = disk[c].kids[j]
      BY <1>3, <1>L, <2>3, <3>1 DEF l
    <3>4. QED
      BY <1>2, <1>4, <2>1, <2>3, <3>2, <3>3
  <2>4. CASE q = p
    <3>1. /\ j \in 1 .. n + 1 /\ j # i + 1
          /\ height'[q] = height[p] /\ disk'[q].kids[j] = P.kids[j]
      BY <1>2, <1>3, <1>4, <1>9, <1>P, <2>1, <2>4
    <3>2. CASE j < i + 1
      <4>1. j \in 1 .. Len(disk[p].kids)
        BY <1>1, <1>a, <3>1, <3>2 DEF n
      <4>2. disk'[q].kids[j] = disk[p].kids[j]
        BY <1>P, <3>1, <3>2
      <4>3. QED
        BY <2>1, <2>4, <3>1, <3>2, <4>1, <4>2
    <3>3. CASE j > i + 1
      <4>0. /\ j \in Int /\ i \in Int /\ n \in Int
            /\ 1 <= i /\ j <= n + 1 /\ j > i + 1
        BY <1>1, <1>a, <3>1, <3>3
      <4>1. j - 1 \in 1 .. n /\ ~(j < i + 1)
        BY <4>0
      <4>2. j - 1 \in 1 .. Len(disk[p].kids) /\ ~(j < i + 1)
        BY <4>1, Zenon DEF n
      <4>3. disk'[q].kids[j] = disk[p].kids[j - 1]
        BY <1>P, <3>1, <4>2
      <4>4. QED
        BY <2>1, <2>4, <3>1, <3>3, <4>2, <4>3
    <3>4. j < i + 1 \/ j > i + 1
      <4>1. j \in Int /\ i \in Int /\ j # i + 1
        BY <1>1, <1>a, <3>1
      <4>2. QED
        BY <4>1
    <3>5. QED
      BY <3>2, <3>3, <3>4, Zenon
  <2>5. CASE q \in Live /\ q # c /\ q # p
    <3>1. q # new /\ disk'[q] = disk[q] /\ height'[q] = height[q]
      BY <1>3, <1>4, <1>5, <2>5
    <3>2. QED
      BY <2>1, <2>5, <3>1
  <2>6. QED
    BY <1>5, <2>2, <2>3, <2>4, <2>5
<1> HIDE DEF Origin
<1>10. disk'[p].kids[i + 1] = new /\ p # new /\ n + 1 = Len(disk'[p].kids)
  <2>1. i + 1 \in 1 .. n + 1 /\ ~(i + 1 < i + 1)
    BY <1>1, <1>a
  <2>2. QED
    BY <1>3, <1>5, <1>P, <2>1
<1>11. ChildrenBelow'
  <2> SUFFICES ASSUME NEW q \in Live'
               PROVE  /\ disk'[q].leaf <=> height'[q] = 0
                      /\ \A j \in DOMAIN disk'[q].kids :
                           /\ disk'[q].kids[j] \in Live' \ {root'}
                           /\ height'[disk'[q].kids[j]] = height'[q] - 1
    BY DEF ChildrenBelow
  <2>1. disk'[q].leaf <=> height'[q] = 0
    <3>1. \A r \in Live : disk[r].leaf <=> height[r] = 0
      BY DEF Tree, ChildrenBelow
    <3>2. CASE q = new
      BY <1>2, <1>3, <1>4, <1>R, <3>1, <3>2
    <3>3. CASE q = c
      BY <1>2, <1>3, <1>4, <1>L, <3>1, <3>3
    <3>4. CASE q = p
      BY <1>2, <1>3, <1>4, <1>P, <3>1, <3>4
    <3>5. CASE q \in Live /\ q # c /\ q # p
      BY <1>3, <1>4, <1>5, <3>1, <3>5
    <3>6. QED
      BY <1>5, <3>2, <3>3, <3>4, <3>5
  <2>2. ASSUME NEW j \in DOMAIN disk'[q].kids
        PROVE  /\ disk'[q].kids[j] \in Live' \ {root'}
               /\ height'[disk'[q].kids[j]] = height'[q] - 1
    <3>1. CASE q = p /\ j = i + 1
      BY <1>2, <1>4, <1>5, <1>10, <3>1
    <3>2. CASE Old(q, j)
      <4>1. PICK o \in Live : \E x \in 1 .. Len(disk[o].kids) :
              /\ disk'[q].kids[j] = disk[o].kids[x]
              /\ height'[q] = height[o]
        BY <1>9, <3>2
      <4>2. /\ disk'[q].kids[j] \in Live \ {root}
            /\ height[disk'[q].kids[j]] = height'[q] - 1
        BY <4>1, AllKids
      <4>3. QED
        BY <1>4, <1>5, <4>2
    <3>3. QED
      BY <3>1, <3>2
  <2>3. QED
    BY <2>1, <2>2
<1>12. OneParent'
  <2> SUFFICES ASSUME NEW q \in Live', NEW r \in Live',
                      NEW j \in DOMAIN disk'[q].kids,
                      NEW k \in DOMAIN disk'[r].kids,
                      disk'[q].kids[j] = disk'[r].kids[k]
               PROVE  q = r /\ j = k
    BY DEF OneParent
  <2>1. ASSUME NEW s \in Live', NEW h \in DOMAIN disk'[s].kids, Old(s, h)
        PROVE  disk'[s].kids[h] # new
    <3>1. PICK o \in Live : \E x \in 1 .. Len(disk[o].kids) :
            disk'[s].kids[h] = disk[o].kids[x]
      BY <1>9, <2>1
    <3>2. QED
      BY <1>5, <3>1, AllKids
  <2>2. CASE Old(q, j) /\ Old(r, k)
    <3>o. PICK o \in Live : \E x \in 1 .. Len(disk[o].kids) :
            /\ Origin(q, j, o, x) /\ j \in 1 .. Len(disk'[q].kids)
            /\ disk'[q].kids[j] = disk[o].kids[x]
      BY ZenonT(60), <1>9, <2>2
    <3>w. PICK w \in Live : \E y \in 1 .. Len(disk[w].kids) :
            /\ Origin(r, k, w, y) /\ k \in 1 .. Len(disk'[r].kids)
            /\ disk'[r].kids[k] = disk[w].kids[y]
      BY <1>9, <2>2
    <3>1. PICK x \in 1 .. Len(disk[o].kids) :
            /\ Origin(q, j, o, x) /\ j \in 1 .. Len(disk'[q].kids)
            /\ disk'[q].kids[j] = disk[o].kids[x]
      BY <3>o
    <3>2. PICK y \in 1 .. Len(disk[w].kids) :
            /\ Origin(r, k, w, y) /\ k \in 1 .. Len(disk'[r].kids)
            /\ disk'[r].kids[k] = disk[w].kids[y]
      BY <3>w
    <3>3. o = w /\ x = y
      <4>1. disk[o].kids[x] = disk[w].kids[y]
        BY <3>1, <3>2
      <4>2. QED
        BY <4>1, AllKids
    <3>4. l \in Int /\ i \in Int /\ j \in Int /\ k \in Int /\ j >= 1 /\ k >= 1
      BY <1>1, <1>a, <3>1, <3>2
    <3>5. c # p /\ c # new /\ p # new
      BY <1>2, <1>5
    <3>6. QED
      BY <3>1, <3>2, <3>3, <3>4, <3>5 DEF Origin
  <2>3. CASE ~Old(q, j) \/ ~Old(r, k)
    BY SMTT(60), <1>10, <2>1, <2>3
  <2>4. QED
    BY <2>2, <2>3
<1>13. ~Full(disk'[c]) /\ ~Full(disk'[new])
  BY <1>3, <1>L, <1>R, HalfNotFull
<1>14. QED
  BY <1>2, <1>4, <1>5, <1>6, <1>7, <1>11, <1>12, <1>13 DEF Tree

-----------------------------------------------------------------------------
(* The root splits below a new root. *)
LEMMA SplitRoot ==
  ASSUME Tree, NEW r, InsertSplitRoot(r),
         NEW new, new = Len(disk) + 1, NEW top, top = Len(disk) + 2
  PROVE  Tree' /\ root' = top /\ top \in Live' /\ ~Full(disk'[top])
<1> DEFINE c == root
           L == LeftHalf(disk[c])
           R == RightHalf(disk[c])
           T == NewRoot(Median(disk[c]), c, new)
           l == Len(L.kids)
           m == Len(R.kids)
<1>S. /\ disk' = Append(Append([disk EXCEPT ![c] = L], R), T)
      /\ height' = Append(Append(height, height[c]), height[c] + 1)
      /\ root' = top /\ freed' = freed /\ Full(disk[c])
  BY DEF InsertSplitRoot
<1>2. /\ c \in Live /\ c \in DOMAIN disk /\ c \in Page /\ height[c] \in Nat
      /\ disk[c] \in Node /\ WellFormed(disk[c])
  BY PageFacts DEF Tree
<1>b. Median(disk[c]) \in Record /\ new \in Page /\ Len(disk) \in Nat
  BY <1>S, <1>2, PageFacts, MedianRecord DEF Page
<1>L. /\ L \in Node /\ WellFormed(L) /\ L.leaf = disk[c].leaf
      /\ Count(L) = Order - 1
      /\ Len(L.kids) = IF disk[c].leaf THEN 0 ELSE Order
      /\ \A j \in 1 .. Len(L.kids) : L.kids[j] = disk[c].kids[j]
  BY <1>S, <1>2, LeftHalfNode
<1>R. /\ R \in Node /\ WellFormed(R) /\ R.leaf = disk[c].leaf
      /\ Count(R) = Order - 1
      /\ Len(R.kids) = IF disk[c].leaf THEN 0 ELSE Order
      /\ \A j \in 1 .. Len(R.kids) : R.kids[j] = disk[c].kids[Order + j]
  BY <1>S, <1>2, RightHalfNode
<1>T. /\ T \in Node /\ WellFormed(T) /\ T.leaf = FALSE /\ Count(T) = 1
      /\ Len(T.kids) = 2 /\ T.kids[1] = c /\ T.kids[2] = new
  <2> DEFINE v == Median(disk[c])
  <2> HIDE DEF v, c
  <2>1. v \in Record /\ c \in Page /\ new \in Page
    BY <1>2, <1>b DEF v
  <2>2. T = NewRoot(v, c, new)
    BY DEF v
  <2> DEFINE t == NewRoot(v, c, new)
  <2>3. /\ t \in Node /\ WellFormed(t) /\ t.leaf = FALSE /\ Count(t) = 1
        /\ Len(t.kids) = 2 /\ t.kids[1] = c /\ t.kids[2] = new
    <3>1. t \in Node /\ WellFormed(t)
      BY <2>1, NewRootNode
    <3>2. t.leaf = FALSE /\ t.recs = <<v>> /\ t.kids = <<c, new>>
      BY DEF NewRoot
    <3> HIDE DEF t
    <3>3. Len(t.recs) = 1 /\ Len(t.kids) = 2 /\ t.kids[1] = c /\ t.kids[2] = new
      BY <3>2
    <3>4. QED
      BY <3>1, <3>2, <3>3 DEF Count
  <2> HIDE DEF t, T
  <2>4. T = t
    BY <2>2 DEF t
  <2>5. QED
    BY <2>3, <2>4
<1>1. /\ l \in Nat /\ m \in Nat
      /\ disk \in Seq(Node) /\ height \in Seq(Nat)
      /\ Len(height) = Len(disk) /\ Len(disk) \in Nat
      /\ DOMAIN disk = 1 .. Len(disk)
      /\ Order \in Nat /\ Order >= 2
  BY <1>L, <1>R, PageFacts, NodeParts, OrderAssumption DEF Tree, TreeTypes
<1>K. Len(disk[c].kids) = l + m /\ (l + m > 0 => l = Order /\ m = Order)
  <2> HIDE DEF l, m, L, R, T, c
  <2>1. ~disk[c].leaf => Len(disk[c].kids) = 2 * Order
    BY <1>1, <1>2, <1>S DEF WellFormed, Full, MaxCount
  <2>2. disk[c].leaf => Len(disk[c].kids) = 0
    BY <1>2 DEF WellFormed
  <2>3. l = IF disk[c].leaf THEN 0 ELSE Order
    BY <1>L DEF l
  <2>4. m = IF disk[c].leaf THEN 0 ELSE Order
    BY <1>R DEF m
  <2>5. QED
    BY <1>1, <2>1, <2>2, <2>3, <2>4
<1>3. /\ disk' \in Seq(Node) /\ Len(disk') = Len(disk) + 2
      /\ DOMAIN disk' = DOMAIN disk \cup {new, top}
      /\ disk'[top] = T /\ disk'[new] = R /\ disk'[c] = L
      /\ \A q \in DOMAIN disk : q # c => disk'[q] = disk[q]
  <2> DEFINE d == [disk EXCEPT ![c] = L]
             e == Append(d, R)
  <2>1. disk' = Append(e, T)
    BY <1>S
  <2> HIDE DEF l, m, L, R, T, c
  <2>2. c \in 1 .. Len(disk) /\ disk \in Seq(Node)
    BY <1>1, <1>2
  <2>3. /\ d \in Seq(Node) /\ Len(d) = Len(disk)
        /\ \A q \in 1 .. Len(disk) : d[q] = IF q = c THEN L ELSE disk[q]
    BY <1>L, <2>2, OneElement
  <2> HIDE DEF d
  <2>4. /\ e \in Seq(Node) /\ Len(e) = Len(disk) + 1
        /\ \A q \in 1 .. Len(disk) : e[q] = d[q]
        /\ e[new] = R
    BY <1>R, <2>3, AppendProperties
  <2> HIDE DEF e
  <2>5. /\ disk' \in Seq(Node) /\ Len(disk') = Len(e) + 1
        /\ \A q \in 1 .. Len(e) : disk'[q] = e[q]
        /\ disk'[Len(e) + 1] = T
    BY <1>T, <2>1, <2>4, AppendProperties
  <2>6. DOMAIN disk' = 1 .. Len(disk) + 2 /\ Len(e) + 1 = top
    BY <1>1, <2>4, <2>5, LenProperties
  <2>7. DOMAIN disk' = DOMAIN disk \cup {new, top}
    BY <1>1, <2>6
  <2>8. \A q \in 1 .. Len(e) :
          q \in 1 .. Len(disk) \/ q = new
    BY <1>1, <2>4
  <2>9. new \in 1 .. Len(e) /\ \A q \in 1 .. Len(disk) : q \in 1 .. Len(e)
    BY <1>1, <2>4
  <2>10. QED
    BY <1>1, <2>2, <2>3, <2>4, <2>5, <2>6, <2>7, <2>9
<1> HIDE DEF l, m, L, R, T, c
<1>4. /\ height' \in Seq(Nat) /\ Len(height') = Len(disk')
      /\ height'[new] = height[c] /\ height'[top] = height[c] + 1
      /\ \A q \in DOMAIN disk : height'[q] = height[q]
  <2> DEFINE g == Append(height, height[c])
  <2>1. /\ g \in Seq(Nat) /\ Len(g) = Len(disk) + 1
        /\ \A q \in 1 .. Len(disk) : g[q] = height[q]
        /\ g[new] = height[c]
    BY SMTT(60), <1>1, <1>2, AppendProperties
  <2>2. height' = Append(g, height[c] + 1) /\ height[c] + 1 \in Nat
    BY <1>2, <1>S
  <2> HIDE DEF g
  <2>3. /\ height' \in Seq(Nat) /\ Len(height') = Len(g) + 1
        /\ \A q \in 1 .. Len(g) : height'[q] = g[q]
        /\ height'[Len(g) + 1] = height[c] + 1
    BY <2>1, <2>2, AppendProperties
  <2>4. /\ new \in 1 .. Len(g) /\ Len(g) + 1 = top
        /\ \A q \in 1 .. Len(disk) : q \in 1 .. Len(g)
    BY <1>1, <2>1
  <2>5. QED
    BY <1>1, <1>3, <2>1, <2>3, <2>4
<1>5. /\ Live' = Live \cup {new, top} /\ new \notin Live /\ top \notin Live
      /\ \A q \in Live : q \in DOMAIN disk
      /\ root' = top /\ new # top /\ top # c
  <2>1. new \notin DOMAIN disk /\ top \notin DOMAIN disk /\ new # top
    BY <1>1
  <2>2. QED
    BY SMTT(60), <1>2, <1>3, <1>S, <2>1 DEF Live, Tree, TreeTypes
<1>6. TreeTypes' /\ (root \in Live)'
  BY <1>3, <1>4, <1>5, <1>S DEF Tree, TreeTypes
<1>7. NodeBounds'
  <2> SUFFICES ASSUME NEW q \in Live'
               PROVE  /\ WellFormed(disk'[q])
                      /\ q # root' => Count(disk'[q]) >= Order - 1
    BY DEF NodeBounds
  <2>1. CASE q = new
    BY <1>1, <1>3, <1>R, <2>1
  <2>2. CASE q = c
    BY <1>1, <1>3, <1>L, <2>2
  <2>3. CASE q = top
    BY <1>3, <1>5, <1>T, <2>3
  <2>4. CASE q \in Live /\ q # c
    BY <1>3, <1>5, <2>4, PageFacts DEF c
  <2>5. QED
    BY <1>5, <2>1, <2>2, <2>3, <2>4
<1>8. \A q \in Live' : DOMAIN disk'[q].kids = 1 .. Len(disk'[q].kids)
  <2>1. \A q \in Live' : disk'[q] \in Node
    BY <1>3, <1>5, <1>L, <1>R, <1>T, PageFacts
  <2>2. QED
    BY <2>1, NodeParts
<1>t. \A j \in DOMAIN disk'[top].kids :
        \/ j = 1 /\ disk'[top].kids[j] = c
        \/ j = 2 /\ disk'[top].kids[j] = new
  <2>1. \A j \in DOMAIN disk'[top].kids : j \in 1 .. 2
    BY <1>3, <1>5, <1>8, <1>T
  <2>2. \A j \in 1 .. 2 : j = 1 \/ j = 2
    OBVIOUS
  <2>3. QED
    BY <1>3, <1>T, <2>1, <2>2
(* The pointer in slot j of page q was in slot x of page o. *)
<1> DEFINE Origin(q, j, o, x) ==
             \/ q = new /\ o = c /\ x = l + j
             \/ q = c /\ o = c /\ x = j /\ j <= l
             \/ q # new /\ q # c /\ o = q /\ x = j
<1>9. ASSUME NEW q \in Live', NEW j \in DOMAIN disk'[q].kids, q # top
      PROVE  \E o \in Live : \E x \in 1 .. Len(disk[o].kids) :
               /\ Origin(q, j, o, x) /\ j \in 1 .. Len(disk'[q].kids)
               /\ disk'[q].kids[j] = disk[o].kids[x]
               /\ height'[q] = height[o]
  <2>1. j \in 1 .. Len(disk'[q].kids)
    BY <1>8
  <2>2. CASE q = new
    <3>1. j \in 1 .. m
      BY <1>3, <2>1, <2>2 DEF m
    <3>2. l + j \in 1 .. Len(disk[c].kids)
      BY <1>1, <1>K, <3>1
    <3>3. R.kids[j] = disk[c].kids[Order + j]
      BY <1>R, <3>1 DEF m
    <3>4. l = Order
      BY <1>1, <1>K, <3>1
    <3>5. disk'[q].kids[j] = disk[c].kids[l + j]
      BY <1>3, <2>2, <3>3, <3>4
    <3>6. QED
      BY <1>2, <1>4, <2>1, <2>2, <3>2, <3>5
  <2>3. CASE q = c
    <3>1. j \in 1 .. l
      BY <1>3, <2>1, <2>3 DEF l
    <3>2. j \in 1 .. Len(disk[c].kids) /\ j <= l
      BY <1>1, <1>K, <3>1
    <3>3. disk'[q].kids[j] = disk[c].kids[j]
      BY <1>3, <1>L, <2>3, <3>1 DEF l
    <3>4. QED
      BY <1>2, <1>4, <2>1, <2>3, <3>2, <3>3
  <2>4. CASE q \in Live /\ q # c
    <3>1. q # new /\ disk'[q] = disk[q] /\ height'[q] = height[q]
      BY <1>3, <1>4, <1>5, <2>4
    <3>2. QED
      BY <2>1, <2>4, <3>1
  <2>5. QED
    BY <1>5, <1>9, <2>2, <2>3, <2>4
<1> HIDE DEF Origin
<1>10. ASSUME NEW q \in Live', NEW j \in DOMAIN disk'[q].kids, q # top
       PROVE  /\ disk'[q].kids[j] \in Live \ {c}
              /\ height[disk'[q].kids[j]] = height'[q] - 1
  <2>1. PICK o \in Live : \E x \in 1 .. Len(disk[o].kids) :
          /\ disk'[q].kids[j] = disk[o].kids[x]
          /\ height'[q] = height[o]
    BY <1>9, <1>10
  <2>2. QED
    BY <2>1, AllKids DEF c
<1>11. ChildrenBelow'
  <2> SUFFICES ASSUME NEW q \in Live'
               PROVE  /\ disk'[q].leaf <=> height'[q] = 0
                      /\ \A j \in DOMAIN disk'[q].kids :
                           /\ disk'[q].kids[j] \in Live' \ {root'}
                           /\ height'[disk'[q].kids[j]] = height'[q] - 1
    BY DEF ChildrenBelow
  <2>1. disk'[q].leaf <=> height'[q] = 0
    <3>1. \A s \in Live : disk[s].leaf <=> height[s] = 0
      BY DEF Tree, ChildrenBelow
    <3>2. CASE q = new
      BY <1>2, <1>3, <1>4, <1>R, <3>1, <3>2
    <3>3. CASE q = c
      BY <1>2, <1>3, <1>4, <1>L, <3>1, <3>3
    <3>4. CASE q = top
      BY <1>2, <1>3, <1>4, <1>T, <3>4
    <3>5. CASE q \in Live /\ q # c
      BY <1>3, <1>4, <1>5, <3>1, <3>5
    <3>6. QED
      BY <1>5, <3>2, <3>3, <3>4, <3>5
  <2>2. ASSUME NEW j \in DOMAIN disk'[q].kids
        PROVE  /\ disk'[q].kids[j] \in Live' \ {root'}
               /\ height'[disk'[q].kids[j]] = height'[q] - 1
    <3>1. CASE q = top
      <4>1. disk'[q].kids[j] = c \/ disk'[q].kids[j] = new
        BY <1>t, <3>1
      <4>2. /\ height'[c] = height[c] /\ height'[new] = height[c]
            /\ height'[top] - 1 = height[c]
        BY <1>2, <1>4
      <4>3. c \in Live' \ {root'} /\ new \in Live' \ {root'}
        BY <1>2, <1>5
      <4>4. QED
        BY <3>1, <4>1, <4>2, <4>3
    <3>2. CASE q # top
      BY SMTT(60), <1>4, <1>5, <1>10, <3>2
    <3>3. QED
      BY <3>1, <3>2
  <2>3. QED
    BY <2>1, <2>2
<1>12. OneParent'
  <2> SUFFICES ASSUME NEW q \in Live', NEW s \in Live',
                      NEW j \in DOMAIN disk'[q].kids,
                      NEW k \in DOMAIN disk'[s].kids,
                      disk'[q].kids[j] = disk'[s].kids[k]
               PROVE  q = s /\ j = k
    BY DEF OneParent
  <2>1. CASE q # top /\ s # top
    <3>o. PICK o \in Live : \E x \in 1 .. Len(disk[o].kids) :
            /\ Origin(q, j, o, x) /\ j \in 1 .. Len(disk'[q].kids)
            /\ disk'[q].kids[j] = disk[o].kids[x]
      BY <1>9, <2>1
    <3>w. PICK w \in Live : \E y \in 1 .. Len(disk[w].kids) :
            /\ Origin(s, k, w, y) /\ k \in 1 .. Len(disk'[s].kids)
            /\ disk'[s].kids[k] = disk[w].kids[y]
      BY <1>9, <2>1
    <3>1. PICK x \in 1 .. Len(disk[o].kids) :
            /\ Origin(q, j, o, x) /\ j \in 1 .. Len(disk'[q].kids)
            /\ disk'[q].kids[j] = disk[o].kids[x]
      BY <3>o
    <3>2. PICK y \in 1 .. Len(disk[w].kids) :
            /\ Origin(s, k, w, y) /\ k \in 1 .. Len(disk'[s].kids)
            /\ disk'[s].kids[k] = disk[w].kids[y]
      BY <3>w
    <3>3. o = w /\ x = y
      <4>1. disk[o].kids[x] = disk[w].kids[y]
        BY <3>1, <3>2
      <4>2. QED
        BY <4>1, AllKids
    <3>4. l \in Int /\ j \in Int /\ k \in Int /\ j >= 1 /\ k >= 1
      BY <1>1, <3>1, <3>2
    <3>5. c # new
      BY <1>2, <1>5
    <3>6. QED
      BY <3>1, <3>2, <3>3, <3>4, <3>5 DEF Origin
  <2>2. CASE q = top /\ s # top
    BY <1>5, <1>10, <1>t, <2>2
  <2>3. CASE q # top /\ s = top
    BY <1>5, <1>10, <1>t, <2>3
  <2>4. CASE q = top /\ s = top
    BY <1>2, <1>5, <1>t, <2>4
  <2>5. QED
    BY <2>1, <2>2, <2>3, <2>4
<1>13. ~Full(disk'[top])
  BY <1>1, <1>3, <1>T DEF Full, MaxCount
<1>14. QED
  BY <1>5, <1>6, <1>7, <1>11, <1>12, <1>13 DEF Tree

-----------------------------------------------------------------------------
(* Two neighbouring children. *)
LEMMA Siblings ==
  ASSUME Tree, NEW p \in Live, ~disk[p].leaf, NEW i \in 1 .. Count(disk[p]),
         NEW a, a = disk[p].kids[i], NEW b, b = disk[p].kids[i + 1]
  PROVE  /\ a \in Live /\ a # root /\ a # p /\ b \in Live /\ b # root /\ b # p
         /\ a # b
         /\ height[a] = height[p] - 1 /\ height[b] = height[p] - 1
         /\ disk[a] \in Node /\ WellFormed(disk[a])
         /\ disk[b] \in Node /\ WellFormed(disk[b])
         /\ Count(disk[a]) \in Nat /\ Count(disk[b]) \in Nat
         /\ Count(disk[a]) >= Order - 1 /\ Count(disk[b]) >= Order - 1
         /\ disk[a].leaf = disk[b].leaf
         /\ disk[p].recs[i] \in Record
<1>a. /\ Len(disk[p].kids) = Count(disk[p]) + 1 /\ Count(disk[p]) \in Nat
      /\ disk[p] \in Node
  BY PageFacts DEF WellFormed, Live
<1> DEFINE k == i + 1
<1>1. /\ i \in 1 .. Len(disk[p].kids) /\ k \in 1 .. Len(disk[p].kids)
      /\ i # k /\ b = disk[p].kids[k]
  BY <1>a
<1> HIDE DEF k
<1>2. a \in Live /\ a # root /\ a # p /\ height[a] = height[p] - 1
  BY <1>1, KidFacts
<1>3. b \in Live /\ b # root /\ b # p /\ height[b] = height[p] - 1
  BY <1>1, KidFacts
<1>4. a # b
  BY <1>1, AllKids
<1>5. /\ disk[a] \in Node /\ WellFormed(disk[a])
      /\ disk[b] \in Node /\ WellFormed(disk[b])
      /\ Count(disk[a]) \in Nat /\ Count(disk[b]) \in Nat
      /\ Count(disk[a]) >= Order - 1 /\ Count(disk[b]) >= Order - 1
  BY <1>2, <1>3, PageFacts
<1>6. disk[a].leaf <=> disk[b].leaf
  BY <1>2, <1>3 DEF Tree, ChildrenBelow
<1>7. disk[p].recs[i] \in Record
  <2>1. disk[p].recs \in Seq(Record) /\ i \in 1 .. Len(disk[p].recs)
    BY <1>a, NodeParts DEF Count
  <2>2. QED
    BY <2>1, ElementOfSeq
<1>8. QED
  BY <1>2, <1>3, <1>4, <1>5, <1>6, <1>7, NodeParts

(* Two children of T - 1 records merge: the right one leaves the tree. *)
LEMMA MergeChildren ==
  ASSUME Tree, NEW p \in Live, ~disk[p].leaf, p # root => CanSpare(disk[p]),
         NEW i \in 1 .. Count(disk[p]),
         NEW a, a = disk[p].kids[i], NEW b, b = disk[p].kids[i + 1],
         ~CanSpare(disk[a]), ~CanSpare(disk[b]), Merge(p, i, a, b)
  PROVE  /\ Tree' /\ a \in Live' /\ a # root'
         /\ CanSpare(disk'[a]) /\ height'[a] = height[p] - 1
<1> DEFINE n == Len(disk[p].kids)
           l == Len(disk[a].kids)
           m == Len(disk[b].kids)
           M == Merged(disk[a], disk[p].recs[i], disk[b])
           D == Drop(disk[p], i)
           Z == IF Wipe THEN ZeroNode ELSE disk[b]
<1>a. /\ n \in Nat /\ i \in 1 .. n /\ i + 1 \in 1 .. n
      /\ n = Count(disk[p]) + 1 /\ disk[p] \in Node /\ WellFormed(disk[p])
  BY SMTT(60), PageFacts DEF WellFormed, Live
<1>S. /\ disk' = [disk EXCEPT ![a] = M, ![p] = D, ![b] = Z]
      /\ freed' = freed \cup {b} /\ height' = height /\ root' = root
  BY DEF Merge
<1> HIDE DEF n, l, m, M, D, Z
<1>2. /\ a \in Live /\ a # root /\ a # p /\ b \in Live /\ b # root /\ b # p
      /\ a # b
      /\ height[a] = height[p] - 1 /\ height[b] = height[p] - 1
  BY Siblings
<1>1. /\ disk \in Seq(Node) /\ height \in Seq(Nat) /\ Len(height) = Len(disk)
      /\ Len(disk) \in Nat /\ DOMAIN disk = 1 .. Len(disk)
      /\ \A q \in Live : q \in DOMAIN disk /\ q \notin freed
      /\ Order \in Nat /\ Order >= 2
  BY PageFacts, OrderAssumption DEF Tree, TreeTypes
<1>b. /\ disk[a] \in Node /\ WellFormed(disk[a]) /\ Count(disk[a]) = Order - 1
      /\ disk[b] \in Node /\ WellFormed(disk[b]) /\ Count(disk[b]) = Order - 1
      /\ disk[a].leaf = disk[b].leaf /\ l \in Nat /\ m \in Nat
  <2>1. /\ disk[a] \in Node /\ WellFormed(disk[a])
        /\ disk[b] \in Node /\ WellFormed(disk[b])
        /\ Count(disk[a]) \in Nat /\ Count(disk[b]) \in Nat
        /\ Count(disk[a]) >= Order - 1 /\ Count(disk[b]) >= Order - 1
        /\ disk[a].leaf = disk[b].leaf
    BY SMTT(60), Siblings
  <2>2. Count(disk[a]) = Order - 1 /\ Count(disk[b]) = Order - 1
    BY <1>1, <2>1 DEF CanSpare
  <2>3. QED
    BY <2>1, <2>2, NodeParts DEF l, m
<1>r. disk[p].recs[i] \in Record
  BY SMTT(60), Siblings
<1>M. /\ M \in Node /\ WellFormed(M) /\ M.leaf = disk[a].leaf
      /\ Count(M) = 2 * Order - 1 /\ Len(M.kids) = l + m
      /\ \A j \in 1 .. l + m :
           M.kids[j] = IF j <= l THEN disk[a].kids[j] ELSE disk[b].kids[j - l]
  <2> DEFINE r == disk[p].recs[i]
             A == disk[a]
             B == disk[b]
  <2>1. /\ r \in Record /\ M = Merged(A, r, B) /\ l = Len(A.kids)
        /\ m = Len(B.kids) /\ A \in Node /\ B \in Node
        /\ WellFormed(A) /\ WellFormed(B) /\ A.leaf = B.leaf
        /\ Count(A) = Order - 1 /\ Count(B) = Order - 1
    BY <1>b, <1>r DEF M, l, m
  <2> HIDE DEF r, A, B
  <2>2. /\ Merged(A, r, B) \in Node /\ WellFormed(Merged(A, r, B))
        /\ Merged(A, r, B).leaf = A.leaf
        /\ Count(Merged(A, r, B)) = MaxCount
        /\ Len(Merged(A, r, B).kids) = Len(A.kids) + Len(B.kids)
        /\ \A j \in 1 .. Len(A.kids) + Len(B.kids) :
             Merged(A, r, B).kids[j] =
               IF j <= Len(A.kids) THEN A.kids[j] ELSE B.kids[j - Len(A.kids)]
    BY <2>1, MergedNode
  <2>3. QED
    BY <2>1, <2>2 DEF A, B, MaxCount
<1>D. /\ D \in Node /\ WellFormed(D) /\ D.leaf = disk[p].leaf
      /\ Count(D) = Count(disk[p]) - 1 /\ Len(D.kids) = n - 1
      /\ \A j \in 1 .. n - 1 :
           D.kids[j] = IF j < i + 1 THEN disk[p].kids[j]
                                    ELSE disk[p].kids[j + 1]
  <2> DEFINE A == disk[p]
  <2>1. /\ A \in Node /\ WellFormed(A) /\ ~A.leaf /\ i \in 1 .. Count(A)
        /\ D = Drop(A, i) /\ n = Len(A.kids)
    BY <1>a DEF D, n
  <2> HIDE DEF A
  <2>2. /\ Drop(A, i) \in Node /\ WellFormed(Drop(A, i))
        /\ Drop(A, i).leaf = A.leaf /\ Count(Drop(A, i)) = Count(A) - 1
        /\ Len(Drop(A, i).kids) = Len(A.kids) - 1
        /\ \A j \in 1 .. Len(A.kids) - 1 :
             Drop(A, i).kids[j] = IF j < i + 1 THEN A.kids[j]
                                               ELSE A.kids[j + 1]
    BY <2>1, DropNode
  <2>3. QED
    BY <2>1, <2>2 DEF A
<1>Z. Z \in Node
  BY <1>b, EmptySeq DEF Z, ZeroNode, Node
<1>3. /\ disk' \in Seq(Node) /\ Len(disk') = Len(disk)
      /\ DOMAIN disk' = DOMAIN disk
      /\ disk'[a] = M /\ disk'[p] = D
      /\ \A q \in DOMAIN disk : q # a /\ q # p /\ q # b => disk'[q] = disk[q]
  <2> DEFINE d == [disk EXCEPT ![a] = M]
             e == [d EXCEPT ![p] = D]
  <2>1. disk' = [e EXCEPT ![b] = Z]
    BY <1>S
  <2>2. /\ a \in 1 .. Len(disk) /\ p \in 1 .. Len(disk)
        /\ b \in 1 .. Len(disk) /\ disk \in Seq(Node)
    BY <1>1, <1>2
  <2> HIDE DEF e
  <2>3. /\ d \in Seq(Node) /\ Len(d) = Len(disk)
        /\ \A q \in 1 .. Len(disk) : d[q] = IF q = a THEN M ELSE disk[q]
    BY <1>M, <2>2, OneElement
  <2> USE DEF e
  <2> HIDE DEF d
  <2>4. /\ e \in Seq(Node) /\ Len(e) = Len(disk)
        /\ \A q \in 1 .. Len(disk) : e[q] = IF q = p THEN D ELSE d[q]
    BY <1>D, <2>2, <2>3, OneElement
  <2> HIDE DEF e
  <2> DEFINE f == [e EXCEPT ![b] = Z]
  <2>5. /\ f \in Seq(Node) /\ Len(f) = Len(disk)
        /\ \A q \in 1 .. Len(disk) : f[q] = IF q = b THEN Z ELSE e[q]
    BY <1>Z, <2>2, <2>4, OneElement
  <2>6. DOMAIN f = DOMAIN disk
    BY <2>2, <2>5, LenProperties
  <2> HIDE DEF f
  <2>7. QED
    BY <1>1, <1>2, <2>1, <2>2, <2>3, <2>4, <2>5, <2>6 DEF f
<1>4. /\ height' = height /\ root' = root
      /\ Live' = Live \ {b} /\ a \in Live' /\ p \in Live' /\ root \in Live'
  BY SMTT(60), <1>2, <1>3, <1>S DEF Live, Tree
<1>6. TreeTypes' /\ (root \in Live)'
  BY SMTT(60), <1>1, <1>2, <1>3, <1>4, <1>S DEF Tree, TreeTypes
<1>7. NodeBounds'
  <2> SUFFICES ASSUME NEW q \in Live'
               PROVE  /\ WellFormed(disk'[q])
                      /\ q # root => Count(disk'[q]) >= Order - 1
    BY <1>4 DEF NodeBounds
  <2>1. CASE q = a
    BY <1>3, <1>M, <2>1, NoFewer, Zenon
  <2>2. CASE q = p
    <3>1. Count(disk[p]) \in Nat
      BY PageFacts
    <3>2. q # root => Count(disk[p]) >= Order
      BY <2>2 DEF CanSpare
    <3>3. QED
      BY <1>1, <1>3, <1>D, <2>2, <3>1, <3>2
  <2>3. CASE q \in Live /\ q # a /\ q # p /\ q # b
    BY <1>1, <1>3, <2>3, PageFacts
  <2>4. QED
    BY <1>4, <2>1, <2>2, <2>3
<1>8. \A q \in Live' : DOMAIN disk'[q].kids = 1 .. Len(disk'[q].kids)
  <2>1. \A q \in Live' : disk'[q] \in Node
    BY <1>3, <1>4, <1>M, <1>D, PageFacts
  <2>2. QED
    BY <2>1, NodeParts
(* The pointer in slot j of page q was in slot x of page o. *)
<1> DEFINE Origin(q, j, o, x) ==
             \/ q = a /\ o = a /\ j <= l /\ x = j
             \/ q = a /\ o = b /\ j > l /\ x = j - l
             \/ q = p /\ o = p /\ j < i + 1 /\ x = j
             \/ q = p /\ o = p /\ j >= i + 1 /\ x = j + 1
             \/ q # a /\ q # p /\ q # b /\ o = q /\ x = j
<1>9. ASSUME NEW q \in Live', NEW j \in DOMAIN disk'[q].kids
      PROVE  \E o \in Live : \E x \in 1 .. Len(disk[o].kids) :
               /\ Origin(q, j, o, x) /\ j \in 1 .. Len(disk'[q].kids)
               /\ disk'[q].kids[j] = disk[o].kids[x]
               /\ height[q] = height[o]
  <2>1. j \in 1 .. Len(disk'[q].kids)
    BY <1>8
  <2>2. CASE q = a
    <3>1. /\ j \in 1 .. l + m
          /\ disk'[q].kids[j] = IF j <= l THEN disk[a].kids[j]
                                ELSE disk[b].kids[j - l]
      BY <1>3, <1>M, <2>1, <2>2
    <3>2. CASE j <= l
      <4>1. j \in 1 .. l
        BY SMTT(60), <1>b, <3>1, <3>2
      <4>2. QED
        BY <1>2, <2>1, <2>2, <3>1, <3>2, <4>1 DEF l
    <3>3. CASE j > l
      <4>1. j - l \in 1 .. m /\ ~(j <= l)
        BY <1>b, <3>1, <3>3
      <4>2. QED
        BY <1>2, <2>1, <2>2, <3>1, <3>3, <4>1 DEF m
    <3>4. j <= l \/ j > l
      BY <1>b, <3>1
    <3>5. QED
      BY SMTT(60), <3>2, <3>3, <3>4
  <2>3. CASE q = p
    <3>1. /\ j \in 1 .. n - 1
          /\ disk'[q].kids[j] = IF j < i + 1 THEN disk[p].kids[j]
                                ELSE disk[p].kids[j + 1]
      BY <1>3, <1>D, <2>1, <2>3
    <3>2. CASE j < i + 1
      <4>1. j \in 1 .. n
        BY <1>a, <3>1
      <4>2. QED
        BY <2>1, <2>3, <3>1, <3>2, <4>1 DEF n
    <3>3. CASE j >= i + 1
      <4>1. j + 1 \in 1 .. n /\ ~(j < i + 1)
        BY <1>a, <3>1, <3>3
      <4>2. QED
        BY <2>1, <2>3, <3>1, <3>3, <4>1 DEF n
    <3>4. j < i + 1 \/ j >= i + 1
      BY <1>a, <3>1
    <3>5. QED
      BY <3>2, <3>3, <3>4
  <2>4. CASE q # a /\ q # p
    <3>1. q # b /\ disk'[q] = disk[q] /\ q \in Live
      BY <1>1, <1>3, <1>4, <2>4
    <3>2. QED
      BY <2>1, <2>4, <3>1
  <2>5. QED
    BY <2>2, <2>3, <2>4
<1> HIDE DEF Origin
<1>10. \A q, j, o, x : Origin(q, j, o, x) /\ j \in Int => ~(o = p /\ x = i + 1)
  BY <1>2, <1>a DEF Origin
<1>11. ChildrenBelow'
  <2> SUFFICES ASSUME NEW q \in Live'
               PROVE  /\ disk'[q].leaf <=> height'[q] = 0
                      /\ \A j \in DOMAIN disk'[q].kids :
                           /\ disk'[q].kids[j] \in Live' \ {root'}
                           /\ height'[disk'[q].kids[j]] = height'[q] - 1
    BY DEF ChildrenBelow
  <2>1. disk'[q].leaf <=> height'[q] = 0
    <3>1. \A r \in Live : disk[r].leaf <=> height[r] = 0
      BY SMTT(60) DEF Tree, ChildrenBelow
    <3>2. CASE q = a
      BY <1>2, <1>3, <1>4, <1>M, <3>1, <3>2
    <3>3. CASE q = p
      BY <1>2, <1>3, <1>4, <1>D, <3>1, <3>3
    <3>4. CASE q # a /\ q # p
      BY <1>1, <1>3, <1>4, <3>1, <3>4
    <3>5. QED
      BY <3>2, <3>3, <3>4
  <2>2. ASSUME NEW j \in DOMAIN disk'[q].kids
        PROVE  /\ disk'[q].kids[j] \in Live' \ {root'}
               /\ height'[disk'[q].kids[j]] = height'[q] - 1
    <3>o. PICK o \in Live : \E x \in 1 .. Len(disk[o].kids) :
            /\ Origin(q, j, o, x) /\ j \in 1 .. Len(disk'[q].kids)
            /\ disk'[q].kids[j] = disk[o].kids[x]
            /\ height[q] = height[o]
      BY <1>9
    <3>x. PICK x \in 1 .. Len(disk[o].kids) :
            /\ Origin(q, j, o, x) /\ j \in 1 .. Len(disk'[q].kids)
            /\ disk'[q].kids[j] = disk[o].kids[x]
            /\ height[q] = height[o]
      BY <3>o
    <3>1. /\ disk'[q].kids[j] \in Live \ {root}
          /\ height[disk'[q].kids[j]] = height[q] - 1
      BY <3>x, AllKids
    <3>2. disk'[q].kids[j] # b
      <4> SUFFICES ASSUME disk'[q].kids[j] = b PROVE FALSE
        OBVIOUS
      <4> DEFINE k == i + 1
      <4>1. disk[o].kids[x] = disk[p].kids[k] /\ k \in 1 .. Len(disk[p].kids)
        BY <1>a, <3>x DEF n
      <4> HIDE DEF k
      <4>2. o = p /\ x = k
        BY <4>1, AllKids
      <4>3. j \in Int
        BY <3>x
      <4>4. QED
        BY <1>10, <3>x, <4>2, <4>3 DEF k
    <3>3. QED
      BY <1>4, <3>1, <3>2
  <2>3. QED
    BY <2>1, <2>2
<1>12. OneParent'
  <2> SUFFICES ASSUME NEW q \in Live', NEW s \in Live',
                      NEW j \in DOMAIN disk'[q].kids,
                      NEW k \in DOMAIN disk'[s].kids,
                      disk'[q].kids[j] = disk'[s].kids[k]
               PROVE  q = s /\ j = k
    BY DEF OneParent
  <2>o. PICK o \in Live : \E x \in 1 .. Len(disk[o].kids) :
          /\ Origin(q, j, o, x) /\ j \in 1 .. Len(disk'[q].kids)
          /\ disk'[q].kids[j] = disk[o].kids[x]
    BY <1>9
  <2>w. PICK w \in Live : \E y \in 1 .. Len(disk[w].kids) :
          /\ Origin(s, k, w, y) /\ k \in 1 .. Len(disk'[s].kids)
          /\ disk'[s].kids[k] = disk[w].kids[y]
    BY <1>9
  <2>1. PICK x \in 1 .. Len(disk[o].kids) :
          /\ Origin(q, j, o, x) /\ j \in 1 .. Len(disk'[q].kids)
          /\ disk'[q].kids[j] = disk[o].kids[x]
    BY <2>o
  <2>2. PICK y \in 1 .. Len(disk[w].kids) :
          /\ Origin(s, k, w, y) /\ k \in 1 .. Len(disk'[s].kids)
          /\ disk'[s].kids[k] = disk[w].kids[y]
    BY <2>w
  <2>3. o = w /\ x = y
    <3>1. disk[o].kids[x] = disk[w].kids[y]
      BY <2>1, <2>2
    <3>2. QED
      BY <3>1, AllKids
  <2>4. l \in Int /\ i \in Int /\ j \in Int /\ k \in Int
    BY <1>a, <1>b, <2>1, <2>2
  <2>5. a # p /\ b # p /\ a # b
    BY SMTT(60), <1>2
  <2>6. QED
    BY SMTT(60), <2>1, <2>2, <2>3, <2>4, <2>5 DEF Origin
<1>13. CanSpare(disk'[a])
  BY <1>1, <1>3, <1>M DEF CanSpare
<1>14. QED
  BY <1>2, <1>4, <1>6, <1>7, <1>11, <1>12, <1>13 DEF Tree

-----------------------------------------------------------------------------
(* Each child pointer of the images G and F is one of the pages t and f now,
   and none is there twice. *)
Shares(t, f, G, F) ==
  /\ \A j \in 1 .. Len(G.kids) : \E o \in {t, f} :
       \E x \in 1 .. Len(disk[o].kids) : G.kids[j] = disk[o].kids[x]
  /\ \A j \in 1 .. Len(F.kids) : \E o \in {t, f} :
       \E x \in 1 .. Len(disk[o].kids) : F.kids[j] = disk[o].kids[x]
  /\ \A j, k \in 1 .. Len(G.kids) : G.kids[j] = G.kids[k] => j = k
  /\ \A j, k \in 1 .. Len(F.kids) : F.kids[j] = F.kids[k] => j = k
  /\ \A j \in 1 .. Len(G.kids), k \in 1 .. Len(F.kids) :
       G.kids[j] # F.kids[k]

(* What a rotation does to the two nodes and their parent. *)
Rotated(t, p, f, G, Q, F) ==
  /\ disk' = [disk EXCEPT ![t] = G, ![p] = Q, ![f] = F]
  /\ UNCHANGED <<height, root, freed>>

(* Two children exchange a record and a child through their parent. *)
LEMMA Rotate ==
  ASSUME Tree, NEW p \in Live, NEW t \in Live, NEW f \in Live,
         t # p, f # p, t # f, height[t] = height[f],
         disk[t].leaf = disk[f].leaf,
         NEW G \in Node, WellFormed(G), Count(G) >= Order - 1,
         NEW F \in Node, WellFormed(F), Count(F) >= Order - 1,
         G.leaf = disk[t].leaf, F.leaf = disk[f].leaf,
         NEW Q \in Node, WellFormed(Q), Count(Q) = Count(disk[p]),
         Q.leaf = disk[p].leaf, Q.kids = disk[p].kids,
         Shares(t, f, G, F),
         Rotated(t, p, f, G, Q, F)
  PROVE  Tree' /\ Live' = Live /\ disk'[t] = G
<1>S. UNCHANGED <<height, root, freed>>
  BY DEF Rotated
<1>1. /\ disk \in Seq(Node) /\ height \in Seq(Nat) /\ Len(height) = Len(disk)
      /\ Len(disk) \in Nat /\ DOMAIN disk = 1 .. Len(disk)
      /\ \A q \in Live : q \in DOMAIN disk
  BY PageFacts DEF Tree, TreeTypes
<1>3. /\ disk' \in Seq(Node) /\ Len(disk') = Len(disk)
      /\ DOMAIN disk' = DOMAIN disk
      /\ disk'[t] = G /\ disk'[p] = Q /\ disk'[f] = F
      /\ \A q \in DOMAIN disk : q # t /\ q # p /\ q # f => disk'[q] = disk[q]
  <2> DEFINE d == [disk EXCEPT ![t] = G]
             e == [d EXCEPT ![p] = Q]
             g == [e EXCEPT ![f] = F]
  <2>1. disk' = g
    BY DEF Rotated
  <2>2. /\ t \in 1 .. Len(disk) /\ p \in 1 .. Len(disk)
        /\ f \in 1 .. Len(disk)
    BY <1>1
  <2> HIDE DEF e, g
  <2>3. /\ d \in Seq(Node) /\ Len(d) = Len(disk)
        /\ \A q \in 1 .. Len(disk) : d[q] = IF q = t THEN G ELSE disk[q]
    BY <1>1, <2>2, OneElement
  <2> USE DEF e
  <2> HIDE DEF d
  <2>4. /\ e \in Seq(Node) /\ Len(e) = Len(disk)
        /\ \A q \in 1 .. Len(disk) : e[q] = IF q = p THEN Q ELSE d[q]
    BY <2>2, <2>3, OneElement
  <2> USE DEF g
  <2> HIDE DEF e
  <2>5. /\ g \in Seq(Node) /\ Len(g) = Len(disk)
        /\ \A q \in 1 .. Len(disk) : g[q] = IF q = f THEN F ELSE e[q]
    BY <2>2, <2>4, OneElement
  <2> HIDE DEF g
  <2>6. DOMAIN g = DOMAIN disk
    BY <1>1, <2>5, LenProperties
  <2>7. QED
    BY <1>1, <2>1, <2>2, <2>3, <2>4, <2>5, <2>6
<1>4. Live' = Live
  BY <1>3, <1>S DEF Live
<1>6. TreeTypes' /\ (root \in Live)'
  BY <1>1, <1>3, <1>4, <1>S DEF Tree, TreeTypes
<1>7. NodeBounds'
  <2> SUFFICES ASSUME NEW q \in Live
               PROVE  /\ WellFormed(disk'[q])
                      /\ q # root => Count(disk'[q]) >= Order - 1
    BY <1>4, <1>S DEF NodeBounds
  <2>1. CASE q = t \/ q = f
    BY <1>3, <2>1
  <2>2. CASE q = p
    BY <1>3, <2>2, PageFacts
  <2>3. CASE q # t /\ q # p /\ q # f
    BY <1>1, <1>3, <2>3, PageFacts
  <2>4. QED
    BY <2>1, <2>2, <2>3
<1>8. \A q \in Live : DOMAIN disk'[q].kids = 1 .. Len(disk'[q].kids)
  <2>1. \A q \in Live : disk'[q] \in Node
    BY <1>1, <1>3, PageFacts
  <2>2. QED
    BY <2>1, NodeParts
<1>9. \A q \in Live : q # t /\ q # f => disk'[q].kids = disk[q].kids
  BY <1>1, <1>3
<1>10. ASSUME NEW q \in {t, f}, NEW j \in 1 .. Len(disk'[q].kids)
       PROVE  \E o \in {t, f} : \E x \in 1 .. Len(disk[o].kids) :
                disk'[q].kids[j] = disk[o].kids[x]
  <2>1. CASE q = t
    <3>1. disk'[q] = G /\ j \in 1 .. Len(G.kids)
      BY <1>3, <2>1
    <3>2. \E o \in {t, f} : \E x \in 1 .. Len(disk[o].kids) :
            G.kids[j] = disk[o].kids[x]
      BY <3>1 DEF Shares
    <3>3. QED
      BY <3>1, <3>2
  <2>2. CASE q = f
    <3>1. disk'[q] = F /\ j \in 1 .. Len(F.kids)
      BY <1>3, <2>2
    <3>2. \E o \in {t, f} : \E x \in 1 .. Len(disk[o].kids) :
            F.kids[j] = disk[o].kids[x]
      BY <3>1 DEF Shares
    <3>3. QED
      BY <3>1, <3>2
  <2>3. QED
    BY <2>1, <2>2
<1>11. ChildrenBelow'
  <2> SUFFICES ASSUME NEW q \in Live'
               PROVE  /\ disk'[q].leaf <=> height'[q] = 0
                      /\ \A j \in DOMAIN disk'[q].kids :
                           /\ disk'[q].kids[j] \in Live' \ {root'}
                           /\ height'[disk'[q].kids[j]] = height'[q] - 1
    BY DEF ChildrenBelow
  <2>0. q \in Live
    BY <1>4
  <2>1. disk'[q].leaf <=> height'[q] = 0
    <3>1. \A r \in Live : disk[r].leaf <=> height[r] = 0
      BY DEF Tree, ChildrenBelow
    <3>2. disk'[q].leaf = disk[q].leaf
      BY <1>1, <1>3, <2>0
    <3>3. QED
      BY <1>S, <2>0, <3>1, <3>2
  <2>2. ASSUME NEW j \in DOMAIN disk'[q].kids
        PROVE  /\ disk'[q].kids[j] \in Live \ {root}
               /\ height[disk'[q].kids[j]] = height[q] - 1
    <3>j. j \in 1 .. Len(disk'[q].kids)
      BY <1>8, <2>0
    <3>1. CASE q \in {t, f}
      <4>1. PICK o \in {t, f} : \E x \in 1 .. Len(disk[o].kids) :
              disk'[q].kids[j] = disk[o].kids[x]
        BY <1>10, <3>j, <3>1
      <4>2. o \in Live /\ height[o] = height[q]
        BY <3>1
      <4>3. QED
        BY <4>1, <4>2, AllKids
    <3>2. CASE q \notin {t, f}
      <4>1. /\ disk'[q].kids[j] = disk[q].kids[j]
            /\ j \in 1 .. Len(disk[q].kids)
        BY <1>9, <2>0, <3>j, <3>2
      <4>2. QED
        BY <2>0, <4>1, AllKids
    <3>3. QED
      BY <3>1, <3>2
  <2>3. QED
    BY <1>4, <1>S, <2>1, <2>2
<1>12. ASSUME NEW u \in {t, f}, NEW x \in 1 .. Len(disk'[u].kids),
              NEW v \in Live, v \notin {t, f}, NEW y \in 1 .. Len(disk'[v].kids),
              disk'[u].kids[x] = disk'[v].kids[y]
       PROVE  FALSE
  <2>1. PICK o \in {t, f} : \E z \in 1 .. Len(disk[o].kids) :
          disk'[u].kids[x] = disk[o].kids[z]
    BY <1>10
  <2>2. PICK z \in 1 .. Len(disk[o].kids) :
          disk'[u].kids[x] = disk[o].kids[z]
    BY <2>1
  <2>3. disk'[v].kids = disk[v].kids /\ o # v /\ o \in Live
    BY <1>9, <1>12
  <2>4. disk[o].kids[z] = disk[v].kids[y] /\ y \in 1 .. Len(disk[v].kids)
    BY <1>12, <2>2, <2>3
  <2>5. QED
    BY <2>3, <2>4, AllKids
<1>13. OneParent'
  <2> SUFFICES ASSUME NEW q \in Live', NEW s \in Live',
                      NEW j \in DOMAIN disk'[q].kids,
                      NEW k \in DOMAIN disk'[s].kids,
                      disk'[q].kids[j] = disk'[s].kids[k]
               PROVE  q = s /\ j = k
    BY DEF OneParent
  <2>1. /\ q \in Live /\ j \in 1 .. Len(disk'[q].kids)
        /\ s \in Live /\ k \in 1 .. Len(disk'[s].kids)
    BY <1>4, <1>8
  <2>2. CASE q \in {t, f} /\ s \in {t, f}
    BY SMTT(60), <1>3, <2>1, <2>2 DEF Shares
  <2>3. ~(q \in {t, f} /\ s \notin {t, f})
    BY <1>12, <2>1
  <2>4. ~(q \notin {t, f} /\ s \in {t, f})
    BY <1>12, <2>1
  <2>5. CASE q \notin {t, f} /\ s \notin {t, f}
    <3>1. /\ disk[q].kids[j] = disk[s].kids[k]
          /\ j \in 1 .. Len(disk[q].kids) /\ k \in 1 .. Len(disk[s].kids)
      BY <1>9, <2>1, <2>5
    <3>2. QED
      BY <2>1, <3>1, AllKids
  <2>6. QED
    BY <2>2, <2>3, <2>4, <2>5
<1>14. QED
  BY <1>3, <1>4, <1>6, <1>7, <1>11, <1>13 DEF Tree

(* What Rotate asks for. *)
Turns(t, p, f, G, Q, F) ==
  /\ t \in Live /\ f \in Live /\ t # p /\ f # p /\ t # f
  /\ height[t] = height[f] /\ disk[t].leaf = disk[f].leaf
  /\ G \in Node /\ WellFormed(G) /\ Count(G) >= Order - 1
  /\ F \in Node /\ WellFormed(F) /\ Count(F) >= Order - 1
  /\ G.leaf = disk[t].leaf /\ F.leaf = disk[f].leaf
  /\ Q \in Node /\ WellFormed(Q) /\ Count(Q) = Count(disk[p])
  /\ Q.leaf = disk[p].leaf /\ Q.kids = disk[p].kids
  /\ Shares(t, f, G, F) /\ Rotated(t, p, f, G, Q, F)

(* A rotation keeps the tree. *)
LEMMA RotateTurns ==
  ASSUME Tree, NEW p \in Live, NEW t, NEW f, NEW G, NEW Q, NEW F,
         Turns(t, p, f, G, Q, F)
  PROVE  Tree' /\ Live' = Live /\ disk'[t] = G
BY Rotate DEF Turns

(* An underfull child takes the last record of its left sibling through the
   parent, and the sibling's last child with it. *)
LEMMA BorrowLeft ==
  ASSUME Tree, NEW p \in Live, ~disk[p].leaf, NEW i \in 1 .. Count(disk[p]),
         NEW f, f = disk[p].kids[i], NEW t, t = disk[p].kids[i + 1],
         ~CanSpare(disk[t]), CanSpare(disk[f]),
         Rotated(t, p, f, GainFirst(disk[t], disk[p].recs[i], disk[f]),
                 Replace(disk[p], i, LastRecord(disk[f])), LoseLast(disk[f]))
  PROVE  /\ Tree' /\ Live' = Live /\ t \in Live /\ t # root
         /\ CanSpare(disk'[t]) /\ height[t] = height[p] - 1
<1> DEFINE A == disk[t]
           B == disk[f]
           r == disk[p].recs[i]
           G == GainFirst(A, r, B)
           F == LoseLast(B)
           Q == Replace(disk[p], i, LastRecord(B))
<1>S. Rotated(t, p, f, G, Q, F)
  BY SMTT(60)
<1> HIDE DEF G, F, Q
<1>1. /\ t \in Live /\ t # root /\ t # p /\ f \in Live /\ f # p /\ t # f
      /\ height[t] = height[p] - 1 /\ height[t] = height[f]
      /\ A \in Node /\ WellFormed(A) /\ B \in Node /\ WellFormed(B)
      /\ Count(A) \in Nat /\ Count(B) \in Nat
      /\ Count(A) >= Order - 1
      /\ A.leaf = B.leaf /\ r \in Record
  BY Siblings
<1>2. /\ Order \in Nat /\ Order >= 2 /\ ~(Count(A) >= Order) /\ Count(B) >= Order
  BY OrderAssumption DEF CanSpare
<1> HIDE DEF A, B, r
<1>3. /\ Count(A) = Order - 1 /\ ~Full(A) /\ Count(B) > 0
  BY <1>1, <1>2, HalfNotFull
<1>G. /\ G \in Node /\ WellFormed(G) /\ G.leaf = A.leaf /\ Count(G) = Order
      /\ Len(G.kids) = IF A.leaf THEN 0 ELSE Len(A.kids) + 1
      /\ \A j \in 1 .. Len(G.kids) :
           G.kids[j] = IF j = 1 THEN B.kids[Len(B.kids)] ELSE A.kids[j - 1]
  <2>1. /\ G \in Node /\ WellFormed(G) /\ G.leaf = A.leaf
        /\ Count(G) = Count(A) + 1
        /\ Len(G.kids) = IF A.leaf THEN 0 ELSE Len(A.kids) + 1
        /\ \A j \in 1 .. Len(G.kids) :
             G.kids[j] = IF j = 1 THEN B.kids[Len(B.kids)] ELSE A.kids[j - 1]
    BY <1>1, <1>3, GainFirstNode DEF G
  <2>2. QED
    BY <1>2, <1>3, <2>1
<1>F. /\ F \in Node /\ WellFormed(F) /\ F.leaf = B.leaf
      /\ Count(F) = Count(B) - 1
      /\ Len(F.kids) = IF B.leaf THEN 0 ELSE Len(B.kids) - 1
      /\ \A j \in 1 .. Len(F.kids) : F.kids[j] = B.kids[j]
  BY <1>1, <1>3, LoseLastNode DEF F
<1>Q. /\ Q \in Node /\ WellFormed(Q) /\ Q.leaf = disk[p].leaf
      /\ Q.kids = disk[p].kids /\ Count(Q) = Count(disk[p])
  <2>1. LastRecord(B) \in Record
    BY <1>1, <1>3, EndRecords
  <2>2. disk[p] \in Node /\ WellFormed(disk[p])
    BY SMTT(60), PageFacts DEF Live
  <2>3. QED
    BY <2>1, <2>2, ReplaceNode DEF Q
<1>4. Shares(t, f, G, F)
  <2>1. /\ Len(A.kids) \in Nat /\ Len(B.kids) \in Nat
        /\ A.leaf => Len(G.kids) = 0 /\ Len(F.kids) = 0
        /\ ~A.leaf => /\ Len(G.kids) = Len(A.kids) + 1
                      /\ Len(F.kids) = Len(B.kids) - 1
                      /\ Len(B.kids) > 0
    <3>1. ~B.leaf => Len(B.kids) = Count(B) + 1
      BY <1>1 DEF WellFormed
    <3>2. QED
      BY <1>1, <1>3, <1>G, <1>F, <3>1, NodeParts
  <2>2. \A x, y \in 1 .. Len(A.kids) : A.kids[x] = A.kids[y] => x = y
    BY <1>1, OwnKids, Zenon DEF A
  <2>3. \A x, y \in 1 .. Len(B.kids) : B.kids[x] = B.kids[y] => x = y
    BY <1>1, OwnKids, Zenon DEF B
  <2>4. \A x \in 1 .. Len(A.kids), y \in 1 .. Len(B.kids) :
          A.kids[x] # B.kids[y]
    BY ZenonT(60), <1>1, AllKids DEF A, B
  <2>5. ASSUME NEW j \in 1 .. Len(G.kids)
        PROVE  \/ /\ j = 1 /\ Len(B.kids) \in 1 .. Len(B.kids)
                  /\ G.kids[j] = B.kids[Len(B.kids)]
               \/ /\ j # 1 /\ j - 1 \in 1 .. Len(A.kids)
                  /\ G.kids[j] = A.kids[j - 1]
    <3>1. ~A.leaf
      BY <2>1
    <3>2. j = 1 => Len(B.kids) \in 1 .. Len(B.kids)
      BY <2>1, <3>1
    <3>3. j # 1 => j - 1 \in 1 .. Len(A.kids)
      BY <2>1, <3>1
    <3>4. QED
      BY <1>G, <3>2, <3>3
  <2>6. ASSUME NEW j \in 1 .. Len(F.kids)
        PROVE  /\ j \in 1 .. Len(B.kids) /\ j # Len(B.kids)
               /\ F.kids[j] = B.kids[j]
    <3>1. j \in 1 .. Len(B.kids) /\ j # Len(B.kids)
      BY SMTT(60), <2>1
    <3>2. QED
      BY <1>F, <3>1
  <2>7. \A j \in 1 .. Len(G.kids) : \E o \in {t, f} :
          \E x \in 1 .. Len(disk[o].kids) : G.kids[j] = disk[o].kids[x]
    BY ZenonT(60), <2>5 DEF A, B
  <2>8. \A j \in 1 .. Len(F.kids) : \E o \in {t, f} :
          \E x \in 1 .. Len(disk[o].kids) : F.kids[j] = disk[o].kids[x]
    BY <2>6 DEF B
  <2>9. \A j, k \in 1 .. Len(G.kids) : G.kids[j] = G.kids[k] => j = k
    <3> SUFFICES ASSUME NEW j \in 1 .. Len(G.kids),
                        NEW k \in 1 .. Len(G.kids), G.kids[j] = G.kids[k]
                 PROVE  j = k
      OBVIOUS
    <3>1. j # 1 /\ k # 1 => j - 1 = k - 1
      BY SMTT(60), <2>2, <2>5
    <3>2. ~(j = 1 /\ k # 1)
      BY ZenonT(60), <2>4, <2>5
    <3>3. ~(j # 1 /\ k = 1)
      BY ZenonT(60), <2>4, <2>5
    <3>4. QED
      BY <3>1, <3>2, <3>3
  <2>10. \A j, k \in 1 .. Len(F.kids) : F.kids[j] = F.kids[k] => j = k
    BY <2>3, <2>6
  <2>11. \A j \in 1 .. Len(G.kids), k \in 1 .. Len(F.kids) :
           G.kids[j] # F.kids[k]
    <3> SUFFICES ASSUME NEW j \in 1 .. Len(G.kids),
                        NEW k \in 1 .. Len(F.kids), G.kids[j] = F.kids[k]
                 PROVE  FALSE
      OBVIOUS
    <3>1. CASE j = 1
      BY <2>3, <2>5, <2>6, <3>1
    <3>2. CASE j # 1
      <4>1. j - 1 \in 1 .. Len(A.kids) /\ G.kids[j] = A.kids[j - 1]
        BY <2>5, <3>2
      <4>2. k \in 1 .. Len(B.kids) /\ F.kids[k] = B.kids[k]
        BY <2>6
      <4>3. QED
        BY <2>4, <4>1, <4>2
    <3>3. QED
      BY <3>1, <3>2
  <2>12. QED
    BY <2>7, <2>8, <2>9, <2>10, <2>11 DEF Shares
<1>5. Count(G) >= Order - 1 /\ Count(F) >= Order - 1
  BY <1>1, <1>2, <1>G, <1>F
<1>6. Tree' /\ Live' = Live /\ disk'[t] = G
  <2>1. /\ t \in Live /\ f \in Live /\ t # p /\ f # p /\ t # f
        /\ height[t] = height[f] /\ disk[t].leaf = disk[f].leaf
    BY <1>1, Zenon DEF A, B
  <2>2. /\ G \in Node /\ WellFormed(G) /\ Count(G) >= Order - 1
        /\ F \in Node /\ WellFormed(F) /\ Count(F) >= Order - 1
        /\ G.leaf = disk[t].leaf /\ F.leaf = disk[f].leaf
    BY ZenonT(60), <1>G, <1>F, <1>5 DEF A, B
  <2>3. ASSUME NEW g, g = G, NEW q, q = Q, NEW h, h = F
        PROVE  Tree' /\ Live' = Live /\ disk'[t] = g
    <3>1. /\ g \in Node /\ WellFormed(g) /\ Count(g) >= Order - 1
          /\ h \in Node /\ WellFormed(h) /\ Count(h) >= Order - 1
          /\ g.leaf = disk[t].leaf /\ h.leaf = disk[f].leaf
          /\ q \in Node /\ WellFormed(q) /\ Count(q) = Count(disk[p])
          /\ q.leaf = disk[p].leaf /\ q.kids = disk[p].kids
          /\ Shares(t, f, g, h) /\ Rotated(t, p, f, g, q, h)
      BY <1>Q, <1>4, <1>S, <2>2, <2>3
    <3>2. Turns(t, p, f, g, q, h)
      BY <2>1, <3>1, Zenon DEF Turns
    <3>3. QED
      BY <3>2, RotateTurns
  <2>4. QED
    BY SMTT(60), <2>3
<1>7. QED
  BY <1>1, <1>2, <1>6, <1>G DEF CanSpare

(* The mirror image: the first record and child of the right sibling. *)
LEMMA BorrowRight ==
  ASSUME Tree, NEW p \in Live, ~disk[p].leaf, NEW i \in 1 .. Count(disk[p]),
         NEW t, t = disk[p].kids[i], NEW f, f = disk[p].kids[i + 1],
         ~CanSpare(disk[t]), CanSpare(disk[f]),
         Rotated(t, p, f, GainLast(disk[t], disk[p].recs[i], disk[f]),
                 Replace(disk[p], i, FirstRecord(disk[f])), LoseFirst(disk[f]))
  PROVE  /\ Tree' /\ Live' = Live /\ t \in Live /\ t # root
         /\ CanSpare(disk'[t]) /\ height[t] = height[p] - 1
<1> DEFINE A == disk[t]
           B == disk[f]
           r == disk[p].recs[i]
           G == GainLast(A, r, B)
           F == LoseFirst(B)
           Q == Replace(disk[p], i, FirstRecord(B))
<1>S. Rotated(t, p, f, G, Q, F)
  BY SMTT(60)
<1> HIDE DEF G, F, Q
<1>1. /\ t \in Live /\ t # root /\ t # p /\ f \in Live /\ f # p /\ t # f
      /\ height[t] = height[p] - 1 /\ height[t] = height[f]
      /\ A \in Node /\ WellFormed(A) /\ B \in Node /\ WellFormed(B)
      /\ Count(A) \in Nat /\ Count(B) \in Nat
      /\ Count(A) >= Order - 1
      /\ A.leaf = B.leaf /\ r \in Record
  BY Siblings
<1>2. /\ Order \in Nat /\ Order >= 2 /\ ~(Count(A) >= Order) /\ Count(B) >= Order
  BY OrderAssumption DEF CanSpare
<1> HIDE DEF A, B, r
<1>3. /\ Count(A) = Order - 1 /\ ~Full(A) /\ Count(B) > 0
  BY <1>1, <1>2, HalfNotFull
<1>G. /\ G \in Node /\ WellFormed(G) /\ G.leaf = A.leaf /\ Count(G) = Order
      /\ Len(G.kids) = IF A.leaf THEN 0 ELSE Len(A.kids) + 1
      /\ \A j \in 1 .. Len(G.kids) :
           G.kids[j] = IF j <= Len(A.kids) THEN A.kids[j] ELSE B.kids[1]
  <2>1. /\ G \in Node /\ WellFormed(G) /\ G.leaf = A.leaf
        /\ Count(G) = Count(A) + 1
        /\ Len(G.kids) = IF A.leaf THEN 0 ELSE Len(A.kids) + 1
        /\ \A j \in 1 .. Len(G.kids) :
             G.kids[j] = IF j <= Len(A.kids) THEN A.kids[j] ELSE B.kids[1]
    BY <1>1, <1>3, GainLastNode DEF G
  <2>2. QED
    BY <1>2, <1>3, <2>1
<1>F. /\ F \in Node /\ WellFormed(F) /\ F.leaf = B.leaf
      /\ Count(F) = Count(B) - 1
      /\ Len(F.kids) = IF B.leaf THEN 0 ELSE Len(B.kids) - 1
      /\ \A j \in 1 .. Len(F.kids) : F.kids[j] = B.kids[j + 1]
  BY <1>1, <1>3, LoseFirstNode DEF F
<1>Q. /\ Q \in Node /\ WellFormed(Q) /\ Q.leaf = disk[p].leaf
      /\ Q.kids = disk[p].kids /\ Count(Q) = Count(disk[p])
  <2>1. FirstRecord(B) \in Record
    BY <1>1, <1>3, EndRecords
  <2>2. disk[p] \in Node /\ WellFormed(disk[p])
    BY SMTT(60), PageFacts DEF Live
  <2>3. QED
    BY <2>1, <2>2, ReplaceNode DEF Q
<1>4. Shares(t, f, G, F)
  <2>1. /\ Len(A.kids) \in Nat /\ Len(B.kids) \in Nat
        /\ A.leaf => Len(G.kids) = 0 /\ Len(F.kids) = 0
        /\ ~A.leaf => /\ Len(G.kids) = Len(A.kids) + 1
                      /\ Len(F.kids) = Len(B.kids) - 1
                      /\ Len(B.kids) > 0
    <3>1. ~B.leaf => Len(B.kids) = Count(B) + 1
      BY <1>1 DEF WellFormed
    <3>2. QED
      BY <1>1, <1>3, <1>G, <1>F, <3>1, NodeParts
  <2>2. \A x, y \in 1 .. Len(A.kids) : A.kids[x] = A.kids[y] => x = y
    BY <1>1, OwnKids, Zenon DEF A
  <2>3. \A x, y \in 1 .. Len(B.kids) : B.kids[x] = B.kids[y] => x = y
    BY <1>1, OwnKids, Zenon DEF B
  <2>4. \A x \in 1 .. Len(A.kids), y \in 1 .. Len(B.kids) :
          A.kids[x] # B.kids[y]
    BY ZenonT(60), <1>1, AllKids DEF A, B
  <2>5. ASSUME NEW j \in 1 .. Len(G.kids)
        PROVE  \/ /\ j = Len(A.kids) + 1 /\ 1 \in 1 .. Len(B.kids)
                  /\ G.kids[j] = B.kids[1]
               \/ /\ j \in 1 .. Len(A.kids)
                  /\ G.kids[j] = A.kids[j]
    <3>1. ~A.leaf
      BY <2>1
    <3>2. CASE j <= Len(A.kids)
      <4>1. j \in 1 .. Len(A.kids)
        BY <2>1, <3>2
      <4>2. QED
        BY <1>G, <3>2, <4>1
    <3>3. CASE ~(j <= Len(A.kids))
      <4>1. j = Len(A.kids) + 1 /\ 1 \in 1 .. Len(B.kids)
        BY <2>1, <3>1, <3>3
      <4>2. QED
        BY <1>G, <3>3, <4>1
    <3>4. QED
      BY <3>2, <3>3
  <2>6. ASSUME NEW j \in 1 .. Len(F.kids)
        PROVE  /\ j + 1 \in 1 .. Len(B.kids) /\ j + 1 # 1 /\ j \in Int
               /\ F.kids[j] = B.kids[j + 1]
    <3>1. j + 1 \in 1 .. Len(B.kids) /\ j + 1 # 1 /\ j \in Int
      BY SMTT(60), <2>1
    <3>2. QED
      BY <1>F, <3>1
  <2>7. \A j \in 1 .. Len(G.kids) : \E o \in {t, f} :
          \E x \in 1 .. Len(disk[o].kids) : G.kids[j] = disk[o].kids[x]
    BY ZenonT(60), <2>5 DEF A, B
  <2>8. \A j \in 1 .. Len(F.kids) : \E o \in {t, f} :
          \E x \in 1 .. Len(disk[o].kids) : F.kids[j] = disk[o].kids[x]
    BY <2>6 DEF B
  <2>9. \A j, k \in 1 .. Len(G.kids) : G.kids[j] = G.kids[k] => j = k
    <3> SUFFICES ASSUME NEW j \in 1 .. Len(G.kids),
                        NEW k \in 1 .. Len(G.kids), G.kids[j] = G.kids[k]
                 PROVE  j = k
      OBVIOUS
    <3> DEFINE last == Len(A.kids) + 1
    <3>1. j # last /\ k # last => j = k
      BY <2>2, <2>5
    <3>2. ~(j = last /\ k # last)
      BY <2>4, <2>5
    <3>3. ~(j # last /\ k = last)
      BY <2>4, <2>5
    <3>4. QED
      BY <3>1, <3>2, <3>3
  <2>10. \A j, k \in 1 .. Len(F.kids) : F.kids[j] = F.kids[k] => j = k
    <3> SUFFICES ASSUME NEW j \in 1 .. Len(F.kids),
                        NEW k \in 1 .. Len(F.kids), F.kids[j] = F.kids[k]
                 PROVE  j = k
      OBVIOUS
    <3> DEFINE x == j + 1
               y == k + 1
    <3>1. /\ x \in 1 .. Len(B.kids) /\ y \in 1 .. Len(B.kids)
          /\ B.kids[x] = B.kids[y]
      BY <2>6
    <3> HIDE DEF x, y
    <3>2. x = y
      BY <2>3, <3>1
    <3>3. QED
      BY <2>6, <3>2 DEF x, y
  <2>11. \A j \in 1 .. Len(G.kids), k \in 1 .. Len(F.kids) :
           G.kids[j] # F.kids[k]
    <3> SUFFICES ASSUME NEW j \in 1 .. Len(G.kids),
                        NEW k \in 1 .. Len(F.kids), G.kids[j] = F.kids[k]
                 PROVE  FALSE
      OBVIOUS
    <3> DEFINE y == k + 1
    <3>1. y \in 1 .. Len(B.kids) /\ y # 1 /\ F.kids[k] = B.kids[y]
      BY <2>6
    <3> HIDE DEF y
    <3>2. CASE j \in 1 .. Len(A.kids) /\ G.kids[j] = A.kids[j]
      BY <2>4, <3>1, <3>2
    <3>3. CASE 1 \in 1 .. Len(B.kids) /\ G.kids[j] = B.kids[1]
      BY <2>3, <3>1, <3>3
    <3>4. QED
      BY <2>5, <3>2, <3>3
  <2>12. QED
    BY <2>7, <2>8, <2>9, <2>10, <2>11 DEF Shares
<1>5. Count(G) >= Order - 1 /\ Count(F) >= Order - 1
  BY <1>1, <1>2, <1>G, <1>F
<1>6. Tree' /\ Live' = Live /\ disk'[t] = G
  <2>1. /\ t \in Live /\ f \in Live /\ t # p /\ f # p /\ t # f
        /\ height[t] = height[f] /\ disk[t].leaf = disk[f].leaf
    BY <1>1, Zenon DEF A, B
  <2>2. /\ G \in Node /\ WellFormed(G) /\ Count(G) >= Order - 1
        /\ F \in Node /\ WellFormed(F) /\ Count(F) >= Order - 1
        /\ G.leaf = disk[t].leaf /\ F.leaf = disk[f].leaf
    BY ZenonT(60), <1>G, <1>F, <1>5 DEF A, B
  <2>3. ASSUME NEW g, g = G, NEW q, q = Q, NEW h, h = F
        PROVE  Tree' /\ Live' = Live /\ disk'[t] = g
    <3>1. /\ g \in Node /\ WellFormed(g) /\ Count(g) >= Order - 1
          /\ h \in Node /\ WellFormed(h) /\ Count(h) >= Order - 1
          /\ g.leaf = disk[t].leaf /\ h.leaf = disk[f].leaf
          /\ q \in Node /\ WellFormed(q) /\ Count(q) = Count(disk[p])
          /\ q.leaf = disk[p].leaf /\ q.kids = disk[p].kids
          /\ Shares(t, f, g, h) /\ Rotated(t, p, f, g, q, h)
      BY <1>Q, <1>4, <1>S, <2>2, <2>3
    <3>2. Turns(t, p, f, g, q, h)
      BY <2>1, <3>1, Zenon DEF Turns
    <3>3. QED
      BY <3>2, RotateTurns
  <2>4. QED
    BY SMTT(60), <2>3
<1>7. QED
  BY <1>1, <1>2, <1>6, <1>G DEF CanSpare

-----------------------------------------------------------------------------
(* An internal root without records gives way to its only child. *)
LEMMA ShrinkRoot ==
  ASSUME Tree, NEW k, DeleteShrinksRoot(k)
  PROVE  Tree' /\ at' = root' /\ root' \in Live' /\ Count(disk'[root']) > 0
<1> DEFINE old == root
           c == Head(disk[old].kids)
           Z == IF Wipe THEN ZeroNode ELSE disk[old]
<1>S. /\ ~disk[old].leaf /\ Count(disk[old]) = 0
      /\ root' = c /\ freed' = freed \cup {old} /\ height' = height
      /\ disk' = [disk EXCEPT ![old] = Z] /\ at' = c
  BY DEF DeleteShrinksRoot, Enter
<1>1. /\ disk \in Seq(Node) /\ height \in Seq(Nat) /\ Len(height) = Len(disk)
      /\ Len(disk) \in Nat /\ DOMAIN disk = 1 .. Len(disk)
      /\ old \in Live /\ old \in DOMAIN disk
      /\ disk[old] \in Node /\ WellFormed(disk[old])
      /\ Order \in Nat /\ Order >= 2
  BY PageFacts, OrderAssumption DEF Tree, TreeTypes
<1>2. Len(disk[old].kids) = 1 /\ c = disk[old].kids[1]
  <2>1. Len(disk[old].kids) = 1 /\ disk[old].kids \in Seq(Page)
    BY <1>1, <1>S, NodeParts DEF WellFormed
  <2>2. QED
    BY <2>1
<1> HIDE DEF old, c, Z
<1>3. /\ c \in Live /\ c # old /\ c \in DOMAIN disk
      /\ WellFormed(disk[c]) /\ Count(disk[c]) \in Nat
      /\ Count(disk[c]) >= Order - 1
  <2>1. 1 \in 1 .. Len(disk[old].kids)
    BY <1>2
  <2>2. c \in Live /\ c # root
    BY <1>1, <1>2, <2>1, KidFacts
  <2>3. QED
    BY <2>2, PageFacts DEF old
<1>4. /\ disk' \in Seq(Node) /\ Len(disk') = Len(disk)
      /\ DOMAIN disk' = DOMAIN disk
      /\ \A q \in DOMAIN disk : q # old => disk'[q] = disk[q]
  <2>1. Z \in Node
    BY <1>1, EmptySeq DEF Z, ZeroNode, Node
  <2> DEFINE d == [disk EXCEPT ![old] = Z]
  <2>2. /\ d \in Seq(Node) /\ Len(d) = Len(disk)
        /\ \A q \in 1 .. Len(disk) : d[q] = IF q = old THEN Z ELSE disk[q]
    BY <1>1, <2>1, OneElement
  <2>3. DOMAIN d = DOMAIN disk
    BY <1>1, <2>2, LenProperties
  <2>4. disk' = d
    BY <1>S
  <2> HIDE DEF d
  <2>5. QED
    BY <1>1, <2>2, <2>3, <2>4
<1>5. /\ Live' = Live \ {old} /\ c \in Live' /\ root' \in Live'
      /\ \A q \in Live' : /\ q \in Live /\ q \in DOMAIN disk /\ q # old
                          /\ disk'[q] = disk[q] /\ height'[q] = height[q]
  BY <1>1, <1>3, <1>4, <1>S DEF Live
<1>6. TreeTypes'
  BY <1>1, <1>3, <1>4, <1>S DEF Tree, TreeTypes
<1>7. NodeBounds'
  <2>1. \A q \in Live' : WellFormed(disk[q]) /\ Count(disk[q]) >= Order - 1
    BY <1>5, PageFacts DEF old
  <2>2. QED
    BY <1>5, <2>1 DEF NodeBounds
<1>8. \A q \in Live' : DOMAIN disk[q].kids = 1 .. Len(disk[q].kids)
  BY <1>5, PageFacts
<1>9. ChildrenBelow'
  <2> SUFFICES ASSUME NEW q \in Live'
               PROVE  /\ disk'[q].leaf <=> height'[q] = 0
                      /\ \A j \in DOMAIN disk'[q].kids :
                           /\ disk'[q].kids[j] \in Live' \ {root'}
                           /\ height'[disk'[q].kids[j]] = height'[q] - 1
    BY DEF ChildrenBelow
  <2>1. disk'[q].leaf <=> height'[q] = 0
    BY <1>5 DEF Tree, ChildrenBelow
  <2>2. ASSUME NEW j \in DOMAIN disk'[q].kids
        PROVE  /\ disk'[q].kids[j] \in Live' \ {root'}
               /\ height'[disk'[q].kids[j]] = height'[q] - 1
    <3>1. q \in Live /\ q # old /\ j \in 1 .. Len(disk[q].kids)
      BY <1>5, <1>8
    <3>2. /\ disk[q].kids[j] \in Live \ {root}
          /\ height[disk[q].kids[j]] = height[q] - 1
      BY <3>1, AllKids
    <3>3. disk[q].kids[j] # c
      <4>1. 1 \in 1 .. Len(disk[old].kids)
        BY <1>2
      <4>2. QED
        BY <1>1, <1>2, <3>1, <4>1, AllKids
    <3>4. QED
      BY <1>5, <1>S, <3>2, <3>3 DEF old
  <2>3. QED
    BY <2>1, <2>2
<1>10. OneParent'
  BY <1>5 DEF Tree, OneParent
<1>11. QED
  BY <1>1, <1>3, <1>4, <1>5, <1>6, <1>7, <1>9, <1>10, <1>S DEF Tree

-----------------------------------------------------------------------------
(* What the step of a call leaves behind. *)

(* A step of a call goes one level down. *)
Down == pc # "idle" /\ pc' # "idle" => height'[at'] = height[at] - 1

(* Whatever leaves the tree alone keeps it. *)
LEMMA SameTree ==
  ASSUME Tree, UNCHANGED tree
  PROVE  Tree' /\ Live' = Live
<1>1. disk' = disk /\ height' = height /\ root' = root /\ freed' = freed
  BY DEF tree
<1>2. Live' = Live
  BY <1>1 DEF Live
<1>3. TreeTypes' /\ (root \in Live)'
  BY <1>1, <1>2 DEF Tree, TreeTypes
<1>4. NodeBounds'
  BY <1>1, <1>2 DEF Tree, NodeBounds
<1>5. ChildrenBelow'
  BY <1>1, <1>2 DEF Tree, ChildrenBelow
<1>6. OneParent'
  BY <1>1, <1>2 DEF Tree, OneParent
<1>7. QED
  BY <1>2, <1>3, <1>4, <1>5, <1>6 DEF Tree

(* The call after the first activation, *)
LEMMA AfterEnter ==
  ASSUME Tree', NEW f \in {"insert", "search", "delete"}, NEW k \in Key,
         NEW r, NEW q, Enter(f, k, r, q), q \in Live',
         f = "insert" => r \in Record /\ ~Full(disk'[q]),
         f = "delete" => q = root' /\ Count(disk'[q]) > 0
  PROVE  IInv' /\ Down
<1>1. /\ pc = "idle" /\ pc' = f /\ arg' = k /\ rec' = r /\ at' = q
      /\ key' = k /\ alias' = "caller" /\ ret' = "MDB_NO_ERROR"
  BY DEF Enter
<1>2. q \in DOMAIN disk'
  BY DEF Live
<1>3. CallTypes'
  BY <1>1, <1>2 DEF CallTypes, Error
<1>4. Room'
  BY <1>1 DEF Room
<1>5. QED
  BY <1>1, <1>3, <1>4 DEF IInv, Down

(* after the next, *)
LEMMA AfterRecurse ==
  ASSUME IInv, Tree', pc # "idle", NEW q, NEW k \in Key,
         NEW a \in {"caller", "first", "last"}, Recurse(q, k, a),
         q \in Live', height'[q] = height[at] - 1,
         pc = "insert" => ~Full(disk'[q]),
         pc = "delete" => q # root' /\ CanSpare(disk'[q])
  PROVE  IInv' /\ Down
<1>1. /\ pc' = pc /\ arg' = arg /\ rec' = rec /\ at' = q /\ key' = k
      /\ alias' = a /\ ret' = ret
  BY DEF Recurse, result
<1>2. q \in DOMAIN disk'
  BY DEF Live
<1>3. CallTypes'
  BY <1>1, <1>2 DEF CallTypes, IInv
<1>4. Room'
  BY <1>1 DEF Room
<1>5. QED
  BY <1>1, <1>3, <1>4 DEF IInv, Down

(* and after the return. *)
LEMMA AfterReturn ==
  ASSUME Tree', root' = root, NEW e \in Error, Return(e)
  PROVE  IInv' /\ Down
<1>1. /\ pc' = "idle" /\ at' = root /\ alias' = "caller" /\ ret' = e
  BY DEF Return
<1>2. at' \in Live' /\ at' \in DOMAIN disk'
  BY <1>1 DEF Tree, Live
<1>3. CallTypes'
  BY <1>1, <1>2 DEF CallTypes
<1>4. Room'
  BY <1>1 DEF Room
<1>5. QED
  BY <1>1, <1>2, <1>3, <1>4 DEF IInv, Down

(* The current activation. *)
LEMMA Here ==
  ASSUME IInv
  PROVE  /\ Tree /\ at \in Live /\ disk[at] \in Node /\ WellFormed(disk[at])
         /\ Count(disk[at]) \in Nat
         /\ ~disk[at].leaf => Len(disk[at].kids) = Count(disk[at]) + 1
         /\ root \in Live /\ disk[root] \in Node /\ WellFormed(disk[root])
         /\ Count(disk[root]) \in Nat
         /\ pc # "idle" => key \in Key
         /\ alias \in {"caller", "first", "last"}
         /\ at # root => Count(disk[at]) >= Order - 1
<1>1. Tree /\ at \in Live /\ root \in Live
  BY DEF IInv, Tree
<1>2. /\ disk[at] \in Node /\ WellFormed(disk[at]) /\ Count(disk[at]) \in Nat
      /\ disk[root] \in Node /\ WellFormed(disk[root])
      /\ Count(disk[root]) \in Nat
      /\ at # root => Count(disk[at]) >= Order - 1
  BY <1>1, PageFacts
<1>3. ~disk[at].leaf => Len(disk[at].kids) = Count(disk[at]) + 1
  BY <1>2 DEF WellFormed
<1>4. QED
  BY <1>1, <1>2, <1>3 DEF IInv, CallTypes

-----------------------------------------------------------------------------
(* A call begins. *)
LEMMA CallInv ==
  ASSUME IInv, InsertCall \/ SearchCall \/ DeleteCall
  PROVE  IInv' /\ Down
<1>1. ASSUME NEW r \in Record, Insert(r)
      PROVE  IInv' /\ Down
  <2>1. Tree' /\ Live' = Live /\ root \in Live
    BY <1>1, Here, SameTree DEF Insert
  <2>2. Enter("insert", KeyOf(r), r, root) /\ ~Full(disk'[root])
    BY <1>1 DEF Insert, tree
  <2>3. KeyOf(r) \in Key
    BY KeyAssumption
  <2>4. QED
    BY <2>1, <2>2, <2>3, AfterEnter
<1>2. ASSUME NEW r \in Record, InsertSplitRoot(r)
      PROVE  IInv' /\ Down
  <2> DEFINE top == Len(disk) + 2
  <2>1. Enter("insert", KeyOf(r), r, top)
    BY <1>2 DEF InsertSplitRoot
  <2>2. Tree' /\ top \in Live' /\ ~Full(disk'[top])
    BY <1>2, Here, SplitRoot
  <2>3. KeyOf(r) \in Key
    BY KeyAssumption
  <2> HIDE DEF top
  <2>4. QED
    BY <2>1, <2>2, <2>3, AfterEnter
<1>3. ASSUME NEW k \in Key, Search(k)
      PROVE  IInv' /\ Down
  <2>1. Tree' /\ Live' = Live /\ root \in Live
    BY <1>3, Here, SameTree DEF Search
  <2>2. Enter("search", k, None, root)
    BY <1>3 DEF Search
  <2>3. QED
    BY <2>1, <2>2, AfterEnter
<1>4. ASSUME NEW k \in Key, Delete(k)
      PROVE  IInv' /\ Down
  <2>1. Tree' /\ Live' = Live /\ root \in Live
    BY <1>4, Here, SameTree DEF Delete
  <2>2. /\ Enter("delete", k, None, root) /\ root' = root
        /\ Count(disk'[root]) > 0
    BY <1>4 DEF Delete, tree
  <2>3. QED
    BY <2>1, <2>2, AfterEnter
<1>5. ASSUME NEW k \in Key, DeleteFromEmpty(k)
      PROVE  IInv' /\ Down
  <2>1. Tree' /\ Live' = Live
    BY <1>5, Here, SameTree DEF DeleteFromEmpty
  <2>2. /\ pc = "idle" /\ pc' = pc /\ arg' = arg /\ rec' = rec /\ at' = at
        /\ key' = key /\ alias' = alias /\ ret' = "MDB_BTREE_ROOT_IS_EMPTY"
        /\ disk' = disk
    BY <1>5 DEF DeleteFromEmpty, call, tree
  <2>3. CallTypes'
    BY <2>2 DEF IInv, CallTypes, Error
  <2>4. Room'
    BY <2>2 DEF Room
  <2>5. QED
    BY <2>1, <2>2, <2>3, <2>4 DEF IInv, Down
<1>6. ASSUME NEW k \in Key, DeleteShrinksRoot(k)
      PROVE  IInv' /\ Down
  <2>1. Tree' /\ at' = root' /\ root' \in Live' /\ Count(disk'[root']) > 0
    BY <1>6, Here, ShrinkRoot
  <2>2. Enter("delete", k, None, Head(disk[root].kids))
    BY <1>6 DEF DeleteShrinksRoot
  <2>3. at' = Head(disk[root].kids)
    BY <2>2 DEF Enter
  <2>4. QED
    BY <2>1, <2>2, <2>3, AfterEnter
<1>7. QED
  BY <1>1, <1>2, <1>3, <1>4, <1>5, <1>6 DEF InsertCall, SearchCall, DeleteCall

(* The activations that leave the pages alone. *)
LEMMA ReturnInv ==
  ASSUME IInv, NEW e \in Error, Return(e), UNCHANGED tree
  PROVE  IInv' /\ Down
<1>1. Tree' /\ root' = root
  BY Here, SameTree DEF tree
<1>2. QED
  BY <1>1, AfterReturn

(* Going down keeps the invariant, if the child has room. *)
LEMMA DescendInv ==
  ASSUME IInv, pc # "idle", ~disk[at].leaf,
         NEW i \in 1 .. Count(disk[at]) + 1,
         Recurse(disk[at].kids[i], key, alias), UNCHANGED tree,
         pc = "insert" => ~Full(disk[disk[at].kids[i]]),
         pc = "delete" => CanSpare(disk[disk[at].kids[i]])
  PROVE  IInv' /\ Down
<1> DEFINE q == disk[at].kids[i]
<1>1. Tree' /\ Live' = Live
  BY Here, SameTree
<1>2. i \in 1 .. Len(disk[at].kids)
  BY Here
<1>3. q \in Live /\ q # root /\ height[q] = height[at] - 1
  BY <1>2, Here, KidFacts
<1>4. disk' = disk /\ height' = height /\ root' = root
  BY DEF tree
<1>5. Recurse(q, key, alias) /\ key \in Key
      /\ alias \in {"caller", "first", "last"}
  BY Here
<1>6. /\ pc = "insert" => ~Full(disk[q])
      /\ pc = "delete" => CanSpare(disk[q])
  OBVIOUS
<1> HIDE DEF q
<1>7. QED
  BY <1>1, <1>3, <1>4, <1>5, <1>6, AfterRecurse

(* Searching. *)
LEMMA SearchInv ==
  ASSUME IInv, SearchStep
  PROVE  IInv' /\ Down
<1>1. ASSUME SearchFinds
      PROVE  IInv' /\ Down
  BY <1>1, ReturnInv DEF SearchFinds, Error
<1>2. ASSUME SearchMisses
      PROVE  IInv' /\ Down
  BY <1>2, ReturnInv DEF SearchMisses, Error
<1>3. ASSUME SearchDescends
      PROVE  IInv' /\ Down
  <2>1. PICK i \in 1 .. Count(disk[at]) + 1 :
               Recurse(disk[at].kids[i], key, alias)
    BY <1>3 DEF SearchDescends
  <2>2. pc = "search" /\ ~disk[at].leaf /\ UNCHANGED tree
    BY <1>3 DEF SearchDescends
  <2>3. QED
    BY <2>1, <2>2, DescendInv
<1>4. QED
  BY <1>1, <1>2, <1>3 DEF SearchStep

(* Inserting. *)
LEMMA InsertIntoLeafInv ==
  ASSUME IInv, InsertIntoLeaf
  PROVE  IInv' /\ Down
<1>1. PICK i \in 1 .. Count(disk[at]) + 1 :
             disk' = [disk EXCEPT ![at] = WithRecord(@, i, rec)]
  BY DEF InsertIntoLeaf
<1>2. /\ pc = "insert" /\ disk[at].leaf /\ Return("MDB_NO_ERROR")
      /\ height' = height /\ root' = root /\ freed' = freed
  BY DEF InsertIntoLeaf
<1>3. rec \in Record /\ ~Full(disk[at])
  BY <1>2 DEF IInv, CallTypes, Room
<1> DEFINE n == WithRecord(disk[at], i, rec)
<1>4. /\ n \in Node /\ WellFormed(n) /\ n.leaf = disk[at].leaf
      /\ n.kids = disk[at].kids /\ Count(n) = Count(disk[at]) + 1
  BY <1>2, <1>3, Here, WithRecordNode
<1>5. disk' = [disk EXCEPT ![at] = n]
  BY <1>1
<1> HIDE DEF n
<1>6. at # root => Count(n) >= Order - 1
  BY <1>4, Here, OrderAssumption
<1>7. Tree'
  BY <1>2, <1>4, <1>5, <1>6, Here, SameKids
<1>8. QED
  BY <1>2, <1>7, AfterReturn DEF Error

(* The insertion goes down into a half of the child it split. *)
LEMMA InsertSplitsChildInv ==
  ASSUME IInv, InsertSplitsChild
  PROVE  IInv' /\ Down
<1> DEFINE new == Len(disk) + 1
<1>1. /\ pc = "insert" /\ ~disk[at].leaf /\ root' = root /\ freed' = freed
  BY DEF InsertSplitsChild
<1>2. PICK i \in 1 .. Count(disk[at]) + 1 :
        /\ Full(disk[disk[at].kids[i]])
        /\ Split(disk[at].kids[i], at,
                 Adopt(disk[at], i, Median(disk[disk[at].kids[i]]), new))
        /\ \/ Recurse(new, key, alias)
           \/ Recurse(disk[at].kids[i], key, alias)
           \/ Return("MDB_BTREE_KEY_COLLISION")
  BY DEF InsertSplitsChild
<1> DEFINE c == disk[at].kids[i]
<1>3. /\ c = disk[at].kids[i] /\ new = Len(disk) + 1 /\ Full(disk[c])
      /\ Split(c, at, Adopt(disk[at], i, Median(disk[c]), new))
      /\ ~Full(disk[at])
  BY <1>1, <1>2 DEF IInv, Room
<1>4. \/ Recurse(new, key, alias)
      \/ Recurse(c, key, alias)
      \/ Return("MDB_BTREE_KEY_COLLISION")
  BY <1>2
<1> HIDE DEF c, new
<1>5. /\ Tree' /\ new \in Live' /\ c \in Live'
      /\ ~Full(disk'[c]) /\ ~Full(disk'[new])
      /\ height'[c] = height[at] - 1 /\ height'[new] = height[at] - 1
  BY <1>1, <1>3, Here, SplitChild
<1>6. key \in Key /\ alias \in {"caller", "first", "last"}
  BY <1>1, Here
<1>7. CASE Recurse(new, key, alias)
  BY <1>1, <1>5, <1>6, <1>7, AfterRecurse
<1>8. CASE Recurse(c, key, alias)
  BY <1>1, <1>5, <1>6, <1>8, AfterRecurse
<1>9. CASE Return("MDB_BTREE_KEY_COLLISION")
  BY <1>1, <1>5, <1>9, AfterReturn DEF Error
<1>10. QED
  BY <1>4, <1>7, <1>8, <1>9

(* An insertion keeps the invariant. *)
LEMMA InsertInv ==
  ASSUME IInv, InsertStep
  PROVE  IInv' /\ Down
<1>1. ASSUME InsertCollides
      PROVE  IInv' /\ Down
  BY <1>1, ReturnInv DEF InsertCollides, Error
<1>2. ASSUME InsertDescends
      PROVE  IInv' /\ Down
  <2>1. PICK i \in 1 .. Count(disk[at]) + 1 :
               /\ ~Full(disk[disk[at].kids[i]])
               /\ Recurse(disk[at].kids[i], key, alias)
    BY <1>2 DEF InsertDescends
  <2>2. pc = "insert" /\ ~disk[at].leaf /\ UNCHANGED tree
    BY <1>2 DEF InsertDescends
  <2>3. QED
    BY <2>1, <2>2, DescendInv
<1>3. QED
  BY <1>1, <1>2, InsertIntoLeafInv, InsertSplitsChildInv DEF InsertStep

-----------------------------------------------------------------------------
(* Deleting a record of this node. *)
LEMMA DeleteFromLeafInv ==
  ASSUME IInv, DeleteFromLeaf
  PROVE  IInv' /\ Down
<1>1. PICK i \in 1 .. Count(disk[at]) :
             disk' = [disk EXCEPT ![at] = WithoutRecord(@, i)]
  BY DEF DeleteFromLeaf
<1>2. /\ pc = "delete" /\ disk[at].leaf /\ Return("MDB_NO_ERROR")
      /\ height' = height /\ root' = root /\ freed' = freed
  BY DEF DeleteFromLeaf
<1>3. at # root => Count(disk[at]) >= Order
  BY <1>2 DEF IInv, Room, CanSpare
<1> DEFINE n == WithoutRecord(disk[at], i)
<1>4. /\ n \in Node /\ WellFormed(n) /\ n.leaf = disk[at].leaf
      /\ n.kids = disk[at].kids /\ Count(n) = Count(disk[at]) - 1
  BY <1>2, Here, WithoutRecordNode
<1>5. disk' = [disk EXCEPT ![at] = n]
  BY <1>1
<1> HIDE DEF n
<1>6. at # root => Count(n) >= Order - 1
  BY <1>3, <1>4, Here, OrderAssumption
<1>7. Tree'
  BY <1>2, <1>4, <1>5, <1>6, Here, SameKids
<1>8. QED
  BY <1>2, <1>7, AfterReturn DEF Error

(* A record r of the child q takes a record's place, and is deleted next. *)
LEMMA ReplacedInv ==
  ASSUME IInv, pc = "delete", ~disk[at].leaf,
         NEW i \in 1 .. Count(disk[at]), NEW j \in {i, i + 1},
         NEW q, q = disk[at].kids[j], CanSpare(disk[q]),
         NEW r \in Record, NEW a \in {"caller", "first", "last"},
         disk' = [disk EXCEPT ![at] = Replace(@, i, r)],
         UNCHANGED <<height, root, freed>>, Recurse(q, KeyOf(r), a)
  PROVE  IInv' /\ Down
<1> DEFINE n == Replace(disk[at], i, r)
<1>1. /\ n \in Node /\ WellFormed(n) /\ n.leaf = disk[at].leaf
      /\ n.kids = disk[at].kids /\ Count(n) = Count(disk[at])
  BY Here, ReplaceNode
<1>2. disk' = [disk EXCEPT ![at] = n]
  OBVIOUS
<1> HIDE DEF n
<1>3. at # root => Count(n) >= Order - 1
  BY <1>1, Here
<1>4. Tree' /\ Live' = Live
  BY <1>1, <1>2, <1>3, Here, SameKids
<1>5. j \in 1 .. Len(disk[at].kids)
  BY Here
<1>6. q \in Live /\ q # root /\ q # at /\ height[q] = height[at] - 1
  BY <1>5, Here, KidFacts
<1>7. disk'[q] = disk[q]
  BY <1>2, <1>6 DEF Live
<1>8. KeyOf(r) \in Key
  BY KeyAssumption
<1>9. QED
  BY <1>4, <1>6, <1>7, <1>8, AfterRecurse

(* A record is replaced by the last one of the child before it, *)
LEMMA DeleteByPredecessorInv ==
  ASSUME IInv, DeleteByPredecessor
  PROVE  IInv' /\ Down
<1>1. PICK i \in 1 .. Count(disk[at]) :
        /\ CanSpare(disk[disk[at].kids[i]])
        /\ disk' = [disk EXCEPT
                      ![at] = Replace(@, i, LastRecord(disk[disk[at].kids[i]]))]
        /\ Recurse(disk[at].kids[i],
                   KeyOf(LastRecord(disk[disk[at].kids[i]])), "last")
  BY DEF DeleteByPredecessor
<1>2. /\ pc = "delete" /\ ~disk[at].leaf
      /\ height' = height /\ root' = root /\ freed' = freed
  BY DEF DeleteByPredecessor
<1> DEFINE q == disk[at].kids[i]
           r == LastRecord(disk[q])
<1>3. r \in Record
  <2>0. i \in 1 .. Len(disk[at].kids)
    BY <1>2, Here
  <2>1. q \in Live
    BY <2>0, Here, KidFacts
  <2>2. disk[q] \in Node /\ Count(disk[q]) \in Nat
    BY <2>1, Here, PageFacts
  <2>3. Count(disk[q]) > 0
    BY <1>1, <2>2, OrderAssumption DEF CanSpare
  <2>4. QED
    BY <2>2, <2>3, EndRecords
<1>4. /\ CanSpare(disk[q]) /\ Recurse(q, KeyOf(r), "last")
      /\ disk' = [disk EXCEPT ![at] = Replace(@, i, r)]
      /\ q = disk[at].kids[i]
  BY <1>1
<1> HIDE DEF q, r
<1>5. QED
  BY <1>2, <1>3, <1>4, ReplacedInv

(* by the first one of the child behind it, *)
LEMMA DeleteBySuccessorInv ==
  ASSUME IInv, DeleteBySuccessor
  PROVE  IInv' /\ Down
<1>1. PICK i \in 1 .. Count(disk[at]) :
        /\ CanSpare(disk[disk[at].kids[i + 1]])
        /\ disk' = [disk EXCEPT
                      ![at] = Replace(@, i,
                                FirstRecord(disk[disk[at].kids[i + 1]]))]
        /\ Recurse(disk[at].kids[i + 1],
                   KeyOf(FirstRecord(disk[disk[at].kids[i + 1]])), "first")
  BY DEF DeleteBySuccessor
<1>2. /\ pc = "delete" /\ ~disk[at].leaf
      /\ height' = height /\ root' = root /\ freed' = freed
  BY DEF DeleteBySuccessor
<1> DEFINE j == i + 1
           q == disk[at].kids[j]
           r == FirstRecord(disk[q])
<1>3. r \in Record
  <2>0. j \in 1 .. Len(disk[at].kids)
    BY <1>2, Here
  <2> HIDE DEF j
  <2>1. q \in Live
    BY <2>0, Here, KidFacts
  <2>2. disk[q] \in Node /\ Count(disk[q]) \in Nat
    BY <2>1, Here, PageFacts
  <2>3. Count(disk[q]) > 0
    BY <1>1, <2>2, OrderAssumption DEF CanSpare, j
  <2>4. QED
    BY <2>2, <2>3, EndRecords
<1>4. /\ CanSpare(disk[q]) /\ Recurse(q, KeyOf(r), "first")
      /\ disk' = [disk EXCEPT ![at] = Replace(@, i, r)]
      /\ q = disk[at].kids[j] /\ j \in {i, i + 1}
  BY <1>1
<1> HIDE DEF q, r, j
<1>5. QED
  BY <1>2, <1>3, <1>4, ReplacedInv

(* Two children and the record between them become one. *)
LEMMA MergedInv ==
  ASSUME IInv, pc = "delete", ~disk[at].leaf,
         NEW i \in 1 .. Count(disk[at]),
         NEW a, a = disk[at].kids[i], NEW b, b = disk[at].kids[i + 1],
         ~CanSpare(disk[a]), ~CanSpare(disk[b]), Merge(at, i, a, b),
         NEW k \in Key, NEW s \in {"caller", "first", "last"}, Recurse(a, k, s)
  PROVE  IInv' /\ Down
<1>1. at # root => CanSpare(disk[at])
  BY DEF IInv, Room
<1>2. /\ Tree' /\ a \in Live' /\ a # root'
      /\ CanSpare(disk'[a]) /\ height'[a] = height[at] - 1
  BY <1>1, Here, MergeChildren
<1>3. QED
  BY <1>2, AfterRecurse

(* or moves down into the two, merged. *)
LEMMA DeleteByMergeInv ==
  ASSUME IInv, DeleteByMerge
  PROVE  IInv' /\ Down
<1> DEFINE K(i) == IF alias = "first" /\ Count(Drop(disk[at], i)) > 0
                     THEN KeyOf(FirstRecord(Drop(disk[at], i))) ELSE key
<1>1. PICK i \in 1 .. Count(disk[at]) :
        /\ ~CanSpare(disk[disk[at].kids[i]])
        /\ ~CanSpare(disk[disk[at].kids[i + 1]])
        /\ Merge(at, i, disk[at].kids[i], disk[at].kids[i + 1])
        /\ Recurse(disk[at].kids[i], K(i), "caller")
  BY DEF DeleteByMerge
<1>2. pc = "delete" /\ ~disk[at].leaf
  BY DEF DeleteByMerge
<1>3. K(i) \in Key
  <2>1. Drop(disk[at], i) \in Node
    BY <1>2, Here, DropNode
  <2>2. CASE alias = "first" /\ Count(Drop(disk[at], i)) > 0
    <3>1. FirstRecord(Drop(disk[at], i)) \in Record
      BY <2>1, <2>2, EndRecords
    <3>2. QED
      BY <2>2, <3>1, KeyAssumption
  <2>3. CASE ~(alias = "first" /\ Count(Drop(disk[at], i)) > 0)
    BY <1>2, <2>3, Here
  <2>4. QED
    BY <2>2, <2>3
<1> DEFINE a == disk[at].kids[i]
           b == disk[at].kids[i + 1]
           k == K(i)
<1>4. /\ a = disk[at].kids[i] /\ b = disk[at].kids[i + 1]
      /\ ~CanSpare(disk[a]) /\ ~CanSpare(disk[b]) /\ Merge(at, i, a, b)
      /\ Recurse(a, k, "caller") /\ k \in Key
  BY <1>1, <1>3
<1> HIDE DEF a, b, k
<1>5. QED
  BY <1>2, <1>4, MergedInv

-----------------------------------------------------------------------------
(* Deleting a record below this node. *)
LEMMA BorrowedInv ==
  ASSUME IInv, Tree', pc = "delete", NEW t, t \in Live, Live' = Live,
         t # root, CanSpare(disk'[t]), height[t] = height[at] - 1,
         UNCHANGED <<height, root>>, Recurse(t, key, alias)
  PROVE  IInv' /\ Down
<1>1. /\ t \in Live' /\ t # root' /\ height'[t] = height[at] - 1
      /\ key \in Key /\ alias \in {"caller", "first", "last"}
  BY Here
<1>2. QED
  BY <1>1, AfterRecurse

(* A child is topped up from its left sibling, *)
LEMMA DeleteBorrowsLeftInv ==
  ASSUME IInv, DeleteBorrowsLeft
  PROVE  IInv' /\ Down
<1>1. PICK i \in 1 .. Count(disk[at]) + 1 :
        /\ Below(i)
        /\ ~ChildSpares(i)
        /\ LeftSpares(i)
        /\ disk' = [disk EXCEPT
             ![disk[at].kids[i]] =
               GainFirst(disk[disk[at].kids[i]], disk[at].recs[i - 1],
                         disk[disk[at].kids[i - 1]]),
             ![at] = Replace(disk[at], i - 1,
                             LastRecord(disk[disk[at].kids[i - 1]])),
             ![disk[at].kids[i - 1]] = LoseLast(disk[disk[at].kids[i - 1]])]
        /\ Recurse(disk[at].kids[i], key, alias)
  BY DEF DeleteBorrowsLeft
<1>2. /\ pc = "delete" /\ ~disk[at].leaf
      /\ height' = height /\ root' = root /\ freed' = freed
  BY <1>1 DEF DeleteBorrowsLeft, Below
<1> DEFINE k == i - 1
           t == disk[at].kids[i]
           f == disk[at].kids[k]
<1>3. k \in 1 .. Count(disk[at]) /\ i = k + 1
  BY <1>1, Here DEF LeftSpares
<1>4. /\ f = disk[at].kids[k] /\ t = disk[at].kids[k + 1]
      /\ ~CanSpare(disk[t]) /\ CanSpare(disk[f]) /\ Recurse(t, key, alias)
  BY <1>1, <1>3 DEF ChildSpares, LeftSpares
<1>5. Rotated(t, at, f, GainFirst(disk[t], disk[at].recs[k], disk[f]),
              Replace(disk[at], k, LastRecord(disk[f])), LoseLast(disk[f]))
  BY <1>1, <1>2 DEF Rotated
<1> HIDE DEF k, t, f
<1>6. /\ Tree' /\ Live' = Live /\ t \in Live /\ t # root
      /\ CanSpare(disk'[t]) /\ height[t] = height[at] - 1
  BY ZenonT(60), <1>2, <1>3, <1>4, <1>5, Here, BorrowLeft
<1>7. QED
  BY <1>2, <1>4, <1>6, BorrowedInv

(* from its right sibling, *)
LEMMA DeleteBorrowsRightInv ==
  ASSUME IInv, DeleteBorrowsRight
  PROVE  IInv' /\ Down
<1>1. PICK i \in 1 .. Count(disk[at]) + 1 :
        /\ Below(i)
        /\ ~ChildSpares(i)
        /\ RightSpares(i)
        /\ disk' = [disk EXCEPT
             ![disk[at].kids[i]] =
               GainLast(disk[disk[at].kids[i]], disk[at].recs[i],
                        disk[disk[at].kids[i + 1]]),
             ![at] = Replace(disk[at], i,
                             FirstRecord(disk[disk[at].kids[i + 1]])),
             ![disk[at].kids[i + 1]] = LoseFirst(disk[disk[at].kids[i + 1]])]
        /\ Recurse(disk[at].kids[i], key, alias)
  BY DEF DeleteBorrowsRight
<1>2. /\ pc = "delete" /\ ~disk[at].leaf
      /\ height' = height /\ root' = root /\ freed' = freed
  BY <1>1 DEF DeleteBorrowsRight, Below
<1> DEFINE t == disk[at].kids[i]
           f == disk[at].kids[i + 1]
<1>3. i \in 1 .. Count(disk[at])
  BY <1>1, Here DEF RightSpares
<1>4. /\ t = disk[at].kids[i] /\ f = disk[at].kids[i + 1]
      /\ ~CanSpare(disk[t]) /\ CanSpare(disk[f]) /\ Recurse(t, key, alias)
  BY <1>1 DEF ChildSpares, RightSpares
<1>5. Rotated(t, at, f, GainLast(disk[t], disk[at].recs[i], disk[f]),
              Replace(disk[at], i, FirstRecord(disk[f])), LoseFirst(disk[f]))
  BY <1>1, <1>2 DEF Rotated
<1> HIDE DEF t, f
<1>6. /\ Tree' /\ Live' = Live /\ t \in Live /\ t # root
      /\ CanSpare(disk'[t]) /\ height[t] = height[at] - 1
  BY <1>2, <1>3, <1>4, <1>5, Here, BorrowRight
<1>7. QED
  BY <1>2, <1>4, <1>6, BorrowedInv

(* merged with the left one, *)
LEMMA DeleteMergesLeftInv ==
  ASSUME IInv, DeleteMergesLeft
  PROVE  IInv' /\ Down
<1>1. PICK i \in 2 .. Count(disk[at]) + 1 :
        /\ Below(i)
        /\ ~ChildSpares(i)
        /\ ~LeftSpares(i)
        /\ Merge(at, i - 1, disk[at].kids[i - 1], disk[at].kids[i])
        /\ Recurse(disk[at].kids[i - 1], key, alias)
  BY DEF DeleteMergesLeft
<1>2. pc = "delete" /\ ~disk[at].leaf
  BY <1>1 DEF Below
<1> DEFINE k == i - 1
           a == disk[at].kids[k]
           b == disk[at].kids[i]
<1>3. k \in 1 .. Count(disk[at]) /\ i = k + 1
  BY Here
<1>4. /\ a = disk[at].kids[k] /\ b = disk[at].kids[k + 1]
      /\ ~CanSpare(disk[a]) /\ ~CanSpare(disk[b])
      /\ Merge(at, k, a, b) /\ Recurse(a, key, alias)
  BY <1>1, <1>3 DEF ChildSpares, LeftSpares
<1>5. key \in Key /\ alias \in {"caller", "first", "last"}
  BY <1>2, Here
<1> HIDE DEF k, a, b
<1>6. QED
  BY <1>2, <1>3, <1>4, <1>5, MergedInv

(* or with the right one. *)
LEMMA DeleteMergesRightInv ==
  ASSUME IInv, DeleteMergesRight
  PROVE  IInv' /\ Down
<1>1. /\ pc = "delete" /\ ~disk[at].leaf
  BY DEF DeleteMergesRight, Below
<1> DEFINE i == 1
           a == disk[at].kids[i]
           b == disk[at].kids[i + 1]
<1>2. i \in 1 .. Count(disk[at])
  <2>1. Count(disk[at]) > 0
    BY <1>1, Here, OrderAssumption DEF IInv, Room, CanSpare
  <2>2. QED
    BY <2>1, Here
<1>3. /\ a = disk[at].kids[i] /\ b = disk[at].kids[i + 1]
      /\ ~CanSpare(disk[a]) /\ ~CanSpare(disk[b])
      /\ Merge(at, i, a, b) /\ Recurse(a, key, alias)
  BY <1>2 DEF DeleteMergesRight, ChildSpares, RightSpares
<1>4. key \in Key /\ alias \in {"caller", "first", "last"}
  BY <1>1, Here
<1> HIDE DEF i, a, b
<1>5. QED
  BY <1>1, <1>2, <1>3, <1>4, MergedInv

(* A deletion keeps the invariant. *)
LEMMA DeleteInv ==
  ASSUME IInv, DeleteStep
  PROVE  IInv' /\ Down
<1>1. ASSUME DeleteMisses
      PROVE  IInv' /\ Down
  BY <1>1, ReturnInv DEF DeleteMisses, Error
<1>2. ASSUME DeleteDescends
      PROVE  IInv' /\ Down
  <2>1. PICK i \in 1 .. Count(disk[at]) + 1 :
          Below(i) /\ ChildSpares(i) /\ Recurse(disk[at].kids[i], key, alias)
    BY <1>2 DEF DeleteDescends
  <2>2. pc = "delete" /\ ~disk[at].leaf /\ UNCHANGED tree
    BY <1>2, <2>1 DEF DeleteDescends, Below
  <2>3. CanSpare(disk[disk[at].kids[i]])
    BY <2>1 DEF ChildSpares
  <2>4. QED
    BY <2>1, <2>2, <2>3, DescendInv
<1>3. QED
  BY <1>1, <1>2, DeleteFromLeafInv, DeleteByPredecessorInv,
     DeleteBySuccessorInv, DeleteByMergeInv, DeleteBorrowsLeftInv,
     DeleteBorrowsRightInv, DeleteMergesLeftInv, DeleteMergesRightInv
  DEF DeleteStep

-----------------------------------------------------------------------------
(* Every state of the machine: IInv holds, and no step leaves it. *)
LEMMA InitInv ==
  Init => IInv
<1> SUFFICES ASSUME Init
             PROVE  IInv
  OBVIOUS
<1>1. EmptyLeaf \in Node /\ WellFormed(EmptyLeaf)
  BY EmptySeq, OrderAssumption
  DEF EmptyLeaf, Node, WellFormed, Count, MaxCount
<1>2. /\ Len(disk) = 1 /\ disk[1] = EmptyLeaf /\ disk \in Seq(Node)
      /\ height \in Seq(Nat) /\ Len(height) = 1 /\ height[1] = 0
      /\ DOMAIN disk = {1} /\ root = 1 /\ freed = {} /\ at = 1
      /\ pc = "idle" /\ alias = "caller" /\ ret = "MDB_NO_ERROR"
  BY <1>1 DEF Init
<1>3. Live = {1}
  BY <1>2 DEF Live
<1>4. DOMAIN EmptyLeaf.kids = {} /\ EmptyLeaf.leaf
  BY DEF EmptyLeaf
<1>5. TreeTypes /\ root \in Live
  BY <1>2, <1>3 DEF TreeTypes
<1>6. NodeBounds
  BY <1>1, <1>2, <1>3 DEF NodeBounds
<1>7. ChildrenBelow /\ OneParent
  BY <1>2, <1>3, <1>4 DEF ChildrenBelow, OneParent
<1>8. CallTypes /\ Room
  BY <1>2 DEF CallTypes, Room, Error
<1>9. QED
  BY <1>2, <1>3, <1>5, <1>6, <1>7, <1>8 DEF IInv, Tree

(* Every step keeps the invariant. *)
LEMMA NextInv ==
  IInv /\ [Next]_vars => IInv' /\ [Down]_vars
<1> SUFFICES ASSUME IInv, [Next]_vars
             PROVE  IInv' /\ [Down]_vars
  OBVIOUS
<1>1. CASE Next
  BY <1>1, CallInv, InsertInv, SearchInv, DeleteInv DEF Next, Step
<1>2. CASE UNCHANGED vars
  <2>1. /\ UNCHANGED tree /\ pc' = pc /\ arg' = arg /\ rec' = rec
        /\ at' = at /\ key' = key /\ alias' = alias /\ ret' = ret
        /\ disk' = disk /\ root' = root
    BY <1>2 DEF vars, tree, call, result
  <2>2. Tree' /\ Live' = Live
    BY <2>1, Here, SameTree
  <2>3. CallTypes' /\ Room'
    BY <2>1 DEF IInv, CallTypes, Room
  <2>4. QED
    BY <1>2, <2>1, <2>2, <2>3 DEF IInv
<1>3. QED
  BY <1>1, <1>2

(* What the invariant says in terms of the properties. *)
LEMMA InvMeans ==
  IInv => TypeOK /\ NodeBounds /\ Room /\ Balanced /\ OneParent
<1> SUFFICES ASSUME IInv
             PROVE  TypeOK /\ NodeBounds /\ Room /\ Balanced /\ OneParent
  OBVIOUS
<1>1. TypeOK
  BY DEF IInv, Tree, TreeTypes, CallTypes, TypeOK
<1>2. QED
  BY <1>1 DEF IInv, Tree, Balanced

(* Whatever calls a program makes, and with whatever order, keys, records
   and file length, IInv holds at every activation. *)
THEOREM Invariant ==
  Spec => []IInv
<1>1. Init => IInv
  BY InitInv
<1>2. IInv /\ [Next]_vars => IInv'
  BY NextInv
<1>3. QED
  BY <1>1, <1>2, PTL DEF Spec

(* The variables keep their types: every child position read from a page is
   the position of a node, every key comparison gets a key. *)
THEOREM TypesKept ==
  Spec => []TypeOK
<1>1. IInv => TypeOK
  BY InvMeans
<1>2. QED
  BY <1>1, Invariant, PTL

(* No insertion overflows a node's 2T - 1 slots and no deletion leaves a node
   other than the root with less than T - 1 records, for any T > 1. *)
THEOREM NodesWithinBounds ==
  Spec => []NodeBounds
<1>1. IInv => NodeBounds
  BY InvMeans
<1>2. QED
  BY <1>1, Invariant, PTL

(* Splitting full nodes and filling poor ones on the way down suffices: a
   split or a merge never has to be carried back up. *)
THEOREM OnePassSuffices ==
  Spec => []Room
<1>1. IInv => Room
  BY InvMeans
<1>2. QED
  BY <1>1, Invariant, PTL

(* All leaves are equally deep, and no page given to DeleteNode is ever
   entered or pointed to again. *)
THEOREM AlwaysBalanced ==
  Spec => []Balanced
<1>1. IInv => Balanced
  BY InvMeans
<1>2. QED
  BY <1>1, Invariant, PTL

(* No split, merge or rotation leaves two pointers to one page. *)
THEOREM NoPageShared ==
  Spec => []OneParent
<1>1. IInv => OneParent
  BY InvMeans
<1>2. QED
  BY <1>1, Invariant, PTL

(* Every activation that does not end its call goes on exactly one level
   further down, so no recursion is deeper than the tree is high. *)
THEOREM RecursionIsBounded ==
  Spec => OneLevelDown
<1>1. IInv /\ [Next]_vars => [pc # "idle" /\ pc' # "idle" =>
                               height'[at'] = height[at] - 1]_vars
  BY NextInv DEF Down
<1>2. QED
  BY <1>1, Invariant, PTL DEF Spec, OneLevelDown
=============================================================================

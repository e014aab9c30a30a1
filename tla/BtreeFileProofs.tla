--------------------------- MODULE BtreeFileProofs ---------------------------
(***************************************************************************)
(* What the file holds while nodes are written one by one, statements come *)
(* and go and the program may be killed between any two writes.            *)
(***************************************************************************)
EXTENDS BtreeFile, BtreeOrderProofs

(* Every page that differs from the file's is on its way there. *)
Pending ==
  /\ file \in Seq(Node) /\ Len(file) <= Len(disk)
  /\ writes \in Seq(Page) /\ ToSet(writes) \subseteq Live
  /\ \A p \in DOMAIN disk :
       p \in ToSet(writes) \/ (p \in DOMAIN file /\ file[p] = disk[p])

(* New pages are written in the order of their positions, so the end of the
   file is where the next one belongs. *)
InOrder ==
  \A j \in 1 .. Len(writes) :
    \/ writes[j] <= Len(file) + 1
    \/ \E i \in 1 .. j - 1 : writes[i] = writes[j] - 1

(* The children of a page to be written are in the file or written before. *)
ChildrenBefore ==
  \A j \in 1 .. Len(writes) : \A k \in ToSet(disk[writes[j]].kids) :
    k \in DOMAIN file \/ \E i \in 1 .. j - 1 : writes[i] = k

(* Writing this page takes no record out of the file; *)
Keeps(w) ==
  w \in DOMAIN file => ToSet(file[w].recs) \subseteq ToSet(disk[w].recs)

(* the last page but one to be written does not. *)
LastTwoKeep == Len(writes) >= 2 => Keeps(writes[Len(writes) - 1])

(* The calls of WriteNode that are still to come. *)
Written == Pending /\ InOrder /\ ChildrenBefore /\ ChildrenFirst /\ LastTwoKeep

(* The page the descriptor names is the leaf at the left edge, in the tree
   and in the file. *)
Descriptor ==
  /\ Leftmost(root_position)
  /\ root_position \in DOMAIN file
  /\ file[root_position].leaf /\ WellFormed(file[root_position])

(* The traversal goes down a path of the tree, and an opened file has none. *)
Scanning ==
  /\ Path(cursor)
  /\ cursor # <<>> => cursor[1].page = root
  /\ ~loaded => pc = "idle" /\ writes = <<>> /\ cursor = <<>>

(* The inductive invariant. *)
FInv == IInv /\ Rooted /\ Written /\ Descriptor /\ Scanning

-----------------------------------------------------------------------------
(* The loop stops at one slot. *)
LEMMA SlotIs ==
  ASSUME IInv, pc # "idle", NEW i \in 1 .. Count(disk[at]) + 1,
         Stops(disk[at], key, i)
  PROVE  Slot = i
<1>1. /\ key \in Key /\ disk[at] \in Node /\ Count(disk[at]) \in Nat
  BY Here
<1>2. \A j \in 1 .. Count(disk[at]) : Cmp(key, KeyOf(disk[at].recs[j])) \in Int
  <2>1. \A j \in 1 .. Count(disk[at]) : disk[at].recs[j] \in Record
    BY <1>1, ElementOfSeq DEF Node, Count
  <2>2. QED
    BY <1>1, <2>1, KeyAssumption, CmpAssumption
<1>3. ASSUME NEW j \in 1 .. Count(disk[at]) + 1, Stops(disk[at], key, j)
      PROVE  j = i
  <2>1. ASSUME NEW a \in 1 .. Count(disk[at]) + 1, Stops(disk[at], key, a),
               NEW b \in 1 .. Count(disk[at]) + 1, Stops(disk[at], key, b),
               a < b
        PROVE  FALSE
    <3>1. a \in 1 .. b - 1 /\ a \in 1 .. Count(disk[at])
      BY <1>1, <2>1
    <3>2. Cmp(key, KeyOf(disk[at].recs[a])) > 0
      BY <2>1, <3>1 DEF Stops
    <3>3. Cmp(key, KeyOf(disk[at].recs[a])) <= 0
      BY <2>1, <3>1 DEF Stops
    <3>4. QED
      BY <1>2, <3>1, <3>2, <3>3
  <2>2. QED
    BY <1>1, <1>3, <2>1
<1>4. QED
  BY <1>3 DEF Slot

(* Pages and nodes of the file, and what is left to write, are known. *)
LEMMA PendingFacts ==
  ASSUME Tree, Pending
  PROVE  /\ Len(file) \in Nat /\ DOMAIN file = 1 .. Len(file)
         /\ Len(disk) \in Nat /\ DOMAIN disk = 1 .. Len(disk)
         /\ DOMAIN file \subseteq DOMAIN disk
         /\ Len(writes) \in Nat /\ DOMAIN writes = 1 .. Len(writes)
         /\ ToSet(writes) = {writes[j] : j \in 1 .. Len(writes)}
         /\ \A j \in 1 .. Len(writes) :
              /\ writes[j] \in Page /\ writes[j] \in Live
              /\ disk[writes[j]] \in Node
<1>1. /\ Len(file) \in Nat /\ DOMAIN file = 1 .. Len(file)
      /\ Len(disk) \in Nat /\ DOMAIN disk = 1 .. Len(disk)
      /\ Len(writes) \in Nat /\ DOMAIN writes = 1 .. Len(writes)
  BY PageFacts, LenProperties DEF Pending
<1>2. DOMAIN file \subseteq DOMAIN disk
  BY <1>1 DEF Pending
<1>3. ToSet(writes) = {writes[j] : j \in 1 .. Len(writes)}
  BY <1>1 DEF ToSet
<1>4. ASSUME NEW j \in 1 .. Len(writes)
      PROVE  /\ writes[j] \in Page /\ writes[j] \in Live
             /\ disk[writes[j]] \in Node
  <2>1. writes[j] \in Page /\ writes[j] \in Live
    BY <1>3, ElementOfSeq DEF Pending
  <2>2. QED
    BY <2>1, PageFacts
<1>5. QED
  BY <1>1, <1>2, <1>3, <1>4

(* With nothing left to write the file is the tree. *)
LEMMA WrittenAll ==
  ASSUME Tree, Pending, writes = <<>>
  PROVE  file = disk
<1>1. ToSet(writes) = {}
  BY DEF ToSet
<1>2. \A p \in DOMAIN disk : p \in DOMAIN file /\ file[p] = disk[p]
  BY <1>1 DEF Pending
<1>3. disk \in Seq(Node) /\ file \in Seq(Node)
  BY DEF Pending, Tree, TreeTypes
<1>4. Len(file) <= Len(disk)
  BY DEF Pending
<1>5. /\ Len(file) \in Nat /\ DOMAIN file = 1 .. Len(file)
      /\ Len(disk) \in Nat /\ DOMAIN disk = 1 .. Len(disk)
  BY PendingFacts
<1>6. Len(file) = Len(disk)
  <2>1. CASE Len(disk) = 0
    BY <1>4, <1>5, <2>1
  <2>2. CASE Len(disk) # 0
    <3>1. Len(disk) \in DOMAIN disk
      BY <1>5, <2>2
    <3>2. Len(disk) \in 1 .. Len(file)
      BY <1>2, <1>5, <3>1
    <3>3. Len(file) \in Nat /\ Len(disk) \in Nat
      BY <1>5
    <3>4. Len(disk) <= Len(file)
      BY <3>2, <3>3
    <3>5. QED
      BY <1>4, <3>3, <3>4
  <2>3. QED
    BY <2>1, <2>2
<1>7. QED
  BY <1>2, <1>3, <1>5, <1>6

-----------------------------------------------------------------------------
(* One node is written. *)
LEMMA WriteKept ==
  ASSUME Tree, Written, mdbWriteNode
  PROVE  /\ Written'
         /\ \A p \in DOMAIN file : p \in DOMAIN file'
         /\ \A p \in DOMAIN file' :
              file'[p] = IF p = Head(writes) THEN disk[p] ELSE file[p]
<1> DEFINE page == Head(writes)
<1>1. /\ writes # <<>> /\ writes' = Tail(writes) /\ UNCHANGED vars
      /\ file' = IF page \in DOMAIN file THEN [file EXCEPT ![page] = disk[page]]
                                         ELSE Append(file, disk[page])
  BY DEF mdbWriteNode
<1>2. disk' = disk /\ freed' = freed /\ Live' = Live
  BY <1>1 DEF vars, tree, Live
<1>3. /\ Pending /\ InOrder /\ ChildrenBefore /\ ChildrenFirst /\ LastTwoKeep
      /\ writes \in Seq(Page) /\ file \in Seq(Node) /\ Len(file) <= Len(disk)
  BY DEF Written, Pending
<1>4. /\ Len(writes) \in Nat /\ Len(writes) >= 1 /\ page = writes[1]
      /\ 1 \in 1 .. Len(writes)
  BY <1>1, <1>3
<1>5. /\ page \in Page /\ page \in Live /\ disk[page] \in Node
      /\ page \in DOMAIN disk
  BY <1>3, <1>4, PendingFacts, PageFacts
<1>6. page <= Len(file) + 1
  BY <1>3, <1>4 DEF InOrder
<1>7. /\ file' \in Seq(Node) /\ Len(file') \in Nat
      /\ DOMAIN file' = 1 .. Len(file')
      /\ DOMAIN file' = DOMAIN file \cup {page}
      /\ Len(file') >= Len(file) /\ Len(file') >= page
      /\ Len(file') <= Len(disk)
      /\ \A p \in DOMAIN file' :
           file'[p] = IF p = page THEN disk[p] ELSE file[p]
  <2>0. /\ Len(file) \in Nat /\ DOMAIN file = 1 .. Len(file)
        /\ DOMAIN disk = 1 .. Len(disk)
    BY <1>3, PendingFacts
  <2>1. CASE page \in DOMAIN file
    <3>1. file' = [file EXCEPT ![page] = disk[page]]
      BY <1>1, <2>1
    <3>2. /\ file' \in Seq(Node) /\ Len(file') = Len(file)
          /\ \A p \in 1 .. Len(file) :
               file'[p] = IF p = page THEN disk[page] ELSE file[p]
      BY <1>3, <1>5, <2>0, <2>1, <3>1, ExceptSeq
    <3>3. DOMAIN file' = 1 .. Len(file')
      BY <3>2, LenProperties
    <3>4. page <= Len(file') /\ DOMAIN file' = DOMAIN file \cup {page}
      BY <2>0, <2>1, <3>2, <3>3
    <3>5. Len(file') \in Nat /\ Len(file') >= Len(file) /\ Len(file') <= Len(disk)
      BY <1>3, <2>0, <3>2
    <3>6. \A p \in DOMAIN file' :
            file'[p] = IF p = page THEN disk[p] ELSE file[p]
      BY <2>0, <3>2, <3>3
    <3>7. QED
      BY <3>2, <3>3, <3>4, <3>5, <3>6
  <2>2. CASE page \notin DOMAIN file
    <3>1. file' = Append(file, disk[page])
      BY <1>1, <2>2
    <3>2. page = Len(file) + 1
      BY <1>5, <1>6, <2>0, <2>2 DEF Page
    <3>3. /\ file' \in Seq(Node) /\ Len(file') = Len(file) + 1
          /\ \A p \in 1 .. Len(file) : file'[p] = file[p]
          /\ file'[Len(file) + 1] = disk[page]
      BY <1>3, <1>5, <3>1
    <3>4. DOMAIN file' = 1 .. Len(file')
      BY <3>3, LenProperties
    <3>5. QED
      BY <1>5, <2>0, <3>2, <3>3, <3>4
  <2>3. QED
    BY <2>1, <2>2
<1> HIDE DEF page
<1>8. /\ writes' \in Seq(Page) /\ Len(writes') = Len(writes) - 1
      /\ \A j \in 1 .. Len(writes') : j + 1 \in 1 .. Len(writes)
                                      /\ writes'[j] = writes[j + 1]
  BY <1>1, <1>3, <1>4
<1>9. ToSet(writes') \subseteq ToSet(writes)
      /\ ToSet(writes) \subseteq ToSet(writes') \cup {page}
  <2>1. /\ DOMAIN writes' = 1 .. Len(writes')
        /\ DOMAIN writes = 1 .. Len(writes)
    BY <1>3, <1>8, LenProperties
  <2>2. ToSet(writes') \subseteq ToSet(writes)
    BY <1>8, <2>1 DEF ToSet
  <2>3. ASSUME NEW j \in 1 .. Len(writes), j # 1
        PROVE  \E i \in 1 .. Len(writes') : writes'[i] = writes[j]
    <3>1. j - 1 \in 1 .. Len(writes') /\ (j - 1) + 1 = j
      BY <1>4, <1>8, <2>3
    <3>2. writes'[j - 1] = writes[j]
      BY <1>8, <3>1
    <3>3. QED
      BY <3>1, <3>2
  <2>4. ToSet(writes) \subseteq ToSet(writes') \cup {page}
    BY <1>4, <2>1, <2>3 DEF ToSet
  <2>5. QED
    BY <2>2, <2>4
<1>10. Pending'
  <2>1. \A p \in DOMAIN disk :
          p \in ToSet(writes') \/ (p \in DOMAIN file' /\ file'[p] = disk[p])
    BY <1>3, <1>7, <1>9 DEF Pending
  <2>2. QED
    BY <1>2, <1>3, <1>7, <1>8, <1>9, <2>1 DEF Pending
<1>11. ASSUME NEW j \in 1 .. Len(writes'), NEW k \in Nat,
              NEW i \in 1 .. j, writes[i] = k
       PROVE  k = page \/ \E x \in 1 .. j - 1 : writes'[x] = k
  <2>1. CASE i = 1
    BY <1>4, <1>11, <2>1
  <2>2. CASE i # 1
    <3>1. i - 1 \in 1 .. j - 1 /\ i - 1 \in 1 .. Len(writes') /\ (i - 1) + 1 = i
      BY <1>4, <1>8, <2>2
    <3>2. QED
      BY <1>8, <1>11, <3>1
  <2>3. QED
    BY <2>1, <2>2
<1>12. InOrder'
  <2> SUFFICES ASSUME NEW j \in 1 .. Len(writes'), ~ (writes'[j] <= Len(file') + 1)
               PROVE  \E x \in 1 .. j - 1 : writes'[x] = writes'[j] - 1
    BY DEF InOrder
  <2>1. /\ j + 1 \in 1 .. Len(writes) /\ writes'[j] = writes[j + 1]
        /\ writes[j + 1] \in Page
    BY <1>3, <1>8, PendingFacts
  <2>0. ~ (writes[j + 1] <= Len(file) + 1)
    BY <1>3, <1>7, <2>1, PendingFacts DEF Page
  <2>2. PICK i \in 1 .. (j + 1) - 1 : writes[i] = writes[j + 1] - 1
    BY <1>3, <2>0, <2>1 DEF InOrder
  <2>3. i \in 1 .. j /\ writes[i] \in Nat
    BY <2>1, <2>2 DEF Page
  <2>4. writes[i] # page
    BY <1>5, <1>7, <2>1, <2>2 DEF Page
  <2>5. \E x \in 1 .. j - 1 : writes'[x] = writes[i]
    BY <1>11, <2>3, <2>4
  <2>6. QED
    BY <2>1, <2>2, <2>5
<1>13. ChildrenBefore'
  <2> SUFFICES ASSUME NEW j \in 1 .. Len(writes'),
                      NEW k \in ToSet(disk'[writes'[j]].kids), k \notin DOMAIN file'
               PROVE  \E x \in 1 .. j - 1 : writes'[x] = k
    BY DEF ChildrenBefore
  <2>1. /\ j + 1 \in 1 .. Len(writes) /\ writes'[j] = writes[j + 1]
        /\ k \in ToSet(disk[writes[j + 1]].kids)
    BY <1>2, <1>8
  <2>2. PICK i \in 1 .. (j + 1) - 1 : writes[i] = k
    BY <1>3, <1>7, <2>1 DEF ChildrenBefore
  <2>3. i \in 1 .. j /\ i \in 1 .. Len(writes)
    BY <1>4, <1>8, <2>2
  <2>4. k \in Nat /\ k # page
    BY <1>3, <1>7, <2>2, <2>3, PendingFacts DEF Page
  <2>5. QED
    BY <1>11, <2>2, <2>3, <2>4
<1>14. ChildrenFirst'
  <2> SUFFICES ASSUME NEW p \in DOMAIN file'
               PROVE  ToSet(file'[p].kids) \subseteq DOMAIN file'
    BY DEF ChildrenFirst
  <2>1. CASE p = page
    <3>1. file'[p] = disk[writes[1]]
      BY <1>4, <1>7, <2>1
    <3>2. \A k \in ToSet(disk[writes[1]].kids) : k \in DOMAIN file
      BY <1>3, <1>4 DEF ChildrenBefore
    <3>3. QED
      BY <1>7, <3>1, <3>2
  <2>2. CASE p # page
    BY <1>3, <1>7, <2>2 DEF ChildrenFirst
  <2>3. QED
    BY <2>1, <2>2
<1>15. LastTwoKeep'
  <2> SUFFICES ASSUME Len(writes') >= 2, NEW w, w = writes'[Len(writes') - 1],
                      w \in DOMAIN file'
               PROVE  ToSet(file'[w].recs) \subseteq ToSet(disk'[w].recs)
    BY DEF LastTwoKeep, Keeps
  <2>1. w = writes[Len(writes) - 1] /\ Len(writes) >= 2
    <3>1. Len(writes') - 1 \in 1 .. Len(writes')
      BY <1>8
    <3>2. writes'[Len(writes') - 1] = writes[(Len(writes') - 1) + 1]
      BY <1>8, <3>1
    <3>3. QED
      BY <1>4, <1>8, <3>2
  <2>2. CASE w = page
    BY <1>2, <1>7, <2>2
  <2>3. CASE w # page
    BY <1>2, <1>3, <1>7, <2>1, <2>3 DEF LastTwoKeep, Keeps
  <2>4. QED
    BY <2>2, <2>3
<1>16. QED
  BY <1>7, <1>10, <1>12, <1>13, <1>14, <1>15 DEF Written, page
-----------------------------------------------------------------------------
(* A step leaves behind the nodes it has to write. *)
LEMMA KidsNext ==
  ASSUME Tree', NEW q \in Live', NEW k \in ToSet(disk'[q].kids)
  PROVE  /\ k \in Live' /\ k # root'
         /\ \A o \in Live' : k \in ToSet(disk'[o].kids) => o = q
<1>1. PICK i \in DOMAIN disk'[q].kids : k = disk'[q].kids[i]
  BY DEF ToSet
<1>2. k \in Live' \ {root'}
  BY <1>1 DEF Tree, ChildrenBelow
<1>3. ASSUME NEW o \in Live', k \in ToSet(disk'[o].kids)
      PROVE  o = q
  <2>1. PICK j \in DOMAIN disk'[o].kids : k = disk'[o].kids[j]
    BY <1>3 DEF ToSet
  <2>2. OneParent'
    BY DEF Tree
  <2>3. QED
    BY <1>1, <2>1, <2>2 DEF OneParent
<1>4. QED
  BY <1>2, <1>3

(* The pages after a step are the pages before it, and new ones. *)
LEMMA PagesNext ==
  ASSUME Tree'
  PROVE  /\ disk' \in Seq(Node) /\ Len(disk') \in Nat
         /\ DOMAIN disk' = 1 .. Len(disk')
         /\ \A p \in Live' : p \in DOMAIN disk'
<1>1. disk' \in Seq(Node)
  BY DEF Tree, TreeTypes
<1>2. QED
  BY <1>1, LenProperties DEF Live

(* An interval starts at its own least number. *)
LEMMA SameInterval ==
  ASSUME NEW m \in Nat, NEW n \in Nat, 1 .. m = 1 .. n
  PROVE  m = n
<1>1. \A x \in Nat : x \in 1 .. m => x \in 1 .. n
  OBVIOUS
<1>2. \A x \in Nat : x \in 1 .. n => x \in 1 .. m
  OBVIOUS
<1>3. m <= n /\ n <= m
  BY <1>1, <1>2
<1>4. QED
  BY <1>3

(* A step that changes only pages it then writes keeps Written. *)
LEMMA TouchesWritten ==
  ASSUME Tree, Tree', Written, writes = <<>>, file' = file,
         NEW pages, Touches(pages),
         writes' \in Seq(Page), ToSet(writes') = pages,
         NEW w, Len(writes') >= 2 => w = writes'[Len(writes') - 1],
         Len(writes') >= 2 => ToSet(disk[w].recs) \subseteq ToSet(disk'[w].recs)
  PROVE  Written'
<1>1. file = disk
  BY WrittenAll DEF Written
<1>2. /\ DOMAIN disk' = DOMAIN disk /\ pages \subseteq Live'
      /\ \A q \in DOMAIN disk \ pages : disk'[q] = disk[q]
  BY FileAssumption DEF Touches, Changes
<1>3. /\ disk \in Seq(Node) /\ disk' \in Seq(Node)
      /\ Len(disk) \in Nat /\ DOMAIN disk = 1 .. Len(disk)
      /\ Len(disk') \in Nat /\ DOMAIN disk' = 1 .. Len(disk')
      /\ \A p \in Live' : p \in DOMAIN disk'
  BY PageFacts, PagesNext DEF Tree, TreeTypes
<1>4. Len(file) <= Len(disk')
  <2>1. 1 .. Len(disk) = 1 .. Len(disk')
    BY <1>2, <1>3
  <2>2. Len(disk) = Len(disk')
    BY <1>3, <2>1, SameInterval
  <2>3. QED
    BY <1>1, <1>3, <2>2
<1>5. /\ DOMAIN writes' = 1 .. Len(writes')
      /\ \A j \in 1 .. Len(writes') : writes'[j] \in pages
  BY LenProperties DEF ToSet
<1>6. \A j \in 1 .. Len(writes') : /\ writes'[j] \in Live'
                                   /\ writes'[j] \in DOMAIN file
  BY <1>1, <1>2, <1>3, <1>5
<1>7. Pending'
  BY <1>1, <1>2, <1>3, <1>4 DEF Pending
<1>8. InOrder'
  <2>1. \A j \in 1 .. Len(writes') : writes'[j] <= Len(file) + 1
    BY <1>1, <1>3, <1>6
  <2>2. QED
    BY <2>1 DEF InOrder
<1>9. ChildrenBefore'
  <2>1. ASSUME NEW j \in 1 .. Len(writes'),
               NEW k \in ToSet(disk'[writes'[j]].kids)
        PROVE  k \in DOMAIN file
    <3>1. k \in Live'
      BY <1>6, KidsNext
    <3>2. QED
      BY <1>1, <1>2, <1>3, <3>1
  <2>2. QED
    BY <2>1 DEF ChildrenBefore
<1>10. ChildrenFirst'
  BY DEF ChildrenFirst, Written
<1>11. LastTwoKeep'
  BY <1>1 DEF LastTwoKeep, Keeps
<1>12. QED
  BY <1>7, <1>8, <1>9, <1>10, <1>11 DEF Written

(* A split has put c's right half on the page new, below p. *)
Halves(c, new, p) ==
  /\ new = NewPage
  /\ Changes({c, new, p})
  /\ c \in DOMAIN disk /\ c # p
  /\ p \in DOMAIN disk \/ (p = new + 1 /\ p = root')
  /\ new \in ToSet(disk'[p].kids)

(* The left half, the right half, the page that points to both. *)
LEMMA SplitWritten ==
  ASSUME Tree, Tree', Written, writes = <<>>, file' = file,
         NEW c, NEW new, NEW p, Halves(c, new, p), writes' = <<c, new, p>>
  PROVE  Written'
<1>0. /\ new = NewPage /\ Changes({c, new, p})
      /\ c \in DOMAIN disk /\ c # p
      /\ p \in DOMAIN disk \/ (p = new + 1 /\ p = root')
      /\ new \in ToSet(disk'[p].kids)
  BY DEF Halves
<1> DEFINE n == Len(disk)
           m == Len(disk')
           Old == DOMAIN disk
           New == DOMAIN disk'
<1>1. file = disk
  BY WrittenAll DEF Written
<1>2. /\ {c, new, p} \subseteq Live'
      /\ Old \subseteq New
      /\ New \subseteq Old \cup {c, new, p}
      /\ \A q \in Old \ {c, new, p} : disk'[q] = disk[q]
  BY <1>0, FileAssumption DEF Changes
<1>3. /\ disk \in Seq(Node) /\ disk' \in Seq(Node)
      /\ \A q \in Live' : q \in New
  BY PageFacts, PagesNext DEF Tree, TreeTypes
<1>4. n \in Nat /\ Old = 1 .. n /\ m \in Nat /\ New = 1 .. m /\ new = n + 1
  BY <1>0, PageFacts, PagesNext DEF NewPage
<1>5. Len(file) = n /\ DOMAIN file = Old
  BY <1>1
<1> HIDE DEF n, m, Old, New
<1>6. /\ new \notin Old /\ new # c /\ new # p
      /\ c \in Nat /\ c > 0 /\ c <= n /\ new \in Nat /\ new > 0
      /\ p \in Nat /\ p > 0 /\ (p <= n \/ p - 1 = new)
  <2>1. c \in 1 .. n /\ (p \in 1 .. n \/ p = new + 1)
    BY <1>0, <1>4 DEF Old
  <2>2. QED
    BY <1>0, <1>4, <2>1
<1>7. n <= m
  <2>1. \A x \in Nat : x \in 1 .. n => x \in 1 .. m
    BY <1>2, <1>4
  <2>2. QED
    BY <1>4, <2>1
<1>8. c \in Page /\ new \in Page /\ p \in Page
  BY <1>6 DEF Page
<1>9. /\ writes' \in Seq(Page) /\ Len(writes') = 3
      /\ writes'[1] = c /\ writes'[2] = new /\ writes'[3] = p
      /\ 1 .. Len(writes') = {1, 2, 3}
  <2>1. 1 .. 3 = {1, 2, 3}
    OBVIOUS
  <2>2. QED
    BY <1>8, <2>1
<1>10. ToSet(writes') = {c, new, p}
  <2>1. DOMAIN writes' = {1, 2, 3}
    BY <1>9, LenProperties
  <2>2. QED
    BY <1>9, <2>1 DEF ToSet
<1>11. Pending'
  <2>1. file' \in Seq(Node) /\ Len(file') <= Len(disk')
    BY <1>1, <1>3, <1>5, <1>7 DEF m
  <2>2. \A q \in New : q \in {c, new, p} \/ (q \in DOMAIN file /\ file[q] = disk'[q])
    BY <1>1, <1>2, <1>5
  <2>3. QED
    BY <1>2, <1>9, <1>10, <2>1, <2>2 DEF Pending, New
<1>12. InOrder'
  <2>1. c <= Len(file) + 1 /\ new <= Len(file) + 1
    BY <1>4, <1>5, <1>6
  <2>2. p <= Len(file) + 1 \/ p - 1 = new
    <3>1. CASE p <= n
      BY <1>4, <1>5, <1>6, <3>1
    <3>2. QED
      BY <1>6, <3>1
  <2>3. 2 \in 1 .. 3 - 1
    OBVIOUS
  <2>4. QED
    BY <1>9, <2>1, <2>2, <2>3 DEF InOrder
<1>13. p = root' \/ p \in Old
  BY <1>0 DEF Old
<1>14. ASSUME NEW q \in {c, new}, NEW k \in ToSet(disk'[q].kids)
       PROVE  k \in DOMAIN file
  <2>1. q \in Live' /\ p \in Live' /\ q # p
    BY <1>0, <1>2, <1>6
  <2>2. /\ k \in Live' /\ k # root'
        /\ \A o \in Live' : k \in ToSet(disk'[o].kids) => o = q
    BY <2>1, KidsNext
  <2>3. k # new
    BY <1>0, <2>1, <2>2
  <2>4. k \in Old \cup {c, new, p}
    BY <1>2, <1>3, <2>2
  <2>5. c \in Old
    BY <1>0 DEF Old
  <2>6. QED
    BY <1>5, <1>13, <2>2, <2>3, <2>4, <2>5
<1>15. ASSUME NEW k \in ToSet(disk'[p].kids)
       PROVE  k \in DOMAIN file \/ k = new
  <2>1. k \in Live' /\ k # root'
    BY <1>2, KidsNext
  <2>2. k \in Old \cup {c, new, p}
    BY <1>2, <1>3, <2>1
  <2>3. c \in Old
    BY <1>0 DEF Old
  <2>4. QED
    BY <1>5, <1>13, <2>1, <2>2, <2>3
<1>16. ChildrenBefore'
  <2> SUFFICES ASSUME NEW j \in {1, 2, 3}, NEW k \in ToSet(disk'[writes'[j]].kids)
               PROVE  k \in DOMAIN file \/ \E i \in 1 .. j - 1 : writes'[i] = k
    BY <1>9 DEF ChildrenBefore
  <2>1. CASE j \in {1, 2}
    BY <1>9, <1>14, <2>1
  <2>2. CASE j = 3
    <3>1. 2 \in 1 .. j - 1
      BY <2>2
    <3>2. QED
      BY <1>9, <1>15, <2>2, <3>1
  <2>3. QED
    BY <2>1, <2>2
<1>17. ChildrenFirst'
  BY DEF ChildrenFirst, Written
<1>18. LastTwoKeep'
  BY <1>5, <1>6, <1>9 DEF LastTwoKeep, Keeps
<1>19. QED
  BY <1>11, <1>12, <1>16, <1>17, <1>18 DEF Written

(* One page to be written, *)
LEMMA OnePage ==
  ASSUME NEW a \in Page
  PROVE  /\ <<a>> \in Seq(Page) /\ Len(<<a>>) = 1
         /\ ToSet(<<a>>) = {a}
<1> DEFINE s == <<a>>
<1>1. s \in Seq(Page) /\ Len(s) = 1 /\ s[1] = a
  OBVIOUS
<1> HIDE DEF s
<1>2. \A i \in 1 .. 1 : i = 1
  OBVIOUS
<1>3. DOMAIN s = 1 .. 1 /\ 1 \in 1 .. 1
  BY <1>1, LenProperties
<1>4. ToSet(s) = {a}
  BY <1>1, <1>2, <1>3 DEF ToSet
<1>5. QED
  BY <1>1, <1>4 DEF s

(* two, *)
LEMMA TwoPages ==
  ASSUME NEW a \in Page, NEW b \in Page
  PROVE  /\ <<a, b>> \in Seq(Page) /\ Len(<<a, b>>) = 2
         /\ <<a, b>>[1] = a
         /\ ToSet(<<a, b>>) = {a, b}
<1>1. DOMAIN <<a, b>> = {1, 2}
  OBVIOUS
<1>2. QED
  BY <1>1 DEF ToSet

(* three, *)
LEMMA ThreePages ==
  ASSUME NEW a \in Page, NEW b \in Page, NEW c \in Page
  PROVE  /\ <<a, b, c>> \in Seq(Page) /\ Len(<<a, b, c>>) = 3
         /\ <<a, b, c>>[2] = b
         /\ ToSet(<<a, b, c>>) = {a, b, c}
<1>1. DOMAIN <<a, b, c>> = {1, 2, 3}
  OBVIOUS
<1>2. QED
  BY <1>1 DEF ToSet

(* or none. *)
LEMMA NoPages ==
  /\ <<>> \in Seq(Page) /\ Len(<<>>) = 0 /\ ToSet(<<>>) = {}
BY DEF ToSet

(* A step that writes nothing keeps Written, *)
LEMMA WritesNothing ==
  ASSUME Tree, Tree', Written, writes = <<>>, file' = file,
         Touches({}), writes' = <<>>
  PROVE  Written'
<1>1. writes' \in Seq(Page) /\ ToSet(writes') = {} /\ ~ (Len(writes') >= 2)
  BY NoPages
<1>2. QED
  BY <1>1, TouchesWritten

(* one that writes a page, *)
LEMMA WritesOne ==
  ASSUME Tree, Tree', Written, writes = <<>>, file' = file,
         NEW p \in Page, Touches({p}), writes' = <<p>>
  PROVE  Written'
<1>1. writes' \in Seq(Page) /\ Len(writes') = 1 /\ ToSet(writes') = {p}
  BY OnePage
<1>2. ~ (Len(writes') >= 2)
  BY <1>1
<1>3. QED
  BY <1>1, <1>2, TouchesWritten

(* a merge, which writes the left child, then the parent, *)
LEMMA WritesMerge ==
  ASSUME Tree, Tree', Written, writes = <<>>, file' = file,
         NEW a, NEW p, Merges(a, p), writes' = <<a, p>>
  PROVE  Written'
<1>1. a \in Page /\ p \in Page
  BY PageFacts DEF Merges
<1>2. /\ writes' \in Seq(Page) /\ ToSet(writes') = {a, p}
      /\ a = writes'[Len(writes') - 1]
  BY <1>1, TwoPages
<1>3. QED
  BY <1>2, TouchesWritten DEF Merges

(* and a rotation, which writes the sibling, the child and the parent. *)
LEMMA WritesRotation ==
  ASSUME Tree, Tree', Written, writes = <<>>, file' = file,
         NEW f, NEW t, NEW p, Rotates(f, t, p), writes' = <<f, t, p>>
  PROVE  Written'
<1>1. f \in Page /\ t \in Page /\ p \in Page
  BY PageFacts DEF Rotates
<1>2. /\ writes' \in Seq(Page) /\ ToSet(writes') = {f, t, p}
      /\ t = writes'[Len(writes') - 1]
  BY <1>1, ThreePages
<1>3. QED
  BY <1>2, TouchesWritten DEF Rotates

-----------------------------------------------------------------------------
(* A statement: a step of the tree and the writes it leaves, or one write. *)
LEMMA StepWritten ==
  ASSUME IInv, Rooted, Tree', Written, WritingStep
  PROVE  Kept /\ Written'
<1>0. Tree /\ writes = <<>> /\ file' = file /\ at \in Page
  BY Here, PageFacts DEF WritingStep
<1>1. CASE /\ \/ InsertIntoLeaf \/ DeleteFromLeaf
              \/ DeleteByPredecessor \/ DeleteBySuccessor
           /\ writes' = <<at>>
  <2>1. Touches({at})
    BY <1>1, LeafSteps, ReplacementSteps
  <2>2. QED
    BY <1>0, <1>1, <2>1, WritesOne DEF Touches
<1>2. CASE InsertSplitsChild /\ writes' = SplitWrites(ChildAt(Slot), at)
  <2>1. PICK i \in 1 .. Count(disk[at]) + 1 :
          Stops(disk[at], key, i) /\ Splits(disk[at].kids[i], at)
    BY <1>2, SplitStep
  <2>2. Slot = i
    BY <1>2, <2>1, SlotIs DEF InsertSplitsChild
  <2> DEFINE c == disk[at].kids[i]
             new == NewPage
  <2>3. writes' = <<c, new, at>> /\ Splits(c, at) /\ new = NewPage
    BY <1>2, <2>1, <2>2 DEF SplitWrites, ChildAt, NewPage
  <2> HIDE DEF c, new
  <2>4. Kept /\ Halves(c, new, at)
    BY <2>3 DEF Splits, Halves
  <2>5. Written'
    BY <1>0, <2>3, <2>4, SplitWritten
  <2>6. QED
    BY <2>4, <2>5
<1>3. CASE DeleteByMerge /\ writes' = MergeWrites(ChildAt(Slot), at)
  <2>1. PICK i \in 1 .. Count(disk[at]) :
          Stops(disk[at], key, i) /\ Merges(disk[at].kids[i], at)
    BY <1>3, MergeSteps
  <2>2. i \in 1 .. Count(disk[at]) + 1
    BY Here
  <2>3. Slot = i
    BY <1>3, <2>1, <2>2, SlotIs DEF DeleteByMerge
  <2>4. writes' = <<disk[at].kids[i], at>>
    BY <1>3, <2>3 DEF MergeWrites, ChildAt
  <2>5. QED
    BY <1>0, <2>1, <2>4, WritesMerge DEF Merges, Touches
<1>4. CASE DeleteMergesLeft /\ writes' = MergeWrites(ChildAt(Slot - 1), at)
  <2>1. PICK i \in 2 .. Count(disk[at]) + 1 :
          Stops(disk[at], key, i) /\ Merges(disk[at].kids[i - 1], at)
    BY <1>4, MergeSteps
  <2>2. i \in 1 .. Count(disk[at]) + 1
    BY Here
  <2>3. Slot = i
    BY <1>4, <2>1, <2>2, SlotIs DEF DeleteMergesLeft, Below
  <2>4. writes' = <<disk[at].kids[i - 1], at>>
    BY <1>4, <2>3 DEF MergeWrites, ChildAt
  <2>5. QED
    BY <1>0, <2>1, <2>4, WritesMerge DEF Merges, Touches
<1>5. CASE DeleteMergesRight /\ writes' = MergeWrites(ChildAt(Slot), at)
  <2>1. Stops(disk[at], key, 1) /\ Merges(disk[at].kids[1], at)
    BY <1>5, MergeSteps
  <2>2. 1 \in 1 .. Count(disk[at]) + 1
    BY Here
  <2>3. Slot = 1
    BY <1>5, <2>1, <2>2, SlotIs DEF DeleteMergesRight, Below
  <2>4. writes' = <<disk[at].kids[1], at>>
    BY <1>5, <2>3 DEF MergeWrites, ChildAt
  <2>5. QED
    BY <1>0, <2>1, <2>4, WritesMerge DEF Merges, Touches
<1>6. CASE /\ DeleteBorrowsLeft
           /\ writes' = RotateWrites(ChildAt(Slot - 1), ChildAt(Slot))
  <2>1. PICK i \in 2 .. Count(disk[at]) + 1 :
          /\ Stops(disk[at], key, i)
          /\ Rotates(disk[at].kids[i - 1], disk[at].kids[i], at)
    BY <1>6, RotationSteps
  <2>2. i \in 1 .. Count(disk[at]) + 1
    BY Here
  <2>3. Slot = i
    BY <1>6, <2>1, <2>2, SlotIs DEF DeleteBorrowsLeft, Below
  <2>4. writes' = <<disk[at].kids[i - 1], disk[at].kids[i], at>>
    BY <1>6, <2>3 DEF RotateWrites, ChildAt
  <2>5. QED
    BY <1>0, <2>1, <2>4, WritesRotation DEF Rotates, Touches
<1>7. CASE /\ DeleteBorrowsRight
           /\ writes' = RotateWrites(ChildAt(Slot + 1), ChildAt(Slot))
  <2>1. PICK i \in 1 .. Count(disk[at]) :
          /\ Stops(disk[at], key, i)
          /\ Rotates(disk[at].kids[i + 1], disk[at].kids[i], at)
    BY <1>7, RotationSteps
  <2>2. i \in 1 .. Count(disk[at]) + 1
    BY Here
  <2>3. Slot = i
    BY <1>7, <2>1, <2>2, SlotIs DEF DeleteBorrowsRight, Below
  <2>4. writes' = <<disk[at].kids[i + 1], disk[at].kids[i], at>>
    BY <1>7, <2>3 DEF RotateWrites, ChildAt
  <2>5. QED
    BY <1>0, <2>1, <2>4, WritesRotation DEF Rotates, Touches
<1>8. CASE /\ \/ InsertCollides \/ InsertDescends \/ SearchStep
              \/ DeleteMisses \/ DeleteDescends
           /\ writes' = <<>>
  <2>1. Touches({})
    BY <1>8, OtherSteps
  <2>2. QED
    BY <1>0, <1>8, <2>1, WritesNothing DEF Touches
<1>9. QED
  BY <1>1, <1>2, <1>3, <1>4, <1>5, <1>6, <1>7, <1>8 DEF WritingStep

(* Every call and every step of one keeps Written. *)
LEMMA CallWritten ==
  ASSUME IInv, Rooted, Tree', Written, WritingCall
  PROVE  Kept /\ Written'
<1>0. Tree /\ writes = <<>> /\ file' = file /\ root \in DOMAIN disk
  BY Here DEF WritingCall, Live
<1>1. CASE /\ \E r \in Record : InsertSplitRoot(r)
           /\ writes' = SplitWrites(root, Len(disk) + 2)
  <2>1. PICK r \in Record : InsertSplitRoot(r)
    BY <1>1
  <2> DEFINE new == Len(disk) + 1
             top == Len(disk) + 2
  <2>2. /\ writes' = <<root, new, top>> /\ root' = top
        /\ new = Len(disk) + 1 /\ top = Len(disk) + 2 /\ new = NewPage
    BY <1>1, <2>1 DEF SplitWrites, InsertSplitRoot, NewPage
  <2>3. top = new + 1 /\ root # top
    BY <1>0, PageFacts
  <2> HIDE DEF new, top
  <2>4. /\ Kept /\ Changes({root, new, top})
        /\ new \in ToSet(disk'[top].kids)
    BY <1>0, <2>1, <2>2, SplitRootKept
  <2>5. Halves(root, new, top)
    BY <1>0, <2>2, <2>3, <2>4 DEF Halves
  <2>6. Written'
    BY <1>0, <2>2, <2>5, SplitWritten
  <2>7. QED
    BY <2>4, <2>6
<1>2. CASE /\ (\E r \in Record : Insert(r)) \/ SearchCall \/ DeleteCall
           /\ writes' = <<>>
  <2>1. Touches({})
    BY <1>2, OtherSteps
  <2>2. QED
    BY <1>0, <1>2, <2>1, WritesNothing DEF Touches
<1>3. QED
  BY <1>1, <1>2 DEF WritingCall

-----------------------------------------------------------------------------
(* The actions. *)
LEMMA DescriptorKept ==
  ASSUME IInv, Kept, Descriptor, file' = file, root_position' = root_position
  PROVE  Descriptor'
<1>1. PICK r : r = root_position
  OBVIOUS
<1>2. r \in Page /\ Leftmost(r)
  <2>1. r \in DOMAIN disk
    BY <1>1 DEF Descriptor, Leftmost, Live
  <2>2. QED
    BY <1>1, <2>1, Here, PageFacts DEF Descriptor
<1>3. Leftmost(r)'
  BY <1>2 DEF Kept
<1>4. r = root_position'
  BY <1>1
<1>5. (Leftmost(root_position))'
  BY <1>3, <1>4 DEF Leftmost
<1>6. QED
  BY <1>5 DEF Descriptor

(* A path stays one while the tree does not change. *)
LEMMA SamePath ==
  ASSUME disk' = disk, freed' = freed, Path(cursor')
  PROVE  Path(cursor)'
<1>1. Live' = Live
  BY DEF Live
<1>2. QED
  BY <1>1 DEF Path, Child, NodeOf

(* The page the descriptor names, in the tree and in the file. *)
LEMMA DescriptorFacts ==
  ASSUME FInv
  PROVE  /\ root_position \in Live /\ root_position \in DOMAIN disk
         /\ root_position \in DOMAIN file
         /\ disk[root_position].leaf /\ WellFormed(disk[root_position])
         /\ file[root_position].leaf /\ WellFormed(file[root_position])
         /\ height[root_position] = 0
<1>1. root_position \in Live /\ disk[root_position].leaf
  BY DEF FInv, Descriptor, Leftmost
<1>2. height[root_position] = 0
  BY <1>1 DEF FInv, IInv, Tree, ChildrenBelow
<1>3. root_position \in DOMAIN disk /\ WellFormed(disk[root_position])
  BY <1>1, Here, PageFacts DEF FInv
<1>4. QED
  BY <1>1, <1>2, <1>3 DEF FInv, Descriptor

(* A statement keeps the invariant, *)
LEMMA StatementInv ==
  ASSUME FInv, Statement
  PROVE  FInv'
<1>0. /\ IInv /\ Rooted /\ Written /\ Descriptor /\ Scanning /\ Tree
      /\ loaded /\ cursor = <<>> /\ cursor' = cursor /\ last' = last
      /\ root_position' = root_position /\ loaded' = loaded
  BY Here DEF FInv, Statement, scan
<1>1. Scanning'
  <2>1. Len(<<>>) = 0 /\ <<>> \in Seq([page : Page, position : Nat])
    OBVIOUS
  <2>2. cursor' = <<>>
    BY <1>0
  <2>3. Path(cursor)'
    BY <2>1, <2>2 DEF Path
  <2>4. QED
    BY <1>0, <2>2, <2>3 DEF Scanning
<1>2. CASE WritingStep \/ WritingCall
  <2>1. Next /\ file' = file
    BY <1>2
    DEF WritingStep, WritingCall, Next, Step, InsertStep, SearchStep, DeleteStep,
        InsertCall
  <2>2. IInv' /\ Tree'
    BY <1>0, <2>1, NextInv DEF IInv
  <2>3. Kept /\ Written'
    BY <1>0, <1>2, <2>2, StepWritten, CallWritten
  <2>4. Descriptor'
    BY <1>0, <2>1, <2>3, DescriptorKept
  <2>5. QED
    BY <1>1, <2>2, <2>3, <2>4 DEF FInv, Kept
<1>3. CASE mdbWriteNode
  <2>1. UNCHANGED vars /\ UNCHANGED tree /\ freed' = freed
    BY <1>3 DEF mdbWriteNode, vars, tree
  <2>2. IInv'
    BY <1>0, <2>1, NextInv
  <2>3. Rooted' /\ disk' = disk /\ Live' = Live /\ root' = root
    BY <1>0, <2>1, TreeKept DEF Kept, tree, Live
  <2>4. /\ Written'
        /\ \A p \in DOMAIN file : p \in DOMAIN file'
        /\ \A p \in DOMAIN file' :
             file'[p] = IF p = Head(writes) THEN disk[p] ELSE file[p]
    BY <1>0, <1>3, WriteKept
  <2>5. (Leftmost(root_position))'
    BY <1>0, <2>3 DEF Leftmost, Descriptor
  <2>6. Descriptor'
    <3>1. /\ root_position \in DOMAIN file'
          /\ file'[root_position] = disk[root_position]
             \/ file'[root_position] = file[root_position]
      BY <2>4, DescriptorFacts
    <3>2. file'[root_position].leaf /\ WellFormed(file'[root_position])
      BY <3>1, DescriptorFacts
    <3>3. QED
      BY <1>0, <2>5, <3>1, <3>2 DEF Descriptor, WellFormed
  <2>7. QED
    BY <1>1, <2>2, <2>3, <2>4, <2>6 DEF FInv
<1>4. QED
  BY <1>2, <1>3 DEF Statement, WriteNext

(* so does whatever leaves tree and file alone, *)
LEMMA SameFInv ==
  ASSUME FInv, UNCHANGED vars, file' = file, writes' = writes,
         root_position' = root_position
  PROVE  IInv' /\ Rooted' /\ Written' /\ Descriptor'
<1>1. /\ IInv /\ Rooted /\ Written /\ Descriptor
      /\ disk' = disk /\ freed' = freed /\ root' = root
  BY DEF FInv, vars, tree
<1>2. IInv'
  BY <1>1, NextInv
<1>3. Live' = Live
  BY <1>1 DEF Live
<1>4. Rooted'
  BY <1>1, <1>3 DEF Rooted
<1>5. Written'
  BY <1>1, <1>3
  DEF Written, Pending, InOrder, ChildrenBefore, ChildrenFirst, LastTwoKeep, Keeps
<1>6. Descriptor'
  BY <1>1, <1>3 DEF Descriptor, Leftmost
<1>7. QED
  BY <1>2, <1>4, <1>5, <1>6

(* a scan, *)
LEMMA ScanInv ==
  ASSUME FInv, Scan
  PROVE  FInv'
<1>1. /\ UNCHANGED vars /\ file' = file /\ writes' = writes
      /\ root_position' = root_position /\ loaded' = loaded
      /\ loaded /\ NextRecord
  BY DEF Scan, NextRecord
<1>2. /\ Tree /\ Path(cursor)
      /\ cursor # <<>> => cursor[1].page = root
      /\ disk' = disk /\ freed' = freed /\ root' = root
  BY <1>1, Here DEF FInv, Scanning, vars, tree
<1>3. Path(cursor') /\ cursor'[1].page = root
  BY <1>1, <1>2, NextRecordPath
<1>4. Path(cursor)'
  BY <1>2, <1>3, SamePath
<1>5. Scanning'
  BY <1>1, <1>2, <1>3, <1>4 DEF Scanning
<1>6. QED
  BY <1>1, <1>5, SameFInv DEF FInv

(* putting the table away, *)
LEMMA PutAwayInv ==
  ASSUME FInv, PutAway
  PROVE  FInv'
<1>1. /\ UNCHANGED vars /\ writes' = writes /\ root_position' = root_position
      /\ pc = "idle" /\ writes = <<>> /\ cursor' = <<>>
      /\ file' = [file EXCEPT ![root] = disk[root]]
  BY DEF PutAway
<1>2. file = disk
  BY <1>1, Here, WrittenAll DEF FInv, Written
<1>3. disk \in Seq(Node) /\ root \in DOMAIN disk
  BY DEF FInv, IInv, Tree, TreeTypes
<1>4. file' = file
  BY <1>1, <1>2, <1>3
<1>5. pc' = "idle" /\ writes' = <<>>
  BY <1>1 DEF vars, call
<1>6. Path(cursor)'
  BY <1>1 DEF Path
<1>7. Scanning'
  BY <1>1, <1>5, <1>6 DEF Scanning
<1>8. QED
  BY <1>1, <1>4, <1>7, SameFInv DEF FInv

(* A tree of one page. *)
LEMMA OnlyRoot ==
  ASSUME NEW r, root' = r, at' = r, Live' = {r}, disk' \in Seq(Node),
         height' \in Seq(Nat), Len(height') = Len(disk'), freed' \subseteq DOMAIN disk',
         disk'[r].leaf, WellFormed(disk'[r]), height'[r] = 0,
         pc' = "idle", alias' \in {"caller", "first", "last"}, ret' \in Error,
         root_position' = r
  PROVE  IInv' /\ Rooted' /\ (Leftmost(root_position))'
<1>1. r \in DOMAIN disk'
  BY DEF Live
<1>2. disk'[r] \in Node /\ DOMAIN disk'[r].kids = {}
  <2>1. disk'[r] \in Node
    BY <1>1, LenProperties, ElementOfSeq
  <2>2. disk'[r].kids \in Seq(Page) /\ Len(disk'[r].kids) = 0
    BY <2>1, NodeParts DEF WellFormed
  <2>3. QED
    BY <2>1, <2>2, LenProperties
<1>3. TreeTypes' /\ (root \in Live)'
  BY <1>1 DEF TreeTypes
<1>4. NodeBounds'
  BY DEF NodeBounds
<1>5. ChildrenBelow' /\ OneParent'
  BY <1>2 DEF ChildrenBelow, OneParent
<1>6. CallTypes' /\ Room'
  BY <1>1 DEF CallTypes, Room
<1>7. IInv'
  BY <1>3, <1>4, <1>5, <1>6 DEF IInv, Tree
<1>8. Rooted'
  BY DEF Rooted
<1>9. (Leftmost(root_position))'
  BY DEF Leftmost
<1>10. QED
  BY <1>7, <1>8, <1>9

(* loading it again, *)
LEMMA LoadInv ==
  ASSUME FInv, LoadTable
  PROVE  FInv'
<1>1. /\ root' = root_position /\ at' = root_position /\ disk' = disk
      /\ freed' = GivenUp(Len(disk)) /\ height' = height /\ pc' = pc
      /\ alias' = alias /\ ret' = ret /\ cursor' = cursor /\ file' = file
      /\ writes' = writes /\ root_position' = root_position /\ ~loaded
  BY DEF LoadTable, result, scan
<1>2. /\ pc = "idle" /\ writes = <<>> /\ cursor = <<>> /\ Tree /\ TreeTypes
      /\ alias \in {"caller", "first", "last"} /\ ret \in Error
  BY <1>1, Here DEF FInv, Scanning, IInv, CallTypes, Tree
<1>3. DOMAIN disk = 1 .. Len(disk)
  BY <1>2, PageFacts
<1>4. Live' = {root_position} /\ freed' \subseteq DOMAIN disk
  BY <1>1, <1>2, <1>3, DescriptorFacts DEF Live, GivenUp, TreeTypes
<1>5. /\ disk' \in Seq(Node) /\ height' \in Seq(Nat) /\ Len(height') = Len(disk')
      /\ freed' \subseteq DOMAIN disk'
  BY <1>1, <1>2, <1>4 DEF TreeTypes
<1>6. /\ disk'[root_position].leaf /\ WellFormed(disk'[root_position])
      /\ height'[root_position] = 0
  BY <1>1, DescriptorFacts
<1>7. IInv' /\ Rooted' /\ (Leftmost(root_position))'
  BY <1>1, <1>2, <1>4, <1>5, <1>6, OnlyRoot
<1>8. Written'
  <2>1. ToSet(writes') = {} /\ 1 .. Len(writes') = {}
    BY <1>1, <1>2 DEF ToSet
  <2>2. Written
    BY DEF FInv
  <2>3. Pending'
    BY <1>1, <1>2, <2>1, <2>2 DEF Written, Pending
  <2>4. LastTwoKeep'
    BY <1>1, <1>2 DEF LastTwoKeep
  <2>5. QED
    BY <1>1, <2>1, <2>2, <2>3, <2>4
    DEF Written, InOrder, ChildrenBefore, ChildrenFirst
<1>9. Descriptor'
  BY <1>1, <1>7 DEF FInv, Descriptor
<1>10. Scanning'
  BY <1>1, <1>2 DEF Scanning, Path
<1>11. QED
  BY <1>7, <1>8, <1>9, <1>10 DEF FInv

(* and being killed. *)
LEMMA CrashInv ==
  ASSUME FInv, Crash
  PROVE  FInv'
<1> DEFINE n == Len(file)
<1>1. /\ root' = root_position /\ at' = root_position /\ disk' = file
      /\ freed' = GivenUp(n) \cap DOMAIN file
      /\ height' = SubSeq(height, 1, n)
      /\ pc' = "idle" /\ alias' = "caller" /\ ret' = "MDB_NO_ERROR"
      /\ cursor' = <<>> /\ file' = file /\ writes' = <<>>
      /\ root_position' = root_position
  BY DEF Crash
<1>2. /\ Tree /\ Written /\ Pending /\ file \in Seq(Node) /\ n <= Len(disk)
      /\ height \in Seq(Nat) /\ Len(height) = Len(disk)
  BY Here DEF FInv, Written, Pending, Tree, TreeTypes
<1>3. /\ n \in Nat /\ DOMAIN file = 1 .. n /\ Len(disk) \in Nat
  BY <1>2, PendingFacts
<1>4. /\ height' \in Seq(Nat) /\ Len(height') = n
      /\ \A p \in 1 .. n : height'[p] = height[p]
  BY <1>1, <1>2, <1>3, SMTT(30)
<1> HIDE DEF n
<1>5. Live' = {root_position} /\ freed' \subseteq DOMAIN disk'
  <2>1. root_position \notin freed /\ root_position \in DOMAIN file
    BY DescriptorFacts DEF Live
  <2>2. QED
    BY <1>1, <1>3, <2>1 DEF Live, GivenUp
<1>6. /\ disk' \in Seq(Node) /\ Len(height') = Len(disk')
      /\ disk'[root_position].leaf /\ WellFormed(disk'[root_position])
      /\ height'[root_position] = 0
  BY <1>1, <1>2, <1>3, <1>4, DescriptorFacts DEF n
<1>7. alias' \in {"caller", "first", "last"} /\ ret' \in Error
  BY <1>1 DEF Error
<1>8. IInv' /\ Rooted' /\ (Leftmost(root_position))'
  BY <1>1, <1>4, <1>5, <1>6, <1>7, OnlyRoot
<1>9. Written'
  <2>1. /\ ToSet(writes') = {} /\ 1 .. Len(writes') = {}
        /\ writes' \in Seq(Page)
    BY <1>1 DEF ToSet
  <2>2. Pending'
    BY <1>1, <1>2, <1>3, <2>1 DEF Pending, n
  <2>3. LastTwoKeep'
    BY <1>1 DEF LastTwoKeep
  <2>4. QED
    BY <1>1, <1>2, <2>1, <2>2, <2>3
    DEF Written, InOrder, ChildrenBefore, ChildrenFirst
<1>10. Descriptor'
  BY <1>1, <1>8 DEF FInv, Descriptor
<1>11. Scanning'
  BY <1>1 DEF Scanning, Path
<1>12. QED
  BY <1>8, <1>9, <1>10, <1>11 DEF FInv

(* A new table has it. *)
LEMMA FileInitInv ==
  FileInit => FInv
<1> SUFFICES ASSUME FileInit
             PROVE  FInv
  OBVIOUS
<1>1. /\ Init /\ file = disk /\ writes = <<>> /\ cursor = <<>>
      /\ root_position = root /\ loaded
  BY DEF FileInit, ScanInit, WriteInit
<1>2. IInv
  BY <1>1, InitInv
<1>3. /\ disk = <<EmptyLeaf>> /\ root = 1 /\ freed = {} /\ Len(disk) = 1
      /\ EmptyLeaf.leaf /\ EmptyLeaf.kids = <<>> /\ disk[1] = EmptyLeaf
  BY <1>1 DEF Init, EmptyLeaf
<1>4. disk \in Seq(Node) /\ root \in Live /\ DOMAIN disk = 1 .. Len(disk)
  BY <1>2, PageFacts DEF IInv, Tree, TreeTypes
<1>5. Live = {root} /\ DOMAIN disk = {root}
  <2>1. \A p \in 1 .. 1 : p = 1
    OBVIOUS
  <2>2. QED
    BY <1>3, <1>4, <2>1 DEF Live
<1>6. Rooted
  BY <1>5 DEF Rooted
<1>7. Written
  <2>1. ToSet(writes) = {} /\ 1 .. Len(writes) = {} /\ writes \in Seq(Page)
    BY <1>1 DEF ToSet
  <2>2. Pending
    BY <1>1, <1>3, <1>4, <2>1 DEF Pending
  <2>3. ToSet(disk[root].kids) = {}
    BY <1>3 DEF ToSet
  <2>4. ChildrenFirst
    BY <1>1, <1>5, <2>3 DEF ChildrenFirst
  <2>5. LastTwoKeep
    BY <1>1 DEF LastTwoKeep
  <2>6. QED
    BY <2>1, <2>2, <2>4, <2>5 DEF Written, InOrder, ChildrenBefore
<1>8. Descriptor
  <2>1. Leftmost(root)
    BY <1>3, <1>5 DEF Leftmost
  <2>2. WellFormed(disk[root])
    BY <1>2, <1>4, PageFacts DEF IInv
  <2>3. QED
    BY <1>1, <1>3, <1>4, <1>5, <2>1, <2>2 DEF Descriptor
<1>9. Scanning
  BY <1>1 DEF Scanning, Path
<1>10. QED
  BY <1>2, <1>6, <1>7, <1>8, <1>9 DEF FInv

(* Every action keeps it. *)
LEMMA FileNextInv ==
  FInv /\ [FileNext]_fileVars => FInv'
<1> SUFFICES ASSUME FInv, [FileNext]_fileVars
             PROVE  FInv'
  OBVIOUS
<1>1. CASE FileNext
  BY <1>1, StatementInv, ScanInv, PutAwayInv, LoadInv, CrashInv DEF FileNext
<1>2. CASE UNCHANGED fileVars
  <2>1. /\ UNCHANGED vars /\ file' = file /\ writes' = writes
        /\ root_position' = root_position /\ loaded' = loaded
        /\ cursor' = cursor /\ pc' = pc /\ disk' = disk /\ freed' = freed
        /\ root' = root
    BY <1>2 DEF fileVars, scanVars, scan, vars, call, tree
  <2>2. Path(cursor)'
    <3>1. Live' = Live
      BY <2>1 DEF Live
    <3>2. QED
      BY <2>1, <3>1 DEF FInv, Scanning, Path, Child, NodeOf
  <2>3. Scanning'
    BY <2>1, <2>2 DEF FInv, Scanning
  <2>4. QED
    BY <2>1, <2>3, SameFInv DEF FInv
<1>3. QED
  BY <1>1, <1>2

(* What the invariant says in terms of the properties. *)
LEMMA FInvMeans ==
  ASSUME FInv
  PROVE  /\ AllWritten /\ ChildrenFirst /\ DescriptorNamesLeaf /\ CursorIsPath
         /\ NoPageLost /\ Balanced /\ NodeBounds /\ OneParent
<1>1. Tree /\ Written /\ Pending
  BY Here DEF FInv, Written
<1>2. AllWritten
  BY <1>1, WrittenAll DEF AllWritten
<1>3. ChildrenFirst
  BY <1>1 DEF Written
<1>4. DescriptorNamesLeaf
  BY DescriptorFacts DEF DescriptorNamesLeaf
<1>5. CursorIsPath
  <2>1. Path(cursor) /\ DOMAIN cursor = 1 .. Len(cursor) /\ Len(cursor) \in Nat
    BY PathFacts DEF FInv, Scanning
  <2>2. ASSUME NEW d \in DOMAIN cursor
        PROVE  /\ cursor[d].position <= Count(NodeOf(cursor[d]))
               /\ d > 1 => cursor[d].page = Child(cursor[d - 1])
    <3>1. cursor[d].position <= Count(NodeOf(cursor[d]))
      BY <2>1 DEF Path, NodeOf
    <3>2. ASSUME d > 1
          PROVE  cursor[d].page = Child(cursor[d - 1])
      <4>1. d - 1 \in 1 .. Len(cursor) /\ d - 1 < Len(cursor) /\ (d - 1) + 1 = d
        BY <2>1, <3>2
      <4>2. QED
        BY <2>1, <4>1 DEF Path
    <3>3. QED
      BY <3>1, <3>2
  <2>3. QED
    BY <2>2 DEF CursorIsPath, FInv, Scanning
<1>6. NoPageLost
  BY <1>1, NoneLost DEF FInv
<1>7. Balanced /\ NodeBounds /\ OneParent
  BY InvMeans DEF FInv
<1>8. QED
  BY <1>2, <1>3, <1>4, <1>5, <1>6, <1>7

(* One write but those of a split and a rotation's first keeps every record
   of the tree in the file. *)
LEMMA WriteKeepsRecords ==
  ASSUME FInv, mdbWriteNode, Len(writes) < 3
  PROVE  RecordsInFile \subseteq RecordsInFile'
<1> DEFINE page == Head(writes)
<1>1. /\ UNCHANGED vars /\ UNCHANGED tree /\ writes # <<>>
      /\ disk' = disk /\ freed' = freed /\ root' = root /\ height' = height
  BY DEF mdbWriteNode, vars, tree
<1>2. Tree /\ Written /\ Pending /\ Rooted /\ Live' = Live
  BY <1>1, Here DEF FInv, Written, Live
<1>3. /\ Written'
      /\ \A p \in DOMAIN file : p \in DOMAIN file'
      /\ \A p \in DOMAIN file' :
           file'[p] = IF p = page THEN disk[p] ELSE file[p]
  BY <1>2, WriteKept
<1>4. RecordsBelow(root)' = RecordsBelow(root)
  BY <1>1 DEF RecordsBelow, PagesBelow, Levels
<1>5. Len(writes) \in {1, 2} /\ page = writes[1]
  <2>1. writes \in Seq(Page)
    BY <1>2 DEF Pending
  <2>2. Len(writes) \in Nat /\ Len(writes) # 0
    BY <1>1, <2>1, EmptySeq, LenProperties
  <2>3. Len(writes) \in {1, 2}
    <3>1. \A n \in Nat : n # 0 /\ n < 3 => n \in {1, 2}
      OBVIOUS
    <3>2. QED
      BY <2>2, <3>1, Zenon
  <2>4. Head(writes) = writes[1]
    BY <1>1, <2>1
  <2>5. QED
    BY <2>3, <2>4
<1> SUFFICES ASSUME NEW r \in RecordsInFile
             PROVE  r \in RecordsInFile'
  OBVIOUS
<1>6. r \in RecordsBelow(root)
  BY DEF RecordsInFile
<1>7. PICK p \in Live \cap DOMAIN file : r \in ToSet(file[p].recs)
  BY DEF RecordsInFile
<1>8. \E q \in Live \cap DOMAIN file' : r \in ToSet(file'[q].recs)
  <2>1. CASE p # page
    BY <1>3, <1>7, <2>1
  <2>2. CASE p = page /\ Len(writes) = 2
    <3>1. Len(writes) - 1 = 1 /\ LastTwoKeep
      BY <1>2, <2>2 DEF Written
    <3>2. ToSet(file[page].recs) \subseteq ToSet(disk[page].recs)
      BY <1>5, <1>7, <2>2, <3>1 DEF LastTwoKeep, Keeps
    <3>3. QED
      BY <1>3, <1>7, <2>2, <3>2
  <2>3. CASE Len(writes) = 1
    <3>1. writes' = <<>>
      <4>1. writes \in Seq(Page) /\ writes' = Tail(writes)
        BY <1>2 DEF Pending, mdbWriteNode
      <4>2. Tail(writes) \in Seq(Page) /\ Len(Tail(writes)) = Len(writes) - 1
        BY <1>1, <4>1, HeadTailProperties
      <4>3. Len(Tail(writes)) = 0
        BY <2>3, <4>2
      <4>4. QED
        BY <4>1, <4>2, <4>3, EmptySeq
    <3>2. \A q \in DOMAIN disk : q \in DOMAIN file' /\ file'[q] = disk[q]
      <4>1. ToSet(writes') = {}
        BY <3>1 DEF ToSet
      <4>2. QED
        BY <1>1, <1>3, <4>1 DEF Written, Pending
    <3>3. PICK q \in PagesBelow(root) : r \in ToSet(disk[q].recs)
      BY <1>6 DEF RecordsBelow
    <3>4. q \in Live
      BY <1>2, <3>3, NoneLost DEF NoPageLost
    <3>5. QED
      BY <3>2, <3>3, <3>4 DEF Live
  <2>4. QED
    BY <1>5, <2>1, <2>2, <2>3
<1>9. QED
  BY <1>2, <1>4, <1>6, <1>8 DEF RecordsInFile

-----------------------------------------------------------------------------
(* Whatever the statements do, wherever the program is killed, FInv holds. *)
THEOREM FileInvariant ==
  FileSpec => []FInv
<1>1. FileInit => FInv
  BY FileInitInv
<1>2. FInv /\ [FileNext]_fileVars => FInv'
  BY FileNextInv
<1>3. QED
  BY <1>1, <1>2, PTL DEF FileSpec

(* Every node that a step changes in memory is written, a new one where its
   parent says it is: with nothing left to write, the file is the tree that
   the functions work on. *)
THEOREM EverythingWritten ==
  FileSpec => []AllWritten
<1>1. FInv => AllWritten
  BY FInvMeans
<1>2. QED
  BY <1>1, FileInvariant, PTL

(* mdbBtreeSplitNode and its callers write children before parents: at no
   moment does a node in the file point past the end of the file. *)
THEOREM NoDanglingChild ==
  FileSpec => []ChildrenFirst
<1>1. FInv => ChildrenFirst
  BY FInvMeans
<1>2. QED
  BY <1>1, FileInvariant, PTL

(* The page the descriptor names is a leaf in use, whatever was inserted,
   deleted, loaded again or lost with a killed program. *)
THEOREM DescriptorStaysLeaf ==
  FileSpec => []DescriptorNamesLeaf
<1>1. FInv => DescriptorNamesLeaf
  BY FInvMeans
<1>2. QED
  BY <1>1, FileInvariant, PTL

(* The list of mdbBtreeTraversal structures is a path from the root down, and
   none of its entries counts past the records of its node. *)
THEOREM ScanFollowsPath ==
  FileSpec => []CursorIsPath
<1>1. FInv => CursorIsPath
  BY FInvMeans
<1>2. QED
  BY <1>1, FileInvariant, PTL

(* A table that was loaded again, after a statement or after the program was
   killed, is a balanced tree of well-formed nodes with no page of it lost or
   shared, and stays one. *)
THEOREM LoadedIsShapely ==
  FileSpec => [](NodeBounds /\ Balanced /\ OneParent /\ NoPageLost)
<1>1. FInv => NodeBounds /\ Balanced /\ OneParent /\ NoPageLost
  BY FInvMeans
<1>2. QED
  BY <1>1, FileInvariant, PTL

(* A merge that is cut short between its two writes has lost no record of the
   tree, and neither has any other step at its last two writes. *)
THEOREM CutShortLosesNothing ==
  FileSpec => MergeLosesNothing
<1>1. FInv /\ [FileNext]_fileVars =>
        [mdbWriteNode /\ Len(writes) < 3 =>
           RecordsInFile \subseteq RecordsInFile']_writeVars
  BY WriteKeepsRecords
<1>2. QED
  BY <1>1, FileInvariant, PTL DEF FileSpec, MergeLosesNothing

-----------------------------------------------------------------------------
(* The leaf at the left edge is responsible for all keys up to some one. *)
LEMMA LeftmostIsLeast ==
  ASSUME KeysOrdered, Tree, Rooted, NEW range, Ranges(range), NEW r, Leftmost(r)
  PROVE  /\ r \in Live
         /\ \A k \in range[r], j \in Key : Less(j, k) => j \in range[r]
<1>1. PICK S \in SUBSET Live :
        /\ {root, r} \subseteq S
        /\ \A q \in S \ {root} :
             \E p \in S : ~disk[p].leaf /\ q = disk[p].kids[1]
  BY DEF Leftmost
<1> DEFINE Initial(q) == \A k \in range[q], j \in Key : Less(j, k) => j \in range[q]
           h == height[root]
           B == {d \in 0 .. h : \A q \in S : height[q] = h - d => Initial(q)}
<1>2. /\ root \in Live /\ h \in Nat /\ range[root] = Key
      /\ \A p \in Live : height[p] \in Nat /\ height[p] <= h /\ range[p] \subseteq Key
  BY PageFacts, RootHighest DEF Tree, Ranges
<1>3. ASSUME NEW q \in S \ {root}
      PROVE  \E p \in S : height[p] = height[q] + 1 /\ (Initial(p) => Initial(q))
  <2>1. PICK p \in S : ~disk[p].leaf /\ q = disk[p].kids[1]
    BY <1>1
  <2>2. p \in Live /\ 1 \in 1 .. Len(disk[p].kids)
    <3>1. p \in Live /\ Len(disk[p].kids) = Count(disk[p]) + 1 /\ Count(disk[p]) \in Nat
      BY <2>1, RecordsOf, PageFacts
    <3>2. QED
      BY <3>1
  <2>3. height[q] = height[p] - 1 /\ q \in Live
    BY <2>1, <2>2, KidFacts
  <2>4. range[q] = range[p] \cap Gap(disk[p].recs, 1)
    BY <2>1, <2>2 DEF Ranges, Ranged
  <2>5. disk[p].recs \in Seq(Record)
    BY <2>2, RecordsOf
  <2>6. ASSUME Initial(p), NEW k \in range[q], NEW j \in Key, Less(j, k)
        PROVE  j \in range[q]
    <3>1. k \in range[p] /\ k \in Key
      BY <1>2, <2>2, <2>4, <2>6
    <3>2. j \in range[p]
      BY <2>6, <3>1
    <3>3. j \in Gap(disk[p].recs, 1)
      <4>1. CASE 1 <= Len(disk[p].recs)
        <5>1. 1 \in 1 .. Len(disk[p].recs) /\ KeyOf(disk[p].recs[1]) \in Key
          BY <2>5, <4>1, KeysOf
        <5>2. Less(k, KeyOf(disk[p].recs[1]))
          BY <2>4, <2>6, <4>1 DEF Gap
        <5>3. Less(j, KeyOf(disk[p].recs[1]))
          BY <2>6, <3>1, <5>1, <5>2, Total
        <5>4. QED
          BY <5>3 DEF Gap
      <4>2. CASE ~(1 <= Len(disk[p].recs))
        BY <4>2 DEF Gap
      <4>3. QED
        BY <4>1, <4>2
    <3>4. QED
      BY <2>4, <3>2, <3>3
  <2>7. Initial(p) => Initial(q)
    BY <2>6
  <2> HIDE DEF Initial
  <2>8. height[p] = height[q] + 1
    BY <1>2, <2>2, <2>3
  <2>9. QED
    BY <2>7, <2>8
<1>4. Initial(root)
  BY <1>2
<1> HIDE DEF Initial
<1>5. 0 \in B
  <2>1. ASSUME NEW q \in S, height[q] = h - 0
        PROVE  Initial(q)
    <3>1. CASE q = root
      BY <1>4, <3>1
    <3>2. CASE q # root
      <4>1. PICK p \in S : height[p] = height[q] + 1
        BY <1>3, <3>2
      <4>2. height[p] <= h /\ height[p] \in Nat /\ height[q] \in Nat
        BY <1>2, <4>1
      <4>3. QED
        BY <1>2, <2>1, <4>1, <4>2
    <3>3. QED
      BY <3>1, <3>2
  <2>2. QED
    BY <1>2, <2>1
<1>6. ASSUME NEW d \in 0 .. h - 1, d \in B
      PROVE  d + 1 \in B
  <2>1. ASSUME NEW q \in S, height[q] = h - (d + 1)
        PROVE  Initial(q)
    <3>1. CASE q = root
      BY <1>4, <3>1
    <3>2. CASE q # root
      <4>1. PICK p \in S : height[p] = height[q] + 1 /\ (Initial(p) => Initial(q))
        BY <1>3, <3>2
      <4>2. height[p] = h - d
        BY <1>2, <2>1, <4>1
      <4>3. QED
        BY <1>6, <4>1, <4>2
    <3>3. QED
      BY <3>1, <3>2
  <2>2. d + 1 \in 0 .. h
    BY <1>2
  <2>3. QED
    BY <2>1, <2>2
<1>7. r \in S /\ r \in Live
  BY <1>1
<1>8. height[r] \in 0 .. h
  BY <1>2, <1>7
<1>9. \A d \in 0 .. h : d \in B
  <2> HIDE DEF B
  <2>1. 0 .. h \subseteq B
    BY <1>2, <1>5, <1>6, SetInduction
  <2>2. QED
    BY <2>1
<1>10. Initial(r)
  <2>1. h - height[r] \in 0 .. h /\ h - (h - height[r]) = height[r]
    BY <1>2, <1>8
  <2>2. h - height[r] \in B
    BY <1>9, <2>1
  <2>3. QED
    BY <1>7, <2>1, <2>2
<1>11. QED
  BY <1>7, <1>10 DEF Initial

(* What the tree has elsewhere is greater than all that leaf has. *)
LEMMA ElsewhereIsGreater ==
  ASSUME KeysOrdered, Tree, Rooted, NEW range, Ranges(range), NEW r, Leftmost(r),
         NEW x \in Records, x \notin ToSet(disk[r].recs), NEW s \in ToSet(disk[r].recs)
  PROVE  Less(KeyOf(s), KeyOf(x))
<1>1. /\ r \in Live /\ disk[r].leaf
      /\ \A k \in range[r], j \in Key : Less(j, k) => j \in range[r]
  BY LeftmostIsLeast DEF Leftmost
<1>2. PICK q \in Live : \E i \in 1 .. Count(disk[q]) : x = disk[q].recs[i]
  BY RecordsInPages
<1>3. q # r
  <2>1. ToSet(disk[r].recs) = {disk[r].recs[i] : i \in 1 .. Count(disk[r])}
    BY <1>1, RecordsOf
  <2>2. QED
    BY <1>2, <2>1
<1>4. KeyOf(x) \notin range[r]
  <2>1. height[r] = 0 /\ height[q] \in Nat
    BY <1>1, PageFacts DEF Tree, ChildrenBelow
  <2>2. Alone(range, r)
    BY <1>1, RangesApart
  <2>3. height[q] >= height[r]
    BY <2>1
  <2>4. QED
    BY <1>2, <1>3, <2>2, <2>3 DEF Alone
<1>5. KeyOf(s) \in range[r]
  <2>1. PICK i \in 1 .. Count(disk[r]) : s = disk[r].recs[i]
    BY <1>1, RecordsOf
  <2>2. QED
    BY <1>1, <2>1, RecordsOf DEF Ranges, Ranged, Fits
<1>6. KeyOf(x) \in Key /\ KeyOf(s) \in Key
  BY <1>1, <1>5, RecordsInPages, KeyAssumption DEF Ranges
<1>7. ~Less(KeyOf(x), KeyOf(s)) /\ KeyOf(x) # KeyOf(s)
  BY <1>1, <1>4, <1>5, <1>6
<1>8. QED
  BY <1>6, <1>7, Total

-----------------------------------------------------------------------------
(* What the leaf at the left edge has in the file is in order, and below all
   that is in the tree and not in it. *)
SmallestKept ==
  \A r \in Records \ Unwritten :
    \/ r \in ToSet(file[root_position].recs)
    \/ \A s \in ToSet(file[root_position].recs) : Less(KeyOf(s), KeyOf(r))

(* The leaf that the descriptor names keeps the smallest records. *)
Smallest == Fits(file[root_position].recs, Key) /\ SmallestKept

(* The inductive invariant of a table from which nothing is deleted. *)
FGrowInv == FInv /\ GrowScanInv /\ Smallest

(* Between scans the scan's part of the invariant says nothing. *)
LEMMA NoScanInv ==
  ASSUME GrowInv', cursor' = <<>>, last' = None, ended' = FALSE
  PROVE  GrowScanInv'
<1>1. Len(<<>>) = 0 /\ <<>> \in Seq([page : Page, position : Nat])
  OBVIOUS
<1>2. Path(cursor)'
  BY <1>1 DEF Path
<1>3. \A range : Due(cursor, last, range)'
  BY <1>1 DEF Due, Between
<1>4. QED
  BY <1>2, <1>3 DEF GrowScanInv

(* What no statement that deletes nothing can write: the tree keeps its
   records, or has one more that is not in the file. *)
LEMMA GrowWrites ==
  ASSUME KeysOrdered, FInv, GrowInv, WritingStep \/ WritingCall, pc' # "delete"
  PROVE  /\ GrowInv'
         /\ Records' = Records
            \/ /\ Records' = Records \cup {rec} /\ InsertIntoLeaf
               /\ writes' = <<at>> /\ ~Has(arg)
<1>1. pc # "delete"
  BY DEF GrowInv, Asked
<1>2. CASE GrowNext
  <2>1. GrowInv'
    BY <1>2, GrowStep
  <2>2. CASE InsertIntoLeaf
    <3>1. Records' = Records \cup {rec} /\ ~Has(arg)
      BY <2>2, LeafPlaced
    <3>2. pc = "insert" /\ disk[at].leaf
      BY <2>2 DEF InsertIntoLeaf
    <3>3. disk' # disk
      <4>1. rec \notin Records
        BY <3>1, <3>2 DEF Has, GrowInv, Asked
      <4>2. Records' # Records
        BY <3>1, <4>1
      <4>3. freed' = freed
        BY <2>2 DEF InsertIntoLeaf
      <4>4. QED
        BY <4>2, <4>3 DEF Records, Live
    <3>4. writes' = <<at>>
      <4>1. ~WritingCall
        BY <3>2
        DEF WritingCall, InsertSplitRoot, Insert, SearchCall, Search, DeleteCall,
            Delete, DeleteFromEmpty, DeleteShrinksRoot, Enter
      <4>2. WritingStep
        BY <4>1
      <4>3. /\ ~InsertCollides /\ ~InsertDescends /\ ~SearchStep
            /\ ~DeleteMisses /\ ~DeleteDescends
        BY <3>3
        DEF InsertCollides, InsertDescends, SearchStep, SearchFinds,
            SearchMisses, SearchDescends, DeleteMisses, DeleteDescends, tree
      <4>4. ~InsertSplitsChild
        BY <3>2 DEF InsertSplitsChild
      <4>5. /\ ~DeleteByMerge /\ ~DeleteMergesLeft /\ ~DeleteMergesRight
            /\ ~DeleteBorrowsLeft /\ ~DeleteBorrowsRight
        BY <3>2
        DEF DeleteByMerge, DeleteMergesLeft, DeleteMergesRight,
            DeleteBorrowsLeft, DeleteBorrowsRight, Below
      <4>6. QED
        BY <4>2, <4>3, <4>4, <4>5 DEF WritingStep
    <3>5. QED
      BY <2>1, <2>2, <3>1, <3>4
  <2>3. CASE ~InsertIntoLeaf
    <3>1. Records' = Records
      BY <1>2, <2>3, CallPlaced, DescentPlaced, SplitPlaced, AnswerPlaced
      DEF GrowNext, InsertStep, SearchStep
    <3>2. QED
      BY <2>1, <3>1
  <2>4. QED
    BY <2>2, <2>3
<1>3. CASE ~GrowNext
  <2>1. \E k \in Key : DeleteFromEmpty(k)
    <3>1. CASE WritingStep
      <4>1. InsertStep \/ SearchStep \/ DeleteStep
        BY <3>1 DEF WritingStep, InsertStep, DeleteStep
      <4>2. ~DeleteStep
        BY <1>1
        DEF DeleteStep, DeleteFromLeaf, DeleteMisses, DeleteByPredecessor,
            DeleteBySuccessor, DeleteByMerge, DeleteDescends,
            DeleteBorrowsLeft, DeleteBorrowsRight, DeleteMergesLeft,
            DeleteMergesRight, Below
      <4>3. QED
        BY <1>3, <4>1, <4>2 DEF GrowNext
    <3>2. CASE WritingCall
      BY <1>3, <3>2
      DEF WritingCall, GrowNext, InsertCall, DeleteCall, Delete,
          DeleteShrinksRoot, Enter
    <3>3. QED
      BY <3>1, <3>2
  <2>2. UNCHANGED <<tree, call>>
    BY <2>1 DEF DeleteFromEmpty
  <2>3. Next
    BY <2>1 DEF Next, DeleteCall
  <2>4. IInv' /\ Rooted'
    BY <2>3, NextInv, NextKept DEF GrowInv, Kept
  <2>5. pc' = pc /\ arg' = arg /\ rec' = rec /\ at' = at /\ key' = key
    BY <2>2 DEF call
  <2>6. Placed' /\ Records' = Records
    BY <2>2, <2>5, SameRanges DEF GrowInv, Placed
  <2>7. Asked'
    BY <2>5 DEF GrowInv, Asked
  <2>8. QED
    BY <2>4, <2>6, <2>7 DEF GrowInv
<1>4. QED
  BY <1>2, <1>3

(* A step of a statement that deletes nothing keeps the smallest. *)
LEMMA GrowWritesSmallest ==
  ASSUME KeysOrdered, FGrowInv, WritingStep \/ WritingCall, pc' # "delete",
         root_position' = root_position
  PROVE  GrowInv' /\ Smallest'
<1>1. FInv /\ GrowInv /\ Smallest /\ Tree /\ Pending
  BY Here DEF FGrowInv, GrowScanInv, FInv, Written
<1>2. writes = <<>> /\ file' = file
  BY DEF WritingStep, WritingCall
<1>3. file = disk
  BY <1>1, <1>2, WrittenAll
<1>4. Unwritten = {}
  BY <1>2 DEF Unwritten
<1>5. /\ GrowInv'
      /\ Records' = Records
         \/ /\ Records' = Records \cup {rec} /\ InsertIntoLeaf
            /\ writes' = <<at>> /\ ~Has(arg)
  BY <1>1, GrowWrites
<1>6. Records' \ Unwritten' \subseteq Records
  <2>1. CASE Records' = Records
    BY <2>1
  <2>2. CASE /\ Records' = Records \cup {rec} /\ InsertIntoLeaf
             /\ writes' = <<at>> /\ ~Has(arg)
    <3>1. rec \in Records' /\ rec \notin Records
      BY <1>1, <2>2 DEF Has, GrowInv, Asked, InsertIntoLeaf
    <3>2. at \in Live /\ at \in DOMAIN file /\ freed' = freed
      BY <1>1, <1>3, <2>2, Here DEF GrowInv, Live, InsertIntoLeaf
    <3>3. \A q \in DOMAIN disk : q # at => disk'[q] = disk[q]
      BY <2>2 DEF InsertIntoLeaf
    <3>4. DOMAIN disk' = DOMAIN disk
      BY <2>2 DEF InsertIntoLeaf
    <3>5. PICK q \in Live' : rec \in ToSet(disk'[q].recs)
      BY <3>1 DEF Records
    <3>6. q = at
      <4>1. SUFFICES ASSUME q # at
                     PROVE  FALSE
        OBVIOUS
      <4>2. q \in Live /\ disk'[q] = disk[q]
        BY <3>2, <3>3, <3>4, <3>5, <4>1 DEF Live
      <4>3. rec \in Records
        BY <3>5, <4>2 DEF Records
      <4>4. QED
        BY <3>1, <4>3
    <3>7. rec \notin ToSet(file[at].recs)
      BY <1>3, <3>1, <3>2 DEF Records
    <3>8. pc' = "idle"
      BY <2>2 DEF InsertIntoLeaf, Return
    <3>9. Len(<<at>>) = 1 /\ Head(<<at>>) = at
      OBVIOUS
    <3>10. rec \in Unwritten'
      BY <1>2, <2>2, <3>2, <3>5, <3>6, <3>7, <3>8, <3>9 DEF Unwritten
    <3>11. QED
      BY <2>2, <3>10
  <2>3. QED
    BY <1>5, <2>1, <2>2
<1>7. QED
  BY <1>1, <1>2, <1>4, <1>5, <1>6 DEF Smallest, SmallestKept

(* So does writing a node. *)
LEMMA WriteSmallest ==
  ASSUME KeysOrdered, FGrowInv, mdbWriteNode, root_position' = root_position
  PROVE  GrowInv' /\ Smallest'
<1> DEFINE r == root_position
<1>1. /\ UNCHANGED vars /\ writes # <<>> /\ writes' = Tail(writes)
      /\ disk' = disk /\ freed' = freed /\ pc' = pc
  BY DEF mdbWriteNode, vars, tree, call
<1>2. /\ FInv /\ GrowInv /\ Smallest /\ Tree /\ Written /\ Pending /\ Rooted
      /\ Leftmost(r) /\ writes \in Seq(Page)
  BY Here DEF FGrowInv, GrowScanInv, FInv, Written, Descriptor, Pending
<1>3. GrowInv' /\ Records' = Records
  BY <1>1, <1>2, GrowStep DEF Records, Live
<1>4. /\ Written' /\ r \in DOMAIN file'
      /\ file'[r] = IF r = Head(writes) THEN disk[r] ELSE file[r]
  BY <1>2, WriteKept, DescriptorFacts
<1>5. PICK range : Ranges(range)
  BY <1>2 DEF GrowInv, Placed
<1>6. r \in Live /\ r \in DOMAIN disk
  BY <1>2, DescriptorFacts
<1>7. CASE file'[r] = disk[r]
  <2>1. Fits(disk[r].recs, Key)
    BY <1>5, <1>6 DEF Ranges, Ranged, Fits
  <2>2. ASSUME NEW x \in Records, x \notin ToSet(disk[r].recs),
               NEW s \in ToSet(disk[r].recs)
        PROVE  Less(KeyOf(s), KeyOf(x))
    BY <1>2, <1>5, <2>2, ElsewhereIsGreater
  <2>3. QED
    BY <1>3, <1>7, <2>1, <2>2 DEF Smallest, SmallestKept
<1>8. CASE file'[r] # disk[r]
  <2>1. file'[r] = file[r]
    BY <1>4, <1>8
  <2>2. Len(writes) # 1
    <3>1. SUFFICES ASSUME Len(writes) = 1
                   PROVE  FALSE
      OBVIOUS
    <3>2. Tail(writes) \in Seq(Page) /\ Len(Tail(writes)) = Len(writes) - 1
      BY <1>1, <1>2, HeadTailProperties
    <3>3. writes' = <<>>
      <4>1. Len(Tail(writes)) = 0
        BY <3>1, <3>2
      <4>2. QED
        BY <1>1, <3>2, <4>1, EmptySeq
    <3>4. ToSet(writes') = {}
      BY <3>3 DEF ToSet
    <3>5. file'[r] = disk[r]
      BY <1>1, <1>4, <1>6, <3>4 DEF Written, Pending
    <3>6. QED
      BY <1>8, <3>5
  <2>3. Unwritten = {}
    BY <2>2 DEF Unwritten
  <2>4. QED
    BY <1>2, <1>3, <2>1, <2>3 DEF Smallest, SmallestKept
<1>9. QED
  BY <1>7, <1>8

(* Whatever leaves the tree, the file and what is to be written alone keeps
   it. *)
LEMMA SameSmallest ==
  ASSUME KeysOrdered, FGrowInv, UNCHANGED vars, file' = file, writes' = writes,
         root_position' = root_position
  PROVE  GrowInv' /\ Smallest'
<1>1. disk' = disk /\ freed' = freed /\ pc' = pc
  BY DEF vars, tree, call
<1>2. GrowInv'
  BY GrowStep DEF FGrowInv, GrowScanInv
<1>3. Records' = Records /\ Unwritten' = Unwritten
  BY <1>1 DEF Records, Live, Unwritten
<1>4. QED
  BY <1>2, <1>3 DEF FGrowInv, Smallest, SmallestKept

(* What is loaded, or left by the killed program, is the leaf at the left
   edge as it is in the file. *)
LEMMA Reloaded ==
  ASSUME FInv, LoadTable \/ Crash
  PROVE  /\ Live' = {root_position} /\ root' = root_position
         /\ root_position' = root_position /\ file' = file
         /\ disk'[root_position] = file[root_position]
         /\ pc' = "idle" /\ cursor' = <<>>
         /\ Records' = ToSet(file[root_position].recs)
<1>1. /\ root_position \notin freed /\ root_position \in DOMAIN file
      /\ root_position \in DOMAIN disk
  BY DescriptorFacts DEF Live
<1>2. Tree /\ Pending /\ DOMAIN disk = 1 .. Len(disk) /\ DOMAIN file = 1 .. Len(file)
  BY Here, PendingFacts DEF FInv, Written
<1>3. CASE LoadTable
  <2>1. /\ pc = "idle" /\ writes = <<>> /\ cursor = <<>>
        /\ disk' = disk /\ freed' = GivenUp(Len(disk)) /\ pc' = pc
        /\ root' = root_position /\ root_position' = root_position
        /\ file' = file /\ cursor' = cursor
    BY <1>3 DEF LoadTable, FInv, Scanning, scan
  <2>2. file = disk
    BY <1>2, <2>1, WrittenAll
  <2>3. Live' = {root_position}
    BY <1>1, <1>2, <2>1 DEF Live, GivenUp
  <2>4. QED
    BY <2>1, <2>2, <2>3 DEF Records
<1>4. CASE Crash
  <2>1. /\ disk' = file /\ freed' = GivenUp(Len(file)) \cap DOMAIN file
        /\ pc' = "idle" /\ cursor' = <<>> /\ root' = root_position
        /\ root_position' = root_position /\ file' = file
    BY <1>4 DEF Crash
  <2>2. Live' = {root_position}
    BY <1>1, <1>2, <2>1 DEF Live, GivenUp
  <2>3. QED
    BY <2>1, <2>2 DEF Records
<1>5. QED
  BY <1>3, <1>4

(* That is a tree in order, and all of it is in the file. *)
LEMMA ReloadedSmallest ==
  ASSUME FGrowInv, LoadTable \/ Crash
  PROVE  GrowInv' /\ Smallest'
<1> DEFINE r == root_position
<1>1. /\ FInv /\ Fits(file[r].recs, Key)
      /\ file[r].leaf /\ WellFormed(file[r])
  BY DescriptorFacts DEF FGrowInv, Smallest
<1>2. /\ Live' = {r} /\ root' = r /\ root_position' = r /\ file' = file
      /\ disk'[r] = file[r] /\ pc' = "idle"
      /\ Records' = ToSet(file[r].recs)
  BY <1>1, Reloaded
<1>3. FInv'
  BY <1>1, FileNextInv DEF FileNext
<1>4. Asked'
  BY <1>2 DEF Asked
<1>5. PICK range : range = [q \in {r} |-> Key]
  OBVIOUS
<1>6. Ranges(range)'
  <2>1. Len(disk'[r].kids) = 0
    BY <1>1, <1>2 DEF WellFormed
  <2>2. Ranged(disk'[r], range, Key)
    BY <1>1, <1>2, <2>1 DEF Ranged
  <2>3. QED
    BY <1>2, <1>5, <2>2 DEF Ranges
<1>7. Placed'
  BY <1>2, <1>6 DEF Placed
<1>8. GrowInv'
  BY <1>3, <1>4, <1>7 DEF GrowInv, FInv
<1>9. Smallest'
  BY <1>1, <1>2 DEF Smallest, SmallestKept
<1>10. QED
  BY <1>8, <1>9

(* A step that deletes nothing keeps the invariant. *)
LEMMA FileGrowStep ==
  ASSUME KeysOrdered, FGrowInv, [FileNext /\ pc' # "delete"]_fileVars
  PROVE  FGrowInv'
<1>1. FInv'
  BY FileNextInv DEF FGrowInv
<1>2. /\ FInv /\ GrowScanInv /\ GrowInv /\ Smallest
      /\ cursor = <<>> => last = None /\ ended = FALSE
  BY DEF FGrowInv, GrowScanInv
<1>3. CASE Statement /\ pc' # "delete"
  <2>1. GrowInv' /\ Smallest'
    BY <1>3, GrowWritesSmallest, WriteSmallest DEF Statement, WriteNext
  <2>2. cursor' = <<>> /\ last' = None /\ ended' = FALSE
    BY <1>2, <1>3 DEF Statement, scan
  <2>3. GrowScanInv'
    BY <2>1, <2>2, NoScanInv
  <2>4. QED
    BY <1>1, <2>1, <2>3 DEF FGrowInv
<1>4. CASE Scan
  <2>1. /\ NextRecord /\ UNCHANGED vars /\ file' = file /\ writes' = writes
        /\ root_position' = root_position
    BY <1>4 DEF Scan, NextRecord
  <2>2. GrowScanInv'
    BY <1>2, <2>1, ScanStep DEF GrowScanNext
  <2>3. Smallest'
    BY <2>1, SameSmallest
  <2>4. QED
    BY <1>1, <2>2, <2>3 DEF FGrowInv
<1>5. CASE PutAway
  <2>1. /\ UNCHANGED vars /\ writes' = writes /\ root_position' = root_position
        /\ writes = <<>> /\ file' = [file EXCEPT ![root] = disk[root]]
        /\ cursor' = <<>> /\ last' = None /\ ended' = FALSE
    BY <1>5 DEF PutAway
  <2>2. file' = file
    <3>1. Tree /\ Pending /\ disk \in Seq(Node) /\ root \in DOMAIN disk
      BY <1>2, Here DEF FInv, Written, IInv, Tree, TreeTypes
    <3>2. file = disk
      BY <2>1, <3>1, WrittenAll
    <3>3. QED
      BY <2>1, <3>1, <3>2
  <2>3. GrowInv' /\ Smallest'
    BY <2>1, <2>2, SameSmallest
  <2>4. GrowScanInv'
    BY <2>1, <2>3, NoScanInv
  <2>5. QED
    BY <1>1, <2>3, <2>4 DEF FGrowInv
<1>6. CASE LoadTable \/ Crash
  <2>1. GrowInv' /\ Smallest'
    BY <1>6, ReloadedSmallest
  <2>2. cursor' = <<>> /\ last' = None /\ ended' = FALSE
    BY <1>2, <1>6 DEF LoadTable, Crash, scan, FInv, Scanning
  <2>3. GrowScanInv'
    BY <2>1, <2>2, NoScanInv
  <2>4. QED
    BY <1>1, <2>1, <2>3 DEF FGrowInv
<1>7. CASE UNCHANGED fileVars
  <2>1. /\ UNCHANGED vars /\ file' = file /\ writes' = writes
        /\ root_position' = root_position /\ UNCHANGED scanVars
    BY <1>7 DEF fileVars, scanVars
  <2>2. GrowScanInv'
    BY <1>2, <2>1, ScanStep
  <2>3. Smallest'
    BY <2>1, SameSmallest
  <2>4. QED
    BY <1>1, <2>2, <2>3 DEF FGrowInv
<1>8. QED
  BY <1>3, <1>4, <1>5, <1>6, <1>7 DEF FileNext

(* It holds of the empty tree. *)
LEMMA FileGrowBegins ==
  FileInit => FGrowInv
<1> SUFFICES ASSUME FileInit
             PROVE  FGrowInv
  OBVIOUS
<1>1. /\ ScanInit /\ Init /\ file = disk /\ root_position = root
  BY DEF FileInit, ScanInit, WriteInit
<1>2. FInv /\ GrowScanInv
  BY <1>1, FileInitInv, ScanBegins
<1>3. Records = {}
  BY <1>1, GrowInit
<1>4. Fits(file[root_position].recs, Key)
  <2>1. disk[1].recs = <<>> /\ root = 1 /\ Len(<<>>) = 0
    BY <1>1 DEF Init, EmptyLeaf
  <2>2. QED
    BY <1>1, <2>1 DEF Fits
<1>5. QED
  BY <1>2, <1>3, <1>4 DEF FGrowInv, Smallest, SmallestKept

(* What the invariant says of the tree, *)
LEMMA FGrowMeans ==
  ASSUME KeysOrdered, FGrowInv
  PROVE  LoadedIsBtree /\ RecordsBelow(root) = Records
<1>1. FInv /\ GrowInv /\ Tree /\ Rooted
  BY Here DEF FGrowInv, GrowScanInv, FInv
<1>2. PICK range : Ranges(range)
  BY <1>1 DEF GrowInv, Placed
<1>3. Ordered
  BY <1>1, <1>2, RangesOrder
<1>4. NoPageLost /\ NodeBounds /\ ChildrenBelow
  BY <1>1, FInvMeans DEF Tree
<1>5. LoadedIsBtree
  BY <1>3, <1>4 DEF LoadedIsBtree, NoPageLost, NodeBounds, ChildrenBelow, Ordered
<1>6. QED
  BY <1>1, <1>5, RecordsAreBelow

(* and of the end of a scan. *)
LEMMA EndInOrder ==
  ASSUME KeysOrdered, FGrowInv, FileNext, ~ended, ended'
  PROVE  Ahead = {}
<1>1. GrowScanInv /\ ended = FALSE /\ ended' # FALSE
  BY DEF FGrowInv, GrowScanInv
<1>2. NextRecord
  BY <1>1 DEF FileNext, Statement, Scan, PutAway, LoadTable, Crash, scan
<1>3. PICK range : Ranges(range)
  BY <1>1 DEF GrowScanInv, GrowInv, Placed
<1>4. \A x \in Records : ~ToCome(last, KeyOf(x))
  BY <1>1, <1>2, <1>3, NextRecordDue
<1>5. QED
  BY <1>1, <1>4, AheadIsToCome

-----------------------------------------------------------------------------
(* A table whose statements insert, look up and scan, as those of MQL do: no
   step begins or continues a deletion. *)
GrowFileSpec == FileSpec /\ [][pc' # "delete"]_fileVars

(* As long as nothing is deleted, the order of the records in the tree, the
   traversal and the smallest records of the file stay as they have to be. *)
THEOREM FileGrows ==
  KeysOrdered /\ GrowFileSpec => []FGrowInv
<1>1. CASE KeysOrdered
  <2>1. FGrowInv /\ [FileNext]_fileVars /\ [pc' # "delete"]_fileVars => FGrowInv'
    BY <1>1, FileGrowStep
  <2>2. QED
    BY <2>1, FileGrowBegins, PTL DEF FileSpec, GrowFileSpec
<1>2. CASE ~KeysOrdered
  BY <1>2
<1>3. QED
  BY <1>1, <1>2

(* A table loaded from its descriptor, and loaded again after the program was
   killed between any two writes, is a B-tree: balanced, in shape, and in the
   order of its keys as far as its root reaches. *)
THEOREM LoadedAgainIsBtree ==
  KeysOrdered /\ GrowFileSpec => []LoadedIsBtree
<1>1. CASE KeysOrdered
  <2>1. FGrowInv => LoadedIsBtree
    BY <1>1, FGrowMeans
  <2>2. []FGrowInv => []LoadedIsBtree
    BY <2>1, PTL
  <2>3. QED
    BY <2>2, FileGrows
<1>2. CASE ~KeysOrdered
  BY <1>2
<1>3. QED
  BY <1>1, <1>2

(* mdbCreateTable's descriptor is never written again, so a table that is
   loaded again has lost what is not in the leaf it names: the records above
   a certain key, never one below a record that is still there. *)
THEOREM SmallestStay ==
  KeysOrdered /\ GrowFileSpec => SmallestSurvive
<1> DEFINE Known == RecordsBelow(root) = Records
           Stays ==
             LoadTable \/ Crash =>
               \A r \in RecordsBelow(root) \ Unwritten :
                 \/ r \in RecordsBelow(root)'
                 \/ \A s \in RecordsBelow(root)' : Cmp(KeyOf(s), KeyOf(r)) < 0
<1>1. ASSUME FGrowInv, RecordsBelow(root) = Records,
             RecordsBelow(root)' = Records', LoadTable \/ Crash,
             NEW r \in RecordsBelow(root) \ Unwritten
      PROVE  \/ r \in RecordsBelow(root)'
             \/ \A s \in RecordsBelow(root)' : Cmp(KeyOf(s), KeyOf(r)) < 0
  <2>1. Records' = ToSet(file[root_position].recs)
    BY <1>1, Reloaded DEF FGrowInv
  <2>2. QED
    BY <1>1, <2>1 DEF FGrowInv, Smallest, SmallestKept, Less
<1>2. CASE KeysOrdered
  <2>1. FGrowInv => Known
    BY <1>2, FGrowMeans
  <2>2. FGrowInv /\ Known /\ Known' => [Stays]_fileVars
    BY <1>1
  <2> HIDE DEF Known
  <2>3. []FGrowInv => [][Stays]_fileVars
    BY <2>1, <2>2, PTL
  <2>4. QED
    BY <1>2, <2>3, FileGrows DEF SmallestSurvive
<1>3. CASE ~KeysOrdered
  BY <1>3
<1>4. QED
  BY <1>2, <1>3

(* A scan returns the records of the table in ascending order and passes over
   none, whatever statements came before it, on a table that was loaded as
   often as one likes, *)
THEOREM ScansOfFileInOrder ==
  KeysOrdered /\ GrowFileSpec => ScanInOrder
<1> DEFINE Ascends ==
      NextRecord /\ ~ended' =>
        last' \in Ahead /\ \A r \in Ahead : Cmp(KeyOf(r), KeyOf(last')) >= 0
<1>1. CASE KeysOrdered
  <2>1. FGrowInv => [Ascends]_scanVars
    BY <1>1, NextInOrder DEF FGrowInv
  <2>2. []FGrowInv => [][Ascends]_scanVars
    BY <2>1, PTL
  <2>3. QED
    BY <1>1, <2>2, FileGrows DEF ScanInOrder
<1>2. CASE ~KeysOrdered
  BY <1>2
<1>3. QED
  BY <1>1, <1>2

(* and at its end it has returned them all. *)
THEOREM ScansOfFileOmitNothing ==
  KeysOrdered /\ GrowFileSpec => EndMeansAll
<1>1. CASE KeysOrdered
  <2>1. FGrowInv /\ [FileNext]_fileVars =>
          [~ended /\ ended' => Ahead = {}]_scanVars
    BY <1>1, EndInOrder DEF fileVars
  <2>2. QED
    BY <1>1, <2>1, FileGrows, PTL DEF EndMeansAll, FileSpec, GrowFileSpec
<1>2. CASE ~KeysOrdered
  BY <1>2
<1>3. QED
  BY <1>1, <1>2
=============================================================================

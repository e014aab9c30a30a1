-------------------------- MODULE BtreePagesProofs --------------------------
(***************************************************************************)
(* What the recursive definition of PagesBelow computes: the pages that    *)
(* are reached through child pointers.  And that no page is lost.          *)
(***************************************************************************)
EXTENDS BtreeProofs

-----------------------------------------------------------------------------
(* The next level below a set of pages. *)
Under(pages) == UNION {ToSet(disk[q].kids) : q \in pages}

(* The recursion of Levels has a solution. *)
LEMMA LevelsDefined ==
  ASSUME NEW p, height[p] \in Nat
  PROVE  Levels(p) = [d \in 0 .. height[p] |->
                        IF d = 0 THEN {p} ELSE Under(Levels(p)[d - 1])]
<1> DEFINE h == height[p]
           Solves(n, g) ==
             g = [d \in 0 .. n |-> IF d = 0 THEN {p} ELSE Under(g[d - 1])]
           S == {n \in 0 .. h : \E g : Solves(n, g)}
<1>1. Solves(0, [d \in 0 .. 0 |-> {p}])
  OBVIOUS
<1>2. ASSUME NEW n \in 0 .. h - 1, NEW g, Solves(n, g)
      PROVE  \E f : Solves(n + 1, f)
  <2> DEFINE f == [d \in 0 .. n + 1 |-> IF d = n + 1 THEN Under(g[n]) ELSE g[d]]
             e == [d \in 0 .. n + 1 |-> IF d = 0 THEN {p} ELSE Under(f[d - 1])]
  <2>1. \A d \in 0 .. n : g[d] = IF d = 0 THEN {p} ELSE Under(g[d - 1])
    BY <1>2
  <2>2. ASSUME NEW d \in 0 .. n + 1
        PROVE  f[d] = e[d]
    <3>1. CASE d = n + 1
      BY <3>1
    <3>2. CASE d = 0
      BY <2>1, <3>2
    <3>3. CASE d # n + 1 /\ d # 0
      <4>1. f[d] = g[d] /\ f[d - 1] = g[d - 1] /\ d \in 0 .. n
        BY <3>3
      <4>2. QED
        BY <2>1, <3>3, <4>1
    <3>4. QED
      BY <3>1, <3>2, <3>3
  <2>3. f = e
    BY <2>2
  <2>4. QED
    BY <2>3
<1> HIDE DEF Solves
<1>3. 0 \in S
  BY <1>1
<1>4. \A n \in 0 .. h - 1 : n \in S => n + 1 \in S
  BY <1>2
<1>5. h \in S
  <2> HIDE DEF S
  <2>1. QED
    BY <1>3, <1>4, SetInduction
<1>6. PICK g : Solves(h, g)
  BY <1>5
<1>7. Levels(p) = CHOOSE f : f = [d \in 0 .. height[p] |->
                                    IF d = 0 THEN {p} ELSE Under(f[d - 1])]
  BY DEF Levels, Under
<1>8. QED
  BY <1>6, <1>7 DEF Solves

(* The children of a page are one level below it. *)
LEMMA KidsOf ==
  ASSUME Tree, NEW p \in Live, NEW k \in ToSet(disk[p].kids)
  PROVE  /\ k \in Live \ {root} /\ height[k] = height[p] - 1
         /\ \E i \in 1 .. Len(disk[p].kids) : k = disk[p].kids[i]
<1>1. PICK i \in DOMAIN disk[p].kids : k = disk[p].kids[i]
  BY DEF ToSet
<1>2. i \in 1 .. Len(disk[p].kids)
  BY PageFacts
<1>3. QED
  BY <1>1, <1>2, KidFacts

(* d levels below a page of the tree all pages are d levels lower. *)
LEMMA LevelHeights ==
  ASSUME Tree, NEW p \in Live
  PROVE  /\ height[p] \in Nat
         /\ Levels(p)[0] = {p}
         /\ \A d \in 1 .. height[p] : Levels(p)[d] = Under(Levels(p)[d - 1])
         /\ \A d \in 0 .. height[p] : \A q \in Levels(p)[d] :
              q \in Live /\ height[q] = height[p] - d
<1> DEFINE L == Levels(p)
           S == {d \in 0 .. height[p] :
                   \A q \in L[d] : q \in Live /\ height[q] = height[p] - d}
<1>1. height[p] \in Nat
  BY PageFacts
<1>2. L = [d \in 0 .. height[p] |-> IF d = 0 THEN {p} ELSE Under(L[d - 1])]
  BY <1>1, LevelsDefined
<1> HIDE DEF L
<1>3. L[0] = {p} /\ \A d \in 1 .. height[p] : L[d] = Under(L[d - 1])
  <2>1. L[0] = {p}
    BY <1>1, <1>2
  <2>2. ASSUME NEW d \in 1 .. height[p]
        PROVE  L[d] = Under(L[d - 1])
    <3>1. d \in 0 .. height[p] /\ d # 0
      OBVIOUS
    <3>2. QED
      BY <1>2, <3>1
  <2>3. QED
    BY <2>1, <2>2
<1>4. 0 \in S
  BY <1>1, <1>3
<1>5. ASSUME NEW d \in 0 .. height[p] - 1, d \in S
      PROVE  d + 1 \in S
  <2>1. d + 1 \in 1 .. height[p] /\ (d + 1) - 1 = d
    BY <1>1
  <2>2. L[d + 1] = Under(L[d])
    BY <1>3, <2>1
  <2>3. ASSUME NEW k \in L[d + 1]
        PROVE  k \in Live /\ height[k] = height[p] - (d + 1)
    <3>1. PICK q \in L[d] : k \in ToSet(disk[q].kids)
      BY <2>2 DEF Under
    <3>2. q \in Live /\ height[q] = height[p] - d
      BY <1>5
    <3>3. k \in Live /\ height[k] = height[q] - 1
      BY <3>1, <3>2, KidsOf
    <3>4. QED
      BY <1>1, <3>2, <3>3
  <2>4. QED
    BY <1>1, <2>1, <2>3
<1>6. 0 .. height[p] \subseteq S
  <2>1. \A d \in 0 .. height[p] - 1 : d \in S => d + 1 \in S
    BY <1>5
  <2> HIDE DEF S
  <2>2. QED
    BY <1>1, <1>4, <2>1, SetInduction
<1>7. QED
  BY <1>1, <1>3, <1>6 DEF L

(* PagesBelow is what is reached through child pointers ... *)
LEMMA BelowClosed ==
  ASSUME Tree, NEW p \in Live
  PROVE  /\ p \in PagesBelow(p)
         /\ PagesBelow(p) \subseteq Live
         /\ \A q \in PagesBelow(p) : ToSet(disk[q].kids) \subseteq PagesBelow(p)
<1>1. p \in PagesBelow(p) /\ PagesBelow(p) \subseteq Live
  BY LevelHeights DEF PagesBelow
<1>2. ASSUME NEW q \in PagesBelow(p), NEW k \in ToSet(disk[q].kids)
      PROVE  k \in PagesBelow(p)
  <2>1. PICK d \in 0 .. height[p] : q \in Levels(p)[d]
    BY DEF PagesBelow
  <2>2. /\ height[p] \in Nat /\ q \in Live
        /\ height[q] = height[p] - d
    BY <2>1, LevelHeights
  <2>3. k \in Live /\ height[k] = height[q] - 1
    BY <2>2, KidsOf
  <2>4. height[k] \in Nat
    BY <2>3, PageFacts
  <2>5. d + 1 \in 1 .. height[p] /\ d + 1 \in 0 .. height[p] /\ (d + 1) - 1 = d
    BY <2>2, <2>3, <2>4
  <2>6. Levels(p)[d + 1] = Under(Levels(p)[d])
    BY <2>5, LevelHeights
  <2>7. k \in Levels(p)[d + 1]
    BY <2>1, <2>6 DEF Under
  <2>8. QED
    BY <2>5, <2>7 DEF PagesBelow
<1>3. QED
  BY <1>1, <1>2

(* ... and no more. *)
LEMMA BelowLeast ==
  ASSUME Tree, NEW p \in Live, NEW S, p \in S,
         \A q \in S \cap Live : ToSet(disk[q].kids) \subseteq S
  PROVE  PagesBelow(p) \subseteq S
<1> DEFINE D == {d \in 0 .. height[p] : Levels(p)[d] \subseteq S}
<1>1. 0 \in D
  BY LevelHeights
<1>2. ASSUME NEW d \in 0 .. height[p] - 1, d \in D
      PROVE  d + 1 \in D
  <2>1. d + 1 \in 1 .. height[p] /\ d + 1 \in 0 .. height[p] /\ (d + 1) - 1 = d
    BY LevelHeights
  <2>2. Levels(p)[d + 1] = Under(Levels(p)[d])
    BY <2>1, LevelHeights
  <2>3. Levels(p)[d] \subseteq S \cap Live
    BY <1>2, LevelHeights
  <2>4. Levels(p)[d + 1] \subseteq S
    BY <2>2, <2>3 DEF Under
  <2>5. QED
    BY <2>1, <2>4
<1>3. 0 .. height[p] \subseteq D
  <2>1. height[p] \in Nat
    BY LevelHeights
  <2>2. \A d \in 0 .. height[p] - 1 : d \in D => d + 1 \in D
    BY <1>2
  <2> HIDE DEF D
  <2>3. QED
    BY <1>1, <2>1, <2>2, SetInduction
<1>4. QED
  BY <1>3 DEF PagesBelow

-----------------------------------------------------------------------------
(* Every page in use but the root is somebody's child. *)
Rooted == \A q \in Live \ {root} : \E p \in Live : q \in ToSet(disk[p].kids)

(* In a tree in which every page but the root is a child none is lost. *)
LEMMA NoneLost ==
  ASSUME Tree, Rooted
  PROVE  NoPageLost
<1>1. root \in Live
  BY DEF Tree
<1>2. PagesBelow(root) \subseteq Live
  BY <1>1, BelowClosed
<1>3. PICK m \in Nat : \A p \in Live : height[p] \in Nat /\ height[p] <= m
  <2>1. PICK m \in Nat : \A p \in 1 .. Len(height) : height[p] <= m
    BY Bounded DEF Tree, TreeTypes
  <2>2. \A p \in Live : p \in 1 .. Len(height) /\ height[p] \in Nat
    BY PageFacts DEF Tree, TreeTypes
  <2>3. QED
    BY <2>1, <2>2
<1>4. SUFFICES ASSUME NEW q0 \in Live \ PagesBelow(root)
               PROVE  FALSE
  BY <1>2 DEF NoPageLost
<1> DEFINE Depths == {m - height[q] : q \in Live \ PagesBelow(root)}
<1>5. PICK q \in Live \ PagesBelow(root) :
        \A p \in Live \ PagesBelow(root) : m - height[q] <= m - height[p]
  <2>1. Depths \in SUBSET Nat /\ Depths # {}
    BY <1>3
  <2>2. PICK x \in Depths : \A y \in Depths : x <= y
    <3> HIDE DEF Depths
    <3>1. QED
      BY <2>1, LeastElement
  <2>3. QED
    BY <2>2
<1>6. q # root
  BY <1>1, BelowClosed
<1>7. PICK p \in Live : q \in ToSet(disk[p].kids)
  BY <1>6 DEF Rooted
<1>8. height[q] = height[p] - 1
  BY <1>7, KidsOf
<1>9. p \in PagesBelow(root)
  BY <1>3, <1>5, <1>8
<1>10. QED
  BY <1>1, <1>5, <1>7, <1>9, BelowClosed
-----------------------------------------------------------------------------
(* The left edge of the tree leads from the root to the leaf r: each page on
   it is the first child of another. *)
Leftmost(r) ==
  /\ disk[r].leaf
  /\ \E S \in SUBSET Live :
       /\ {root, r} \subseteq S
       /\ \A q \in S \ {root} :
            \E p \in S : ~disk[p].leaf /\ q = disk[p].kids[1]

(* A step keeps every page in the tree, and the left edge where it is. *)
Kept == Rooted' /\ \A r \in Page : Leftmost(r) => Leftmost(r)'

(* A step changes these pages; what it adds to the file is among them. *)
Changes(pages) ==
  /\ pages \subseteq Live'
  /\ DOMAIN disk \subseteq DOMAIN disk'
  /\ DOMAIN disk' \subseteq DOMAIN disk \cup pages
  /\ ~Wipe => \A q \in DOMAIN disk \ pages : disk'[q] = disk[q]

(* Where a split puts the right half. *)
NewPage == Len(disk) + 1

(* A page on the left edge is no other than a first child. *)
LEMMA LeftmostKept ==
  ASSUME Tree, Tree', root' = root, \A p \in Live : height'[p] = height[p],
         \A p \in Live :
           \/ /\ p \in Live'
              /\ ~disk[p].leaf => disk'[p].kids[1] = disk[p].kids[1]
           \/ \E q \in Live : \E j \in 2 .. Len(disk[q].kids) :
                p = disk[q].kids[j]
  PROVE  \A r \in Page : Leftmost(r) => Leftmost(r)'
<1> SUFFICES ASSUME NEW r \in Page, Leftmost(r)
             PROVE  Leftmost(r)'
  OBVIOUS
<1>1. PICK S \in SUBSET Live :
        /\ {root, r} \subseteq S
        /\ \A q \in S \ {root} :
             \E p \in S : ~disk[p].leaf /\ q = disk[p].kids[1]
  BY DEF Leftmost
<1>2. ASSUME NEW p \in S
      PROVE  /\ p \in Live'
             /\ ~disk[p].leaf => disk'[p].kids[1] = disk[p].kids[1]
  <2> SUFFICES ASSUME NEW q \in Live, NEW j \in 2 .. Len(disk[q].kids),
                      p = disk[q].kids[j]
               PROVE  FALSE
    BY <1>1
  <2>1. j \in 1 .. Len(disk[q].kids) /\ j # 1
    OBVIOUS
  <2>2. p # root
    BY <2>1, KidFacts
  <2>3. PICK o \in S : ~disk[o].leaf /\ p = disk[o].kids[1]
    BY <1>1, <2>2
  <2>4. Len(disk[o].kids) = Count(disk[o]) + 1 /\ Count(disk[o]) \in Nat
    BY <1>1, <2>3, PageFacts DEF WellFormed
  <2>5. 1 \in 1 .. Len(disk[o].kids) /\ o \in Live
    BY <1>1, <2>4
  <2>6. \A x \in 1 .. Len(disk[o].kids) :
          disk[o].kids[x] = disk[q].kids[j] => x = j
    BY <2>1, <2>5, AllKids
  <2>7. QED
    BY <2>1, <2>3, <2>5, <2>6
<1>3. ASSUME NEW p \in S
      PROVE  disk'[p].leaf <=> disk[p].leaf
  <2>1. p \in Live /\ p \in Live' /\ height'[p] = height[p]
    BY <1>1, <1>2
  <2>2. disk[p].leaf <=> height[p] = 0
    BY <2>1 DEF Tree, ChildrenBelow
  <2>3. disk'[p].leaf <=> height'[p] = 0
    BY <2>1 DEF Tree, ChildrenBelow
  <2>4. QED
    BY <2>1, <2>2, <2>3
<1>4. S \subseteq Live'
  BY <1>2
<1>5. disk'[r].leaf
  BY <1>1, <1>3 DEF Leftmost
<1>6. ASSUME NEW q \in S \ {root'}
      PROVE  \E p \in S : ~disk'[p].leaf /\ q = disk'[p].kids[1]
  BY <1>1, <1>2, <1>3
<1>7. QED
  BY <1>1, <1>4, <1>5, <1>6 DEF Leftmost

(* Where children only change parents every page keeps one. *)
LEMMA RootedKept ==
  ASSUME Rooted, root' = root, NEW new, Live' \subseteq Live \cup new,
         \A q \in new : \E p \in Live' : q \in ToSet(disk'[p].kids),
         \A p \in Live : \A k \in ToSet(disk[p].kids) \cap Live' :
           \E o \in Live' : k \in ToSet(disk'[o].kids)
  PROVE  Rooted'
BY DEF Rooted

(* A page with other records. *)
LEMMA RecordsKept ==
  ASSUME Tree, Rooted, NEW p \in Live, NEW n \in Node, WellFormed(n),
         n.leaf = disk[p].leaf, n.kids = disk[p].kids,
         p # root => Count(n) >= Order - 1,
         disk' = [disk EXCEPT ![p] = n],
         UNCHANGED <<height, root, freed>>
  PROVE  Kept /\ Changes({p}) /\ DOMAIN disk' = DOMAIN disk /\ disk'[p] = n
<1>1. Tree' /\ Live' = Live
  BY SameKids
<1>2. /\ p \in DOMAIN disk /\ DOMAIN disk' = DOMAIN disk
      /\ \A q \in DOMAIN disk : disk'[q] = IF q = p THEN n ELSE disk[q]
  BY DEF Live
<1>3. \A q \in Live : q \in DOMAIN disk /\ disk'[q].kids = disk[q].kids
  BY <1>2 DEF Live
<1>4. Rooted'
  BY <1>1, <1>3 DEF Rooted
<1>5. \A r \in Page : Leftmost(r) => Leftmost(r)'
  BY <1>1, <1>3, LeftmostKept
<1>6. QED
  BY <1>1, <1>2, <1>4, <1>5 DEF Kept, Changes

(* A step that leaves the tree as it is. *)
LEMMA TreeKept ==
  ASSUME Tree, Rooted, UNCHANGED tree
  PROVE  Kept /\ Changes({}) /\ DOMAIN disk' = DOMAIN disk
<1>1. Tree' /\ Live' = Live
  BY SameTree
<1>2. disk' = disk /\ height' = height /\ root' = root /\ freed' = freed
  BY DEF tree
<1>3. Rooted'
  BY <1>1, <1>2 DEF Rooted
<1>4. \A r \in Page : Leftmost(r) => Leftmost(r)'
  BY <1>1, <1>2, LeftmostKept
<1>5. QED
  BY <1>2, <1>3, <1>4 DEF Kept, Changes
(* A child splits. *)
LEMMA SplitChildKept ==
  ASSUME Tree, Rooted, NEW p \in Live, ~disk[p].leaf, ~Full(disk[p]),
         NEW i \in 1 .. Count(disk[p]) + 1,
         NEW c, c = disk[p].kids[i], Full(disk[c]),
         NEW new, new = NewPage,
         Split(c, p, Adopt(disk[p], i, Median(disk[c]), new)),
         root' = root, freed' = freed
  PROVE  /\ Kept /\ Changes({c, new, p})
         /\ c \in DOMAIN disk /\ p \in DOMAIN disk /\ c # p
         /\ Len(disk') = Len(disk) + 1
         /\ new \in ToSet(disk'[p].kids)
<1> DEFINE L == LeftHalf(disk[c])
           R == RightHalf(disk[c])
           P == Adopt(disk[p], i, Median(disk[c]), new)
           d == [disk EXCEPT ![c] = L, ![p] = P]
<1>1. Tree' /\ Live' = Live \cup {new} /\ c \in Live
  BY SplitChild DEF NewPage
<1>2. /\ disk \in Seq(Node) /\ Len(disk) \in Nat /\ DOMAIN disk = 1 .. Len(disk)
      /\ height \in Seq(Nat) /\ Len(height) = Len(disk)
      /\ \A q \in Live : q \in DOMAIN disk
      /\ disk[p] \in Node /\ WellFormed(disk[p]) /\ Count(disk[p]) \in Nat
      /\ disk[c] \in Node /\ WellFormed(disk[c]) /\ new \in Page
  <2>1. /\ disk \in Seq(Node) /\ height \in Seq(Nat)
        /\ Len(height) = Len(disk)
    BY DEF Tree, TreeTypes
  <2>2. Len(disk) \in Nat /\ DOMAIN disk = 1 .. Len(disk) /\ new \in Page
    BY PageFacts DEF Page, NewPage
  <2>3. \A q \in Live : q \in DOMAIN disk /\ disk[q] \in Node
                         /\ WellFormed(disk[q]) /\ Count(disk[q]) \in Nat
    BY PageFacts
  <2>4. QED
    BY <1>1, <2>1, <2>2, <2>3
<1>3. i \in 1 .. Len(disk[p].kids)
  BY <1>2 DEF WellFormed
<1>4. c # p
  BY <1>3, KidFacts
<1>5. Median(disk[c]) \in Record
  BY <1>2, MedianRecord
<1>6. L \in Node /\ R \in Node /\ P \in Node
  BY <1>2, <1>5, LeftHalfNode, RightHalfNode, AdoptNode
<1>7. disk' = Append(d, R) /\ height' = Append(height, height[c])
  BY DEF Split
<1>l. /\ ToSet(disk[c].kids) = ToSet(L.kids) \cup ToSet(R.kids)
      /\ ~disk[c].leaf => L.kids[1] = disk[c].kids[1]
  <2>1. ToSet(disk[c].kids) = ToSet(L.kids) \cup ToSet(R.kids)
    BY <1>2, SplitElements
  <2>2. ASSUME ~disk[c].leaf
        PROVE  L.kids[1] = disk[c].kids[1]
    <3>1. 1 \in 1 .. Len(L.kids)
      BY <1>2, <2>2, LeftHalfNode, OrderAssumption
    <3>2. QED
      BY <1>2, <3>1, LeftHalfNode
  <2>3. QED
    BY <2>1, <2>2
<1>p. /\ ToSet(disk[p].kids) \subseteq ToSet(P.kids) /\ new \in ToSet(P.kids)
      /\ P.kids[1] = disk[p].kids[1]
  <2> DEFINE A == disk[p]
             v == Median(disk[c])
  <2>1. /\ A \in Node /\ WellFormed(A) /\ ~A.leaf /\ ~Full(A)
        /\ i \in 1 .. Count(A) + 1 /\ v \in Record /\ new \in Page
        /\ P = Adopt(A, i, v, new) /\ i \in 1 .. Len(A.kids)
    BY <1>2, <1>3, <1>5
  <2> HIDE DEF A, v, P
  <2>2. ToSet(A.kids) \subseteq ToSet(P.kids) /\ new \in ToSet(P.kids)
    BY ZenonT(60), <2>1, AdoptElements
  <2>3. 1 \in 1 .. Len(A.kids) + 1 /\ 1 < i + 1
    BY <2>1
  <2>4. P.kids[1] = A.kids[1]
    BY <2>1, <2>3, AdoptNode
  <2>5. QED
    BY <2>2, <2>4 DEF A
<1> HIDE DEF L, R, P
<1>8. /\ d \in Seq(Node) /\ Len(d) = Len(disk)
      /\ \A q \in 1 .. Len(disk) :
           d[q] = IF q = p THEN P ELSE IF q = c THEN L ELSE disk[q]
  BY <1>1, <1>2, <1>6, TwoElements
<1> HIDE DEF d
<1>9. /\ Len(disk') = Len(disk) + 1 /\ disk' \in Seq(Node)
      /\ \A q \in 1 .. Len(disk) : disk'[q] = d[q]
      /\ disk'[new] = R
  BY <1>6, <1>7, <1>8, AppendProperties DEF NewPage
<1>10. DOMAIN disk' = DOMAIN disk \cup {new}
  BY <1>2, <1>9, LenProperties DEF NewPage
<1>11. /\ disk'[c] = L /\ disk'[p] = P
       /\ \A q \in DOMAIN disk : q # c /\ q # p => disk'[q] = disk[q]
  BY <1>1, <1>2, <1>4, <1>8, <1>9
<1>12. \A q \in Live : height'[q] = height[q]
  BY <1>1, <1>2, <1>7, AppendProperties
<1>13. Changes({c, new, p})
  BY <1>1, <1>10, <1>11 DEF Changes
<1>14. ASSUME NEW q \in Live, NEW k \in ToSet(disk[q].kids)
       PROVE  \E o \in Live' : k \in ToSet(disk'[o].kids)
  <2>1. CASE q = c
    BY <1>1, <1>9, <1>11, <1>14, <1>l, <2>1
  <2>2. CASE q = p
    BY <1>1, <1>11, <1>14, <1>p, <2>2
  <2>3. CASE q # c /\ q # p
    BY <1>1, <1>2, <1>11, <1>14, <2>3
  <2>4. QED
    BY <2>1, <2>2, <2>3
<1>15. new \in ToSet(disk'[p].kids)
  BY <1>11, <1>p
<1>16. Rooted'
  <2> DEFINE N == {new}
  <2>1. \A q \in N : \E o \in Live' : q \in ToSet(disk'[o].kids)
    BY <1>1, <1>15
  <2>2. Live' \subseteq Live \cup N
    BY <1>1
  <2>3. \A q \in Live : \A k \in ToSet(disk[q].kids) \cap Live' :
          \E o \in Live' : k \in ToSet(disk'[o].kids)
    BY <1>14
  <2> HIDE DEF N
  <2>4. QED
    BY <2>1, <2>2, <2>3, RootedKept
<1>17. \A q \in Live : ~disk[q].leaf => disk'[q].kids[1] = disk[q].kids[1]
  BY <1>2, <1>11, <1>l, <1>p
<1>18. \A r \in Page : Leftmost(r) => Leftmost(r)'
  BY <1>1, <1>12, <1>17, LeftmostKept
<1>19. QED
  BY <1>1, <1>2, <1>4, <1>9, <1>13, <1>15, <1>16, <1>18 DEF Kept

(* The root splits below a new root. *)
LEMMA SplitRootKept ==
  ASSUME Tree, Rooted, NEW r, InsertSplitRoot(r),
         NEW new, new = Len(disk) + 1, NEW top, top = Len(disk) + 2
  PROVE  /\ Kept /\ Changes({root, new, top})
         /\ Len(disk') = Len(disk) + 2
         /\ new \in ToSet(disk'[top].kids)
<1> DEFINE c == root
           L == LeftHalf(disk[c])
           R == RightHalf(disk[c])
           T == NewRoot(Median(disk[c]), c, new)
           d == [disk EXCEPT ![c] = L]
           e == Append(d, R)
<1>0. /\ disk' = Append(e, T) /\ Full(disk[c])
      /\ height' = Append(Append(height, height[c]), height[c] + 1)
      /\ root' = top /\ freed' = freed
  BY DEF InsertSplitRoot
<1>1. Tree'
  BY SplitRoot
<1>2. /\ disk \in Seq(Node) /\ Len(disk) \in Nat /\ DOMAIN disk = 1 .. Len(disk)
      /\ height \in Seq(Nat) /\ Len(height) = Len(disk) /\ height[c] \in Nat
      /\ \A q \in Live : q \in DOMAIN disk
      /\ c \in Live /\ c \in DOMAIN disk /\ c \in Page
      /\ disk[c] \in Node /\ WellFormed(disk[c]) /\ new \in Page
      /\ freed \subseteq DOMAIN disk
  BY PageFacts DEF Tree, TreeTypes, Page
<1>5. Median(disk[c]) \in Record
  BY <1>0, <1>2, MedianRecord
<1>6. L \in Node /\ R \in Node /\ T \in Node
  BY <1>0, <1>2, <1>5, LeftHalfNode, RightHalfNode, NewRootNode
<1>l. /\ ToSet(disk[c].kids) = ToSet(L.kids) \cup ToSet(R.kids)
      /\ ~disk[c].leaf => L.kids[1] = disk[c].kids[1]
  <2>1. ToSet(disk[c].kids) = ToSet(L.kids) \cup ToSet(R.kids)
    BY <1>0, <1>2, SplitElements
  <2>2. ASSUME ~disk[c].leaf
        PROVE  L.kids[1] = disk[c].kids[1]
    <3>1. 1 \in 1 .. Len(L.kids)
      BY <1>0, <1>2, <2>2, LeftHalfNode, OrderAssumption
    <3>2. QED
      BY <1>0, <1>2, <3>1, LeftHalfNode
  <2>3. QED
    BY <2>1, <2>2
<1>t. T.kids = <<c, new>> /\ ~T.leaf
  BY DEF NewRoot
<1> HIDE DEF L, R, T, c
<1>8. /\ d \in Seq(Node) /\ Len(d) = Len(disk)
      /\ \A q \in 1 .. Len(disk) : d[q] = IF q = c THEN L ELSE disk[q]
  BY <1>2, <1>6, OneElement
<1> HIDE DEF d
<1>9. /\ e \in Seq(Node) /\ Len(e) = new /\ e[new] = R
      /\ \A q \in 1 .. Len(disk) : e[q] = d[q]
  BY <1>6, <1>8, AppendProperties
<1> HIDE DEF e
<1>10. /\ disk' \in Seq(Node) /\ Len(disk') = Len(disk) + 2
       /\ disk'[top] = T /\ disk'[new] = R
       /\ \A q \in 1 .. Len(disk) : disk'[q] = e[q]
  BY <1>0, <1>2, <1>6, <1>9, AppendProperties
<1>11. DOMAIN disk' = DOMAIN disk \cup {new, top}
  <2>1. DOMAIN disk' = 1 .. Len(disk) + 2
    BY <1>10, LenProperties
  <2>2. QED
    BY <1>2, <2>1
<1>12. /\ disk'[c] = L
       /\ \A q \in DOMAIN disk : q # c => disk'[q] = disk[q]
  BY <1>2, <1>8, <1>9, <1>10
<1>13. /\ new \notin DOMAIN disk /\ top \notin DOMAIN disk /\ new # top
       /\ Live' = Live \cup {new, top}
  BY <1>0, <1>2, <1>11 DEF Live
<1>14. \A q \in Live : height'[q] = height[q]
  <2> DEFINE g == height[c]
             h == Append(height, g)
  <2>1. g \in Nat /\ g + 1 \in Nat /\ height' = Append(h, g + 1)
    BY <1>0, <1>2 DEF c
  <2> HIDE DEF g
  <2>2. /\ h \in Seq(Nat) /\ Len(h) = Len(height) + 1
        /\ \A q \in 1 .. Len(height) : h[q] = height[q]
    <3>1. h = Append(height, g) /\ height \in Seq(Nat)
      BY <1>2
    <3> HIDE DEF h
    <3>2. QED
      BY <2>1, <3>1, AppendProperties
  <2> HIDE DEF h
  <2>3. height' = Append(h, g + 1) /\ g + 1 \in Nat
    BY <2>1
  <2>4. \A q \in 1 .. Len(h) : height'[q] = h[q]
    BY <2>2, <2>3, AppendProperties
  <2>5. \A q \in Live : q \in 1 .. Len(height) /\ q \in 1 .. Len(h)
    BY <1>2, <2>2
  <2>6. QED
    BY <2>2, <2>4, <2>5
<1>15. Changes({c, new, top})
  BY <1>2, <1>11, <1>12, <1>13 DEF Changes
<1>16. {c, new} \subseteq ToSet(disk'[top].kids)
  BY <1>10, <1>t DEF ToSet
<1>17. ASSUME NEW q \in Live, NEW k \in ToSet(disk[q].kids)
       PROVE  \E o \in Live' : k \in ToSet(disk'[o].kids)
  <2>1. CASE q = c
    BY <1>10, <1>12, <1>13, <1>17, <1>l, <2>1
  <2>2. CASE q # c
    BY <1>2, <1>12, <1>13, <1>17, <2>2
  <2>3. QED
    BY <2>1, <2>2
<1>18. Rooted'
  <2> SUFFICES ASSUME NEW q \in Live', q # top
               PROVE  \E o \in Live' : q \in ToSet(disk'[o].kids)
    BY <1>0 DEF Rooted
  <2>1. CASE q = new \/ q = c
    BY <1>13, <1>16, <2>1
  <2>2. CASE q \in Live /\ q # c
    <3>1. \E p \in Live : q \in ToSet(disk[p].kids)
      BY <2>2 DEF Rooted, c
    <3>2. QED
      BY <1>17, <3>1
  <2>3. QED
    BY <1>13, <2>1, <2>2
<1>19. ASSUME NEW x \in Page, Leftmost(x)
       PROVE  Leftmost(x)'
  <2>1. PICK S \in SUBSET Live :
          /\ {c, x} \subseteq S
          /\ \A q \in S \ {c} :
               \E p \in S : ~disk[p].leaf /\ q = disk[p].kids[1]
    BY <1>19 DEF Leftmost, c
  <2>2. ASSUME NEW p \in S
        PROVE  /\ disk'[p].leaf <=> disk[p].leaf
               /\ ~disk[p].leaf => disk'[p].kids[1] = disk[p].kids[1]
    <3>1. p \in Live /\ p \in Live' /\ height'[p] = height[p] /\ p \in DOMAIN disk
      BY <1>2, <1>13, <1>14, <2>1
    <3>2. disk[p].leaf <=> height[p] = 0
      BY <3>1 DEF Tree, ChildrenBelow
    <3>3. disk'[p].leaf <=> height'[p] = 0
      BY <1>1, <3>1 DEF Tree, ChildrenBelow
    <3>4. ~disk[p].leaf => disk'[p].kids[1] = disk[p].kids[1]
      BY <1>12, <1>l, <3>1
    <3>5. QED
      BY <3>1, <3>2, <3>3, <3>4
  <2> DEFINE U == S \cup {top}
  <2>3. U \in SUBSET Live' /\ {root', x} \subseteq U
    BY <1>0, <1>13, <2>1
  <2>4. disk'[x].leaf
    BY <1>19, <2>1, <2>2 DEF Leftmost
  <2>5. ASSUME NEW q \in U \ {root'}
        PROVE  \E p \in U : ~disk'[p].leaf /\ q = disk'[p].kids[1]
    <3>1. CASE q = c
      <4>1. ~disk'[top].leaf /\ c = disk'[top].kids[1]
        BY <1>10, <1>t
      <4>2. QED
        BY <3>1, <4>1
    <3>2. CASE q # c
      <4>1. PICK p \in S : ~disk[p].leaf /\ q = disk[p].kids[1]
        BY <1>0, <2>1, <3>2
      <4>2. QED
        BY <2>2, <4>1
    <3>3. QED
      BY <3>1, <3>2
  <2> HIDE DEF U
  <2>6. QED
    BY <2>3, <2>4, <2>5 DEF Leftmost
<1>20. QED
  BY <1>10, <1>15, <1>16, <1>18, <1>19 DEF Kept, c
(* Two children merge. *)
LEMMA MergeKept ==
  ASSUME Tree, Rooted, NEW p \in Live, ~disk[p].leaf,
         p # root => CanSpare(disk[p]), NEW i \in 1 .. Count(disk[p]),
         NEW a, a = disk[p].kids[i], NEW b, b = disk[p].kids[i + 1],
         ~CanSpare(disk[a]), ~CanSpare(disk[b]), Merge(p, i, a, b)
  PROVE  /\ Kept /\ Changes({a, p}) /\ DOMAIN disk' = DOMAIN disk
         /\ a \in DOMAIN disk /\ p \in DOMAIN disk
         /\ ToSet(disk[a].recs) \subseteq ToSet(disk'[a].recs)
<1> DEFINE M == Merged(disk[a], disk[p].recs[i], disk[b])
           D == Drop(disk[p], i)
           Z == IF Wipe THEN ZeroNode ELSE disk[b]
<1>1. Tree'
  BY MergeChildren
<1>2. /\ a \in Live /\ b \in Live /\ a # p /\ b # p /\ a # b /\ b # root
      /\ disk[a] \in Node /\ disk[b] \in Node
      /\ WellFormed(disk[a]) /\ WellFormed(disk[b])
      /\ disk[a].leaf = disk[b].leaf /\ disk[p].recs[i] \in Record
  BY Siblings
<1>3. /\ disk \in Seq(Node) /\ DOMAIN disk = 1 .. Len(disk) /\ Len(disk) \in Nat
      /\ \A q \in Live : q \in DOMAIN disk
      /\ disk[p] \in Node /\ WellFormed(disk[p])
  BY PageFacts DEF Tree, TreeTypes
<1>4. Len(disk[p].kids) = Count(disk[p]) + 1 /\ i + 1 \in 2 .. Len(disk[p].kids)
  BY <1>3, NodeParts DEF WellFormed
<1>5. /\ disk' = [disk EXCEPT ![a] = M, ![p] = D, ![b] = Z]
      /\ freed' = freed \cup {b} /\ height' = height /\ root' = root
  BY DEF Merge
<1>6. /\ Count(disk[a]) = Order - 1 /\ Count(disk[b]) = Order - 1
      /\ M \in Node /\ D \in Node /\ Z \in Node
  <2>1. Count(disk[a]) = Order - 1 /\ Count(disk[b]) = Order - 1
    BY <1>2, Siblings, OrderAssumption DEF CanSpare
  <2>2. M \in Node
    BY <1>2, <2>1, MergedNode
  <2>3. D \in Node
    BY <1>3, DropNode
  <2>4. Z \in Node
    BY <1>2, EmptySeq DEF ZeroNode, Node
  <2>5. QED
    BY <2>1, <2>2, <2>3, <2>4
<1>m. /\ ToSet(disk[a].kids) \subseteq ToSet(M.kids)
      /\ ToSet(disk[b].kids) \subseteq ToSet(M.kids)
      /\ ToSet(disk[a].recs) \subseteq ToSet(M.recs)
  BY <1>2, MergedElements
<1>n. ~disk[a].leaf => M.kids[1] = disk[a].kids[1]
  <2> SUFFICES ASSUME ~disk[a].leaf
               PROVE  M.kids[1] = disk[a].kids[1]
    OBVIOUS
  <2>1. /\ Len(disk[a].kids) = Count(disk[a]) + 1 /\ Len(disk[b].kids) \in Nat
        /\ Count(disk[a]) \in Nat
    BY <1>2, NodeParts DEF WellFormed
  <2>2. 1 \in 1 .. Len(disk[a].kids) + Len(disk[b].kids) /\ 1 <= Len(disk[a].kids)
    BY <2>1
  <2> DEFINE A == disk[a]
             B == disk[b]
             v == disk[p].recs[i]
  <2>3. /\ A \in Node /\ WellFormed(A) /\ Count(A) = Order - 1
        /\ B \in Node /\ WellFormed(B) /\ Count(B) = Order - 1
        /\ A.leaf = B.leaf /\ v \in Record /\ M = Merged(A, v, B)
        /\ 1 \in 1 .. Len(A.kids) + Len(B.kids) /\ 1 <= Len(A.kids)
    BY <1>2, <1>6, <2>2
  <2> HIDE DEF A, B, v, M
  <2>4. M.kids[1] = A.kids[1]
    BY <2>3, MergedNode
  <2>5. QED
    BY <2>4 DEF A
<1>d. /\ \A k \in ToSet(disk[p].kids) : k # b => k \in ToSet(D.kids)
      /\ D.kids[1] = disk[p].kids[1]
  <2>1. \A k \in ToSet(disk[p].kids) : k # b => k \in ToSet(D.kids)
    BY <1>3, DropElements
  <2>2. 1 \in 1 .. Len(disk[p].kids) - 1 /\ 1 < i + 1
    BY <1>4
  <2>3. D.kids[1] = disk[p].kids[1]
    BY <1>3, <2>2, DropNode
  <2>4. QED
    BY <2>1, <2>3
<1> HIDE DEF M, D, Z
<1>7. /\ Len(disk') = Len(disk) /\ disk' \in Seq(Node)
      /\ \A q \in 1 .. Len(disk) :
           disk'[q] = IF q = b THEN Z ELSE IF q = p THEN D
                      ELSE IF q = a THEN M ELSE disk[q]
  <2>1. a \in 1 .. Len(disk) /\ b \in 1 .. Len(disk) /\ p \in 1 .. Len(disk)
    BY <1>2, <1>3
  <2> DEFINE d == [disk EXCEPT ![a] = M, ![p] = D, ![b] = Z]
  <2>2. /\ Len(d) = Len(disk) /\ d \in Seq(Node)
        /\ \A q \in 1 .. Len(disk) :
             d[q] = IF q = b THEN Z ELSE IF q = p THEN D
                    ELSE IF q = a THEN M ELSE disk[q]
    BY <1>3, <1>6, <2>1, ThreeElements
  <2>3. disk' = d
    BY <1>5
  <2> HIDE DEF d
  <2>4. QED
    BY <2>2, <2>3
<1>8. DOMAIN disk' = DOMAIN disk
  BY <1>3, <1>7, LenProperties
<1>9. /\ disk'[a] = M /\ disk'[p] = D
      /\ \A q \in DOMAIN disk : q \notin {a, p, b} => disk'[q] = disk[q]
      /\ ~Wipe => disk'[b] = disk[b]
  BY <1>2, <1>3, <1>7 DEF Z
<1>10. Live' = Live \ {b}
  BY <1>5, <1>8 DEF Live
<1>11. Changes({a, p})
  BY <1>2, <1>8, <1>9, <1>10 DEF Changes
<1>12. ASSUME NEW q \in Live, NEW k \in ToSet(disk[q].kids), k # b
       PROVE  \E o \in Live' : k \in ToSet(disk'[o].kids)
  <2>1. CASE q = a \/ q = b
    BY <1>2, <1>9, <1>10, <1>12, <1>m, <2>1
  <2>2. CASE q = p
    BY <1>2, <1>9, <1>10, <1>12, <1>d, <2>2
  <2>3. CASE q \notin {a, b, p}
    BY <1>3, <1>9, <1>10, <1>12, <2>3
  <2>4. QED
    BY <2>1, <2>2, <2>3
<1>13. Rooted'
  BY <1>5, <1>10, <1>12 DEF Rooted
<1>14. ASSUME NEW q \in Live, q # b
       PROVE  /\ q \in Live'
              /\ ~disk[q].leaf => disk'[q].kids[1] = disk[q].kids[1]
  <2>1. q \in DOMAIN disk
    BY <1>3
  <2>2. CASE q = a
    BY <1>9, <1>10, <1>14, <1>n, <2>2
  <2>3. CASE q = p
    BY <1>9, <1>10, <1>14, <1>d, <2>3
  <2>4. CASE q # a /\ q # p
    BY <1>9, <1>10, <1>14, <2>1, <2>4
  <2>5. QED
    BY <2>2, <2>3, <2>4
<1>15. \E q \in Live : \E j \in 2 .. Len(disk[q].kids) : b = disk[q].kids[j]
  BY <1>4
<1>16. \A r \in Page : Leftmost(r) => Leftmost(r)'
  BY <1>1, <1>5, <1>14, <1>15, LeftmostKept
<1>17. QED
  BY <1>2, <1>3, <1>8, <1>9, <1>11, <1>13, <1>16, <1>m DEF Kept

(* What the siblings t and f below p hand over: their children stay theirs,
   a first child keeps its own first child, and t keeps its records. *)
LosesNothing(t, p, f, G, F) ==
  /\ \A k \in ToSet(disk[t].kids) \cup ToSet(disk[f].kids) :
       k \in ToSet(G.kids) \/ k \in ToSet(F.kids)
  /\ \/ ~disk[t].leaf => G.kids[1] = disk[t].kids[1]
     \/ \E j \in 2 .. Len(disk[p].kids) : t = disk[p].kids[j]
  /\ \/ ~disk[f].leaf => F.kids[1] = disk[f].kids[1]
     \/ \E j \in 2 .. Len(disk[p].kids) : f = disk[p].kids[j]
  /\ ToSet(disk[t].recs) \subseteq ToSet(G.recs)

(* Two siblings exchange a record and a child. *)
LEMMA RotateKept ==
  ASSUME Tree, Tree', Rooted, NEW p \in Live, NEW t \in Live, NEW f \in Live,
         t # p, f # p, t # f,
         NEW G \in Node, NEW Q \in Node, NEW F \in Node,
         Rotated(t, p, f, G, Q, F), Q.kids = disk[p].kids,
         LosesNothing(t, p, f, G, F)
  PROVE  /\ Kept /\ Changes({f, t, p}) /\ DOMAIN disk' = DOMAIN disk
         /\ f \in DOMAIN disk /\ t \in DOMAIN disk /\ p \in DOMAIN disk
         /\ ToSet(disk[t].recs) \subseteq ToSet(disk'[t].recs)
<1>1. /\ disk \in Seq(Node) /\ DOMAIN disk = 1 .. Len(disk) /\ Len(disk) \in Nat
      /\ \A q \in Live : q \in DOMAIN disk
  BY PageFacts DEF Tree, TreeTypes
<1>a. /\ \A k \in ToSet(disk[t].kids) \cup ToSet(disk[f].kids) :
           k \in ToSet(G.kids) \/ k \in ToSet(F.kids)
      /\ \/ ~disk[t].leaf => G.kids[1] = disk[t].kids[1]
         \/ \E j \in 2 .. Len(disk[p].kids) : t = disk[p].kids[j]
      /\ \/ ~disk[f].leaf => F.kids[1] = disk[f].kids[1]
         \/ \E j \in 2 .. Len(disk[p].kids) : f = disk[p].kids[j]
      /\ ToSet(disk[t].recs) \subseteq ToSet(G.recs)
  BY DEF LosesNothing
<1>2. /\ disk' = [disk EXCEPT ![t] = G, ![p] = Q, ![f] = F]
      /\ height' = height /\ root' = root /\ freed' = freed
  BY DEF Rotated
<1>3. /\ Len(disk') = Len(disk) /\ disk' \in Seq(Node)
      /\ \A q \in 1 .. Len(disk) :
           disk'[q] = IF q = f THEN F ELSE IF q = p THEN Q
                      ELSE IF q = t THEN G ELSE disk[q]
  BY <1>1, <1>2, ThreeElements
<1>4. DOMAIN disk' = DOMAIN disk
  BY <1>1, <1>3, LenProperties
<1>5. /\ disk'[t] = G /\ disk'[p] = Q /\ disk'[f] = F
      /\ \A q \in DOMAIN disk : q \notin {t, p, f} => disk'[q] = disk[q]
  BY <1>1, <1>3
<1>6. Live' = Live
  BY <1>2, <1>4 DEF Live
<1>7. Changes({f, t, p})
  BY <1>4, <1>5, <1>6 DEF Changes
<1>8. ASSUME NEW q \in Live, NEW k \in ToSet(disk[q].kids)
      PROVE  \E o \in Live : k \in ToSet(disk'[o].kids)
  <2>1. CASE q = t \/ q = f
    BY <1>a, <1>5, <1>8, <2>1
  <2>2. CASE q = p
    BY <1>5, <1>8, <2>2
  <2>3. CASE q \notin {t, p, f}
    BY <1>1, <1>5, <1>8, <2>3
  <2>4. QED
    BY <2>1, <2>2, <2>3
<1>9. Rooted'
  BY <1>2, <1>6, <1>8 DEF Rooted
<1>10. ASSUME NEW q \in Live
       PROVE  \/ /\ q \in Live'
                 /\ ~disk[q].leaf => disk'[q].kids[1] = disk[q].kids[1]
              \/ \E o \in Live : \E j \in 2 .. Len(disk[o].kids) :
                   q = disk[o].kids[j]
  <2>1. CASE q = t
    BY <1>a, <1>5, <1>6, <2>1
  <2>2. CASE q = f
    BY <1>a, <1>5, <1>6, <2>2
  <2>3. CASE q = p
    BY <1>5, <1>6, <2>3
  <2>4. CASE q \notin {t, p, f}
    BY <1>1, <1>5, <1>6, <2>4
  <2>5. QED
    BY <2>1, <2>2, <2>3, <2>4
<1>11. \A r \in Page : Leftmost(r) => Leftmost(r)'
  BY <1>2, <1>10, LeftmostKept
<1>12. QED
  BY <1>a, <1>1, <1>4, <1>5, <1>7, <1>9, <1>11 DEF Kept

(* A rotation from the left moves one child. *)
LEMMA BorrowLeftKept ==
  ASSUME Tree, Rooted, NEW p \in Live, ~disk[p].leaf,
         NEW i \in 1 .. Count(disk[p]),
         NEW f, f = disk[p].kids[i], NEW t, t = disk[p].kids[i + 1],
         ~CanSpare(disk[t]), CanSpare(disk[f]),
         Rotated(t, p, f, GainFirst(disk[t], disk[p].recs[i], disk[f]),
                 Replace(disk[p], i, LastRecord(disk[f])), LoseLast(disk[f]))
  PROVE  /\ Kept /\ Changes({f, t, p}) /\ DOMAIN disk' = DOMAIN disk
         /\ f \in DOMAIN disk /\ t \in DOMAIN disk /\ p \in DOMAIN disk
         /\ ToSet(disk[t].recs) \subseteq ToSet(disk'[t].recs)
<1> DEFINE A == disk[t]
           B == disk[f]
           r == disk[p].recs[i]
           G == GainFirst(A, r, B)
           F == LoseLast(B)
           Q == Replace(disk[p], i, LastRecord(B))
<1>S. Rotated(t, p, f, G, Q, F)
  BY SMTT(60)
<1> HIDE DEF G, F, Q
<1>0. Tree'
  BY BorrowLeft
<1>1. /\ t \in Live /\ f \in Live /\ t # p /\ f # p /\ t # f
      /\ A \in Node /\ WellFormed(A) /\ B \in Node /\ WellFormed(B)
      /\ Count(A) \in Nat /\ Count(B) \in Nat /\ Count(A) >= Order - 1
      /\ A.leaf = B.leaf /\ r \in Record
  BY Siblings
<1>2. /\ Order \in Nat /\ Order >= 2 /\ Count(B) >= Order /\ Count(B) > 0
      /\ ~Full(A)
  <2>1. Order \in Nat /\ Order >= 2 /\ ~(Count(A) >= Order) /\ Count(B) >= Order
    BY OrderAssumption DEF CanSpare
  <2>2. Count(A) = Order - 1
    BY <1>1, <2>1
  <2>3. QED
    BY <1>1, <2>1, <2>2, HalfNotFull
<1>3. disk[p] \in Node /\ WellFormed(disk[p])
  BY PageFacts DEF Live
<1> HIDE DEF A, B, r
<1>4. G \in Node /\ F \in Node /\ Q \in Node /\ Q.kids = disk[p].kids
  <2>1. G \in Node
    BY <1>1, <1>2, GainFirstNode DEF G
  <2>2. F \in Node
    BY <1>1, <1>2, LoseLastNode DEF F
  <2>3. LastRecord(B) \in Record
    BY <1>1, <1>2, EndRecords
  <2>4. Q \in Node /\ Q.kids = disk[p].kids
    BY <1>3, <2>3, ReplaceNode DEF Q
  <2>5. QED
    BY <2>1, <2>2, <2>4
<1>5. /\ \A k \in ToSet(A.kids) \cup ToSet(B.kids) :
           k \in ToSet(G.kids) \/ k \in ToSet(F.kids)
      /\ ToSet(A.recs) \subseteq ToSet(G.recs)
  BY <1>1, RotateElements DEF G, F
<1>f. ~B.leaf => F.kids[1] = B.kids[1]
  <2> SUFFICES ASSUME ~B.leaf
               PROVE  F.kids[1] = B.kids[1]
    OBVIOUS
  <2>1. Len(B.kids) = Count(B) + 1
    BY <1>1 DEF WellFormed
  <2>2. Len(F.kids) = Len(B.kids) - 1
    BY <1>1, <1>2, LoseLastNode DEF F
  <2>3. 1 \in 1 .. Len(F.kids)
    BY <1>1, <1>2, <2>1, <2>2
  <2>4. QED
    BY <1>1, <1>2, <2>3, LoseLastNode DEF F
<1>6. \E j \in 2 .. Len(disk[p].kids) : t = disk[p].kids[j]
  <2>1. Len(disk[p].kids) = Count(disk[p]) + 1 /\ i + 1 \in 2 .. Len(disk[p].kids)
    BY <1>3, NodeParts DEF WellFormed
  <2>2. QED
    BY <2>1
<1>7. /\ \A k \in ToSet(disk[t].kids) \cup ToSet(disk[f].kids) :
           k \in ToSet(G.kids) \/ k \in ToSet(F.kids)
      /\ ToSet(disk[t].recs) \subseteq ToSet(G.recs)
      /\ ~disk[f].leaf => F.kids[1] = disk[f].kids[1]
  BY <1>5, <1>f DEF A, B
<1>8. LosesNothing(t, p, f, G, F)
  BY <1>6, <1>7 DEF LosesNothing
<1>9. QED
  BY <1>S, <1>0, <1>1, <1>4, <1>8, RotateKept

(* A rotation from the right moves one child. *)
LEMMA BorrowRightKept ==
  ASSUME Tree, Rooted, NEW p \in Live, ~disk[p].leaf,
         NEW i \in 1 .. Count(disk[p]),
         NEW t, t = disk[p].kids[i], NEW f, f = disk[p].kids[i + 1],
         ~CanSpare(disk[t]), CanSpare(disk[f]),
         Rotated(t, p, f, GainLast(disk[t], disk[p].recs[i], disk[f]),
                 Replace(disk[p], i, FirstRecord(disk[f])), LoseFirst(disk[f]))
  PROVE  /\ Kept /\ Changes({f, t, p}) /\ DOMAIN disk' = DOMAIN disk
         /\ f \in DOMAIN disk /\ t \in DOMAIN disk /\ p \in DOMAIN disk
         /\ ToSet(disk[t].recs) \subseteq ToSet(disk'[t].recs)
<1> DEFINE A == disk[t]
           B == disk[f]
           r == disk[p].recs[i]
           G == GainLast(A, r, B)
           F == LoseFirst(B)
           Q == Replace(disk[p], i, FirstRecord(B))
<1>S. Rotated(t, p, f, G, Q, F)
  BY SMTT(60)
<1> HIDE DEF G, F, Q
<1>0. Tree'
  BY BorrowRight
<1>1. /\ t \in Live /\ f \in Live /\ t # p /\ f # p /\ t # f
      /\ A \in Node /\ WellFormed(A) /\ B \in Node /\ WellFormed(B)
      /\ Count(A) \in Nat /\ Count(B) \in Nat /\ Count(A) >= Order - 1
      /\ A.leaf = B.leaf /\ r \in Record
  BY Siblings
<1>2. /\ Order \in Nat /\ Order >= 2 /\ Count(B) >= Order /\ Count(B) > 0
      /\ ~Full(A)
  <2>1. Order \in Nat /\ Order >= 2 /\ ~(Count(A) >= Order) /\ Count(B) >= Order
    BY OrderAssumption DEF CanSpare
  <2>2. Count(A) = Order - 1
    BY <1>1, <2>1
  <2>3. QED
    BY <1>1, <2>1, <2>2, HalfNotFull
<1>3. disk[p] \in Node /\ WellFormed(disk[p])
  BY PageFacts DEF Live
<1> HIDE DEF A, B, r
<1>4. G \in Node /\ F \in Node /\ Q \in Node /\ Q.kids = disk[p].kids
  <2>1. G \in Node
    BY <1>1, <1>2, GainLastNode DEF G
  <2>2. F \in Node
    BY <1>1, <1>2, LoseFirstNode DEF F
  <2>3. FirstRecord(B) \in Record
    BY <1>1, <1>2, EndRecords
  <2>4. Q \in Node /\ Q.kids = disk[p].kids
    BY <1>3, <2>3, ReplaceNode DEF Q
  <2>5. QED
    BY <2>1, <2>2, <2>4
<1>5. /\ \A k \in ToSet(A.kids) \cup ToSet(B.kids) :
           k \in ToSet(G.kids) \/ k \in ToSet(F.kids)
      /\ ToSet(A.recs) \subseteq ToSet(G.recs)
  BY <1>1, RotateElements DEF G, F
<1>f. ~A.leaf => G.kids[1] = A.kids[1]
  <2> SUFFICES ASSUME ~A.leaf
               PROVE  G.kids[1] = A.kids[1]
    OBVIOUS
  <2>1. Len(A.kids) = Count(A) + 1
    BY <1>1 DEF WellFormed
  <2>2. Len(G.kids) = Len(A.kids) + 1
    BY <1>1, <1>2, GainLastNode DEF G
  <2>3. 1 \in 1 .. Len(G.kids) /\ 1 <= Len(A.kids)
    BY <1>1, <1>2, <2>1, <2>2
  <2>4. QED
    BY <1>1, <1>2, <2>3, GainLastNode DEF G
<1>6. \E j \in 2 .. Len(disk[p].kids) : f = disk[p].kids[j]
  <2>1. Len(disk[p].kids) = Count(disk[p]) + 1 /\ i + 1 \in 2 .. Len(disk[p].kids)
    BY <1>3, NodeParts DEF WellFormed
  <2>2. QED
    BY <2>1
<1>7. /\ \A k \in ToSet(disk[t].kids) \cup ToSet(disk[f].kids) :
           k \in ToSet(G.kids) \/ k \in ToSet(F.kids)
      /\ ToSet(disk[t].recs) \subseteq ToSet(G.recs)
      /\ ~disk[t].leaf => G.kids[1] = disk[t].kids[1]
  BY <1>5, <1>f DEF A, B
<1>8. LosesNothing(t, p, f, G, F)
  BY <1>6, <1>7 DEF LosesNothing
<1>9. QED
  BY <1>S, <1>0, <1>1, <1>4, <1>8, RotateKept

(* The root gives way to its only child. *)
LEMMA ShrinkRootKept ==
  ASSUME Tree, Rooted, NEW k, DeleteShrinksRoot(k)
  PROVE  Kept /\ Changes({}) /\ DOMAIN disk' = DOMAIN disk
<1> DEFINE old == root
           c == Head(disk[old].kids)
           Z == IF Wipe THEN ZeroNode ELSE disk[old]
<1>0. /\ ~disk[old].leaf /\ Count(disk[old]) = 0
      /\ root' = c /\ freed' = freed \cup {old} /\ height' = height
      /\ disk' = [disk EXCEPT ![old] = Z]
  BY DEF DeleteShrinksRoot, Enter
<1>1. Tree'
  BY ShrinkRoot
<1>2. /\ disk \in Seq(Node) /\ DOMAIN disk = 1 .. Len(disk)
      /\ \A q \in Live : q \in DOMAIN disk
      /\ old \in Live /\ disk[old] \in Node /\ WellFormed(disk[old])
  BY PageFacts DEF Tree, TreeTypes
<1>3. disk[old].kids \in Seq(Page) /\ Len(disk[old].kids) = 1
  BY <1>0, <1>2, NodeParts DEF WellFormed
<1>4. c = disk[old].kids[1] /\ ToSet(disk[old].kids) = {c}
  BY <1>3, ElementsOf
<1>5. c \in Live /\ c # old
  <2>1. c \in ToSet(disk[old].kids)
    BY <1>4
  <2>2. QED
    BY <1>2, <2>1, KidsOf
<1> HIDE DEF old, c
<1>6. /\ DOMAIN disk' = DOMAIN disk
      /\ \A q \in DOMAIN disk : q # old => disk'[q] = disk[q]
      /\ ~Wipe => disk' = disk
  BY <1>0, <1>2
<1> HIDE DEF Z
<1>7. Live' = Live \ {old}
  BY <1>0, <1>6 DEF Live
<1>8. Changes({})
  BY <1>6 DEF Changes
<1>9. \A q \in Live' : q \in Live /\ q # old /\ disk'[q] = disk[q]
  BY <1>2, <1>6, <1>7
<1>10. Rooted'
  <2> SUFFICES ASSUME NEW q \in Live', q # c
               PROVE  \E o \in Live' : q \in ToSet(disk'[o].kids)
    BY <1>0 DEF Rooted
  <2>1. q \in Live /\ q # old
    BY <1>7
  <2>2. PICK o \in Live : q \in ToSet(disk[o].kids)
    BY <2>1 DEF Rooted, old
  <2>3. o # old
    BY <1>4, <2>2
  <2>4. QED
    BY <1>7, <1>9, <2>2, <2>3
<1>11. ASSUME NEW x \in Page, Leftmost(x)
       PROVE  Leftmost(x)'
  <2>1. PICK S \in SUBSET Live :
          /\ {old, x} \subseteq S
          /\ \A q \in S \ {old} :
               \E p \in S : ~disk[p].leaf /\ q = disk[p].kids[1]
    BY <1>11 DEF Leftmost, old
  <2>2. x # old /\ disk[x].leaf
    BY <1>0, <1>11 DEF Leftmost
  <2> DEFINE U == (S \ {old}) \cup {c}
  <2>3. U \in SUBSET Live' /\ {root', x} \subseteq U
    BY <1>0, <1>5, <1>7, <2>1, <2>2
  <2>4. disk'[x].leaf
    BY <1>7, <1>9, <2>1, <2>2
  <2>5. ASSUME NEW q \in U \ {root'}
        PROVE  \E p \in U : ~disk'[p].leaf /\ q = disk'[p].kids[1]
    <3>1. q \in S \ {old} /\ q # c
      BY <1>0
    <3>2. PICK p \in S : ~disk[p].leaf /\ q = disk[p].kids[1]
      BY <2>1, <3>1
    <3>3. p # old
      BY <1>4, <3>1, <3>2
    <3>4. p \in U /\ disk'[p] = disk[p]
      BY <1>7, <1>9, <2>1, <3>3
    <3>5. QED
      BY <3>2, <3>4
  <2> HIDE DEF U
  <2>6. QED
    BY <2>3, <2>4, <2>5 DEF Leftmost
<1>12. QED
  BY <1>6, <1>8, <1>10, <1>11 DEF Kept
-----------------------------------------------------------------------------
(* What each step does to the pages: it changes the page of the activation,
   splits a child, merges two, turns a record from one to the other, or
   changes none. *)
Touches(pages) == Kept /\ Changes(pages) /\ DOMAIN disk' = DOMAIN disk

(* A child is split. *)
Splits(c, p) ==
  /\ Kept /\ Changes({c, NewPage, p})
  /\ c \in DOMAIN disk /\ p \in DOMAIN disk /\ c # p
  /\ Len(disk') = Len(disk) + 1
  /\ NewPage \in ToSet(disk'[p].kids)

(* A child takes the records of its neighbour. *)
Merges(a, p) ==
  /\ Touches({a, p})
  /\ a \in DOMAIN disk /\ p \in DOMAIN disk /\ a # p
  /\ ToSet(disk[a].recs) \subseteq ToSet(disk'[a].recs)

(* A record goes over from one child to the other. *)
Rotates(f, t, p) ==
  /\ Touches({f, t, p})
  /\ f \in DOMAIN disk /\ t \in DOMAIN disk /\ p \in DOMAIN disk
  /\ ToSet(disk[t].recs) \subseteq ToSet(disk'[t].recs)

(* Steps that change records only, *)
LEMMA LeafSteps ==
  ASSUME IInv, Rooted, InsertIntoLeaf \/ DeleteFromLeaf
  PROVE  Touches({at})
<1>1. ASSUME InsertIntoLeaf
      PROVE  Touches({at})
  <2>1. PICK i \in 1 .. Count(disk[at]) + 1 :
               disk' = [disk EXCEPT ![at] = WithRecord(@, i, rec)]
    BY <1>1 DEF InsertIntoLeaf
  <2>2. /\ pc = "insert" /\ disk[at].leaf
        /\ height' = height /\ root' = root /\ freed' = freed
    BY <1>1 DEF InsertIntoLeaf
  <2>3. rec \in Record /\ ~Full(disk[at])
    BY <2>2 DEF IInv, CallTypes, Room
  <2> DEFINE n == WithRecord(disk[at], i, rec)
  <2>4. /\ n \in Node /\ WellFormed(n) /\ n.leaf = disk[at].leaf
        /\ n.kids = disk[at].kids /\ Count(n) = Count(disk[at]) + 1
    BY <2>2, <2>3, Here, WithRecordNode
  <2>5. disk' = [disk EXCEPT ![at] = n]
    BY <2>1
  <2> HIDE DEF n
  <2>6. at # root => Count(n) >= Order - 1
    BY <2>4, Here, OrderAssumption
  <2>7. QED
    BY <2>2, <2>4, <2>5, <2>6, Here, RecordsKept DEF Touches
<1>2. ASSUME DeleteFromLeaf
      PROVE  Touches({at})
  <2>1. PICK i \in 1 .. Count(disk[at]) :
               disk' = [disk EXCEPT ![at] = WithoutRecord(@, i)]
    BY <1>2 DEF DeleteFromLeaf
  <2>2. /\ pc = "delete" /\ disk[at].leaf
        /\ height' = height /\ root' = root /\ freed' = freed
    BY <1>2 DEF DeleteFromLeaf
  <2>3. at # root => Count(disk[at]) >= Order
    BY <2>2 DEF IInv, Room, CanSpare
  <2> DEFINE n == WithoutRecord(disk[at], i)
  <2>4. /\ n \in Node /\ WellFormed(n) /\ n.leaf = disk[at].leaf
        /\ n.kids = disk[at].kids /\ Count(n) = Count(disk[at]) - 1
    BY <2>2, Here, WithoutRecordNode
  <2>5. disk' = [disk EXCEPT ![at] = n]
    BY <2>1
  <2> HIDE DEF n
  <2>6. at # root => Count(n) >= Order - 1
    BY <2>3, <2>4, Here, OrderAssumption
  <2>7. QED
    BY <2>2, <2>4, <2>5, <2>6, Here, RecordsKept DEF Touches
<1>3. QED
  BY <1>1, <1>2

(* A record of child j takes the place of record i of the activation. *)
LEMMA ReplacementSteps ==
  ASSUME IInv, Rooted, DeleteByPredecessor \/ DeleteBySuccessor
  PROVE  Touches({at})
<1>1. ~disk[at].leaf /\ height' = height /\ root' = root /\ freed' = freed
  BY DEF DeleteByPredecessor, DeleteBySuccessor
<1>2. ASSUME NEW i \in 1 .. Count(disk[at]), NEW r \in Record,
             disk' = [disk EXCEPT ![at] = Replace(@, i, r)]
      PROVE  Touches({at})
  <2> DEFINE n == Replace(disk[at], i, r)
  <2>1. /\ n \in Node /\ WellFormed(n) /\ n.leaf = disk[at].leaf
        /\ n.kids = disk[at].kids /\ Count(n) = Count(disk[at])
    BY Here, ReplaceNode
  <2>2. disk' = [disk EXCEPT ![at] = n]
    BY <1>2
  <2> HIDE DEF n
  <2>3. at # root => Count(n) >= Order - 1
    BY <2>1, Here
  <2>4. QED
    BY <1>1, <2>1, <2>2, <2>3, Here, RecordsKept DEF Touches
<1>3. ASSUME NEW j \in 1 .. Len(disk[at].kids), CanSpare(disk[disk[at].kids[j]])
      PROVE  /\ LastRecord(disk[disk[at].kids[j]]) \in Record
             /\ FirstRecord(disk[disk[at].kids[j]]) \in Record
  <2> DEFINE q == disk[at].kids[j]
  <2>1. q \in Live
    BY Here, KidFacts
  <2>2. disk[q] \in Node /\ Count(disk[q]) \in Nat
    BY <2>1, Here, PageFacts
  <2>3. Count(disk[q]) > 0
    BY <1>3, <2>2, OrderAssumption DEF CanSpare
  <2>4. QED
    BY <2>2, <2>3, EndRecords
<1>4. ASSUME DeleteByPredecessor
      PROVE  Touches({at})
  <2>1. PICK i \in 1 .. Count(disk[at]) :
          /\ CanSpare(disk[disk[at].kids[i]])
          /\ disk' = [disk EXCEPT
                        ![at] = Replace(@, i, LastRecord(disk[disk[at].kids[i]]))]
    BY <1>4 DEF DeleteByPredecessor
  <2>2. i \in 1 .. Len(disk[at].kids)
    BY <1>1, Here
  <2>3. QED
    BY <1>2, <1>3, <2>1, <2>2
<1>5. ASSUME DeleteBySuccessor
      PROVE  Touches({at})
  <2>1. PICK i \in 1 .. Count(disk[at]) :
          /\ CanSpare(disk[disk[at].kids[i + 1]])
          /\ disk' = [disk EXCEPT
                        ![at] = Replace(@, i,
                                  FirstRecord(disk[disk[at].kids[i + 1]]))]
    BY <1>5 DEF DeleteBySuccessor
  <2>2. i + 1 \in 1 .. Len(disk[at].kids)
    BY <1>1, Here
  <2>3. QED
    BY <1>2, <1>3, <2>1, <2>2
<1>6. QED
  BY <1>4, <1>5

(* splits, *)
LEMMA SplitStep ==
  ASSUME IInv, Rooted, InsertSplitsChild
  PROVE  \E i \in 1 .. Count(disk[at]) + 1 :
           Stops(disk[at], key, i) /\ Splits(disk[at].kids[i], at)
<1>1. /\ pc = "insert" /\ ~disk[at].leaf /\ root' = root /\ freed' = freed
  BY DEF InsertSplitsChild
<1> DEFINE new == NewPage
<1>2. PICK i \in 1 .. Count(disk[at]) + 1 :
        /\ Stops(disk[at], key, i)
        /\ Full(disk[disk[at].kids[i]])
        /\ Split(disk[at].kids[i], at,
                 Adopt(disk[at], i, Median(disk[disk[at].kids[i]]), new))
  BY DEF InsertSplitsChild, NewPage
<1> DEFINE c == disk[at].kids[i]
<1>3. /\ c = disk[at].kids[i] /\ new = NewPage /\ Full(disk[c])
      /\ Split(c, at, Adopt(disk[at], i, Median(disk[c]), new))
      /\ ~Full(disk[at])
  BY <1>1, <1>2 DEF IInv, Room
<1> HIDE DEF c, new
<1>4. /\ Kept /\ Changes({c, new, at})
      /\ c \in DOMAIN disk /\ at \in DOMAIN disk /\ c # at
      /\ Len(disk') = Len(disk) + 1
      /\ new \in ToSet(disk'[at].kids)
  BY <1>1, <1>3, Here, SplitChildKept
<1>5. Splits(c, at)
  BY <1>3, <1>4 DEF Splits
<1>6. QED
  BY <1>2, <1>3, <1>5

(* The children i and i + 1 of the activation merge. *)
LEMMA MergeOfChildren ==
  ASSUME IInv, Rooted, pc = "delete", ~disk[at].leaf,
         NEW i \in 1 .. Count(disk[at]),
         NEW a, a = disk[at].kids[i], NEW b, b = disk[at].kids[i + 1],
         ~CanSpare(disk[a]), ~CanSpare(disk[b]), Merge(at, i, a, b)
  PROVE  Merges(a, at)
<1>1. at # root => CanSpare(disk[at])
  BY DEF IInv, Room
<1>2. /\ Kept /\ Changes({a, at}) /\ DOMAIN disk' = DOMAIN disk
      /\ a \in DOMAIN disk /\ at \in DOMAIN disk
      /\ ToSet(disk[a].recs) \subseteq ToSet(disk'[a].recs)
  BY <1>1, Here, MergeKept
<1>3. i \in 1 .. Len(disk[at].kids)
  BY Here
<1>4. a # at
  BY <1>3, Here, KidFacts
<1>5. QED
  BY <1>2, <1>4 DEF Merges, Touches

(* merges, *)
LEMMA MergeSteps ==
  ASSUME IInv, Rooted
  PROVE  /\ DeleteByMerge =>
              \E i \in 1 .. Count(disk[at]) :
                Stops(disk[at], key, i) /\ Merges(disk[at].kids[i], at)
         /\ DeleteMergesLeft =>
              \E i \in 2 .. Count(disk[at]) + 1 :
                Stops(disk[at], key, i) /\ Merges(disk[at].kids[i - 1], at)
         /\ DeleteMergesRight =>
              Stops(disk[at], key, 1) /\ Merges(disk[at].kids[1], at)
<1>1. ASSUME DeleteByMerge
      PROVE  \E i \in 1 .. Count(disk[at]) :
               Stops(disk[at], key, i) /\ Merges(disk[at].kids[i], at)
  <2>1. PICK i \in 1 .. Count(disk[at]) :
          /\ Stops(disk[at], key, i)
          /\ ~CanSpare(disk[disk[at].kids[i]])
          /\ ~CanSpare(disk[disk[at].kids[i + 1]])
          /\ Merge(at, i, disk[at].kids[i], disk[at].kids[i + 1])
    BY <1>1 DEF DeleteByMerge
  <2>2. pc = "delete" /\ ~disk[at].leaf
    BY <1>1 DEF DeleteByMerge
  <2>3. QED
    BY <2>1, <2>2, MergeOfChildren
<1>2. ASSUME DeleteMergesLeft
      PROVE  \E i \in 2 .. Count(disk[at]) + 1 :
               Stops(disk[at], key, i) /\ Merges(disk[at].kids[i - 1], at)
  <2>1. PICK i \in 2 .. Count(disk[at]) + 1 :
          /\ Below(i)
          /\ ~ChildSpares(i)
          /\ ~LeftSpares(i)
          /\ Merge(at, i - 1, disk[at].kids[i - 1], disk[at].kids[i])
    BY <1>2 DEF DeleteMergesLeft
  <2>2. pc = "delete" /\ ~disk[at].leaf /\ Stops(disk[at], key, i)
    BY <2>1 DEF Below
  <2> DEFINE k == i - 1
  <2>3. k \in 1 .. Count(disk[at]) /\ i = k + 1 /\ i > 1
    BY Here
  <2>4. /\ ~CanSpare(disk[disk[at].kids[k]])
        /\ ~CanSpare(disk[disk[at].kids[k + 1]])
        /\ Merge(at, k, disk[at].kids[k], disk[at].kids[k + 1])
    BY <2>1, <2>3 DEF ChildSpares, LeftSpares
  <2> HIDE DEF k
  <2>5. Merges(disk[at].kids[k], at)
    BY <2>2, <2>3, <2>4, MergeOfChildren
  <2>6. QED
    BY <2>2, <2>5 DEF k
<1>3. ASSUME DeleteMergesRight
      PROVE  Stops(disk[at], key, 1) /\ Merges(disk[at].kids[1], at)
  <2>1. pc = "delete" /\ ~disk[at].leaf /\ Stops(disk[at], key, 1)
    BY <1>3 DEF DeleteMergesRight, Below
  <2> DEFINE k == 1
  <2>2. k \in 1 .. Count(disk[at])
    <3>1. Count(disk[at]) > 0
      BY <2>1, Here, OrderAssumption DEF IInv, Room, CanSpare
    <3>2. QED
      BY <3>1, Here
  <2>3. /\ ~CanSpare(disk[disk[at].kids[k]])
        /\ ~CanSpare(disk[disk[at].kids[k + 1]])
        /\ Merge(at, k, disk[at].kids[k], disk[at].kids[k + 1])
    BY <1>3, <2>2 DEF DeleteMergesRight, ChildSpares, RightSpares
  <2> HIDE DEF k
  <2>4. Merges(disk[at].kids[k], at)
    BY <2>1, <2>2, <2>3, MergeOfChildren
  <2>5. QED
    BY <2>1, <2>4 DEF k
<1>4. QED
  BY <1>1, <1>2, <1>3

(* rotations, *)
LEMMA RotationSteps ==
  ASSUME IInv, Rooted
  PROVE  /\ DeleteBorrowsLeft =>
              \E i \in 2 .. Count(disk[at]) + 1 :
                /\ Stops(disk[at], key, i)
                /\ Rotates(disk[at].kids[i - 1], disk[at].kids[i], at)
         /\ DeleteBorrowsRight =>
              \E i \in 1 .. Count(disk[at]) :
                /\ Stops(disk[at], key, i)
                /\ Rotates(disk[at].kids[i + 1], disk[at].kids[i], at)
<1>1. ASSUME DeleteBorrowsLeft
      PROVE  \E i \in 2 .. Count(disk[at]) + 1 :
               /\ Stops(disk[at], key, i)
               /\ Rotates(disk[at].kids[i - 1], disk[at].kids[i], at)
  <2>1. PICK i \in 1 .. Count(disk[at]) + 1 :
          /\ Below(i)
          /\ ~ChildSpares(i)
          /\ LeftSpares(i)
          /\ disk' = [disk EXCEPT
               ![disk[at].kids[i]] =
                 GainFirst(disk[disk[at].kids[i]], disk[at].recs[i - 1],
                           disk[disk[at].kids[i - 1]]),
               ![at] = Replace(disk[at], i - 1,
                               LastRecord(disk[disk[at].kids[i - 1]])),
               ![disk[at].kids[i - 1]] = LoseLast(disk[disk[at].kids[i - 1]])]
    BY <1>1 DEF DeleteBorrowsLeft
  <2>2. /\ ~disk[at].leaf /\ Stops(disk[at], key, i)
        /\ height' = height /\ root' = root /\ freed' = freed
    BY <1>1, <2>1 DEF DeleteBorrowsLeft, Below
  <2> DEFINE k == i - 1
             t == disk[at].kids[i]
             f == disk[at].kids[k]
  <2>3. k \in 1 .. Count(disk[at]) /\ i = k + 1
    BY <2>1, Here DEF LeftSpares
  <2>4. /\ f = disk[at].kids[k] /\ t = disk[at].kids[k + 1]
        /\ ~CanSpare(disk[t]) /\ CanSpare(disk[f])
    BY <2>1, <2>3 DEF ChildSpares, LeftSpares
  <2>5. Rotated(t, at, f, GainFirst(disk[t], disk[at].recs[k], disk[f]),
                Replace(disk[at], k, LastRecord(disk[f])), LoseLast(disk[f]))
    BY <2>1, <2>2 DEF Rotated
  <2> HIDE DEF k, t, f
  <2>6. /\ Kept /\ Changes({f, t, at}) /\ DOMAIN disk' = DOMAIN disk
        /\ f \in DOMAIN disk /\ t \in DOMAIN disk /\ at \in DOMAIN disk
        /\ ToSet(disk[t].recs) \subseteq ToSet(disk'[t].recs)
    BY ZenonT(60), <2>2, <2>3, <2>4, <2>5, Here, BorrowLeftKept
  <2>7. Rotates(f, t, at)
    BY <2>6 DEF Rotates, Touches
  <2>8. i \in 2 .. Count(disk[at]) + 1
    BY <2>3, Here
  <2>9. QED
    BY <2>2, <2>7, <2>8 DEF k, t, f
<1>2. ASSUME DeleteBorrowsRight
      PROVE  \E i \in 1 .. Count(disk[at]) :
               /\ Stops(disk[at], key, i)
               /\ Rotates(disk[at].kids[i + 1], disk[at].kids[i], at)
  <2>1. PICK i \in 1 .. Count(disk[at]) + 1 :
          /\ Below(i)
          /\ ~ChildSpares(i)
          /\ RightSpares(i)
          /\ disk' = [disk EXCEPT
               ![disk[at].kids[i]] =
                 GainLast(disk[disk[at].kids[i]], disk[at].recs[i],
                          disk[disk[at].kids[i + 1]]),
               ![at] = Replace(disk[at], i,
                               FirstRecord(disk[disk[at].kids[i + 1]])),
               ![disk[at].kids[i + 1]] = LoseFirst(disk[disk[at].kids[i + 1]])]
    BY <1>2 DEF DeleteBorrowsRight
  <2>2. /\ ~disk[at].leaf /\ Stops(disk[at], key, i)
        /\ height' = height /\ root' = root /\ freed' = freed
    BY <1>2, <2>1 DEF DeleteBorrowsRight, Below
  <2> DEFINE t == disk[at].kids[i]
             f == disk[at].kids[i + 1]
  <2>3. i \in 1 .. Count(disk[at])
    BY <2>1, Here DEF RightSpares
  <2>4. /\ f = disk[at].kids[i + 1] /\ t = disk[at].kids[i]
        /\ ~CanSpare(disk[t]) /\ CanSpare(disk[f])
    BY <2>1, <2>3 DEF ChildSpares, RightSpares
  <2>5. Rotated(t, at, f, GainLast(disk[t], disk[at].recs[i], disk[f]),
                Replace(disk[at], i, FirstRecord(disk[f])), LoseFirst(disk[f]))
    BY <2>1, <2>2 DEF Rotated
  <2> HIDE DEF t, f
  <2>6. /\ Kept /\ Changes({f, t, at}) /\ DOMAIN disk' = DOMAIN disk
        /\ f \in DOMAIN disk /\ t \in DOMAIN disk /\ at \in DOMAIN disk
        /\ ToSet(disk[t].recs) \subseteq ToSet(disk'[t].recs)
    BY ZenonT(60), <2>2, <2>3, <2>4, <2>5, Here, BorrowRightKept
  <2>7. Rotates(f, t, at)
    BY <2>6 DEF Rotates, Touches
  <2>8. QED
    BY <2>2, <2>3, <2>7 DEF t, f
<1>3. QED
  BY <1>1, <1>2

(* The calls and activations that change no page. *)
LEMMA OtherSteps ==
  ASSUME IInv, Rooted,
         \/ \E r \in Record : Insert(r)
         \/ SearchCall \/ DeleteCall
         \/ InsertCollides \/ InsertDescends \/ SearchStep
         \/ DeleteMisses \/ DeleteDescends
  PROVE  Touches({})
<1>1. CASE \E k \in Key : DeleteShrinksRoot(k)
  BY <1>1, Here, ShrinkRootKept DEF Touches
<1>2. CASE UNCHANGED tree
  BY <1>2, Here, TreeKept DEF Touches
<1>3. QED
  BY <1>1, <1>2
  DEF Insert, SearchCall, Search, DeleteCall, Delete, DeleteFromEmpty,
      InsertCollides, InsertDescends, SearchStep, SearchFinds, SearchMisses,
      SearchDescends, DeleteMisses, DeleteDescends

(* and so every step keep each page a parent. *)
LEMMA NextKept ==
  ASSUME IInv, Rooted, Next
  PROVE  Kept
<1>1. ASSUME NEW r \in Record, InsertSplitRoot(r)
      PROVE  Kept
  BY <1>1, Here, SplitRootKept
<1>2. CASE InsertSplitsChild
  BY <1>2, SplitStep DEF Splits
<1>3. CASE DeleteByMerge \/ DeleteMergesLeft \/ DeleteMergesRight
  BY <1>3, MergeSteps DEF Merges, Touches
<1>4. CASE DeleteBorrowsLeft \/ DeleteBorrowsRight
  BY <1>4, RotationSteps DEF Rotates, Touches
<1>5. QED
  BY <1>1, <1>2, <1>3, <1>4, LeafSteps, ReplacementSteps, OtherSteps
  DEF Next, InsertCall, Step, InsertStep, DeleteStep, Touches

(* No split, merge, new root or shrunk root loses a page: at every moment of
   every call each page is reached from the root or was given to DeleteNode,
   never both. *)
THEOREM NothingLost ==
  Spec => []NoPageLost
<1>1. Init => Rooted
  <2> SUFFICES ASSUME Init
               PROVE  Rooted
    OBVIOUS
  <2>1. Live \subseteq {1} /\ root = 1
    BY LenProperties DEF Init, Live
  <2>2. QED
    BY <2>1 DEF Rooted
<1>2. Init => IInv
  BY InitInv
<1>3. IInv /\ Rooted /\ [Next]_vars => (IInv /\ Rooted)'
  <2> SUFFICES ASSUME IInv, Rooted, [Next]_vars
               PROVE  IInv' /\ Rooted'
    OBVIOUS
  <2>1. IInv'
    BY NextInv
  <2>2. Kept
    <3>1. CASE Next
      BY <3>1, NextKept
    <3>2. CASE UNCHANGED vars
      <4>1. UNCHANGED tree
        BY <3>2 DEF vars
      <4>2. QED
        BY <4>1, Here, TreeKept
    <3>3. QED
      BY <3>1, <3>2
  <2>3. QED
    BY <2>1, <2>2 DEF Kept
<1>4. IInv /\ Rooted => NoPageLost
  BY NoneLost DEF IInv
<1>5. QED
  BY <1>1, <1>2, <1>3, <1>4, PTL DEF Spec
=============================================================================

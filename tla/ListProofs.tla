------------------------------ MODULE ListProofs ------------------------------
(***************************************************************************)
(* Facts that the proofs about several components need: what the operators *)
(* on sequences do to a list, to its elements one by one and to the set of *)
(* them, and induction as statements about sets.                           *)
(***************************************************************************)
EXTENDS Integers, SequencesExt, SequenceTheorems, WellFoundedInduction, TLAPS

-----------------------------------------------------------------------------
(* The elements, one by one. *)

(* An element more, the ones behind it moved up. *)
LEMMA InsertAtSeq ==
  ASSUME NEW S, NEW s \in Seq(S), NEW i \in 1 .. Len(s) + 1, NEW e \in S
  PROVE  /\ InsertAt(s, i, e) \in Seq(S)
         /\ Len(InsertAt(s, i, e)) = Len(s) + 1
         /\ \A j \in 1 .. Len(s) + 1 :
              InsertAt(s, i, e)[j] = IF j < i THEN s[j]
                                     ELSE IF j = i THEN e ELSE s[j - 1]
<1> DEFINE a == SubSeq(s, 1, i - 1)
           b == SubSeq(s, i, Len(s))
<1>0. Len(s) \in Nat /\ i \in Int
  BY LenProperties
<1>1. /\ a \in Seq(S) /\ Len(a) = i - 1
      /\ \A j \in 1 .. i - 1 : a[j] = s[j]
  <2>1. \A j \in 1 .. i - 1 : s[j] \in S
    BY <1>0, ElementOfSeq
  <2>2. QED
    BY <1>0, <2>1, SubSeqProperties
<1>2. /\ b \in Seq(S) /\ Len(b) = Len(s) - i + 1
      /\ \A j \in 1 .. Len(s) - i + 1 : b[j] = s[i + j - 1]
  <2>1. \A j \in i .. Len(s) : s[j] \in S
    BY <1>0, ElementOfSeq
  <2>2. QED
    BY <1>0, <2>1, SubSeqProperties
<1>3. <<e>> \in Seq(S) /\ Len(<<e>>) = 1 /\ <<e>>[1] = e
  OBVIOUS
<1> HIDE DEF a, b
<1> DEFINE c == a \o <<e>>
           d == c \o b
<1>4. /\ c \in Seq(S) /\ Len(c) = i
      /\ \A j \in 1 .. i : c[j] = IF j < i THEN s[j] ELSE e
  BY <1>0, <1>1, <1>3, ConcatProperties
<1>5. /\ d \in Seq(S)
      /\ Len(d) = Len(c) + Len(b)
      /\ \A j \in 1 .. Len(c) + Len(b) :
           d[j] = IF j <= Len(c) THEN c[j] ELSE b[j - Len(c)]
  <2> HIDE DEF c
  <2>1. c \in Seq(S) /\ b \in Seq(S)
    BY <1>2, <1>4 DEF c
  <2>2. QED
    BY <2>1, ConcatProperties
<1> HIDE DEF c, d
<1>6. ASSUME NEW j \in 1 .. Len(s) + 1
      PROVE  d[j] = IF j < i THEN s[j]
                   ELSE IF j = i THEN e ELSE s[j - 1]
  <2>0. Len(c) = i /\ Len(b) = Len(s) - i + 1
    BY <1>2, <1>4
  <2>1. CASE j <= i
    BY <1>0, <1>4, <1>5, <2>0, <2>1
  <2>2. CASE j > i
    <3>1. j - i \in 1 .. Len(s) - i + 1 /\ i + (j - i) - 1 = j - 1
      BY <1>0, <2>2
    <3>2. b[j - i] = s[j - 1]
      BY <1>2, <3>1
    <3>3. j \in 1 .. Len(c) + Len(b) /\ ~(j <= Len(c))
      BY <1>0, <2>0, <2>2
    <3>4. d[j] = b[j - Len(c)]
      BY <1>5, <3>3
    <3>5. ~(j < i) /\ j # i
      BY <1>0, <2>2
    <3>6. QED
      BY <2>0, <3>2, <3>4, <3>5
  <2>3. QED
    BY <1>0, <2>1, <2>2
<1>7. d = InsertAt(s, i, e)
  BY DEF InsertAt, a, b, c, d
<1>8. QED
  BY <1>0, <1>2, <1>4, <1>5, <1>6, <1>7

(* An element less, the ones behind it moved down. *)
LEMMA RemoveAtSeq ==
  ASSUME NEW S, NEW s \in Seq(S), NEW i \in 1 .. Len(s)
  PROVE  /\ RemoveAt(s, i) \in Seq(S)
         /\ Len(RemoveAt(s, i)) = Len(s) - 1
         /\ \A j \in 1 .. Len(s) - 1 :
              RemoveAt(s, i)[j] = IF j < i THEN s[j] ELSE s[j + 1]
<1> DEFINE a == SubSeq(s, 1, i - 1)
           b == SubSeq(s, i + 1, Len(s))
<1>0. Len(s) \in Nat /\ i \in Int
  BY LenProperties
<1>1. /\ a \in Seq(S) /\ Len(a) = i - 1
      /\ \A j \in 1 .. i - 1 : a[j] = s[j]
  <2>1. \A j \in 1 .. i - 1 : s[j] \in S
    BY <1>0, ElementOfSeq
  <2>2. QED
    BY <1>0, <2>1, SubSeqProperties
<1>2. /\ b \in Seq(S) /\ Len(b) = Len(s) - i
      /\ \A j \in 1 .. Len(s) - i : b[j] = s[i + j]
  <2>1. \A j \in i + 1 .. Len(s) : s[j] \in S
    BY <1>0, ElementOfSeq
  <2>2. QED
    BY <1>0, <2>1, SubSeqProperties
<1> HIDE DEF a, b
<1> DEFINE d == a \o b
<1>3. /\ d \in Seq(S)
      /\ Len(d) = Len(a) + Len(b)
      /\ \A j \in 1 .. Len(a) + Len(b) :
           d[j] = IF j <= Len(a) THEN a[j] ELSE b[j - Len(a)]
  BY <1>1, <1>2, ConcatProperties
<1> HIDE DEF d
<1>4. ASSUME NEW j \in 1 .. Len(s) - 1
      PROVE  d[j] = IF j < i THEN s[j] ELSE s[j + 1]
  <2>1. CASE j < i
    BY <1>0, <1>1, <1>3, <2>1
  <2>2. CASE j >= i
    <3>1. j - (i - 1) \in 1 .. Len(s) - i /\ i + (j - (i - 1)) = j + 1
      BY <1>0, <2>2
    <3>2. b[j - (i - 1)] = s[j + 1]
      BY <1>2, <3>1
    <3>3. QED
      BY <1>0, <1>1, <1>2, <1>3, <2>2, <3>2
  <2>3. QED
    BY <1>0, <2>1, <2>2
<1>5. d = RemoveAt(s, i)
  BY DEF RemoveAt, a, b, d
<1>6. QED
  BY <1>0, <1>1, <1>2, <1>3, <1>4, <1>5

(* A part of a list. *)
LEMMA SubSeqSeq ==
  ASSUME NEW S, NEW s \in Seq(S),
         NEW m \in 1 .. Len(s) + 1, NEW n \in m - 1 .. Len(s)
  PROVE  /\ SubSeq(s, m, n) \in Seq(S)
         /\ Len(SubSeq(s, m, n)) = n - m + 1
         /\ \A j \in 1 .. n - m + 1 : SubSeq(s, m, n)[j] = s[m + j - 1]
<1>1. Len(s) \in Nat /\ m \in Int /\ n \in Int
  BY LenProperties
<1>2. \A j \in m .. n : s[j] \in S
  BY <1>1, ElementOfSeq
<1>3. QED
  BY <1>1, <1>2, SubSeqProperties

(* A list without its last element. *)
LEMMA FrontSeq ==
  ASSUME NEW S, NEW s \in Seq(S), Len(s) > 0
  PROVE  /\ Front(s) \in Seq(S)
         /\ Len(Front(s)) = Len(s) - 1
         /\ \A j \in 1 .. Len(s) - 1 : Front(s)[j] = s[j]
         /\ Last(s) \in S /\ Last(s) = s[Len(s)]
<1> DEFINE f == Front(s)
           n == Len(s) - 1
<1>1. Len(s) \in Nat /\ 1 \in 1 .. Len(s) + 1 /\ n \in 1 - 1 .. Len(s)
  BY LenProperties
<1>2. f = SubSeq(s, 1, n)
  BY DEF Front
<1> HIDE DEF f, n
<1>3. /\ f \in Seq(S) /\ Len(f) = n - 1 + 1
      /\ \A j \in 1 .. n - 1 + 1 : f[j] = s[1 + j - 1]
  BY <1>1, <1>2, SubSeqSeq
<1>4. \A j \in 1 .. Len(s) - 1 : f[j] = s[j]
  BY <1>1, <1>3 DEF n
<1>5. Last(s) \in S /\ Last(s) = s[Len(s)]
  BY <1>1, ElementOfSeq DEF Last
<1>6. QED
  BY <1>1, <1>3, <1>4, <1>5 DEF f, n

(* A list with another first element. *)
LEMMA ConsSeq ==
  ASSUME NEW S, NEW s \in Seq(S), NEW e \in S
  PROVE  /\ <<e>> \o s \in Seq(S)
         /\ Len(<<e>> \o s) = Len(s) + 1
         /\ \A j \in 1 .. Len(s) + 1 :
              (<<e>> \o s)[j] = IF j = 1 THEN e ELSE s[j - 1]
<1>1. <<e>> \in Seq(S) /\ Len(<<e>>) = 1 /\ <<e>>[1] = e /\ Len(s) \in Nat
  BY LenProperties
<1>2. QED
  BY <1>1, ConcatProperties

(* One page of a file rewritten. *)
LEMMA OneElement ==
  ASSUME NEW S, NEW s \in Seq(S), NEW p \in 1 .. Len(s), NEW a \in S
  PROVE  /\ [s EXCEPT ![p] = a] \in Seq(S)
         /\ Len([s EXCEPT ![p] = a]) = Len(s)
         /\ \A x \in 1 .. Len(s) :
              [s EXCEPT ![p] = a][x] = IF x = p THEN a ELSE s[x]
BY ExceptSeq

(* Two pages rewritten, and three. *)
LEMMA TwoElements ==
  ASSUME NEW S, NEW s \in Seq(S), NEW p \in 1 .. Len(s), NEW a \in S,
         NEW q \in 1 .. Len(s), NEW b \in S
  PROVE  /\ [s EXCEPT ![p] = a, ![q] = b] \in Seq(S)
         /\ Len([s EXCEPT ![p] = a, ![q] = b]) = Len(s)
         /\ \A x \in 1 .. Len(s) :
              [s EXCEPT ![p] = a, ![q] = b][x] =
                IF x = q THEN b ELSE IF x = p THEN a ELSE s[x]
<1> DEFINE d == [s EXCEPT ![p] = a]
           e == [d EXCEPT ![q] = b]
<1>1. /\ d \in Seq(S) /\ Len(d) = Len(s)
      /\ \A x \in 1 .. Len(s) : d[x] = IF x = p THEN a ELSE s[x]
  BY OneElement
<1>2. e = [s EXCEPT ![p] = a, ![q] = b]
  OBVIOUS
<1> HIDE DEF d
<1>3. /\ e \in Seq(S) /\ Len(e) = Len(s)
      /\ \A x \in 1 .. Len(s) : e[x] = IF x = q THEN b ELSE d[x]
  BY <1>1, OneElement
<1> HIDE DEF e
<1>4. \A x \in 1 .. Len(s) :
        e[x] = IF x = q THEN b ELSE IF x = p THEN a ELSE s[x]
  BY <1>1, <1>3
<1>5. QED
  BY <1>2, <1>3, <1>4

(* Three of them. *)
LEMMA ThreeElements ==
  ASSUME NEW S, NEW s \in Seq(S), NEW p \in 1 .. Len(s), NEW a \in S,
         NEW q \in 1 .. Len(s), NEW b \in S, NEW r \in 1 .. Len(s), NEW c \in S
  PROVE  /\ [s EXCEPT ![p] = a, ![q] = b, ![r] = c] \in Seq(S)
         /\ Len([s EXCEPT ![p] = a, ![q] = b, ![r] = c]) = Len(s)
         /\ \A x \in 1 .. Len(s) :
              [s EXCEPT ![p] = a, ![q] = b, ![r] = c][x] =
                IF x = r THEN c ELSE IF x = q THEN b
                ELSE IF x = p THEN a ELSE s[x]
<1> DEFINE d == [s EXCEPT ![p] = a, ![q] = b]
           e == [d EXCEPT ![r] = c]
<1>1. /\ d \in Seq(S) /\ Len(d) = Len(s)
      /\ \A x \in 1 .. Len(s) :
           d[x] = IF x = q THEN b ELSE IF x = p THEN a ELSE s[x]
  BY TwoElements
<1>2. e = [s EXCEPT ![p] = a, ![q] = b, ![r] = c]
  OBVIOUS
<1> HIDE DEF d
<1>3. /\ e \in Seq(S) /\ Len(e) = Len(s)
      /\ \A x \in 1 .. Len(s) : e[x] = IF x = r THEN c ELSE d[x]
  BY <1>1, OneElement
<1> HIDE DEF e
<1>4. \A x \in 1 .. Len(s) :
        e[x] = IF x = r THEN c ELSE IF x = q THEN b
               ELSE IF x = p THEN a ELSE s[x]
  BY <1>1, <1>3
<1>5. QED
  BY <1>2, <1>3, <1>4

-----------------------------------------------------------------------------
(* What the sequence operators do to the set of elements. *)

(* The set of elements, by their places. *)
LEMMA ElementsOf ==
  ASSUME NEW S, NEW s \in Seq(S)
  PROVE  ToSet(s) = {s[j] : j \in 1 .. Len(s)} /\ ToSet(s) \subseteq S
BY LenProperties, ElementOfSeq DEF ToSet

(* Insertion adds one element, *)
LEMMA InsertAtSet ==
  ASSUME NEW S, NEW s \in Seq(S), NEW i \in 1 .. Len(s) + 1, NEW e \in S
  PROVE  ToSet(InsertAt(s, i, e)) = ToSet(s) \cup {e}
<1> DEFINE t == InsertAt(s, i, e)
<1>1. /\ t \in Seq(S) /\ Len(t) = Len(s) + 1 /\ Len(s) \in Nat
      /\ \A j \in 1 .. Len(s) + 1 :
           t[j] = IF j < i THEN s[j] ELSE IF j = i THEN e ELSE s[j - 1]
  <2>1. Len(s) \in Nat
    BY LenProperties
  <2>2. t \in Seq(S) /\ Len(t) = Len(s) + 1
    BY InsertAtSeq
  <2>3. \A j \in 1 .. Len(s) + 1 :
          t[j] = IF j < i THEN s[j] ELSE IF j = i THEN e ELSE s[j - 1]
    <3> SUFFICES ASSUME NEW j \in 1 .. Len(s) + 1
                 PROVE  t[j] = IF j < i THEN s[j]
                               ELSE IF j = i THEN e ELSE s[j - 1]
      OBVIOUS
    <3>1. QED
      BY SMTT(60), InsertAtSeq
  <2> HIDE DEF t
  <2>4. QED
    BY <2>1, <2>2, <2>3
<1> HIDE DEF t
<1>2. ASSUME NEW j \in 1 .. Len(s) + 1
      PROVE  t[j] \in ToSet(s) \cup {e}
  <2>1. CASE j < i
    <3>1. j \in 1 .. Len(s) /\ t[j] = s[j]
      BY <1>1, <2>1
    <3>2. QED
      BY <3>1, ElementsOf
  <2>2. CASE j = i
    BY <1>1, <2>2
  <2>3. CASE j > i
    <3>1. j - 1 \in 1 .. Len(s) /\ t[j] = s[j - 1]
      BY <1>1, <2>3
    <3>2. QED
      BY <3>1, ElementsOf
  <2>4. QED
    BY <1>1, <2>1, <2>2, <2>3
<1>3. ASSUME NEW j \in 1 .. Len(s)
      PROVE  \E x \in 1 .. Len(s) + 1 : s[j] = t[x]
  <2>1. CASE j < i
    BY <1>1, <2>1
  <2>2. CASE j >= i
    <3>1. j + 1 \in 1 .. Len(s) + 1 /\ ~(j + 1 < i) /\ j + 1 # i /\ (j + 1) - 1 = j
      BY <1>1, <2>2
    <3>2. t[j + 1] = s[j]
      BY <1>1, <3>1
    <3>3. QED
      BY <3>1, <3>2
  <2>3. QED
    BY <1>1, <2>1, <2>2
<1>4. t[i] = e
  BY <1>1
<1>5. ToSet(t) = {t[j] : j \in 1 .. Len(s) + 1}
  BY <1>1, ElementsOf
<1>6. ToSet(t) = ToSet(s) \cup {e}
  BY <1>2, <1>3, <1>4, <1>5, ElementsOf
<1>7. QED
  BY <1>6 DEF t

(* and removal takes out at most that one. *)
LEMMA RemoveAtSet ==
  ASSUME NEW S, NEW s \in Seq(S), NEW i \in 1 .. Len(s)
  PROVE  ToSet(s) = ToSet(RemoveAt(s, i)) \cup {s[i]}
<1> DEFINE t == RemoveAt(s, i)
<1>1. /\ t \in Seq(S) /\ Len(t) = Len(s) - 1 /\ Len(s) \in Nat
      /\ \A j \in 1 .. Len(s) - 1 : t[j] = IF j < i THEN s[j] ELSE s[j + 1]
  BY RemoveAtSeq, LenProperties
<1> HIDE DEF t
<1>2. ASSUME NEW j \in 1 .. Len(s) - 1
      PROVE  \E x \in 1 .. Len(s) : t[j] = s[x]
  <2>1. j \in 1 .. Len(s) /\ j + 1 \in 1 .. Len(s)
    BY <1>1
  <2>2. QED
    BY <1>1, <2>1
<1>3. ASSUME NEW j \in 1 .. Len(s), j # i
      PROVE  \E x \in 1 .. Len(s) - 1 : s[j] = t[x]
  <2>1. CASE j < i
    BY <1>1, <2>1
  <2>2. CASE j > i
    <3>1. j - 1 \in 1 .. Len(s) - 1 /\ ~(j - 1 < i) /\ (j - 1) + 1 = j
      BY <1>1, <2>2
    <3>2. t[j - 1] = s[j]
      BY <1>1, <3>1
    <3>3. QED
      BY <3>1, <3>2
  <2>3. QED
    BY <1>1, <1>3, <2>1, <2>2
<1>4. ToSet(t) = {t[j] : j \in 1 .. Len(s) - 1}
  BY <1>1, ElementsOf
<1>5. ToSet(s) = {s[j] : j \in 1 .. Len(s)}
  BY ElementsOf
<1>6. ToSet(s) = ToSet(t) \cup {s[i]}
  BY <1>2, <1>3, <1>4, <1>5
<1>7. QED
  BY <1>6 DEF t

(* Two parts that meet have the elements of the whole. *)
LEMMA CutSet ==
  ASSUME NEW S, NEW s \in Seq(S), NEW n \in 0 .. Len(s)
  PROVE  ToSet(s) = ToSet(SubSeq(s, 1, n)) \cup ToSet(SubSeq(s, n + 1, Len(s)))
<1> DEFINE a == SubSeq(s, 1, n)
           b == SubSeq(s, n + 1, Len(s))
<1>0. Len(s) \in Nat
  BY LenProperties
<1>1. /\ a \in Seq(S) /\ Len(a) = n - 1 + 1
      /\ \A j \in 1 .. n - 1 + 1 : a[j] = s[1 + j - 1]
  <2>1. 1 \in 1 .. Len(s) + 1 /\ n \in 1 - 1 .. Len(s)
    BY <1>0
  <2>2. QED
    BY <2>1, SubSeqSeq
<1>2. /\ b \in Seq(S) /\ Len(b) = Len(s) - (n + 1) + 1
      /\ \A j \in 1 .. Len(s) - (n + 1) + 1 : b[j] = s[(n + 1) + j - 1]
  <2>1. n + 1 \in 1 .. Len(s) + 1 /\ Len(s) \in (n + 1) - 1 .. Len(s)
    BY <1>0
  <2>2. QED
    BY <2>1, SubSeqSeq
<1> HIDE DEF a, b
<1>3. Len(a) = n /\ \A j \in 1 .. n : a[j] = s[j]
  BY <1>0, <1>1
<1>4. Len(b) = Len(s) - n /\ \A j \in 1 .. Len(s) - n : b[j] = s[n + j]
  BY <1>0, <1>2
<1>5. ToSet(a) = {a[j] : j \in 1 .. n}
  BY <1>1, <1>3, ElementsOf
<1>6. ToSet(b) = {b[j] : j \in 1 .. Len(s) - n}
  BY <1>2, <1>4, ElementsOf
<1>7. ASSUME NEW j \in 1 .. Len(s)
      PROVE  s[j] \in ToSet(a) \cup ToSet(b)
  <2>1. CASE j <= n
    BY <1>0, <1>3, <1>5, <2>1
  <2>2. CASE j > n
    <3>1. j - n \in 1 .. Len(s) - n /\ n + (j - n) = j
      BY <1>0, <2>2
    <3>2. QED
      BY <1>4, <1>6, <3>1
  <2>3. QED
    BY <1>0, <2>1, <2>2
<1>8. ASSUME NEW j \in 1 .. Len(s) - n
      PROVE  n + j \in 1 .. Len(s)
  BY <1>0
<1>9. \A j \in 1 .. n : j \in 1 .. Len(s)
  BY <1>0
<1>10. ToSet(s) = {s[j] : j \in 1 .. Len(s)}
  BY ElementsOf
<1>11. ToSet(s) = ToSet(a) \cup ToSet(b)
  <2>1. ToSet(s) \subseteq ToSet(a) \cup ToSet(b)
    BY <1>7, <1>10
  <2>2. ToSet(a) \subseteq ToSet(s)
    BY <1>3, <1>5, <1>9, <1>10
  <2>3. ToSet(b) \subseteq ToSet(s)
    BY <1>4, <1>6, <1>8, <1>10
  <2>4. QED
    BY <2>1, <2>2, <2>3
<1>12. QED
  BY <1>11 DEF a, b

(* So have two lists joined. *)
LEMMA ConcatSet ==
  ASSUME NEW S, NEW s \in Seq(S), NEW t \in Seq(S)
  PROVE  ToSet(s \o t) = ToSet(s) \cup ToSet(t)
<1> DEFINE c == s \o t
<1>1. /\ c \in Seq(S) /\ Len(c) = Len(s) + Len(t)
      /\ Len(s) \in Nat /\ Len(t) \in Nat
      /\ \A j \in 1 .. Len(s) + Len(t) :
           c[j] = IF j <= Len(s) THEN s[j] ELSE t[j - Len(s)]
  BY ConcatProperties, LenProperties
<1> HIDE DEF c
<1>2. ASSUME NEW j \in 1 .. Len(s) + Len(t)
      PROVE  c[j] \in ToSet(s) \cup ToSet(t)
  <2>1. CASE j <= Len(s)
    BY <1>1, <2>1, ElementsOf
  <2>2. CASE j > Len(s)
    <3>1. j - Len(s) \in 1 .. Len(t) /\ c[j] = t[j - Len(s)]
      BY <1>1, <2>2
    <3>2. QED
      BY <3>1, ElementsOf
  <2>3. QED
    BY <1>1, <2>1, <2>2
<1>3. \A j \in 1 .. Len(s) : j \in 1 .. Len(s) + Len(t) /\ c[j] = s[j]
  BY <1>1
<1>4. ASSUME NEW j \in 1 .. Len(t)
      PROVE  \E x \in 1 .. Len(s) + Len(t) : t[j] = c[x]
  <2>1. /\ Len(s) + j \in 1 .. Len(s) + Len(t) /\ ~(Len(s) + j <= Len(s))
        /\ (Len(s) + j) - Len(s) = j
    BY <1>1
  <2>2. c[Len(s) + j] = t[j]
    BY <1>1, <2>1
  <2>3. QED
    BY <2>1, <2>2
<1>5. ToSet(c) = {c[j] : j \in 1 .. Len(s) + Len(t)}
  BY <1>1, ElementsOf
<1>6. /\ ToSet(s) = {s[j] : j \in 1 .. Len(s)}
      /\ ToSet(t) = {t[j] : j \in 1 .. Len(t)}
  BY ElementsOf
<1>7. ToSet(c) = ToSet(s) \cup ToSet(t)
  BY <1>2, <1>3, <1>4, <1>5, <1>6
<1>8. QED
  BY <1>7 DEF c

(* One more at the end is one more element. *)
LEMMA AppendSet ==
  ASSUME NEW S, NEW s \in Seq(S), NEW e \in S
  PROVE  ToSet(Append(s, e)) = ToSet(s) \cup {e}
<1> DEFINE t == Append(s, e)
<1>1. /\ t \in Seq(S) /\ Len(t) = Len(s) + 1 /\ Len(s) \in Nat
      /\ \A j \in 1 .. Len(s) : t[j] = s[j]
      /\ t[Len(s) + 1] = e
  BY AppendProperties, LenProperties
<1> HIDE DEF t
<1>2. ToSet(t) = {t[j] : j \in 1 .. Len(s) + 1}
  BY <1>1, ElementsOf
<1>3. \A j \in 1 .. Len(s) + 1 : j \in 1 .. Len(s) \/ j = Len(s) + 1
  BY <1>1
<1>4. \A j \in 1 .. Len(s) : j \in 1 .. Len(s) + 1
  BY <1>1
<1>5. Len(s) + 1 \in 1 .. Len(s) + 1
  BY <1>1
<1>6. ToSet(t) = ToSet(s) \cup {e}
  BY <1>1, <1>2, <1>3, <1>4, <1>5, ElementsOf
<1>7. QED
  BY <1>6 DEF t

(* A sequence without its last element, without its first. *)
LEMMA EndsSet ==
  ASSUME NEW S, NEW s \in Seq(S), Len(s) > 0
  PROVE  /\ ToSet(s) = ToSet(Front(s)) \cup {Last(s)}
         /\ ToSet(s) = ToSet(Tail(s)) \cup {Head(s)}
<1>1. Len(s) \in Nat
  BY LenProperties
<1>2. ToSet(s) = ToSet(Front(s)) \cup {Last(s)}
  <2>1. /\ Front(s) \in Seq(S) /\ Len(Front(s)) = Len(s) - 1
        /\ \A j \in 1 .. Len(s) - 1 : Front(s)[j] = s[j]
        /\ Last(s) = s[Len(s)]
    BY FrontSeq
  <2>2. ToSet(Front(s)) = {Front(s)[j] : j \in 1 .. Len(s) - 1}
    BY <2>1, ElementsOf
  <2>3. \A j \in 1 .. Len(s) : j \in 1 .. Len(s) - 1 \/ j = Len(s)
    BY <1>1
  <2>4. Len(s) \in 1 .. Len(s) /\ \A j \in 1 .. Len(s) - 1 : j \in 1 .. Len(s)
    BY <1>1
  <2>5. ToSet(s) = {s[j] : j \in 1 .. Len(s)}
    BY ElementsOf
  <2>6. QED
    BY <2>1, <2>2, <2>3, <2>4, <2>5
<1>3. ToSet(s) = ToSet(Tail(s)) \cup {Head(s)}
  <2>1. /\ Tail(s) \in Seq(S) /\ Len(Tail(s)) = Len(s) - 1
        /\ \A j \in 1 .. Len(s) - 1 : Tail(s)[j] = s[j + 1]
        /\ Head(s) = s[1]
    BY <1>1, HeadTailProperties
  <2>2. ToSet(Tail(s)) = {Tail(s)[j] : j \in 1 .. Len(s) - 1}
    BY <2>1, ElementsOf
  <2>3. ASSUME NEW j \in 1 .. Len(s)
        PROVE  s[j] = s[1] \/ \E x \in 1 .. Len(s) - 1 : s[j] = Tail(s)[x]
    <3>1. CASE j = 1
      BY <3>1
    <3>2. CASE j # 1
      <4>1. j - 1 \in 1 .. Len(s) - 1 /\ (j - 1) + 1 = j
        BY <1>1, <3>2
      <4>2. QED
        BY <2>1, <4>1
    <3>3. QED
      BY <3>1, <3>2
  <2>4. 1 \in 1 .. Len(s) /\ \A j \in 1 .. Len(s) - 1 : j + 1 \in 1 .. Len(s)
    BY <1>1
  <2>5. ToSet(s) = {s[j] : j \in 1 .. Len(s)}
    BY ElementsOf
  <2>6. QED
    BY <2>1, <2>2, <2>3, <2>4, <2>5
<1>4. QED
  BY <1>2, <1>3

-----------------------------------------------------------------------------
(* Induction in the form that the provers can instantiate: about sets.     *)

(* A set of numbers has a least one. *)
LEMMA LeastElement ==
  ASSUME NEW S \in SUBSET Nat, S # {}
  PROVE  \E x \in S : \A y \in S : x <= y
<1> DEFINE Less == {ss \in Nat \X Nat : ss[1] < ss[2]}
<1>1. IsWellFoundedOn(Less, Nat)
  BY NatLessThanWellFounded DEF OpToRel
<1>2. PICK x \in S : \A y \in S : ~ (<<y, x>> \in Less)
  BY <1>1, WFMin
<1>3. ASSUME NEW y \in S
      PROVE  x <= y
  <2>1. ~ (y < x)
    BY <1>2
  <2>2. QED
    BY <2>1
<1>4. QED
  BY <1>3

(* A set with 0, and with i + 1 if it has i, has all numbers up to n. *)
LEMMA SetInduction ==
  ASSUME NEW n \in Nat, NEW S, 0 \in S,
         \A i \in 0 .. n - 1 : i \in S => i + 1 \in S
  PROVE  0 .. n \subseteq S
<1> SUFFICES ASSUME ~ (0 .. n \subseteq S)
             PROVE  FALSE
  OBVIOUS
<1> DEFINE Rest == {i \in 0 .. n : i \notin S}
<1>1. Rest \in SUBSET Nat /\ Rest # {}
  OBVIOUS
<1>2. PICK x \in Rest : \A y \in Rest : x <= y
  BY <1>1, LeastElement
<1>3. QED
  BY <1>2

(* Finitely many numbers have a bound. *)
LEMMA Bounded ==
  ASSUME NEW s \in Seq(Nat)
  PROVE  \E m \in Nat : \A i \in 1 .. Len(s) : s[i] <= m
<1> DEFINE S == {n \in 0 .. Len(s) : \E m \in Nat : \A i \in 1 .. n : s[i] <= m}
<1>1. 0 \in S
  BY LenProperties
<1>2. ASSUME NEW n \in 0 .. Len(s) - 1, n \in S
      PROVE  n + 1 \in S
  <2>1. PICK m \in Nat : \A i \in 1 .. n : s[i] <= m
    BY <1>2
  <2>2. s[n + 1] \in Nat /\ n + 1 \in 0 .. Len(s)
    BY LenProperties, ElementOfSeq
  <2>3. PICK m2 \in Nat : m2 >= m /\ m2 >= s[n + 1]
    BY <2>2
  <2>4. \A i \in 1 .. n : s[i] \in Nat
    BY LenProperties, ElementOfSeq
  <2>5. \A i \in 1 .. n + 1 : s[i] <= m2
    BY <2>1, <2>2, <2>3, <2>4
  <2>6. QED
    BY <2>2, <2>5
<1>3. Len(s) \in S
  <2>1. Len(s) \in Nat
    BY LenProperties
  <2>2. \A n \in 0 .. Len(s) - 1 : n \in S => n + 1 \in S
    BY <1>2
  <2> HIDE DEF S
  <2>3. 0 .. Len(s) \subseteq S
    BY <1>1, <2>1, <2>2, SetInduction
  <2>4. QED
    BY <2>1, <2>3
<1>4. QED
  BY <1>3

(* The greatest number of a set that has the greatest possible, *)
LEMMA MaxOfPrefix ==
  ASSUME NEW n \in Nat, NEW S \in SUBSET (1 .. n + 1), n + 1 \in S
  PROVE  Max(S) = n + 1
<1>1. \A y \in S : n + 1 >= y
  OBVIOUS
<1>2. \A x \in S : (\A y \in S : x >= y) => x = n + 1
  OBVIOUS
<1>3. QED
  BY <1>1, <1>2 DEF Max

(* and of one that is a part of an interval. *)
LEMMA MaxInside ==
  ASSUME NEW n \in Nat, NEW S \in SUBSET (1 .. n), S # {}
  PROVE  Max(S) \in S /\ S \ {Max(S)} \in SUBSET (1 .. n)
<1> DEFINE B == {i \in 0 .. n : \A y \in S : i >= y}
<1>1. B \in SUBSET Nat /\ n \in B
  OBVIOUS
<1>2. PICK m \in B : \A y \in B : m <= y
  BY <1>1, LeastElement
<1>3. m \in S
  <2>1. SUFFICES ASSUME m \notin S
                 PROVE  FALSE
    OBVIOUS
  <2>2. \A y \in S : y \in 1 .. n /\ y < m
    BY <1>2, <2>1
  <2>3. m - 1 \in B
    <3>1. PICK y \in S : TRUE
      OBVIOUS
    <3>2. m - 1 \in 1 .. n
      BY <1>2, <2>2, <3>1
    <3>3. QED
      BY <2>2, <3>2
  <2>4. QED
    BY <1>2, <2>3
<1>4. Max(S) \in S
  <2>1. \E x \in S : \A y \in S : x >= y
    BY <1>2, <1>3
  <2>2. QED
    BY <2>1 DEF Max
<1>5. QED
  BY <1>4
=============================================================================

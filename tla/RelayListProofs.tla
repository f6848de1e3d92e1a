-------------------------- MODULE RelayListProofs --------------------------
(***************************************************************************)
(* Proofs about RelayList for every value of its constants: list() always *)
(* returns a sequence of (peer, RelayInfo) pairs, and, when no caller     *)
(* passes a NaN score, one ordered by health_score descending.            *)
(*                                                                         *)
(* SortByHealth is a recursive function over the positions of the        *)
(* collected vector.  Its existence, and what each of its values is, are  *)
(* shown by least counterexample: the well-foundedness of < on Nat gives *)
(* a least position where the claim would fail, and the step of           *)
(* insertion_sort_shift_left from the position before it rules that out. *)
(* The step itself rests on what insert_tail does: the new element stops  *)
(* behind the last element it is not less than, everything after it being *)
(* less healthy.                                                           *)
(***************************************************************************)
EXTENDS RelayList, RelayRegistryProofs, SequenceTheorems, FiniteSetTheorems,
        WellFoundedInduction, TLAPS

(* The score of a listed relay. *)
Score(e) == e.info.health_score

(* No listed relay has a NaN score. *)
NoNaN(s) == \A i \in 1..Len(s) : Score(s[i]) # NaN

(* Of two positions, the earlier holds the healthier or an equal relay. *)
SortedDesc(s) ==
    \A i, j \in 1..Len(s) : i < j => Score(s[i]) >= Score(s[j])

-----------------------------------------------------------------------------
(* Order facts.                                                            *)

(* A non-empty set of naturals has a least element. *)
LEMMA LeastExists ==
    ASSUME NEW K \in SUBSET Nat, K # {}
    PROVE  \E x \in K : \A y \in K : x <= y
<1>1. PICK x \in K : \A y \in K : ~(<<y, x>> \in OpToRel(<, Nat))
  BY NatLessThanWellFounded, WFMin
<1>2. \A y \in K : y < x => <<y, x>> \in OpToRel(<, Nat)
  BY DEF OpToRel
<1>3. \A y \in K : ~(y < x)
  BY <1>1, <1>2, Zenon
<1>4. QED
  BY <1>3

(* A non-empty set of positions below a bound has a greatest element. *)
LEMMA GreatestExists ==
    ASSUME NEW m \in Nat, NEW K \in SUBSET (1..m), K # {}
    PROVE  \E x \in K : \A y \in K : y <= x
<1> DEFINE D == {m - i : i \in K}
<1>1. D \in SUBSET Nat /\ D # {}
  <2>1. \A i \in K : m - i \in Nat
    OBVIOUS
  <2>2. PICK i \in K : TRUE
    OBVIOUS
  <2>3. m - i \in D
    OBVIOUS
  <2>4. QED
    BY <2>1, <2>3
<1>2. PICK d \in D : \A e \in D : d <= e
  BY <1>1, LeastExists
<1>3. PICK x \in K : d = m - x
  OBVIOUS
<1>4. \A y \in K : y <= x
  <2> SUFFICES ASSUME NEW y \in K PROVE y <= x
    OBVIOUS
  <2>1. m - y \in D
    OBVIOUS
  <2>2. QED
    BY <1>2, <1>3, <2>1
<1>5. QED
  BY <1>4

-----------------------------------------------------------------------------
(* insert_tail.                                                            *)

(* The shift of insert_tail stops somewhere: at the last element x is not *)
(* less than, or at the front when x is less than all of them.            *)
LEMMA InsertPosSpec ==
    ASSUME NEW s \in Seq(Listed), NEW x \in Listed
    PROVE  LET k == InsertPos(s, x)
           IN  /\ k \in 0..Len(s)
               /\ \A j \in (k + 1)..Len(s) : IsLess(x, s[j])
               /\ k > 0 => ~IsLess(x, s[k])
<1> DEFINE K == {j \in 1..Len(s) : ~IsLess(x, s[j])}
<1>1. Len(s) \in Nat
  OBVIOUS
<1>2. \E k \in 0..Len(s) :
        /\ \A j \in (k + 1)..Len(s) : IsLess(x, s[j])
        /\ k > 0 => ~IsLess(x, s[k])
  <2>1. CASE K = {}
    <3>1. \A j \in 1..Len(s) : IsLess(x, s[j])
      BY <2>1
    <3>2. QED
      BY <1>1, <3>1
  <2>2. CASE K # {}
    <3>1. K \in SUBSET (1..Len(s))
      OBVIOUS
    <3>2. PICK k \in K : \A y \in K : y <= k
      BY <1>1, <2>2, <3>1, GreatestExists
    <3>3. \A j \in (k + 1)..Len(s) : IsLess(x, s[j])
      BY <3>2
    <3>4. QED
      BY <3>2, <3>3
  <2>3. QED
    BY <2>1, <2>2
<1>3. QED
  BY <1>2 DEF InsertPos

(* insert_tail(s, x) keeps the k elements x stays behind, puts x after    *)
(* them and shifts the rest one place right.                              *)
LEMMA InsertTailShape ==
    ASSUME NEW s \in Seq(Listed), NEW x \in Listed
    PROVE  /\ InsertTail(s, x) \in Seq(Listed)
           /\ Len(InsertTail(s, x)) = Len(s) + 1
           /\ \A i \in 1..(Len(s) + 1) :
                InsertTail(s, x)[i] =
                  IF i <= InsertPos(s, x) THEN s[i]
                  ELSE IF i = InsertPos(s, x) + 1 THEN x ELSE s[i - 1]
<1> DEFINE k == InsertPos(s, x)
           A == SubSeq(s, 1, k)
           B == SubSeq(s, k + 1, Len(s))
           AX == A \o <<x>>
<1>1. k \in 0..Len(s)
  BY InsertPosSpec
<1>2. A \in Seq(Listed) /\ Len(A) = k /\ \A i \in 1..k : A[i] = s[i]
  <2>1. \A i \in 1..k : s[i] \in Listed
    BY <1>1
  <2>2. QED
    BY <1>1, <2>1, SubSeqProperties
<1>3. B \in Seq(Listed) /\ Len(B) = Len(s) - k
      /\ \A i \in 1..(Len(s) - k) : B[i] = s[k + i]
  <2>1. \A i \in (k + 1)..Len(s) : s[i] \in Listed
    BY <1>1
  <2>2. QED
    BY <1>1, <2>1, SubSeqProperties
<1>4. AX \in Seq(Listed) /\ Len(AX) = k + 1
      /\ \A i \in 1..(k + 1) : AX[i] = IF i <= k THEN s[i] ELSE x
  <2>1. <<x>> \in Seq(Listed) /\ Len(<<x>>) = 1
    OBVIOUS
  <2>2. QED
    BY <1>1, <1>2, <2>1, ConcatProperties
<1>5. InsertTail(s, x) = AX \o B
  BY DEF InsertTail
<1>6. /\ AX \o B \in Seq(Listed)
      /\ Len(AX \o B) = Len(s) + 1
      /\ \A i \in 1..(Len(s) + 1) :
           (AX \o B)[i] = IF i <= k + 1 THEN AX[i] ELSE B[i - (k + 1)]
  BY <1>1, <1>3, <1>4, ConcatProperties
<1>7. \A i \in 1..(Len(s) + 1) :
        (AX \o B)[i] = IF i <= k THEN s[i] ELSE IF i = k + 1 THEN x ELSE s[i - 1]
  <2> SUFFICES ASSUME NEW i \in 1..(Len(s) + 1)
               PROVE  (AX \o B)[i] = IF i <= k THEN s[i]
                                     ELSE IF i = k + 1 THEN x ELSE s[i - 1]
    OBVIOUS
  <2>1. CASE i <= k + 1
    BY <1>1, <1>4, <1>6, <2>1
  <2>2. CASE i > k + 1
    <3>1. i - (k + 1) \in 1..(Len(s) - k)
      BY <1>1, <2>2
    <3>2. B[i - (k + 1)] = s[k + (i - (k + 1))]
      BY <1>3, <3>1
    <3>3. k + (i - (k + 1)) = i - 1
      BY <1>1
    <3>4. (AX \o B)[i] = B[i - (k + 1)]
      BY <1>6, <2>2
    <3>5. ~(i <= k) /\ i # k + 1
      BY <1>1, <2>2
    <3>6. QED
      BY <3>2, <3>3, <3>4, <3>5
  <2>3. QED
    BY <1>1, <2>1, <2>2
<1>8. QED
  BY <1>5, <1>6, <1>7 DEF k

(* A score that is not NaN is a number of tenths in 0..10. *)
LEMMA ScoreNum ==
    ASSUME NEW e \in Listed, Score(e) # NaN
    PROVE  Score(e) \in 0..10
BY DEF Score, Listed, RelayInfo, Health

(* Between numbers, "x is less" in list's comparator means x is strictly  *)
(* healthier, and "x is not less" that it is at most as healthy.          *)
LEMMA IsLessNum ==
    ASSUME NEW a \in Listed, NEW b \in Listed, Score(a) # NaN, Score(b) # NaN
    PROVE  /\ IsLess(a, b) <=> Score(b) < Score(a)
           /\ ~IsLess(a, b) => Score(b) >= Score(a)
<1>1. Score(a) \in 0..10 /\ Score(b) \in 0..10
  BY ScoreNum
<1>2. QED
  BY <1>1 DEF IsLess, Score

(* Inserting a numeric score into a list sorted by health descending     *)
(* leaves it sorted: what x stays behind is at least as healthy as x, and *)
(* what it was shifted past is less healthy.                               *)
LEMMA InsertTailSorted ==
    ASSUME NEW s \in Seq(Listed), NEW x \in Listed,
           NoNaN(s), Score(x) # NaN, SortedDesc(s)
    PROVE  NoNaN(InsertTail(s, x)) /\ SortedDesc(InsertTail(s, x))
<1> DEFINE k == InsertPos(s, x)
           t == InsertTail(s, x)
           n == Len(s)
<1>1. /\ k \in 0..n
      /\ \A j \in (k + 1)..n : IsLess(x, s[j])
      /\ k > 0 => ~IsLess(x, s[k])
  BY InsertPosSpec
<1>2. /\ t \in Seq(Listed) /\ Len(t) = n + 1
      /\ \A i \in 1..(n + 1) :
           t[i] = IF i <= k THEN s[i] ELSE IF i = k + 1 THEN x ELSE s[i - 1]
  BY InsertTailShape
<1>3. \A i \in 1..n : s[i] \in Listed /\ Score(s[i]) \in 0..10
  BY ScoreNum DEF NoNaN
<1>4. Score(x) \in 0..10
  BY ScoreNum
<1>5. /\ \A i \in 1..k : t[i] = s[i]
      /\ t[k + 1] = x
      /\ \A i \in (k + 2)..(n + 1) : t[i] = s[i - 1]
  BY <1>1, <1>2
<1>6. \A i \in 1..(n + 1) : Score(t[i]) \in 0..10
  <2> SUFFICES ASSUME NEW i \in 1..(n + 1) PROVE Score(t[i]) \in 0..10
    OBVIOUS
  <2>1. CASE i <= k
    BY <1>1, <1>3, <1>5, <2>1
  <2>2. CASE i = k + 1
    BY <1>4, <1>5, <2>2
  <2>3. CASE i > k + 1
    <3>1. i \in (k + 2)..(n + 1) /\ i - 1 \in 1..n
      BY <1>1, <2>3
    <3>2. QED
      BY <1>3, <1>5, <3>1
  <2>4. QED
    BY <1>1, <2>1, <2>2, <2>3
<1>7. NoNaN(t)
  <2>1. \A i \in 1..(n + 1) : Score(t[i]) # NaN
    BY <1>6, RegistryAssumption
  <2>2. QED
    BY <1>2, <2>1 DEF NoNaN
<1>8. \A j \in (k + 1)..n : Score(s[j]) < Score(x)
  <2> SUFFICES ASSUME NEW j \in (k + 1)..n PROVE Score(s[j]) < Score(x)
    OBVIOUS
  <2>1. s[j] \in Listed /\ Score(s[j]) # NaN /\ IsLess(x, s[j])
    BY <1>1, <1>3, RegistryAssumption
  <2>2. QED
    BY <2>1, IsLessNum
<1>9. \A i \in 1..k : Score(s[i]) >= Score(x)
  <2> SUFFICES ASSUME NEW i \in 1..k PROVE Score(s[i]) >= Score(x)
    OBVIOUS
  <2>1. Score(s[k]) >= Score(x)
    <3>1. s[k] \in Listed /\ Score(s[k]) # NaN /\ ~IsLess(x, s[k])
      BY <1>1, <1>3, RegistryAssumption
    <3>2. QED
      BY <3>1, IsLessNum
  <2>2. Score(s[i]) >= Score(s[k])
    BY <1>1, <1>3 DEF SortedDesc
  <2>3. i \in 1..n /\ Score(s[i]) \in 0..10 /\ Score(s[k]) \in 0..10
    BY <1>1, <1>3
  <2>4. QED
    BY <1>4, <2>1, <2>2, <2>3
<1>10. SortedDesc(t)
  <2> SUFFICES ASSUME NEW i \in 1..(n + 1), NEW j \in 1..(n + 1), i < j
               PROVE  Score(t[i]) >= Score(t[j])
    BY <1>2 DEF SortedDesc
  <2>1. CASE j <= k
    <3>1. Score(s[i]) >= Score(s[j])
      BY <1>1, <2>1 DEF SortedDesc
    <3>2. QED
      BY <1>1, <1>5, <2>1, <3>1
  <2>2. CASE i <= k /\ j = k + 1
    BY <1>5, <1>9, <2>2
  <2>3. CASE i <= k /\ j > k + 1
    <3>1. j - 1 \in 1..n /\ i < j - 1 /\ j \in (k + 2)..(n + 1)
      BY <1>1, <2>3
    <3>2. Score(s[i]) >= Score(s[j - 1])
      BY <1>1, <2>3, <3>1 DEF SortedDesc
    <3>3. QED
      BY <1>1, <1>5, <2>3, <3>1, <3>2
  <2>4. CASE i = k + 1
    <3>1. j - 1 \in (k + 1)..n /\ j \in (k + 2)..(n + 1)
      BY <1>1, <2>4
    <3>2. Score(s[j - 1]) < Score(x)
      BY <1>8, <3>1
    <3>3. Score(t[j]) = Score(s[j - 1])
      BY <1>5, <3>1
    <3>4. Score(t[i]) = Score(x)
      BY <1>5, <2>4
    <3>5. Score(s[j - 1]) \in 0..10
      BY <1>1, <1>3, <3>1
    <3>6. QED
      BY <1>4, <3>2, <3>3, <3>4, <3>5
  <2>5. CASE i > k + 1
    <3>1. i - 1 \in 1..n /\ j - 1 \in 1..n /\ i - 1 < j - 1
          /\ i \in (k + 2)..(n + 1) /\ j \in (k + 2)..(n + 1)
      BY <1>1, <2>5
    <3>2. Score(s[i - 1]) >= Score(s[j - 1])
      BY <3>1 DEF SortedDesc
    <3>3. QED
      BY <1>5, <3>1, <3>2
  <2>6. QED
    BY <1>1, <2>1, <2>2, <2>3, <2>4, <2>5
<1>11. QED
  BY <1>7, <1>10

-----------------------------------------------------------------------------
(* insertion_sort_shift_left over the whole vector.                        *)

(* g is the table of sorted prefixes SortByHealth(v) is defined by. *)
SortEq(v, g) ==
    g = [i \in 0..Len(v) |-> IF i = 0 THEN <<>> ELSE InsertTail(g[i - 1], v[i])]

(* g is that table up to prefix n. *)
Partial(v, n, g) ==
    /\ g = [i \in 0..n |-> g[i]]
    /\ g[0] = <<>>
    /\ \A i \in 1..n : g[i] = InsertTail(g[i - 1], v[i])

LEMMA SortByHealthIs ==
    ASSUME NEW v
    PROVE  SortByHealth(v) = (CHOOSE g : SortEq(v, g))[Len(v)]
BY DEF SortByHealth, SortEq

(* The table of sorted prefixes exists: a least prefix length without   *)
(* one is not 0, and the table for the length before it extends by one    *)
(* more insert_tail.                                                       *)
LEMMA SortTableExists ==
    ASSUME NEW v \in Seq(Listed)
    PROVE  \E g : SortEq(v, g)
<1> DEFINE Bad == {n \in 0..Len(v) : ~\E g : Partial(v, n, g)}
<1>1. Bad = {}
  <2> SUFFICES ASSUME Bad # {} PROVE FALSE
    OBVIOUS
  <2>0. Bad \in SUBSET Nat
    BY DEF Bad
  <2>1. PICK n \in Bad : \A m \in Bad : n <= m
    BY <2>0, LeastExists
  <2>2. n # 0
    <3>1. Partial(v, 0, [i \in 0..0 |-> <<>>])
      BY DEF Partial
    <3>2. QED
      BY <2>1, <3>1
  <2>3. n - 1 \in 0..Len(v) /\ n - 1 \notin Bad
    BY <2>1, <2>2
  <2>4. PICK g : Partial(v, n - 1, g)
    BY <2>3
  <2> DEFINE h == [i \in 0..n |-> IF i < n THEN g[i] ELSE InsertTail(g[n - 1], v[n])]
  <2>5. Partial(v, n, h)
    <3>1. h = [i \in 0..n |-> h[i]]
      OBVIOUS
    <3>2. h[0] = <<>>
      BY <2>1, <2>2, <2>4 DEF Partial
    <3>3. \A i \in 1..n : h[i] = InsertTail(h[i - 1], v[i])
      <4> SUFFICES ASSUME NEW i \in 1..n PROVE h[i] = InsertTail(h[i - 1], v[i])
        OBVIOUS
      <4>1. h[i - 1] = g[i - 1]
        BY <2>1
      <4>2. CASE i < n
        <5>1. i \in 1..(n - 1) /\ h[i] = g[i]
          BY <2>1, <4>2 DEF Bad, h
        <5>2. g[i] = InsertTail(g[i - 1], v[i])
          BY <2>4, <5>1 DEF Partial
        <5>3. QED
          BY <4>1, <5>1, <5>2
      <4>3. CASE i = n
        BY <4>1, <4>3
      <4>4. QED
        BY <4>2, <4>3
    <3>4. QED
      BY <3>1, <3>2, <3>3 DEF Partial
  <2>6. QED
    BY <2>1, <2>5
<1>2. PICK g : Partial(v, Len(v), g)
  <2>1. Len(v) \in 0..Len(v)
    OBVIOUS
  <2>2. QED
    BY <1>1, <2>1, Zenon DEF Bad
<1>3. SortEq(v, g)
  <2>1. \A i \in 0..Len(v) :
          g[i] = IF i = 0 THEN <<>> ELSE InsertTail(g[i - 1], v[i])
    BY <1>2 DEF Partial
  <2>2. QED
    BY <1>2, <2>1 DEF Partial, SortEq
<1>4. QED
  BY <1>3

(* A sorted prefix: listed relays, and ordered when v has no NaN score. *)
Good(v, s) == s \in Seq(Listed) /\ (NoNaN(v) => NoNaN(s) /\ SortedDesc(s))

(* Every prefix the sort builds is good: the empty one is, and            *)
(* insert_tail keeps it so.                                                *)
LEMMA SortTableGood ==
    ASSUME NEW v \in Seq(Listed), NEW G, SortEq(v, G)
    PROVE  \A i \in 0..Len(v) : Good(v, G[i])
<1> DEFINE Bad == {i \in 0..Len(v) : ~Good(v, G[i])}
<1> SUFFICES ASSUME Bad # {} PROVE FALSE
  BY Zenon DEF Bad
<1>0. Bad \in SUBSET Nat
  BY DEF Bad
<1>1. PICK n \in Bad : \A m \in Bad : n <= m
  BY <1>0, LeastExists
<1>2. n \in 0..Len(v) /\ ~Good(v, G[n])
  BY <1>1 DEF Bad
<1>3. CASE n = 0
  <2>1. G[n] = <<>>
    BY <1>2, <1>3 DEF SortEq
  <2>2. Good(v, <<>>)
    BY DEF Good, NoNaN, SortedDesc
  <2>3. QED
    BY <1>2, <2>1, <2>2
<1>4. CASE n # 0
  <2>1. n - 1 \in 0..Len(v) /\ n - 1 \notin Bad
    BY <1>1, <1>2, <1>4
  <2>2. Good(v, G[n - 1])
    BY <2>1, Zenon DEF Bad
  <2>3. G[n] = InsertTail(G[n - 1], v[n])
    BY <1>2, <1>4 DEF SortEq
  <2>4. v[n] \in Listed
    BY <1>2, <1>4
  <2>5. G[n] \in Seq(Listed)
    BY <2>2, <2>3, <2>4, InsertTailShape DEF Good
  <2>6. NoNaN(v) => NoNaN(G[n]) /\ SortedDesc(G[n])
    <3> SUFFICES ASSUME NoNaN(v) PROVE NoNaN(G[n]) /\ SortedDesc(G[n])
      OBVIOUS
    <3>1. Score(v[n]) # NaN
      BY <1>2, <1>4 DEF NoNaN
    <3>2. G[n - 1] \in Seq(Listed) /\ NoNaN(G[n - 1]) /\ SortedDesc(G[n - 1])
      BY <2>2 DEF Good
    <3>3. QED
      BY <2>3, <2>4, <3>1, <3>2, InsertTailSorted
  <2>7. QED
    BY <1>2, <2>5, <2>6 DEF Good
<1>5. QED
  BY <1>3, <1>4

(* What list() returns: the collected relays, sorted by health descending *)
(* when none has a NaN score.                                              *)
LEMMA SortByHealthGood ==
    ASSUME NEW v \in Seq(Listed)
    PROVE  Good(v, SortByHealth(v))
<1> DEFINE G == CHOOSE g : SortEq(v, g)
<1>1. SortEq(v, G)
  BY SortTableExists DEF G
<1>2. SortByHealth(v) = G[Len(v)]
  BY SortByHealthIs DEF G
<1>3. QED
  BY <1>1, <1>2, SortTableGood

-----------------------------------------------------------------------------
(* list() over the registry.                                               *)

(* A function on 1..n into S is a sequence over S. *)
LEMMA FcnIsSeq ==
    ASSUME NEW S, NEW n \in Nat, NEW g \in [1..n -> S]
    PROVE  g \in Seq(S)
OBVIOUS

(* The vector list() collects in iteration order o. *)
Collected(o) == [i \in DOMAIN o |-> [peer |-> o[i], info |-> entries[o[i]]]]

(* The collected vector lists the present relays, each with its entry; *)
(* their scores are numbers when every entry's is.                      *)
LEMMA CollectedType ==
    ASSUME TypeOK, NEW o \in IterationOrders
    PROVE  /\ Collected(o) \in Seq(Listed)
           /\ HealthInRange => NoNaN(Collected(o))
<1> DEFINE present == {p \in Peers : entries[p] # None}
           n == Cardinality(present)
<1>1. n \in Nat
  <2>1. IsFiniteSet(present)
    <3>1. present \subseteq Peers
      OBVIOUS
    <3>2. QED
      BY <3>1, RegistryAssumption, FS_Subset
  <2>2. QED
    BY <2>1, FS_CardinalityType
<1>2. o \in [1..n -> present]
  BY DEF IterationOrders
<1>3. \A i \in 1..n : [peer |-> o[i], info |-> entries[o[i]]] \in Listed
  BY <1>2 DEF TypeOK, Listed
<1>4. Collected(o) \in [1..n -> Listed]
  BY <1>2, <1>3 DEF Collected
<1>5. Collected(o) \in Seq(Listed)
  BY <1>1, <1>4, FcnIsSeq
<1>6. HealthInRange => NoNaN(Collected(o))
  <2> SUFFICES ASSUME HealthInRange, NEW i \in 1..Len(Collected(o))
               PROVE  Score(Collected(o)[i]) # NaN
    BY DEF NoNaN
  <2>1. i \in 1..n
    <3>1. DOMAIN Collected(o) = 1..Len(Collected(o))
      BY <1>5, LenProperties
    <3>2. DOMAIN Collected(o) = 1..n
      BY <1>4
    <3>3. QED
      BY <3>1, <3>2
  <2>2. Score(Collected(o)[i]) = entries[o[i]].health_score
    BY <1>2, <2>1 DEF Collected, Score
  <2>3. entries[o[i]].health_score \in 0..10
    BY <1>2, <2>1 DEF HealthInRange
  <2>4. QED
    BY <2>2, <2>3, RegistryAssumption
<1>7. QED
  BY <1>5, <1>6

(* A list() step. *)
LEMMA ListStep ==
    ASSUME List
    PROVE  /\ \E o \in IterationOrders : listed' = SortByHealth(Collected(o))
           /\ UNCHANGED vars
BY DEF List, Collected

LEMMA LInitType == LInit => LTypeOK
<1> SUFFICES ASSUME LInit PROVE LTypeOK
  OBVIOUS
<1>1. TypeOK
  BY InitType DEF LInit
<1>2. listed \in Seq(Listed)
  BY DEF LInit
<1>3. QED
  BY <1>1, <1>2 DEF LTypeOK

LEMMA LNextType == LTypeOK /\ [LNext]_lvars => LTypeOK'
<1> SUFFICES ASSUME LTypeOK, [LNext]_lvars PROVE LTypeOK'
  OBVIOUS
<1>1. CASE Next /\ UNCHANGED listed
  BY <1>1, NextType DEF LTypeOK
<1>2. CASE List
  <2>1. PICK o \in IterationOrders : listed' = SortByHealth(Collected(o))
    BY <1>2, ListStep
  <2>2. Collected(o) \in Seq(Listed)
    BY CollectedType DEF LTypeOK
  <2>3. listed' \in Seq(Listed)
    BY <2>1, <2>2, SortByHealthGood DEF Good
  <2>4. TypeOK'
    BY <1>2, ListStep, NextType DEF LTypeOK
  <2>5. QED
    BY <2>3, <2>4 DEF LTypeOK
<1>3. CASE UNCHANGED lvars
  BY <1>3, NextType DEF LTypeOK, lvars, vars
<1>4. QED
  BY <1>1, <1>2, <1>3 DEF LNext

(* Whatever the registry holds and in whatever order its HashMap yields   *)
(* the entries, list() returns a sequence of (peer id, RelayInfo) pairs:  *)
(* each insert_tail of insertion_sort_shift_left finds where the shift    *)
(* stops, so the sorted vector is well formed.                             *)
THEOREM ListTypeCorrect == LSpec => []LTypeOK
BY LInitType, LNextType, PTL DEF LSpec

-----------------------------------------------------------------------------
(* Sorted by health when no caller passes NaN.                             *)

(* The registry's scores are numbers, and the last list is sorted. *)
SInv ==
    /\ RInv
    /\ HealthInRange
    /\ LTypeOK
    /\ NoNaN(listed)
    /\ SortedDesc(listed)

LEMMA InitSInv == LInit => SInv
<1> SUFFICES ASSUME LInit PROVE SInv
  OBVIOUS
<1>1. RInv /\ LTypeOK
  BY InitRInv, LInitType DEF LInit
<1>2. HealthInRange
  BY DEF LInit, Init, HealthInRange
<1>3. NoNaN(listed) /\ SortedDesc(listed)
  BY DEF LInit, NoNaN, SortedDesc
<1>4. QED
  BY <1>1, <1>2, <1>3 DEF SInv

(* Every registry step keeps the stored scores in range: register inserts *)
(* the clamped score its call holds, and the others only remove entries.   *)
LEMMA NextHealth ==
    ASSUME RInv, HealthInRange, [Next]_vars
    PROVE  HealthInRange'
<1>1. CASE Tick
  BY <1>1 DEF Tick, HealthInRange
<1>2. ASSUME NEW c \in Callers, NEW p \in Peers, NEW h \in Scores,
             RegisterStart(c, p, h)
      PROVE  HealthInRange'
  BY <1>2 DEF RegisterStart, HealthInRange
<1>3. ASSUME NEW c \in Callers, RegisterInsert(c) PROVE HealthInRange'
  <2>1. calls[c] \in Call /\ calls[c].info.health_score \in 0..10
    BY <1>3 DEF RegisterInsert, RInv, TypeOK
  <2>2. QED
    BY <1>3, <2>1 DEF RegisterInsert, HealthInRange, RInv, TypeOK, Call
<1>4. ASSUME NEW now \in 0..clock, NEW a \in MaxAges, PruneStale(now, a)
      PROVE  HealthInRange'
  BY <1>4 DEF PruneStale, HealthInRange
<1>5. ASSUME NEW p \in Peers, Remove(p) PROVE HealthInRange'
  BY <1>5 DEF Remove, HealthInRange, RInv, TypeOK
<1>6. CASE Clear
  BY <1>6 DEF Clear, HealthInRange
<1>7. CASE UNCHANGED vars
  BY <1>7 DEF vars, HealthInRange
<1>8. QED
  BY <1>1, <1>2, <1>3, <1>4, <1>5, <1>6, <1>7 DEF Next

LEMMA NextSInv ==
    ASSUME NaN \notin Scores
    PROVE  SInv /\ [LNext]_lvars => SInv'
<1> SUFFICES ASSUME SInv, [LNext]_lvars PROVE SInv'
  OBVIOUS
<1>1. LTypeOK'
  BY LNextType DEF SInv
<1>2. CASE Next /\ UNCHANGED listed
  <2>1. RInv'
    BY <1>2, NextRInv DEF SInv
  <2>2. HealthInRange'
    BY <1>2, NextHealth DEF SInv
  <2>3. QED
    BY <1>1, <1>2, <2>1, <2>2 DEF SInv
<1>3. CASE List
  <2>1. PICK o \in IterationOrders : listed' = SortByHealth(Collected(o))
    BY <1>3, ListStep
  <2>2. Collected(o) \in Seq(Listed) /\ NoNaN(Collected(o))
    BY CollectedType DEF SInv, LTypeOK
  <2>3. NoNaN(listed') /\ SortedDesc(listed')
    BY <2>1, <2>2, SortByHealthGood DEF Good
  <2>4. RInv' /\ HealthInRange'
    BY <1>3, ListStep DEF SInv, RInv, TypeOK, HealthInRange, vars
  <2>5. QED
    BY <1>1, <2>3, <2>4 DEF SInv
<1>4. CASE UNCHANGED lvars
  BY <1>1, <1>4 DEF SInv, lvars, vars, RInv, TypeOK, HealthInRange, NoNaN,
                    SortedDesc
<1>5. QED
  BY <1>2, <1>3, <1>4 DEF LNext

(* When no register caller passes a NaN score, list() returns the relays  *)
(* ordered by health_score descending, for every registry and every       *)
(* HashMap iteration order: insertion_sort_shift_left's insert_tail       *)
(* stops behind the last relay at least as healthy.  (With a NaN score    *)
(* the comparator is not a total order and the property fails; see the    *)
(* run relay_list_nan.)                                                    *)
THEOREM ListSortedHolds ==
    ASSUME NaN \notin Scores
    PROVE  LSpec => []ListSortedByHealth
<1>1. SInv => ListSortedByHealth
  <2> SUFFICES ASSUME SInv,
                      NEW i \in DOMAIN listed, NEW j \in DOMAIN listed, i < j
               PROVE  listed[i].info.health_score >= listed[j].info.health_score
    BY DEF ListSortedByHealth
  <2>1. DOMAIN listed = 1..Len(listed)
    BY LenProperties DEF SInv, LTypeOK
  <2>2. QED
    BY <2>1 DEF SInv, SortedDesc, Score
<1>2. QED
  BY <1>1, InitSInv, NextSInv, PTL DEF LSpec

=============================================================================

--------------------------- MODULE BootstrapProofs ---------------------------
(***************************************************************************)
(* Proofs about Bootstrap for every value of its constants: both getters  *)
(* always return some node, and they agree on the addresses.              *)
(*                                                                         *)
(* The environment and the embedded file never change, so each getter     *)
(* returns the same value every time it is called: BInv states that what *)
(* each returned last is its tier choice NodesResult or InfoResult.  The  *)
(* properties then follow from facts about the three tiers: the parsed    *)
(* env value is a function on 1..n for a natural n (the number of        *)
(* non-blank fields of a finite string), the file lists records, and the *)
(* two hardcoded literals list the same addresses.  Nothing here depends *)
(* on what the fields contain, so no induction over strings is needed.   *)
(***************************************************************************)
EXTENDS Bootstrap, FiniteSetTheorems, SequenceTheorems, WellFoundedInduction, TLAPS

(* What get_bootstrap_nodes returns for this environment and file. *)
NodesResult ==
    IF EnvApplies THEN ParseEnvNodes(env)
    ELSE IF JsonApplies THEN LoadBootstrapNodesFromJson(json)
    ELSE GetHardcodedBootstrapNodes

(* What get_bootstrap_nodes_with_info returns for them. *)
InfoResult ==
    IF EnvApplies THEN EnvInfo(ParseEnvNodes(env))
    ELSE IF JsonApplies THEN json
    ELSE HardcodedInfo

BInv ==
    /\ env \in EnvValues \cup {Unset}
    /\ json \in JsonFiles \cup {JsonErr}
    /\ nodes # None => nodes = NodesResult
    /\ info # None => info = InfoResult

-----------------------------------------------------------------------------
(* Order facts about sets of string positions.  The parser picks the     *)
(* first and last non-blank position (Trim) and the r-th comma or field   *)
(* (NthSmallest) with CHOOSE; these lemmas show that what it chooses      *)
(* exists, from the well-foundedness of < on Nat.                          *)

(* The elements of K below k. *)
Below(K, k) == {j \in K : j < k}

(* A non-empty set of naturals has a least element. *)
LEMMA MinExists ==
    ASSUME NEW K \in SUBSET Nat, K # {}
    PROVE  \E x \in K : \A y \in K : x <= y
<1>1. PICK x \in K : \A y \in K : ~(<<y, x>> \in OpToRel(<, Nat))
  BY NatLessThanWellFounded, WFMin
<1>2. \A y \in K : y < x => <<y, x>> \in OpToRel(<, Nat)
  BY DEF OpToRel
<1>3. \A y \in K : ~(y < x)
  BY <1>1, <1>2, Zenon
<1>4. QED
  BY <1>3

(* A non-empty set of naturals below a bound has a greatest element. *)
LEMMA MaxExists ==
    ASSUME NEW m \in Nat, NEW K \in SUBSET (0..m), K # {}
    PROVE  \E x \in K : \A y \in K : y <= x
<1> DEFINE D == {m - i : i \in K}
<1>1. D \in SUBSET Nat /\ D # {}
  <2>1. \A i \in K : m - i \in Nat
    OBVIOUS
  <2>2. PICK i \in K : TRUE
    OBVIOUS
  <2>3. m - i \in D
    OBVIOUS
  <2>4. QED
    BY <2>1, <2>3
<1>2. PICK d \in D : \A e \in D : d <= e
  BY <1>1, MinExists
<1>3. PICK x \in K : d = m - x
  OBVIOUS
<1>4. \A y \in K : y <= x
  <2> SUFFICES ASSUME NEW y \in K PROVE y <= x
    OBVIOUS
  <2>1. m - y \in D
    OBVIOUS
  <2>2. QED
    BY <1>2, <1>3, <2>1
<1>5. QED
  BY <1>4

(* Every rank 1..|K| of a set of positions is held by one of them: the    *)
(* least position with at least r - 1 positions below it has exactly      *)
(* r - 1, since otherwise the greatest of those below it would also have  *)
(* at least r - 1.                                                         *)
LEMMA RankExists ==
    ASSUME NEW m \in Nat, NEW K \in SUBSET (1..m), NEW r \in 1..Cardinality(K)
    PROVE  \E k \in K : Cardinality(Below(K, k)) = r - 1
<1>1. IsFiniteSet(K) /\ Cardinality(K) \in Nat
  <2>1. IsFiniteSet(1..m)
    BY FS_Interval
  <2>2. IsFiniteSet(K)
    BY <2>1, FS_Subset
  <2>3. QED
    BY <2>2, FS_CardinalityType
<1>2. \A k \in K : /\ IsFiniteSet(Below(K, k))
                   /\ Cardinality(Below(K, k)) \in Nat
                   /\ Below(K, k) \in SUBSET (0..m)
  <2> SUFFICES ASSUME NEW k \in K
               PROVE  /\ IsFiniteSet(Below(K, k))
                      /\ Cardinality(Below(K, k)) \in Nat
                      /\ Below(K, k) \in SUBSET (0..m)
    OBVIOUS
  <2>1. Below(K, k) \in SUBSET K /\ Below(K, k) \in SUBSET (0..m)
    <3>1. \A j \in Below(K, k) : j \in K /\ j \in 0..m
      BY DEF Below
    <3>2. QED
      BY <3>1, Zenon
  <2>2. IsFiniteSet(Below(K, k))
    BY <1>1, <2>1, FS_Subset
  <2>3. QED
    BY <2>1, <2>2, FS_CardinalityType
<1>3. K # {} /\ K \in SUBSET (0..m)
  BY <1>1, FS_EmptySet
<1>4. PICK mx \in K : \A y \in K : y <= mx
  BY <1>3, MaxExists
<1>5. Cardinality(Below(K, mx)) = Cardinality(K) - 1
  <2>1. Below(K, mx) = K \ {mx}
    <3>1. \A j \in K : (j < mx) <=> (j # mx)
      BY <1>4
    <3>2. QED
      BY <3>1, Zenon DEF Below
  <2>2. QED
    BY <1>1, <2>1, FS_RemoveElement
<1> DEFINE T == {k \in K : Cardinality(Below(K, k)) >= r - 1}
<1>6. T \in SUBSET Nat /\ T # {}
  <2>1. Cardinality(K) - 1 >= r - 1
    BY <1>1
  <2>2. mx \in T
    BY <1>5, <2>1 DEF T
  <2>3. \A t \in T : t \in Nat
    BY DEF T
  <2>4. QED
    BY <2>2, <2>3, Zenon
<1>7. PICK x \in T : \A y \in T : x <= y
  BY <1>6, MinExists
<1>8. Cardinality(Below(K, x)) = r - 1
  <2> SUFFICES ASSUME Cardinality(Below(K, x)) # r - 1 PROVE FALSE
    OBVIOUS
  <2>1. Cardinality(Below(K, x)) >= r /\ Cardinality(Below(K, x)) \in Nat
    BY <1>2, <1>7
  <2>2. Below(K, x) # {}
    BY <2>1, FS_EmptySet
  <2>3. PICK y \in Below(K, x) : \A z \in Below(K, x) : z <= y
    BY <1>2, <2>2, MaxExists
  <2>4. Below(K, y) = Below(K, x) \ {y}
    <3>1. y \in K /\ y < x
      BY DEF Below
    <3>2. \A j \in K : (j < y) <=> (j < x /\ j # y)
      BY <2>3, <3>1 DEF Below
    <3>3. QED
      BY <3>2, Zenon DEF Below
  <2>5. Cardinality(Below(K, y)) = Cardinality(Below(K, x)) - 1
    BY <1>2, <2>3, <2>4, FS_RemoveElement
  <2>6. y \in T /\ y < x
    BY <2>1, <2>3, <2>5 DEF Below
  <2>7. QED
    BY <1>7, <2>6
<1>9. QED
  BY <1>7, <1>8

(* NthSmallest(K, r) is the element of K with r - 1 elements below it. *)
LEMMA NthSmallestIn ==
    ASSUME NEW m \in Nat, NEW K \in SUBSET (1..m), NEW r \in 1..Cardinality(K)
    PROVE  /\ NthSmallest(K, r) \in K
           /\ Cardinality(Below(K, NthSmallest(K, r))) = r - 1
BY RankExists DEF NthSmallest, Below

-----------------------------------------------------------------------------
(* The strings the parser makes.                                           *)

(* A slice of a string within its bounds is a string. *)
LEMMA SubSeqIn ==
    ASSUME NEW S, NEW s \in Seq(S), NEW lo \in Int, NEW hi \in Int,
           lo >= 1, hi <= Len(s)
    PROVE  SubSeq(s, lo, hi) \in Seq(S)
<1>1. \A i \in lo..hi : s[i] \in S
  OBVIOUS
<1>2. QED
  BY <1>1, SubSeqProperties

(* A BOOTSTRAP_NODES value is a string. *)
LEMMA EnvIsStr ==
    ASSUME NEW s \in EnvValues
    PROVE  s \in Str
BY BootstrapAssumption DEF EnvValues, Str

(* str::trim of a string is a string: the first and last non-blank       *)
(* positions it chooses exist whenever there is a non-blank character.   *)
LEMMA TrimType ==
    ASSUME NEW t \in Str
    PROVE  Trim(t) \in Str
<1> DEFINE keep == {i \in DOMAIN t : t[i] # Space}
           first == CHOOSE i \in keep : \A j \in keep : i <= j
           last == CHOOSE i \in keep : \A j \in keep : j <= i
<1>1. Trim(t) = IF keep = {} THEN <<>> ELSE SubSeq(t, first, last)
  BY DEF Trim
<1>0. t \in Seq(Char) /\ Len(t) \in Nat /\ DOMAIN t = 1..Len(t)
  BY DEF Str
<1>2. /\ keep \in SUBSET (0..Len(t)) /\ keep \in SUBSET Nat
      /\ keep \in SUBSET (1..Len(t))
  <2>1. \A i \in keep : i \in 0..Len(t) /\ i \in Nat /\ i \in 1..Len(t)
    BY <1>0 DEF keep
  <2>2. QED
    BY <2>1, Zenon
<1>3. CASE keep = {}
  BY <1>1, <1>3 DEF Str
<1>4. CASE keep # {}
  <2>1. \E i \in keep : \A j \in keep : i <= j
    BY <1>2, <1>4, MinExists
  <2>2. \E i \in keep : \A j \in keep : j <= i
    BY <1>0, <1>2, <1>4, MaxExists
  <2>3. first \in keep /\ last \in keep
    BY <2>1, <2>2 DEF first, last
  <2>4. first \in 1..Len(t) /\ last \in 1..Len(t)
    BY <1>2, <2>3
  <2>5. SubSeq(t, first, last) \in Seq(Char)
    <3>1. first \in Int /\ last \in Int /\ first >= 1 /\ last <= Len(t)
      BY <1>0, <2>4
    <3>2. QED
      BY <1>0, <3>1, SubSeqIn
  <2>6. QED
    BY <1>1, <1>4, <2>5 DEF Str
<1>5. QED
  BY <1>3, <1>4

-----------------------------------------------------------------------------
(* The env tier.                                                           *)

(* A BOOTSTRAP_NODES value is a string on 1..m. *)
LEMMA EnvDomain ==
    ASSUME NEW s \in EnvValues
    PROVE  \E m \in Nat : DOMAIN s = 1..m
BY BootstrapAssumption DEF EnvValues

(* split(',') of a finite string gives a function on 1..n + 1, n the     *)
(* number of commas.                                                        *)
LEMMA SplitDomain ==
    ASSUME NEW s \in EnvValues
    PROVE  \E n \in Nat : DOMAIN SplitComma(s) = 1..(n + 1)
<1>1. PICK m \in Nat : DOMAIN s = 1..m
  BY EnvDomain
<1> DEFINE commas == {i \in DOMAIN s : s[i] = Comma}
<1>2. IsFiniteSet(commas)
  <2>1. IsFiniteSet(1..m) /\ commas \subseteq 1..m
    BY <1>1, FS_Interval
  <2>2. QED
    BY <2>1, FS_Subset
<1>3. Cardinality(commas) \in Nat
  BY <1>2, FS_CardinalityType
<1>4. QED
  BY <1>3 DEF SplitComma

(* The parsed env value is a sequence: a function on 1..n for a natural n. *)
LEMMA ParseIsSeq ==
    ASSUME NEW s \in EnvValues
    PROVE  \E n \in Nat : /\ DOMAIN ParseEnvNodes(s) = 1..n
                          /\ ParseEnvNodes(s) = [r \in 1..n |-> ParseEnvNodes(s)[r]]
<1>1. PICK n \in Nat : DOMAIN SplitComma(s) = 1..(n + 1)
  BY SplitDomain
<1> DEFINE f == [k \in DOMAIN SplitComma(s) |-> Trim(SplitComma(s)[k])]
           kept == {k \in DOMAIN f : f[k] # <<>>}
<1>2. IsFiniteSet(kept)
  <2>1. IsFiniteSet(1..(n + 1)) /\ kept \subseteq 1..(n + 1)
    BY <1>1, FS_Interval
  <2>2. QED
    BY <2>1, FS_Subset
<1>3. Cardinality(kept) \in Nat
  BY <1>2, FS_CardinalityType
<1>4. ParseEnvNodes(s) = [r \in 1..Cardinality(kept) |-> f[NthSmallest(kept, r)]]
  BY DEF ParseEnvNodes
<1>5. QED
  BY <1>3, <1>4

(* A function on 1..n is a sequence of length n. *)
LEMMA LenOfFcn ==
    ASSUME NEW n \in Nat, NEW g, g = [r \in 1..n |-> g[r]]
    PROVE  Len(g) = n /\ (g # <<>> => n > 0)
OBVIOUS

(* A function on 1..n into S is a sequence over S. *)
LEMMA FcnIsSeq ==
    ASSUME NEW S, NEW n \in Nat, NEW g \in [1..n -> S]
    PROVE  g \in Seq(S)
OBVIOUS

(* Every field of split(',') is a string: each cut lies between 0 and    *)
(* one past the end, the inner ones being comma positions.                 *)
LEMMA SplitType ==
    ASSUME NEW s \in EnvValues
    PROVE  \A k \in DOMAIN SplitComma(s) : SplitComma(s)[k] \in Str
<1> DEFINE commas == {i \in DOMAIN s : s[i] = Comma}
           n == Cardinality(commas)
           cut(k) == IF k = 0 THEN 0
                     ELSE IF k = n + 1 THEN Len(s) + 1
                     ELSE NthSmallest(commas, k)
<1>0. s \in Seq(Char) /\ Len(s) \in Nat /\ DOMAIN s = 1..Len(s)
  BY EnvIsStr DEF Str
<1>1. commas \in SUBSET (1..Len(s)) /\ n \in Nat
  <2>1. \A i \in commas : i \in 1..Len(s)
    BY <1>0 DEF commas
  <2>2. commas \in SUBSET (1..Len(s))
    BY <2>1, Zenon
  <2>3. IsFiniteSet(commas)
    <3>1. IsFiniteSet(1..Len(s))
      BY <1>0, FS_Interval
    <3>2. QED
      BY <2>2, <3>1, FS_Subset
  <2>4. QED
    BY <2>2, <2>3, FS_CardinalityType DEF n
<1>2. SplitComma(s) = [k \in 1..(n + 1) |-> SubSeq(s, cut(k - 1) + 1, cut(k) - 1)]
  BY DEF SplitComma, commas, n, cut
<1>3. \A j \in 0..(n + 1) : cut(j) \in 0..(Len(s) + 1)
  <2> SUFFICES ASSUME NEW j \in 0..(n + 1) PROVE cut(j) \in 0..(Len(s) + 1)
    OBVIOUS
  <2>1. CASE j = 0 \/ j = n + 1
    BY <1>0, <1>1, <2>1 DEF cut
  <2>2. CASE j \in 1..n
    <3>1. NthSmallest(commas, j) \in commas
      BY <1>0, <1>1, <2>2, NthSmallestIn DEF n
    <3>2. QED
      BY <1>1, <2>2, <3>1 DEF cut
  <2>3. QED
    BY <1>1, <2>1, <2>2
<1>4. ASSUME NEW k \in 1..(n + 1)
      PROVE  SubSeq(s, cut(k - 1) + 1, cut(k) - 1) \in Str
  <2>1. cut(k - 1) \in 0..(Len(s) + 1) /\ cut(k) \in 0..(Len(s) + 1)
    BY <1>1, <1>3
  <2>2. cut(k - 1) + 1 >= 1 /\ cut(k) - 1 <= Len(s)
    BY <1>0, <2>1
  <2>3. SubSeq(s, cut(k - 1) + 1, cut(k) - 1) \in Seq(Char)
    <3>1. cut(k - 1) + 1 \in Int /\ cut(k) - 1 \in Int
      BY <2>1
    <3>2. QED
      BY <1>0, <2>2, <3>1, SubSeqIn
  <2>4. QED
    BY <2>3 DEF Str
<1>5. QED
  BY <1>2, <1>4

(* The parsed env value is a sequence of strings: the trimmed fields at  *)
(* the kept positions, each chosen position existing.                     *)
LEMMA ParseType ==
    ASSUME NEW s \in EnvValues
    PROVE  ParseEnvNodes(s) \in Seq(Str)
<1>1. PICK n \in Nat : DOMAIN SplitComma(s) = 1..(n + 1)
  BY SplitDomain
<1> DEFINE f == [k \in DOMAIN SplitComma(s) |-> Trim(SplitComma(s)[k])]
           kept == {k \in DOMAIN f : f[k] # <<>>}
<1>2. \A k \in DOMAIN f : f[k] \in Str
  BY SplitType, TrimType DEF f
<1>3. kept \in SUBSET (1..(n + 1)) /\ Cardinality(kept) \in Nat
  <2>1. \A k \in kept : k \in 1..(n + 1)
    BY <1>1 DEF kept, f
  <2>2. kept \in SUBSET (1..(n + 1))
    BY <2>1, Zenon
  <2>3. IsFiniteSet(kept)
    <3>1. IsFiniteSet(1..(n + 1))
      BY FS_Interval
    <3>2. QED
      BY <2>2, <3>1, FS_Subset
  <2>4. QED
    BY <2>2, <2>3, FS_CardinalityType
<1>4. \A r \in 1..Cardinality(kept) : f[NthSmallest(kept, r)] \in Str
  <2> SUFFICES ASSUME NEW r \in 1..Cardinality(kept)
               PROVE  f[NthSmallest(kept, r)] \in Str
    OBVIOUS
  <2>1. NthSmallest(kept, r) \in kept
    <3>1. n + 1 \in Nat
      OBVIOUS
    <3>2. QED
      BY <1>3, <3>1, NthSmallestIn
  <2>2. QED
    BY <1>2, <2>1 DEF kept
<1>5. ParseEnvNodes(s) = [r \in 1..Cardinality(kept) |-> f[NthSmallest(kept, r)]]
  BY DEF ParseEnvNodes
<1>6. [r \in 1..Cardinality(kept) |-> f[NthSmallest(kept, r)]] \in Seq(Str)
  <2>1. [r \in 1..Cardinality(kept) |-> f[NthSmallest(kept, r)]]
          \in [1..Cardinality(kept) -> Str]
    BY <1>4
  <2>2. QED
    BY <1>3, <2>1, FcnIsSeq
<1>7. QED
  BY <1>5, <1>6

-----------------------------------------------------------------------------
(* The three tiers.                                                        *)

(* Whichever tier applies, both getters return a non-empty list, and the *)
(* addresses of the first are the multiaddrs of the second.               *)
LEMMA TiersAgree ==
    ASSUME env \in EnvValues \cup {Unset}, json \in JsonFiles \cup {JsonErr}
    PROVE  /\ NodesResult = [i \in DOMAIN InfoResult |-> InfoResult[i].multiaddr]
           /\ Len(NodesResult) > 0
           /\ Len(InfoResult) > 0
<1> USE BootstrapAssumption
<1>1. CASE EnvApplies
  <2> DEFINE P == ParseEnvNodes(env)
  <2>1. env \in EnvValues /\ P # <<>>
    BY <1>1 DEF EnvApplies
  <2>2. PICK n \in Nat : DOMAIN P = 1..n /\ P = [r \in 1..n |-> P[r]]
    BY <2>1, ParseIsSeq
  <2>3. NodesResult = P /\ InfoResult = EnvInfo(P)
    BY <1>1 DEF NodesResult, InfoResult
  <2>4. EnvInfo(P) = [i \in 1..n |-> [alias |-> <<"bootstrap", i>>, multiaddr |-> P[i]]]
    BY <2>2 DEF EnvInfo
  <2>5. Len(P) = n /\ n > 0
    BY <2>1, <2>2, LenOfFcn
  <2>6. Len(EnvInfo(P)) = n
    BY <2>4, LenOfFcn
  <2>7. /\ DOMAIN EnvInfo(P) = 1..n
        /\ \A i \in 1..n : EnvInfo(P)[i].multiaddr = P[i]
    BY <2>4
  <2>9. [i \in DOMAIN EnvInfo(P) |-> EnvInfo(P)[i].multiaddr] = P
    BY <2>2, <2>7, Zenon
  <2>8. QED
    BY <2>3, <2>5, <2>6, <2>9
<1>2. CASE ~EnvApplies /\ JsonApplies
  <2>1. json \in Seq([alias : Str, multiaddr : Str]) /\ json # <<>>
    BY <1>2 DEF JsonApplies
  <2>2. NodesResult = LoadBootstrapNodesFromJson(json) /\ InfoResult = json
    BY <1>2 DEF NodesResult, InfoResult
  <2>3. Len(LoadBootstrapNodesFromJson(json)) = Len(json) /\ Len(json) > 0
    BY <2>1 DEF LoadBootstrapNodesFromJson
  <2>4. QED
    BY <2>2, <2>3 DEF LoadBootstrapNodesFromJson
<1>3. CASE ~EnvApplies /\ ~JsonApplies
  <2>1. NodesResult = HardcodedAddrs /\ InfoResult = HardcodedInfo
    BY <1>3 DEF NodesResult, InfoResult, GetHardcodedBootstrapNodes
  <2>2. DOMAIN HardcodedAddrs = 1..3 /\ DOMAIN HardcodedInfo = 1..3
    OBVIOUS
  <2>3. HardcodedAddrs = [i \in 1..3 |-> HardcodedAddrs[i]]
    BY <2>2
  <2>4. [i \in DOMAIN HardcodedInfo |-> HardcodedInfo[i].multiaddr] = HardcodedAddrs
    BY <2>2, <2>3
  <2>5. Len(HardcodedAddrs) > 0 /\ Len(HardcodedInfo) > 0
    OBVIOUS
  <2>6. QED
    BY <2>1, <2>4, <2>5, Zenon
<1>4. QED
  BY <1>1, <1>2, <1>3

(* The records get_bootstrap_nodes_with_info may return: an alias from   *)
(* the file or the literals, or one numbered from 1 by the env tier.      *)
InfoRec == [alias : Str \cup ({"bootstrap"} \X (Nat \ {0})), multiaddr : Str]

(* Whichever tier applies, get_bootstrap_nodes returns a list of strings  *)
(* and get_bootstrap_nodes_with_info a list of records.                     *)
LEMMA TiersType ==
    ASSUME env \in EnvValues \cup {Unset}, json \in JsonFiles \cup {JsonErr}
    PROVE  NodesResult \in Seq(Str) /\ InfoResult \in Seq(InfoRec)
<1> USE BootstrapAssumption
<1>0. [alias : Str, multiaddr : Str] \subseteq InfoRec
  BY DEF InfoRec
<1>1. CASE EnvApplies
  <2> DEFINE P == ParseEnvNodes(env)
  <2>1. P \in Seq(Str)
    BY <1>1, ParseType DEF EnvApplies
  <2>2. NodesResult = P /\ InfoResult = EnvInfo(P)
    BY <1>1 DEF NodesResult, InfoResult
  <2>3. EnvInfo(P) = [i \in 1..Len(P) |->
                       [alias |-> <<"bootstrap", i>>, multiaddr |-> P[i]]]
    BY <2>1 DEF EnvInfo
  <2>4. \A i \in 1..Len(P) :
          [alias |-> <<"bootstrap", i>>, multiaddr |-> P[i]] \in InfoRec
    <3> SUFFICES ASSUME NEW i \in 1..Len(P)
                 PROVE  [alias |-> <<"bootstrap", i>>, multiaddr |-> P[i]] \in InfoRec
      OBVIOUS
    <3>1. P[i] \in Str
      BY <2>1, ElementOfSeq
    <3>2. <<"bootstrap", i>> \in {"bootstrap"} \X (Nat \ {0})
      BY <2>1
    <3>3. QED
      BY <3>1, <3>2 DEF InfoRec
  <2>5. EnvInfo(P) \in Seq(InfoRec)
    <3>1. Len(P) \in Nat
      BY <2>1, LenProperties
    <3>2. EnvInfo(P) \in [1..Len(P) -> InfoRec]
      BY <2>3, <2>4
    <3>3. QED
      BY <3>1, <3>2, FcnIsSeq
  <2>6. QED
    BY <2>1, <2>2, <2>5
<1>2. CASE ~EnvApplies /\ JsonApplies
  <2>1. json \in Seq([alias : Str, multiaddr : Str])
    BY <1>2 DEF JsonApplies
  <2>2. NodesResult = LoadBootstrapNodesFromJson(json) /\ InfoResult = json
    BY <1>2 DEF NodesResult, InfoResult
  <2>3. LoadBootstrapNodesFromJson(json)
          = [i \in 1..Len(json) |-> json[i].multiaddr]
    BY <2>1 DEF LoadBootstrapNodesFromJson
  <2>4. \A i \in 1..Len(json) : json[i].multiaddr \in Str
    <3> SUFFICES ASSUME NEW i \in 1..Len(json) PROVE json[i].multiaddr \in Str
      OBVIOUS
    <3>1. json[i] \in [alias : Str, multiaddr : Str]
      BY <2>1, ElementOfSeq
    <3>2. QED
      BY <3>1
  <2>5. LoadBootstrapNodesFromJson(json) \in Seq(Str)
    <3>1. Len(json) \in Nat
      BY <2>1, LenProperties
    <3>2. [i \in 1..Len(json) |-> json[i].multiaddr] \in [1..Len(json) -> Str]
      BY <2>4
    <3>3. QED
      BY <2>3, <3>1, <3>2, FcnIsSeq
  <2>6. json \in Seq(InfoRec)
    BY <1>0, <2>1, SeqMonotonic
  <2>7. QED
    BY <2>2, <2>5, <2>6
<1>3. CASE ~EnvApplies /\ ~JsonApplies
  <2>1. NodesResult = HardcodedAddrs /\ InfoResult = HardcodedInfo
    BY <1>3 DEF NodesResult, InfoResult, GetHardcodedBootstrapNodes
  <2>2. HardcodedInfo \in Seq(InfoRec)
    BY <1>0, SeqMonotonic
  <2>3. QED
    BY <2>1, <2>2
<1>4. QED
  BY <1>1, <1>2, <1>3

-----------------------------------------------------------------------------
(* The inductive invariant.                                                *)

LEMMA InitBInv == Init => BInv
BY DEF Init, BInv

LEMMA NextBInv == BInv /\ [Next]_vars => BInv'
<1> SUFFICES ASSUME BInv, [Next]_vars PROVE BInv'
  OBVIOUS
<1>1. CASE GetBootstrapNodes
  <2>1. NodesResult' = NodesResult /\ InfoResult' = InfoResult
    BY <1>1 DEF GetBootstrapNodes, NodesResult, InfoResult, EnvApplies, JsonApplies
  <2>2. QED
    BY <1>1, <2>1 DEF GetBootstrapNodes, BInv, NodesResult
<1>2. CASE GetBootstrapNodesWithInfo
  <2>1. NodesResult' = NodesResult /\ InfoResult' = InfoResult
    BY <1>2 DEF GetBootstrapNodesWithInfo, NodesResult, InfoResult, EnvApplies,
                JsonApplies
  <2>2. QED
    BY <1>2, <2>1 DEF GetBootstrapNodesWithInfo, BInv, InfoResult
<1>3. CASE UNCHANGED vars
  BY <1>3 DEF vars, BInv, NodesResult, InfoResult, EnvApplies, JsonApplies
<1>4. QED
  BY <1>1, <1>2, <1>3 DEF Next

-----------------------------------------------------------------------------
(* The properties.                                                         *)

(* Whatever BOOTSTRAP_NODES holds and whatever the packaged               *)
(* bootstrap_nodes.json parses to, get_bootstrap_nodes and                *)
(* get_bootstrap_nodes_with_info never return an empty list: a blank or   *)
(* comma-only env value and an empty or broken file fall through to the  *)
(* hardcoded nodes.                                                         *)
THEOREM NeverEmptyHolds == Spec => []NeverEmpty
<1>1. BInv => NeverEmpty
  BY TiersAgree DEF BInv, NeverEmpty
<1>2. QED
  BY <1>1, InitBInv, NextBInv, PTL DEF Spec

(* For every environment and packaged file, the addresses                 *)
(* get_bootstrap_nodes returns are the multiaddrs of the records          *)
(* get_bootstrap_nodes_with_info returns, in the same order: the two      *)
(* functions choose the same tier, and their hardcoded literals agree.     *)
THEOREM GettersAgreeHolds == Spec => []GettersAgree
<1>1. BInv => GettersAgree
  BY TiersAgree DEF BInv, GettersAgree
<1>2. QED
  BY <1>1, InitBInv, NextBInv, PTL DEF Spec

(* Every value the resolver holds has its type, for every environment and *)
(* packaged file: get_bootstrap_nodes returns strings (the trimmed fields   *)
(* of BOOTSTRAP_NODES, the file's multiaddrs or the literals), and         *)
(* get_bootstrap_nodes_with_info records whose alias is a string or the    *)
(* 1-based "bootstrap-{i+1}" number; the parser's CHOOSEs of the r-th     *)
(* comma, field and the first and last non-blank character all exist.     *)
THEOREM BootstrapTypeCorrect == Spec => []TypeOK
<1>1. BInv => TypeOK
  <2> SUFFICES ASSUME BInv PROVE TypeOK
    OBVIOUS
  <2>1. NodesResult \in Seq(Str) /\ InfoResult \in Seq(InfoRec)
    BY TiersType DEF BInv
  <2>2. QED
    BY <2>1 DEF BInv, TypeOK, InfoRec
<1>2. QED
  BY <1>1, InitBInv, NextBInv, PTL DEF Spec

=============================================================================

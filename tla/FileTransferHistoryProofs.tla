---------------------- MODULE FileTransferHistoryProofs ----------------------
(***************************************************************************)
(* Proofs about the attempt history of the transfer service: the window    *)
(* DownloadMetrics keeps in recent_attempts (RecentIsNewestWindow) and the  *)
(* attempts each download reports (AttemptHistoryWellFormed).              *)
(*                                                                         *)
(* Both properties read the log of sent events through SnapsAt, which      *)
(* takes the snapshots at a set of positions in increasing order using     *)
(* NthSmallest.  NthSmallest(P, r) is a CHOOSE: it names the element of P  *)
(* with r - 1 smaller ones only when such an element exists.  That it      *)
(* exists for every r is a fact about every finite set of naturals that    *)
(* takes induction to prove; here it is carried as part of the inductive   *)
(* invariant instead (RankedLog): it holds of the empty log, and appending *)
(* one position above all others keeps it (RankedExtend).                  *)
(***************************************************************************)
EXTENDS FileTransferOrderProofs, FiniteSetTheorems, TLAPS

(* The elements of K below k. *)
Below(K, k) == {j \in K : j < k}

(* Every rank 1..|K| is held by some element of K. *)
Ranked(K) == \A r \in 1..Cardinality(K) : \E k \in K : Cardinality(Below(K, k)) = r - 1

-----------------------------------------------------------------------------
(* Ranks of finite sets of naturals.                                       *)

(* A set of positions within a log is finite. *)
LEMMA PositionsFinite ==
    ASSUME NEW n \in Nat, NEW K \in SUBSET (1..n)
    PROVE  IsFiniteSet(K) /\ Cardinality(K) \in Nat
<1>1. IsFiniteSet(1..n)
  BY FS_Interval
<1>2. IsFiniteSet(K)
  BY <1>1, FS_Subset
<1>3. QED
  BY <1>2, FS_CardinalityType

(* An element has fewer smaller elements than any element above it. *)
LEMMA RankMonotone ==
    ASSUME NEW K \in SUBSET Nat, IsFiniteSet(K), NEW x \in K, NEW y \in K, x < y
    PROVE  /\ Cardinality(Below(K, x)) \in Nat
           /\ Cardinality(Below(K, y)) \in Nat
           /\ Cardinality(Below(K, x)) < Cardinality(Below(K, y))
<1>1. Below(K, y) \subseteq K
  BY DEF Below
<1>2. IsFiniteSet(Below(K, y)) /\ Cardinality(Below(K, y)) \in Nat
  BY <1>1, FS_Subset, FS_CardinalityType
<1>3. Below(K, x) \subseteq Below(K, y)
  <2> SUFFICES ASSUME NEW j \in K, j < x PROVE j < y
    BY DEF Below
  <2> QED
    OBVIOUS
<1>4. Cardinality(Below(K, x)) \in Nat
  BY <1>2, <1>3, FS_Subset, FS_CardinalityType
<1>5. Cardinality(Below(K, x)) <= Cardinality(Below(K, y))
  BY <1>2, <1>3, FS_Subset
<1>6. x \in Below(K, y) /\ x \notin Below(K, x)
  BY DEF Below
<1>7. QED
  BY <1>2, <1>3, <1>4, <1>5, <1>6, FS_Subset

(* A set of positions of a sequence is finite. *)
LEMMA LogPositionsFinite ==
    ASSUME NEW S, NEW log \in Seq(S), NEW K \in SUBSET DOMAIN log
    PROVE  IsFiniteSet(K) /\ Cardinality(K) \in Nat /\ K \subseteq 1..Len(log)
<1>1. Len(log) \in Nat /\ DOMAIN log = 1..Len(log)
  OBVIOUS
<1>2. K \in SUBSET (1..Len(log))
  BY <1>1
<1>3. QED
  BY <1>1, <1>2, PositionsFinite

(* Two elements with as many smaller elements are the same element. *)
LEMMA RankUnique ==
    ASSUME NEW K \in SUBSET Nat, IsFiniteSet(K), NEW a \in K, NEW b \in K,
           Cardinality(Below(K, a)) = Cardinality(Below(K, b))
    PROVE  a = b
<1>1. ~(a < b)
  <2> SUFFICES ASSUME a < b PROVE FALSE
    OBVIOUS
  <2>1. /\ Cardinality(Below(K, a)) \in Nat
        /\ Cardinality(Below(K, a)) < Cardinality(Below(K, b))
    BY RankMonotone, Zenon
  <2>2. QED
    BY <2>1
<1>2. ~(b < a)
  <2> SUFFICES ASSUME b < a PROVE FALSE
    OBVIOUS
  <2>1. /\ Cardinality(Below(K, b)) \in Nat
        /\ Cardinality(Below(K, b)) < Cardinality(Below(K, a))
    BY RankMonotone, Zenon
  <2>2. QED
    BY <2>1
<1>3. QED
  BY <1>1, <1>2

(* In a ranked set, NthSmallest(K, r) is the element of rank r. *)
LEMMA NthSmallestRank ==
    ASSUME NEW K, Ranked(K), NEW r \in 1..Cardinality(K)
    PROVE  /\ NthSmallest(K, r) \in K
           /\ Cardinality(Below(K, NthSmallest(K, r))) = r - 1
BY DEF Ranked, NthSmallest, Below

(* The empty set is ranked. *)
LEMMA RankedEmpty == Ranked({})
BY FS_EmptySet DEF Ranked

(* Adding an element m above all others to a ranked set gives a ranked    *)
(* set one larger, whose first |K| ranks are K's and whose last is m.     *)
LEMMA RankedExtend ==
    ASSUME NEW K \in SUBSET Nat, IsFiniteSet(K), Ranked(K),
           NEW m \in Nat, \A k \in K : k < m
    PROVE  LET K2 == K \cup {m}
           IN  /\ IsFiniteSet(K2)
               /\ Cardinality(K2) = Cardinality(K) + 1
               /\ Ranked(K2)
               /\ \A r \in 1..Cardinality(K) : NthSmallest(K2, r) = NthSmallest(K, r)
               /\ NthSmallest(K2, Cardinality(K) + 1) = m
<1> DEFINE K2 == K \cup {m}
<1>1. IsFiniteSet(K2) /\ Cardinality(K2) = Cardinality(K) + 1
         /\ Cardinality(K) \in Nat
  BY FS_AddElement, FS_CardinalityType DEF K2
<1>2. \A k \in K : Below(K2, k) = Below(K, k)
  BY DEF Below, K2
<1>3. Below(K2, m) = K
  <2>1. \A j \in K : j \in Below(K2, m)
    BY DEF Below, K2
  <2>2. \A j \in Below(K2, m) : j \in K
    BY DEF Below, K2
  <2>3. QED
    BY <2>1, <2>2, Zenon
<1>u. \A a, b \in K2 : Cardinality(Below(K2, a)) = Cardinality(Below(K2, b)) => a = b
  <2> K2 \in SUBSET Nat
    BY DEF K2
  <2> QED
    BY <1>1, RankUnique
<1>4. ASSUME NEW r \in 1..Cardinality(K)
      PROVE  /\ NthSmallest(K, r) \in K2
             /\ Cardinality(Below(K2, NthSmallest(K, r))) = r - 1
  BY <1>2, NthSmallestRank DEF K2
<1>5. Ranked(K2)
  <2> SUFFICES ASSUME NEW r \in 1..Cardinality(K2)
               PROVE  \E k \in K2 : Cardinality(Below(K2, k)) = r - 1
    BY DEF Ranked
  <2>1. CASE r <= Cardinality(K)
    <3>1. r \in 1..Cardinality(K)
      BY <2>1, <1>1
    <3>2. /\ NthSmallest(K, r) \in K2
          /\ Cardinality(Below(K2, NthSmallest(K, r))) = r - 1
      BY <3>1, <1>4
    <3>3. QED
      BY <3>2
  <2>2. CASE r = Cardinality(K) + 1
    <3>1. m \in K2 /\ Cardinality(Below(K2, m)) = r - 1
      BY <2>2, <1>1, <1>3 DEF K2
    <3>2. QED
      BY <3>1
  <2>3. r <= Cardinality(K) \/ r = Cardinality(K) + 1
    BY <1>1
  <2>4. QED
    BY <2>1, <2>2, <2>3, Zenon
<1>6. ASSUME NEW r \in 1..Cardinality(K)
      PROVE  NthSmallest(K2, r) = NthSmallest(K, r)
  <2>1. /\ NthSmallest(K2, r) \in K2
        /\ Cardinality(Below(K2, NthSmallest(K2, r))) = r - 1
    BY <1>1, <1>5, NthSmallestRank
  <2>2. QED
    BY <1>4, <2>1, <1>u
<1>7. NthSmallest(K2, Cardinality(K) + 1) = m
  <2>1. /\ NthSmallest(K2, Cardinality(K) + 1) \in K2
        /\ Cardinality(Below(K2, NthSmallest(K2, Cardinality(K) + 1))) = Cardinality(K)
    BY <1>1, <1>5, NthSmallestRank
  <2>2. Cardinality(Below(K2, m)) = Cardinality(K)
    BY <1>3
  <2>3. QED
    BY <2>1, <2>2, <1>u
<1>8. QED
  BY <1>1, <1>5, <1>6, <1>7

-----------------------------------------------------------------------------
(* Positions of the log of sent events.                                    *)

(* Every set of positions of a log of length n is ranked. *)
AllRanked(n) == \A P \in SUBSET (1..n) : Ranked(P)

(* The positions of the DownloadAttempt events of command id. *)
IdAttempts(log, id) == {i \in AttemptPositions(log) : log[i].id = id}

LEMMA AllRankedZero == AllRanked(0)
<1> SUFFICES ASSUME NEW P \in SUBSET (1..0) PROVE Ranked(P)
  BY DEF AllRanked
<1>1. P = {}
  OBVIOUS
<1>2. QED
  BY <1>1, RankedEmpty

(* One more position keeps every set of positions ranked. *)
LEMMA AllRankedSucc ==
    ASSUME NEW n \in Nat, AllRanked(n)
    PROVE  AllRanked(n + 1)
<1> SUFFICES ASSUME NEW Q \in SUBSET (1..(n + 1)) PROVE Ranked(Q)
  BY DEF AllRanked
<1>1. CASE n + 1 \notin Q
  <2>1. Q \in SUBSET (1..n)
    BY <1>1
  <2>2. QED
    BY <2>1 DEF AllRanked
<1>2. CASE n + 1 \in Q
  <2> DEFINE P == Q \ {n + 1}
  <2>1. P \in SUBSET (1..n) /\ Q = P \cup {n + 1}
    BY <1>2
  <2>2. Ranked(P) /\ IsFiniteSet(P)
    BY <2>1, PositionsFinite DEF AllRanked
  <2>3. \A k \in P : k < n + 1
    BY <2>1
  <2>4. Ranked(P \cup {n + 1})
    BY <2>1, <2>2, <2>3, RankedExtend
  <2>5. QED
    BY <2>1, <2>4
<1>3. QED
  BY <1>1, <1>2

(* Appending entry e adds its position to the DownloadAttempt positions   *)
(* of the log, and to those of its command id, when e is an attempt.      *)
LEMMA PositionsAppend ==
    ASSUME NEW log \in Seq(SentEntry), NEW e \in SentEntry, NEW id
    PROVE  LET n == Len(log) + 1
               new == IF e.ev.kind = "DownloadAttempt" THEN {n} ELSE {}
           IN  /\ AttemptPositions(Append(log, e)) = AttemptPositions(log) \cup new
               /\ IdAttempts(Append(log, e), id) =
                    IdAttempts(log, id) \cup (IF e.id = id THEN new ELSE {})
<1>1. /\ Len(Append(log, e)) = Len(log) + 1
      /\ \A i \in 1..Len(log) : Append(log, e)[i] = log[i]
      /\ Append(log, e)[Len(log) + 1] = e
      /\ DOMAIN Append(log, e) = 1..(Len(log) + 1)
      /\ DOMAIN log = 1..Len(log)
  BY AppendProperties
<1>2. QED
  BY <1>1 DEF AttemptPositions, IdAttempts

(* The snapshots at ranked attempt positions are a sequence of snapshots, *)
(* one per position.                                                       *)
LEMMA SnapsAtType ==
    ASSUME NEW log \in Seq(SentEntry), NEW P \in SUBSET AttemptPositions(log),
           Ranked(P)
    PROVE  /\ SnapsAt(log, P) \in Seq(Snapshot)
           /\ Len(SnapsAt(log, P)) = Cardinality(P)
<1>1. P \in SUBSET DOMAIN log
  BY DEF AttemptPositions
<1>2. Cardinality(P) \in Nat
  BY <1>1, LogPositionsFinite
<1>3. ASSUME NEW r \in 1..Cardinality(P)
      PROVE  log[NthSmallest(P, r)].ev.snap \in Snapshot
  <2> DEFINE k == NthSmallest(P, r)
  <2>1. k \in DOMAIN log /\ log[k].ev.kind = "DownloadAttempt"
    BY NthSmallestRank DEF AttemptPositions, k
  <2>2. log[k] \in SentEntry
    BY <2>1
  <2>3. log[k].ev \in Event
    BY <2>2 DEF SentEntry
  <2>4. QED
    BY <2>1, <2>3, AttemptEventSnap DEF k
<1>4. QED
  BY <1>2, <1>3 DEF SnapsAt

(* Appending to the log changes nothing at positions already there, and  *)
(* a new attempt position adds its snapshot at the end.                    *)
LEMMA SnapsAtAppend ==
    ASSUME NEW log \in Seq(SentEntry), NEW e \in SentEntry,
           NEW P \in SUBSET AttemptPositions(log), Ranked(P)
    PROVE  /\ SnapsAt(Append(log, e), P) = SnapsAt(log, P)
           /\ e.ev.kind = "DownloadAttempt" =>
                SnapsAt(Append(log, e), P \cup {Len(log) + 1})
                  = Append(SnapsAt(log, P), e.ev.snap)
<1> DEFINE c == Cardinality(P)
           m == Len(log) + 1
           L2 == Append(log, e)
<1>1. /\ \A i \in 1..Len(log) : L2[i] = log[i]
      /\ L2[m] = e
  BY AppendProperties DEF L2, m
<1>2. P \in SUBSET (1..Len(log)) /\ IsFiniteSet(P) /\ c \in Nat
  <2>1. P \in SUBSET DOMAIN log
    BY DEF AttemptPositions
  <2>2. QED
    BY <2>1, LogPositionsFinite DEF c
<1>3. \A r \in 1..c : NthSmallest(P, r) \in 1..Len(log)
  BY <1>2, NthSmallestRank DEF c
<1>4. SnapsAt(L2, P) = SnapsAt(log, P)
  BY <1>1, <1>3 DEF SnapsAt, c
<1>5. ASSUME e.ev.kind = "DownloadAttempt"
      PROVE  SnapsAt(L2, P \cup {m}) = Append(SnapsAt(log, P), e.ev.snap)
  <2>0. P \in SUBSET Nat /\ m \in Nat /\ \A k \in P : k < m
    BY <1>2 DEF m
  <2>1. /\ Cardinality(P \cup {m}) = c + 1
        /\ \A r \in 1..c : NthSmallest(P \cup {m}, r) = NthSmallest(P, r)
        /\ NthSmallest(P \cup {m}, c + 1) = m
    BY <1>2, <2>0, RankedExtend DEF c
  <2>2. SnapsAt(log, P) \in Seq(Snapshot) /\ Len(SnapsAt(log, P)) = c
    BY SnapsAtType DEF c
  <2>3. e.ev.snap \in Snapshot
    BY <1>5, AttemptEventSnap DEF SentEntry
  <2>4. /\ Len(Append(SnapsAt(log, P), e.ev.snap)) = c + 1
        /\ \A r \in 1..c : Append(SnapsAt(log, P), e.ev.snap)[r] = SnapsAt(log, P)[r]
        /\ Append(SnapsAt(log, P), e.ev.snap)[c + 1] = e.ev.snap
        /\ Append(SnapsAt(log, P), e.ev.snap) \in Seq(Snapshot)
    BY <2>2, <2>3, AppendProperties
  <2>a. DOMAIN Append(SnapsAt(log, P), e.ev.snap) = 1..(c + 1)
    BY <1>2, <2>4
  <2>5. DOMAIN SnapsAt(L2, P \cup {m}) = 1..(c + 1)
    BY <2>1 DEF SnapsAt
  <2>6. ASSUME NEW r \in 1..c
        PROVE  SnapsAt(L2, P \cup {m})[r] = SnapsAt(log, P)[r]
    <3>1. r \in 1..Cardinality(P \cup {m}) /\ r \in 1..Cardinality(P)
      BY <1>2, <2>1 DEF c
    <3>2. SnapsAt(L2, P \cup {m})[r] = L2[NthSmallest(P, r)].ev.snap
      BY <3>1, <2>1 DEF SnapsAt
    <3>3. L2[NthSmallest(P, r)] = log[NthSmallest(P, r)]
      BY <1>1, <1>3
    <3>4. QED
      BY <3>1, <3>2, <3>3 DEF SnapsAt
  <2>7. SnapsAt(L2, P \cup {m})[c + 1] = e.ev.snap
    BY <1>1, <1>2, <2>1 DEF SnapsAt
  <2>8. Append(SnapsAt(log, P), e.ev.snap) \in [1..(c + 1) -> Snapshot]
    BY <1>2, <2>4, LenProperties
  <2>9. \A r \in 1..(c + 1) :
           SnapsAt(L2, P \cup {m})[r] = Append(SnapsAt(log, P), e.ev.snap)[r]
    <3> SUFFICES ASSUME NEW r \in 1..(c + 1)
                 PROVE  SnapsAt(L2, P \cup {m})[r] = Append(SnapsAt(log, P), e.ev.snap)[r]
      OBVIOUS
    <3>1. CASE r \in 1..c
      BY <3>1, <2>4, <2>6
    <3>2. CASE r = c + 1
      BY <3>2, <2>4, <2>7
    <3>3. r \in 1..c \/ r = c + 1
      BY <1>2
    <3>4. QED
      BY <3>1, <3>2, <3>3, Zenon
  <2>10. SnapsAt(L2, P \cup {m})
           = [r \in 1..(c + 1) |-> SnapsAt(L2, P \cup {m})[r]]
    BY <2>1 DEF SnapsAt
  <2>11. QED
    BY <2>8, <2>9, <2>10, Zenon
<1>6. QED
  BY <1>4, <1>5 DEF L2, m

-----------------------------------------------------------------------------
(* The window of recent_attempts.                                          *)

(* The newest HistCap elements of r, newest first. *)
Window(r) == [i \in 1..MinNat(Len(r), HistCap) |-> r[Len(r) + 1 - i]]

(* What record_attempt does to recent_attempts: push_front, then          *)
(* pop_back while above capacity.                                          *)
PushRecent(w, s) ==
    LET pushed == <<s>> \o w
    IN IF Len(pushed) > HistCap THEN SubSeq(pushed, 1, HistCap) ELSE pushed

LEMMA WindowType ==
    ASSUME NEW r \in Seq(Snapshot)
    PROVE  /\ Window(r) \in Seq(Snapshot)
           /\ Len(Window(r)) = MinNat(Len(r), HistCap)
           /\ Len(Window(r)) <= HistCap
<1>1. MinNat(Len(r), HistCap) \in 0..Len(r) /\ MinNat(Len(r), HistCap) <= HistCap
  BY ConstAssumption DEF MinNat
<1>2. \A i \in 1..MinNat(Len(r), HistCap) : r[Len(r) + 1 - i] \in Snapshot
  BY <1>1
<1>3. QED
  BY <1>1, <1>2 DEF Window

(* Pushing s onto the window of r gives the window of r with s appended. *)
LEMMA WindowPush ==
    ASSUME NEW r \in Seq(Snapshot), NEW s \in Snapshot
    PROVE  PushRecent(Window(r), s) = Window(Append(r, s))
<1> DEFINE n == Len(r)
           w == Window(r)
           pushed == <<s>> \o w
           k == MinNat(n + 1, HistCap)
<1>0. HistCap \in Nat \ {0} /\ n \in Nat
  BY ConstAssumption
<1>1. w \in Seq(Snapshot) /\ Len(w) = MinNat(n, HistCap)
  BY WindowType
<1>2. /\ pushed \in Seq(Snapshot)
      /\ Len(pushed) = Len(w) + 1
      /\ pushed[1] = s
      /\ \A i \in 2..(Len(w) + 1) : pushed[i] = r[n + 2 - i]
  BY <1>0, <1>1 DEF Window, MinNat
<1>3. /\ Append(r, s) \in Seq(Snapshot) /\ Len(Append(r, s)) = n + 1
      /\ Append(r, s)[n + 1] = s
      /\ \A i \in 1..n : Append(r, s)[i] = r[i]
  BY AppendProperties
<1>4. Window(Append(r, s)) = [i \in 1..k |-> Append(r, s)[n + 2 - i]]
  <2>1. Window(Append(r, s))
          = [i \in 1..MinNat(n + 1, HistCap) |-> Append(r, s)[(n + 1) + 1 - i]]
    BY <1>3 DEF Window
  <2>2. \A i \in 1..k : (n + 1) + 1 - i = n + 2 - i
    BY <1>0
  <2>3. QED
    BY <2>1, <2>2 DEF k
<1>5. PushRecent(w, s) = [i \in 1..k |-> pushed[i]]
  <2>1. CASE Len(pushed) > HistCap
    <3>a. k = HistCap /\ HistCap <= Len(pushed)
      BY <1>0, <1>1, <1>2, <2>1 DEF MinNat
    <3>b. SubSeq(pushed, 1, HistCap) = [i \in 1..HistCap |-> pushed[i]]
      BY <1>0, <1>2, <3>a
    <3>c. QED
      BY <2>1, <3>a, <3>b DEF PushRecent
  <2>2. CASE ~(Len(pushed) > HistCap)
    <3>a. k = Len(pushed)
      BY <1>0, <1>1, <1>2, <2>2 DEF MinNat
    <3>b. pushed = [i \in 1..Len(pushed) |-> pushed[i]]
      BY <1>2, LenProperties
    <3>c. QED
      BY <2>2, <3>a, <3>b DEF PushRecent
  <2>3. QED
    BY <2>1, <2>2
<1>6. \A i \in 1..k : pushed[i] = Append(r, s)[n + 2 - i]
  <2> SUFFICES ASSUME NEW i \in 1..k PROVE pushed[i] = Append(r, s)[n + 2 - i]
    OBVIOUS
  <2>0. k <= Len(w) + 1 /\ k <= n + 1
    BY <1>0, <1>1 DEF MinNat
  <2>1. CASE i = 1
    BY <2>1, <1>2, <1>3
  <2>2. CASE i \in 2..k
    <3>1. i \in 2..(Len(w) + 1) /\ n + 2 - i \in 1..n
      BY <2>0, <2>2, <1>0, <1>1 DEF MinNat
    <3>2. QED
      BY <3>1, <1>2, <1>3
  <2>3. i = 1 \/ i \in 2..k
    BY <1>0 DEF k, MinNat
  <2>4. QED
    BY <2>1, <2>2, <2>3, Zenon
<1>7. QED
  BY <1>4, <1>5, <1>6

(* record_attempt's effect on recent_attempts. *)
LEMMA RecordAttemptRecent ==
    ASSUME NEW m \in Metrics, NEW s
    PROVE  RecordAttempt(m, s).recent_attempts = PushRecent(m.recent_attempts, s)
BY DEF RecordAttempt, PushRecent, Metrics

-----------------------------------------------------------------------------
(* The snapshots of the sent DownloadAttempt events.                       *)

LEMMA AttemptSnapsType ==
    ASSUME NEW log \in Seq(SentEntry), AllRanked(Len(log))
    PROVE  /\ AttemptPositions(log) \in SUBSET (1..Len(log))
           /\ Ranked(AttemptPositions(log))
           /\ AttemptSnaps(log) \in Seq(Snapshot)
<1>1. AttemptPositions(log) \in SUBSET (1..Len(log))
  BY DEF AttemptPositions
<1>2. Ranked(AttemptPositions(log))
  BY <1>1 DEF AllRanked
<1>3. QED
  BY <1>1, <1>2, SnapsAtType DEF AttemptSnaps

(* Sending an event appends its snapshot when it is a DownloadAttempt,   *)
(* and leaves the snapshots as they were otherwise.                        *)
LEMMA AttemptSnapsAppend ==
    ASSUME NEW log \in Seq(SentEntry), NEW e \in SentEntry, AllRanked(Len(log))
    PROVE  /\ AllRanked(Len(Append(log, e)))
           /\ AttemptSnaps(Append(log, e)) =
                IF e.ev.kind = "DownloadAttempt"
                THEN Append(AttemptSnaps(log), e.ev.snap) ELSE AttemptSnaps(log)
<1> DEFINE P == AttemptPositions(log)
<1>1. Len(Append(log, e)) = Len(log) + 1 /\ Len(log) \in Nat
  BY AppendProperties
<1>2. AllRanked(Len(Append(log, e)))
  BY <1>1, AllRankedSucc
<1>3. P \in SUBSET (1..Len(log)) /\ Ranked(P)
  BY AttemptSnapsType DEF P
<1>4. AttemptPositions(Append(log, e)) =
        P \cup (IF e.ev.kind = "DownloadAttempt" THEN {Len(log) + 1} ELSE {})
  BY PositionsAppend DEF P
<1>5. CASE e.ev.kind = "DownloadAttempt"
  <2>1. AttemptPositions(Append(log, e)) = P \cup {Len(log) + 1}
    BY <1>4, <1>5
  <2>2. SnapsAt(Append(log, e), P \cup {Len(log) + 1}) = Append(SnapsAt(log, P), e.ev.snap)
    BY <1>3, <1>5, SnapsAtAppend DEF P
  <2>3. QED
    BY <1>2, <1>5, <2>1, <2>2 DEF AttemptSnaps, P
<1>6. CASE e.ev.kind # "DownloadAttempt"
  <2>1. AttemptPositions(Append(log, e)) = P
    BY <1>4, <1>6
  <2>2. SnapsAt(Append(log, e), P) = SnapsAt(log, P)
    BY <1>3, SnapsAtAppend DEF P
  <2>3. QED
    BY <1>2, <1>6, <2>1, <2>2 DEF AttemptSnaps, P
<1>7. QED
  BY <1>5, <1>6

-----------------------------------------------------------------------------
(* RecentIsNewestWindow.                                                   *)

WInv == IInv /\ AllRanked(Len(sent)) /\ RecentIsNewestWindow

LEMMA WindowIsRecent ==
    RecentIsNewestWindow <=> download_metrics.recent_attempts = Window(Recorded)
BY DEF RecentIsNewestWindow, Window

(* A step that changes neither the metrics nor the log, and either keeps *)
(* the worker where it is or neither leaves nor enters send_attempt,      *)
(* keeps the window.                                                       *)
LEMMA QuietWindow ==
    ASSUME RecentIsNewestWindow,
           UNCHANGED <<download_metrics, sent>>,
           \/ UNCHANGED <<wpc, outbox>>
           \/ wpc # "send_attempt" /\ wpc' # "send_attempt"
    PROVE  RecentIsNewestWindow'
<1>1. AttemptSnaps(sent)' = AttemptSnaps(sent)
  BY DEF AttemptSnaps, SnapsAt, AttemptPositions, NthSmallest
<1>2. Recorded' = Recorded
  BY <1>1 DEF Recorded
<1>3. QED
  BY <1>2 DEF RecentIsNewestWindow

LEMMA InitWInv == Init => WInv
<1> SUFFICES ASSUME Init PROVE WInv
  OBVIOUS
<1>1. IInv
  BY InitIInv
<1>2. AllRanked(Len(sent))
  BY AllRankedZero DEF Init
<1>3. AttemptPositions(sent) = {}
  BY DEF Init, AttemptPositions
<1>4. AttemptSnaps(sent) = <<>>
  <2>1. Cardinality(AttemptPositions(sent)) = 0
    BY <1>3, FS_EmptySet
  <2>2. QED
    BY <2>1 DEF AttemptSnaps, SnapsAt
<1>5. Recorded = <<>>
  BY <1>4 DEF Init, Recorded
<1>7. MinNat(Len(Recorded), HistCap) = 0
  BY <1>5, ConstAssumption DEF MinNat
<1>8. RecentIsNewestWindow
  BY <1>5, <1>7 DEF Init, RecentIsNewestWindow
<1>6. QED
  BY <1>1, <1>2, <1>8 DEF WInv

LEMMA NextWInv == WInv /\ [Next]_vars => WInv'
<1> SUFFICES ASSUME WInv, [Next]_vars PROVE WInv'
  OBVIOUS
<1> USE ConstAssumption
<1>0. IInv'
  BY NextIInv DEF WInv
<1>a. /\ sent \in Seq(SentEntry) /\ download_metrics \in Metrics
      /\ AllRanked(Len(sent)) /\ RecentIsNewestWindow
  BY DEF WInv, IInv, TypeOK, SentEntry
<1>b. AttemptSnaps(sent) \in Seq(Snapshot)
  BY <1>a, AttemptSnapsType
<1> SUFFICES AllRanked(Len(sent')) /\ RecentIsNewestWindow'
  BY <1>0 DEF WInv
(* The steps that leave the log alone. *)
<1>q. ASSUME UNCHANGED <<download_metrics, sent>>,
             \/ UNCHANGED <<wpc, outbox>>
             \/ wpc # "send_attempt" /\ wpc' # "send_attempt"
      PROVE  AllRanked(Len(sent')) /\ RecentIsNewestWindow'
  BY <1>q, <1>a, QuietWindow
<1>1. ASSUME NEW c \in Command, Submit(c) PROVE AllRanked(Len(sent')) /\ RecentIsNewestWindow'
  BY <1>1, <1>q DEF Submit
<1>2. ASSUME NEW p \in IngestPairs, StoreFileData(p[1], p[2])
      PROVE  AllRanked(Len(sent')) /\ RecentIsNewestWindow'
  BY <1>2, <1>q DEF StoreFileData
<1>3. ASSUME NEW mx \in DrainMax, Drain(mx) PROVE AllRanked(Len(sent')) /\ RecentIsNewestWindow'
  BY <1>3, <1>q DEF Drain
<1>4. CASE Recv
  BY <1>4, <1>q DEF Recv
<1>5. CASE UploadFile
  BY <1>5, <1>q DEF UploadFile
<1>6. CASE Backoff
  BY <1>6, <1>q DEF Backoff
<1>7. CASE Lookup
  BY <1>7, <1>q DEF Lookup
<1>8. CASE Write
  BY <1>8, <1>q DEF Write
<1>9. CASE Record
  <2> DEFINE A == AttemptSnaps(sent)
             snap == outbox.snap
  <2>1. /\ wpc = "record" /\ wpc' = "send_attempt"
        /\ download_metrics' = RecordAttempt(download_metrics, snap)
        /\ UNCHANGED <<sent, outbox>>
    BY <1>9 DEF Record
  <2>2. snap \in Snapshot
    BY <2>1, AttemptEventSnap DEF WInv, IInv, TypeOK, WorkerStateConsistent, snap
  <2>3. A' = A
    BY <2>1 DEF A, AttemptSnaps, SnapsAt, AttemptPositions, NthSmallest
  <2>4. Recorded = A /\ Recorded' = Append(A, snap)
    BY <1>b, <2>1, <2>2, <2>3, AppendIsConcat, ConcatEmptySeq DEF Recorded, A, snap
  <2>5. download_metrics.recent_attempts = Window(A)
    BY <1>a, <2>4, WindowIsRecent
  <2>6. download_metrics'.recent_attempts = PushRecent(Window(A), snap)
    BY <1>a, <2>1, <2>5, RecordAttemptRecent
  <2>7. download_metrics'.recent_attempts = Window(Recorded')
    BY <1>b, <2>2, <2>4, <2>6, WindowPush DEF A
  <2>8. RecentIsNewestWindow'
    BY <2>7 DEF RecentIsNewestWindow, Window
  <2>9. QED
    BY <1>a, <2>1, <2>8
<1>10. CASE SendAttempt
  <2> DEFINE e == [id |-> cur.id, ev |-> outbox]
  <2>1. /\ wpc = "send_attempt" /\ cur \in Tagged
        /\ outbox \in Event /\ outbox.kind = "DownloadAttempt"
        /\ outbox.snap \in Snapshot
    BY <1>10, AttemptEventSnap DEF SendAttempt, WInv, IInv, TypeOK,
                                   WorkerStateConsistent
  <2>2. e \in SentEntry
    BY <2>1 DEF SentEntry, Tagged
  <2>3. /\ sent' = Append(sent, e)
        /\ wpc' \in {"send_final", "backoff"}
        /\ UNCHANGED download_metrics
    BY <1>10, Zenon DEF SendAttempt, Send
  <2>4. /\ AllRanked(Len(sent'))
        /\ AttemptSnaps(sent') = Append(AttemptSnaps(sent), outbox.snap)
    BY <1>a, <2>1, <2>2, <2>3, AttemptSnapsAppend DEF e
  <2>5. Recorded = Append(AttemptSnaps(sent), outbox.snap)
    BY <1>b, <2>1, AppendIsConcat DEF Recorded
  <2>6. Recorded' = AttemptSnaps(sent')
    <3>1. AttemptSnaps(sent)' = AttemptSnaps(sent')
      BY DEF AttemptSnaps, SnapsAt, AttemptPositions, NthSmallest
    <3>2. AttemptSnaps(sent') \in Seq(Snapshot)
      BY <1>b, <2>1, <2>4, AppendProperties
    <3>3. QED
      BY <2>3, <3>1, <3>2, ConcatEmptySeq DEF Recorded
  <2>7. QED
    BY <1>a, <2>3, <2>4, <2>5, <2>6 DEF RecentIsNewestWindow
<1>11. CASE SendFinal
  <2> DEFINE e == [id |-> cur.id, ev |-> outbox]
  <2>1. /\ wpc = "send_final" /\ cur \in Tagged /\ outbox \in Event
        /\ outbox.kind \in FinalKinds
    BY <1>11 DEF SendFinal, WInv, IInv, TypeOK, WorkerStateConsistent,
                 FinalKinds, NoEvent
  <2>2. e \in SentEntry
    BY <2>1 DEF SentEntry, Tagged
  <2>3. /\ sent' = Append(sent, e) /\ wpc' = "idle"
        /\ UNCHANGED download_metrics
    BY <1>11 DEF SendFinal, Send, ToIdle
  <2>4. /\ AllRanked(Len(sent'))
        /\ AttemptSnaps(sent') = AttemptSnaps(sent)
    BY <1>a, <2>1, <2>2, <2>3, AttemptSnapsAppend DEF e, FinalKinds
  <2>5. Recorded = AttemptSnaps(sent)
    BY <1>b, <2>1, ConcatEmptySeq DEF Recorded
  <2>6. Recorded' = AttemptSnaps(sent')
    <3>1. AttemptSnaps(sent)' = AttemptSnaps(sent')
      BY DEF AttemptSnaps, SnapsAt, AttemptPositions, NthSmallest
    <3>2. QED
      BY <1>b, <2>3, <2>4, <3>1, ConcatEmptySeq DEF Recorded
  <2>7. QED
    BY <1>a, <2>3, <2>4, <2>5, <2>6 DEF RecentIsNewestWindow
<1>12. CASE UNCHANGED vars
  BY <1>12, <1>q DEF vars
<1>13. QED
  BY <1>1, <1>2, <1>3, <1>4, <1>5, <1>6, <1>7, <1>8, <1>9, <1>10, <1>11, <1>12
     DEF Next, Worker

(* For every value of the constants, DownloadMetrics' recent_attempts    *)
(* holds exactly the newest HistCap snapshots record_attempt has seen,    *)
(* newest first: push_front followed by pop_back keeps the window, and   *)
(* every snapshot recorded is sent as an event before the next one is    *)
(* recorded.                                                               *)
THEOREM RecentWindowCorrect == Spec => []RecentIsNewestWindow
<1>1. Spec => []WInv
  BY InitWInv, NextWInv, PTL DEF Spec
<1>2. QED
  BY <1>1, PTL DEF WInv

=============================================================================

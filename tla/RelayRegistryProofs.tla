------------------------- MODULE RelayRegistryProofs -------------------------
(***************************************************************************)
(* Proofs about RelayRegistry for every value of its constants: the type  *)
(* invariant, the prune property PruneKeepsFresh, and that the registry   *)
(* implements the atomic RelayDirectory when no caller passes a NaN score. *)
(*                                                                         *)
(* TypeOK is inductive by itself.  The refinement needs more: a register  *)
(* call between its clock read and its insert holds a record that is      *)
(* still no later than the clock (the clock never goes back) and whose    *)
(* score is in range (no NaN reached the clamp).  RInv adds exactly that. *)
(***************************************************************************)
EXTENDS RelayRegistryCalls, FiniteSetTheorems, TLAPS

-----------------------------------------------------------------------------
(* Lemmas about the helpers.                                               *)

(* f32::clamp maps a number into 0.0 ..= 1.0. *)
LEMMA ClampRange ==
    ASSUME NEW x \in Int
    PROVE  Clamp(x) \in 0..10
BY RegistryAssumption DEF Clamp

(* Whatever a caller passes, the clamped score is a Health value. *)
LEMMA ClampHealth ==
    ASSUME NEW x \in Scores
    PROVE  Clamp(x) \in Health
BY RegistryAssumption DEF Clamp, Health

(* saturating_sub's age exceeds max_age exactly when the integer          *)
(* difference does.                                                        *)
LEMMA StaleIffOlder ==
    ASSUME NEW now \in Int, NEW r \in RelayInfo, NEW a \in Nat
    PROVE  (~Fresh(r, now, a)) <=> now - r.last_seen > a
BY DEF Fresh, SatSub, RelayInfo

-----------------------------------------------------------------------------
(* Type correctness.                                                       *)

LEMMA InitType == Init => TypeOK
BY RegistryAssumption DEF Init, TypeOK

LEMMA NextType == TypeOK /\ [Next]_vars => TypeOK'
<1> SUFFICES ASSUME TypeOK, [Next]_vars PROVE TypeOK'
  OBVIOUS
<1> USE RegistryAssumption
<1>1. CASE Tick
  BY <1>1 DEF Tick, TypeOK
<1>2. ASSUME NEW c \in Callers, NEW p \in Peers, NEW h \in Scores,
             RegisterStart(c, p, h)
      PROVE  TypeOK'
  <2>1. Clamp(h) \in Health
    BY ClampHealth
  <2>2. QED
    BY <1>2, <2>1 DEF RegisterStart, TypeOK, Call, RelayInfo
<1>3. ASSUME NEW c \in Callers, RegisterInsert(c) PROVE TypeOK'
  BY <1>3 DEF RegisterInsert, TypeOK, Call
<1>4. ASSUME NEW now \in 0..clock, NEW a \in MaxAges, PruneStale(now, a)
      PROVE  TypeOK'
  BY <1>4 DEF PruneStale, TypeOK
<1>5. ASSUME NEW p \in Peers, Remove(p) PROVE TypeOK'
  BY <1>5 DEF Remove, TypeOK
<1>6. CASE Clear
  BY <1>6 DEF Clear, TypeOK
<1>7. CASE UNCHANGED vars
  BY <1>7 DEF vars, TypeOK
<1>8. QED
  BY <1>1, <1>2, <1>3, <1>4, <1>5, <1>6, <1>7 DEF Next

(* The registry's state is always well typed: every entry and every      *)
(* register call in flight holds a RelayInfo whose last_seen is a clock   *)
(* reading and whose score is what the clamp returns.                      *)
THEOREM RegistryTypeCorrect == Spec => []TypeOK
BY InitType, NextType, PTL DEF Spec

-----------------------------------------------------------------------------
(* prune_stale never removes an entry that is fresh by the present clock. *)

LEMMA PruneStepKeepsFresh ==
    ASSUME TypeOK,
           NEW now \in 0..clock, NEW a \in MaxAges, PruneStale(now, a),
           NEW p \in Peers, entries[p] # None, clock - entries[p].last_seen <= a
    PROVE  entries'[p] = entries[p]
<1>1. entries[p] \in RelayInfo /\ clock \in Int
  BY DEF TypeOK
<1>2. a \in Nat
  BY RegistryAssumption
<1>3. entries[p].last_seen \in Nat /\ now \in Nat /\ now <= clock
  BY <1>1 DEF RelayInfo
<1>6. now - entries[p].last_seen <= a
  BY <1>1, <1>2, <1>3
<1>4. Fresh(entries[p], now, a)
  BY <1>2, <1>3, <1>6 DEF Fresh, SatSub
<1>5. QED
  BY <1>4 DEF PruneStale

(* PruneKeepsFresh holds for every value of the constants: prune_stale    *)
(* called with a clock reading taken before concurrent registers, or      *)
(* with a last_seen later than its now, never removes an entry that is    *)
(* fresh by the present clock.                                              *)
THEOREM PruneKeepsFreshHolds == Spec => PruneKeepsFresh
<1>1. TypeOK => \A now \in 0..clock, a \in MaxAges :
                  PruneStale(now, a) =>
                    \A p \in Peers :
                      (entries[p] # None /\ clock - entries[p].last_seen <= a)
                        => entries'[p] = entries[p]
  BY PruneStepKeepsFresh
<1>2. QED
  BY <1>1, RegistryTypeCorrect, PTL DEF PruneKeepsFresh

-----------------------------------------------------------------------------
(* Refinement of RelayDirectory.                                           *)

RInv ==
    /\ TypeOK
    /\ \A c \in Callers :
          calls[c] # None =>
            /\ calls[c].info.last_seen <= clock
            /\ calls[c].info.health_score \in 0..10

LEMMA InitRInv == Init => RInv
BY RegistryAssumption DEF Init, RInv, TypeOK

LEMMA NextRInv ==
    ASSUME NaN \notin Scores
    PROVE  RInv /\ [Next]_vars => RInv'
<1> SUFFICES ASSUME RInv, [Next]_vars PROVE RInv'
  OBVIOUS
<1> USE RegistryAssumption
<1>1. TypeOK'
  BY NextType DEF RInv
<1>2. ASSUME NEW c \in Callers, NEW p \in Peers, NEW h \in Scores,
             RegisterStart(c, p, h)
      PROVE  RInv'
  <2>1. h \in Int
    OBVIOUS
  <2>2. Clamp(h) \in 0..10
    BY <2>1, ClampRange
  <2>3. QED
    BY <1>1, <1>2, <2>2 DEF RegisterStart, RInv, TypeOK
<1>3. CASE Tick
  BY <1>1, <1>3 DEF Tick, RInv, TypeOK, Call, RelayInfo
<1>4. ASSUME NEW c \in Callers, RegisterInsert(c) PROVE RInv'
  BY <1>1, <1>4 DEF RegisterInsert, RInv
<1>5. ASSUME NEW now \in 0..clock, NEW a \in MaxAges, PruneStale(now, a)
      PROVE  RInv'
  BY <1>1, <1>5 DEF PruneStale, RInv
<1>6. ASSUME NEW p \in Peers, Remove(p) PROVE RInv'
  BY <1>1, <1>6 DEF Remove, RInv
<1>7. CASE Clear
  BY <1>1, <1>7 DEF Clear, RInv
<1>8. CASE UNCHANGED vars
  BY <1>1, <1>8 DEF vars, RInv
<1>9. QED
  BY <1>2, <1>3, <1>4, <1>5, <1>6, <1>7, <1>8 DEF Next

(* A step of the operations is a step of the registry. *)
LEMMA CallIsStep ==
    ASSUME [CNext]_cvars
    PROVE  [Next]_vars
BY DEF CNext, cvars, Next, RegisterCall, PruneStaleCall, RemoveCall, ClearCall

(* prune_stale's before_count - entries.len() is the number of entries    *)
(* the retain closure drops.                                                *)
LEMMA PruneCount ==
    ASSUME TypeOK, NEW now \in 0..clock, NEW a \in MaxAges, PruneStale(now, a)
    PROVE  EntriesLen(entries) - EntriesLen(entries')
             = Cardinality({p \in Peers : entries[p] # None
                                         /\ now - entries[p].last_seen > a})
<1> USE RegistryAssumption
<1> DEFINE present == {p \in Peers : entries[p] # None}
           kept == {p \in Peers : entries'[p] # None}
           stale == {p \in Peers : entries[p] # None /\ now - entries[p].last_seen > a}
<1>1. \A p \in Peers :
        (entries[p] # None /\ ~Fresh(entries[p], now, a))
          <=> (entries[p] # None /\ now - entries[p].last_seen > a)
  BY StaleIffOlder DEF TypeOK
<1>2. \A p \in Peers : p \in kept <=> p \in present /\ p \notin stale
  BY <1>1 DEF PruneStale, TypeOK
<1>3. kept = present \ stale
  BY <1>2, Zenon
<1>4. present \cap stale = stale
  BY Zenon
<1>5. IsFiniteSet(present) /\ Cardinality(present) \in Nat
  <2>1. present \subseteq Peers
    OBVIOUS
  <2>2. QED
    BY <2>1, FS_Subset, FS_CardinalityType
<1>6. IsFiniteSet(stale) /\ Cardinality(stale) \in Nat
  <2>1. stale \subseteq present
    BY Zenon
  <2>2. QED
    BY <1>5, <2>1, FS_Subset, FS_CardinalityType
<1>7. Cardinality(kept) = Cardinality(present) - Cardinality(stale)
  <2>1. Cardinality(present \ stale)
          = Cardinality(present) - Cardinality(present \cap stale)
    BY <1>5, FS_Difference
  <2>2. QED
    BY <1>3, <1>4, <2>1
<1>8. QED
  BY <1>5, <1>6, <1>7 DEF EntriesLen

(* Every operation of the registry is the directory's operation of the    *)
(* same name with the same result, and a clock read or tick is a tick or   *)
(* leaves the directory alone.                                              *)
LEMMA StepRefines ==
    ASSUME RInv, [CNext]_cvars
    PROVE  [Dir!Next]_Dir!dvars
<1> USE RegistryAssumption
<1>1. CASE Tick /\ UNCHANGED reply
  BY <1>1 DEF Tick, Dir!Next, Dir!Tick, Dir!dvars
<1>2. ASSUME NEW c \in Callers, NEW p \in Peers, NEW h \in Scores,
             RegisterStart(c, p, h), UNCHANGED reply
      PROVE  [Dir!Next]_Dir!dvars
  BY <1>2 DEF RegisterStart, Dir!dvars
<1>3. ASSUME NEW c \in Callers, RegisterCall(c)
      PROVE  [Dir!Next]_Dir!dvars
  <2>1. /\ calls[c] \in Call
        /\ calls[c].info.last_seen <= clock
        /\ calls[c].info.health_score \in 0..10
    BY <1>3 DEF RegisterCall, RegisterInsert, RInv, TypeOK
  <2>2. calls[c].info \in Dir!Record
    BY <2>1 DEF Call, RelayInfo, Dir!Record
  <2>3. Dir!Upsert(calls[c].peer, calls[c].info)
    BY <1>3, <2>1 DEF RegisterCall, RegisterInsert, Dir!Upsert
  <2>4. calls[c].peer \in Peers
    BY <2>1 DEF Call
  <2>5. QED
    BY <2>2, <2>3, <2>4 DEF Dir!Next
<1>4. ASSUME NEW now \in 0..clock, NEW a \in MaxAges, PruneStaleCall(now, a)
      PROVE  [Dir!Next]_Dir!dvars
  <2>1. /\ entries \in [Peers -> RelayInfo \cup {None}]
        /\ clock \in 0..MaxTime
        /\ a \in Nat
    BY DEF RInv, TypeOK
  <2>2. \A p \in Peers :
          (entries[p] # None /\ ~Fresh(entries[p], now, a))
            <=> (entries[p] # None /\ now - entries[p].last_seen > a)
    BY <2>1, StaleIffOlder
  <2>3. EntriesLen(entries) - EntriesLen(entries')
          = Cardinality({p \in Peers : entries[p] # None
                                      /\ now - entries[p].last_seen > a})
    BY <1>4, PruneCount DEF PruneStaleCall, RInv
  <2> DEFINE stale == {p \in Peers : entries[p] # None
                                    /\ now - entries[p].last_seen > a}
  <2>4. entries' = [p \in Peers |-> IF p \in stale THEN None ELSE entries[p]]
    BY <1>4, <2>2 DEF PruneStaleCall, PruneStale, stale
  <2>5. Dir!Cardinality(stale) = Cardinality(stale)
    BY DEF Dir!Cardinality, Cardinality
  <2>6. reply' = [op |-> "prune", now |-> now, maxAge |-> a,
                  removed |-> Dir!Cardinality(stale)]
    BY <1>4, <2>3, <2>5 DEF PruneStaleCall, stale
  <2>7. now <= clock /\ UNCHANGED clock
    BY <1>4, <2>1 DEF PruneStaleCall, PruneStale
  <2>8. Dir!Prune(now, a)
    BY <2>4, <2>6, <2>7 DEF Dir!Prune, stale
  <2>9. now \in 0..MaxTime
    BY <2>1
  <2>10. QED
    BY <2>8, <2>9 DEF Dir!Next
<1>5. ASSUME NEW p \in Peers, RemoveCall(p) PROVE [Dir!Next]_Dir!dvars
  BY <1>5 DEF RemoveCall, Remove, Dir!Next, Dir!Delete
<1>6. CASE ClearCall
  BY <1>6 DEF ClearCall, Clear, Dir!Next, Dir!DeleteAll
<1>7. CASE UNCHANGED cvars
  BY <1>7 DEF cvars, vars, Dir!dvars
<1>8. QED
  BY <1>1, <1>2, <1>3, <1>4, <1>5, <1>6, <1>7 DEF CNext

(* When no caller passes a NaN score, the registry implements the atomic *)
(* directory of RelayDirectory, operation by operation and result by       *)
(* result: register's clock read before the write lock and its insert     *)
(* under it act as one upsert of a record observed no later than the     *)
(* present with its score in range; prune_stale removes what the          *)
(* directory's prune removes and returns how many; remove reports whether *)
(* the relay was there.                                                    *)
THEOREM Refinement ==
    ASSUME NaN \notin Scores
    PROVE  CSpec => DirectorySpec
<1>1. CInit => Dir!Init
  BY DEF CInit, Init, Dir!Init
<1>2. RInv /\ [CNext]_cvars => [Dir!Next]_Dir!dvars
  BY StepRefines
<1>3. CSpec => []RInv
  <2>1. CInit => RInv
    BY InitRInv DEF CInit
  <2>2. RInv /\ [CNext]_cvars => RInv'
    BY CallIsStep, NextRInv
  <2>3. QED
    BY <2>1, <2>2, PTL DEF CSpec
<1>4. QED
  BY <1>1, <1>2, <1>3, PTL DEF CSpec, DirectorySpec, Dir!Spec

(* Called through its public operations, as relay_core runs it, the      *)
(* registry still never lets prune_stale remove an entry fresh by the      *)
(* present clock: every call is a registry step, so TypeOK holds.          *)
THEOREM PruneKeepsFreshCalls == CSpec => PruneKeepsFresh
<1>1. CSpec => []TypeOK
  <2>1. CInit => TypeOK
    BY InitType DEF CInit
  <2>2. TypeOK /\ [CNext]_cvars => TypeOK'
    BY CallIsStep, NextType
  <2>3. QED
    BY <2>1, <2>2, PTL DEF CSpec
<1>2. TypeOK => \A now \in 0..clock, a \in MaxAges :
                  PruneStale(now, a) =>
                    \A p \in Peers :
                      (entries[p] # None /\ clock - entries[p].last_seen <= a)
                        => entries'[p] = entries[p]
  BY PruneStepKeepsFresh
<1>3. QED
  BY <1>1, <1>2, PTL DEF PruneKeepsFresh

=============================================================================

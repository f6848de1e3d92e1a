---------------------------- MODULE RelayRegistry ----------------------------
(***************************************************************************)
(* RelayRegistry of src/src-tauri/src/relay_registry.rs: a map from peer  *)
(* id to RelayInfo behind a tokio RwLock.  Every mutation holds the write *)
(* lock for its whole body, so remove, clear and prune_stale are single   *)
(* steps.  register reads the wall clock and clamps the score BEFORE it   *)
(* awaits the write lock, so it is two steps: concurrent register calls   *)
(* and a ticking clock interleave between them.  list, get, contains and  *)
(* count only read and change nothing.                                     *)
(*                                                                         *)
(* addrs and alias are carried through unchanged and no property tells    *)
(* them apart, so RelayInfo keeps last_seen and health_score.  An f32     *)
(* score is an integer number of tenths, or the model value NaN.          *)
(***************************************************************************)
EXTENDS Integers, FiniteSets

CONSTANTS
    Peers,      \* peer ids
    Callers,    \* tasks that may call register at the same time
    Scores,     \* health_score arguments callers pass, in tenths (may hold NaN)
    NaN,        \* model value: the f32 NaN
    MaxAges,    \* max_age_secs arguments prune_stale callers pass
    MaxTime,    \* bound on the wall clock (unix seconds)
    None        \* model value: no entry / no call in progress

ASSUME RegistryAssumption ==
    /\ IsFiniteSet(Peers)      \* the HashMap holds finitely many relays
    /\ Scores \subseteq Int \cup {NaN}
    /\ MaxAges \subseteq Nat
    /\ MaxTime \in Nat
    /\ NaN \notin Int /\ None \notin Int /\ NaN # None

(* The values a clamped f32 score can take: 0.0 ..= 1.0 in tenths, or NaN. *)
Health == (0..10) \cup {NaN}
RelayInfo == [last_seen : 0..MaxTime, health_score : Health]
Call == [peer : Peers, info : RelayInfo]

VARIABLES
    entries,   \* peer id -> RelayInfo, or None when absent
    clock,     \* SystemTime::now() in unix seconds
    calls      \* caller -> the register call it is in, past its clock read, or None

vars == <<entries, clock, calls>>

TypeOK ==
    /\ entries \in [Peers -> RelayInfo \cup {None}]
    /\ clock \in 0..MaxTime
    /\ calls \in [Callers -> Call \cup {None}]

-----------------------------------------------------------------------------

(* Mutant: only the lower bound of the clamp applied. *)
ClampNoUpper(x) == IF x = NaN THEN NaN ELSE IF x < 0 THEN 0 ELSE x

(* f32::clamp(0.0, 1.0): NaN stays NaN. *)
Clamp(x) ==
    IF x = NaN THEN NaN
    ELSE IF x < 0 THEN 0 ELSE IF x > 10 THEN 10 ELSE x

(* u64::saturating_sub. *)
SatSub(a, b) == IF a > b THEN a - b ELSE 0

(* Mutant: the age taken as now.abs_diff(last_seen). *)
FreshAbsAge(info, now, maxAge) ==
    (IF now > info.last_seen THEN now - info.last_seen ELSE info.last_seen - now)
        <= maxAge

(* prune_stale's retain predicate: the entry is kept. *)
Fresh(info, now, maxAge) == SatSub(now, info.last_seen) <= maxAge

(* The wall clock moves on. *)
Tick ==
    /\ clock < MaxTime
    /\ clock' = clock + 1
    /\ UNCHANGED <<entries, calls>>

(* register, before the lock: read SystemTime::now() and build the        *)
(* RelayInfo with the clamped score.                                       *)
RegisterStart(c, p, h) ==
    /\ calls[c] = None
    /\ calls' = [calls EXCEPT ![c] = [peer |-> p,
                    info |-> [last_seen |-> clock, health_score |-> Clamp(h)]]]
    /\ UNCHANGED <<entries, clock>>

(* register, under the write lock: insert, replacing any entry. *)
RegisterInsert(c) ==
    /\ calls[c] # None
    /\ entries' = [entries EXCEPT ![calls[c].peer] = calls[c].info]
    /\ calls' = [calls EXCEPT ![c] = None]
    /\ UNCHANGED clock

(* prune_stale(now, max_age_secs): now is a clock reading the caller took, *)
(* no later than the present.                                              *)
PruneStale(now, maxAge) ==
    /\ entries' = [p \in Peers |->
                     IF entries[p] # None /\ ~Fresh(entries[p], now, maxAge)
                     THEN None ELSE entries[p]]
    /\ UNCHANGED <<clock, calls>>

Remove(p) ==
    /\ entries' = [entries EXCEPT ![p] = None]
    /\ UNCHANGED <<clock, calls>>

Clear ==
    /\ entries' = [p \in Peers |-> None]
    /\ UNCHANGED <<clock, calls>>

Init ==
    /\ entries = [p \in Peers |-> None]
    /\ clock = 0
    /\ calls = [c \in Callers |-> None]

Next ==
    \/ Tick
    \/ \E c \in Callers, p \in Peers, h \in Scores : RegisterStart(c, p, h)
    \/ \E c \in Callers : RegisterInsert(c)
    \/ \E now \in 0..clock, a \in MaxAges : PruneStale(now, a)
    \/ \E p \in Peers : Remove(p)
    \/ Clear

Spec == Init /\ [][Next]_vars

-----------------------------------------------------------------------------
(* Properties.                                                             *)

(* spec.md section 3: 0 <= health_score <= 1 at all times after any       *)
(* mutation, since register clamps the score it stores.                    *)
HealthInRange ==
    \A p \in Peers : entries[p] # None => entries[p].health_score \in 0..10

(* register is called periodically "to refresh last_seen" (the comment   *)
(* on register): re-registering a relay never moves its last_seen back.   *)
LastSeenNeverRegresses ==
    [][\A p \in Peers :
         (entries[p] # None /\ entries'[p] # None)
           => entries'[p].last_seen >= entries[p].last_seen]_entries

(* prune_stale(now, max_age) with a reading now taken before a concurrent *)
(* register completed, or with a last_seen later than now, never removes  *)
(* an entry that is fresh by the present clock: the saturating_sub in its *)
(* retain closure makes such an age 0 (spec.md section 4, "never pruned   *)
(* on clock skew").                                                        *)
PruneKeepsFresh ==
    [][\A now \in 0..clock, a \in MaxAges :
         PruneStale(now, a) =>
           \A p \in Peers :
             (entries[p] # None /\ clock - entries[p].last_seen <= a)
               => entries'[p] = entries[p]]_vars

=============================================================================

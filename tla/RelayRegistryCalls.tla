------------------------- MODULE RelayRegistryCalls -------------------------
(***************************************************************************)
(* RelayRegistry's public operations with what they return to the caller. *)
(* reply is the last operation that completed under the write lock and    *)
(* its result: remove returns whether the relay was there, prune_stale     *)
(* the number of entries it dropped (before_count - entries.len()), and    *)
(* register and clear return nothing.  The clock read of register and the *)
(* ticking clock complete no operation and leave reply alone.              *)
(*                                                                         *)
(* With reply visible, the registry is checked against RelayDirectory     *)
(* operation by operation: each call must do what its own abstract         *)
(* operation does and return what that operation returns.                 *)
(***************************************************************************)
EXTENDS RelayRegistry, FiniteSets

VARIABLE reply   \* the last completed operation and what it returned

cvars == <<vars, reply>>

(* entries.len(). *)
EntriesLen(e) == Cardinality({p \in Peers : e[p] # None})

(* register: the insert under the write lock completes the call. *)
RegisterCall(c) ==
    /\ RegisterInsert(c)
    /\ reply' = [op |-> "register", peer |-> calls[c].peer]

(* Mutant: prune_stale returning entries.len() after the retain. *)
PruneStaleCallCountsKept(now, maxAge) ==
    /\ PruneStale(now, maxAge)
    /\ reply' = [op |-> "prune", now |-> now, maxAge |-> maxAge,
                 removed |-> EntriesLen(entries')]

(* prune_stale: retain, then before_count - entries.len(). *)
PruneStaleCall(now, maxAge) ==
    /\ PruneStale(now, maxAge)
    /\ reply' = [op |-> "prune", now |-> now, maxAge |-> maxAge,
                 removed |-> EntriesLen(entries) - EntriesLen(entries')]

(* remove: entries.remove(peer_id).is_some(). *)
RemoveCall(p) ==
    /\ Remove(p)
    /\ reply' = [op |-> "remove", peer |-> p, found |-> entries[p] # None]

ClearCall ==
    /\ Clear
    /\ reply' = [op |-> "clear"]

CInit == Init /\ reply = [op |-> "none"]

CNext ==
    \/ Tick /\ UNCHANGED reply
    \/ \E c \in Callers, p \in Peers, h \in Scores :
         RegisterStart(c, p, h) /\ UNCHANGED reply
    \/ \E c \in Callers : RegisterCall(c)
    \/ \E now \in 0..clock, a \in MaxAges : PruneStaleCall(now, a)
    \/ \E p \in Peers : RemoveCall(p)
    \/ ClearCall

CSpec == CInit /\ [][CNext]_cvars

(* The directory the registry promises, over the registry's own state. *)
Dir == INSTANCE RelayDirectory WITH dir <- entries

(* register, remove, clear and prune_stale behave, and return, as the    *)
(* atomic operations of RelayDirectory: the clock read and clamp done     *)
(* before the write lock and the insert under it form one upsert of a     *)
(* record observed no later than the present with a score in range;       *)
(* prune_stale with a caller's reading of the clock removes exactly the   *)
(* entries older than max_age by that reading (saturating_sub) and        *)
(* returns their number; remove reports whether the relay was there.      *)
DirectorySpec == Dir!Spec

=============================================================================

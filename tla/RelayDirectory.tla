--------------------------- MODULE RelayDirectory ---------------------------
(***************************************************************************)
(* What the relay directory promises its callers (spec.md sections 3 to   *)
(* 5), with no locks and no program points: a map from peer id to a relay *)
(* record that changes only by atomic operations.                          *)
(*                                                                         *)
(*   register    upserts a record observed no later than the present,     *)
(*               with its health score in [0.0, 1.0];                      *)
(*   remove      deletes one entry; clear deletes all of them;            *)
(*   prune_stale deletes exactly the entries with now - last_seen >       *)
(*               max_age, for a reading now of the clock, a last_seen in  *)
(*               the future counting as age 0, and returns how many it    *)
(*               deleted ("Number of stale entries removed");             *)
(*   remove      returns whether the relay was there ("true if the relay  *)
(*               was found and removed").                                  *)
(*                                                                         *)
(* reply is the last operation completed and what it returned, so that an *)
(* operation can only be taken for itself: a prune that deletes one entry *)
(* is not a remove.                                                        *)
(*                                                                         *)
(* Scores are in tenths, as in RelayRegistry.                              *)
(***************************************************************************)
EXTENDS Integers, FiniteSets

CONSTANTS Peers, MaxAges, MaxTime, None

VARIABLES dir, clock, reply

dvars == <<dir, clock, reply>>

(* RelayInfo as the spec states it: health_score in 0.0 ..= 1.0. *)
Record == [last_seen : 0..MaxTime, health_score : 0..10]

TypeOK ==
    /\ dir \in [Peers -> Record \cup {None}]
    /\ clock \in 0..MaxTime

Tick ==
    /\ clock < MaxTime
    /\ clock' = clock + 1
    /\ UNCHANGED <<dir, reply>>

Upsert(p, r) ==
    /\ r.last_seen <= clock
    /\ dir' = [dir EXCEPT ![p] = r]
    /\ reply' = [op |-> "register", peer |-> p]
    /\ UNCHANGED clock

Delete(p) ==
    /\ dir' = [dir EXCEPT ![p] = None]
    /\ reply' = [op |-> "remove", peer |-> p, found |-> dir[p] # None]
    /\ UNCHANGED clock

DeleteAll ==
    /\ dir' = [p \in Peers |-> None]
    /\ reply' = [op |-> "clear"]
    /\ UNCHANGED clock

(* Ages are differences of integers here, so a future last_seen gives a  *)
(* negative age, which no max_age exceeds.                                 *)
Prune(now, maxAge) ==
    LET stale == {p \in Peers : dir[p] # None /\ now - dir[p].last_seen > maxAge}
    IN /\ now <= clock
       /\ dir' = [p \in Peers |-> IF p \in stale THEN None ELSE dir[p]]
       /\ reply' = [op |-> "prune", now |-> now, maxAge |-> maxAge,
                    removed |-> Cardinality(stale)]
       /\ UNCHANGED clock

Init ==
    /\ dir = [p \in Peers |-> None]
    /\ clock = 0
    /\ reply = [op |-> "none"]

Next ==
    \/ Tick
    \/ \E p \in Peers, r \in Record : Upsert(p, r)
    \/ \E p \in Peers : Delete(p)
    \/ DeleteAll
    \/ \E now \in 0..MaxTime, a \in MaxAges : Prune(now, a)

Spec == Init /\ [][Next]_dvars

=============================================================================

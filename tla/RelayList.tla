----------------------------- MODULE RelayList -----------------------------
(***************************************************************************)
(* RelayRegistry::list composed with the registry: under the read lock,  *)
(* collect the entries in the HashMap's iteration order (arbitrary) and  *)
(* sort them with sort_by on                                               *)
(*     b.health_score.partial_cmp(&a.health_score).unwrap_or(Equal).     *)
(* slice::sort_by is a stable sort; on slices of at most 20 elements it   *)
(* is insertion_sort_shift_left, which inserts v[i] into the sorted      *)
(* prefix v[..i] by shifting it left while is_less(v[i], v[j-1]), where  *)
(* is_less(x, y) is compare(x, y) == Less.  The model covers registries  *)
(* of up to 20 relays, where that is the whole algorithm.                 *)
(***************************************************************************)
EXTENDS RelayRegistry, Sequences, FiniteSets

VARIABLE listed   \* the Vec<RelayInfo> the last list() call returned

lvars == <<vars, listed>>

(* A listed relay: its peer id and its RelayInfo. *)
Listed == [peer : Peers, info : RelayInfo]

(* compare(a, b) == Less in list's closure: b's score compares below a's, *)
(* i.e. a is healthier; a NaN on either side compares as Equal.           *)
IsLess(a, b) ==
    /\ a.info.health_score # NaN /\ b.info.health_score # NaN
    /\ b.info.health_score < a.info.health_score

(* The length of the prefix of s that x stays behind: shifting stops at   *)
(* the first element from the right that x is not less than.              *)
InsertPos(s, x) ==
    CHOOSE k \in 0..Len(s) :
        /\ \A j \in (k + 1)..Len(s) : IsLess(x, s[j])
        /\ k > 0 => ~IsLess(x, s[k])

(* Mutant: the new element appended without shifting. *)
InsertTailNoShift(s, x) == Append(s, x)

(* insert_tail: x placed after the first InsertPos(s, x) elements. *)
InsertTail(s, x) ==
    LET k == InsertPos(s, x)
    IN SubSeq(s, 1, k) \o <<x>> \o SubSeq(s, k + 1, Len(s))

(* insertion_sort_shift_left(v, 1, is_less). *)
SortByHealth(v) ==
    LET sorted[i \in 0..Len(v)] ==
            IF i = 0 THEN <<>> ELSE InsertTail(sorted[i - 1], v[i])
    IN sorted[Len(v)]

(* The HashMap's iteration orders of the present entries. *)
IterationOrders ==
    LET present == {p \in Peers : entries[p] # None}
        n == Cardinality(present)
    IN {o \in [1..n -> present] : \A i, j \in 1..n : i # j => o[i] # o[j]}

(* list(): read lock, collect in iteration order, sort. *)
List ==
    /\ \E o \in IterationOrders :
         listed' = SortByHealth([i \in DOMAIN o |->
                                   [peer |-> o[i], info |-> entries[o[i]]]])
    /\ UNCHANGED vars

LInit == Init /\ listed = <<>>

LNext == (Next /\ UNCHANGED listed) \/ List

LSpec == LInit /\ [][LNext]_lvars

LTypeOK == TypeOK /\ listed \in Seq(Listed)

-----------------------------------------------------------------------------
(* Properties.                                                             *)

(* list() returns the relays ordered by health_score descending (the doc *)
(* comment of list and spec.md section 4, where only incomparable values *)
(* fall back to the original order): of two listed relays whose scores   *)
(* are numbers, the one listed first is at least as healthy.              *)
ListSortedByHealth ==
    \A i, j \in DOMAIN listed :
        (i < j /\ listed[i].info.health_score # NaN
               /\ listed[j].info.health_score # NaN)
          => listed[i].info.health_score >= listed[j].info.health_score

=============================================================================

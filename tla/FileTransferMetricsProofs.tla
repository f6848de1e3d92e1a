---------------------- MODULE FileTransferMetricsProofs ----------------------
(***************************************************************************)
(* Proof that DownloadMetrics' counters equal, saturated at their width,  *)
(* the number of attempts of each status emit_attempt has recorded        *)
(* (CountersMatchAttempts), for every value of the constants.             *)
(*                                                                         *)
(* The property is inductive together with IInv.  Its argument is a       *)
(* bookkeeping one: record_attempt bumps one counter with a saturating    *)
(* add while the recorded snapshot becomes the pending one of Recorded,   *)
(* the DownloadAttempt send turns the pending snapshot into a sent one,   *)
(* and no other step touches either.  It rests on two lemmas: appending  *)
(* an entry to the log adds one position to the count of its status, and *)
(* a saturating increment of a saturated count is the saturated count of *)
(* one more.                                                               *)
(***************************************************************************)
EXTENDS FileTransferProofs, FiniteSetTheorems, SequenceTheorems

MInv == IInv /\ CountersMatchAttempts

-----------------------------------------------------------------------------
(* Lemmas.                                                                 *)

(* The attempts of a status in a log are finitely many. *)
LEMMA AttemptsFinite ==
    ASSUME NEW log \in Seq(SentEntry), NEW st
    PROVE  /\ IsFiniteSet(AttemptsWithStatus(log, st))
           /\ Cardinality(AttemptsWithStatus(log, st)) \in Nat
<1>1. IsFiniteSet(1..Len(log)) /\ AttemptsWithStatus(log, st) \subseteq 1..Len(log)
  BY FS_Interval DEF AttemptsWithStatus
<1>2. IsFiniteSet(AttemptsWithStatus(log, st))
  BY <1>1, FS_Subset
<1>3. QED
  BY <1>2, FS_CardinalityType

(* Sending event e adds one to the count of its status when e is a        *)
(* DownloadAttempt event, and nothing otherwise.                           *)
LEMMA CountAppend ==
    ASSUME NEW log \in Seq(SentEntry), NEW e \in SentEntry, NEW st
    PROVE  Cardinality(AttemptsWithStatus(Append(log, e), st))
             = Cardinality(AttemptsWithStatus(log, st))
               + (IF e.ev.kind = "DownloadAttempt" /\ e.ev.snap.status = st
                  THEN 1 ELSE 0)
<1> DEFINE A == AttemptsWithStatus(log, st)
           A2 == AttemptsWithStatus(Append(log, e), st)
           n == Len(log) + 1
<1>1. /\ Len(Append(log, e)) = n
      /\ \A i \in 1..Len(log) : Append(log, e)[i] = log[i]
      /\ Append(log, e)[n] = e
      /\ DOMAIN Append(log, e) = 1..n
      /\ DOMAIN log = 1..Len(log)
  BY AppendProperties
<1>2. IsFiniteSet(A)
  BY AttemptsFinite DEF A
<1>6. n \notin A
  BY <1>1 DEF AttemptsWithStatus, A, n
<1>3. CASE e.ev.kind = "DownloadAttempt" /\ e.ev.snap.status = st
  <2>1. A2 = A \cup {n}
    BY <1>1, <1>3 DEF AttemptsWithStatus, A, A2, n
  <2>2. QED
    BY <1>2, <1>6, <1>3, <2>1, FS_AddElement DEF A, A2
<1>4. CASE ~(e.ev.kind = "DownloadAttempt" /\ e.ev.snap.status = st)
  <2>1. A2 = A
    BY <1>1, <1>4 DEF AttemptsWithStatus, A, A2, n
  <2>2. Cardinality(A2) = Cardinality(A)
    BY <2>1
  <2>3. Cardinality(A) \in Nat
    BY AttemptsFinite DEF A
  <2>4. QED
    BY <1>4, <2>2, <2>3 DEF A, A2
<1>5. QED
  BY <1>3, <1>4

(* u64::saturating_add(1) on a count saturated at CounterMax gives the   *)
(* saturated count of one more.                                            *)
LEMMA SatIncMin ==
    ASSUME NEW c \in Nat
    PROVE  SatInc(MinNat(c, CounterMax)) = MinNat(c + 1, CounterMax)
BY ConstAssumption DEF SatInc, MinNat

(* A step that changes neither the metrics nor the log, and either keeps *)
(* the worker where it is or neither leaves nor enters send_attempt,      *)
(* keeps the counters matching.                                            *)
LEMMA QuietCounters ==
    ASSUME CountersMatchAttempts,
           UNCHANGED <<download_metrics, sent>>,
           \/ UNCHANGED <<wpc, outbox>>
           \/ wpc # "send_attempt" /\ wpc' # "send_attempt"
    PROVE  CountersMatchAttempts'
BY DEF CountersMatchAttempts, RecordedCount

-----------------------------------------------------------------------------
(* The inductive invariant.                                                *)

LEMMA InitMInv == Init => MInv
<1> SUFFICES ASSUME Init PROVE MInv
  OBVIOUS
<1>1. IInv
  BY InitIInv
<1>2. \A st : AttemptsWithStatus(sent, st) = {}
  BY DEF Init, AttemptsWithStatus
<1>3. ASSUME NEW st PROVE RecordedCount(st) = 0
  <2>1. Cardinality(AttemptsWithStatus(sent, st)) = 0
    BY <1>2, FS_EmptySet
  <2>2. ~(wpc = "send_attempt")
    BY DEF Init
  <2>3. QED
    BY <2>1, <2>2 DEF RecordedCount
<1>4. CountersMatchAttempts
  BY <1>3, ConstAssumption DEF Init, CountersMatchAttempts, MinNat
<1>5. QED
  BY <1>1, <1>4 DEF MInv

LEMMA NextMInv == MInv /\ [Next]_vars => MInv'
<1> SUFFICES ASSUME MInv, [Next]_vars PROVE MInv'
  OBVIOUS
<1> USE ConstAssumption
<1>0. IInv'
  BY NextIInv DEF MInv
<1> SUFFICES CountersMatchAttempts'
  BY <1>0 DEF MInv
<1>a. /\ sent \in Seq(SentEntry) /\ download_metrics \in Metrics
      /\ wpc \in WorkerPcs /\ CountersMatchAttempts
  BY DEF MInv, IInv, TypeOK, SentEntry
<1>b. \A st : Cardinality(AttemptsWithStatus(sent, st)) \in Nat
  BY <1>a, AttemptsFinite
<1>1. ASSUME NEW c \in Command, Submit(c) PROVE CountersMatchAttempts'
  BY <1>1, <1>a, QuietCounters DEF Submit
<1>2. ASSUME NEW p \in IngestPairs, StoreFileData(p[1], p[2])
      PROVE  CountersMatchAttempts'
  BY <1>2, <1>a, QuietCounters DEF StoreFileData
<1>3. ASSUME NEW mx \in DrainMax, Drain(mx) PROVE CountersMatchAttempts'
  BY <1>3, <1>a, QuietCounters DEF Drain
<1>4. CASE Recv
  BY <1>4, <1>a, QuietCounters DEF Recv
<1>5. CASE UploadFile
  BY <1>5, <1>a, QuietCounters DEF UploadFile
<1>6. CASE Backoff
  BY <1>6, <1>a, QuietCounters DEF Backoff
<1>7. CASE Lookup
  BY <1>7, <1>a, QuietCounters DEF Lookup
<1>8. CASE Write
  BY <1>8, <1>a, QuietCounters DEF Write
<1>9. CASE Record
  <2> DEFINE snap == outbox.snap
             C(st) == Cardinality(AttemptsWithStatus(sent, st))
             Bump(st) == IF snap.status = st THEN 1 ELSE 0
  <2>1. /\ wpc = "record" /\ wpc' = "send_attempt"
        /\ download_metrics' = RecordAttempt(download_metrics, snap)
        /\ UNCHANGED <<sent, outbox>>
    BY <1>9 DEF Record
  <2>2. ASSUME NEW st
        PROVE  RecordedCount(st) = C(st) /\ RecordedCount(st)' = C(st) + Bump(st)
    <3>1. Cardinality(AttemptsWithStatus(sent, st))' = C(st)
      BY <2>1 DEF AttemptsWithStatus, C
    <3>2. (IF wpc = "send_attempt" /\ outbox.snap.status = st THEN 1 ELSE 0)'
            = Bump(st)
      BY <2>1 DEF Bump, snap
    <3>3. (IF wpc = "send_attempt" /\ outbox.snap.status = st THEN 1 ELSE 0) = 0
      BY <2>1
    <3>4. QED
      BY <1>b, <3>1, <3>2, <3>3 DEF RecordedCount, C
  <2>3. /\ download_metrics.total_retries = MinNat(C("Retrying"), CounterMax)
        /\ download_metrics.total_success = MinNat(C("Success"), CounterMax)
        /\ download_metrics.total_failures = MinNat(C("Failed"), CounterMax)
    BY <1>a, <2>2 DEF CountersMatchAttempts
  <2>4. /\ download_metrics'.total_retries =
              IF snap.status = "Retrying" THEN SatInc(download_metrics.total_retries)
              ELSE download_metrics.total_retries
        /\ download_metrics'.total_success =
              IF snap.status = "Success" THEN SatInc(download_metrics.total_success)
              ELSE download_metrics.total_success
        /\ download_metrics'.total_failures =
              IF snap.status = "Failed" THEN SatInc(download_metrics.total_failures)
              ELSE download_metrics.total_failures
    BY <1>a, <2>1 DEF RecordAttempt, Metrics
  <2>5. ASSUME NEW st
        PROVE  (IF snap.status = st THEN SatInc(MinNat(C(st), CounterMax))
                ELSE MinNat(C(st), CounterMax))
               = MinNat(C(st) + Bump(st), CounterMax)
    BY <1>b, SatIncMin
  <2>6. QED
    BY <2>2, <2>3, <2>4, <2>5 DEF CountersMatchAttempts
<1>10. CASE SendAttempt
  <2> DEFINE e == [id |-> cur.id, ev |-> outbox]
  <2>1. /\ wpc = "send_attempt" /\ cur \in Tagged
        /\ outbox \in Event /\ outbox.kind = "DownloadAttempt"
    BY <1>10, AttemptEventSnap DEF SendAttempt, MInv, IInv, TypeOK,
                                   WorkerStateConsistent
  <2>2. e \in SentEntry
    BY <2>1 DEF SentEntry, Tagged
  <2>3. /\ sent' = Append(sent, e)
        /\ wpc' \in {"send_final", "backoff"}
        /\ UNCHANGED download_metrics
    BY <1>10, Zenon DEF SendAttempt, Send
  <2>4. \A st : Cardinality(AttemptsWithStatus(sent', st))
                  = Cardinality(AttemptsWithStatus(sent, st))
                    + (IF outbox.snap.status = st THEN 1 ELSE 0)
    BY <1>a, <2>1, <2>2, <2>3, CountAppend
  <2>5. ASSUME NEW st PROVE RecordedCount(st)' = RecordedCount(st)
    <3>1. Cardinality(AttemptsWithStatus(sent, st))'
            = Cardinality(AttemptsWithStatus(sent', st))
      BY DEF AttemptsWithStatus
    <3>2. (IF wpc = "send_attempt" /\ outbox.snap.status = st THEN 1 ELSE 0)' = 0
      BY <2>3
    <3>3. QED
      BY <1>b, <2>1, <2>4, <3>1, <3>2 DEF RecordedCount
  <2>6. QED
    BY <1>a, <2>3, <2>5 DEF CountersMatchAttempts
<1>11. CASE SendFinal
  <2> DEFINE e == [id |-> cur.id, ev |-> outbox]
  <2>1. /\ wpc = "send_final" /\ cur \in Tagged /\ outbox \in Event
        /\ outbox.kind \in FinalKinds
    BY <1>11 DEF SendFinal, MInv, IInv, TypeOK, WorkerStateConsistent,
                 FinalKinds, NoEvent
  <2>2. e \in SentEntry
    BY <2>1 DEF SentEntry, Tagged
  <2>3. /\ sent' = Append(sent, e) /\ wpc' = "idle"
        /\ UNCHANGED download_metrics
    BY <1>11 DEF SendFinal, Send, ToIdle
  <2>4. \A st : Cardinality(AttemptsWithStatus(sent', st))
                  = Cardinality(AttemptsWithStatus(sent, st))
    BY <1>a, <1>b, <2>1, <2>2, <2>3, CountAppend DEF FinalKinds
  <2>5. ASSUME NEW st PROVE RecordedCount(st)' = RecordedCount(st)
    <3>1. Cardinality(AttemptsWithStatus(sent, st))'
            = Cardinality(AttemptsWithStatus(sent', st))
      BY DEF AttemptsWithStatus
    <3>2. (IF wpc = "send_attempt" /\ outbox.snap.status = st THEN 1 ELSE 0)' = 0
      BY <2>3
    <3>3. QED
      BY <1>b, <2>1, <2>4, <3>1, <3>2 DEF RecordedCount
  <2>6. QED
    BY <1>a, <2>3, <2>5 DEF CountersMatchAttempts
<1>12. CASE UNCHANGED vars
  BY <1>12, <1>a, QuietCounters DEF vars
<1>13. QED
  BY <1>1, <1>2, <1>3, <1>4, <1>5, <1>6, <1>7, <1>8, <1>9, <1>10, <1>11, <1>12
     DEF Next, Worker

(* For every value of the constants, DownloadMetrics' total_retries,      *)
(* total_success and total_failures equal, saturated at the counter       *)
(* width, the number of snapshots of each status record_attempt has seen: *)
(* emit_attempt records every attempt exactly once, under the metrics     *)
(* mutex, before its event is sent, and counts it under its own status.   *)
THEOREM CountersCorrect == Spec => []CountersMatchAttempts
<1>1. Spec => []MInv
  BY InitMInv, NextMInv, PTL DEF Spec
<1>2. QED
  BY <1>1, PTL DEF MInv

=============================================================================

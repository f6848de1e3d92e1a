---------------------- MODULE FileTransferAttemptProofs ----------------------
(***************************************************************************)
(* Proof that every download reports a well-formed attempt history         *)
(* (AttemptHistoryWellFormed): download_with_retries numbers its attempts  *)
(* 1, 2, .., stops at the first Success or at MAX_DOWNLOAD_ATTEMPTS, and   *)
(* the worker sends the outcome after the last DownloadAttempt event.      *)
(*                                                                         *)
(* The property speaks of finished and unfinished downloads alike.  What   *)
(* makes it inductive is CurInv, the state of the download the worker is   *)
(* in the middle of: how many attempts it has sent so far, given where it  *)
(* is in the retry loop and what its attempt counter holds.                *)
(***************************************************************************)
EXTENDS FileTransferHistoryProofs, FiniteSetTheorems, TLAPS

(* The snapshots of the DownloadAttempt events of command id, in order. *)
HistOf(log, id) == SnapsAt(log, IdAttempts(log, id))

(* The positions of the outcome events of command id. *)
Finals(log, id) ==
    {i \in DOMAIN log : log[i].id = id /\ log[i].ev.kind \in FinalKinds}

(* The first five conjuncts of AttemptHistoryWellFormed: the attempts    *)
(* themselves.                                                             *)
AttemptsOK(A) ==
    LET k == Len(A)
    IN /\ k <= MaxAttempts
       /\ \A i \in 1..k : A[i].attempt = i
       /\ \A i \in 1..k : A[i].status = "Retrying" => i < MaxAttempts
       /\ \A i \in 1..k : A[i].status = "Failed" => i = MaxAttempts
       /\ \A i \in 1..(k - 1) : A[i].status = "Retrying"

(* The last conjunct: the outcome comes after the attempts and agrees     *)
(* with the last of them.                                                  *)
OutcomeOK(log, id, A) ==
    LET k == Len(A)
    IN \A f \in Finals(log, id) :
         /\ \A j \in DOMAIN log :
               (log[j].id = id /\ log[j].ev.kind = "DownloadAttempt") => j < f
         /\ log[f].ev.kind = "FileDownloaded" =>
               k >= 1 /\ A[k].status = "Success"
         /\ (log[f].ev.kind = "Error" /\ k > 0) =>
               k = MaxAttempts /\ A[k].status = "Failed"

HistWF(log, id) == AttemptsOK(HistOf(log, id)) /\ OutcomeOK(log, id, HistOf(log, id))

(* A snapshot's status agrees with its attempt number (StatusOf). *)
SnapOK(s) ==
    /\ s.status = "Retrying" => s.attempt < MaxAttempts
    /\ s.status = "Failed" => s.attempt = MaxAttempts

(* The download in progress: its attempts so far are numbered 1..k and    *)
(* carry statuses StatusOf can produce; before the outcome is decided     *)
(* k = attempt - 1 and all were Retrying; once it is decided k = attempt, *)
(* and the outcome agrees with the last attempt.  An upload sends none.   *)
CurInv ==
    wpc # "idle" =>
      LET A == HistOf(sent, cur.id)
          k == Len(A)
      IN /\ \A i \in 1..k : A[i].attempt = i /\ SnapOK(A[i])
         /\ cur.cmd.kind = "UploadFile" =>
               /\ k = 0
               /\ wpc = "send_final" => outbox.kind # "FileDownloaded"
         /\ cur.cmd.kind = "DownloadFile" =>
               /\ attempt \in 1..MaxAttempts
               /\ wpc # "send_final" =>
                     k = attempt - 1 /\ \A i \in 1..k : A[i].status = "Retrying"
               /\ wpc = "send_final" =>
                     /\ k = attempt
                     /\ \A i \in 1..(k - 1) : A[i].status = "Retrying"
                     /\ outbox.kind = "FileDownloaded" => A[k].status = "Success"
                     /\ outbox.kind = "Error" =>
                           k = MaxAttempts /\ A[k].status = "Failed"
         /\ wpc \in {"record", "send_attempt"} => SnapOK(outbox.snap)

AInv == OInv /\ AllRanked(Len(sent)) /\ AttemptHistoryWellFormed /\ CurInv

-----------------------------------------------------------------------------
(* The history of one command in the log.                                  *)

(* The property is the well-formedness of every command's history. *)
LEMMA WellFormedIsHistWF ==
    AttemptHistoryWellFormed <=> \A id \in 1..submitted : HistWF(sent, id)
BY DEF AttemptHistoryWellFormed, HistWF, AttemptsOK, OutcomeOK, HistOf,
       AttemptsOf, IdAttempts, FinalIndex, Finals

LEMMA WellFormedIsHistWFNext ==
    AttemptHistoryWellFormed' <=> \A id \in 1..submitted' : HistWF(sent', id)
BY DEF AttemptHistoryWellFormed, HistWF, AttemptsOK, OutcomeOK, HistOf,
       AttemptsOf, IdAttempts, FinalIndex, Finals

(* The attempts of a command are a sequence of snapshots, one per        *)
(* attempt position.                                                       *)
LEMMA HistType ==
    ASSUME NEW log \in Seq(SentEntry), AllRanked(Len(log)), NEW id
    PROVE  /\ HistOf(log, id) \in Seq(Snapshot)
           /\ Len(HistOf(log, id)) = Cardinality(IdAttempts(log, id))
<1>1. IdAttempts(log, id) \in SUBSET (1..Len(log))
  BY DEF IdAttempts, AttemptPositions
<1>2. Ranked(IdAttempts(log, id))
  BY <1>1 DEF AllRanked
<1>3. IdAttempts(log, id) \in SUBSET AttemptPositions(log)
  BY DEF IdAttempts
<1>4. QED
  BY <1>2, <1>3, SnapsAtType DEF HistOf

(* Sending entry e adds its snapshot to the history of its command when  *)
(* it is an attempt, and its position to the outcomes of its command when *)
(* it is an outcome; the other commands' histories stay as they were.     *)
LEMMA HistAppend ==
    ASSUME NEW log \in Seq(SentEntry), NEW e \in SentEntry, AllRanked(Len(log)),
           NEW id
    PROVE  /\ HistOf(Append(log, e), id) =
                IF e.id = id /\ e.ev.kind = "DownloadAttempt"
                THEN Append(HistOf(log, id), e.ev.snap) ELSE HistOf(log, id)
           /\ Finals(Append(log, e), id) =
                Finals(log, id) \cup
                  (IF e.id = id /\ e.ev.kind \in FinalKinds THEN {Len(log) + 1} ELSE {})
<1> DEFINE P == IdAttempts(log, id)
<1>1. P \in SUBSET AttemptPositions(log) /\ Ranked(P)
  <2>1. P \in SUBSET (1..Len(log))
    BY DEF P, IdAttempts, AttemptPositions
  <2>2. QED
    BY <2>1 DEF P, IdAttempts, AllRanked
<1>2. IdAttempts(Append(log, e), id) =
        P \cup (IF e.id = id /\ e.ev.kind = "DownloadAttempt" THEN {Len(log) + 1} ELSE {})
  BY PositionsAppend DEF P
<1>3. HistOf(Append(log, e), id) =
        IF e.id = id /\ e.ev.kind = "DownloadAttempt"
        THEN Append(HistOf(log, id), e.ev.snap) ELSE HistOf(log, id)
  <2>1. CASE e.id = id /\ e.ev.kind = "DownloadAttempt"
    BY <1>1, <1>2, <2>1, SnapsAtAppend DEF HistOf, P
  <2>2. CASE ~(e.id = id /\ e.ev.kind = "DownloadAttempt")
    <3>1. IdAttempts(Append(log, e), id) = P
      BY <1>2, <2>2
    <3>2. QED
      BY <1>1, <2>2, <3>1, SnapsAtAppend DEF HistOf, P
  <2>3. QED
    BY <2>1, <2>2
<1>4. Finals(Append(log, e), id) =
        Finals(log, id) \cup
          (IF e.id = id /\ e.ev.kind \in FinalKinds THEN {Len(log) + 1} ELSE {})
  <2>1. /\ DOMAIN Append(log, e) = 1..(Len(log) + 1)
        /\ \A i \in 1..Len(log) : Append(log, e)[i] = log[i]
        /\ Append(log, e)[Len(log) + 1] = e
        /\ DOMAIN log = 1..Len(log)
    BY AppendProperties
  <2>2. QED
    BY <2>1 DEF Finals
<1>5. QED
  BY <1>3, <1>4

(* A command with no entry in the log has the empty history. *)
LEMMA NoEntries ==
    ASSUME NEW log \in Seq(SentEntry), NEW id,
           \A i \in DOMAIN log : log[i].id # id
    PROVE  /\ HistOf(log, id) = <<>>
           /\ HistWF(log, id)
<1>1. IdAttempts(log, id) = {}
  BY DEF IdAttempts, AttemptPositions
<1>2. Cardinality(IdAttempts(log, id)) = 0
  BY <1>1, FS_EmptySet
<1>3. HistOf(log, id) = <<>>
  BY <1>2 DEF HistOf, SnapsAt
<1>4. Finals(log, id) = {}
  BY DEF Finals
<1>5. AttemptsOK(<<>>)
  <2>1. Len(<<>>) = 0
    OBVIOUS
  <2>2. QED
    BY <2>1, ConstAssumption DEF AttemptsOK
<1>7. OutcomeOK(log, id, <<>>)
  BY <1>4 DEF OutcomeOK
<1>8. HistWF(log, id)
  BY <1>3, <1>5, <1>7 DEF HistWF
<1>6. QED
  BY <1>3, <1>8

(* An entry of another command keeps a command's history well formed. *)
LEMMA OtherAppend ==
    ASSUME NEW log \in Seq(SentEntry), NEW e \in SentEntry, AllRanked(Len(log)),
           NEW id, e.id # id, HistWF(log, id)
    PROVE  HistWF(Append(log, e), id)
<1> DEFINE L == Append(log, e)
<1>1. HistOf(L, id) = HistOf(log, id) /\ Finals(L, id) = Finals(log, id)
  BY HistAppend DEF L
<1>2. /\ DOMAIN L = 1..(Len(log) + 1)
      /\ \A i \in 1..Len(log) : L[i] = log[i]
      /\ L[Len(log) + 1] = e
      /\ DOMAIN log = 1..Len(log)
  BY AppendProperties DEF L
<1>3. Finals(log, id) \subseteq DOMAIN log
  BY DEF Finals
<1>4. OutcomeOK(L, id, HistOf(log, id))
  BY <1>1, <1>2, <1>3 DEF HistWF, OutcomeOK
<1>5. QED
  BY <1>1, <1>4 DEF HistWF

-----------------------------------------------------------------------------
(* The command in progress.                                                *)

(* Attempts numbered 1..k within the budget, whose statuses agree with    *)
(* their numbers and all of which but the last were retried, satisfy the   *)
(* first five conjuncts of the property.                                   *)
LEMMA AttemptsOKI ==
    ASSUME NEW A \in Seq(Snapshot), Len(A) <= MaxAttempts,
           \A i \in 1..Len(A) : A[i].attempt = i /\ SnapOK(A[i]),
           \A i \in 1..(Len(A) - 1) : A[i].status = "Retrying"
    PROVE  AttemptsOK(A)
BY DEF AttemptsOK, SnapOK

(* The command the worker handles has sent no outcome yet. *)
LEMMA CurNoFinals ==
    ASSUME IInv, OrderInv, wpc # "idle"
    PROVE  Finals(sent, cur.id) = {}
<1>1. sent \in Seq(SentEntry) /\ cur \in Tagged
  BY DEF IInv, TypeOK, WorkerStateConsistent, SentEntry
<1> SUFFICES ASSUME NEW i \in DOMAIN sent, sent[i].id = cur.id,
                    sent[i].ev.kind \in FinalKinds
             PROVE  FALSE
  BY DEF Finals
<1>2. sent[i].id \in Nat /\ cur.id \in Nat
  BY <1>1 DEF SentEntry, Tagged
<1>3. QED
  BY <1>2 DEF OrderInv

(* While the worker handles a command, that command's history is well    *)
(* formed: it has no outcome yet, and CurInv bounds and orders its         *)
(* attempts.                                                               *)
LEMMA CurWF ==
    ASSUME IInv, OrderInv, AllRanked(Len(sent)), CurInv, wpc # "idle"
    PROVE  HistWF(sent, cur.id)
<1> USE ConstAssumption
<1> DEFINE A == HistOf(sent, cur.id)
           k == Len(A)
<1>1. sent \in Seq(SentEntry) /\ cur \in Tagged
  BY DEF IInv, TypeOK, WorkerStateConsistent, SentEntry
<1>2. A \in Seq(Snapshot) /\ k \in Nat
  BY <1>1, HistType DEF A, k
<1>4. OutcomeOK(sent, cur.id, A)
  BY CurNoFinals DEF OutcomeOK
<1>5. \A i \in 1..k : A[i].attempt = i /\ SnapOK(A[i])
  BY DEF CurInv, A, k
<1>6. /\ k <= MaxAttempts
      /\ \A i \in 1..(k - 1) : A[i].status = "Retrying"
  <2>1. CASE cur.cmd.kind = "UploadFile"
    <3>1. k = 0
      BY <2>1 DEF CurInv, A, k
    <3>2. QED
      BY <3>1
  <2>2. CASE cur.cmd.kind = "DownloadFile" /\ wpc = "send_final"
    <3>1. attempt \in 1..MaxAttempts /\ k = attempt
          /\ \A i \in 1..(k - 1) : A[i].status = "Retrying"
      BY <2>2 DEF CurInv, A, k
    <3>2. QED
      BY <3>1
  <2>3. CASE cur.cmd.kind = "DownloadFile" /\ wpc # "send_final"
    <3>1. attempt \in 1..MaxAttempts /\ k = attempt - 1
          /\ \A i \in 1..k : A[i].status = "Retrying"
      BY <2>3 DEF CurInv, A, k
    <3>2. QED
      BY <3>1
  <2>4. cur.cmd.kind \in {"UploadFile", "DownloadFile"}
    BY <1>1 DEF Tagged, Command
  <2>5. QED
    BY <2>1, <2>2, <2>3, <2>4
<1>7. AttemptsOK(A)
  BY <1>2, <1>5, <1>6, AttemptsOKI DEF k
<1>8. QED
  BY <1>4, <1>7 DEF HistWF, A

(* The status StatusOf gives a finished attempt agrees with its number. *)
LEMMA StatusSnapOK ==
    ASSUME NEW a \in 1..MaxAttempts, NEW ok \in BOOLEAN, NEW h
    PROVE  SnapOK([hash |-> h, attempt |-> a, status |-> StatusOf(ok, a)])
BY ConstAssumption DEF SnapOK, StatusOf

-----------------------------------------------------------------------------
(* The inductive invariant.                                                *)

LEMMA InitAInv == Init => AInv
<1> SUFFICES ASSUME Init PROVE AInv
  OBVIOUS
<1>1. OInv
  BY InitOInv
<1>2. AllRanked(Len(sent))
  BY AllRankedZero DEF Init
<1>3. AttemptHistoryWellFormed
  BY DEF Init, AttemptHistoryWellFormed
<1>4. CurInv
  BY DEF Init, CurInv
<1>5. QED
  BY <1>1, <1>2, <1>3, <1>4 DEF AInv

(* A step that sends nothing and submits nothing keeps every history. *)
LEMMA LogQuiet ==
    ASSUME AllRanked(Len(sent)), AttemptHistoryWellFormed,
           UNCHANGED <<sent, submitted>>
    PROVE  AllRanked(Len(sent))' /\ AttemptHistoryWellFormed'
<1>1. AllRanked(Len(sent))'
  OBVIOUS
<1>2. \A id : AttemptsOf(id)' = AttemptsOf(id) /\ FinalIndex(id)' = FinalIndex(id)
  BY DEF AttemptsOf, FinalIndex
<1>3. AttemptHistoryWellFormed'
  BY <1>2, Zenon DEF AttemptHistoryWellFormed
<1>4. QED
  BY <1>1, <1>3

(* A step that leaves the log, the worker and its command alone keeps    *)
(* CurInv.                                                                  *)
LEMMA CurQuiet ==
    ASSUME CurInv, UNCHANGED <<sent, wpc, cur, attempt, outbox>>
    PROVE  CurInv'
BY DEF CurInv

LEMMA NextAInv == AInv /\ [Next]_vars => AInv'
<1> SUFFICES ASSUME AInv, [Next]_vars PROVE AInv'
  OBVIOUS
<1> USE ConstAssumption
<1>0. OInv'
  BY NextOInv DEF AInv
<1>a. /\ IInv /\ OrderInv /\ AllRanked(Len(sent))
      /\ AttemptHistoryWellFormed /\ CurInv
      /\ sent \in Seq(SentEntry) /\ submitted \in Nat
  BY DEF AInv, OInv, IInv, TypeOK, SentEntry
<1> SUFFICES AllRanked(Len(sent))' /\ AttemptHistoryWellFormed' /\ CurInv'
  BY <1>0 DEF AInv
<1>q. ASSUME UNCHANGED <<sent, submitted, wpc, cur, attempt, outbox>>
      PROVE  AllRanked(Len(sent))' /\ AttemptHistoryWellFormed' /\ CurInv'
  BY <1>q, <1>a, LogQuiet, CurQuiet
<1>1. ASSUME NEW c \in Command, Submit(c)
      PROVE  AllRanked(Len(sent))' /\ AttemptHistoryWellFormed' /\ CurInv'
  <2>1. UNCHANGED <<sent, wpc, cur, attempt, outbox>> /\ submitted' = submitted + 1
    BY <1>1 DEF Submit
  <2>2. ASSUME NEW id \in 1..submitted' PROVE HistWF(sent', id)
    <3>1. CASE id \in 1..submitted
      BY <1>a, <2>1, <3>1, WellFormedIsHistWF
    <3>2. CASE id = submitted + 1
      <4>a. \A i \in DOMAIN sent : sent[i].id # id
        <5> SUFFICES ASSUME NEW i \in DOMAIN sent PROVE sent[i].id # id
          OBVIOUS
        <5>0. sent[i] \in SentEntry
          BY <1>a
        <5>1. sent[i].id \in Nat /\ sent[i].id <= submitted
          BY <5>0, <1>a DEF OrderInv, SentEntry
        <5>2. QED
          BY <5>1, <1>a, <3>2
      <4>b. QED
        BY <1>a, <2>1, <4>a, NoEntries
    <3>3. QED
      BY <1>a, <2>1, <3>1, <3>2
  <2>3. QED
    BY <1>a, <2>1, <2>2, WellFormedIsHistWFNext, CurQuiet
<1>2. ASSUME NEW p \in IngestPairs, StoreFileData(p[1], p[2])
      PROVE  AllRanked(Len(sent))' /\ AttemptHistoryWellFormed' /\ CurInv'
  BY <1>2, <1>q DEF StoreFileData
<1>3. ASSUME NEW mx \in DrainMax, Drain(mx)
      PROVE  AllRanked(Len(sent))' /\ AttemptHistoryWellFormed' /\ CurInv'
  BY <1>3, <1>q DEF Drain
<1>4. CASE Recv
  <2> DEFINE h == Head(cmd_chan)
  <2>1. /\ wpc = "idle" /\ cmd_chan # <<>> /\ cur' = h
        /\ UNCHANGED <<sent, submitted, outbox>>
        /\ h.cmd.kind = "DownloadFile" => wpc' = "lookup" /\ attempt' = 1
        /\ h.cmd.kind # "DownloadFile" => wpc' = "upload"
    BY <1>4 DEF Recv, h
  <2>2. cmd_chan \in Seq(Tagged) /\ 1 \in DOMAIN cmd_chan /\ h = cmd_chan[1]
    BY <1>a, <2>1 DEF IInv, TypeOK, h
  <2>3. h \in Tagged
    BY <2>2
  <2>4. \A i \in DOMAIN sent : sent[i].id # h.id
    <3> SUFFICES ASSUME NEW i \in DOMAIN sent PROVE sent[i].id # h.id
      OBVIOUS
    <3>1. sent[i] \in SentEntry
      BY <1>a
    <3>2. sent[i].id \in Nat /\ h.id \in Nat /\ sent[i].id < h.id
      BY <1>a, <2>2, <2>3, <3>1 DEF OrderInv, SentEntry, Tagged
    <3>3. QED
      BY <3>2
  <2>5. HistOf(sent, cur.id)' = <<>>
    BY <1>a, <2>1, <2>4, NoEntries
  <2>6. h.cmd.kind \in {"UploadFile", "DownloadFile"}
    BY <2>3 DEF Tagged, Command
  <2>7. CurInv'
    BY <2>1, <2>5, <2>6 DEF CurInv
  <2>8. QED
    BY <1>a, <2>1, <2>7, LogQuiet
<1>5. CASE UploadFile
  <2>1. /\ wpc = "upload" /\ wpc' = "send_final" /\ cur.cmd.kind = "UploadFile"
        /\ outbox'.kind \in {"Error", "FileUploaded"}
        /\ UNCHANGED <<sent, submitted, cur, attempt>>
    BY <1>5, <1>a DEF UploadFile, IInv, WorkerStateConsistent
  <2>2. CurInv'
    BY <1>a, <2>1 DEF CurInv
  <2>3. QED
    BY <1>a, <2>1, <2>2, LogQuiet
<1>6. CASE Backoff
  <2>1. /\ wpc = "backoff" /\ wpc' = "lookup"
        /\ UNCHANGED <<sent, submitted, cur, attempt, outbox>>
    BY <1>6 DEF Backoff
  <2>2. CurInv'
    BY <1>a, <2>1 DEF CurInv
  <2>3. QED
    BY <1>a, <2>1, <2>2, LogQuiet
<1>7. CASE Lookup
  <2> DEFINE miss == [hash |-> cur.cmd.hash, attempt |-> attempt,
                      status |-> StatusOf(FALSE, attempt)]
  <2>1. /\ wpc = "lookup" /\ attempt \in 1..MaxAttempts
        /\ UNCHANGED <<sent, submitted, cur, attempt>>
        /\ wpc' \in {"record", "write"}
        /\ wpc' = "record" => outbox' = AttemptEvent(miss)
        /\ wpc' = "write" => outbox' = outbox
    BY <1>7, <1>a DEF Lookup, IInv, WorkerStateConsistent, miss
  <2>2. SnapOK(miss)
    BY <2>1, StatusSnapOK DEF miss
  <2>3. wpc' = "record" => SnapOK(outbox'.snap)
    <3>1. wpc' = "record" => outbox'.snap = miss
      BY <1>7 DEF Lookup, AttemptEvent, miss, StatusOf
    <3>2. QED
      BY <3>1, <2>2, Zenon
  <2>4. CurInv'
    BY <1>a, <2>1, <2>3 DEF CurInv
  <2>5. QED
    BY <1>a, <2>1, <2>4, LogQuiet
<1>8. CASE Write
  <2>1. PICK ok \in BOOLEAN :
          outbox' = AttemptEvent([hash |-> cur.cmd.hash, attempt |-> attempt,
                                  status |-> StatusOf(ok, attempt)])
    BY <1>8 DEF Write
  <2>2. /\ wpc = "write" /\ wpc' = "record" /\ attempt \in 1..MaxAttempts
        /\ UNCHANGED <<sent, submitted, cur, attempt>>
    BY <1>8, <1>a DEF Write, IInv, WorkerStateConsistent
  <2>3. SnapOK(outbox'.snap)
    BY <2>1, <2>2, StatusSnapOK DEF AttemptEvent
  <2>4. CurInv'
    BY <1>a, <2>2, <2>3 DEF CurInv
  <2>5. QED
    BY <1>a, <2>2, <2>4, LogQuiet
<1>9. CASE Record
  <2>1. /\ wpc = "record" /\ wpc' = "send_attempt"
        /\ UNCHANGED <<sent, submitted, cur, attempt, outbox>>
    BY <1>9 DEF Record
  <2>2. CurInv'
    BY <1>a, <2>1 DEF CurInv
  <2>3. QED
    BY <1>a, <2>1, <2>2, LogQuiet
<1>10. CASE SendAttempt
  <2> DEFINE e == [id |-> cur.id, ev |-> outbox]
             cs == outbox.snap
             A == HistOf(sent, cur.id)
             k == Len(A)
             A2 == Append(A, cs)
  <2>1. /\ wpc = "send_attempt" /\ cur \in Tagged /\ cur.cmd.kind = "DownloadFile"
        /\ attempt \in 1..MaxAttempts
        /\ outbox \in Event /\ outbox.kind = "DownloadAttempt"
        /\ cs \in Snapshot /\ cs.attempt = attempt
    BY <1>10, <1>a, AttemptEventSnap DEF SendAttempt, IInv, TypeOK,
                                        WorkerStateConsistent, cs
  <2>2. /\ SnapOK(cs) /\ k = attempt - 1
        /\ \A i \in 1..k : A[i].attempt = i /\ SnapOK(A[i]) /\ A[i].status = "Retrying"
    BY <1>a, <2>1 DEF CurInv, cs, A, k
  <2>3. /\ sent' = Append(sent, e) /\ UNCHANGED <<submitted, cur>>
        /\ cs.status = "Success" =>
              wpc' = "send_final" /\ attempt' = attempt /\ outbox'.kind = "FileDownloaded"
        /\ cs.status # "Success" /\ attempt >= MaxAttempts =>
              wpc' = "send_final" /\ attempt' = attempt /\ outbox'.kind = "Error"
        /\ cs.status # "Success" /\ ~(attempt >= MaxAttempts) =>
              wpc' = "backoff" /\ attempt' = attempt + 1
    BY <1>10 DEF SendAttempt, Send, e, cs
  <2>4. e \in SentEntry /\ e.id = cur.id /\ e.ev.kind = "DownloadAttempt" /\ e.ev.snap = cs
    BY <2>1 DEF SentEntry, Tagged, e, cs
  <2>5. AllRanked(Len(sent'))
    BY <1>a, <2>3, <2>4, AttemptSnapsAppend
  <2>6. A \in Seq(Snapshot) /\ HistOf(sent', cur.id) = A2
    BY <1>a, <2>4, <2>3, HistType, HistAppend DEF A, A2
  <2>7. /\ A2 \in Seq(Snapshot) /\ Len(A2) = k + 1 /\ k \in Nat
        /\ \A i \in 1..k : A2[i] = A[i]
        /\ A2[k + 1] = cs
    BY <2>1, <2>6, AppendProperties DEF A2, k
  <2>8. \A i \in 1..(k + 1) : A2[i].attempt = i /\ SnapOK(A2[i])
    BY <2>1, <2>2, <2>7
  <2>9. HistOf(sent, cur.id)' = A2
    BY <2>3, <2>6
  <2>10. /\ cs.status \in Statuses
         /\ cs.status = "Retrying" => attempt < MaxAttempts
         /\ cs.status = "Failed" => attempt = MaxAttempts
    BY <2>1, <2>2 DEF Snapshot, SnapOK
  <2>11. /\ Len(A2) <= MaxAttempts
         /\ \A i \in 1..(Len(A2) - 1) : A2[i].status = "Retrying"
    BY <2>1, <2>2, <2>7
  <2>15. CurInv'
    <3>0. cur'.cmd.kind = "DownloadFile" /\ cur'.cmd.kind # "UploadFile"
      BY <2>1, <2>3
    <3>1. CASE cs.status = "Success"
      <4>1. /\ wpc' = "send_final" /\ attempt' = attempt
            /\ outbox'.kind = "FileDownloaded"
        BY <2>3, <3>1
      <4>2. /\ Len(A2) = attempt' /\ A2[Len(A2)].status = "Success"
            /\ \A i \in 1..(Len(A2) - 1) : A2[i].status = "Retrying"
        BY <2>1, <2>2, <2>7, <3>1, <4>1
      <4>3. attempt' \in 1..MaxAttempts
        BY <2>1, <4>1
      <4>4. QED
        BY <3>0, <2>8, <2>9, <4>1, <4>2, <4>3 DEF CurInv
    <3>2. CASE cs.status # "Success" /\ attempt >= MaxAttempts
      <4>1. /\ wpc' = "send_final" /\ attempt' = attempt
            /\ outbox'.kind = "Error"
        BY <2>3, <3>2
      <4>2. attempt = MaxAttempts /\ cs.status = "Failed"
        BY <2>1, <2>10, <3>2 DEF Statuses
      <4>3. /\ Len(A2) = attempt' /\ Len(A2) = MaxAttempts
            /\ A2[Len(A2)].status = "Failed"
            /\ \A i \in 1..(Len(A2) - 1) : A2[i].status = "Retrying"
        BY <2>1, <2>2, <2>7, <4>1, <4>2
      <4>4. attempt' \in 1..MaxAttempts
        BY <2>1, <4>1
      <4>5. QED
        BY <3>0, <2>8, <2>9, <4>1, <4>3, <4>4 DEF CurInv
    <3>3. CASE cs.status # "Success" /\ ~(attempt >= MaxAttempts)
      <4>1. wpc' = "backoff" /\ attempt' = attempt + 1
        BY <2>3, <3>3
      <4>2. cs.status = "Retrying"
        BY <2>1, <2>10, <3>3 DEF Statuses
      <4>3. /\ attempt' \in 1..MaxAttempts /\ Len(A2) = attempt' - 1
            /\ \A i \in 1..Len(A2) : A2[i].status = "Retrying"
        BY <2>1, <2>2, <2>7, <3>3, <4>1, <4>2
      <4>4. QED
        BY <3>0, <2>8, <2>9, <4>1, <4>3 DEF CurInv
    <3>4. QED
      BY <3>1, <3>2, <3>3
  <2>12. HistWF(sent', cur.id)
    <3>1. AttemptsOK(A2)
      BY <2>7, <2>8, <2>11, AttemptsOKI
    <3>2. Finals(sent', cur.id) = {}
      <4>1. Finals(sent, cur.id) = {}
        BY <1>a, <2>1, CurNoFinals
      <4>2. e.ev.kind \notin FinalKinds
        BY <2>4 DEF FinalKinds
      <4>3. Finals(Append(sent, e), cur.id) = Finals(sent, cur.id)
        <5>1. Finals(Append(sent, e), cur.id) =
                Finals(sent, cur.id) \cup
                  (IF e.id = cur.id /\ e.ev.kind \in FinalKinds
                   THEN {Len(sent) + 1} ELSE {})
          BY <1>a, <2>4, HistAppend
        <5>2. QED
          BY <5>1, <4>2
      <4>4. QED
        BY <2>3, <4>1, <4>3
    <3>3. QED
      BY <2>6, <3>1, <3>2 DEF HistWF, OutcomeOK
  <2>13. \A id \in 1..submitted' : HistWF(sent', id)
    <3> SUFFICES ASSUME NEW id \in 1..submitted' PROVE HistWF(sent', id)
      OBVIOUS
    <3>1. CASE id = cur.id
      BY <2>12, <3>1
    <3>2. CASE id # cur.id
      BY <1>a, <2>3, <2>4, <3>2, OtherAppend, WellFormedIsHistWF
    <3>3. QED
      BY <3>1, <3>2
  <2>14. QED
    BY <2>5, <2>15, <2>13, WellFormedIsHistWFNext
<1>11. CASE SendFinal
  <2> DEFINE e == [id |-> cur.id, ev |-> outbox]
             A == HistOf(sent, cur.id)
             k == Len(A)
             f == Len(sent) + 1
  <2>1. /\ wpc = "send_final" /\ cur \in Tagged
        /\ outbox \in Event /\ outbox.kind \in FinalKinds
    BY <1>11, <1>a DEF SendFinal, IInv, TypeOK, WorkerStateConsistent,
                       FinalKinds, NoEvent
  <2>2. /\ sent' = Append(sent, e) /\ wpc' = "idle" /\ UNCHANGED submitted
    BY <1>11 DEF SendFinal, Send, ToIdle, e
  <2>3. e \in SentEntry /\ e.id = cur.id /\ e.ev.kind \in FinalKinds
        /\ e.ev.kind # "DownloadAttempt"
    BY <2>1 DEF SentEntry, Tagged, e, FinalKinds
  <2>4. AllRanked(Len(sent'))
    BY <1>a, <2>2, <2>3, AttemptSnapsAppend
  <2>5. /\ A \in Seq(Snapshot) /\ k \in Nat
        /\ HistOf(sent', cur.id) = A
    <3>1. HistOf(Append(sent, e), cur.id) =
            IF e.id = cur.id /\ e.ev.kind = "DownloadAttempt"
            THEN Append(A, e.ev.snap) ELSE A
      BY <1>a, <2>3, HistAppend DEF A
    <3>2. QED
      BY <1>a, <2>2, <2>3, <3>1, HistType DEF A, k
  <2>6. Finals(sent', cur.id) = {f}
    <3>1. Finals(Append(sent, e), cur.id) =
            Finals(sent, cur.id) \cup
              (IF e.id = cur.id /\ e.ev.kind \in FinalKinds THEN {Len(sent) + 1} ELSE {})
      BY <1>a, <2>3, HistAppend
    <3>2. Finals(sent, cur.id) = {}
      BY <1>a, <2>1, CurNoFinals
    <3>3. QED
      BY <2>2, <2>3, <3>1, <3>2 DEF f
  <2>7. AttemptsOK(A)
    BY <1>a, <2>1, CurWF DEF HistWF, A
  <2>8. /\ outbox.kind = "FileDownloaded" => k >= 1 /\ A[k].status = "Success"
        /\ (outbox.kind = "Error" /\ k > 0) => k = MaxAttempts /\ A[k].status = "Failed"
    <3>1. cur.cmd.kind \in {"UploadFile", "DownloadFile"}
      BY <2>1 DEF Tagged, Command
    <3>2. CASE cur.cmd.kind = "UploadFile"
      <4>1. k = 0 /\ outbox.kind # "FileDownloaded"
        BY <1>a, <2>1, <3>2 DEF CurInv, A, k
      <4>2. QED
        BY <4>1
    <3>3. CASE cur.cmd.kind = "DownloadFile"
      <4>1. /\ attempt \in 1..MaxAttempts /\ k = attempt
            /\ outbox.kind = "FileDownloaded" => A[k].status = "Success"
            /\ outbox.kind = "Error" => k = MaxAttempts /\ A[k].status = "Failed"
        BY <1>a, <2>1, <3>3 DEF CurInv, A, k
      <4>2. QED
        BY <4>1
    <3>4. QED
      BY <3>1, <3>2, <3>3
  <2>9. OutcomeOK(sent', cur.id, A)
    <3>1. /\ DOMAIN sent' = 1..f
          /\ sent'[f] = e
          /\ f \in Nat
      BY <1>a, <2>2, AppendProperties DEF f
    <3>2. \A j \in DOMAIN sent' :
             (sent'[j].id = cur.id /\ sent'[j].ev.kind = "DownloadAttempt") => j < f
      BY <2>3, <3>1
    <3>3. /\ sent'[f].ev.kind = "FileDownloaded" => k >= 1 /\ A[k].status = "Success"
          /\ (sent'[f].ev.kind = "Error" /\ k > 0) =>
                k = MaxAttempts /\ A[k].status = "Failed"
      BY <2>8, <3>1 DEF e
    <3>4. QED
      BY <2>6, <3>2, <3>3 DEF OutcomeOK, k
  <2>10. HistWF(sent', cur.id)
    BY <2>5, <2>7, <2>9 DEF HistWF
  <2>11. \A id \in 1..submitted' : HistWF(sent', id)
    <3> SUFFICES ASSUME NEW id \in 1..submitted' PROVE HistWF(sent', id)
      OBVIOUS
    <3>1. CASE id = cur.id
      BY <2>10, <3>1
    <3>2. CASE id # cur.id
      BY <1>a, <2>2, <2>3, <3>2, OtherAppend, WellFormedIsHistWF
    <3>3. QED
      BY <3>1, <3>2
  <2>12. CurInv'
    BY <2>2 DEF CurInv
  <2>13. QED
    BY <2>4, <2>11, <2>12, WellFormedIsHistWFNext
<1>12. CASE UNCHANGED vars
  BY <1>12, <1>q DEF vars
<1>13. QED
  BY <1>1, <1>2, <1>3, <1>4, <1>5, <1>6, <1>7, <1>8, <1>9, <1>10, <1>11, <1>12
     DEF Next, Worker

(* For every value of the constants, every download the worker has taken  *)
(* reports its attempts as download_with_retries makes them: numbered     *)
(* 1, 2, .. within MAX_DOWNLOAD_ATTEMPTS, Retrying on all but the last,    *)
(* with the FileDownloaded or Error outcome sent after the last attempt    *)
(* and agreeing with it.                                                    *)
THEOREM AttemptHistoryCorrect == Spec => []AttemptHistoryWellFormed
<1>1. Spec => []AInv
  BY InitAInv, NextAInv, PTL DEF Spec
<1>2. QED
  BY <1>1, PTL DEF AInv

=============================================================================

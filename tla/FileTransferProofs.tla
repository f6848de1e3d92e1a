------------------------- MODULE FileTransferProofs -------------------------
(***************************************************************************)
(* Proofs about FileTransfer for every value of its constants.            *)
(*                                                                         *)
(* TypeOK alone is not inductive: Record reads outbox.snap, Lookup reads  *)
(* cur.cmd.hash and Write stores held, which have their types only at the *)
(* worker's matching program points.  IInv adds WorkerStateConsistent,    *)
(* which ties those worker variables to wpc, and is inductive.            *)
(***************************************************************************)
EXTENDS FileTransfer, TLAPS

IInv == TypeOK /\ WorkerStateConsistent

(* The entries of the log of sent events. *)
SentEntry == [id : 1..MaxCmds, ev : Event]

-----------------------------------------------------------------------------
(* Lemmas about the helpers.                                               *)

LEMMA SatIncType ==
    ASSUME NEW x \in 0..CounterMax
    PROVE  SatInc(x) \in 0..CounterMax
BY ConstAssumption DEF SatInc

(* record_attempt keeps the metrics well typed and the history bounded. *)
LEMMA RecordAttemptType ==
    ASSUME NEW m \in Metrics, Len(m.recent_attempts) <= HistCap,
           NEW s \in Snapshot
    PROVE  /\ RecordAttempt(m, s) \in Metrics
           /\ Len(RecordAttempt(m, s).recent_attempts) <= HistCap
<1> DEFINE pushed == <<s>> \o m.recent_attempts
<1>1. pushed \in Seq(Snapshot) /\ Len(pushed) = Len(m.recent_attempts) + 1
  BY DEF Metrics
<1>2. (IF Len(pushed) > HistCap THEN SubSeq(pushed, 1, HistCap) ELSE pushed)
         \in Seq(Snapshot)
  BY <1>1, ConstAssumption
<1>3. Len(IF Len(pushed) > HistCap THEN SubSeq(pushed, 1, HistCap) ELSE pushed)
         <= HistCap
  BY <1>1, ConstAssumption
<1>4. /\ m.total_retries \in 0..CounterMax
      /\ m.total_success \in 0..CounterMax
      /\ m.total_failures \in 0..CounterMax
  BY DEF Metrics
<1>5. QED
  BY <1>2, <1>3, <1>4, SatIncType DEF RecordAttempt, Metrics

(* A download command carries a hash and a path. *)
LEMMA DownloadFields ==
    ASSUME NEW c \in Command, c.kind = "DownloadFile"
    PROVE  c.hash \in Hashes /\ c.path \in Paths
BY DEF Command

LEMMA SnapshotOf ==
    ASSUME NEW h \in Hashes, NEW a \in 1..MaxAttempts, NEW ok \in BOOLEAN
    PROVE  [hash |-> h, attempt |-> a, status |-> StatusOf(ok, a)] \in Snapshot
BY DEF Snapshot, StatusOf, Statuses

(* An event the worker holds with kind DownloadAttempt carries a snapshot. *)
LEMMA AttemptEventSnap ==
    ASSUME NEW e \in Event \cup {NoEvent}, e.kind = "DownloadAttempt"
    PROVE  e \in Event /\ e.snap \in Snapshot
BY DEF Event, NoEvent

-----------------------------------------------------------------------------

LEMMA InitIInv == Init => IInv
BY ConstAssumption
   DEF Init, IInv, TypeOK, WorkerStateConsistent, Metrics, NoCmd, NoEvent,
       WorkerPcs

LEMMA NextIInv == IInv /\ [Next]_vars => IInv'
<1> SUFFICES ASSUME IInv, [Next]_vars PROVE IInv'
  OBVIOUS
<1> USE ConstAssumption
<1>1. ASSUME NEW c \in Command, Submit(c) PROVE IInv'
  BY <1>1 DEF Submit, IInv, TypeOK, WorkerStateConsistent, Tagged
<1>2. ASSUME NEW p \in IngestPairs, StoreFileData(p[1], p[2]) PROVE IInv'
  BY <1>2 DEF StoreFileData, IInv, TypeOK, WorkerStateConsistent
<1>3. ASSUME NEW mx \in DrainMax, Drain(mx) PROVE IInv'
  BY <1>3 DEF Drain, IInv, TypeOK, WorkerStateConsistent
<1>4. CASE Recv
  <2>1. Head(cmd_chan) \in Tagged
    BY <1>4 DEF Recv, IInv, TypeOK
  <2>2. /\ cmd_chan' \in Seq(Tagged) /\ Len(cmd_chan') <= CmdCap
        /\ wpc' \in WorkerPcs /\ attempt' \in 0..MaxAttempts
        /\ cur' \in Tagged \cup {NoCmd}
    BY <1>4, <2>1 DEF Recv, IInv, TypeOK, WorkerPcs
  <2>3. TypeOK'
    <3> HIDE DEF Tagged
    <3> QED
      BY <1>4, <2>2 DEF Recv, IInv, TypeOK
  <2>4. WorkerStateConsistent'
    BY <1>4, <2>1 DEF Recv, IInv, WorkerStateConsistent, Tagged, Command
  <2>5. QED
    BY <2>3, <2>4 DEF IInv
<1>5. CASE UploadFile
  <2>1. cur \in Tagged /\ cur.cmd.kind = "UploadFile"
    BY <1>5 DEF UploadFile, IInv, WorkerStateConsistent
  <2>2. cur.cmd.src \in Sources
    BY <2>1 DEF Tagged, Command
  <2>3. TypeOK'
    BY <1>5, <2>2 DEF UploadFile, IInv, TypeOK, Event, WorkerPcs
  <2>4. WorkerStateConsistent'
    BY <1>5 DEF UploadFile, IInv, WorkerStateConsistent, FinalKinds
  <2>5. QED
    BY <2>3, <2>4 DEF IInv
<1>6. CASE Backoff
  BY <1>6 DEF Backoff, IInv, TypeOK, WorkerStateConsistent, WorkerPcs
<1>7. CASE Lookup
  <2>1. /\ cur \in Tagged /\ cur.cmd.kind = "DownloadFile"
        /\ attempt \in 1..MaxAttempts
    BY <1>7 DEF Lookup, IInv, WorkerStateConsistent
  <2>2. cur.cmd.hash \in Hashes
    BY <2>1, DownloadFields DEF Tagged
  <2>3. AttemptEvent([hash |-> cur.cmd.hash, attempt |-> attempt,
                      status |-> StatusOf(FALSE, attempt)]) \in Event
    BY <2>1, <2>2, SnapshotOf DEF AttemptEvent, Event
  <2>4. TypeOK'
    BY <1>7, <2>2, <2>3 DEF Lookup, IInv, TypeOK, WorkerPcs
  <2>5. WorkerStateConsistent'
    <3>1. CASE stored_files[cur.cmd.hash] = None
      BY <1>7, <2>1, <3>1 DEF Lookup, IInv, WorkerStateConsistent, AttemptEvent
    <3>2. CASE stored_files[cur.cmd.hash] # None
      <4>1. stored_files[cur.cmd.hash] \in Data
        BY <2>2, <3>2 DEF IInv, TypeOK
      <4>2. QED
        BY <1>7, <2>1, <3>2, <4>1 DEF Lookup, IInv, WorkerStateConsistent
    <3>3. QED
      BY <3>1, <3>2
  <2>6. QED
    BY <2>4, <2>5 DEF IInv
<1>8. CASE Write
  <2>1. /\ cur \in Tagged /\ cur.cmd.kind = "DownloadFile"
        /\ attempt \in 1..MaxAttempts /\ held \in Data
    BY <1>8 DEF Write, IInv, WorkerStateConsistent
  <2>2. cur.cmd.hash \in Hashes /\ cur.cmd.path \in Paths
    BY <2>1, DownloadFields DEF Tagged
  <2>3. \A ok \in BOOLEAN :
          AttemptEvent([hash |-> cur.cmd.hash, attempt |-> attempt,
                        status |-> StatusOf(ok, attempt)]) \in Event
    BY <2>1, <2>2, SnapshotOf DEF AttemptEvent, Event
  <2>4. TypeOK'
    BY <1>8, <2>1, <2>2, <2>3 DEF Write, IInv, TypeOK, WorkerPcs
  <2>5. WorkerStateConsistent'
    BY <1>8, <2>1 DEF Write, IInv, WorkerStateConsistent, AttemptEvent
  <2>6. QED
    BY <2>4, <2>5 DEF IInv
<1>9. CASE Record
  <2>1. outbox.snap \in Snapshot
    BY <1>9, AttemptEventSnap DEF Record, IInv, TypeOK, WorkerStateConsistent
  <2>2. TypeOK'
    BY <1>9, <2>1, RecordAttemptType DEF Record, IInv, TypeOK, WorkerPcs
  <2>3. WorkerStateConsistent'
    BY <1>9 DEF Record, IInv, WorkerStateConsistent
  <2>4. QED
    BY <2>2, <2>3 DEF IInv
<1>10. CASE SendAttempt
  <2>1. /\ cur \in Tagged /\ cur.cmd.kind = "DownloadFile"
        /\ attempt \in 1..MaxAttempts
        /\ outbox \in Event /\ outbox.kind = "DownloadAttempt"
    BY <1>10, AttemptEventSnap DEF SendAttempt, IInv, TypeOK, WorkerStateConsistent
  <2>2. cur.cmd.path \in Paths /\ cur.id \in 1..MaxCmds
    BY <2>1, DownloadFields DEF Tagged
  <2>3. TypeOK'
    BY <1>10, <2>1, <2>2 DEF SendAttempt, Send, IInv, TypeOK, Event, WorkerPcs
  <2>4. WorkerStateConsistent'
    BY <1>10, <2>1 DEF SendAttempt, Send, IInv, WorkerStateConsistent, FinalKinds
  <2>5. QED
    BY <2>3, <2>4 DEF IInv
<1>11. CASE SendFinal
  <2>1. cur \in Tagged /\ outbox \in Event
    BY <1>11 DEF SendFinal, IInv, TypeOK, WorkerStateConsistent, FinalKinds, NoEvent
  <2>2. TypeOK'
    BY <1>11, <2>1 DEF SendFinal, Send, ToIdle, IInv, TypeOK, Tagged, NoCmd,
                       NoEvent, WorkerPcs
  <2>3. WorkerStateConsistent'
    BY <1>11 DEF SendFinal, ToIdle, IInv, WorkerStateConsistent
  <2>4. QED
    BY <2>2, <2>3 DEF IInv
<1>12. CASE UNCHANGED vars
  BY <1>12 DEF vars, IInv, TypeOK, WorkerStateConsistent
<1>13. QED
  BY <1>1, <1>2, <1>3, <1>4, <1>5, <1>6, <1>7, <1>8, <1>9, <1>10, <1>11, <1>12
     DEF Next, Worker

(* The file-transfer service's state is always well typed: both channels *)
(* stay within capacity, the metrics counters within their width and     *)
(* recent_attempts within 20 entries, whatever the constants.             *)
THEOREM TypeCorrect == Spec => []TypeOK
<1>1. Spec => []IInv
  BY InitIInv, NextIInv, PTL DEF Spec
<1>2. QED
  BY <1>1, PTL DEF IInv

(* What the worker task holds always agrees with where it is in           *)
(* run_file_transfer_service and download_with_retries: the command it    *)
(* handles, the attempt number within the budget, the bytes cloned out of *)
(* the store up to the write, and the snapshot recorded before its send.  *)
THEOREM WorkerConsistent == Spec => []WorkerStateConsistent
<1>1. Spec => []IInv
  BY InitIInv, NextIInv, PTL DEF Spec
<1>2. QED
  BY <1>1, PTL DEF IInv

-----------------------------------------------------------------------------
(* A reported download holds the requested content.                        *)
(*                                                                         *)
(* DownloadedBytesMatchHash is not inductive: it speaks only of the step  *)
(* before the FileDownloaded send, and depends on what the worker holds   *)
(* from the lookup on.  CInv adds that the store is content addressed,    *)
(* that the bytes held at the write are the requested hash's, and that a *)
(* Success snapshot waiting to be recorded or sent follows a write of     *)
(* exactly those bytes.  It needs the transport feeding store_file_data  *)
(* to be honest: ft_untrusted_ingest shows the store losing its content  *)
(* addressing otherwise.                                                   *)

(* Every pair store_file_data callers pass is keyed by its digest. *)
HonestIngest == \A p \in IngestPairs : Digest[p[2]] = p[1]

ContentHeld ==
    /\ wpc = "write" => Digest[held] = cur.cmd.hash
    /\ (wpc \in {"record", "send_attempt"} /\ outbox.snap.status = "Success") =>
          /\ held \in Data
          /\ out[cur.cmd.path] = held
          /\ Digest[held] = cur.cmd.hash

CInv == IInv /\ StoreKeyIsDigest /\ ContentHeld /\ DownloadedBytesMatchHash

LEMMA InitCInv == Init => CInv
<1> SUFFICES ASSUME Init PROVE CInv
  OBVIOUS
<1>1. IInv
  BY InitIInv
<1>2. StoreKeyIsDigest /\ ContentHeld /\ DownloadedBytesMatchHash
  BY DEF Init, StoreKeyIsDigest, ContentHeld, DownloadedBytesMatchHash
<1>3. QED
  BY <1>1, <1>2 DEF CInv

LEMMA NextCInv ==
    ASSUME HonestIngest
    PROVE  CInv /\ [Next]_vars => CInv'
<1> SUFFICES ASSUME CInv, [Next]_vars PROVE CInv'
  OBVIOUS
<1> USE ConstAssumption
<1>0. IInv'
  BY NextIInv DEF CInv
<1> SUFFICES (StoreKeyIsDigest /\ ContentHeld /\ DownloadedBytesMatchHash)'
  BY <1>0 DEF CInv
<1>1. ASSUME NEW c \in Command, Submit(c) PROVE (StoreKeyIsDigest /\ ContentHeld /\ DownloadedBytesMatchHash)'
  BY <1>1 DEF Submit, CInv, StoreKeyIsDigest, ContentHeld, DownloadedBytesMatchHash
<1>2. ASSUME NEW p \in IngestPairs, StoreFileData(p[1], p[2]) PROVE (StoreKeyIsDigest /\ ContentHeld /\ DownloadedBytesMatchHash)'
  <2>1. p[1] \in Hashes /\ p[2] \in Data /\ Digest[p[2]] = p[1]
    BY DEF HonestIngest
  <2>2. StoreKeyIsDigest'
    BY <1>2, <2>1 DEF StoreFileData, CInv, IInv, TypeOK, StoreKeyIsDigest
  <2>3. QED
    BY <1>2, <2>2 DEF StoreFileData, CInv, ContentHeld, DownloadedBytesMatchHash
<1>3. ASSUME NEW mx \in DrainMax, Drain(mx) PROVE (StoreKeyIsDigest /\ ContentHeld /\ DownloadedBytesMatchHash)'
  BY <1>3 DEF Drain, CInv, StoreKeyIsDigest, ContentHeld, DownloadedBytesMatchHash
<1>4. CASE Recv
  BY <1>4 DEF Recv, CInv, StoreKeyIsDigest, ContentHeld, DownloadedBytesMatchHash
<1>5. CASE UploadFile
  <2>1. StoreKeyIsDigest'
    BY <1>5 DEF UploadFile, CInv, IInv, TypeOK, StoreKeyIsDigest
  <2>2. QED
    BY <1>5, <2>1 DEF UploadFile, ContentHeld, DownloadedBytesMatchHash
<1>6. CASE Backoff
  BY <1>6 DEF Backoff, CInv, StoreKeyIsDigest, ContentHeld, DownloadedBytesMatchHash
<1>7. CASE Lookup
  <2>1. /\ cur \in Tagged /\ cur.cmd.kind = "DownloadFile"
        /\ attempt \in 1..MaxAttempts
        /\ cur.cmd.hash \in Hashes
    BY <1>7, DownloadFields DEF Lookup, CInv, IInv, WorkerStateConsistent, Tagged
  <2>2. CASE stored_files[cur.cmd.hash] = None
    <3>1. StatusOf(FALSE, attempt) # "Success"
      BY DEF StatusOf
    <3>2. /\ wpc' = "record"
          /\ outbox' = AttemptEvent([hash |-> cur.cmd.hash, attempt |-> attempt,
                                     status |-> StatusOf(FALSE, attempt)])
          /\ UNCHANGED <<stored_files, held, out, cur>>
      BY <1>7, <2>2 DEF Lookup
    <3>3. outbox'.snap.status # "Success"
      BY <3>1, <3>2 DEF AttemptEvent
    <3>4. QED
      BY <3>2, <3>3 DEF CInv, StoreKeyIsDigest, ContentHeld, DownloadedBytesMatchHash
  <2>3. CASE stored_files[cur.cmd.hash] # None
    <3>1. Digest[stored_files[cur.cmd.hash]] = cur.cmd.hash
      BY <2>1, <2>3 DEF CInv, StoreKeyIsDigest
    <3>2. QED
      BY <1>7, <2>3, <3>1 DEF Lookup, CInv, StoreKeyIsDigest, ContentHeld,
                             DownloadedBytesMatchHash
  <2>4. QED
    BY <2>2, <2>3
<1>8. CASE Write
  <2>1. /\ cur \in Tagged /\ cur.cmd.kind = "DownloadFile"
        /\ attempt \in 1..MaxAttempts /\ held \in Data
        /\ Digest[held] = cur.cmd.hash
    BY <1>8 DEF Write, CInv, IInv, WorkerStateConsistent, ContentHeld
  <2>2. PICK ok \in BOOLEAN :
          /\ IF ok THEN out' = [out EXCEPT ![cur.cmd.path] = held]
             ELSE \E f \in {out[cur.cmd.path], Partial, held} :
                     out' = [out EXCEPT ![cur.cmd.path] = f]
          /\ outbox' = AttemptEvent([hash |-> cur.cmd.hash, attempt |-> attempt,
                                     status |-> StatusOf(ok, attempt)])
    BY <1>8 DEF Write
  <2>3. cur.cmd.path \in Paths /\ out \in [Paths -> Data \cup {None, Partial}]
    BY <2>1, DownloadFields DEF Tagged, CInv, IInv, TypeOK
  <2>4. CASE ok
    BY <1>8, <2>1, <2>2, <2>3, <2>4 DEF Write, AttemptEvent, StatusOf, CInv,
                                      StoreKeyIsDigest, ContentHeld,
                                      DownloadedBytesMatchHash
  <2>5. CASE ~ok
    <3>1. StatusOf(ok, attempt) # "Success"
      BY <2>5 DEF StatusOf
    <3>2. QED
      BY <1>8, <2>2, <3>1 DEF Write, AttemptEvent, CInv, StoreKeyIsDigest,
                             ContentHeld, DownloadedBytesMatchHash
  <2>6. QED
    BY <2>4, <2>5
<1>9. CASE Record
  BY <1>9 DEF Record, CInv, StoreKeyIsDigest, ContentHeld, DownloadedBytesMatchHash
<1>10. CASE SendAttempt
  <2>1. CASE outbox.snap.status = "Success"
    <3>1. /\ held \in Data /\ out[cur.cmd.path] = held
          /\ Digest[held] = cur.cmd.hash
      <4>1. wpc = "send_attempt"
        BY <1>10 DEF SendAttempt
      <4>2. QED
        BY <2>1, <4>1 DEF CInv, ContentHeld
    <3>2. /\ wpc' = "send_final"
          /\ outbox' = [kind |-> "FileDownloaded", path |-> cur.cmd.path]
          /\ UNCHANGED <<stored_files, held, out, cur>>
      BY <1>10, <2>1, Zenon DEF SendAttempt
    <3>3. QED
      BY <3>1, <3>2 DEF CInv, StoreKeyIsDigest, ContentHeld,
                        DownloadedBytesMatchHash
  <2>2. CASE outbox.snap.status # "Success"
    <3>1. \/ wpc' = "send_final" /\ outbox' = [kind |-> "Error"]
          \/ wpc' = "backoff"
      BY <1>10, <2>2 DEF SendAttempt
    <3>2. QED
      BY <1>10, <3>1 DEF SendAttempt, CInv, StoreKeyIsDigest, ContentHeld,
                        DownloadedBytesMatchHash
  <2>3. QED
    BY <2>1, <2>2
<1>11. CASE SendFinal
  BY <1>11 DEF SendFinal, ToIdle, CInv, StoreKeyIsDigest, ContentHeld,
               DownloadedBytesMatchHash
<1>12. CASE UNCHANGED vars
  BY <1>12 DEF vars, CInv, StoreKeyIsDigest, ContentHeld, DownloadedBytesMatchHash
<1>13. QED
  BY <1>1, <1>2, <1>3, <1>4, <1>5, <1>6, <1>7, <1>8, <1>9, <1>10, <1>11, <1>12
     DEF Next, Worker

(* With an honest transport feeding store_file_data, whenever the worker  *)
(* reports FileDownloaded the output file holds bytes whose SHA-256 is   *)
(* the requested hash, for every value of the constants: the lookup/write *)
(* gap and half-written files from earlier attempts never lead to a      *)
(* wrong or partial file reported as downloaded.                           *)
THEOREM DownloadedContentCorrect ==
    ASSUME HonestIngest
    PROVE  Spec => []DownloadedBytesMatchHash
<1>1. Spec => []CInv
  BY InitCInv, NextCInv, PTL DEF Spec
<1>2. QED
  BY <1>1, PTL DEF CInv

=============================================================================

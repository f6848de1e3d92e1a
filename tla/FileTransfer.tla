---------------------------- MODULE FileTransfer ----------------------------
(***************************************************************************)
(* The file-transfer service of src/src-tauri/src/file_transfer.rs: the   *)
(* command channel, the single worker task run_file_transfer_service, the  *)
(* retrying download loop download_with_retries with its attempt           *)
(* snapshots, the metrics aggregator DownloadMetrics, the event channel   *)
(* drained by drain_events, and the in-memory content store stored_files  *)
(* that the worker and store_file_data callers share.                      *)
(*                                                                         *)
(* Every await of the worker is a step boundary: the store lookup (under  *)
(* its mutex) and the write of the output file are two steps, so other    *)
(* tasks can change the store in between; recording the metrics and       *)
(* sending the attempt event are two steps; every send on the bounded     *)
(* event channel blocks while the channel is full.                        *)
(***************************************************************************)
EXTENDS Naturals, Sequences, FiniteSets

CONSTANTS
    Data,          \* file contents (the bytes of a file), abstracted
    Hashes,        \* content-hash strings
    Digest,        \* calculate_file_hash: SHA-256 of the bytes, as a function Data -> Hashes
    Sources,       \* paths of files a caller may upload
    Disk,          \* Disk[s]: the contents of upload source s, or NoFile when it cannot be read
    Paths,         \* output paths of downloads
    IngestPairs,   \* the <<hash, bytes>> pairs store_file_data callers pass in
    NoFile, None, Partial,  \* model values: unreadable source, empty slot, half-written file
    MaxAttempts,   \* MAX_DOWNLOAD_ATTEMPTS (3)
    HistCap,       \* capacity of recent_attempts (20)
    CounterMax,    \* the largest value of a metrics counter (u64::MAX)
    CmdCap,        \* capacity of the command channel (100)
    EventCap,      \* capacity of the event channel (100)
    DrainMax,      \* the values of drain_events' max argument callers use
    MaxCmds        \* bound on the commands submitted in one behaviour

ASSUME ConstAssumption ==
    /\ Digest \in [Data -> Hashes]
    /\ Disk \in [Sources -> Data \cup {NoFile}]
    /\ IngestPairs \subseteq Hashes \X Data
    /\ {NoFile, None, Partial} \cap (Data \cup Hashes) = {}
    /\ NoFile # None /\ None # Partial /\ NoFile # Partial
    /\ MaxAttempts \in Nat \ {0}
    /\ HistCap \in Nat \ {0}
    /\ CounterMax \in Nat \ {0}
    /\ CmdCap \in Nat \ {0}
    /\ EventCap \in Nat \ {0}
    /\ DrainMax \subseteq Nat \ {0}
    /\ MaxCmds \in Nat

Statuses == {"Retrying", "Success", "Failed"}

(* DownloadAttemptSnapshot, without max_attempts (a constant), duration_ms *)
(* and timestamp (wall-clock readings no property tells apart).            *)
Snapshot == [hash : Hashes, attempt : 1..MaxAttempts, status : Statuses]

(* FileTransferCommand as the public API builds it: upload_file and       *)
(* download_file.  GetStoredFiles has no sender in the code.              *)
Command == [kind : {"UploadFile"}, src : Sources]
             \cup [kind : {"DownloadFile"}, hash : Hashes, path : Paths]

(* FileTransferEvent.  Error messages and file names are abstracted; the  *)
(* code never sends FileNotFound.                                          *)
Event == [kind : {"FileUploaded"}, hash : Hashes]
           \cup [kind : {"FileDownloaded"}, path : Paths]
           \cup [kind : {"Error"}]
           \cup [kind : {"DownloadAttempt"}, snap : Snapshot]

FinalKinds == {"FileUploaded", "FileDownloaded", "Error"}

WorkerPcs == {"idle", "upload", "backoff", "lookup", "write", "record",
              "send_attempt", "send_final"}

VARIABLES
    stored_files,     \* hash -> bytes, or None when absent
    out,              \* the output files: path -> bytes, None or Partial
    cmd_chan,         \* the command channel; each entry carries a ghost id
    event_chan,       \* the event channel
    download_metrics, \* DownloadMetrics
    wpc,              \* where the worker task is
    cur,              \* the command the worker is handling (with its ghost id)
    attempt,          \* download_with_retries' attempt counter
    held,             \* the bytes copied out of the store by the last lookup
    outbox,           \* the event the worker is about to record or send
    submitted,        \* ghost: number of commands submitted so far
    sent              \* ghost: every event sent, in order, tagged with its command id

vars == <<stored_files, out, cmd_chan, event_chan, download_metrics, wpc,
          cur, attempt, held, outbox, submitted, sent>>

Tagged == [id : 1..MaxCmds, cmd : Command]
NoCmd == [id |-> 0, cmd |-> [kind |-> "None"]]
NoEvent == [kind |-> "None"]
Metrics == [total_success : 0..CounterMax, total_failures : 0..CounterMax,
            total_retries : 0..CounterMax, recent_attempts : Seq(Snapshot)]

TypeOK ==
    /\ stored_files \in [Hashes -> Data \cup {None}]
    /\ out \in [Paths -> Data \cup {None, Partial}]
    /\ cmd_chan \in Seq(Tagged) /\ Len(cmd_chan) <= CmdCap
    /\ event_chan \in Seq(Event) /\ Len(event_chan) <= EventCap
    /\ download_metrics \in Metrics
    /\ Len(download_metrics.recent_attempts) <= HistCap
    /\ wpc \in WorkerPcs
    /\ cur \in Tagged \cup {NoCmd}
    /\ attempt \in 0..MaxAttempts
    /\ held \in Data \cup {None}
    /\ outbox \in Event \cup {NoEvent}
    /\ submitted \in 0..MaxCmds
    /\ sent \in Seq([id : 1..MaxCmds, ev : Event])

-----------------------------------------------------------------------------
(* Helpers translated from the code.                                       *)

(* u64::saturating_add(1) with u64::MAX = CounterMax. *)
SatInc(x) == IF x < CounterMax THEN x + 1 ELSE x

(* Mutant: the final attempt compared with > instead of >=. *)
StatusOfOffByOne(ok, a) ==
    IF ok THEN "Success"
    ELSE IF a > MaxAttempts THEN "Failed" ELSE "Retrying"

(* The status of a finished attempt (download_with_retries). *)
StatusOf(ok, a) ==
    IF ok THEN "Success"
    ELSE IF a >= MaxAttempts THEN "Failed" ELSE "Retrying"

(* Mutant: a failed attempt also counted as a retry. *)
RecordAttemptFailIsRetry(m, s) ==
    LET pushed == <<s>> \o m.recent_attempts
    IN [m EXCEPT
          !.total_retries  = IF s.status \in {"Retrying", "Failed"} THEN SatInc(@) ELSE @,
          !.total_success  = IF s.status = "Success"  THEN SatInc(@) ELSE @,
          !.total_failures = IF s.status = "Failed"   THEN SatInc(@) ELSE @,
          !.recent_attempts = IF Len(pushed) > HistCap
                              THEN SubSeq(pushed, 1, HistCap) ELSE pushed]

(* Mutant: eviction from the front (pop_front) instead of the back. *)
RecordAttemptPopFront(m, s) ==
    LET pushed == <<s>> \o m.recent_attempts
    IN [m EXCEPT
          !.total_retries  = IF s.status = "Retrying" THEN SatInc(@) ELSE @,
          !.total_success  = IF s.status = "Success"  THEN SatInc(@) ELSE @,
          !.total_failures = IF s.status = "Failed"   THEN SatInc(@) ELSE @,
          !.recent_attempts = IF Len(pushed) > HistCap
                              THEN SubSeq(pushed, Len(pushed) - HistCap + 1, Len(pushed))
                              ELSE pushed]

(* DownloadMetrics::record_attempt: bump the counter of the status, push   *)
(* the snapshot at the front, pop from the back while above capacity.      *)
RecordAttempt(m, s) ==
    LET pushed == <<s>> \o m.recent_attempts
    IN [m EXCEPT
          !.total_retries  = IF s.status = "Retrying" THEN SatInc(@) ELSE @,
          !.total_success  = IF s.status = "Success"  THEN SatInc(@) ELSE @,
          !.total_failures = IF s.status = "Failed"   THEN SatInc(@) ELSE @,
          !.recent_attempts = IF Len(pushed) > HistCap
                              THEN SubSeq(pushed, 1, HistCap) ELSE pushed]

AttemptEvent(s) == [kind |-> "DownloadAttempt", snap |-> s]

(* Mutant: send without waiting for channel capacity. *)
SendUnbounded(e) ==
    /\ event_chan' = Append(event_chan, e)
    /\ sent' = Append(sent, [id |-> cur.id, ev |-> e])

(* The worker hands event e to the bounded channel: send().await blocks   *)
(* while the channel is full; the receiver is never dropped.               *)
Send(e) ==
    /\ Len(event_chan) < EventCap
    /\ event_chan' = Append(event_chan, e)
    /\ sent' = Append(sent, [id |-> cur.id, ev |-> e])

(* The worker goes back to cmd_rx.recv(). *)
ToIdle ==
    /\ wpc' = "idle" /\ cur' = NoCmd /\ attempt' = 0
    /\ held' = None /\ outbox' = NoEvent

-----------------------------------------------------------------------------
(* Callers.                                                                *)

(* upload_file / download_file: cmd_tx.send(cmd).await, waiting while the *)
(* command channel is full.                                                *)
Submit(c) ==
    /\ submitted < MaxCmds
    /\ Len(cmd_chan) < CmdCap
    /\ cmd_chan' = Append(cmd_chan, [id |-> submitted + 1, cmd |-> c])
    /\ submitted' = submitted + 1
    /\ UNCHANGED <<stored_files, out, event_chan, download_metrics, wpc, cur,
                   attempt, held, outbox, sent>>

(* store_file_data: insert under the store mutex, unchecked. *)
StoreFileData(h, d) ==
    /\ stored_files' = [stored_files EXCEPT ![h] = d]
    /\ UNCHANGED <<out, cmd_chan, event_chan, download_metrics, wpc, cur,
                   attempt, held, outbox, submitted, sent>>

(* drain_events(max): try_recv up to max times, stopping at the first     *)
(* empty receive.                                                          *)
Drain(max) ==
    /\ event_chan # <<>>
    /\ LET k == IF max < Len(event_chan) THEN max ELSE Len(event_chan)
       IN event_chan' = SubSeq(event_chan, k + 1, Len(event_chan))
    /\ UNCHANGED <<stored_files, out, cmd_chan, download_metrics, wpc, cur,
                   attempt, held, outbox, submitted, sent>>

-----------------------------------------------------------------------------
(* The worker task run_file_transfer_service.                              *)

(* Mutant: the worker takes any queued command, not the oldest. *)
RecvAnyQueued ==
    /\ wpc = "idle"
    /\ \E i \in DOMAIN cmd_chan :
         /\ cur' = cmd_chan[i]
         /\ cmd_chan' = SubSeq(cmd_chan, 1, i - 1) \o SubSeq(cmd_chan, i + 1, Len(cmd_chan))
         /\ IF cmd_chan[i].cmd.kind = "DownloadFile"
            THEN wpc' = "lookup" /\ attempt' = 1
            ELSE wpc' = "upload" /\ UNCHANGED attempt
    /\ UNCHANGED <<stored_files, out, event_chan, download_metrics, held,
                   outbox, submitted, sent>>

(* cmd_rx.recv() returns a command; a download enters the retry loop with *)
(* attempt = 1, which has no backoff.                                      *)
Recv ==
    /\ wpc = "idle"
    /\ cmd_chan # <<>>
    /\ cur' = Head(cmd_chan)
    /\ cmd_chan' = Tail(cmd_chan)
    /\ IF Head(cmd_chan).cmd.kind = "DownloadFile"
       THEN wpc' = "lookup" /\ attempt' = 1
       ELSE wpc' = "upload" /\ UNCHANGED attempt
    /\ UNCHANGED <<stored_files, out, event_chan, download_metrics, held,
                   outbox, submitted, sent>>

(* Mutant: the read-error arm never completes, so the worker hangs on an *)
(* unreadable source instead of reporting Error.                          *)
UploadFileErrorHangs ==
    /\ wpc = "upload"
    /\ Disk[cur.cmd.src] # NoFile
    /\ stored_files' = [stored_files EXCEPT ![Digest[Disk[cur.cmd.src]]] = Disk[cur.cmd.src]]
    /\ outbox' = [kind |-> "FileUploaded", hash |-> Digest[Disk[cur.cmd.src]]]
    /\ wpc' = "send_final"
    /\ UNCHANGED <<out, cmd_chan, event_chan, download_metrics, cur, attempt,
                   held, submitted, sent>>

(* handle_upload_file: read the source, hash it, insert under the store   *)
(* mutex; the worker then sends FileUploaded, or Error if the read failed. *)
UploadFile ==
    /\ wpc = "upload"
    /\ LET bytes == Disk[cur.cmd.src]
       IN IF bytes = NoFile
          THEN /\ outbox' = [kind |-> "Error"]
               /\ UNCHANGED stored_files
          ELSE /\ stored_files' = [stored_files EXCEPT ![Digest[bytes]] = bytes]
               /\ outbox' = [kind |-> "FileUploaded", hash |-> Digest[bytes]]
    /\ wpc' = "send_final"
    /\ UNCHANGED <<out, cmd_chan, event_chan, download_metrics, cur, attempt,
                   held, submitted, sent>>

(* sleep(backoff_delay(attempt)) before every attempt after the first.    *)
Backoff ==
    /\ wpc = "backoff"
    /\ wpc' = "lookup"
    /\ UNCHANGED <<stored_files, out, cmd_chan, event_chan, download_metrics,
                   cur, attempt, held, outbox, submitted, sent>>

(* handle_download_file, first half: look the hash up under the store     *)
(* mutex and clone the bytes out; a miss fails the attempt at once.        *)
Lookup ==
    /\ wpc = "lookup"
    /\ LET bytes == stored_files[cur.cmd.hash]
       IN IF bytes = None
          THEN /\ wpc' = "record"
               /\ outbox' = AttemptEvent([hash |-> cur.cmd.hash, attempt |-> attempt,
                                          status |-> StatusOf(FALSE, attempt)])
               /\ UNCHANGED held
          ELSE /\ wpc' = "write"
               /\ held' = bytes
               /\ UNCHANGED outbox
    /\ UNCHANGED <<stored_files, out, cmd_chan, event_chan, download_metrics,
                   cur, attempt, submitted, sent>>

(* Mutant: the result of write_output ignored, every write a success. *)
WriteResultIgnored ==
    /\ wpc = "write"
    /\ \E ok \in BOOLEAN :
          /\ IF ok THEN out' = [out EXCEPT ![cur.cmd.path] = held]
             ELSE \E f \in {out[cur.cmd.path], Partial, held} :
                     out' = [out EXCEPT ![cur.cmd.path] = f]
          /\ outbox' = AttemptEvent([hash |-> cur.cmd.hash, attempt |-> attempt,
                                     status |-> StatusOf(TRUE, attempt)])
    /\ wpc' = "record"
    /\ UNCHANGED <<stored_files, cmd_chan, event_chan, download_metrics, cur,
                   attempt, held, submitted, sent>>

(* handle_download_file, second half: write_output after the store mutex  *)
(* is released.  The write succeeds, or fails leaving the file as it was, *)
(* half written, or fully written with an error on completion.            *)
Write ==
    /\ wpc = "write"
    /\ \E ok \in BOOLEAN :
          /\ IF ok THEN out' = [out EXCEPT ![cur.cmd.path] = held]
             ELSE \E f \in {out[cur.cmd.path], Partial, held} :
                     out' = [out EXCEPT ![cur.cmd.path] = f]
          /\ outbox' = AttemptEvent([hash |-> cur.cmd.hash, attempt |-> attempt,
                                     status |-> StatusOf(ok, attempt)])
    /\ wpc' = "record"
    /\ UNCHANGED <<stored_files, cmd_chan, event_chan, download_metrics, cur,
                   attempt, held, submitted, sent>>

(* emit_attempt, first half: record_attempt under the metrics mutex. *)
Record ==
    /\ wpc = "record"
    /\ download_metrics' = RecordAttempt(download_metrics, outbox.snap)
    /\ wpc' = "send_attempt"
    /\ UNCHANGED <<stored_files, out, cmd_chan, event_chan, cur, attempt, held,
                   outbox, submitted, sent>>

(* emit_attempt, second half: send the DownloadAttempt event; then the    *)
(* loop returns Ok on success, returns Err once attempt >= MAX, or        *)
(* increments attempt and backs off.                                       *)
SendAttempt ==
    /\ wpc = "send_attempt"
    /\ Send(outbox)
    /\ IF outbox.snap.status = "Success"
       THEN /\ wpc' = "send_final" /\ UNCHANGED attempt
            /\ outbox' = [kind |-> "FileDownloaded", path |-> cur.cmd.path]
       ELSE IF attempt >= MaxAttempts
       THEN /\ wpc' = "send_final" /\ UNCHANGED attempt
            /\ outbox' = [kind |-> "Error"]
       ELSE /\ wpc' = "backoff" /\ attempt' = attempt + 1
            /\ UNCHANGED outbox
    /\ UNCHANGED <<stored_files, out, cmd_chan, download_metrics, cur, held,
                   submitted>>

(* The worker sends the command's outcome event and returns to recv(). *)
SendFinal ==
    /\ wpc = "send_final"
    /\ Send(outbox)
    /\ ToIdle
    /\ UNCHANGED <<stored_files, out, cmd_chan, download_metrics, submitted>>

Worker == Recv \/ UploadFile \/ Backoff \/ Lookup \/ Write \/ Record
            \/ SendAttempt \/ SendFinal

Init ==
    /\ stored_files = [h \in Hashes |-> None]
    /\ out = [p \in Paths |-> None]
    /\ cmd_chan = <<>>
    /\ event_chan = <<>>
    /\ download_metrics = [total_success |-> 0, total_failures |-> 0,
                           total_retries |-> 0, recent_attempts |-> <<>>]
    /\ wpc = "idle" /\ cur = NoCmd /\ attempt = 0
    /\ held = None /\ outbox = NoEvent
    /\ submitted = 0
    /\ sent = <<>>

Next ==
    \/ \E c \in Command : Submit(c)
    \/ \E p \in IngestPairs : StoreFileData(p[1], p[2])
    \/ \E m \in DrainMax : Drain(m)
    \/ Worker

Spec == Init /\ [][Next]_vars

(* The tokio runtime polls the worker task whenever its future is ready   *)
(* (a command queued, a sleep elapsed, channel space freed); a consumer   *)
(* is assumed to call drain_events from time to time.                      *)
FairSpec == Spec /\ WF_vars(Worker) /\ WF_vars(\E m \in DrainMax : Drain(m))

(* The same runtime with no consumer guaranteed to drain events. *)
NoConsumerSpec == Spec /\ WF_vars(Worker)

-----------------------------------------------------------------------------
(* Properties.                                                             *)

MinNat(a, b) == IF a < b THEN a ELSE b

(* The r-th smallest element of a finite set of log positions. *)
NthSmallest(K, r) == CHOOSE k \in K : Cardinality({j \in K : j < k}) = r - 1

(* The positions of a log of sent events that hold a DownloadAttempt.    *)
AttemptPositions(log) == {i \in DOMAIN log : log[i].ev.kind = "DownloadAttempt"}

(* The snapshots at the positions P of a log, in log order.  Written with *)
(* NthSmallest instead of SelectSeq so that the provers can reason about *)
(* it without induction over the log; the two forms agree.               *)
SnapsAt(log, P) == [r \in 1..Cardinality(P) |-> log[NthSmallest(P, r)].ev.snap]

(* The snapshots of the DownloadAttempt events in a log of sent events. *)
AttemptSnaps(log) == SnapsAt(log, AttemptPositions(log))

(* Every snapshot record_attempt has seen, oldest first: the ones already *)
(* sent as events, then the one recorded but still waiting to be sent.     *)
Recorded ==
    AttemptSnaps(sent) \o (IF wpc = "send_attempt" THEN <<outbox.snap>> ELSE <<>>)

(* The positions of a log of sent events that hold a DownloadAttempt     *)
(* event of status st.                                                     *)
AttemptsWithStatus(log, st) ==
    {i \in DOMAIN log : log[i].ev.kind = "DownloadAttempt" /\ log[i].ev.snap.status = st}

(* The number of snapshots of status st in Recorded: those sent, and the  *)
(* one recorded and waiting to be sent.                                     *)
RecordedCount(st) ==
    Cardinality(AttemptsWithStatus(sent, st))
      + (IF wpc = "send_attempt" /\ outbox.snap.status = st THEN 1 ELSE 0)

(* The snapshots of the download with command id `id`, in emission order. *)
AttemptsOf(id) ==
    SnapsAt(sent, {i \in AttemptPositions(sent) : sent[i].id = id})

FinalIndex(id) ==
    {i \in DOMAIN sent : sent[i].id = id /\ sent[i].ev.kind \in FinalKinds}

(* The attempts of one download invocation, as its events show them: the *)
(* attempt numbers are 1, 2, .., k with k <= MAX_DOWNLOAD_ATTEMPTS, every *)
(* attempt but the last is Retrying, Retrying never reaches the budget    *)
(* and Failed only at it; a FileDownloaded outcome follows a Success       *)
(* snapshot, a download Error follows MAX attempts ending in Failed, and  *)
(* no attempt event follows the outcome (download_with_retries and the    *)
(* worker's reporting of its result).                                      *)
AttemptHistoryWellFormed ==
    \A id \in 1..submitted :
      LET A == AttemptsOf(id)
          k == Len(A)
      IN /\ k <= MaxAttempts
         /\ \A i \in 1..k : A[i].attempt = i
         /\ \A i \in 1..k : A[i].status = "Retrying" => i < MaxAttempts
         /\ \A i \in 1..k : A[i].status = "Failed" => i = MaxAttempts
         /\ \A i \in 1..(k - 1) : A[i].status = "Retrying"
         /\ \A f \in FinalIndex(id) :
              /\ \A j \in DOMAIN sent :
                    (sent[j].id = id /\ sent[j].ev.kind = "DownloadAttempt") => j < f
              /\ sent[f].ev.kind = "FileDownloaded" =>
                    k >= 1 /\ A[k].status = "Success"
              /\ (sent[f].ev.kind = "Error" /\ k > 0) =>
                    k = MaxAttempts /\ A[k].status = "Failed"

(* The cumulative counters of DownloadMetrics equal, saturated at the     *)
(* counter width, the number of attempts of each status that             *)
(* emit_attempt has recorded, across every download so far.              *)
CountersMatchAttempts ==
    /\ download_metrics.total_retries  = MinNat(RecordedCount("Retrying"), CounterMax)
    /\ download_metrics.total_success  = MinNat(RecordedCount("Success"), CounterMax)
    /\ download_metrics.total_failures = MinNat(RecordedCount("Failed"), CounterMax)

(* recent_attempts holds exactly the newest HistCap recorded snapshots,   *)
(* newest at index 1 (push_front then pop_back in record_attempt).        *)
RecentIsNewestWindow ==
    LET r == Recorded
        n == MinNat(Len(r), HistCap)
    IN download_metrics.recent_attempts = [i \in 1..n |-> r[Len(r) + 1 - i]]

(* Every submitted command is eventually handled to its outcome event by *)
(* the single worker (upload and download handling always terminate).     *)
EveryCommandProcessed ==
    \A id \in 1..MaxCmds : (submitted >= id) ~> (FinalIndex(id) # {})

(* What the worker holds agrees with where it is: inside a download it   *)
(* handles a DownloadFile command with attempt in 1..MAX, the bytes are   *)
(* held from a lookup hit up to the write, the snapshot between record   *)
(* and send is the current attempt's, and what is sent last is an        *)
(* outcome event.  It strengthens TypeOK into an inductive invariant     *)
(* (the steps that read outbox.snap, cur.cmd.hash and held).             *)
WorkerStateConsistent ==
    /\ wpc = "idle" => cur = NoCmd
    /\ wpc # "idle" => cur \in Tagged
    /\ wpc = "upload" => cur.cmd.kind = "UploadFile"
    /\ wpc \in {"backoff", "lookup", "write", "record", "send_attempt"} =>
          /\ cur.cmd.kind = "DownloadFile"
          /\ attempt \in 1..MaxAttempts
    /\ wpc = "backoff" => attempt > 1
    /\ wpc = "write" => held \in Data
    /\ wpc \in {"record", "send_attempt"} =>
          /\ outbox.kind = "DownloadAttempt"
          /\ outbox.snap.attempt = attempt
          /\ outbox.snap.hash = cur.cmd.hash
    /\ wpc = "send_final" => outbox.kind \in FinalKinds

(* Commands are handled one at a time in arrival order (spec.md section  *)
(* 4: one worker, strict FIFO): the events sent belong to commands in     *)
(* submission order, those of one command are never interleaved with      *)
(* another's, and nothing of a command is sent after its outcome event    *)
(* (run_file_transfer_service's recv loop over the command channel).      *)
EventsFollowSubmissionOrder ==
    \A i, j \in DOMAIN sent :
        i < j => \/ sent[i].id < sent[j].id
                 \/ sent[i].id = sent[j].id /\ sent[i].ev.kind \notin FinalKinds

(* A FileDownloaded outcome means the output file holds the content asked *)
(* for, bytes whose SHA-256 is the requested hash: the bytes cloned out of *)
(* the store before the mutex is released are the ones written, and an    *)
(* earlier attempt that left the file half written is overwritten in full *)
(* before success is reported (handle_download_file, write_output).       *)
DownloadedBytesMatchHash ==
    (wpc = "send_final" /\ outbox.kind = "FileDownloaded") =>
        /\ out[cur.cmd.path] \in Data
        /\ Digest[out[cur.cmd.path]] = cur.cmd.hash

(* Content addressing (spec.md section 3): every key of the content store *)
(* is the SHA-256 of the bytes stored under it.  handle_upload_file keys  *)
(* by the computed hash; store_file_data takes the key from its caller.   *)
StoreKeyIsDigest ==
    \A h \in Hashes : stored_files[h] # None => Digest[stored_files[h]] = h

=============================================================================

# TLA+ verification of chiral-network's transfer service, relay registry and bootstrap resolver

This directory holds TLA+ models of the Rust sources under `src/src-tauri/src/`,
the TLC configurations that model-check them on small instances, and TLAPS
proofs that hold for every value of the constants. `PROJECT.json` lists the
components, runs, mutants, the source lines each definition models, the
findings, the hazards and the theorems.

## 1. Inventory

### Components and their state

| Component | Source | State | Operations that change state |
|---|---|---|---|
| Content Store | `file_transfer.rs` 137, 392-433, 488-491 | `stored_files: Mutex<HashMap<hash, (name, bytes)>>` | insert by `handle_upload_file` (worker), `store_file_data` (any caller); lookup by `handle_download_file` |
| Download Orchestrator | `file_transfer.rs` 142-278 | loop-local `attempt`, `last_error`; the output files | `download_with_retries`: backoff sleep, lookup, `write_output`, `emit_attempt` per attempt |
| Metrics Aggregator | `file_transfer.rs` 78-123 | `DownloadMetrics`: three `u64` counters, `recent_attempts: VecDeque` (cap 20) | `record_attempt` (under its own mutex); `snapshot` only reads |
| Event Channel | `file_transfer.rs` 136, 298, 474-486 | `mpsc` channel, capacity 100, single receiver behind a mutex | worker sends (blocking when full); `drain_events(max)` |
| Command Queue + Worker | `file_transfer.rs` 297-390, 442-464 | `mpsc` channel, capacity 100; one spawned task | `upload_file`, `download_file` enqueue; the task handles one command at a time |
| Relay Directory | `relay_registry.rs` 19-193 | `RwLock<HashMap<peer_id, RelayInfo>>` | `register`, `prune_stale`, `remove`, `clear`; `list` (collect and sort), `get`, `contains`, `count` only read |
| Bootstrap Resolver | `commands/bootstrap.rs` 26-136 | none of its own: the `BOOTSTRAP_NODES` env var, the embedded `bootstrap_nodes.json`, three constants | two Tauri commands returning the node list, with or without aliases |

### How they interact

Callers enqueue commands on the command channel; the one worker task takes them
in FIFO order. An upload reads a file, hashes it and inserts it into the store,
then sends `FileUploaded` or `Error`. A download runs the retry loop: for each
attempt (after a backoff sleep for attempts 2 and 3) it looks the hash up under
the store mutex, releases the mutex, writes the bytes to the output path, records
a snapshot in the metrics under the metrics mutex, and sends a
`DownloadAttempt` event; then it returns on success, returns an error at the
third failure, or retries. The worker then sends `FileDownloaded` or `Error`.
Events are pulled by `drain_events`. `store_file_data` writes into the store
from outside the worker at any time. The relay directory is independent: tasks
register, prune, remove, clear and list concurrently under a reader/writer lock.
The bootstrap resolver is a pure function of the process environment and the
embedded file, called through two Tauri commands that must agree.

### What is hard here

* Every `.await` of the worker is a point where other tasks run: the store can
  change between the lookup and the write, and metrics are visible before the
  matching event is sent.
* Every send on the event channel waits while the channel is full, so the worker
  depends on a consumer.
* Retry accounting: two separate comparisons with `MAX_DOWNLOAD_ATTEMPTS` decide
  the snapshot status and whether to return.
* Bounded resources: a 20-entry history evicted at the back, saturating counters,
  two 100-entry channels.
* The relay directory reads the clock before it takes the write lock, accepts an
  f32 score that may be NaN, and prunes against a `now` its caller supplies.

### What makes each component correct

* Download orchestrator: the attempts of one download are numbered 1..k with
  k <= 3, all `Retrying` but the last, `Failed` only at the budget, and the
  outcome event agrees with the last snapshot (`AttemptHistoryWellFormed`).
* Metrics: the counters equal, saturated, the number of recorded attempts of each
  status, and `recent_attempts` is exactly the newest 20, newest first
  (`CountersMatchAttempts`, `RecentIsNewestWindow`).
* Worker and channels: every submitted command is eventually handled to its
  outcome event (`EveryCommandProcessed`).
* Content store: every key is the digest of its bytes (`StoreKeyIsDigest`).
* Content store and downloads: `FileDownloaded` is only reported when the output
  file holds bytes whose digest is the requested hash (`DownloadedBytesMatchHash`);
  outcome events come in submission order (`EventsFollowSubmissionOrder`).
* Relay directory: scores in [0, 1] (`HealthInRange`); a refresh never moves
  `last_seen` back (`LastSeenNeverRegresses`); every registry call does and
  returns what the atomic directory operation of the same name does and returns
  (`DirectorySpec`), and a prune never removes an entry fresh by the
  present clock (`PruneKeepsFresh`); `list` is ordered by score, best first
  (`ListSortedByHealth`).
* Bootstrap: neither getter returns an empty list (`NeverEmpty`) and they return
  the same addresses in the same order (`GettersAgree`).

## 2. Modules

### `FileTransfer.tla` (content store, orchestrator, metrics, both channels, worker)

Constants: `Data` (file contents), `Hashes`, `Digest` (SHA-256 as a function),
`Sources` and `Disk` (upload sources and what reading them gives, `NoFile` for a
failed read), `Paths` (output paths), `IngestPairs` (what `store_file_data`
callers pass), `MaxAttempts` (3), `HistCap` (20), `CounterMax` (u64::MAX),
`CmdCap`, `EventCap` (100), `DrainMax` (values of `max`), `MaxCmds` (bound on
submissions). File names and error messages are abstracted away; no property
distinguishes them. `duration_ms` and `timestamp` of a snapshot are wall-clock
readings and are left out.

Variables: `stored_files`, `out` (output files: bytes, `None` or `Partial`),
`cmd_chan`, `event_chan`, `download_metrics`, and the worker's locals `wpc`
(program point), `cur`, `attempt`, `held` (bytes cloned out of the store),
`outbox` (the event about to be recorded or sent). Two ghost variables serve the
properties: `submitted` counts submissions and tags each command with an id, and
`sent` logs every event sent with its command id (the channel itself loses
events when they are drained).

Actions and code:

| Action | Code |
|---|---|
| `Submit(c)` | `upload_file` / `download_file`: `cmd_tx.send().await`, waits while full |
| `StoreFileData(h, d)` | `store_file_data` |
| `Drain(max)` | `drain_events` |
| `Recv` | `cmd_rx.recv()` and dispatch; a download starts at attempt 1 |
| `UploadFile` | `handle_upload_file` (read, hash, insert) and choice of outcome event |
| `Backoff` | the `sleep(backoff_delay(attempt))` before attempts 2.. |
| `Lookup` | first half of `handle_download_file` (under the store mutex); a miss fails the attempt |
| `Write` | `write_output`; on failure the file is left unchanged, half written, or fully written |
| `Record` | `emit_attempt`: `record_attempt` under the metrics mutex |
| `SendAttempt` | `emit_attempt`: the event send, then return Ok, return Err at the budget, or retry |
| `SendFinal` | the worker's `FileUploaded` / `FileDownloaded` / `Error` send |

`Send(e)` (a blocking send) is guarded by `Len(event_chan) < EventCap`. The
`GetStoredFiles` command has no sender and is left out; the code never sends
`FileNotFound`.

### `RelayRegistry.tla` (relay directory)

Constants: `Peers`, `Callers` (concurrent `register` callers), `Scores` (score
arguments in tenths, and the model value `NaN`), `MaxAges`, `MaxTime`.
Variables: `entries` (peer -> `[last_seen, health_score]` or `None`), `clock`,
`calls` (a `register` call between its clock read and its insert). `register`
is two actions, `RegisterStart` (clock read and `clamp`, before the lock) and
`RegisterInsert` (under the write lock); `PruneStale(now, maxAge)` takes a clock
reading no later than the present; `Remove`, `Clear` and the clock `Tick`.
`addrs` and `alias` are carried unchanged by the code and left out.
`FreshAbsAge` is a mutant.

### `RelayRegistryCalls.tla` (what the registry's operations return)

Extends `RelayRegistry` with `reply`, the last operation completed under the
write lock and its result: `RegisterCall` (the insert, returning nothing),
`PruneStaleCall` (returning `before_count - entries.len()`, with `EntriesLen`
the map's length), `RemoveCall` (returning `entries.remove(peer_id).is_some()`)
and `ClearCall`. `RegisterStart` and `Tick` complete no call and leave `reply`
alone. `Dir == INSTANCE RelayDirectory WITH dir <- entries` and `DirectorySpec
== Dir!Spec` state the refinement; `calls` is hidden by the mapping (a register
in flight has not changed the directory yet). Because `reply` is shared by both
specifications, a prune has to return the directory's count and a remove its
found flag, and no operation can pass for another: without results, any prune,
remove or clear outcome would also be a directory `Upsert` of an old record or
a `Delete`. `PruneStaleCallCountsKept` (a prune returning `entries.len()`) is a
mutant.

### `RelayDirectory.tla` (abstract directory, from spec.md sections 3-5)

A map `dir` from peer to a record `[last_seen, health_score]` and a `clock`,
with atomic operations: `Upsert(p, r)` of a record observed no later than the
present with a score in [0, 1], `Delete`, `DeleteAll`, and `Prune(now, maxAge)`
removing exactly the entries with `now - last_seen > maxAge` for a reading `now`
of the clock. It has no locks and no program points. `reply` records the
result of the last operation: `Prune` returns the number of entries it removed,
`Delete` whether the peer was present.

### `RelayList.tla` (`RelayRegistry::list`, relay_registry.rs 103-118)

Extends `RelayRegistry` with `listed`, the vector the last `list()` returned.
`List` collects the present entries in any iteration order (`IterationOrders`,
the HashMap's order being unspecified) and sorts them with `SortByHealth`, the
algorithm `slice::sort_by` runs on at most 20 elements:
`insertion_sort_shift_left`, where each element is shifted left past the
elements it compares `Less` to (`InsertPos`, `InsertTail`), written as a
recursive function so that it stays in the provers' reach. `IsLess` is the
code's comparator `b.partial_cmp(&a).unwrap_or(Equal) == Less`, so a NaN score
compares Equal to everything. `LNext` is the registry's `Next` with `listed`
unchanged, or a `List` step. `RegistryAssumption` states that `Peers` is
finite (a HashMap holds finitely many entries), so the collected vector is a
sequence.

### `Bootstrap.tla` (commands/bootstrap.rs)

Strings are sequences over `{Comma, Space} \cup Letters`, so that
`split(',')`, `trim()` and the blank-field filter are modelled by what they do
(`SplitComma`, `Trim`, `ParseEnvNodes`). The environment (`env`, a string or
`Unset`) and the embedded file (`json`, a list of node records or `JsonErr`)
are fixed per process and chosen in `Init`. `GetBootstrapNodes` and
`GetBootstrapNodesWithInfo` are the two commands; each picks the env tier when
it yields a node, else the file tier when it parses to a non-empty list, else
the hardcoded nodes, and records its result in `nodes` or `info`. The env
tier's alias `format!("bootstrap-{}", i + 1)` is modelled by the pair
`<<"bootstrap", i>>` with `i` the 1-based position.

`split(',')` and `filter(...).collect()` are written with sets and
`Cardinality` rather than with `SelectSeq` or a recursive function:
`NthSmallest(K, r)` is the `r`-th smallest element of a finite set of
positions, so the `k`-th field ends before the `k`-th comma and the `r`-th node
is the `r`-th non-blank field. This says the same as the sequential form (TLC
compared the two on every environment value of the run) and lets the provers
reason about the lengths without induction. `BootstrapAssumption` states the
one fact about the literals the code relies on: the three multiaddrs of
`get_bootstrap_nodes_with_info`'s hardcoded tier (bootstrap.rs 112-126) are,
in order, the three addresses of `get_hardcoded_bootstrap_nodes` (71-81).

### MC modules

`MCFileTransfer` gives two contents `d1 d2`, three hashes (`h3` is the digest
of nothing, so downloads of it exhaust the budget), an unreadable source `s2`,
one output path, channel capacities 2, `HistCap = 2`, `CounterMax = 3`,
`MaxCmds = 3`. `MCRelayRegistry` (the NaN and refresh runs) and
`MCRelayRegistryCalls` (`relay_core`) give two relays, two concurrent callers,
scores -0.2, 0.5, 1.5 (and NaN in its own run), a one-second TTL and a clock of
four seconds. `MCRelayList` gives three relays (so one entry can sit between two
others in the list), one caller, scores -0.2, 0.6, 1.5 (and NaN in its own run),
and a clock of one second. `MCBootstrap` gives two letters, `BOOTSTRAP_NODES`
values of up to four characters over four characters (341 values: blank, comma-only,
padded and multi-field values), three hardcoded nodes and three files: empty,
one node, two nodes.

## 3. Runs

| Run | Checks | Shows |
|---|---|---|
| `ft_core` (pass, 56 k states) | `TypeOK`, `AttemptHistoryWellFormed`, `CountersMatchAttempts`, `RecentIsNewestWindow`, `EveryCommandProcessed`, `EventsFollowSubmissionOrder`, `DownloadedBytesMatchHash` | under all interleavings of submitters, `store_file_data`, consumers and write failures, attempt histories, metrics and history agree with the events, outcome events follow submission order, a reported download holds the requested content, and all commands finish when events are drained |
| `ft_no_consumer` (violation) | `EveryCommandProcessed` under `NoConsumerSpec` | the worker blocks on a full event channel when nobody drains it (finding 1) |
| `ft_untrusted_ingest` (violation) | `StoreKeyIsDigest` | `store_file_data` stores bytes under any hash (finding 2) |
| `relay_core` (pass, 515 k states) | `TypeOK`, `DirectorySpec`, `PruneKeepsFresh` | under concurrent registers, prunes with stale readings, removes and clears, every call does and returns what its atomic directory operation does and returns, and no prune removes an entry fresh by the present clock |
| `relay_nan_health` (violation) | `HealthInRange` | NaN passes `f32::clamp` (finding 3) |
| `relay_refresh_race` (violation) | `LastSeenNeverRegresses` | two concurrent refreshes can store the older time last (finding 4) |
| `relay_list` (pass, 941 k states) | `ListSortedByHealth` | with numeric scores, `list` returns the relays best first for every iteration order and every registry state |
| `relay_list_nan` (violation) | `ListSortedByHealth` | with a NaN score between two others, `list` returns numeric scores out of order (finding 5) |
| `bootstrap_core` (pass, 5 k states) | `TypeOK`, `NeverEmpty`, `GettersAgree` | for every env value and packaged file, both getters return a non-empty list and the same addresses |

Bounds. Three commands give a download that misses three times, one that
succeeds after failed writes, an upload that fails, and a download racing
`store_file_data`; they produce up to 12 events, so channel capacity 2 forces
the worker to wait on a full channel, `HistCap = 2` forces evictions and
`CounterMax = 3` is reached (two exhausted downloads record 4 retries), so
saturation happens. A smaller `CounterMax` hides the mutant that counts a
failure as a retry, because the counter is already saturated when the first
failure arrives. In the registry, a four-second clock and a one-second TTL let
entries become stale, be refreshed, and be pruned with old readings. Three
relays are the fewest with which a NaN sits between two numeric scores, which
is what breaks the order; all six iteration orders are explored. Env strings of
four characters include `" a,b"`, `",,a "` and `"a, ,"`, so every branch of
split, trim and the blank filter is taken, and the all-blank values fall
through to the file tier.

Fairness. `FairSpec` puts weak fairness on the worker: the tokio runtime polls
the spawned task whenever its future is ready (a command arrived, a sleep
elapsed, channel space freed). It puts weak fairness on draining as well, which
is an assumption about the application (a UI polls `drain_events`), not a
guarantee of the code; `NoConsumerSpec` drops it, and the property then fails,
which is finding 1. Submitters and `store_file_data` callers get no fairness.

Mutants. Each property of a passing run is broken by a plausible bug in the
definition it depends on: a send that ignores capacity (`TypeOK`), `>` for `>=` in the
status (`AttemptHistoryWellFormed`), a failure counted as a retry
(`CountersMatchAttempts`), eviction at the front (`RecentIsNewestWindow`), an
upload error arm that never completes (`EveryCommandProcessed`), a worker that
takes any queued command instead of the first (`EventsFollowSubmissionOrder`),
a write whose error is ignored (`DownloadedBytesMatchHash`), a clamp without its
upper bound (relay `TypeOK`), a prune that returns the number of entries kept
instead of removed (`DirectorySpec`), an age computed as an absolute difference instead of
`saturating_sub` (`PruneKeepsFresh`), an insertion without shifting
(`ListSortedByHealth`), a 0-based alias (bootstrap `TypeOK`), an env tier taken
even when it yields no node (`NeverEmpty`), and an info getter that skips the
file tier (`GettersAgree`).

## 4. Findings

1. Worker progress depends on the consumer (`file_transfer.rs:272` and the
   other sends): the spec says a send to a full event channel fails silently,
   the code awaits it.
2. `store_file_data` does not check that the key is the SHA-256 of the bytes
   (`file_transfer.rs:488`), contrary to the store invariant of spec section 3.
3. `register` stores NaN scores (`relay_registry.rs:81`).
4. `register` reads the clock before taking the write lock
   (`relay_registry.rs:71`), so concurrent refreshes can move `last_seen` back.
5. `list` sorts with `partial_cmp(..).unwrap_or(Equal)` (`relay_registry.rs:111`):
   a NaN score compares Equal to everything, so insertion sort stops shifting at
   it and numeric scores on either side stay out of order (e.g. `[0.0, NaN,
   0.6]`). It needs a NaN score, which finding 3 lets in.

## 5. Proofs

`FileTransferProofs.tla` proves `TypeCorrect == Spec => []TypeOK` for every
value of the constants satisfying `ConstAssumption` (digest and disk are
functions of the right types, the sentinels are distinct from data and hashes,
capacities and the attempt budget are positive). `TypeOK` alone is not
inductive: `Record` reads `outbox.snap`, `Lookup` reads `cur.cmd.hash`, `Write`
stores `held`, and these have their types only at the matching program points.
The inductive invariant is `IInv == TypeOK /\ WorkerStateConsistent`, where
`WorkerStateConsistent` ties `cur`, `attempt`, `held` and `outbox` to `wpc`
(`WorkerConsistent` proves it on its own). The proof has one step per action, split into `TypeOK'`
and `WorkerStateConsistent'` where needed, and rests on lemmas about
`record_attempt` (keeps the metrics typed and the history within `HistCap`), the
saturating increment, and the fields of commands, snapshots and events.

`DownloadedContentCorrect` proves `Spec => []DownloadedBytesMatchHash` under
`HonestIngest` (every pair a `store_file_data` caller passes is keyed by its
digest; without it `ft_untrusted_ingest` breaks the store). The property only
speaks of the state before the `FileDownloaded` send, so the inductive
invariant `CInv` adds `StoreKeyIsDigest` and `ContentHeld`: at `write` the held
bytes have the requested hash, and while a `Success` snapshot waits to be
recorded or sent, the output file holds exactly those bytes. A lookup miss and
a failed write both give a non-`Success` status, which is what keeps
half-written files out. TLC checks `CInv`'s conjuncts on the `ft_core`
instance.

`RelayRegistryProofs.tla` proves, from `RegistryAssumption`:

* `RegistryTypeCorrect == Spec => []TypeOK`; here `TypeOK` is inductive, with
  lemmas on the clamp's range.
* `PruneKeepsFreshHolds == Spec => PruneKeepsFresh`, from `TypeOK` and a lemma
  that an entry with `clock - last_seen <= maxAge` is `Fresh` for every reading
  `now <= clock` (the saturating subtraction gives age 0 for a future
  `last_seen`). `PruneKeepsFreshCalls` states the same of `CSpec`, the
  specification `relay_core` checks, since each of its steps is a registry
  step (`CallIsStep`).
* `Refinement`: with `NaN \notin Scores`, `CSpec => DirectorySpec`. The initial
  states map to the directory's, and every step is a directory step or a
  stutter (`StepRefines`): `RegisterStart` and `Tick` change nothing or only the
  clock, `RegisterCall` is an `Upsert`, `PruneStaleCall` a `Prune` with the
  same count, `RemoveCall` a `Delete` with the same found flag, `ClearCall` a
  `DeleteAll`. The count is the lemma `PruneCount`: the kept entries are the
  present ones minus the stale ones, a subset of the finite map, so
  `before_count - entries.len()` is the number of stale entries
  (`FS_Difference`). An insert is an `Upsert` only if the record
  it holds is no later than the clock and its score is in range; `RInv`
  (`TypeOK` plus that fact for every call in flight) is the invariant that
  carries it, true because the clock never goes back and, without NaN, the
  clamp's result is in [0, 1].

`FileTransferOrderProofs.tla` proves `EventsInSubmissionOrder ==
Spec => []EventsFollowSubmissionOrder`. The property speaks only of `sent`, but
whether the next event keeps the order depends on the command channel and the
worker, so the inductive invariant `OInv == IInv /\ OrderInv` adds: the ids on
`cmd_chan` are increasing, above `cur.id` and at most `submitted`; every id in
`sent` is below every id still on the channel; and while the worker is busy,
every logged id is below `cur.id`, or equal to it with a non-final event. The
last conjunct is what rules out a second final event for a command. TLC checks
`OInv` on the `ft_core` instance.

`FileTransferMetricsProofs.tla` proves `CountersCorrect ==
Spec => []CountersMatchAttempts`: each counter is the saturated number of
`DownloadAttempt` events of its status. It is not inductive as stated, because
between `record_attempt` and the send the counter is already one ahead of the
log; `RecordedCount` counts that pending attempt (the worker at `send_attempt`)
and `MInv == IInv /\ CountersMatchAttempts` is inductive. The lemmas it rests
on: the attempt set of a log is finite (`AttemptsFinite`), appending an entry
adds one to exactly its own status (`CountAppend`), and the saturating
increment commutes with saturation (`SatIncMin`).

`BootstrapProofs.tla` proves `NeverEmptyHolds == Spec => []NeverEmpty` and
`GettersAgreeHolds == Spec => []GettersAgree` from `BootstrapAssumption`, via
`BInv`: whatever each command has returned is what it returns now (the
environment and the file never change). The lemmas say that the env tier's
result is a sequence whose length is the number of non-blank fields
(`ParseIsSeq`), so the env tier is taken by one command exactly when by the
other, and that the hardcoded tiers agree (`TiersAgree`).

`FileTransferHistoryProofs.tla` proves `RecentWindowCorrect ==
Spec => []RecentIsNewestWindow`. Both history properties read the log through
`SnapsAt`, which lists the snapshots at a set of positions in increasing order
by `NthSmallest`, a CHOOSE of the element with `r - 1` smaller ones. That such
an element exists for every rank of every finite set of positions is carried
in the invariant rather than proved by induction: `AllRanked(Len(sent))` holds
of the empty log, and appending one position above all others keeps it
(`RankedExtend`). The inductive invariant `WInv == IInv /\ AllRanked(Len(sent))
/\ RecentIsNewestWindow` works because the window is defined over `Recorded`,
the attempts sent plus the one `record_attempt` has taken and the send has not
yet logged; `record_attempt`'s `push_front` and `pop_back` are shown to be one
step of that window (`WindowPush`).

`FileTransferAttemptProofs.tla` proves `AttemptHistoryCorrect ==
Spec => []AttemptHistoryWellFormed`. The property speaks of every command in
the log, finished or not; what keeps it inductive is `CurInv`, the state of the
download the worker is in: with `A` the attempts of `cur.id` already sent, an
upload has none; a download in its retry loop has sent `attempt - 1`, all
`Retrying`; at `send_final` it has sent `attempt`, and `FileDownloaded` follows
a `Success`, `Error` a `Failed` at `MaxAttempts`; the snapshot in the outbox
is consistent with its status. `AInv == OInv /\ AllRanked(Len(sent)) /\
AttemptHistoryWellFormed /\ CurInv`; `OInv` (from the order proof) is what
shows no earlier command's history changes when an event of `cur.id` is
appended (`OtherAppend`). TLC checks `AInv`'s conjuncts on `ft_core`.

`BootstrapProofs.tla` also proves `BootstrapTypeCorrect == Spec => []TypeOK`.
The parser picks the r-th comma, the r-th kept field, and the first and last
non-blank character with CHOOSE, so type correctness needs each of those to
exist. `MinExists` takes the least element from the well-foundedness of `<` on
`Nat` (`WFMin`, `NatLessThanWellFounded`); `MaxExists` is the least of
`{m - i}`; `RankExists` shows every rank is held (the least position with at
least `r - 1` below it has exactly `r - 1`). From these `SplitType` and
`ParseType` show every field and the parsed list are strings, and `TiersType`
types what each tier returns.

`RelayListProofs.tla` proves, from `RegistryAssumption`:

* `ListTypeCorrect == LSpec => []LTypeOK`, the typing the ordering proof
  needs. `SortByHealth` is a recursive
  function; that it exists is shown without the library's recursion theorems
  (which take an operator parameter the provers cannot instantiate): the table
  of sorted prefixes exists up to every length, since a least length without
  one would extend the table for the length before it (`SortTableExists`).
  `InsertPosSpec` shows the shift of `insert_tail` stops somewhere (at the
  greatest element `x` is not less than, or the front), and `InsertTailShape`
  what `insert_tail` returns, position by position.
* `ListSortedHolds`: with `NaN \notin Scores`, `LSpec => []ListSortedByHealth`.
  One `insert_tail` keeps a prefix sorted (`InsertTailSorted`), so every prefix
  is (`SortTableGood`, again by least counterexample). The inductive invariant
  `SInv` adds `RInv` and `HealthInRange` (every stored and in-flight score is a
  clamped number), so the collected vector has no NaN; TLC checks `SInv` on
  the `relay_list` instance. With a NaN score the theorem's hypothesis fails and
  so does the property (`relay_list_nan`).

Out of the prover's reach and left to TLC: the liveness property
`EveryCommandProcessed` (it rests on weak fairness and `ENABLED`, which tlapm
does not reason about). Every safety invariant and action property of a
passing run is now proved for all values of the constants.

## 6. Plan

Done: inventory; `FileTransfer` with its runs, mutants and the proofs of
`TypeCorrect`, `DownloadedContentCorrect`,
`EventsInSubmissionOrder`, `CountersCorrect`, `RecentWindowCorrect` and
`AttemptHistoryCorrect`; `RelayRegistry`, its abstract `RelayDirectory`, the
refinement and its proof, `PruneKeepsFresh` and its proof; `RelayList`, its NaN
finding and the proofs of its type and ordering; `Bootstrap` and the proofs of
`TypeOK`, `NeverEmpty` and `GettersAgree`.

Next, in order:

1. An abstract specification of the transfer service (a command's outcome as
   one atomic step) and the worker shown to implement it.
2. Larger instances: two output paths for the download race, four relays.

Not modelled, and why:

* The unused `FileRequest` and `FileResponse` types (no operation uses them).
* `get`, `contains` and `count` of the relay registry only read under the read
  lock; they change no state and no property tells their results apart from
  the `entries` they read.
* The "user settings" tier named in `bootstrap.rs`'s header comment: no code
  implements it.
* Logging and tracing spans, the length of the backoff delays (only that a sleep
  happens), wall-clock durations and timestamps in snapshots, and the libp2p
  transport, which is outside these sources.

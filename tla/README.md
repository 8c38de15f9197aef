# Verification of hypomnema

TLA+ models of the hypomnema daemon (`hmnd`), the TLC runs that check them on
small instances, and TLAPS proofs of what holds for every value of the constants.
Paths below are relative to the repository; `src/...` is its Rust crate.

* [The system](#the-system): its parts, their state, how they interact
* [The modules](#the-modules): which module models what, and how it corresponds to the code
* [The runs](#the-runs): what is checked, within which bounds, under which fairness
* [Disagreements](#disagreements-between-the-documents-and-the-code): claims of the documents that the code does not keep
* [The proofs](#the-proofs)
* [Not modelled](#not-modelled) and [the plan](#the-plan)

To check a run: `tlc -config MCVaultIndex_safety.cfg MCVaultIndex` (likewise for the
others); to check the proofs: `tlapm VaultIndexProofs.tla` (likewise for the other
modules whose names end in `Proofs`).

## The system

`hmnd` serves any number of *vaults* (directories of Markdown files). For each one it
keeps a SQLite index (rows, full text, chunks, embedding vectors), follows the
directory with a filesystem watcher, answers searches and publishes live change
events.

| Part | State it keeps | Operations | Talks to |
|---|---|---|---|
| indexer (`indexer/`) | none between files; a scan has its list of files | initial scan in three phases, `reindex_path`, `remove_path`; stat gate, hash gate, embedding, one transaction per file | store, embedder, vault directory |
| watcher (`watcher/`) | notify watch, debouncer queues, a bounded channel, the rescan counter | translation of events, the consumer loop, rescan, drain on shutdown | indexer, event bus |
| inclusion filters (`watcher/inclusion.rs`, `filter.rs`, `vcs_ignore.rs`) | compiled globs and `.gitignore` rules, read when a filter is built | yes or no for a path, in the scan, the watcher and the rescan | indexer, watcher |
| per-vault store (`store/`) | `files`, `files_fts`, `chunks`, `chunks_vec`, schema version | migrations, transactions, pooled readers | SQLite |
| vault runner (`control_plane/runner.rs`) | the entry searches see; slots for the bootstrap task and the lifecycle, each behind a mutex; `op_lock` | `shutdown_with_timeout`, `replace_entry` | manager, bootstrap task |
| vault manager (`control_plane/manager.rs`) | map of runners behind an `RwLock` | start-up reconciliation; create, terminate, pause, resume, rename, reset, rescan; resolve and scope | registry, runners, file system |
| vault registry (`vault_registry/`) | `vaults` table: id, name, path, status | insert, look-ups, update of status and name, delete | SQLite |
| event bus, streams (`events.rs`, `api/watch.rs`) | a broadcast ring of 256 slots; a cursor and a filter per stream | publish, subscribe, NDJSON lines, lag reports | consumers, HTTP |
| embedding client (`embedding.rs`) | `max_batch`, the largest request it still sends, shared by all calls | `embed`, `embed_many`: batches, retries, halving, parsing of answers | embedding service |
| chunker (`chunk.rs`) | none that outlives a file | cutting a body at headings, breaks and block ends | indexer, debug handler |
| search (`search/`, `api/search.rs`, `api/debug.rs`) | none that outlives a request | filesystem, content and semantic search, get and debug over all vaults; merge, truncation, `partial_results` | manager, stores, embedder |
| legacy migration (`legacy_state_migration.rs`) | files of the old layout | a one-time move at start-up | registry, file system |
| daemon process (`bin/hmnd.rs`, `shutdown.rs`) | the shutdown signal | start-up order, graceful and forced shutdown | everything |
| HTTP, MCP, CLI, configuration, logging | none that outlives a request | parsing and formatting | manager, bus |

**What is hard about it.** A file may change between every two steps of the task that
indexes it. The scan runs before the watch is registered. The decision INSERT or
UPDATE, and the stat of the file, are older than the write that uses them by an
embedding call. A channel of fixed size separates the notify thread from the consumer.
Shutdown aborts tasks after thirty seconds, and `spawn_blocking` transactions survive
the task that started them. Operations on one vault are asynchronous functions with
up to nine awaits; some take `op_lock` and some do not; the server drops a handler
when its client goes away; the process may die between any two writes to the registry
and the file system. Slow readers of the bus lose events. Calls
of the embedding client shrink their batches against one shared ceiling. A search reads
the registry, the runner map and one store after another while all of them change. A
start may be cut off between two renames or two schema migrations. `PROJECT.json` lists these
hazards line by line with the properties that cover them.

**What makes each part correct.**
Index: every row, its text and its chunks are one version of one file; nothing that
happened while a vault was live is missed once it is idle; live events are the log
of what changed. Control plane: one lifecycle per vault; a drained vault is quiet;
registry, map, entries and directories agree; no operation hangs. Streams: no silent
gap, no foreign events, a reading client catches up, streams end when they should.
Embedding: every vector belongs to its text, and one call's failures do not harm
another. Search: the answer is the top of all that matches, or says why not. Start-up: no
database is lost, mixed with another or left half migrated. Chunks: nothing lost, true
headings. Filters: scan, watcher and rescan agree.

## The modules

| Module | Role |
|---|---|
| `VaultIndex` | one vault: files, watcher, channel, bootstrap, consumer, transactions, shutdown, crash |
| `AnnouncedIndex` | abstract: what searches and subscribers may rely on; `VaultIndex` implements it |
| `VaultIndexProofs` | theorems about `VaultIndex` |
| `ControlPlane` | the manager: registry, runners, directories, concurrent operations, restarts |
| `VaultLifecycle` | abstract: the lifecycle of a vault as documented; `ControlPlane` implements it |
| `ControlPlaneProofs` | theorems about `ControlPlane` |
| `EventStream` | the broadcast bus and the streams read from it, up to the end of the daemon |
| `EventStreamProofs` | theorems about `EventStream` |
| `EmbedBatch` | concurrent calls of the embedding client against a service that rejects, fails and errs |
| `EmbedBatchProofs` | theorems about `EmbedBatch` |
| `SearchRequests` | the requests that read indexes: their validation, the search in one vault, the merge |
| `CrossVaultSearch` | extends it: one request over all vaults, step by step, while the vaults change |
| `CrossVaultSearchProofs` | theorems about `CrossVaultSearch` |
| `LegacyMigration` | what becomes of the databases over starts of the daemon: legacy state, reconciliation, schema migrations, kills |
| `LegacyMigrationProofs` | theorems about `LegacyMigration` |
| `Chunker` | the chunker, event by event, against what the document says |
| `ChunkerProofs` | theorems about `Chunker` |
| `VaultPaths` | the inclusion filters of the scan, the watcher and the rescan, and when each reads its rules |
| `VaultPathsProofs` | theorems about `VaultPaths` |
| `MC*` | symmetry sets, inputs and values for TLC |

The modules meet where one abstracts what another details. What `ControlPlane` calls a
task that is scanning, live or told to stop is, seen from one vault, `phase` and `stopping`
of `VaultIndex`.
The `Publish` of `VaultIndex` is the `Publish(v)` of `EventStream`. Pause, resume,
create and terminate of `EventStream` are those of `ControlPlane` as far as a
subscriber can tell them apart. `VaultIndex` checks the content of an event,
`EventStream` its delivery. `Embed` and `EmbedSkips` of `VaultIndex` are the two results of
an `EmbedMany` of `EmbedBatch`; the chunks it names by their body are those of `Chunker`;
its `Paths` are the files `VaultPaths` includes, for one file and without loss of events.
`Indexes` of `CrossVaultSearch` are states of `VaultIndex` as a reader sees them, and its
`RowChanges` and `EntryChanges` the writes of `ControlPlane` to the registry and to the
map. `LegacyMigration` takes the operations of `ControlPlane` as single steps and details
what a start does to files.

### VaultIndex

`disk` is the directory (an mtime and a body per path); `files`, `chunks` and `fts` are
the tables; `watching`, `pending` and `chan` are the notify watch, the debouncer's
queues and the mpsc channel; `phase`, `stopping`, `skip` and `rescan` are the state of
the lifecycle; `pc`, `job`, `todo` and `gone` are what the one task that works on the
index has in its local variables; `orphans` are `spawn_blocking` calls whose task was
cancelled or aborted. `view` and `excused` are history: the copy a subscriber keeps,
and the paths on which the running lifecycle has given up (below).

| Actions | Code |
|---|---|
| `WriteFile`, `DeleteFile`, `TouchFile`, `SendEvent` | file system, debouncer, `watcher/translate.rs`, `spawn_watcher` |
| `Start`, `ScanWalk`, `ScanNext`, `ScanDone`, `Sweep`, `Register` | `spawn_runner_parts`, `run_bootstrap`, `Scanner::run_with_progress` |
| `Receive`, `RescanWalk`, `RescanNext`, `Stat`, `Remove`, `Publish` | `run_consumer`, `run_rescan`, `apply_event`, `reindex_path`, `remove_blocking` |
| `Decide`, `Embed`, `Write` | phases A, B and C of `process_entry` |
| `EmbedSkips`, `TurnFails`, `WalkFails` | its error paths and those of its callers |
| `RequestRescan`, `RequestStop`, `Rebuild` | `VaultManager::rescan`, `shutdown_with_timeout`, `run_rebuild_sql` |
| `BootstrapCancelled`, `DrainBegins`, `DrainEnds`, `ConsumerAborted`, `OrphanLands`, `Crash` | the ends of tasks |

A hash is the body it was computed from. The mtime of a file is the number of the change
that produced it (`FreshMtimes`) or any earlier one. The debouncer (a library) is
modelled by the two facts `hypomnema` relies on: of the changes it is told of, the last
thing it delivers of a path is the path's state after them, and repeated writes collapse.

Not every change is told of its path (`NotifyNobody`). `filter_pass` lets events of `.md`
paths through only, so a directory that is moved or removed as a whole gives no event for
the files in it; overflow and rescan events, renames that do not name two paths and errors
of `notify` are dropped too. The code does nothing to make up for them until the next
rescan or start.

A path is *excused* when the code does not claim to have its latest version: it changed
between the scan's walk and the registration of the watch; it changed without an event of
its own; a walk did not see it; its embedding failed; the rebuild emptied its hash. It stays
excused until it is looked at again with no event of it under way. Any other deviation is a
violation of `QuietMeansSynced`. That `excused` is needed is shown by `ChangesAreObserved`
below.

### ControlPlane

`registry` is `vaults.sqlite`, `dirs` the per-vault directories, `runners` the map,
`runner` the `VaultRunner` values (also those no longer in the map), `task` the
bootstrap tasks, which become consumers when they install their lifecycle. An
operation is a record in `client`: what its handler keeps across awaits, and its `plan`,
the steps it still has to take. `Plan` lists the steps of every operation with a
runner in the map and without; `Lock`, `TakeBootstrap`, `JoinBootstrap`,
`DrainConsumer`, `OpenStore`, `Spawn`, `UpdateStatus`, `Reread`, `Publish`, ... are the
steps. Steps that several operations share in the code (`shutdown_with_timeout`,
`update_status`, `spawn_runner_parts`) are one action. `StepFails` is `?` on a failing
call; `Disconnect` is the handler dropped at an await; `Crash` is the end of the process at
any point; start-up is `ReconcileRows`, `ReconcileDirs`, `StartVault`, `Serve`, in that
order. A rescan (`SignalRescan`) only waits for the locks here; its walk is in `VaultIndex`.
The removal of orphans is best effort (`OrphansStay`). A create takes any path that is there,
also one the next start finds not to be accessible.
`count.unmapped` counts operations that found no runner and so take no lock. Two
properties are stated for `Undisturbed` behaviours, in which there was none of these, no
failing step and no dropped handler; `QuietAgreement` is stated for one client whose
operations neither fail nor are dropped. `LifecycleFree` is the lifecycle mutex,
which `shutdown_with_timeout` holds throughout the drain of a consumer. After thirty seconds
it asks for the abort of the task and does not wait for it; `TaskStops` lets the task end at
once, so what a task that ignores its signal may do between the abort and its next await is
not modelled.

`Runners` and `Tasks` are pools of values: a runner is free again when neither the map,
a handler nor a task refers to it. A request answered without any change is not a
step.

### EventStream

`sent` is the history of the bus; an event is its position in it. A stream has a
`scope` (its vault, or those active when `watch_all` was called), a cursor `next` and the
`lines` written so far. `Overwritten` is the number of events no longer in the ring.
`CheckVault` or `PinVaults`, and then `Subscribe`, are two steps, because another thread
may run a vault operation in between. `mode` distinguishes a vault whose consumer
still drains (`pausing`, `leaving`), since it still publishes. `ExitCleanly` waits for the
open streams as `run_daemon` awaits its HTTP server.

### EmbedBatch

A text stands for its vector. `call` holds the locals of each `embed_many` or `embed`
(position, size, attempt, vectors so far), `ceiling` is `max_batch`, `limit` what the
service accepts, which the client does not know. Every action but the two beginnings is
one request: `Rejected`, `Answered` (in array order or with indexes in any order),
`Misanswered` (an index changed, missing, doubled, an item too few or too many) and
`Failed`; all of them go through `Handle`, which is the loop of `embed_many` around
`send_batch_with_retry`. `ParseBatch` is the index check of `send_batch`. `fault` is
history.

### SearchRequests and CrossVaultSearch

`SearchRequests` holds the stateless part: `Validated` (what each handler checks first, in
its order), `PathSearch`, `RankedSearch` and `SemanticSearch` (what one vault may answer:
SQLite chooses among equals), `Merged` and `Respond`, `Explain`. An index is a function from
paths to the texts of their chunks, and `Score` says what a text is worth to the query: the
text is all that is embedded, so equal texts have equal vectors. A *document* of an answer is
what `build_document_results` makes of it, the chunks of one file that have one text, since
the hash in its key is that of the chunk. `Panics` and `Misread` are the two errors of a
request that are taken for a failure of the vault. `CrossVaultSearch` is the handler: `ListRows`
or `ListFails`, `TakeEntries` (the two halves of `search_scope`), then one vault at a time
(`PassVault`, `SearchVault`, `GetPath`, `VaultFails`, `EmbedderDown`), then `Merge`; the debug handler
takes its own way (`DebugCandidates`, `DebugFile`, `DebugChunks`, `DebugAnswer`). Between any
two steps `RowChanges`, `EntryChanges` and `Reindexed` change registry, map and indexes.
`seen` remembers the index each vault had when it was searched, the reference the answer is
compared with.

### LegacyMigration

A database is named by who created it, and `root` and `own` say which of its files (main,
`-wal`, `-shm`) lie where, so that a `-wal` beside a foreign main file is visible. `pc` walks
through `run_if_needed` (`AutoCreate`, `CreateDir`, `WriteMeta`, `PickTarget`, `Move` once per
file), `reconcile_active_rows`, `reconcile_orphan_subdirs`, and `Store::open` with one action
per schema migration. `Crash` is possible in every state. The content of a database is its
version and what it holds of one unchanged file; `Migrated` says what each migration does
to it. The scan is one whose embeddings succeed; a file whose embedding fails keeps its empty
hash until a later scan, as in `EmbedSkips` of `VaultIndex`. `EditConfig` changes the `[vault]` block and the dimension between starts.

### Chunker

Parser events carry the byte range of their element, the end of a block the range of the
whole block, as in pulldown-cmark; positions of nested blocks are what makes the size
break subtle. Each arm of `handle_event` is an action and `SizeBreak` is
`maybe_size_break`. The references (`PathAt`, `Containers`, `Cuts`) are computed from the
document alone. What the chunker knows of the parser is `Parsed`, an assumption on
`Documents`: in which order the ranges come (`Ordered`), and that a heading or a code block
ends and holds only what it can hold (`Nested`). The parser is called without extensions
(`Options::empty()`), so there are no tables and no footnotes. It is modelled for what the chunker makes
of it: a heading has one text, which stands for the concatenation of its parts.

### VaultPaths

A path is a sequence of components, a `.gitignore` a verdict per path below its directory.
`Exclude` and `Reinclude` are the halves of `compiled_ignores_split`, `Includes` is
`InclusionFilter::includes`, `IsIgnored` the chain of matchers, `Walked` and
`FilterPass` the two users of it. `scanRules`, `watchRules` and `rescanRules` are the rules
at the moments at which `run_bootstrap` builds the three filters.

## The runs

### Passing

| Run | Instance | Shows |
|---|---|---|
| `MCVaultIndex_safety` | 2 paths, 2 bodies, 3 file changes, 1 failure, 2 operations, channel of 1 | `ChunksFollowHash`, `TextFollowsHash`, `FreshStat`, `QuietMeansSynced`, `NoWriteConflict`, `ViewExact`; implements `AnnouncedIndex` |
| `MCVaultIndex_progress` | 2 paths, 1 body, 2 changes, 1 failure, 2 operations, 1 detached call | `BacklogDrains`, `StopCompletes` |
| `MCControlPlane_races` | 2 ids, names, paths and clients, 4 operations (all but rescan), 1 crash | `OneLifecyclePerRunner`, `DrainedIsQuiet`, `DirGoesAfterRow` |
| `MCControlPlane_restarts` | 1 client, 5 operations, 2 crashes, 1 lost path | `QuietAgreement` |
| `MCControlPlane_finish` | 2 ids that compete for 1 name and path, 2 clients, 2 operations of every kind, 1 crash, failure and disconnect | `OpsFinish`, `LeaksEnd`; implements `VaultLifecycle` |
| `MCEventStream_streams` | 2 vaults, 1 stream, ring of 2, 4 events, 1 operation | `NoSilentGap`, `OnlyPinned`, `ReadersCatchUp` |
| `MCEmbedBatch_batch` | 2 calls, batches of 4, service limits 1 to 3, 1 bad text, 1 retry | `Aligned`, `NoSpuriousFailure`, `BatchingSurvives`, `CallsEnd` |
| `MCCrossVaultSearch_search` | 2 vaults, 2 paths, 4 indexes, 145 requests of all kinds, 2 changes, 1 failure | `EveryVaultAccounted`, `NothingBetterOmitted`, `EveryPathAnswered`, `DocumentsWhole`, `OneVaultFailsAlone` |
| `MCLegacyMigration_startup` | 3 ids, every legacy situation, 4 starts, 4 operations or edits | `StoreWhole`, `ScanCompletes`, `KeepsDatabases` |
| `MCChunker_chunks` | all documents of up to 4 of 14 blocks, target of 2 bytes | `NothingLost`, `PathsTrue`, `BoundariesMeet`, `BreaksInTime` |
| `MCVaultPaths_paths` | 9 files, 5 sets of `.gitignore` files, 4 changes | `PlainInSync`, `OverrideHolds` |

`safety`, `races` and `streams` also check the type invariants of the three modules whose
state is richest. That the chunks follow the hash also with detached calls is proved.

*What the properties say.* `FreshStat`: a row with the mtime of the file on disk was
hashed from that version. It is why a restarted scan may skip files by mtime, and it is
at stake whenever a file changes between the stat and the read. `QuietMeansSynced`: when a
live vault has nothing to do, the index agrees with the directory on every path that is not
excused. `NoWriteConflict`: the
choice between INSERT and UPDATE still fits. `ViewExact`: a subscriber that applied all
events has an exact copy. `DrainedIsQuiet`: between the shutdown and the spawn of an
undisturbed operation, no task of the vault exists, though a bootstrap may have been about
to install one. `QuietAgreement`: after operations one at a time that neither failed nor
were dropped, and any crashes, registry, map, entries and directories agree whenever
nothing is under way. `NoSilentGap`: events arrive in order, once, and every gap is marked by a lag
report. `NoSpuriousFailure`: batches larger than the service takes, bad texts and failures of
other calls are no reason for a call to fail. `BatchingSurvives`: calls that shrink at the
same time do not push the shared ceiling below half of what the service takes, and a bad
text does not push it to one.
`EveryVaultAccounted`: each vault that was registered and asked for is searched, skipped or
failed, exactly one of these, whatever happens to it meanwhile. `NothingBetterOmitted`: cutting
in every vault and again after the merge gives what one sorted list would, and an answer
that does not say it is truncated is complete. A search for documents collects a limited
number of *chunks* from every vault; in a vault that has more of them (`Crowded`) those of one
text may leave no room for another, and that vault alone is excepted. `DocumentsWhole`: a
document, one text of one file, is shown once, with the score of the text and the first
chunks that have it, although they come from several places of the file; in a vault with more
chunks than candidates some of these may be missing. That a *file* is shown once does not hold
(below). `OneVaultFailsAlone`: apart from a wrong request and an embedding service that is
down, only a registry that cannot be listed fails a search as a whole, and then no vault has
been asked. `StoreWhole`: a store is never opened with another database's `-wal`
beside it or a part of it elsewhere. `ScanCompletes`: wherever a migration was cut off, the
scan that follows fills what the migrations emptied; the stat gate relies on it.
`NothingLost`: no text falls between chunks; after a cut inside a list the chunker opens a
chunk at the list's start again, so text is repeated, but once per container at most. `PlainInSync` compares three
filters with one reference rule for files without dots, conflicts or links.

*Bounds.* Every bound is a constant in a guard. Two paths are enough for what relates
paths: the order of the channel, a scan interrupted between files, a rescan ahead of
events; one channel slot makes it full as soon as both have events. Three changes let a
file be created, rewritten while it is processed, and deleted. Two operations give
stop and restart, rescan and stop, or rebuild and restart. In the control plane,
conflicts are between two handlers; the others first bring the vault into
the state in which they meet (paused, created, without a runner). A vault that has
no runner exists initially (rows may be paused) and after a crash. In `finish`
the two vaults compete for one name, so a rename ends there without a change; its change is
in `races` and `restarts`. A ring of two
slots and four events lets a stream lag, recover and lag again; streams do not
influence each other, so one is enough. Two embedding calls are enough for what goes
through the one shared number; batches of four are halved twice, and the limits below,
at and above the halves are all there. Two vaults with two files, ties, files without
vectors and one with as many chunks as there are candidates show every order of a merge and every cut, and two changes can hit a vault before
and after each reading step. Four starts cover a kill in the legacy pass, a kill in the
start that repairs it, and a start after an edit. Documents of four blocks put each pair of
neighbours at the beginning, in the middle and at the end, and boxes nest twice.

*Symmetry* is used in safety runs only, and `VaultIndex`, `ControlPlane` and
`EventStream` never compare members of the symmetric sets. *Deadlock* is not checked: a
vault at rest has no step to take, and the bounds stop the environment.

### Fairness

`VaultIndex`: tasks that can move are polled by the runtime, blocking calls return, and
an embedding request has a timeout, hence weak fairness of `TaskStep`, of the notify
thread (`SendEvent`) and of the steps of shutdown. Nothing is assumed of file changes,
operations, failures and crashes; with the biased `select!` of the consumer, weak
fairness of the single loop is what the code has. The rescan counter is a `watch` channel,
which coalesces, so rescans cannot starve events in a bounded history; endless rescans
are outside the bounds.

`ControlPlane`: weak fairness of start-up, of each handler and of each task; strong
fairness of `Lock`, since tokio's mutex queues its waiters. A drain always ends, because
`shutdown_with_timeout` aborts after thirty seconds (`TaskStops`).

`EventStream`: a client that reads (weak fairness of its own stream), consumers that
drain, and a daemon that exits when its server has ended. No fairness for clients
hanging up, signals and second signals.

`EmbedBatch`: the HTTP client has a timeout, so every request is answered or fails (weak
fairness of each call's `Reply`). The other modules state safety only.

## Disagreements between the documents and the code

One has a run of its own, `MCEventStream_shutdown`, in which TLC shows the behaviour under
the fairness above: a client that keeps its stream open keeps a stopping daemon from
ending. `vault-management.md:190` says a watch streams "until disconnect, daemon shutdown,
vault termination, or stream error"; in `bin/hmnd.rs:174-196` the server waits for its
streams, and the bus whose end would end them is dropped after the server.

The last section of each module states further claims of documents and comments that TLC
refutes within seconds when the claim is put into a cfg of the module (`INVARIANT`, or
`PROPERTY` for the temporal ones; `FairSpec` where it says so):

| Claim | Behaviour | Smallest instance |
|---|---|---|
| `VaultIndex!ObservedWritesAreHashed` | a file restored with its old mtime and the same size passes the stat gate unhashed | 1 path, `FreshMtimes = FALSE`, 3 changes |
| `VaultIndex!RebuildOnQuietStore` | the rebuild runs while a write of the cancelled bootstrap is in flight | 1 path, 1 change, 2 operations, `MaxOrphans = 1` |
| `VaultIndex!FtsReadsWhatItIndexed` | the mtime-only update of a detached call changes `files.content` under the text index | 1 path, 2 changes, 3 operations, `MaxOrphans = 1` |
| `ControlPlane!TerminatedIsGone` | terminate takes no `op_lock`: an operation that found the vault earlier recreates its directory, or a runner | 1 id, 2 clients, 2 operations |
| `ControlPlane!NamesAgree` | resume publishes the row it read before it waited; a rename in between is lost in the entry | 1 id, 2 names, 2 clients, 3 operations |
| `ControlPlane!PausedMeansStopped` | resume spawns before it updates the row; a failing update leaves a lifecycle behind a paused row | 1 id, 3 operations, 1 fault |
| `ControlPlane!EntryFollowsRow` | a pause dropped at its last await leaves an active entry on a paused row, and later resumes return early | 1 id, 1 operation, 1 disconnect |
| `ControlPlane!InaccessibleIsErrored` | only start-up sets `errored` | 1 id, 1 move, `FairSpec` |
| `EventStream!NamedLagIsReal` | a lag of a single-vault stream names its vault whichever vault's events were lost | 2 vaults, ring of 1, 3 events |
| `EventStream!TerminationCloses` (change-events.md:178, "receives stream closure or a terminal control event") | neither happens: the stream ends with the bus only (`api/watch.rs:95`) | 1 vault, `FairSpec` |
| `VaultIndex!ChangesAreObserved` (change-events.md:73, "Renames are observed as a `deleted` + `created` pair"; tech-stack.md:160) | a directory that is moved away takes its files along without an event: `filter_pass` drops events of paths that are no `.md` file (`watcher/translate.rs:102`) | 1 path, 2 changes, as `PROPERTY` |
| `VaultIndex!RescanReconciles` (vault-management.md:93, "Force full reconciliation") | the rescan upserts what it finds; a row of a file that vanished unseen stays (`watcher/mod.rs:262`) | 1 path, 2 operations, `FairSpec` |
| `VaultIndex!RebuildReembeds` (vault-management.md:162, "re-embeds at startup") | the bootstrap after a rebuild skips the scan; nothing re-embeds until a rescan or an edit (`manager.rs:1420`) | 1 path, 3 operations, `FairSpec` |
| `ControlPlane!PausedIndexSurvives` (vault-management.md:56, "index preserved") | start-up removes the directory of every vault that is not active as an orphan (`manager.rs:1200`) | 1 id |
| `ControlPlane!AnyStateTerminates` (vault-management.md:48, "terminate (any state)") | `resolve` searches the runner map only; a vault paused before a restart has no runner (`manager.rs:399`) | 1 id |
| `ControlPlane!OneLifecyclePerVault` (vault-management.md:673, "Serialized via the per-vault `op_lock`") | resume and reset without a runner take no lock; two of them start two lifecycles (`manager.rs:714`) | 1 id, 2 clients, 2 operations |
| `ControlPlane!SoleLifecycle` | a reset without a runner rereads a row that a concurrent pause has set to paused and publishes a running runner that says paused; a later resume spawns a second bootstrap on it (`manager.rs:985`); a resume dropped after it spawned leaves an entry on which the next one spawns again | `races`; also 1 id, 1 client, 3 operations, 1 disconnect |
| `EmbedBatch!LearnsOnce` (`embedding.rs:197`, wasted requests "once per daemon lifetime") | only a batch of more than one input lowers the ceiling, so with a limit of 1 every file pays again | `batch`, as `PROPERTY` |
| `CrossVaultSearch!RegexModeSearchesPatterns` (`api/types.rs:74`, "Equivalent to") | the mode is resolved to regex, but the matcher looks at the flag | `search` |
| `CrossVaultSearch!FilesShownOnce` (semantic-search.md:16, "chunks are grouped by parent file") | documents are keyed by vault, path and `content_hash` (`api/search.rs:517`), which is the hash of the chunk's own text (`search/semantic.rs:204`, `store/chunks.rs:45`, `chunk.rs:255-257`) and not of the file: a file is as many documents as it has texts, and these compete for the `limit` | `search` |
| `CrossVaultSearch!DocumentsAreTheTop` (overview.md:227, "preserving cross-vault top-N") | the candidates are chunks; those of one text crowd out a second document, and a worse one of another vault is shown instead (`search/semantic.rs:193`) | `search` |
| `CrossVaultSearch!PrefixedIsComplete` | the nearest neighbours are cut before the prefix is applied (`search/semantic.rs:193`); the answer may be empty and say it is whole | `search` |
| `CrossVaultSearch!PrefixNeverEmpty` (a `debug_assert!` of `prefix_successor`) | the ranked search passes an empty prefix on | `search` |
| `CrossVaultSearch!DebugReadsOneVersion` | the file and its chunks are read in two queries (`api/debug.rs:190`) | `search` |
| `LegacyMigration!StoreWhole` with `HotEdits = TRUE` (configuration.md:136) | with the `[vault]` block gone before the first start, a vault created by hand later gets the `-wal` of the v0 database beside its own main file | `startup` |
| `LegacyMigration!AutoCreatesOnce` (`legacy_state_migration.rs:52`) | the block inserts a row again whenever the registry is empty | `startup` |
| `LegacyMigration!MetaWritten` | killed after the row is inserted, no later start writes `meta.toml` | `startup` |
| `LegacyMigration!IndexSurvives` | a vault whose path is away for one start loses its index | `startup`, as `PROPERTY` |
| `Chunker!EmbeddedOnce` (`chunk.rs:3`) | the text of a list that was cut is in two chunks | `chunks` |
| `Chunker!BreaksAtNextBlockEnd` (`chunk.rs:12`) | a container reopened at its start ends later than the next block | `chunks` |
| `VaultPaths!ScanWatchAgree` (`watcher/inclusion.rs:4`, "Unified path-inclusion predicate") | names with a dot and conflict copies pass the walk and not the watcher | `paths` |
| `VaultPaths!RescanReadsRules` (vault-ignores.md:136) | the rescan keeps the filter of its consumer's start | `paths`, as `PROPERTY` |
| `VaultPaths!OutsideNeverIndexed` (filesystem-search.md:131) | `reindex_path` follows a link the scan refuses | `paths` |
| `VaultPaths!GitNeverIndexed` (vault-ignores.md:204) | only a `.git` at the root is excluded | `paths` |

## The proofs

All theorems hold for every value of the constants, bounds included, under the named
assumptions of the modules (finite sets where the code has finite ones, a positive channel,
marks that differ from values). A hypothesis beyond them is named with its theorem. Each
safety theorem is `Init => I`, `I /\ [Next]_vars => I'` and `I => P` for an inductive `I`.

| Theorem | States, for `Spec` | Hypothesis |
|---|---|---|
| `VaultIndexProofs!TypeCorrect` | `[]TypeOK` | |
| `VaultIndexProofs!ChunksAlwaysFollowHash` | `[]ChunksFollowHash` | |
| `VaultIndexProofs!WritesNeverConflict` | `[]NoWriteConflict` | `[]NoneDetached` |
| `VaultIndexProofs!TextAlwaysFollowsHash` | `[]TextFollowsHash` | `[]NoneDetached` |
| `VaultIndexProofs!CopyStaysExact` | `[]ViewExact` | `[]NoneDetached` |
| `VaultIndexProofs!VaultKeepsItsPromise` | `AnnouncesEveryChange`, the refinement | `[]NoneDetached` |
| `VaultIndexProofs!StatGateIsSound` | `[]FreshStat` | `FreshMtimes`, `[]NoneDetached` |
| `VaultIndexProofs!NoUpdateIsLost` | `[]QuietMeansSynced` | `FreshMtimes`, `[]NoneDetached` |
| `ControlPlaneProofs!TypeCorrect` | `[]TypeOK` | |
| `ControlPlaneProofs!DirsGoLast` | `DirGoesAfterRow` | |
| `ControlPlaneProofs!RegistryKeepsLifecycle` | `KeepsLifecycle`, the refinement | |
| `ControlPlaneProofs!LockServes` | `[]OneLifecyclePerRunner` | in the property: `Undisturbed` |
| `ControlPlaneProofs!ShutdownIsComplete` | `[]DrainedIsQuiet` | in the property: `Undisturbed` |
| `ControlPlaneProofs!OperationsAgree` | `[]QuietAgreement` | in the property: `OneByOne`, no faults, no drops |
| `EventStreamProofs!TypeCorrect` | `[]TypeOK` | |
| `EventStreamProofs!StreamsStayPinned` | `[]OnlyPinned` | |
| `EventStreamProofs!GapsAreReported` | `[]NoSilentGap` | |
| `CrossVaultSearchProofs!OneFailureIsOneVault` | `[]OneVaultFailsAlone` | |
| `CrossVaultSearchProofs!AllVaultsAccounted` | `[]EveryVaultAccounted` | |
| `CrossVaultSearchProofs!TopOfTheMerge` | `[]NothingBetterOmitted` | in the property: `Crowded`, no prefix |
| `CrossVaultSearchProofs!DocumentsAreWhole` | `[]DocumentsWhole` | |
| `CrossVaultSearchProofs!PathsAnswered` | `[]EveryPathAnswered` | |
| `EmbedBatchProofs!VectorsStayAligned` | `[]Aligned` | |
| `EmbedBatchProofs!FailuresHaveCauses` | `[]NoSpuriousFailure` | |
| `EmbedBatchProofs!CeilingStaysFit` | `[]BatchingSurvives` | |
| `LegacyMigrationProofs!ScansFillMigrations` | `[]ScanCompletes` | |
| `LegacyMigrationProofs!DatabasesAreKept` | `KeepsDatabases` | |
| `LegacyMigrationProofs!StoresOpenWhole` | `[]StoreWhole` | `HotEdits = FALSE` |
| `ChunkerProofs!NothingIsLost` | `[]NothingLost` | |
| `ChunkerProofs!PathsAreTrue` | `[]PathsTrue` | |
| `ChunkerProofs!BoundariesAlwaysMeet` | `[]BoundariesMeet` | |
| `ChunkerProofs!ChunksBreakInTime` | `[]BreaksInTime` | in the property: `Flat` |
| `VaultPathsProofs!PlainFilesAgree` | `[]PlainInSync` | |
| `VaultPathsProofs!OverridesWin` | `[]OverrideHolds` | |

### The hypotheses

`NoneDetached` says that no `spawn_blocking` call outlives its cancelled task. It is a
hypothesis about the behaviour and excludes nothing else: tasks fail, are cancelled,
aborted and killed at every step. It is needed: the two claims of the table above with
`MaxOrphans = 1` are the counterexamples. The lemma `NoBudgetNoneDetached` proves it for
`MaxOrphans = 0`, which is how `MCVaultIndex_safety` checks the same properties.
`ChunksAlwaysFollowHash` needs no such hypothesis.

`FreshMtimes` says that a change of a file gives it an mtime it did not have before; a
restored file breaks it, and then `ObservedWritesAreHashed` shows what is lost.

`NoUpdateIsLost` speaks of paths that are not excused. What was changed without an event is
excused, not hidden: an update of which the watcher is told cannot be lost, one of which it
is not told is.

`HotEdits` is the row of the table about the `-wal` of a v0 database.

`Undisturbed` and `OneByOne` are results of the proof attempts. `OneLifecyclePerRunner`,
`DrainedIsQuiet` and `QuietAgreement` used to have weaker premises and held in their runs
only because these have no faults, no disconnects, or one client. The inductive step failed
where a handler is dropped between spawning a task and publishing its entry (the next
resume sees a paused entry and spawns a second task), and where a shutdown is dropped after
it took a handle out of its slot. TLC confirmed the former with 1 id, 1 client, 3 operations
and 1 disconnect. The premises now say what the code guarantees.

`Crowded` is another. `NothingBetterOmitted` held for documents in a run whose files had
two chunks at most, three being asked for; the step from the parts of the vaults to the merge
does not go through, since a vault that has cut its part need not have given `limit`
documents. A file with three chunks of one text is the counterexample, and is now part of the
run.

`Flat`, of `BreaksInTime`, is the fourth. The premise used to be that every text is outside
of all containers; a list that has no text at all satisfies it, is cut, and its end opens
a chunk at its start again, which goes on beyond the next block. A file without lists and
quotes is what the promise is about, and `Flat` says it of the ranges: what follows the end
of a block comes after it.

### VaultIndex

`TypeOK` is not inductive: a `write` step stores `job.hash` as the chunks of a row, so the
invariant must say that a task, or a detached call, whose next step is `write` holds the
hash of a body that was read. `TypeInv` adds this (`WorkInv`, `OrphanInv`) and splits the
rest by subsystem, so that the proof of each action treats what it disturbs. The SQL
transactions have lemmas of their own, used by the task that runs them and by the detached
call.

`BaseInv` adds which steps a phase knows (`ShapeInv`), and that the row a job was given is
still the row (`RowInv`): one task works on the index, so nothing changes a row between the
scan's snapshot and the write. `NoWriteConflict` and `TextFollowsHash` follow from it.
`EventInv` says that the copy of a subscriber differs from the hashes by the due event
only, while one is due. For `AnnouncedIndex`, a step that changes a hash is mapped to
`Change` on a live vault and to `Silent` otherwise, a publication to `Announce`, the
installation of the consumer to `GoLive`, the end of a lifecycle to `GoOffline`, and every
other step to a stutter.

`FreshInv` bounds every remembered mtime by the clock, and says that a job that has read its
file knows the version the mtime belongs to, if the file still has it. `SyncInv` is the
argument for `QuietMeansSynced`: during the scan, every path that is not excused is synced,
in work, in the list with a stat and a row that are still true (`Fresh`), or without a file
and due for the sweep; in a live vault it is queued in the debouncer or the channel
(`QueueInv`: its last queued event says what became of it), in work, or synced. At rest
only the last is left. A path with an event under way stays excused although it is looked at
(`Sampled`): that event is older than the change nobody heard of, and the last one queued
need not tell the truth.

### ControlPlane

That a step finds the row, the runner or the name it uses depends on how far in its plan the
handler is. `TypeInv` therefore says that a plan is a suffix of one of the operation's
plans, and has for each step a table of what the handler must remember. `RegInv`
adds that names, paths and ids are unique and used once, that errored vaults have no
runner, and that who is about to remove a directory has removed the row. The steps are
mapped to `VaultLifecycle` thus: `ReconcileRows` to `Reconcile`, the end of start-up and a
crash of a serving daemon to `Switch`, the insert of a create to `Create`, `UpdateStatus` to
`Pause`, `Activate` or a stutter, `UpdateName` to `Rename`, `DeleteRow` to `Terminate` or a
stutter, and everything else to a stutter.

`Calm` is the invariant of undisturbed histories: the holder of `op_lock` is alone; a task
is in one of the slots of its runner, or the holder has just taken it out; an entry that is
not active has no task, unless the resume that holds the lock has spawned one and not yet
published it. `AgreeInv` is that of one client: every vault no operation is under way on is
settled, and the one under way has come as far as its plan says.

### EventStream

What a stream has accounted for before a line depends on the lines before it, so an added
line leaves earlier ones alone; each of the three results of `recv` adds a line that
accounts for the events the cursor passed. The last event before a line is
the one with the greatest index; that there is one comes from the well-foundedness of `<` (the
library's `NatLessThanWellFounded`), because the induction theorems of the library take an
operator as parameter.

### EmbedBatch

`AlignInv`: the vectors collected so far are those of the texts before the position, which
every accepted answer extends by the texts of the batch sent, in whatever order they came.
`CauseInv`: a call that failed has a bad text or a fault of its own to show.
For `BatchingSurvives` the invariant must also bound the *sizes of the calls*, because a
call read the ceiling before others lowered it and writes its own size back. `FitInv` says that, while no call has a bad
text, the ceiling and the size of every call of `embed_many` stay above half of what the
service takes: a size is halved only when it was refused, hence above the limit.

### CrossVaultSearch

`SearchInv` has the rows and the request (`BaseInv`), what an answer may be (`RepliedInv`),
that every vault asked for is queued, searched, skipped or failed, exactly one of these
(`OutcomeInv`), and that the rows collected from a searched vault *serve* the request
(`PoolInv`). `Serves` is the interface between the two halves of the argument, what one
vault promises to the merge: its rows match; if it is not truncated they are all that match;
no row it kept back is better than one it gave; if it kept any back, it gave as many as were
asked for; and if a semantic search kept a chunk back that matches, the vault has more chunks
than candidates. The three searches are shown to keep it whichever of the equal rows SQLite
has chosen.

The merge needs no steps. A row that is not shown was collected, and then the sorted list
has only better ones before the cut, or it was kept back by its vault: that vault has given
`limit` rows, all better, which either fill the answer, or one of them is not shown and stands
between. The chunks of a document have one text and so one score: the list of its evidence is
in the order of the chunks (`FirstChunks`), and what is missing from it comes after the cut, or
was kept back, which is the last promise. Sorted lists are handled by ranks (`RanksTaken`, `RankedLists`: in a finite
set with a total order every number below its size is the rank of one element), because a sort
by recursion would need induction over data; `Sorted` and `InScope` are stated accordingly.

`GetInv` follows the items of a get, one per path and searched vault. `DebugInv` says that the
vaults in which the path was seen are those found so far and the one being read, although its
chunks are read later, from what may be another version.

### LegacyMigration

`BaseInv` has types, the row a step of the start works on, and the main file in every
directory in use. `ContentInv` states what is left between two migrations (`Filled`): from
version 2 to 3 the chunks are dropped while the hash is still set, and the hash goes with
the next one, so the property proper is not invariant, and a kill between them is harmless
only because a store at version 3 is never served.

`FilesInv` says that a directory holds parts of one database only. That needs `HotInv`:
while a `-wal` or `-shm` is where v0 left it, no start gets past the rename pass; before
the main file is moved there is at most one row and no vault has files, and the block is
still there, so every start picks the same target; after it, the target is the only row,
has room for what is left, and the pass has it ahead of it. This is why the order
`index`, `wal`, `shm` of the candidates and the place of the pass before the first
`Store::open` matter.

### Chunker

The ten actions treat the open chunk and the emitted ones in five ways (`StepIsOne`): the
chunk goes on or one is opened, a heading ends it and opens the next, a thematic break, the size or
the end of the file ends it. The invariants about chunks are shown for these five, the ones about the
stack and the text of a heading for the actions. Everything rests on the contract of the
parser only, not on how a document looks.

`PlaceInv` says where the chunks are among the events: the open one begins with an event
that was handled, the emitted ones end before what is to begin, and after a cut the last
event was the end of a block or a thematic break. With it `KeptInv` holds from the moment
a text is read: the open chunk or an emitted one has it, and the number of these exceeds
one by no more than the containers around it that have ended. The only step that adds a copy is an event
that opens a chunk *before* a text already read, and `Reopens` shows that this is the end of a
container of that text.

For `PathsTrue`, `StackInv` has `heading_stack` as a function of the events handled,
`PathInv` the path of the open chunk, which lags behind while the text of its own heading is collected,
and `HeadingsBefore` says that the headings handled when a chunk is closed are exactly
those that end before its last byte, although a block is closed with the range of the whole
block. A chunk is never closed inside a heading (`InsideHeading`).

For `BreaksInTime`, `CodeInv` says that the depth is 0 wherever a block ends, so that the
size is looked at every time, and `SpanInv` that no block that ended so far had outgrown the
open chunk. For `BoundariesMeet`, `BoundInv` ties the pending reason to the last chunk.

### VaultPaths

`ChainFindsNearest` is about the rules alone: the deepest `.gitignore` that says anything
of a path, asked for its longest match, gives the verdict of the nearest of all rules that
speak of the path. What may speak are beginnings of the path, which their lengths tell
apart, so the greatest length names one of them; that a bounded set of lengths has a
greatest is again well-foundedness. `SyncInv` compares the index with the rules the *scan*
was given, and only while the filters built since were given the same: the rules themselves
may change at any moment without a step of the vault. `OverrideInv` needs no such premise,
because `Includes` does not look at the rules for what the operator includes. Files changed
between the scan and the watch are in `missed`, and outside of both properties.

### What stays with TLC

Liveness (`BacklogDrains`, `StopCompletes`, `OpsFinish`, `LeaksEnd`, `ReadersCatchUp`,
`CallsEnd`): fairness and `ENABLED` are out of the prover's reach. Every other property of
the passing runs is stated by a theorem above. The claims that the code does not keep have
counterexamples instead.

## Not modelled

* SQLite itself (transactions are atomic and durable, as WAL mode gives them), the
  parser of Markdown, the embedding service beyond its answers, the debouncer beyond the
  two facts above.
* Formatting: JSON, snippets, previews and line numbers of search results, log lines, the
  text of errors; the MCP server, which wraps the same calls; the CLI; `diagnose_chunk`.
* Parsing and validation of the configuration; it is read once.
* Health and status: they report on state that is modelled and decide nothing.
* Encodings and case-folding of paths: `Paths` stands for names.
* Test constructors, the stub embedder and deprecated single-vault helpers.

## The plan

Done: all components named above as modelled; the safety properties and the refinements of
`VaultIndex`, `ControlPlane`, `EventStream`, `EmbedBatch`, `CrossVaultSearch`,
`LegacyMigration`, `Chunker` and `VaultPaths` proved.

To come: the hazards that have no property yet, where a property can be stated that the
code keeps.

No module declares a RECURSIVE operator, so all can be proved about.

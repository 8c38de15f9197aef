----------------------------- MODULE VaultIndex -----------------------------
(***************************************************************************)
(* One vault of the daemon: the Markdown files under the vault path, the   *)
(* per-vault SQLite index, the filesystem watcher with its bounded         *)
(* channel, the bootstrap task that runs the initial scan, and the         *)
(* consumer task that turns watcher events and rescan requests into index  *)
(* updates and live change events.                                         *)
(*                                                                         *)
(* Source: src/src/indexer/mod.rs, src/src/indexer/walk.rs,                *)
(* src/src/watcher/mod.rs, src/src/watcher/translate.rs,                   *)
(* src/src/store/chunks.rs, and the bootstrap, rebuild and shutdown parts  *)
(* of src/src/control_plane/{manager,runner}.rs.                           *)
(*                                                                         *)
(* Abstractions.  A file body stands for its own SHA-256 hash (the docs    *)
(* exclude collisions), so a hash is a body or the empty-string Sentinel.  *)
(* An mtime is the number of the filesystem change that produced it.  The  *)
(* chunks of a body and their vectors are named by the body they were cut  *)
(* from.  Two steps of one task are merged only where one of them reads    *)
(* the vault alone and the other touches the index alone: every step of    *)
(* another actor in between commutes with one of the two.                  *)
(***************************************************************************)
EXTENDS Naturals, Sequences, FiniteSets

CONSTANTS
    Paths,        \* vault-relative Markdown paths the inclusion filter accepts
    Bodies,       \* file contents
    Size,         \* byte length of each body
    Buffer,       \* capacity of the watcher channel (WATCHER_BUFFER)
    FreshMtimes,  \* TRUE: every change of a file gives it an mtime of its own
    Absent,       \* "no file", "no row", "no job field"
    Sentinel,     \* content_hash = '': the row needs re-embedding
    MaxClock,     \* bound: filesystem changes in a behaviour
    MaxFaults,    \* bound: I/O and embedding failures in a behaviour
    MaxOps,       \* bound: stops, crashes, rescans and rebuilds
    MaxOrphans    \* bound: blocking calls that outlive their cancelled task

ASSUME PathsAssumption  == IsFiniteSet(Paths)
ASSUME SizeAssumption   == Size \in [Bodies -> Nat]
ASSUME BufferAssumption == Buffer \in Nat \ {0}
ASSUME BoundAssumption  == /\ MaxClock \in Nat /\ MaxFaults \in Nat
                           /\ MaxOps \in Nat /\ MaxOrphans \in Nat
ASSUME FreshAssumption  == FreshMtimes \in BOOLEAN
ASSUME MarkAssumption   == /\ Absent \notin Bodies /\ Sentinel \notin Bodies
                           /\ Absent # Sentinel /\ Absent \notin Paths

VARIABLES
    disk,      \* the vault directory: a file (mtime, body) or Absent, per path
    clock,     \* filesystem changes so far
    files,     \* the `files` rows
    chunks,    \* the body whose `chunks` and `chunks_vec` rows are stored
    fts,       \* the body whose terms are in `files_fts`
    watching,  \* the notify watch is registered
    pending,   \* the debouncer's events of each path, not yet sent
    chan,      \* the mpsc channel between the notify thread and the consumer
    phase,     \* down, scanning (bootstrap), live, draining or errored
    stopping,  \* the per-vault shutdown signal has been sent
    skip,      \* the next bootstrap skips the initial scan (reset --rebuild)
    rescan,    \* the rescan counter was bumped and not yet observed
    pc,        \* the next step of the task that works on the index
    job,       \* the file it works on
    todo,      \* the files a scan or a rescan has yet to process
    gone,      \* rows the scan preflight found no file for
    orphans,   \* blocking calls detached from a cancelled or aborted task
    view,      \* history: what a subscriber to live events makes of the index
    excused,   \* history: paths the running lifecycle gave up on
    faults,    \* failures so far
    ops        \* operations so far

env    == <<disk, clock>>
store  == <<files, chunks, fts>>
watch  == <<watching, pending, chan>>
life   == <<phase, stopping, skip, rescan>>
work   == <<pc, job, todo, gone>>
ghost  == <<view, excused>>
bounds == <<faults, ops>>
vars   == <<env, store, watch, life, work, orphans, ghost, bounds>>

-----------------------------------------------------------------------------
Hashes == Bodies \cup {Sentinel}
Files  == [mtime : Nat, body : Bodies]
Rows   == [mtime : Nat, size : Nat, hash : Hashes, content : Bodies]
Events == {"upsert", "remove"}
Kinds  == {"none", "created", "modified", "deleted"}

ASSUME AbsentAssumption == Absent \notin Files /\ Absent \notin Rows

\* What process_entry is called with, and what it computes on the way: `prior`
\* is the row the caller read, `hash` the body read from disk (or the hash a
\* delete removed), `event` the live event that is due.
Jobs == [path : Paths \cup {Absent}, mtime : Nat, size : Nat,
         prior : Rows \cup {Absent}, hash : Hashes \cup {Absent}, event : Kinds]

NoJob == [path |-> Absent, mtime |-> 0, size |-> 0,
          prior |-> Absent, hash |-> Absent, event |-> "none"]

JobFor(p) == [NoJob EXCEPT !.path = p]

PCs    == {"idle", "walk", "stat", "decide", "embed", "write", "remove",
           "publish", "sweep", "register"}
Phases == {"down", "scanning", "live", "draining", "errored"}

OnDisk == {p \in Paths : disk[p] # Absent}
InRows == {p \in Paths : files[p] # Absent}

HashOf(p) == IF files[p] = Absent THEN Absent ELSE files[p].hash

Init ==
    /\ disk \in [Paths -> [mtime : {0}, body : Bodies] \cup {Absent}]
    /\ clock = 0
    /\ files = [p \in Paths |-> Absent]
    /\ chunks = [p \in Paths |-> Absent]
    /\ fts = [p \in Paths |-> Absent]
    /\ watching = FALSE
    /\ pending = [p \in Paths |-> <<>>]
    /\ chan = <<>>
    /\ phase = "down" /\ stopping = FALSE /\ skip = FALSE /\ rescan = FALSE
    /\ pc = "idle" /\ job = NoJob /\ todo = {} /\ gone = {}
    /\ orphans = {}
    /\ view = [p \in Paths |-> Absent]
    /\ excused = {}
    /\ faults = 0 /\ ops = 0

-----------------------------------------------------------------------------
(* The vault directory and the watcher.                                    *)

\* The debouncer keeps what is needed to deliver the final state of a path: a
\* remove replaces what was pending, an upsert after a remove is kept with it,
\* repeated upserts collapse.
Coalesce(q, kind) ==
    IF kind = "remove" THEN <<"remove">>
    ELSE IF q # <<>> /\ q[Len(q)] = "upsert" THEN q ELSE Append(q, "upsert")

\* A change is reported only to a registered watch.  A change the bootstrap scan
\* may have walked past, before the watch exists, reaches nobody: it is excused.
Notify(p, kind) ==
    /\ pending' = IF watching THEN [pending EXCEPT ![p] = Coalesce(@, kind)]
                  ELSE pending
    /\ excused' = IF phase = "scanning" THEN excused \cup {p} ELSE excused

\* Nor does a change that comes as an event of something else: of a directory moved
\* or removed with all that is in it (its name is no .md file), of an overflow, of a
\* rename that does not name two paths, or as an error of notify.  The removal of a
\* directory takes along what the debouncer holds of the files in it.
NotifyNobody(p) ==
    /\ watching
    /\ pending' \in {pending, [pending EXCEPT ![p] = <<>>]}
    /\ excused' = excused \cup {p}

\* A file is created, saved or moved into place.  With FreshMtimes the file gets
\* an mtime no file had before; without, it may carry any earlier one (a copy
\* that preserves timestamps, a restored backup).
WriteFile(p, b) ==
    /\ clock < MaxClock
    /\ clock' = clock + 1
    /\ \E t \in IF FreshMtimes THEN {clock + 1} ELSE 0 .. clock + 1 :
          disk' = [disk EXCEPT ![p] = [mtime |-> t, body |-> b]]
    /\ Notify(p, "upsert") \/ NotifyNobody(p)
    /\ UNCHANGED <<store, watching, chan, life, work, orphans, view, bounds>>

\* A file is deleted or moved away.  A rename whose direction the platform does
\* not report arrives as an upsert of a path that is no longer there.
DeleteFile(p) ==
    /\ clock < MaxClock
    /\ disk[p] # Absent
    /\ clock' = clock + 1
    /\ disk' = [disk EXCEPT ![p] = Absent]
    /\ (\E kind \in Events : Notify(p, kind)) \/ NotifyNobody(p)
    /\ UNCHANGED <<store, watching, chan, life, work, orphans, view, bounds>>

\* Only the metadata of a file changes: translate drops the event.
TouchFile(p) ==
    /\ clock < MaxClock
    /\ disk[p] # Absent
    /\ clock' = clock + 1
    /\ disk' = [disk EXCEPT ![p].mtime = clock + 1]
    /\ UNCHANGED <<store, watch, life, work, orphans, ghost, bounds>>

\* Mutant: try_send without looking at the capacity.
SendEventUnbounded(p) ==
    /\ watching
    /\ pending[p] # <<>>
    /\ chan' = Append(chan, [kind |-> Head(pending[p]), path |-> p])
    /\ pending' = [pending EXCEPT ![p] = Tail(@)]
    /\ UNCHANGED <<env, store, watching, life, work, orphans, ghost, bounds>>

\* The debounce window of a path closes: the notify thread sends its next event,
\* blocking while the channel is full.
SendEvent(p) ==
    /\ watching
    /\ pending[p] # <<>>
    /\ Len(chan) < Buffer
    /\ chan' = Append(chan, [kind |-> Head(pending[p]), path |-> p])
    /\ pending' = [pending EXCEPT ![p] = Tail(@)]
    /\ UNCHANGED <<env, store, watching, life, work, orphans, ghost, bounds>>

-----------------------------------------------------------------------------
(* The SQL transactions.                                                   *)

\* INSERT meets an existing primary key, or the row to update is gone.
WriteConflict(j) == (j.prior = Absent) # (files[j.path] = Absent)

\* rewrite_chunks_for_file: the chunks of the path go, those of the body come.
RewriteChunks(j) == chunks' = [chunks EXCEPT ![j.path] = j.hash]

\* write_blocking: files row, FTS entry, chunks and vectors in one transaction.
WriteTx(j) ==
    /\ files' = [files EXCEPT ![j.path] =
                   [mtime |-> j.mtime, size |-> j.size,
                    hash |-> j.hash, content |-> j.hash]]
    /\ RewriteChunks(j)
    /\ fts' = [fts EXCEPT ![j.path] = j.hash]

\* The mtime-only update of decide_upsert: size, hash, chunks and FTS stay.
TouchTx(j, b) ==
    /\ files' = [files EXCEPT ![j.path] =
                   IF @ = Absent THEN Absent
                   ELSE [@ EXCEPT !.mtime = j.mtime, !.content = b]]
    /\ UNCHANGED <<chunks, fts>>

\* Mutant: the FTS entry is left behind, as the watcher's remove once did.
DropTxKeepingText(S) ==
    /\ files' = [p \in Paths |-> IF p \in S THEN Absent ELSE files[p]]
    /\ chunks' = [p \in Paths |-> IF p \in S THEN Absent ELSE chunks[p]]
    /\ UNCHANGED fts

\* Mutant: the vectors and chunks of a deleted file are left behind.
DropTxKeepingChunks(S) ==
    /\ files' = [p \in Paths |-> IF p \in S THEN Absent ELSE files[p]]
    /\ fts' = [p \in Paths |-> IF p \in S THEN Absent ELSE fts[p]]
    /\ UNCHANGED chunks

\* delete_file_in_tx for every path of S, in one transaction.
DropTx(S) ==
    /\ files' = [p \in Paths |-> IF p \in S THEN Absent ELSE files[p]]
    /\ chunks' = [p \in Paths |-> IF p \in S THEN Absent ELSE chunks[p]]
    /\ fts' = [p \in Paths |-> IF p \in S THEN Absent ELSE fts[p]]

StatGate(j) ==
    /\ j.prior # Absent
    /\ j.prior.size = j.size
    /\ j.prior.mtime = j.mtime
    /\ j.prior.hash # Sentinel

\* Mutant: no content-hash gate.
HashNeverMatches(j) == FALSE

HashMatches(j) ==
    /\ j.prior # Absent
    /\ disk[j.path] # Absent
    /\ j.prior.hash = disk[j.path].body

-----------------------------------------------------------------------------
(* Ends of a file's turn and of a lifecycle.                               *)

FinishJob == pc' = "idle" /\ job' = NoJob

\* Everything a task or a watch keeps in memory is dropped.
ClearWork  == FinishJob /\ todo' = {} /\ gone' = {}
ClearWatch == /\ watching' = FALSE
              /\ pending' = [p \in Paths |-> <<>>]
              /\ chan' = <<>>

\* The vault has no task any more.  The next scan looks at every file again, so
\* nothing stays excused, and live subscribers have nothing to go by.
Unload(next) ==
    /\ phase' = next /\ stopping' = FALSE /\ rescan' = FALSE
    /\ ClearWork /\ ClearWatch
    /\ view' = [p \in Paths |-> Absent]
    /\ excused' = {}

\* `?` in the bootstrap scan: the first error ends the bootstrap, and with it the
\* lifecycle, before a watcher exists.  The consumer logs the error and goes on.
FailJob(paths) ==
    IF phase = "scanning"
    THEN Unload("errored")
    ELSE /\ FinishJob
         /\ excused' = excused \cup paths
         /\ UNCHANGED <<watch, phase, stopping, rescan, todo, gone, view>>

\* The task's turn ends without an error and without a live event.
EndQuietly(paths) ==
    /\ FinishJob
    /\ excused' = excused \cup paths
    /\ UNCHANGED <<phase, stopping, rescan, watch, todo, gone, view>>

\* The bootstrap task polls the shutdown signal before anything else, and only
\* the bootstrap scan runs in the scanning phase.
Running == phase \in {"live", "draining"} \/ (phase = "scanning" /\ ~stopping)

-----------------------------------------------------------------------------
(* The bootstrap task: Scanner::run_with_progress, then the watcher and the *)
(* consumer (run_bootstrap).                                               *)

Start ==
    /\ phase \in {"down", "errored"}
    /\ phase' = "scanning"
    /\ skip' = FALSE
    /\ pc' = IF skip THEN "register" ELSE "walk"
    /\ UNCHANGED <<env, store, watch, stopping, rescan, job, todo, gone,
                   orphans, ghost, bounds>>

\* Phase 1: walk the vault, then load every row.  A walk error hides a file that
\* is there.
ScanWalk(hidden) ==
    /\ phase = "scanning" /\ pc = "walk" /\ ~stopping
    /\ LET found == OnDisk \ hidden
       IN  /\ todo' = {[JobFor(p) EXCEPT !.mtime = disk[p].mtime,
                                         !.size = Size[disk[p].body],
                                         !.prior = files[p]] : p \in found}
           /\ gone' = InRows \ found
    /\ pc' = "idle"
    /\ excused' = hidden
    /\ faults' = faults + Cardinality(hidden)
    /\ UNCHANGED <<env, store, watch, life, job, orphans, view, ops>>

\* Phase 2: the next walked entry, with the stat of the walk and the row of the
\* preflight.
ScanNext ==
    /\ phase = "scanning" /\ pc = "idle" /\ ~stopping
    /\ \E j \in todo :
          /\ job' = j
          /\ todo' = todo \ {j}
          /\ pc' = "decide"
    /\ UNCHANGED <<env, store, watch, life, gone, orphans, ghost, bounds>>

ScanDone ==
    /\ phase = "scanning" /\ pc = "idle" /\ ~stopping
    /\ todo = {}
    /\ pc' = "sweep"
    /\ UNCHANGED <<env, store, watch, life, job, todo, gone, orphans, ghost,
                   bounds>>

\* Phase 3: one transaction deletes every row the walk found no file for.
Sweep ==
    /\ phase = "scanning" /\ pc = "sweep" /\ ~stopping
    /\ DropTx(gone)
    /\ gone' = {}
    /\ pc' = "register"
    /\ UNCHANGED <<env, watch, life, job, todo, orphans, ghost, bounds>>

\* The watch is registered and the consumer spawned.  A subscriber that queries
\* the index now and listens from now on starts with `view`.
Register ==
    /\ phase = "scanning" /\ pc = "register" /\ ~stopping
    /\ phase' = "live"
    /\ watching' = TRUE
    /\ pc' = "idle"
    /\ view' = [p \in Paths |-> HashOf(p)]
    /\ UNCHANGED <<env, store, pending, chan, stopping, skip, rescan, job, todo,
                   gone, orphans, excused, bounds>>

-----------------------------------------------------------------------------
(* The consumer task: run_consumer, run_rescan, drain_remaining.           *)

ConsumerIdle == pc = "idle" /\ todo = {}

\* The select is biased: shutdown before rescan before the channel.  Once it
\* drains, the consumer looks at the channel alone.
Receive ==
    /\ ConsumerIdle
    /\ \/ phase = "live" /\ ~stopping /\ ~rescan
       \/ phase = "draining"
    /\ chan # <<>>
    /\ chan' = Tail(chan)
    /\ job' = JobFor(Head(chan).path)
    /\ pc' = IF Head(chan).kind = "upsert" THEN "stat" ELSE "remove"
    /\ UNCHANGED <<env, store, watching, pending, life, todo, gone, orphans,
                   ghost, bounds>>

\* Mutant: the bumped counter is read without being marked as seen.
RescanWalkForever(hidden) ==
    /\ ConsumerIdle
    /\ phase = "live" /\ ~stopping /\ rescan
    /\ todo' = {JobFor(p) : p \in OnDisk \ hidden}
    /\ faults' = faults + Cardinality(hidden)
    /\ UNCHANGED <<env, store, watch, life, pc, job, gone, orphans, ghost, ops>>

\* run_rescan walks the vault and upserts every file it finds.
RescanWalk(hidden) ==
    /\ ConsumerIdle
    /\ phase = "live" /\ ~stopping /\ rescan
    /\ rescan' = FALSE
    /\ todo' = {JobFor(p) : p \in OnDisk \ hidden}
    /\ faults' = faults + Cardinality(hidden)
    /\ UNCHANGED <<env, store, watch, phase, stopping, skip, pc, job, gone,
                   orphans, ghost, ops>>

RescanNext ==
    /\ phase = "live" /\ pc = "idle"
    /\ \E j \in todo :
          /\ job' = j
          /\ todo' = todo \ {j}
          /\ pc' = "stat"
    /\ UNCHANGED <<env, store, watch, life, gone, orphans, ghost, bounds>>

\* What the watcher still has to say of a path
InChan(p) == {i \in 1 .. Len(chan) : chan[i].path = p}
Queued(p) == pending[p] # <<>> \/ InChan(p) # {}

\* A stat is a fresh sample of a watched file, so the path is no longer excused,
\* unless an older event is still to come: it may say remove of a file that was
\* moved back since, with its directory.
Sampled(p) == IF Queued(p) THEN {} ELSE {p}

\* Mutant: a missing file is taken for one whose remove event is under way.
StatForgetsMissing ==
    /\ pc = "stat"
    /\ LET p == job.path IN
       IF disk[p] = Absent
       THEN FinishJob
       ELSE /\ job' = [job EXCEPT !.mtime = disk[p].mtime,
                                  !.size = Size[disk[p].body],
                                  !.prior = files[p]]
            /\ pc' = "decide"
    /\ excused' = excused \ Sampled(job.path)
    /\ UNCHANGED <<env, store, watch, life, todo, gone, orphans, view, bounds>>

\* Mutant: an upsert does not look for a prior row.
StatWithoutLookup ==
    /\ pc = "stat"
    /\ LET p == job.path IN
       IF disk[p] = Absent
       THEN pc' = "remove" /\ UNCHANGED job
       ELSE /\ job' = [job EXCEPT !.mtime = disk[p].mtime,
                                  !.size = Size[disk[p].body]]
            /\ pc' = "decide"
    /\ excused' = excused \ Sampled(job.path)
    /\ UNCHANGED <<env, store, watch, life, todo, gone, orphans, view, bounds>>

\* reindex_path: stat the file, then look its row up.
Stat ==
    /\ pc = "stat"
    /\ LET p == job.path IN
       IF disk[p] = Absent
       THEN pc' = "remove" /\ UNCHANGED job
       ELSE /\ job' = [job EXCEPT !.mtime = disk[p].mtime,
                                  !.size = Size[disk[p].body],
                                  !.prior = files[p]]
            /\ pc' = "decide"
    /\ excused' = excused \ Sampled(job.path)
    /\ UNCHANGED <<env, store, watch, life, todo, gone, orphans, view, bounds>>

\* Mutant: a removal is not announced.
RemoveSilently ==
    /\ pc = "remove"
    /\ DropTx({job.path})
    /\ FinishJob
    /\ UNCHANGED <<env, watch, life, todo, gone, orphans, ghost, bounds>>

\* remove_path: what was removed is announced, nothing removed is silent.
Remove ==
    /\ pc = "remove"
    /\ LET p == job.path IN
       /\ DropTx({p})
       /\ IF files[p] = Absent
          THEN FinishJob
          ELSE /\ job' = [job EXCEPT !.hash = files[p].hash,
                                     !.event = "deleted"]
               /\ pc' = "publish"
    /\ UNCHANGED <<env, watch, life, todo, gone, orphans, ghost, bounds>>

\* The live event goes out after the transaction it reports.
Publish ==
    /\ pc = "publish"
    /\ view' = [view EXCEPT ![job.path] =
                  IF job.event = "deleted" THEN Absent ELSE job.hash]
    /\ FinishJob
    /\ UNCHANGED <<env, store, watch, life, todo, gone, orphans, excused,
                   bounds>>

-----------------------------------------------------------------------------
(* process_entry, shared by the scan and the consumer.                     *)

\* Phase A: stat gate, then read and hash, then the mtime-only update.  A file
\* that vanished since its stat fails the read.
Decide ==
    /\ pc = "decide" /\ Running
    /\ LET p == job.path IN
       \/ /\ StatGate(job)
          /\ EndQuietly({})
          /\ UNCHANGED store
       \/ /\ ~StatGate(job)
          /\ disk[p] = Absent
          /\ FailJob({})
          /\ UNCHANGED store
       \/ /\ ~StatGate(job)
          /\ HashMatches(job)
          /\ TouchTx(job, disk[p].body)
          /\ EndQuietly({})
       \/ /\ ~StatGate(job)
          /\ disk[p] # Absent
          /\ ~HashMatches(job)
          /\ job' = [job EXCEPT !.hash = disk[p].body]
          /\ pc' = "embed"
          /\ UNCHANGED <<store, phase, stopping, rescan, watch, todo, gone,
                         ghost>>
    /\ UNCHANGED <<env, skip, orphans, bounds>>

\* Phase B: every chunk of the body gets its vector.
Embed ==
    /\ pc = "embed" /\ Running
    /\ pc' = "write"
    /\ UNCHANGED <<env, store, watch, life, job, todo, gone, orphans, ghost,
                   bounds>>

\* Mutant: a skipped file's row is stamped with the new mtime.
EmbedSkipsStamping ==
    /\ pc = "embed" /\ Running
    /\ faults < MaxFaults
    /\ faults' = faults + 1
    /\ files' = [files EXCEPT ![job.path] =
                   IF @ = Absent THEN Absent ELSE [@ EXCEPT !.mtime = job.mtime]]
    /\ EndQuietly({job.path})
    /\ UNCHANGED <<env, chunks, fts, skip, orphans, ops>>

\* Phase B, transport error, HTTP 5xx or wrong dimension: the row is left as it
\* was and the scan or the consumer goes on.
EmbedSkips ==
    /\ pc = "embed" /\ Running
    /\ faults < MaxFaults
    /\ faults' = faults + 1
    /\ EndQuietly({job.path})
    /\ UNCHANGED <<env, store, skip, orphans, ops>>

\* Phase C.
Write ==
    /\ pc = "write" /\ Running
    /\ IF WriteConflict(job)
       THEN /\ FailJob({job.path})
            /\ UNCHANGED store
       ELSE /\ WriteTx(job)
            /\ IF phase = "scanning"
               THEN EndQuietly({})
               ELSE /\ pc' = "publish"
                    /\ job' = [job EXCEPT !.event = IF job.prior = Absent
                                                    THEN "created"
                                                    ELSE "modified"]
                    /\ UNCHANGED <<phase, stopping, rescan, watch, todo, gone,
                                   ghost>>
    /\ UNCHANGED <<env, skip, orphans, bounds>>

\* Any other error of a file's turn (stat, read, connection pool, SQL, an embedding
\* response the daemon does not retry), of the sweep, or of setting up the watch.
TurnFails ==
    /\ pc \in {"stat", "decide", "embed", "write", "remove", "sweep", "register"}
    /\ Running
    /\ faults < MaxFaults
    /\ faults' = faults + 1
    /\ FailJob(IF pc \in {"sweep", "register"} THEN {} ELSE {job.path})
    /\ UNCHANGED <<env, store, skip, orphans, ops>>

\* The walk itself fails: the bootstrap ends, a rescan is dropped with a warning.
WalkFails ==
    /\ faults < MaxFaults
    /\ faults' = faults + 1
    /\ \/ /\ phase = "scanning" /\ pc = "walk" /\ ~stopping
          /\ Unload("errored")
       \/ /\ ConsumerIdle /\ phase = "live" /\ ~stopping /\ rescan
          /\ rescan' = FALSE
          /\ UNCHANGED <<phase, stopping, watch, work, ghost>>
    /\ UNCHANGED <<env, store, skip, orphans, ops>>

-----------------------------------------------------------------------------
(* Operations on the vault, shutdown, and what survives it.                *)

\* VaultManager::rescan on a vault whose lifecycle is installed; requests that
\* arrive before the consumer observes the first one are the same request.
RequestRescan ==
    /\ phase = "live" /\ ~rescan
    /\ ops < MaxOps
    /\ ops' = ops + 1
    /\ rescan' = TRUE
    /\ UNCHANGED <<env, store, watch, phase, stopping, skip, work, orphans,
                   ghost, faults>>

\* pause, reset, terminate or daemon shutdown: shutdown_with_timeout.
RequestStop ==
    /\ phase \in {"scanning", "live"} /\ ~stopping
    /\ ops < MaxOps
    /\ ops' = ops + 1
    /\ stopping' = TRUE
    /\ UNCHANGED <<env, store, watch, phase, skip, rescan, work, orphans,
                   ghost, faults>>

\* A future dropped at an await on spawn_blocking leaves the blocking call behind.
LeaveBehind ==
    \/ UNCHANGED orphans
    \/ /\ pc \in {"decide", "write", "remove", "sweep"}
       /\ Cardinality(orphans) < MaxOrphans
       /\ orphans' = orphans \cup {[pc |-> pc, job |-> job, gone |-> gone]}

\* Mutant: the shutdown signal is looked at between two files only.
BootstrapCancelledBetweenFiles ==
    /\ phase = "scanning" /\ stopping /\ pc = "idle"
    /\ LeaveBehind
    /\ Unload("down")
    /\ UNCHANGED <<env, store, skip, bounds>>

\* The bootstrap select drops the scan when it sees the shutdown signal.
BootstrapCancelled ==
    /\ phase = "scanning" /\ stopping
    /\ LeaveBehind
    /\ Unload("down")
    /\ UNCHANGED <<env, store, skip, bounds>>

DrainBegins ==
    /\ phase = "live" /\ stopping /\ ConsumerIdle
    /\ phase' = "draining"
    /\ UNCHANGED <<env, store, watch, stopping, skip, rescan, work, orphans,
                   ghost, bounds>>

\* DRAIN_TIMEOUT passes between two events; what the channel and the debouncer
\* still hold goes with them.
DrainEnds ==
    /\ phase = "draining" /\ ConsumerIdle
    /\ Unload("down")
    /\ UNCHANGED <<env, store, skip, orphans, bounds>>

\* LIFECYCLE_DRAIN_TIMEOUT passes: the consumer is aborted where it is.
ConsumerAborted ==
    /\ phase \in {"live", "draining"} /\ stopping
    /\ LeaveBehind
    /\ Unload("down")
    /\ UNCHANGED <<env, store, skip, bounds>>

\* A detached blocking call completes; nobody reads its result.
OrphanLands(o) ==
    /\ orphans' = orphans \ {o}
    /\ LET p == o.job.path IN
       \/ o.pc = "decide" /\ ~StatGate(o.job) /\ HashMatches(o.job)
          /\ TouchTx(o.job, disk[p].body)
       \/ o.pc = "decide" /\ (StatGate(o.job) \/ ~HashMatches(o.job))
          /\ UNCHANGED store
       \/ o.pc = "write" /\ ~WriteConflict(o.job) /\ WriteTx(o.job)
       \/ o.pc = "write" /\ WriteConflict(o.job) /\ UNCHANGED store
       \/ o.pc = "remove" /\ DropTx({p})
       \/ o.pc = "sweep" /\ DropTx(o.gone)
    /\ excused' = IF phase \in {"down", "errored"} THEN excused
                  ELSE excused \cup (IF o.pc = "sweep" THEN o.gone
                                                       ELSE {o.job.path})
    /\ UNCHANGED <<env, watch, life, work, view, bounds>>

\* run_rebuild_sql, between the shutdown and the restart of `reset --rebuild`.
Rebuild ==
    /\ phase \in {"down", "errored"}
    /\ ops < MaxOps
    /\ ops' = ops + 1
    /\ files' = [p \in Paths |-> IF files[p] = Absent THEN Absent
                                 ELSE [files[p] EXCEPT !.hash = Sentinel]]
    /\ chunks' = [p \in Paths |-> Absent]
    /\ phase' = "down"
    /\ skip' = TRUE
    /\ excused' = Paths
    /\ UNCHANGED <<env, fts, watch, stopping, rescan, work, orphans, view,
                   faults>>

\* The process dies: the directory and the committed transactions remain.
Crash ==
    /\ phase # "down" \/ orphans # {} \/ skip
    /\ ops < MaxOps
    /\ ops' = ops + 1
    /\ Unload("down")
    /\ skip' = FALSE
    /\ orphans' = {}
    /\ UNCHANGED <<env, store, faults>>

-----------------------------------------------------------------------------
Environment ==
    \/ \E p \in Paths, b \in Bodies : WriteFile(p, b)
    \/ \E p \in Paths : DeleteFile(p) \/ TouchFile(p)

\* Files a walk may miss, within the fault budget.
Hidden == {h \in SUBSET OnDisk : faults + Cardinality(h) <= MaxFaults}

Bootstrap ==
    \/ Start
    \/ \E h \in Hidden : ScanWalk(h)
    \/ ScanNext \/ ScanDone \/ Sweep \/ Register

Pipeline == Decide \/ Embed \/ Write

Consumer ==
    \/ \E h \in Hidden : RescanWalk(h)
    \/ Receive \/ RescanNext \/ Stat \/ Remove \/ Publish

Failure == EmbedSkips \/ TurnFails \/ WalkFails

Operation ==
    \/ RequestRescan \/ RequestStop \/ Rebuild \/ Crash
    \/ BootstrapCancelled \/ DrainBegins \/ DrainEnds \/ ConsumerAborted

Detached == \E o \in orphans : OrphanLands(o)

Next ==
    \/ Environment
    \/ \E p \in Paths : SendEvent(p)
    \/ Bootstrap \/ Pipeline \/ Consumer
    \/ Failure \/ Operation \/ Detached

Spec == Init /\ [][Next]_vars

-----------------------------------------------------------------------------
\* Rows, tasks and watcher are well-formed, and the channel between the notify
\* thread and the consumer never holds more than its capacity.
TypeOK ==
    /\ disk \in [Paths -> Files \cup {Absent}]
    /\ clock \in Nat
    /\ files \in [Paths -> Rows \cup {Absent}]
    /\ chunks \in [Paths -> Bodies \cup {Absent}]
    /\ fts \in [Paths -> Bodies \cup {Absent}]
    /\ watching \in BOOLEAN
    /\ pending \in [Paths -> Seq(Events)]
    /\ chan \in Seq([kind : Events, path : Paths]) /\ Len(chan) <= Buffer
    /\ phase \in Phases
    /\ stopping \in BOOLEAN /\ skip \in BOOLEAN /\ rescan \in BOOLEAN
    /\ pc \in PCs
    /\ job \in Jobs
    /\ todo \subseteq Jobs
    /\ gone \subseteq Paths
    /\ orphans \subseteq [pc : PCs, job : Jobs, gone : SUBSET Paths]
    /\ view \in [Paths -> Hashes \cup {Absent}]
    /\ excused \subseteq Paths
    /\ faults \in Nat /\ ops \in Nat

-----------------------------------------------------------------------------
(* Safety.                                                                 *)

\* No row, chunk or vector outlives or precedes the others: a row whose hash is
\* the sentinel has no chunks, any other row has exactly the chunks of the body it
\* was hashed from, and chunks without a row do not exist.  Holds whatever is
\* detached, aborted or crashed, because each transaction writes all of them.
ChunksFollowHash ==
    \A p \in Paths :
        chunks[p] = IF files[p] = Absent \/ files[p].hash = Sentinel
                    THEN Absent ELSE files[p].hash

\* The full text that FTS5 removes by re-reading files.content is the text it
\* indexed, and it is the text the row was hashed from.
TextFollowsHash ==
    \A p \in Paths :
        /\ fts[p] = IF files[p] = Absent THEN Absent ELSE files[p].content
        /\ files[p] # Absent => files[p].hash \in {Sentinel, files[p].content}

\* The stat gate is sound: a row that carries the mtime of the file on disk, and
\* is not marked for re-embedding, was hashed from that very version, although
\* the file may change between the stat, the read and the write of the row, and
\* although the embedding of a version may have been skipped.
FreshStat ==
    \A p \in InRows \cap OnDisk :
        /\ files[p].mtime = disk[p].mtime
        /\ files[p].hash # Sentinel
        => files[p].hash = disk[p].body

Synced(p) == HashOf(p) = IF disk[p] = Absent THEN Absent ELSE disk[p].body

Quiescent ==
    /\ phase = "live" /\ ConsumerIdle /\ ~rescan
    /\ chan = <<>>
    /\ \A p \in Paths : pending[p] = <<>>

\* No update is lost: when a live vault has nothing left to do, the index agrees
\* with the directory on every path the lifecycle has not given up on (a change
\* the bootstrap could not see, or that the watch had no event of the file for, a
\* walk or embedding failure, a rebuild not yet followed by a rescan), through
\* restarts, drains, aborts and crashes.
QuietMeansSynced == Quiescent => \A p \in Paths \ excused : Synced(p)

\* The INSERT or UPDATE that process_entry chose from the row it read long before
\* (a whole scan, or an embedding call, earlier) still fits the table.
NoWriteConflict == pc = "write" => ~WriteConflict(job)

\* A subscriber that queried the index when the vault went live and applied every
\* event since has an exact copy of it, but for the one event that is due.
ViewExact ==
    phase \in {"live", "draining"} =>
        \A p \in Paths :
            view[p] = HashOf(p) \/ (pc = "publish" /\ job.path = p)

-----------------------------------------------------------------------------
(* Refinement.                                                             *)

\* What a search over p shows; `Torn` is no state of AnnouncedIndex.
Torn == "torn"
ShownAt(p) ==
    IF files[p] = Absent
    THEN IF chunks[p] = Absent /\ fts[p] = Absent THEN Absent ELSE Torn
    ELSE IF fts[p] # files[p].content THEN Torn
    ELSE IF files[p].hash = Sentinel
    THEN IF chunks[p] = Absent THEN Sentinel ELSE Torn
    ELSE IF chunks[p] = files[p].hash /\ fts[p] = files[p].hash
         THEN files[p].hash ELSE Torn

Announced == INSTANCE AnnouncedIndex WITH
    Stale <- Sentinel,
    index <- [p \in Paths |-> ShownAt(p)],
    live  <- phase \in {"live", "draining"},
    due   <- IF pc = "publish" THEN {job.path} ELSE {}

\* The vault keeps the promise of AnnouncedIndex: searches see whole versions
\* only, and live events are the exact, ordered log of what searches see.
AnnouncesEveryChange == Announced!Spec

-----------------------------------------------------------------------------
(* Liveness.                                                               *)

\* The runtime polls every task that can move, spawn_blocking calls return, and an
\* embedding request ends at its timeout at the latest.
TaskStep ==
    \/ \E h \in Hidden : ScanWalk(h) \/ RescanWalk(h)
    \/ ScanNext \/ ScanDone \/ Sweep \/ Register
    \/ Receive \/ RescanNext \/ Stat \/ Remove \/ Publish
    \/ Pipeline

Fairness ==
    /\ WF_vars(TaskStep)
    /\ \A p \in Paths : WF_vars(SendEvent(p))
    /\ WF_vars(BootstrapCancelled)
    /\ WF_vars(DrainBegins)
    /\ WF_vars(DrainEnds)

FairSpec == Spec /\ Fairness

\* A live vault works its backlog off, through a full channel and a blocked notify
\* thread, unless it is told to stop.
BacklogDrains ==
    phase = "live" ~> (Quiescent \/ stopping \/ phase # "live")

\* A stop request ends in a vault without tasks, from the middle of a scan, of a
\* rescan, or of a backlog.
StopCompletes == stopping ~> ~stopping

-----------------------------------------------------------------------------
(* What the documentation and the comments say.                            *)

\* docs/specs/vault-management.md:93, `rescan`: "Force full reconciliation against
\* the vault's directory contents".
RescanReconciles ==
    (phase = "live" /\ rescan /\ clock = MaxClock) ~>
        (stopping \/ phase # "live" \/ \A p \in Paths : Synced(p))

\* docs/implementation/tech-stack.md:160, "The watcher fires on any filesystem event
\* under the watched directory", and docs/specs/change-events.md:73, "Renames are
\* observed as a `deleted` + `created` pair": when an indexed file leaves a watched
\* vault, an event of it is queued.
ChangesAreObserved ==
    [][\A p \in Paths :
         watching /\ watching' /\ HashOf(p) # Absent /\ disk[p] # Absent /\ disk'[p] = Absent
         => Queued(p)']_vars

\* docs/specs/vault-management.md:162, `reset --rebuild`: "preserves `files` rows;
\* re-embeds at startup".
RebuildReembeds ==
    \A p \in Paths :
        (phase = "live" /\ HashOf(p) = Sentinel) ~>
            (stopping \/ phase # "live" \/ HashOf(p) # Sentinel)

\* docs/architecture/overview.md:193: "when the watcher observes a write, the
\* indexer computes the file's content hash and compares against the stored hash".
ObservedWritesAreHashed == QuietMeansSynced

\* src/control_plane/manager.rs:895: `reset` drains "the lifecycle first, then
\* run[s] rebuild SQL on the now-quiet store".
RebuildOnQuietStore == [][~skip /\ skip' => orphans = {}]_vars

\* src/indexer/mod.rs:574: the rowid is read first "so FTS5 can read old content
\* from `files` to correctly remove inverted-index entries".
FtsReadsWhatItIndexed ==
    \A p \in Paths : files[p] # Absent => fts[p] = files[p].content
=============================================================================

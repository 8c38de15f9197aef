---------------------------- MODULE LegacyMigration ----------------------------
(***************************************************************************)
(* What happens to the index databases between one start of the daemon and *)
(* the next: the migration of the single-vault state of v0                 *)
(* (legacy_state_migration.rs), the reconciliation of the registry with    *)
(* the data directory (control_plane/manager.rs), the opening of every     *)
(* vault's store with its schema migrations (store/mod.rs, schema.rs), in  *)
(* the order of run_daemon (bin/hmnd.rs).  The daemon may be killed        *)
(* between any two steps and started again.                                *)
(*                                                                         *)
(* A database is the main file and the files SQLite keeps beside it; it is *)
(* named by who created it, the v0 daemon or a vault.  A file stands for   *)
(* the database it is a part of: a -wal that lies beside the main file of  *)
(* another database would be replayed into it.  The contents of a database *)
(* are its schema version and what it holds of one file of the vault that  *)
(* does not change.  Creating, pausing and terminating a vault are single  *)
(* steps here; ControlPlane takes them apart.                              *)
(***************************************************************************)
EXTENDS Naturals, Sequences, FiniteSets

CONSTANTS Ids,         \* vault ids the registry may mint
          Legacy,      \* the database of the v0 daemon
          Absent,      \* no file, no row
          LegacyPath,  \* the path of the [vault] block
          OtherPath,   \* the path of vaults created by hand
          HotEdits,    \* TRUE: the block may go before a v0 database with a -wal is migrated
          MaxStarts,   \* bound: starts of the daemon
          MaxOps       \* bound: vault operations and changes of config or of a path

ASSUME IdsAssumption   == IsFiniteSet(Ids) /\ Legacy \notin Ids /\ Absent \notin Ids \cup {Legacy}
ASSUME PathsAssumption == LegacyPath # OtherPath
ASSUME BoundAssumption == MaxStarts \in Nat /\ MaxOps \in Nat /\ HotEdits \in BOOLEAN

VARIABLES
    pc,        \* where the daemon is in its start
    todo,      \* what the current step of the start has yet to visit
    config,    \* the [vault] block is there, the dimension is the stores'
    reachable, \* the vault paths that are readable directories
    rows,      \* vaults.sqlite
    dirs,      \* the directories under data_dir/vaults
    meta,      \* those with a meta.toml
    root,      \* the candidate files directly in data_dir
    own,       \* the candidate files in each vault's directory
    db,        \* what each database holds
    open,      \* the vaults whose store is open
    scanned,   \* those whose initial scan is done
    used,      \* history: ids minted so far
    made,      \* history: rows the legacy migration inserted
    starts, ops

disk == <<config, reachable, rows, dirs, meta, root, own, db>>
vars == <<pc, todo, disk, open, scanned, used, made, starts, ops>>

----------------------------------------------------------------------------
Paths      == {LegacyPath, OtherPath}
Databases  == Ids \cup {Legacy}
Rows       == [path : Paths, status : {"active", "paused", "errored"}]
Names      == {"index", "wal", "shm"}
Candidates == <<"index", "wal", "shm">>
NoFiles    == [n \in Names |-> Absent]

ASSUME AbsentAssumption == Absent \notin Rows

Target   == 5
Versions == 0..(Target + 1)
New == [version |-> 0, hash |-> "none", text |-> FALSE, chunks |-> FALSE, fts |-> FALSE]

\* A store whose vault was scanned by the release with schema version v
WrittenAt(v) == [version |-> v, hash |-> "set",
                 text |-> v >= 2, chunks |-> v >= 3, fts |-> v >= 5]

\* Mutant: recreating the vector table leaves the hashes alone
MigratedKeepingHashes(d) ==
    [d EXCEPT !.version = d.version + 1,
              !.hash   = IF d.version \in {0, 1} THEN "none" ELSE d.hash,
              !.text   = IF d.version \in {0, 1} THEN FALSE ELSE d.text,
              !.chunks = IF d.version \in {2, 3} THEN FALSE ELSE d.chunks,
              !.fts    = IF d.version = 4 THEN d.hash # "none" ELSE d.fts]

\* MIGRATIONS: the files table; its content column, all rows deleted; the chunk
\* tables; a new vector table, chunks deleted and hashes cleared; the full-text
\* table, filled from the rows.  One transaction with the version it sets.
Migrated(d) ==
    [d EXCEPT !.version = d.version + 1,
              !.hash   = CASE d.version \in {0, 1} -> "none"
                           [] d.version = 3 /\ d.hash = "set" -> "empty"
                           [] OTHER -> d.hash,
              !.text   = IF d.version \in {0, 1} THEN FALSE ELSE d.text,
              !.chunks = IF d.version \in {2, 3} THEN FALSE ELSE d.chunks,
              !.fts    = IF d.version = 4 THEN d.hash # "none" ELSE d.fts]

----------------------------------------------------------------------------
InRows == {v \in Ids : rows[v] # Absent}
Active == {v \in InRows : rows[v].status = "active"}

\* Mutant: only the main file tells that there is legacy state
AnyIndexPresent == root["index"] # Absent

AnyLegacyPresent == \E n \in Names : root[n] # Absent

\* The v0 daemon left nothing, a database it closed, or one it was killed over
\* (its -wal and -shm are still there); or a later release left one vault.
Situations ==
    [block : BOOLEAN, legacy : {"none", "clean", "hot"}, version : 1..4, vault : {FALSE}]
        \cup [block : BOOLEAN, legacy : {"none"}, version : 4..(Target + 1), vault : {TRUE}]

Init ==
    \E s \in Situations, first \in Ids :
        LET hot == s.legacy = "hot"
        IN /\ hot /\ ~s.block => HotEdits
           /\ pc = "down" /\ todo = <<>>
           /\ config = [block |-> s.block, dimension |-> TRUE]
           /\ reachable = Paths
           /\ rows = [v \in Ids |-> IF s.vault /\ v = first
                                    THEN [path |-> OtherPath, status |-> "active"] ELSE Absent]
           /\ dirs = (IF s.vault THEN {first} ELSE {}) /\ meta = dirs /\ used = dirs
           /\ root = [n \in Names |-> IF \/ n = "index" /\ s.legacy # "none"
                                         \/ n # "index" /\ hot
                                      THEN Legacy ELSE Absent]
           /\ own = [v \in Ids |-> [n \in Names |->
                         IF v \in dirs /\ n = "index" THEN v ELSE Absent]]
           /\ db = [d \in Databases |-> IF d = Legacy \/ d \in dirs
                                        THEN WrittenAt(s.version) ELSE New]
    /\ open = {} /\ scanned = {} /\ made = 0 /\ starts = 0 /\ ops = 0

----------------------------------------------------------------------------
(* run_if_needed *)

Start ==
    /\ pc = "down" /\ starts < MaxStarts
    /\ starts' = starts + 1
    /\ pc' = "legacy"
    /\ UNCHANGED <<todo, disk, open, scanned, used, made, ops>>

\* classify_path
Classify(p) == IF p \in reachable THEN "active" ELSE "errored"

AutoCreate(v) ==
    /\ pc = "legacy" /\ InRows = {} /\ config.block
    /\ v \notin used
    /\ rows' = [rows EXCEPT ![v] = [path |-> LegacyPath, status |-> Classify(LegacyPath)]]
    /\ used' = used \cup {v}
    /\ made' = made + 1
    /\ pc' = "mkdir" /\ todo' = <<v>>
    /\ UNCHANGED <<config, reachable, dirs, meta, root, own, db, open, scanned, starts, ops>>

CreateDir ==
    /\ pc = "mkdir"
    /\ dirs' = dirs \cup {Head(todo)}
    /\ pc' = "meta"
    /\ UNCHANGED <<todo, config, reachable, rows, meta, root, own, db,
                   open, scanned, used, made, starts, ops>>

WriteMeta ==
    /\ pc = "meta"
    /\ meta' = meta \cup {Head(todo)}
    /\ pc' = "rename" /\ todo' = <<>>
    /\ UNCHANGED <<config, reachable, rows, dirs, root, own, db,
                   open, scanned, used, made, starts, ops>>

SkipAutoCreate ==
    /\ pc = "legacy" /\ (InRows # {} \/ ~config.block)
    /\ pc' = "rename"
    /\ UNCHANGED <<todo, disk, open, scanned, used, made, starts, ops>>

\* rename_legacy_files_into_vault: the target is the only row, whatever its path
PickTarget ==
    /\ pc = "rename" /\ AnyLegacyPresent
    /\ \E v \in Ids : /\ InRows = {v}
                      /\ dirs' = dirs \cup {v}
    /\ pc' = "move" /\ todo' = Candidates
    /\ UNCHANGED <<config, reachable, rows, meta, root, own, db,
                   open, scanned, used, made, starts, ops>>

NoTarget ==
    /\ pc = "rename" /\ (~AnyLegacyPresent \/ Cardinality(InRows) # 1)
    /\ pc' = "reconcile" /\ todo' = <<>>
    /\ UNCHANGED <<disk, open, scanned, used, made, starts, ops>>

\* Mutant: the file of the vault is replaced
MoveOver(v, n) == IF root[n] # Absent
                  THEN /\ own' = [own EXCEPT ![v][n] = root[n]]
                       /\ root' = [root EXCEPT ![n] = Absent]
                  ELSE UNCHANGED <<own, root>>

\* One candidate: moved unless the vault has such a file already
MoveFile(v, n) == IF root[n] # Absent /\ own[v][n] = Absent
                  THEN /\ own' = [own EXCEPT ![v][n] = root[n]]
                       /\ root' = [root EXCEPT ![n] = Absent]
                  ELSE UNCHANGED <<own, root>>

Move ==
    /\ pc = "move"
    /\ IF todo = <<>>
       THEN pc' = "reconcile" /\ UNCHANGED <<todo, root, own>>
       ELSE /\ todo' = Tail(todo)
            /\ \E v \in InRows : MoveFile(v, Head(todo))
            /\ UNCHANGED pc
    /\ UNCHANGED <<config, reachable, rows, dirs, meta, db,
                   open, scanned, used, made, starts, ops>>

----------------------------------------------------------------------------
(* VaultManager::open *)

\* reconcile_active_rows: the rows in the order of their ids, which `todo`
\* remembers as the set of those already visited
Visited == {todo[i] : i \in DOMAIN todo}

ReconcileRow(v) ==
    /\ pc = "reconcile" /\ v \in InRows \ Visited
    /\ todo' = Append(todo, v)
    /\ CASE v \notin Active -> UNCHANGED <<rows, dirs>>
         [] v \in Active /\ rows[v].path \in reachable ->
                dirs' = dirs \cup {v} /\ UNCHANGED rows
         [] OTHER -> rows' = [rows EXCEPT ![v].status = "errored"] /\ UNCHANGED dirs
    /\ UNCHANGED <<pc, config, reachable, meta, root, own, db,
                   open, scanned, used, made, starts, ops>>

Reconciled ==
    /\ pc = "reconcile" /\ InRows \subseteq Visited
    /\ pc' = "orphans" /\ todo' = <<>>
    /\ UNCHANGED <<disk, open, scanned, used, made, starts, ops>>

\* reconcile_orphan_subdirs: what no active row names
Orphans == dirs \ Active

RemoveOrphan(v) ==
    /\ pc = "orphans" /\ v \in Orphans
    /\ dirs' = dirs \ {v} /\ meta' = meta \ {v}
    /\ own' = [own EXCEPT ![v] = NoFiles]
    /\ UNCHANGED <<pc, todo, config, reachable, rows, root, db,
                   open, scanned, used, made, starts, ops>>

OrphansGone ==
    /\ pc = "orphans" /\ Orphans = {}
    /\ pc' = "open" /\ todo' = <<>>
    /\ UNCHANGED <<disk, open, scanned, used, made, starts, ops>>

\* Store::open, first part: the pool opens the main file, creating it if there
\* is none, and SQLite keeps a -wal and a -shm beside it
Opened(f, v) == LET d == IF f["index"] = Absent THEN v ELSE f["index"]
                IN [n \in Names |-> IF f[n] = Absent THEN d ELSE f[n]]

OpenStore(v) ==
    /\ pc = "open" /\ todo = <<>> /\ v \in Active \ open
    /\ dirs' = dirs \cup {v}
    /\ own' = [own EXCEPT ![v] = Opened(own[v], v)]
    /\ db' = IF own[v]["index"] = Absent THEN [db EXCEPT ![v] = New] ELSE db
    /\ todo' = <<v>>
    /\ UNCHANGED <<pc, config, reachable, rows, meta, root,
                   open, scanned, used, made, starts, ops>>

IsAhead(d) == d.version > Target

Migrate ==
    /\ pc = "open" /\ todo # <<>>
    /\ LET d == own[Head(todo)]["index"]
       IN /\ db[d].version < Target
          /\ db' = [db EXCEPT ![d] = Migrated(db[d])]
    /\ UNCHANGED <<pc, todo, config, reachable, rows, dirs, meta, root, own,
                   open, scanned, used, made, starts, ops>>

\* The store is returned and the bootstrap of its vault is spawned
StoreReady ==
    /\ pc = "open" /\ todo # <<>>
    /\ LET d == db[own[Head(todo)]["index"]]
       IN d.version >= Target /\ ~IsAhead(d) /\ config.dimension
    /\ open' = open \cup {Head(todo)}
    /\ todo' = <<>>
    /\ UNCHANGED <<pc, disk, scanned, used, made, starts, ops>>

\* apply_migrations refuses a later version, validate_dimension another
\* dimension: the error ends the daemon, with or without a checkpoint
RefuseStore ==
    /\ pc = "open" /\ todo # <<>>
    /\ LET d == db[own[Head(todo)]["index"]]
       IN IsAhead(d) \/ (d.version = Target /\ ~config.dimension)
    /\ \E closed \in SUBSET (open \cup {Head(todo)}) :
           own' = [v \in Ids |-> IF v \in closed
                                 THEN [NoFiles EXCEPT !["index"] = own[v]["index"]] ELSE own[v]]
    /\ pc' = "down" /\ todo' = <<>> /\ open' = {} /\ scanned' = {}
    /\ UNCHANGED <<config, reachable, rows, dirs, meta, root, db, used, made, starts, ops>>

Serve ==
    /\ pc = "open" /\ todo = <<>> /\ Active \subseteq open
    /\ pc' = "serving"
    /\ UNCHANGED <<todo, disk, open, scanned, used, made, starts, ops>>

----------------------------------------------------------------------------
(* The daemon at work, and what happens around it *)

\* The initial scan of a vault: the stat gate passes a row whose hash is set.  A file
\* whose embedding fails is skipped and keeps its empty hash for a later scan; this
\* scan is one whose embeddings succeed (VaultIndex has the others, EmbedSkips)
Scan(v) ==
    /\ v \in open \ scanned /\ rows[v] # Absent /\ rows[v].path \in reachable
    /\ LET d == own[v]["index"]
       IN db' = IF db[d].hash = "set" THEN db
                ELSE [db EXCEPT ![d] = [db[d] EXCEPT !.hash = "set", !.text = TRUE,
                                                     !.chunks = TRUE, !.fts = TRUE]]
    /\ scanned' = scanned \cup {v}
    /\ UNCHANGED <<pc, todo, config, reachable, rows, dirs, meta, root, own,
                   open, used, made, starts, ops>>

Create(v) ==
    /\ pc = "serving" /\ ops < MaxOps /\ v \notin used
    /\ OtherPath \in reachable /\ \A w \in InRows : rows[w].path # OtherPath
    /\ config.dimension
    /\ rows' = [rows EXCEPT ![v] = [path |-> OtherPath, status |-> "active"]]
    /\ dirs' = dirs \cup {v} /\ meta' = meta \cup {v} /\ used' = used \cup {v}
    /\ own' = [own EXCEPT ![v] = Opened(NoFiles, v)]
    /\ db' = [db EXCEPT ![v] = [New EXCEPT !.version = Target]]
    /\ open' = open \cup {v}
    /\ ops' = ops + 1
    /\ UNCHANGED <<pc, todo, config, reachable, root, scanned, made, starts>>

Pause(v) ==
    /\ pc = "serving" /\ ops < MaxOps /\ v \in Active \cap open
    /\ rows' = [rows EXCEPT ![v].status = "paused"]
    /\ ops' = ops + 1
    /\ UNCHANGED <<pc, todo, config, reachable, dirs, meta, root, own, db,
                   open, scanned, used, made, starts>>

Terminate(v) ==
    /\ pc = "serving" /\ ops < MaxOps /\ v \in InRows
    /\ rows' = [rows EXCEPT ![v] = Absent]
    /\ dirs' = dirs \ {v} /\ meta' = meta \ {v}
    /\ own' = [own EXCEPT ![v] = NoFiles]
    /\ open' = open \ {v} /\ scanned' = scanned \ {v}
    /\ ops' = ops + 1
    /\ UNCHANGED <<pc, todo, config, reachable, root, db, used, made, starts>>

\* A clean stop closes every store; the last connection checkpoints its -wal
Stop ==
    /\ pc = "serving"
    /\ own' = [v \in Ids |-> IF v \in open
                             THEN [NoFiles EXCEPT !["index"] = own[v]["index"]] ELSE own[v]]
    /\ pc' = "down" /\ open' = {} /\ scanned' = {}
    /\ UNCHANGED <<todo, config, reachable, rows, dirs, meta, root, db, used, made, starts, ops>>

\* The process is killed, or a step of the start fails and ends it
Crash ==
    /\ pc # "down"
    /\ pc' = "down" /\ todo' = <<>> /\ open' = {} /\ scanned' = {}
    /\ UNCHANGED <<disk, used, made, starts, ops>>

EditConfig ==
    /\ pc = "down" /\ ops < MaxOps
    /\ \/ /\ root["wal"] = Absent \/ HotEdits
          /\ config' = [config EXCEPT !.block = ~@]
       \/ config' = [config EXCEPT !.dimension = ~@]
    /\ ops' = ops + 1
    /\ UNCHANGED <<pc, todo, reachable, rows, dirs, meta, root, own, db,
                   open, scanned, used, made, starts>>

PathChanges(p) ==
    /\ ops < MaxOps
    /\ reachable' = IF p \in reachable THEN reachable \ {p} ELSE reachable \cup {p}
    /\ ops' = ops + 1
    /\ UNCHANGED <<pc, todo, config, rows, dirs, meta, root, own, db,
                   open, scanned, used, made, starts>>

Next ==
    \/ Start \/ CreateDir \/ WriteMeta \/ SkipAutoCreate
    \/ PickTarget \/ NoTarget \/ Move
    \/ Reconciled \/ OrphansGone \/ Migrate \/ StoreReady \/ RefuseStore \/ Serve
    \/ \E v \in Ids : \/ AutoCreate(v) \/ ReconcileRow(v) \/ RemoveOrphan(v) \/ OpenStore(v)
                      \/ Scan(v) \/ Create(v) \/ Pause(v) \/ Terminate(v)
    \/ Stop \/ Crash \/ EditConfig
    \/ \E p \in Paths : PathChanges(p)

Spec == Init /\ [][Next]_vars

----------------------------------------------------------------------------
\* A store is only ever opened whole: the -wal that lies beside its main file
\* belongs to it, and none of its files is still where v0 kept it.  The renames
\* are three, a kill may fall between any two of them, and the rename pass runs
\* at every start; and a store in use has not lost its directory.
StoreWhole ==
    \A v \in open \cup (IF pc = "open" THEN Visited ELSE {}) :
        /\ v \in dirs
        /\ \A n \in Names : own[v][n] = own[v]["index"]
        /\ \A n \in Names : root[n] # own[v]["index"]

\* A vault in service has a store of the code's own schema version, never one of
\* a later release, and when its initial scan is over the file it holds is
\* searchable in every way, whatever release wrote the store first and wherever
\* a migration was cut off: the stat gate would pass a row with its hash.
ScanCompletes ==
    \A v \in open :
        LET d == db[own[v]["index"]]
        IN /\ d.version = Target
           /\ v \in scanned => d.hash = "set" /\ d.text /\ d.chunks /\ d.fts

\* The main file of a database goes only with a vault: when it is terminated,
\* or at a start that finds its row paused, in error or missing.  No rename
\* replaces one, and no kill between two steps of a start makes a vault's
\* directory look like an orphan.
Holds(d)     == root["index"] = d \/ \E v \in Ids : own[v]["index"] = d
KeepsDatabases ==
    [][\A d \in Databases :
           Holds(d) /\ ~Holds(d)' =>
               \E v \in Ids : own[v]["index"] = d /\ (v \notin Active \/ v \notin InRows')]_vars

----------------------------------------------------------------------------
(* What the documents say beyond that, and the code does not keep *)

\* "on the first run that finds legacy v0 state": the block inserts one row
AutoCreatesOnce == made <= 1

\* "Writes meta.toml", also when the daemon is killed after the row is inserted
MetaWritten == \A v \in open : v \in meta

\* The index of a vault that is in error or paused outlives a restart
IndexSurvives ==
    [][\A v \in Ids : own[v]["index"] # Absent /\ v \in InRows /\ v \in InRows' =>
                      own'[v]["index"] # Absent]_vars
=============================================================================

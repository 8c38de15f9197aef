------------------------- MODULE LegacyMigrationProofs -------------------------
(***************************************************************************)
(* Theorems about LegacyMigration, for any set of ids and any number of    *)
(* starts, operations and changes:                                         *)
(*   StoresOpenWhole      without hot edits, no store is opened beside a   *)
(*                        part of another database or without a part of    *)
(*                        its own;                                         *)
(*   ScansFillMigrations  what a migration empties, cut off or not, the    *)
(*                        scan that follows fills;                         *)
(*   DatabasesAreKept     the main file of a database goes only with its   *)
(*                        vault.                                           *)
(***************************************************************************)
EXTENDS LegacyMigration, FiniteSetTheorems, TLAPS

----------------------------------------------------------------------------
(* Types.                                                                  *)

Pcs == {"down", "legacy", "mkdir", "meta", "rename", "move",
        "reconcile", "orphans", "open", "serving"}
Contents == [version : Versions, hash : {"none", "empty", "set"},
             text : BOOLEAN, chunks : BOOLEAN, fts : BOOLEAN]

\* What the rename pass has still to visit, and as a set.
Remaining == {Candidates, <<"wal", "shm">>, <<"shm">>, <<>>}
Ahead(q)  == {q[i] : i \in DOMAIN q}

RowType  == rows \in [Ids -> Rows \cup {Absent}] /\ used \subseteq Ids /\ InRows \subseteq used
FileType == /\ dirs \subseteq Ids
            /\ root \in [Names -> {Legacy, Absent}]
            /\ own \in [Ids -> [Names -> Databases \cup {Absent}]]
LifeType == /\ pc \in Pcs /\ config \in [block : BOOLEAN, dimension : BOOLEAN]
            /\ open \subseteq Ids /\ scanned \subseteq open
BaseType == db \in [Databases -> Contents]
TypeInv  == RowType /\ FileType /\ LifeType /\ BaseType

\* The row a step of the start works on, and the stores that are open.
StageInv ==
    /\ pc \in {"mkdir", "meta"} => \E v \in Ids : InRows = {v} /\ todo = <<v>>
    /\ pc = "move" => todo \in Remaining /\ \E v \in Ids : InRows = {v}
    /\ pc = "open" => todo = <<>> \/ \E v \in Ids : todo = <<v>>
    /\ open # {} => pc \in {"open", "serving"}

----------------------------------------------------------------------------
(* Files.                                                                  *)

\* A vault whose store is open or being opened.
InUse(v) == v \in open \/ (pc = "open" /\ todo = <<v>>)

\* Stores in use belong to a row.
RowInv == \A v \in Ids : InUse(v) => v \in InRows

\* The main file in a directory is the vault's own or the v0 daemon's, and there is
\* one where a store is in use.
MainInv ==
    /\ \A v \in Ids : own[v]["index"] \in {Absent, v, Legacy}
    /\ \A v \in Ids : InUse(v) => own[v]["index"] # Absent

BaseInv == TypeInv /\ StageInv /\ RowInv /\ MainInv

\* A directory holds parts of one database only.
Uniform(v) == \A n \in Names : own[v][n] \in {Absent, own[v]["index"]}

\* A file SQLite keeps beside the main file is still where v0 left it.
Hot == root["wal"] # Absent \/ root["shm"] # Absent

\* While that is so, no start gets past the rename pass.  Before the main file is
\* moved there is at most one row, no vault has files and the block is still there, so
\* that every start picks the same target; after that the target is the only row and
\* has room for what is left, which the pass has ahead of it.
HotInv ==
    Hot =>
      /\ pc \in {"down", "legacy", "mkdir", "meta", "rename", "move"}
      /\ pc = "rename" => \E v \in Ids : InRows = {v}
      /\ root["index"] = Legacy =>
           /\ root["wal"] # Absent /\ config.block
           /\ InRows = {} \/ \E v \in Ids : InRows = {v}
           /\ \A v \in Ids : own[v] = NoFiles
      /\ root["index"] # Legacy =>
           \E v \in Ids : /\ InRows = {v} /\ own[v]["index"] = Legacy
                          /\ \A n \in Names : root[n] # Absent => own[v][n] = Absent
      /\ pc = "move" => \A n \in Names : root[n] # Absent => n \in Ahead(todo)

FilesInv ==
    /\ \A v \in Ids : Uniform(v)
    /\ root["index"] = Legacy => \A v \in Ids : own[v]["index"] # Legacy
    /\ HotInv

\* A store in use has its directory and all of its files in it.
Whole(v) == /\ v \in dirs
            /\ \A n \in Names : own[v][n] = own[v]["index"]
UseInv == \A v \in Ids : InUse(v) => Whole(v)

----------------------------------------------------------------------------
(* Contents.                                                               *)

\* A hash is set only by a scan, and cleared with the last table that is emptied
\* (migrating from version 2 to 3 drops the chunks of a row whose hash goes in the
\* next step).
Filled(d) ==
    d.hash = "set" => /\ d.version >= 2 => d.text
                      /\ d.version >= 4 => d.chunks
                      /\ d.version >= 5 => d.fts

ContentInv ==
    /\ \A d \in Databases : Filled(db[d])
    /\ \A v \in open : /\ db[own[v]["index"]].version = Target
                       /\ v \in scanned => db[own[v]["index"]].hash = "set"

----------------------------------------------------------------------------
(* Steps that keep the types.                                              *)

LEMMA NamesAre == Names = {"index", "wal", "shm"} /\ NoFiles \in [Names -> {Absent}]
BY DEF Names, NoFiles

LEMMA RowsNotAbsent == \A r \in Rows : r # Absent
BY AbsentAssumption

LEMMA BaseInit == Init => BaseInv
<1> SUFFICES ASSUME Init
             PROVE  BaseInv
  OBVIOUS
<1>1. PICK s \in Situations, first \in Ids :
        LET hot == s.legacy = "hot"
        IN /\ hot /\ ~s.block => HotEdits
           /\ pc = "down" /\ todo = <<>>
           /\ config = [block |-> s.block, dimension |-> TRUE]
           /\ reachable = Paths
           /\ rows = [v \in Ids |-> IF s.vault /\ v = first
                                    THEN [path |-> OtherPath, status |-> "active"] ELSE Absent]
           /\ dirs = (IF s.vault THEN {first} ELSE {}) /\ meta = dirs /\ used = dirs
           /\ root = [n \in Names |-> IF \/ n = "index" /\ s.legacy # "none"
                                         \/ n # "index" /\ hot
                                      THEN Legacy ELSE Absent]
           /\ own = [v \in Ids |-> [n \in Names |->
                         IF v \in dirs /\ n = "index" THEN v ELSE Absent]]
           /\ db = [d \in Databases |-> IF d = Legacy \/ d \in dirs
                                        THEN WrittenAt(s.version) ELSE New]
  BY DEF Init
<1>2. s.block \in BOOLEAN /\ s.version \in 1..(Target + 1)
  <2>1. CASE s \in [block : BOOLEAN, legacy : {"none", "clean", "hot"},
                    version : 1..4, vault : {FALSE}]
    BY <2>1 DEF Target
  <2>2. CASE s \in [block : BOOLEAN, legacy : {"none"},
                    version : 4..(Target + 1), vault : {TRUE}]
    BY <2>2 DEF Target
  <2> QED BY <2>1, <2>2 DEF Situations
<1>3. WrittenAt(s.version) \in Contents /\ New \in Contents
  BY <1>2 DEF WrittenAt, New, Contents, Versions, Target
<1>4. rows \in [Ids -> Rows \cup {Absent}] /\ InRows \subseteq used
  BY <1>1 DEF Rows, Paths, InRows
<1>5. TypeInv
  <2>1. RowType
    BY <1>1, <1>4 DEF RowType
  <2>2. FileType
    BY <1>1 DEF FileType, Databases
  <2>3. BaseType
    BY <1>1, <1>3 DEF BaseType
  <2>4. LifeType
    BY <1>1, <1>2 DEF Init, LifeType, Pcs
  <2> QED BY <2>1, <2>2, <2>3, <2>4 DEF TypeInv
<1>6. StageInv
  BY <1>1 DEF Init, StageInv
<1>7. MainInv
  BY <1>1, <1>5 DEF Init, MainInv, InUse, Names, TypeInv, FileType
<1>8. RowInv
  BY <1>1 DEF Init, RowInv, InUse
<1> QED BY <1>5, <1>6, <1>7, <1>8 DEF BaseInv

LEMMA RowStep ==
  ASSUME RowType, Next
  PROVE  RowType'
<1>1. ASSUME NEW v \in Ids, NEW r \in Rows \cup {Absent}, rows' = [rows EXCEPT ![v] = r],
             used' \in SUBSET Ids, used \subseteq used', r = Absent \/ v \in used'
      PROVE  RowType'
  BY <1>1 DEF RowType, InRows
<1>2. ASSUME NEW v \in Ids, AutoCreate(v)
      PROVE  RowType'
  <2>1. [path |-> LegacyPath, status |-> Classify(LegacyPath)] \in Rows
    BY DEF Rows, Paths, Classify
  <2> QED BY <1>1, <1>2, <2>1 DEF AutoCreate, RowType
<1>3. ASSUME NEW v \in Ids, Create(v)
      PROVE  RowType'
  <2>1. [path |-> OtherPath, status |-> "active"] \in Rows
    BY DEF Rows, Paths
  <2> QED BY <1>1, <1>3, <2>1 DEF Create, RowType
<1>4. ASSUME NEW v \in Ids, Terminate(v)
      PROVE  RowType'
  BY <1>1, <1>4 DEF Terminate, RowType
<1>5. ASSUME NEW v \in InRows, NEW st \in {"paused", "errored"},
             rows' = [rows EXCEPT ![v].status = st], used' = used
      PROVE  RowType'
  <2>1. [rows[v] EXCEPT !.status = st] \in Rows
    BY <1>5 DEF RowType, InRows, Rows
  <2>2. rows' = [rows EXCEPT ![v] = [rows[v] EXCEPT !.status = st]]
    BY <1>5
  <2> QED BY <1>1, <1>5, <2>1, <2>2 DEF RowType, InRows
<1>6. ASSUME NEW v \in Ids, Pause(v)
      PROVE  RowType'
  BY <1>5, <1>6 DEF Pause, Active
<1>7. ASSUME NEW v \in Ids, ReconcileRow(v)
      PROVE  RowType'
  <2>1. rows' = rows \/ rows' = [rows EXCEPT ![v].status = "errored"]
    BY <1>7 DEF ReconcileRow
  <2>2. CASE rows' = rows
    BY <1>7, <2>2 DEF ReconcileRow, RowType, InRows
  <2> QED BY <1>5, <1>7, <2>1, <2>2 DEF ReconcileRow
<1>8. CASE rows' = rows /\ used' = used
  BY <1>8 DEF RowType, InRows
<1> QED
  BY <1>2, <1>3, <1>4, <1>6, <1>7, <1>8
  DEF Next, disk, Start, CreateDir, WriteMeta, SkipAutoCreate, PickTarget, NoTarget, Move,
      Reconciled, OrphansGone, Migrate, StoreReady, RefuseStore, Serve, RemoveOrphan,
      OpenStore, Scan, Stop, Crash, EditConfig, PathChanges

\* What SQLite makes of a directory.
LEMMA OpenedIs ==
  ASSUME NEW v \in Ids, NEW f \in [Names -> Databases \cup {Absent}]
  PROVE  /\ Opened(f, v) \in [Names -> Databases]
         /\ Opened(f, v)["index"] = IF f["index"] = Absent THEN v ELSE f["index"]
         /\ \A n \in Names : f[n] # Absent => Opened(f, v)[n] = f[n]
         /\ \A n \in Names : f[n] = Absent => Opened(f, v)[n] = Opened(f, v)["index"]
BY DEF Opened, Names, Databases

\* What a clean close leaves of it.
Closed(f) == [NoFiles EXCEPT !["index"] = f["index"]]

LEMMA ClosedIs ==
  ASSUME NEW f \in [Names -> Databases \cup {Absent}]
  PROVE  /\ Closed(f) \in [Names -> Databases \cup {Absent}]
         /\ Closed(f)["index"] = f["index"]
         /\ \A n \in Names : n # "index" => Closed(f)[n] = Absent
BY DEF Closed, Names, NoFiles

\* The stores a stop or a refused one closes.
LEMMA Closings ==
  ASSUME LifeType, StageInv, Stop \/ RefuseStore
  PROVE  \E closed \in SUBSET Ids :
            own' = [v \in Ids |-> IF v \in closed THEN Closed(own[v]) ELSE own[v]]
<1>1. CASE Stop
  BY <1>1 DEF Stop, LifeType, Closed
<1>2. CASE RefuseStore
  <2>1. PICK w \in Ids : todo = <<w>>
    BY <1>2 DEF RefuseStore, StageInv
  <2>2. Head(todo) \in Ids
    BY <2>1
  <2>3. PICK closed \in SUBSET (open \cup {Head(todo)}) :
          own' = [v \in Ids |-> IF v \in closed
                                THEN [NoFiles EXCEPT !["index"] = own[v]["index"]] ELSE own[v]]
    BY <1>2 DEF RefuseStore
  <2>4. closed \in SUBSET Ids
    BY <2>2, <2>3 DEF LifeType
  <2>5. own' = [v \in Ids |-> IF v \in closed THEN Closed(own[v]) ELSE own[v]]
    BY <2>3 DEF Closed
  <2> QED BY <2>4, <2>5
<1> QED BY <1>1, <1>2

LEMMA RemainingIs ==
  ASSUME NEW q \in Remaining, q # <<>>
  PROVE  /\ Head(q) \in Names /\ Tail(q) \in Remaining
         /\ Ahead(q) = Ahead(Tail(q)) \cup {Head(q)}
         /\ Head(q) = "index" \/ "index" \notin Ahead(q)
<1>1. CASE q = <<"index", "wal", "shm">>
  <2>1. Head(q) = "index" /\ Tail(q) = <<"wal", "shm">>
    BY <1>1
  <2>2. Ahead(q) = {"index", "wal", "shm"} /\ Ahead(<<"wal", "shm">>) = {"wal", "shm"}
    BY <1>1 DEF Ahead
  <2> QED BY <2>1, <2>2 DEF Remaining, Names
<1>2. CASE q = <<"wal", "shm">>
  <2>1. Head(q) = "wal" /\ Tail(q) = <<"shm">>
    BY <1>2
  <2>2. Ahead(q) = {"wal", "shm"} /\ Ahead(<<"shm">>) = {"shm"}
    BY <1>2 DEF Ahead
  <2> QED BY <2>1, <2>2 DEF Remaining, Names
<1>3. CASE q = <<"shm">>
  <2>1. Head(q) = "shm" /\ Tail(q) = <<>>
    BY <1>3
  <2>2. Ahead(q) = {"shm"} /\ Ahead(<<>>) = {}
    BY <1>3 DEF Ahead
  <2> QED BY <2>1, <2>2 DEF Remaining, Names
<1> QED BY <1>1, <1>2, <1>3 DEF Remaining, Candidates

\* One step of the rename pass: it ends, or it visits one file, which it moves into the
\* directory of the one row if there is room.
LEMMA MoveIs ==
  ASSUME RowType, FileType, StageInv, Move
  PROVE  \E v \in Ids :
           /\ InRows = {v} /\ todo \in Remaining
           /\ UNCHANGED <<config, reachable, rows, dirs, meta, db,
                          open, scanned, used, made, starts, ops>>
           /\ \/ todo = <<>> /\ pc' = "reconcile" /\ UNCHANGED <<todo, own, root>>
              \/ \E n \in Names :
                   /\ pc' = "move" /\ todo' \in Remaining
                   /\ Ahead(todo) = Ahead(todo') \cup {n}
                   /\ n = "index" \/ "index" \notin Ahead(todo)
                   /\ \/ /\ root[n] = Legacy /\ own[v][n] = Absent
                         /\ own' = [own EXCEPT ![v] = [own[v] EXCEPT ![n] = Legacy]]
                         /\ root' = [root EXCEPT ![n] = Absent]
                      \/ /\ root[n] = Absent \/ own[v][n] # Absent
                         /\ UNCHANGED <<own, root>>
<1>1. PICK v \in Ids : InRows = {v} /\ todo \in Remaining /\ pc = "move"
  BY DEF Move, StageInv
<1>2. CASE todo = <<>>
  BY <1>1, <1>2 DEF Move
<1>3. CASE todo # <<>>
  <2>1. /\ Head(todo) \in Names /\ Tail(todo) \in Remaining
        /\ Ahead(todo) = Ahead(Tail(todo)) \cup {Head(todo)}
        /\ Head(todo) = "index" \/ "index" \notin Ahead(todo)
    BY <1>1, <1>3, RemainingIs
  <2>2. MoveFile(v, Head(todo)) /\ todo' = Tail(todo) /\ pc' = "move"
    BY <1>1, <1>3 DEF Move
  <2>3. root[Head(todo)] \in {Legacy, Absent}
    BY <2>1 DEF FileType
  <2>4. \/ /\ root[Head(todo)] = Legacy /\ own[v][Head(todo)] = Absent
           /\ own' = [own EXCEPT ![v] = [own[v] EXCEPT ![Head(todo)] = Legacy]]
           /\ root' = [root EXCEPT ![Head(todo)] = Absent]
        \/ /\ root[Head(todo)] = Absent \/ own[v][Head(todo)] # Absent
           /\ UNCHANGED <<own, root>>
    BY <2>2, <2>3 DEF MoveFile, FileType
  <2>5. UNCHANGED <<config, reachable, rows, dirs, meta, db,
                    open, scanned, used, made, starts, ops>>
    BY DEF Move
  <2> QED BY <1>1, <2>1, <2>2, <2>4, <2>5
<1> QED BY <1>2, <1>3

LEMMA FileStep ==
  ASSUME RowType, FileType, LifeType, StageInv, Next
  PROVE  FileType'
<1> USE DEF FileType
<1>1. CASE Stop \/ RefuseStore
  <2>1. PICK closed \in SUBSET Ids :
          own' = [v \in Ids |-> IF v \in closed THEN Closed(own[v]) ELSE own[v]]
    BY <1>1, Closings
  <2>2. own' \in [Ids -> [Names -> Databases \cup {Absent}]]
    BY <2>1, ClosedIs
  <2> QED BY <1>1, <2>2 DEF Stop, RefuseStore
<1>2. ASSUME NEW v \in Ids, NEW f \in [Names -> Databases \cup {Absent}],
             own' = [own EXCEPT ![v] = f], root' = root, dirs' \in SUBSET Ids
      PROVE  FileType'
  BY <1>2
<1>3. ASSUME NEW v \in Ids, OpenStore(v)
      PROVE  FileType'
  BY <1>2, <1>3, OpenedIs DEF OpenStore
<1>4. ASSUME NEW v \in Ids, Create(v)
      PROVE  FileType'
  BY <1>2, <1>4, OpenedIs, NamesAre DEF Create
<1>5. ASSUME NEW v \in Ids, RemoveOrphan(v) \/ Terminate(v)
      PROVE  FileType'
  BY <1>2, <1>5, NamesAre DEF RemoveOrphan, Terminate
<1>6. CASE CreateDir
  <2>1. PICK v \in Ids : todo = <<v>>
    BY <1>6 DEF CreateDir, StageInv
  <2>2. Head(todo) \in Ids
    BY <2>1
  <2> QED BY <1>6, <2>2 DEF CreateDir
<1>7. CASE PickTarget
  BY <1>7 DEF PickTarget
<1>8. CASE Move
  <2>1. PICK v \in Ids :
          \/ UNCHANGED <<own, root>>
          \/ \E n \in Names :
               /\ own' = [own EXCEPT ![v] = [own[v] EXCEPT ![n] = Legacy]]
               /\ root' = [root EXCEPT ![n] = Absent]
    BY <1>8, MoveIs
  <2>2. dirs' = dirs /\ Legacy \in Databases
    BY <1>8 DEF Move, Databases
  <2> QED BY <2>1, <2>2
<1>9. ASSUME NEW v \in Ids, ReconcileRow(v)
      PROVE  FileType'
  BY <1>9 DEF ReconcileRow
<1>10. CASE UNCHANGED <<own, root, dirs>>
  BY <1>10
<1> QED
  BY <1>1, <1>3, <1>4, <1>5, <1>6, <1>7, <1>8, <1>9, <1>10
  DEF Next, disk, Start, WriteMeta, SkipAutoCreate, NoTarget, AutoCreate, Pause,
      Reconciled, OrphansGone, Migrate, StoreReady, Serve, Scan, Crash, EditConfig, PathChanges

LEMMA LifeStep ==
  ASSUME LifeType, StageInv, Next
  PROVE  LifeType'
<1> USE DEF LifeType, Pcs
<1>1. CASE EditConfig
  <2>1. /\ [config EXCEPT !.block = ~config.block] \in [block : BOOLEAN, dimension : BOOLEAN]
        /\ [config EXCEPT !.dimension = ~config.dimension]
             \in [block : BOOLEAN, dimension : BOOLEAN]
    OBVIOUS
  <2>2. \/ config' = [config EXCEPT !.block = ~config.block]
        \/ config' = [config EXCEPT !.dimension = ~config.dimension]
    BY <1>1 DEF EditConfig
  <2>3. config' \in [block : BOOLEAN, dimension : BOOLEAN]
    BY <2>1, <2>2
  <2> QED BY <1>1, <2>3 DEF EditConfig
<1>2. CASE Start \/ CreateDir \/ WriteMeta \/ SkipAutoCreate \/ PickTarget \/ NoTarget
  BY <1>2 DEF Start, CreateDir, WriteMeta, SkipAutoCreate, PickTarget, NoTarget, disk
<1>3. CASE Move \/ Reconciled \/ OrphansGone \/ Migrate \/ Serve
  BY <1>3 DEF Move, Reconciled, OrphansGone, Migrate, Serve, disk
<1>4. CASE StoreReady
  <2>1. PICK v \in Ids : todo = <<v>>
    BY <1>4 DEF StoreReady, StageInv
  <2>2. Head(todo) \in Ids
    BY <2>1
  <2> QED BY <1>4, <2>2 DEF StoreReady, disk
<1>5. CASE RefuseStore \/ Stop \/ Crash
  BY <1>5 DEF RefuseStore, Stop, Crash, disk
<1>6. ASSUME NEW v \in Ids, AutoCreate(v) \/ ReconcileRow(v) \/ RemoveOrphan(v) \/ OpenStore(v)
      PROVE  LifeType'
  BY <1>6 DEF AutoCreate, ReconcileRow, RemoveOrphan, OpenStore
<1>7. ASSUME NEW v \in Ids, Scan(v) \/ Create(v) \/ Pause(v) \/ Terminate(v)
      PROVE  LifeType'
  BY <1>7 DEF Scan, Create, Pause, Terminate
<1>8. ASSUME NEW p \in Paths, PathChanges(p)
      PROVE  LifeType'
  BY <1>8 DEF PathChanges
<1> QED BY <1>1, <1>2, <1>3, <1>4, <1>5, <1>6, <1>7, <1>8 DEF Next


\* One migration, and the scan of a file.
LEMMA MigratedIs ==
  ASSUME NEW d \in Contents, d.version < Target
  PROVE  /\ Migrated(d) \in Contents
         /\ Filled(d) => Filled(Migrated(d))
<1>1. d.version \in {0, 1, 2, 3, 4}
  BY DEF Contents, Versions, Target
<1>2. /\ d.hash \in {"none", "empty", "set"} /\ d.text \in BOOLEAN
      /\ d.chunks \in BOOLEAN /\ d.fts \in BOOLEAN
  BY DEF Contents
<1> DEFINE h == CASE d.version \in {0, 1} -> "none"
                  [] d.version = 3 /\ d.hash = "set" -> "empty"
                  [] OTHER -> d.hash
           t == IF d.version \in {0, 1} THEN FALSE ELSE d.text
           c == IF d.version \in {2, 3} THEN FALSE ELSE d.chunks
           f == IF d.version = 4 THEN d.hash # "none" ELSE d.fts
<1>3. h \in {"none", "empty", "set"}
  BY <1>2
<1>4. t \in BOOLEAN /\ c \in BOOLEAN /\ f \in BOOLEAN
  BY <1>2
<1>5. h = "set" => d.hash = "set" /\ d.version \in {2, 4}
  BY <1>1, <1>2
<1>6. h = "set" /\ Filled(d) => t /\ (d.version = 4 => c /\ f)
  BY <1>5 DEF Filled
<1>7. d.version + 1 \in Versions
  BY <1>1 DEF Versions, Target
<1> HIDE DEF h, t, c, f
<1> DEFINE m == [d EXCEPT !.version = d.version + 1, !.hash = h, !.text = t,
                          !.chunks = c, !.fts = f]
<1>8. m = Migrated(d)
  BY DEF Migrated, h, t, c, f
<1>9. m \in Contents
  BY <1>3, <1>4, <1>7 DEF Contents
<1>10. /\ m.version = d.version + 1 /\ m.hash = h
       /\ m.text = t /\ m.chunks = c /\ m.fts = f
  BY DEF Contents
<1> HIDE DEF m
<1>11. ASSUME Filled(d), m.hash = "set"
       PROVE  /\ m.version >= 2 => m.text
              /\ m.version >= 4 => m.chunks
              /\ m.version >= 5 => m.fts
  <2>1. t /\ (d.version = 4 => c /\ f) /\ d.version \in {2, 4}
    BY <1>5, <1>6, <1>10, <1>11
  <2>2. m.version \in {3, 5} /\ (m.version = 5 => d.version = 4)
    BY <1>10, <2>1
  <2>3. m.text /\ (m.version = 5 => m.chunks /\ m.fts)
    BY <1>10, <2>1, <2>2
  <2> QED BY <2>2, <2>3
<1> QED BY <1>8, <1>9, <1>11 DEF Filled

LEMMA ScannedIs ==
  ASSUME NEW d \in Contents
  PROVE  LET s == [d EXCEPT !.hash = "set", !.text = TRUE, !.chunks = TRUE, !.fts = TRUE]
         IN s \in Contents /\ Filled(s) /\ s.version = d.version /\ s.hash = "set"
BY DEF Contents, Filled

LEMMA NewIs ==
  /\ New \in Contents /\ Filled(New)
  /\ LET d == [New EXCEPT !.version = Target]
     IN d \in Contents /\ Filled(d) /\ d.version = Target
<1>1. New \in Contents /\ New.hash = "none"
  BY DEF New, Contents, Versions, Target
<1> DEFINE d == [New EXCEPT !.version = Target]
<1>2. d \in Contents /\ d.hash = "none" /\ d.version = Target
  BY <1>1 DEF Contents, Versions, Target
<1> QED BY <1>1, <1>2 DEF Filled

LEMMA OneRow ==
  ASSUME RowType, StageInv, NEW v \in Ids, AutoCreate(v)
  PROVE  InRows' = {v}
<1>1. [path |-> LegacyPath, status |-> Classify(LegacyPath)] \in Rows
  BY DEF Rows, Paths, Classify
<1>2. rows' = [rows EXCEPT ![v] = [path |-> LegacyPath, status |-> Classify(LegacyPath)]]
      /\ InRows = {}
  BY DEF AutoCreate
<1> QED BY <1>1, <1>2, RowsNotAbsent DEF RowType, InRows

LEMMA StageStep ==
  ASSUME RowType, FileType, StageInv, Next
  PROVE  StageInv'
<1>1. ASSUME NEW v \in Ids, AutoCreate(v)
      PROVE  StageInv'
  <2>1. InRows' = {v} /\ todo' = <<v>> /\ pc' = "mkdir" /\ open' = open
    BY <1>1, OneRow DEF AutoCreate
  <2> QED BY <1>1, <2>1 DEF StageInv, AutoCreate
<1>2. CASE CreateDir
  BY <1>2 DEF CreateDir, StageInv, InRows
<1>3. CASE WriteMeta \/ SkipAutoCreate \/ NoTarget \/ Reconciled \/ OrphansGone \/ Serve
  BY <1>3 DEF WriteMeta, SkipAutoCreate, NoTarget, Reconciled, OrphansGone, Serve, StageInv,
              disk
<1>4. CASE Start \/ RefuseStore \/ Stop \/ Crash
  BY <1>4 DEF Start, RefuseStore, Stop, Crash, StageInv, disk
<1>5. CASE PickTarget
  <2>1. InRows' = InRows /\ pc' = "move" /\ todo' \in Remaining /\ open' = open
    BY <1>5 DEF PickTarget, InRows, Remaining
  <2>2. \E v \in Ids : InRows = {v}
    BY <1>5 DEF PickTarget
  <2>3. open = {}
    BY <1>5 DEF PickTarget, StageInv
  <2> QED BY <2>1, <2>2, <2>3 DEF StageInv
<1>6. CASE Move
  <2>1. PICK v \in Ids :
          /\ InRows = {v} /\ rows' = rows /\ open' = open
          /\ pc' = "reconcile" \/ (pc' = "move" /\ todo' \in Remaining)
    BY <1>6, MoveIs
  <2>2. InRows' = InRows /\ open = {}
    BY <1>6, <2>1 DEF InRows, Move, StageInv
  <2> QED BY <2>1, <2>2 DEF StageInv
<1>7. CASE Migrate
  BY <1>7 DEF Migrate, StageInv, InRows
<1>8. CASE StoreReady
  BY <1>8 DEF StoreReady, StageInv, InRows, disk
<1>9. ASSUME NEW v \in Ids, ReconcileRow(v) \/ RemoveOrphan(v) \/ OpenStore(v)
      PROVE  StageInv'
  BY <1>9 DEF ReconcileRow, RemoveOrphan, OpenStore, StageInv
<1>10. ASSUME NEW v \in Ids, Create(v) \/ Pause(v) \/ Terminate(v)
      PROVE  StageInv'
  BY <1>10 DEF Create, Pause, Terminate, StageInv
<1>11. ASSUME NEW v \in Ids, Scan(v)
      PROVE  StageInv'
  BY <1>11 DEF Scan, StageInv, InRows
<1>12. CASE EditConfig
  BY <1>12 DEF EditConfig, StageInv, InRows
<1>13. ASSUME NEW p \in Paths, PathChanges(p)
       PROVE  StageInv'
  BY <1>13 DEF PathChanges, StageInv, InRows
<1> QED BY <1>1, <1>2, <1>3, <1>4, <1>5, <1>6, <1>7, <1>8, <1>9, <1>10, <1>11, <1>12, <1>13
        DEF Next

\* The database a starting store opened.
LEMMA OpeningIs ==
  ASSUME BaseInv, pc = "open", todo # <<>>
  PROVE  \E v \in Ids : /\ todo = <<v>> /\ Head(todo) = v /\ InUse(v)
                        /\ own[v]["index"] \in {v, Legacy}
<1>1. PICK v \in Ids : todo = <<v>>
  BY DEF BaseInv, StageInv
<1>2. Head(todo) = v /\ InUse(v)
  BY <1>1 DEF InUse
<1> QED BY <1>1, <1>2 DEF BaseInv, MainInv

LEMMA MainStep ==
  ASSUME BaseInv, Next
  PROVE  MainInv'
<1> USE DEF BaseInv, TypeInv
<1>1. /\ \A v \in Ids : own[v]["index"] \in {Absent, v, Legacy}
      /\ \A v \in Ids : InUse(v) => own[v]["index"] # Absent
      /\ Names = {"index", "wal", "shm"} /\ own \in [Ids -> [Names -> Databases \cup {Absent}]]
  BY NamesAre DEF MainInv, FileType
<1>2. ASSUME NEW w \in Ids, NEW f \in [Names -> Databases \cup {Absent}],
             own' = [own EXCEPT ![w] = f],
             f["index"] \in {Absent, w, Legacy},
             \A v \in Ids : InUse(v)' => \/ v # w /\ InUse(v)
                                         \/ v = w /\ f["index"] # Absent
      PROVE  MainInv'
  <2>1. \A v \in Ids : own'[v] = IF v = w THEN f ELSE own[v]
    BY <1>1, <1>2
  <2> QED BY <1>1, <1>2, <2>1 DEF MainInv
<1>3. ASSUME NEW w \in Ids, OpenStore(w)
      PROVE  MainInv'
  <2>1. /\ Opened(own[w], w) \in [Names -> Databases \cup {Absent}]
        /\ Opened(own[w], w)["index"] \in {w, Legacy}
    BY <1>1, OpenedIs
  <2>2. \A v \in Ids : InUse(v)' => InUse(v) \/ v = w
    BY <1>3 DEF OpenStore, InUse
  <2>3. w # Absent /\ Legacy # Absent
    BY IdsAssumption
  <2> QED BY <1>2, <1>3, <2>1, <2>2, <2>3 DEF OpenStore
<1>4. ASSUME NEW w \in Ids, Create(w)
      PROVE  MainInv'
  <2>1. /\ Opened(NoFiles, w) \in [Names -> Databases \cup {Absent}]
        /\ Opened(NoFiles, w)["index"] = w
    BY <1>1, NamesAre, OpenedIs DEF NoFiles
  <2>2. \A v \in Ids : InUse(v)' => InUse(v) \/ v = w
    BY <1>4 DEF Create, InUse
  <2>3. w # Absent
    BY IdsAssumption
  <2> QED BY <1>2, <1>4, <2>1, <2>2, <2>3 DEF Create
<1>5. ASSUME NEW w \in Ids, Terminate(w) \/ RemoveOrphan(w)
      PROVE  MainInv'
  <2>1. NoFiles \in [Names -> Databases \cup {Absent}] /\ NoFiles["index"] = Absent
    BY <1>1, NamesAre
  <2>2. \A v \in Ids : InUse(v)' => InUse(v) /\ v # w
    BY <1>5 DEF Terminate, RemoveOrphan, InUse, StageInv
  <2> QED BY <1>2, <1>5, <2>1, <2>2 DEF Terminate, RemoveOrphan
<1>6. CASE Move
  <2>1. PICK w \in Ids :
          \/ own' = own
          \/ \E n \in Names : own' = [own EXCEPT ![w] = [own[w] EXCEPT ![n] = Legacy]]
    BY <1>6, MoveIs
  <2>2. \A v \in Ids : ~InUse(v)'
    BY <1>6 DEF Move, InUse, StageInv
  <2>3. CASE own' = own
    BY <1>1, <2>2, <2>3 DEF MainInv
  <2>4. ASSUME NEW n \in Names, own' = [own EXCEPT ![w] = [own[w] EXCEPT ![n] = Legacy]]
        PROVE  MainInv'
    <3>1. /\ [own[w] EXCEPT ![n] = Legacy] \in [Names -> Databases \cup {Absent}]
          /\ [own[w] EXCEPT ![n] = Legacy]["index"] \in {Absent, w, Legacy}
      BY <1>1 DEF Databases
    <3> QED BY <1>2, <2>2, <2>4, <3>1
  <2> QED BY <2>1, <2>3, <2>4
<1>7. CASE Stop \/ RefuseStore
  <2>1. PICK closed \in SUBSET Ids :
          own' = [v \in Ids |-> IF v \in closed THEN Closed(own[v]) ELSE own[v]]
    BY <1>7, Closings
  <2>2. \A v \in Ids : own'[v]["index"] = own[v]["index"]
    BY <1>1, <2>1, ClosedIs
  <2>3. \A v \in Ids : ~InUse(v)'
    BY <1>7 DEF Stop, RefuseStore, InUse
  <2> QED BY <1>1, <2>2, <2>3 DEF MainInv
<1>8. CASE StoreReady
  <2>1. PICK w \in Ids : Head(todo) = w /\ InUse(w)
    BY <1>8, OpeningIs DEF StoreReady
  <2>2. \A v \in Ids : InUse(v)' => InUse(v)
    BY <1>8, <2>1 DEF StoreReady, InUse
  <2>3. own' = own
    BY <1>8 DEF StoreReady, disk
  <2> QED BY <1>1, <2>2, <2>3 DEF MainInv
<1>9. ASSUME own' = own, open' \subseteq open, pc' # "open" \/ (pc' = pc /\ todo' = todo)
      PROVE  MainInv'
  <2>1. \A v \in Ids : InUse(v)' => InUse(v)
    BY <1>9 DEF InUse
  <2> QED BY <1>1, <1>9, <2>1 DEF MainInv
<1>10. CASE OrphansGone
  <2>1. \A v \in Ids : InUse(v)' => InUse(v)
    BY <1>10 DEF OrphansGone, InUse
  <2> QED BY <1>1, <1>10, <2>1 DEF MainInv, OrphansGone, disk
<1>11. CASE Start \/ CreateDir \/ WriteMeta \/ SkipAutoCreate \/ PickTarget \/ NoTarget
            \/ Reconciled \/ Migrate \/ Serve \/ Crash \/ EditConfig
  BY <1>9, <1>11 DEF Start, CreateDir, WriteMeta, SkipAutoCreate, PickTarget, NoTarget,
                     Reconciled, Migrate, Serve, Crash, EditConfig, disk
<1>12. ASSUME NEW v \in Ids, AutoCreate(v) \/ ReconcileRow(v) \/ Scan(v) \/ Pause(v)
       PROVE  MainInv'
  BY <1>9, <1>12 DEF AutoCreate, ReconcileRow, Scan, Pause
<1>13. ASSUME NEW p \in Paths, PathChanges(p)
       PROVE  MainInv'
  BY <1>9, <1>13 DEF PathChanges
<1> QED BY <1>3, <1>4, <1>5, <1>6, <1>7, <1>8, <1>10, <1>11, <1>12, <1>13 DEF Next

LEMMA RowInvStep ==
  ASSUME BaseInv, Next
  PROVE  RowInv'
<1> USE DEF BaseInv, TypeInv
<1>1. \A v \in Ids : InUse(v) => rows[v] # Absent
  BY DEF RowInv, InRows
<1>2. ASSUME \A v \in Ids : InUse(v)' => InUse(v), \A v \in Ids : rows[v] # Absent => rows'[v] # Absent
      PROVE  RowInv'
  BY <1>1, <1>2 DEF RowInv, InRows
<1>3. CASE StoreReady
  <2>1. PICK w \in Ids : Head(todo) = w /\ InUse(w)
    BY <1>3, OpeningIs DEF StoreReady
  <2>2. \A v \in Ids : InUse(v)' => InUse(v)
    BY <1>3, <2>1 DEF StoreReady, InUse
  <2> QED BY <1>2, <1>3, <2>2 DEF StoreReady, disk
<1>4. ASSUME NEW w \in Ids, OpenStore(w)
      PROVE  RowInv'
  <2>1. rows[w] # Absent /\ rows' = rows
    BY <1>4 DEF OpenStore, Active, InRows
  <2>2. \A v \in Ids : InUse(v)' => InUse(v) \/ v = w
    BY <1>4 DEF OpenStore, InUse
  <2> QED BY <1>1, <2>1, <2>2 DEF RowInv, InRows
<1>5. ASSUME NEW w \in Ids, Create(w)
      PROVE  RowInv'
  <2>1. [path |-> OtherPath, status |-> "active"] # Absent
    BY RowsNotAbsent DEF Rows, Paths
  <2>2. /\ rows' = [rows EXCEPT ![w] = [path |-> OtherPath, status |-> "active"]]
        /\ open' = open \cup {w} /\ pc' = "serving" /\ pc = "serving"
    BY <1>5 DEF Create
  <2>3. \A v \in Ids : InUse(v)' => InUse(v) \/ v = w
    BY <2>2 DEF InUse
  <2> QED BY <1>1, <2>1, <2>2, <2>3 DEF RowInv, InRows, RowType
<1>6. ASSUME NEW w \in Ids, Terminate(w)
      PROVE  RowInv'
  <2>1. \A v \in Ids : InUse(v)' => InUse(v) /\ v # w
    BY <1>6 DEF Terminate, InUse
  <2> QED BY <1>1, <1>6, <2>1 DEF Terminate, RowInv, InRows, RowType
<1>7. ASSUME NEW w \in Ids, Pause(w)
      PROVE  RowInv'
  <2>1. [rows[w] EXCEPT !.status = "paused"] # Absent
    <3>1. [rows[w] EXCEPT !.status = "paused"] \in Rows
      BY <1>7 DEF Pause, Active, InRows, RowType, Rows
    <3> QED BY <3>1, RowsNotAbsent
  <2>2. rows' = [rows EXCEPT ![w] = [rows[w] EXCEPT !.status = "paused"]]
    BY <1>7 DEF Pause
  <2>3. \A v \in Ids : InUse(v)' => InUse(v)
    BY <1>7 DEF Pause, InUse
  <2> QED BY <1>2, <2>1, <2>2, <2>3 DEF RowType
<1>8. CASE \A v \in Ids : ~InUse(v)'
  BY <1>8 DEF RowInv
<1>9. ASSUME NEW w \in Ids, AutoCreate(w) \/ ReconcileRow(w) \/ RemoveOrphan(w)
      PROVE  RowInv'
  BY <1>8, <1>9 DEF AutoCreate, ReconcileRow, RemoveOrphan, InUse, StageInv
<1>10. CASE Start \/ CreateDir \/ WriteMeta \/ SkipAutoCreate \/ PickTarget \/ NoTarget
            \/ Move \/ Reconciled
  BY <1>8, <1>10 DEF Start, CreateDir, WriteMeta, SkipAutoCreate, PickTarget, NoTarget, Move,
                     Reconciled, InUse, StageInv, disk
<1>11. CASE OrphansGone
  <2>1. todo' = <<>> /\ open' = {}
    BY <1>11 DEF OrphansGone, StageInv
  <2>2. \A v \in Ids : ~InUse(v)'
    BY <2>1 DEF InUse
  <2> QED BY <1>8, <2>2
<1>12. CASE RefuseStore \/ Stop \/ Crash
  BY <1>8, <1>12 DEF RefuseStore, Stop, Crash, InUse
<1>13. CASE Migrate \/ Serve \/ EditConfig
  BY <1>2, <1>13 DEF Migrate, Serve, EditConfig, InUse, disk
<1>14. ASSUME NEW v \in Ids, Scan(v)
       PROVE  RowInv'
  BY <1>2, <1>14 DEF Scan, InUse
<1>15. ASSUME NEW p \in Paths, PathChanges(p)
       PROVE  RowInv'
  BY <1>2, <1>15 DEF PathChanges, InUse
<1> QED BY <1>3, <1>4, <1>5, <1>6, <1>7, <1>9, <1>10, <1>11, <1>12, <1>13, <1>14, <1>15 DEF Next

\* What a step writes into the databases.
WritesNew(v)  == OpenStore(v) /\ own[v]["index"] = Absent /\ db' = [db EXCEPT ![v] = New]
WritesOwn(v)  == Create(v) /\ db' = [db EXCEPT ![v] = [New EXCEPT !.version = Target]]
WritesUp(d)   == /\ Migrate /\ db[d].version < Target
                 /\ db' = [db EXCEPT ![d] = Migrated(db[d])]
WritesFile(v) == Scan(v) /\ db[own[v]["index"]].hash # "set"
                 /\ db' = [db EXCEPT ![own[v]["index"]] =
                             [db[own[v]["index"]] EXCEPT !.hash = "set", !.text = TRUE,
                                                         !.chunks = TRUE, !.fts = TRUE]]

LEMMA DbIs ==
  ASSUME BaseInv, Next
  PROVE  \/ db' = db
         \/ \E v \in Ids : WritesNew(v) \/ WritesOwn(v)
         \/ \E d \in Databases : WritesUp(d)
         \/ \E v \in Ids : WritesFile(v) /\ own[v]["index"] \in Databases
<1>1. ASSUME NEW v \in Ids, OpenStore(v)
      PROVE  db' = db \/ WritesNew(v)
  BY <1>1 DEF OpenStore, WritesNew
<1>2. ASSUME NEW v \in Ids, Create(v)
      PROVE  WritesOwn(v)
  BY <1>2 DEF Create, WritesOwn
<1>3. CASE Migrate
  <2>1. PICK v \in Ids : Head(todo) = v /\ own[v]["index"] \in {v, Legacy}
    BY <1>3, OpeningIs DEF Migrate
  <2>2. own[v]["index"] \in Databases
    BY <2>1 DEF Databases
  <2>3. WritesUp(own[v]["index"])
    BY <1>3, <2>1 DEF Migrate, WritesUp
  <2> QED BY <2>2, <2>3
<1>4. ASSUME NEW v \in Ids, Scan(v)
      PROVE  db' = db \/ (WritesFile(v) /\ own[v]["index"] \in Databases)
  <2>1. own[v]["index"] \in Databases
    BY <1>4 DEF Scan, BaseInv, MainInv, InUse, Databases
  <2> QED BY <1>4, <2>1 DEF Scan, WritesFile
<1>5. CASE db' = db
  BY <1>5
<1> QED
  BY <1>1, <1>2, <1>3, <1>4, <1>5
  DEF Next, disk, Start, CreateDir, WriteMeta, SkipAutoCreate, PickTarget, NoTarget, Move,
      Reconciled, OrphansGone, StoreReady, RefuseStore, Serve, RemoveOrphan, AutoCreate,
      ReconcileRow, Pause, Terminate, Stop, Crash, EditConfig, PathChanges

\* Each of the four writes leaves a database that lies in Contents, and Filled if it was.
LEMMA DatabasesStayFilled ==
  ASSUME BaseInv, Next
  PROVE  /\ BaseType'
         /\ (\A d \in Databases : Filled(db[d])) => \A d \in Databases : Filled(db'[d])
<1>1. db \in [Databases -> Contents]
  BY DEF BaseInv, TypeInv, BaseType
<1>2. ASSUME NEW e \in Databases, NEW c \in Contents, db' = [db EXCEPT ![e] = c],
             Filled(db[e]) => Filled(c)
      PROVE  /\ db' \in [Databases -> Contents]
             /\ (\A d \in Databases : Filled(db[d])) => \A d \in Databases : Filled(db'[d])
  <2>1. \A d \in Databases : db'[d] = IF d = e THEN c ELSE db[d]
    BY <1>1, <1>2
  <2> QED BY <1>1, <1>2, <2>1
<1>3. CASE db' = db
  BY <1>1, <1>3 DEF BaseType
<1>4. ASSUME NEW v \in Ids, WritesNew(v) \/ WritesOwn(v)
      PROVE  /\ db' \in [Databases -> Contents]
             /\ (\A d \in Databases : Filled(db[d])) => \A d \in Databases : Filled(db'[d])
  <2>1. v \in Databases
    BY DEF Databases
  <2> QED BY <1>2, <1>4, <2>1, NewIs DEF WritesNew, WritesOwn
<1>5. ASSUME NEW d \in Databases, WritesUp(d)
      PROVE  /\ db' \in [Databases -> Contents]
             /\ (\A e \in Databases : Filled(db[e])) => \A e \in Databases : Filled(db'[e])
  <2>1. db[d] \in Contents /\ db[d].version < Target
    BY <1>1, <1>5 DEF WritesUp
  <2> QED BY <1>2, <1>5, <2>1, MigratedIs DEF WritesUp
<1>6. ASSUME NEW v \in Ids, WritesFile(v), own[v]["index"] \in Databases
      PROVE  /\ db' \in [Databases -> Contents]
             /\ (\A d \in Databases : Filled(db[d])) => \A d \in Databases : Filled(db'[d])
  <2>1. db[own[v]["index"]] \in Contents
    BY <1>1, <1>6
  <2> QED BY <1>2, <1>6, <2>1, ScannedIs DEF WritesFile
<1> QED BY <1>3, <1>4, <1>5, <1>6, DbIs DEF BaseType

LEMMA BaseStep ==
  ASSUME BaseInv, [Next]_vars
  PROVE  BaseInv'
<1>1. CASE UNCHANGED vars
  BY <1>1 DEF vars, disk, BaseInv, TypeInv, RowType, FileType, LifeType, BaseType, StageInv,
              RowInv, MainInv, InUse, InRows
<1>2. CASE Next
  <2>1. BaseType'
    BY <1>2, DatabasesStayFilled DEF BaseInv, TypeInv
  <2>2. RowType' /\ FileType' /\ LifeType' /\ StageInv'
    BY <1>2, RowStep, FileStep, LifeStep, StageStep DEF BaseInv, TypeInv
  <2> QED BY <1>2, <2>1, <2>2, MainStep, RowInvStep DEF BaseInv, TypeInv
<1> QED BY <1>1, <1>2

LEMMA BaseAlways == Spec => []BaseInv
<1>1. BaseInv /\ [Next]_vars => BaseInv'
  BY BaseStep
<1> QED BY <1>1, BaseInit, PTL DEF Spec

----------------------------------------------------------------------------
(* Contents.                                                               *)

LEMMA ContentInit == Init => ContentInv
<1> SUFFICES ASSUME Init
             PROVE  ContentInv
  OBVIOUS
<1>1. PICK s \in Situations, ds \in SUBSET Databases :
        db = [d \in Databases |-> IF d \in ds THEN WrittenAt(s.version) ELSE New]
  <2>1. PICK s \in Situations, first \in Ids :
          db = [d \in Databases |-> IF d = Legacy \/ d \in dirs
                                    THEN WrittenAt(s.version) ELSE New]
    BY DEF Init
  <2>2. db = [d \in Databases |-> IF d \in {e \in Databases : e = Legacy \/ e \in dirs}
                                  THEN WrittenAt(s.version) ELSE New]
    BY <2>1
  <2> QED BY <2>2
<1>2. Filled(WrittenAt(s.version))
  <2>1. s.version \in Nat
    <3>1. CASE s \in [block : BOOLEAN, legacy : {"none", "clean", "hot"},
                      version : 1..4, vault : {FALSE}]
      BY <3>1
    <3>2. CASE s \in [block : BOOLEAN, legacy : {"none"},
                      version : 4..(Target + 1), vault : {TRUE}]
      BY <3>2 DEF Target
    <3> QED BY <3>1, <3>2 DEF Situations
  <2>2. PICK n \in Nat : n = s.version
    BY <2>1
  <2>3. /\ WrittenAt(n).version = n
        /\ WrittenAt(n).text <=> n >= 2
        /\ WrittenAt(n).chunks <=> n >= 3
        /\ WrittenAt(n).fts <=> n >= 5
    BY DEF WrittenAt
  <2>4. n >= 4 => n >= 3
    OBVIOUS
  <2>5. Filled(WrittenAt(n))
    BY <2>3, <2>4 DEF Filled
  <2> QED BY <2>2, <2>5
<1>3. \A d \in Databases : Filled(db[d])
  BY <1>1, <1>2, NewIs
<1> QED BY <1>3 DEF Init, ContentInv

LEMMA ContentStep ==
  ASSUME BaseInv, ContentInv, [Next]_vars
  PROVE  ContentInv'
<1>1. CASE UNCHANGED vars
  BY <1>1 DEF vars, disk, ContentInv
<1>2. CASE Next
  <2> USE DEF BaseInv, TypeInv
  <2>1. db \in [Databases -> Contents] /\ open \subseteq Ids /\ scanned \subseteq open
        /\ Legacy \notin Ids
    BY IdsAssumption DEF BaseType, LifeType
  <2>2. \A d \in Databases : Filled(db'[d])
    BY <1>2, DatabasesStayFilled DEF ContentInv
  <2> DEFINE Served(v) == /\ db'[own'[v]["index"]].version = Target
                          /\ v \in scanned' => db'[own'[v]["index"]].hash = "set"
  \* A store that was open stays at the current version.
  <2>3. ASSUME NEW v \in open, v \in open', own'[v]["index"] = own[v]["index"],
               v \in scanned' => v \in scanned
        PROVE  Served(v)
    <3> DEFINE e == own[v]["index"]
    <3>1. /\ e \in {v, Legacy} /\ e \in Databases /\ db[e].version = Target
          /\ v \in scanned => db[e].hash = "set"
      BY <2>1, <2>3 DEF ContentInv, MainInv, InUse, Databases
    <3>2. CASE db' = db
      BY <2>3, <3>1, <3>2
    <3>3. ASSUME NEW w \in Ids, WritesNew(w) \/ WritesOwn(w)
          PROVE  Served(v)
      <4>1. w # v
        BY <2>1, <2>3, <3>3 DEF WritesNew, WritesOwn, OpenStore, Create, RowInv, InUse, RowType
      <4>2. w # e
        BY <2>1, <3>1, <4>1
      <4>3. db'[e] = db[e]
        BY <2>1, <3>1, <3>3, <4>2 DEF WritesNew, WritesOwn
      <4> QED BY <2>3, <3>1, <4>3
    <3>4. ASSUME NEW d \in Databases, WritesUp(d)
          PROVE  Served(v)
      <4>1. d # e
        BY <3>1, <3>4 DEF WritesUp, Target
      <4>2. db'[e] = db[e]
        BY <2>1, <3>1, <3>4, <4>1 DEF WritesUp
      <4> QED BY <2>3, <3>1, <4>2
    <3>5. ASSUME NEW w \in Ids, WritesFile(w), own[w]["index"] \in Databases
          PROVE  Served(v)
      <4> DEFINE f == own[w]["index"]
      <4>1. db[f] \in Contents
        BY <2>1, <3>5
      <4>2. db'[f].version = db[f].version /\ db'[f].hash = "set"
        BY <2>1, <3>5, <4>1, ScannedIs DEF WritesFile
      <4>3. e # f => db'[e] = db[e]
        BY <2>1, <3>1, <3>5 DEF WritesFile
      <4> QED BY <2>3, <3>1, <4>2, <4>3
    <3> QED BY <1>2, <3>2, <3>3, <3>4, <3>5, DbIs
  \* A store opens at the current version, unscanned, and a scan sets the hash.
  <2>4. CASE StoreReady
    <3>1. PICK w \in Ids : Head(todo) = w /\ InUse(w)
      BY <2>4, OpeningIs DEF StoreReady
    <3>2. /\ db[own[w]["index"]].version >= Target /\ ~(db[own[w]["index"]].version > Target)
          /\ own[w]["index"] \in Databases
      BY <2>4, <3>1 DEF StoreReady, IsAhead, MainInv, Databases
    <3>3. db[own[w]["index"]].version = Target
      BY <2>1, <3>2 DEF Contents, Versions, Target
    <3>4. own' = own /\ db' = db /\ open' = open \cup {w} /\ scanned' = scanned
      BY <2>4, <3>1 DEF StoreReady, disk
    <3>5. Served(w)
      BY <2>1, <2>3, <3>3, <3>4
    <3> QED BY <2>2, <2>3, <3>4, <3>5 DEF ContentInv
  <2>5. ASSUME NEW w \in Ids, Create(w)
        PROVE  ContentInv'
    <3>1. /\ w \notin open /\ open' = open \cup {w} /\ scanned' = scanned
          /\ own' = [own EXCEPT ![w] = Opened(NoFiles, w)]
          /\ db' = [db EXCEPT ![w] = [New EXCEPT !.version = Target]]
      BY <2>5 DEF Create, RowInv, InUse, RowType
    <3>2. Opened(NoFiles, w)["index"] = w
      BY NamesAre, OpenedIs DEF NoFiles, Names
    <3>3. own'[w]["index"] = w /\ \A v \in open : own'[v] = own[v]
      BY <2>1, <3>1, <3>2 DEF FileType
    <3>4. db'[w].version = Target
      BY <2>1, <3>1, NewIs DEF Databases
    <3>5. Served(w)
      BY <2>1, <3>1, <3>3, <3>4
    <3> QED BY <2>2, <2>3, <3>1, <3>3, <3>5 DEF ContentInv
  <2>6. ASSUME NEW w \in Ids, Scan(w)
        PROVE  ContentInv'
    <3> DEFINE f == own[w]["index"]
    <3>1. /\ w \in open /\ own' = own /\ open' = open /\ scanned' = scanned \cup {w}
          /\ db' = IF db[f].hash = "set" THEN db
                   ELSE [db EXCEPT ![f] = [db[f] EXCEPT !.hash = "set", !.text = TRUE,
                                                        !.chunks = TRUE, !.fts = TRUE]]
      BY <2>6 DEF Scan
    <3>2. f \in Databases /\ db[f].version = Target /\ db[f] \in Contents
      BY <2>1, <3>1 DEF ContentInv, MainInv, InUse, Databases
    <3>3. db'[f].hash = "set" /\ db'[f].version = Target
      BY <2>1, <3>1, <3>2, ScannedIs
    <3>4. Served(w)
      BY <3>1, <3>3
    <3> QED BY <2>2, <2>3, <3>1, <3>4 DEF ContentInv
  <2>7. CASE open' = {}
    BY <2>2, <2>7 DEF ContentInv
  <2>8. ASSUME open' \subseteq open, scanned' \subseteq scanned,
               \A v \in open' : own'[v]["index"] = own[v]["index"]
        PROVE  ContentInv'
    BY <2>2, <2>3, <2>8 DEF ContentInv
  <2>9. ASSUME NEW w \in Ids, OpenStore(w) \/ Terminate(w) \/ Pause(w)
        PROVE  ContentInv'
    BY <2>1, <2>8, <2>9 DEF OpenStore, Terminate, Pause, FileType
  <2>10. ASSUME NEW w \in Ids, AutoCreate(w) \/ ReconcileRow(w) \/ RemoveOrphan(w)
         PROVE  ContentInv'
    BY <2>7, <2>10 DEF AutoCreate, ReconcileRow, RemoveOrphan, StageInv
  <2>11. CASE Start \/ CreateDir \/ WriteMeta \/ SkipAutoCreate \/ PickTarget \/ NoTarget
              \/ Move \/ Reconciled \/ OrphansGone \/ RefuseStore \/ Stop \/ Crash
    BY <2>7, <2>11 DEF Start, CreateDir, WriteMeta, SkipAutoCreate, PickTarget, NoTarget, Move,
                       Reconciled, OrphansGone, RefuseStore, Stop, Crash, StageInv
  <2>12. CASE Migrate \/ Serve \/ EditConfig
    BY <2>8, <2>12 DEF Migrate, Serve, EditConfig, disk
  <2>13. ASSUME NEW p \in Paths, PathChanges(p)
         PROVE  ContentInv'
    BY <2>8, <2>13 DEF PathChanges
  <2> QED BY <1>2, <2>4, <2>5, <2>6, <2>9, <2>10, <2>11, <2>12, <2>13 DEF Next
<1> QED BY <1>1, <1>2

\* A vault in service has a store of the code's own version, and once its scan is over
\* its file is searchable in every way: whatever release wrote the store and wherever a
\* migration was cut off, no hash is left that would let the stat gate skip the file
\* (apply_migrations, decide_upsert).
THEOREM ScansFillMigrations == Spec => []ScanCompletes
<1>1. BaseInv /\ ContentInv /\ [Next]_vars => ContentInv'
  BY ContentStep
<1>2. BaseInv /\ ContentInv => ScanCompletes
  <2> SUFFICES ASSUME BaseInv, ContentInv, NEW v \in open
               PROVE  LET d == db[own[v]["index"]]
                      IN /\ d.version = Target
                         /\ v \in scanned => d.hash = "set" /\ d.text /\ d.chunks /\ d.fts
    BY DEF ScanCompletes
  <2>1. own[v]["index"] \in Databases
    BY DEF BaseInv, TypeInv, LifeType, MainInv, InUse, Databases
  <2>2. Filled(db[own[v]["index"]]) /\ db[own[v]["index"]].version = Target
    BY <2>1 DEF ContentInv
  <2> QED BY <2>2 DEF ContentInv, Filled, Target
<1> QED BY <1>1, <1>2, ContentInit, BaseAlways, PTL DEF Spec

----------------------------------------------------------------------------
(* Main files.                                                             *)

\* A main file changes hands only in a move, and is lost only with the files of a vault
\* that is terminated, created anew or an orphan.
LEMMA KeepStep ==
  ASSUME BaseInv, Next, NEW d \in Databases, Holds(d), ~Holds(d)'
  PROVE  \E v \in Ids : own[v]["index"] = d /\ (v \notin Active \/ v \notin InRows')
<1> USE DEF BaseInv, TypeInv
<1>1. /\ own \in [Ids -> [Names -> Databases \cup {Absent}]] /\ d # Absent
      /\ root \in [Names -> {Legacy, Absent}] /\ "index" \in Names
  BY IdsAssumption, NamesAre DEF FileType, Databases
<1>2. /\ root["index"] = d \/ \E v \in Ids : own[v]["index"] = d
      /\ root'["index"] # d /\ \A v \in Ids : own'[v]["index"] # d
  BY DEF Holds
<1>3. ASSUME NEW w \in Ids, NEW f, own' = [own EXCEPT ![w] = f], root' = root
      PROVE  own[w]["index"] = d /\ f["index"] # d
  <2>1. \A v \in Ids : own'[v] = IF v = w THEN f ELSE own[v]
    BY <1>1, <1>3
  <2> QED BY <1>2, <1>3, <2>1
<1>4. ASSUME NEW w \in Ids, OpenStore(w)
      PROVE  FALSE
  <2>1. own[w]["index"] = d /\ Opened(own[w], w)["index"] # d
    BY <1>3, <1>4 DEF OpenStore
  <2> QED BY <1>1, <2>1, OpenedIs
<1>5. ASSUME NEW w \in Ids, Create(w)
      PROVE  own[w]["index"] = d /\ w \notin Active
  <2>1. own[w]["index"] = d
    BY <1>3, <1>5 DEF Create
  <2> QED BY <1>5, <2>1 DEF Create, RowType, Active
<1>6. ASSUME NEW w \in Ids, RemoveOrphan(w)
      PROVE  own[w]["index"] = d /\ w \notin Active
  BY <1>3, <1>6 DEF RemoveOrphan, Orphans
<1>7. ASSUME NEW w \in Ids, Terminate(w)
      PROVE  own[w]["index"] = d /\ w \notin InRows'
  BY <1>3, <1>7 DEF Terminate, InRows, RowType
<1>8. CASE Move
  <2>1. PICK w \in Ids :
          \/ UNCHANGED <<own, root>>
          \/ \E n \in Names :
               /\ root[n] = Legacy /\ own[w][n] = Absent
               /\ own' = [own EXCEPT ![w] = [own[w] EXCEPT ![n] = Legacy]]
               /\ root' = [root EXCEPT ![n] = Absent]
    BY <1>8, MoveIs
  <2>2. ASSUME NEW n \in Names, root[n] = Legacy, own[w][n] = Absent,
               own' = [own EXCEPT ![w] = [own[w] EXCEPT ![n] = Legacy]],
               root' = [root EXCEPT ![n] = Absent]
        PROVE  FALSE
    <3>1. /\ own'[w]["index"] = IF n = "index" THEN Legacy ELSE own[w]["index"]
          /\ \A v \in Ids : v # w => own'[v] = own[v]
          /\ root'["index"] = IF n = "index" THEN Absent ELSE root["index"]
      BY <1>1, <2>2
    <3> QED BY <1>1, <1>2, <2>2, <3>1
  <2> QED BY <1>2, <2>1, <2>2
<1>9. CASE Stop \/ RefuseStore
  <2>1. PICK closed \in SUBSET Ids :
          own' = [v \in Ids |-> IF v \in closed THEN Closed(own[v]) ELSE own[v]]
    BY <1>9, Closings
  <2>2. \A v \in Ids : own'[v]["index"] = own[v]["index"]
    BY <1>1, <2>1, ClosedIs
  <2>3. root' = root
    BY <1>9 DEF Stop, RefuseStore
  <2> QED BY <1>2, <2>2, <2>3
<1>10. CASE UNCHANGED <<own, root>>
  BY <1>2, <1>10
<1> QED
  BY <1>4, <1>5, <1>6, <1>7, <1>8, <1>9, <1>10
  DEF Next, disk, Start, CreateDir, WriteMeta, SkipAutoCreate, PickTarget, NoTarget,
      AutoCreate, ReconcileRow, Reconciled, OrphansGone, Migrate, StoreReady, Serve, Scan,
      Pause, Crash, EditConfig, PathChanges

\* The main file of a database goes only with a vault that is terminated or whose row is
\* not active at a start; no rename replaces one, and no kill makes the directory of an
\* active vault an orphan (rename_legacy_files_into_vault, reconcile_orphan_subdirs).
THEOREM DatabasesAreKept == Spec => KeepsDatabases
<1>1. BaseInv /\ [Next]_vars =>
        [\A d \in Databases :
           Holds(d) /\ ~Holds(d)' =>
             \E v \in Ids : own[v]["index"] = d /\ (v \notin Active \/ v \notin InRows')]_vars
  BY KeepStep
<1> QED BY <1>1, BaseAlways, PTL DEF Spec, KeepsDatabases

----------------------------------------------------------------------------
(* Files.                                                                  *)

LEMMA FilesInit == HotEdits = FALSE /\ Init => FilesInv /\ UseInv
<1> SUFFICES ASSUME HotEdits = FALSE, Init
             PROVE  FilesInv /\ UseInv
  OBVIOUS
<1>1. PICK s \in Situations, first \in Ids :
        LET hot == s.legacy = "hot"
        IN /\ hot /\ ~s.block => HotEdits
           /\ config = [block |-> s.block, dimension |-> TRUE]
           /\ rows = [v \in Ids |-> IF s.vault /\ v = first
                                    THEN [path |-> OtherPath, status |-> "active"] ELSE Absent]
           /\ dirs = (IF s.vault THEN {first} ELSE {})
           /\ root = [n \in Names |-> IF \/ n = "index" /\ s.legacy # "none"
                                         \/ n # "index" /\ hot
                                      THEN Legacy ELSE Absent]
           /\ own = [v \in Ids |-> [n \in Names |->
                         IF v \in dirs /\ n = "index" THEN v ELSE Absent]]
  BY DEF Init
<1>2. s.legacy = "hot" => s.vault = FALSE
  <2>1. CASE s \in [block : BOOLEAN, legacy : {"none", "clean", "hot"},
                    version : 1..4, vault : {FALSE}]
    BY <2>1
  <2>2. CASE s \in [block : BOOLEAN, legacy : {"none"},
                    version : 4..(Target + 1), vault : {TRUE}]
    BY <2>2
  <2> QED BY <2>1, <2>2 DEF Situations
<1>3. pc = "down" /\ open = {} /\ Names = {"index", "wal", "shm"}
  BY NamesAre DEF Init
<1>4. \A v \in Ids, n \in Names : own[v][n] = IF v \in dirs /\ n = "index" THEN v ELSE Absent
  BY <1>1
<1>5. (\A v \in Ids : Uniform(v)) /\ \A v \in Ids : own[v]["index"] # Legacy
  BY <1>3, <1>4, IdsAssumption DEF Uniform
<1>6. CASE s.legacy = "hot"
  <2>1. dirs = {} /\ rows = [v \in Ids |-> Absent]
    BY <1>1, <1>2, <1>6
  <2>2. config.block = TRUE /\ root["index"] = Legacy /\ root["wal"] = Legacy
    BY <1>1, <1>3, <1>6
  <2>3. InRows = {} /\ \A v \in Ids : own[v] = NoFiles
    BY <1>1, <2>1 DEF InRows, NoFiles
  <2> QED BY <1>3, <1>5, <2>2, <2>3, IdsAssumption DEF FilesInv, HotInv, UseInv, InUse
<1>7. CASE s.legacy # "hot"
  <2>1. ~Hot
    BY <1>1, <1>3, <1>7 DEF Hot
  <2> QED BY <1>3, <1>5, <2>1 DEF FilesInv, HotInv, UseInv, InUse
<1> QED BY <1>6, <1>7

LEMMA MoveKeepsFiles ==
  ASSUME BaseInv, FilesInv, Move
  PROVE  FilesInv'
<1> USE DEF BaseInv, TypeInv
<1>1. /\ own \in [Ids -> [Names -> Databases \cup {Absent}]] /\ root \in [Names -> {Legacy, Absent}]
      /\ Names = {"index", "wal", "shm"} /\ Legacy # Absent /\ pc = "move"
  BY NamesAre, IdsAssumption DEF FileType, Move
<1>2. PICK w \in Ids :
        /\ InRows = {w} /\ rows' = rows /\ config' = config
        /\ \/ todo = <<>> /\ pc' = "reconcile" /\ UNCHANGED <<todo, own, root>>
           \/ \E n \in Names :
                /\ pc' = "move" /\ todo' \in Remaining
                /\ Ahead(todo) = Ahead(todo') \cup {n}
                /\ n = "index" \/ "index" \notin Ahead(todo)
                /\ \/ /\ root[n] = Legacy /\ own[w][n] = Absent
                      /\ own' = [own EXCEPT ![w] = [own[w] EXCEPT ![n] = Legacy]]
                      /\ root' = [root EXCEPT ![n] = Absent]
                   \/ /\ root[n] = Absent \/ own[w][n] # Absent
                      /\ UNCHANGED <<own, root>>
  BY MoveIs
<1>3. InRows' = {w} /\ w \in Ids
  BY <1>2 DEF InRows
<1>4. CASE todo = <<>> /\ pc' = "reconcile" /\ UNCHANGED <<todo, own, root>>
  <2>1. Ahead(todo) = {}
    BY <1>4 DEF Ahead
  <2>2. ~Hot
    BY <1>1, <2>1 DEF FilesInv, HotInv, Hot
  <2> QED BY <1>4, <2>2 DEF FilesInv, HotInv, Hot, Uniform
<1>5. ASSUME NEW n \in Names, pc' = "move", Ahead(todo) = Ahead(todo') \cup {n},
             n = "index" \/ "index" \notin Ahead(todo),
             root[n] = Legacy, own[w][n] = Absent,
             own' = [own EXCEPT ![w] = [own[w] EXCEPT ![n] = Legacy]],
             root' = [root EXCEPT ![n] = Absent]
      PROVE  FilesInv'
  <2>1. /\ \A v \in Ids : v # w => own'[v] = own[v]
        /\ \A m \in Names : own'[w][m] = IF m = n THEN Legacy ELSE own[w][m]
        /\ \A m \in Names : root'[m] = IF m = n THEN Absent ELSE root[m]
    BY <1>1, <1>5
  <2>2. root'["index"] # Legacy /\ own'[w]["index"] = Legacy
    <3>1. CASE n = "index"
      BY <1>1, <2>1, <3>1
    <3>2. CASE n # "index"
      <4>1. Hot
        BY <1>1, <1>5, <3>2 DEF Hot
      <4>2. root["index"] # Legacy
        BY <1>1, <1>5, <3>2, <4>1 DEF FilesInv, HotInv
      <4>3. own[w]["index"] = Legacy
        BY <1>2, <4>1, <4>2 DEF FilesInv, HotInv
      <4> QED BY <1>1, <2>1, <3>2, <4>2, <4>3
    <3> QED BY <3>1, <3>2
  <2>3. \A m \in Names : own'[w][m] \in {Absent, Legacy}
    <3>1. CASE n = "index"
      BY <1>5, <2>1, <3>1 DEF FilesInv, Uniform
    <3>2. CASE n # "index"
      <4>1. own[w]["index"] = Legacy
        BY <1>1, <2>1, <2>2, <3>2
      <4> QED BY <2>1, <4>1 DEF FilesInv, Uniform
    <3> QED BY <3>1, <3>2
  <2>4. \A v \in Ids : Uniform(v)'
    BY <2>1, <2>2, <2>3 DEF FilesInv, Uniform
  <2>5. Hot' => /\ \A m \in Names : root'[m] # Absent => own'[w][m] = Absent
                /\ \A m \in Names : root'[m] # Absent => m \in Ahead(todo')
    <3> SUFFICES ASSUME Hot', NEW m \in Names, root'[m] # Absent
                 PROVE  own'[w][m] = Absent /\ m \in Ahead(todo')
      OBVIOUS
    <3>1. m # n /\ root[m] # Absent /\ Hot
      BY <1>1, <2>1 DEF Hot
    <3>2. m \in Ahead(todo')
      BY <1>1, <1>5, <3>1 DEF FilesInv, HotInv
    <3>3. own[w][m] = Absent
      <4>1. CASE root["index"] = Legacy
        BY <3>1, <4>1 DEF FilesInv, HotInv, NoFiles
      <4>2. CASE root["index"] # Legacy
        BY <1>2, <3>1, <4>2 DEF FilesInv, HotInv
      <4> QED BY <4>1, <4>2
    <3> QED BY <2>1, <3>1, <3>2, <3>3
  <2> QED BY <1>3, <1>5, <2>2, <2>4, <2>5 DEF FilesInv, HotInv
<1>6. ASSUME NEW n \in Names, pc' = "move", Ahead(todo) = Ahead(todo') \cup {n},
             root[n] = Absent \/ own[w][n] # Absent, UNCHANGED <<own, root>>
      PROVE  FilesInv'
  <2>1. ASSUME Hot
        PROVE  root[n] = Absent
    <3>1. CASE root["index"] = Legacy
      BY <1>6, <2>1, <3>1 DEF FilesInv, HotInv, NoFiles
    <3>2. CASE root["index"] # Legacy
      BY <1>2, <1>6, <2>1, <3>2 DEF FilesInv, HotInv
    <3> QED BY <3>1, <3>2
  <2>2. Hot => \A m \in Names : root[m] # Absent => m \in Ahead(todo')
    BY <1>1, <1>6, <2>1 DEF FilesInv, HotInv
  <2>3. \A v \in Ids : Uniform(v)'
    BY <1>6 DEF FilesInv, Uniform
  <2> QED BY <1>2, <1>3, <1>6, <2>2, <2>3 DEF FilesInv, HotInv, Hot
<1> QED BY <1>2, <1>4, <1>5, <1>6

LEMMA UniformIs ==
  ASSUME NEW v \in Ids, NEW f \in [Names -> Databases \cup {Absent}],
         \A n \in Names : f[n] \in {Absent, f["index"]}
  PROVE  /\ \A n \in Names : Opened(f, v)[n] = Opened(f, v)["index"]
         /\ \A n \in Names : Closed(f)[n] \in {Absent, Closed(f)["index"]}
         /\ \A n \in Names : NoFiles[n] \in {Absent, NoFiles["index"]}
BY DEF Opened, Closed, NoFiles, Names

\* Every step but a move keeps a directory to the parts of one database, and does not
\* touch what v0 left.
LEMMA OthersKeepUniform ==
  ASSUME BaseInv, FilesInv, Next, ~Move
  PROVE  /\ root' = root
         /\ \A v \in Ids : Uniform(v)'
         /\ root["index"] = Legacy => \A v \in Ids : own'[v]["index"] # Legacy
<1> USE DEF BaseInv, TypeInv
<1>1. /\ own \in [Ids -> [Names -> Databases \cup {Absent}]] /\ Names = {"index", "wal", "shm"}
      /\ Absent # Legacy /\ Legacy \notin Ids
  BY NamesAre, IdsAssumption DEF FileType
<1>2. ASSUME NEW w \in Ids, NEW f \in [Names -> Databases \cup {Absent}],
             own' = [own EXCEPT ![w] = f], root' = root,
             \A n \in Names : f[n] \in {Absent, f["index"]},
             f["index"] \in {Absent, w, own[w]["index"]}
      PROVE  /\ root' = root
             /\ \A v \in Ids : Uniform(v)'
             /\ root["index"] = Legacy => \A v \in Ids : own'[v]["index"] # Legacy
  <2>1. \A v \in Ids : own'[v] = IF v = w THEN f ELSE own[v]
    BY <1>1, <1>2
  <2>2. \A v \in Ids : Uniform(v)'
    BY <1>2, <2>1 DEF FilesInv, Uniform
  <2> QED BY <1>1, <1>2, <2>1, <2>2 DEF FilesInv
<1>3. ASSUME NEW w \in Ids, OpenStore(w)
      PROVE  /\ root' = root
             /\ \A v \in Ids : Uniform(v)'
             /\ root["index"] = Legacy => \A v \in Ids : own'[v]["index"] # Legacy
  <2> DEFINE f == Opened(own[w], w)
  <2>1. f \in [Names -> Databases \cup {Absent}] /\ f["index"] \in {w, own[w]["index"]}
    BY <1>1, OpenedIs
  <2>2. \A n \in Names : f[n] = f["index"]
    BY <1>1, UniformIs DEF FilesInv, Uniform
  <2>3. own' = [own EXCEPT ![w] = f] /\ root' = root
    BY <1>3 DEF OpenStore
  <2> HIDE DEF f
  <2> QED BY <1>2, <2>1, <2>2, <2>3
<1>4. ASSUME NEW w \in Ids, Create(w)
      PROVE  /\ root' = root
             /\ \A v \in Ids : Uniform(v)'
             /\ root["index"] = Legacy => \A v \in Ids : own'[v]["index"] # Legacy
  <2> DEFINE f == Opened(NoFiles, w)
  <2>1. NoFiles \in [Names -> Databases \cup {Absent}] /\ NoFiles["index"] = Absent
        /\ \A n \in Names : NoFiles[n] \in {Absent, NoFiles["index"]}
    BY <1>1, NamesAre DEF NoFiles
  <2>2. f \in [Names -> Databases \cup {Absent}] /\ f["index"] = w
    BY <2>1, OpenedIs
  <2>3. \A n \in Names : f[n] = f["index"]
    BY <2>1, UniformIs
  <2>4. own' = [own EXCEPT ![w] = f] /\ root' = root
    BY <1>4 DEF Create
  <2> HIDE DEF f
  <2> QED BY <1>2, <2>2, <2>3, <2>4
<1>5. ASSUME NEW w \in Ids, RemoveOrphan(w) \/ Terminate(w)
      PROVE  /\ root' = root
             /\ \A v \in Ids : Uniform(v)'
             /\ root["index"] = Legacy => \A v \in Ids : own'[v]["index"] # Legacy
  <2>1. NoFiles \in [Names -> Databases \cup {Absent}] /\ NoFiles["index"] = Absent
        /\ \A n \in Names : NoFiles[n] \in {Absent, NoFiles["index"]}
    BY <1>1, NamesAre DEF NoFiles
  <2>2. own' = [own EXCEPT ![w] = NoFiles] /\ root' = root
    BY <1>5 DEF RemoveOrphan, Terminate
  <2> QED BY <1>2, <2>1, <2>2
<1>6. CASE Stop \/ RefuseStore
  <2>1. PICK closed \in SUBSET Ids :
          own' = [v \in Ids |-> IF v \in closed THEN Closed(own[v]) ELSE own[v]]
    BY <1>6, Closings
  <2>2. ASSUME NEW v \in Ids
        PROVE  Uniform(v)' /\ own'[v]["index"] = own[v]["index"]
    <3>1. own'[v] = IF v \in closed THEN Closed(own[v]) ELSE own[v]
      BY <2>1
    <3>2. \A n \in Names : own[v][n] \in {Absent, own[v]["index"]}
      BY DEF FilesInv, Uniform
    <3>3. own[v] \in [Names -> Databases \cup {Absent}]
      BY <1>1
    <3>4. \A n \in Names : Closed(own[v])[n] \in {Absent, Closed(own[v])["index"]}
      BY <3>2, <3>3, UniformIs
    <3> QED BY <3>1, <3>2, <3>3, <3>4, ClosedIs DEF Uniform
  <2>3. root' = root
    BY <1>6 DEF Stop, RefuseStore
  <2> QED BY <2>2, <2>3 DEF FilesInv
<1>7. CASE UNCHANGED <<own, root>>
  BY <1>7 DEF FilesInv, Uniform
<1> QED
  BY <1>3, <1>4, <1>5, <1>6, <1>7
  DEF Next, disk, Start, CreateDir, WriteMeta, SkipAutoCreate, PickTarget, NoTarget,
      AutoCreate, ReconcileRow, Reconciled, OrphansGone, Migrate, StoreReady, Serve, Scan,
      Pause, Crash, EditConfig, PathChanges

LEMMA HotStep ==
  ASSUME HotEdits = FALSE, BaseInv, FilesInv, Next, ~Move
  PROVE  HotInv'
<1> USE DEF BaseInv, TypeInv
<1>1. root' = root
  BY OthersKeepUniform
<1> SUFFICES ASSUME Hot
             PROVE  HotInv'
  BY <1>1 DEF HotInv, Hot
<1>2. /\ pc \in {"down", "legacy", "mkdir", "meta", "rename", "move"}
      /\ pc = "rename" => \E v \in Ids : InRows = {v}
      /\ root["index"] = Legacy =>
           /\ root["wal"] # Absent /\ config.block
           /\ InRows = {} \/ \E v \in Ids : InRows = {v}
           /\ \A v \in Ids : own[v] = NoFiles
      /\ root["index"] # Legacy =>
           \E v \in Ids : /\ InRows = {v} /\ own[v]["index"] = Legacy
                          /\ \A n \in Names : root[n] # Absent => own[v][n] = Absent
      /\ pc = "move" => \A n \in Names : root[n] # Absent => n \in Ahead(todo)
  BY DEF FilesInv, HotInv
\* The rows, the files and the block stay as they are.
<1>3. ASSUME rows' = rows, own' = own, config'.block = config.block,
             pc' \in {"down", "legacy", "mkdir", "meta", "rename", "move"},
             pc' = "rename" => \E v \in Ids : InRows = {v},
             pc' = "move" => \A n \in Names : root[n] # Absent => n \in Ahead(todo')
      PROVE  HotInv'
  <2>1. InRows' = InRows
    BY <1>3 DEF InRows
  <2> QED BY <1>1, <1>2, <1>3, <2>1 DEF HotInv
<1>4. CASE Start \/ CreateDir \/ Crash
  BY <1>3, <1>4 DEF Start, CreateDir, Crash, disk
<1>5. CASE WriteMeta
  BY <1>3, <1>5 DEF WriteMeta, StageInv
<1>6. CASE SkipAutoCreate
  <2>1. \E v \in Ids : InRows = {v}
    BY <1>2, <1>6 DEF SkipAutoCreate
  <2> QED BY <1>3, <1>6, <2>1 DEF SkipAutoCreate, disk
<1>7. ASSUME NEW v \in Ids, AutoCreate(v)
      PROVE  HotInv'
  <2>1. InRows' = {v}
    BY <1>7, OneRow
  <2>2. root["index"] = Legacy
    BY <1>2, <1>7 DEF AutoCreate
  <2>3. own' = own /\ config' = config /\ pc' = "mkdir"
    BY <1>7 DEF AutoCreate
  <2> QED BY <1>1, <1>2, <2>1, <2>2, <2>3 DEF HotInv
<1>8. CASE PickTarget
  <2>1. rows' = rows /\ own' = own /\ config' = config /\ pc' = "move" /\ todo' = Candidates
    BY <1>8 DEF PickTarget
  <2>2. Ahead(Candidates) = Names
    BY DEF Ahead, Candidates, Names
  <2> QED BY <1>3, <2>1, <2>2
<1>9. ~NoTarget
  <2>1. SUFFICES ASSUME pc = "rename"
                 PROVE  AnyLegacyPresent /\ Cardinality(InRows) = 1
    BY DEF NoTarget
  <2>2. PICK v \in Ids : InRows = {v}
    BY <1>2, <2>1
  <2>3. Cardinality(InRows) = 1
    BY <2>2, FS_Singleton
  <2> QED BY <2>3, NamesAre DEF AnyLegacyPresent, Hot
<1>10. CASE EditConfig
  <2>1. rows' = rows /\ own' = own /\ pc' = "down"
        /\ (root["wal"] # Absent => config' = [config EXCEPT !.dimension = ~config.dimension])
    BY <1>10 DEF EditConfig
  <2>2. root["wal"] # Absent => config'.block = config.block
    BY <2>1 DEF LifeType
  <2>3. InRows' = InRows
    BY <2>1 DEF InRows
  <2> QED BY <1>1, <1>2, <2>1, <2>2, <2>3 DEF HotInv
<1>11. ASSUME NEW p \in Paths, PathChanges(p)
       PROVE  HotInv'
  BY <1>2, <1>3, <1>11 DEF PathChanges
\* No other step is taken at these places.
<1>12. ~Reconciled /\ ~OrphansGone /\ ~Migrate /\ ~StoreReady /\ ~RefuseStore /\ ~Serve /\ ~Stop
  BY <1>2 DEF Reconciled, OrphansGone, Migrate, StoreReady, RefuseStore, Serve, Stop
<1>13. ASSUME NEW v \in Ids
       PROVE  /\ ~ReconcileRow(v) /\ ~RemoveOrphan(v) /\ ~OpenStore(v) /\ ~Scan(v)
              /\ ~Create(v) /\ ~Pause(v) /\ ~Terminate(v)
  BY <1>2 DEF ReconcileRow, RemoveOrphan, OpenStore, Scan, Create, Pause, Terminate, StageInv
<1> QED BY <1>4, <1>5, <1>6, <1>7, <1>8, <1>9, <1>10, <1>11, <1>12, <1>13 DEF Next

LEMMA FilesStep ==
  ASSUME HotEdits = FALSE, BaseInv, FilesInv, [Next]_vars
  PROVE  FilesInv'
<1>1. CASE UNCHANGED vars
  BY <1>1 DEF vars, disk, FilesInv, HotInv, Hot, Uniform, InRows
<1>2. CASE Move
  BY <1>2, MoveKeepsFiles
<1>3. CASE Next /\ ~Move
  BY <1>3, OthersKeepUniform, HotStep DEF FilesInv
<1> QED BY <1>1, <1>2, <1>3

\* A store in use has its directory and its files; only the steps of its own vault, a stop
\* and a kill change that.
LEMMA UseStep ==
  ASSUME BaseInv, FilesInv, UseInv, Next
  PROVE  UseInv'
<1> USE DEF BaseInv, TypeInv
<1>1. /\ own \in [Ids -> [Names -> Databases \cup {Absent}]] /\ "index" \in Names
  BY NamesAre DEF FileType
<1>2. ASSUME NEW w \in Ids, NEW f \in [Names -> Databases \cup {Absent}],
             own' = [own EXCEPT ![w] = f], dirs' = dirs \cup {w},
             \A n \in Names : f[n] = f["index"],
             \A v \in Ids : InUse(v)' => InUse(v) \/ v = w
      PROVE  UseInv'
  <2>1. \A v \in Ids : own'[v] = IF v = w THEN f ELSE own[v]
    BY <1>1, <1>2
  <2> QED BY <1>2, <2>1 DEF UseInv, Whole
<1>3. ASSUME NEW w \in Ids, OpenStore(w)
      PROVE  UseInv'
  <2> DEFINE f == Opened(own[w], w)
  <2>1. f \in [Names -> Databases \cup {Absent}] /\ \A n \in Names : f[n] = f["index"]
    BY <1>1, OpenedIs, UniformIs DEF FilesInv, Uniform
  <2>2. own' = [own EXCEPT ![w] = f] /\ dirs' = dirs \cup {w}
    BY <1>3 DEF OpenStore
  <2>3. \A v \in Ids : InUse(v)' => InUse(v) \/ v = w
    BY <1>3 DEF OpenStore, InUse
  <2> HIDE DEF f
  <2> QED BY <1>2, <2>1, <2>2, <2>3
<1>4. ASSUME NEW w \in Ids, Create(w)
      PROVE  UseInv'
  <2> DEFINE f == Opened(NoFiles, w)
  <2>1. NoFiles \in [Names -> Databases \cup {Absent}]
        /\ \A n \in Names : NoFiles[n] \in {Absent, NoFiles["index"]}
    BY NamesAre DEF NoFiles
  <2>2. f \in [Names -> Databases \cup {Absent}] /\ \A n \in Names : f[n] = f["index"]
    BY <2>1, OpenedIs, UniformIs
  <2>3. own' = [own EXCEPT ![w] = f] /\ dirs' = dirs \cup {w}
    BY <1>4 DEF Create
  <2>4. \A v \in Ids : InUse(v)' => InUse(v) \/ v = w
    BY <1>4 DEF Create, InUse
  <2> HIDE DEF f
  <2> QED BY <1>2, <2>2, <2>3, <2>4
<1>5. ASSUME NEW w \in Ids, Terminate(w)
      PROVE  UseInv'
  <2>1. \A v \in Ids : InUse(v)' => InUse(v) /\ v # w
    BY <1>5 DEF Terminate, InUse
  <2>2. \A v \in Ids : v # w => own'[v] = own[v] /\ (v \in dirs => v \in dirs')
    BY <1>1, <1>5 DEF Terminate
  <2> QED BY <2>1, <2>2 DEF UseInv, Whole
<1>6. ASSUME \A v \in Ids : InUse(v)' => InUse(v), own' = own, dirs \subseteq dirs'
      PROVE  UseInv'
  BY <1>6 DEF UseInv, Whole
<1>7. CASE StoreReady
  <2>1. PICK w \in Ids : Head(todo) = w /\ InUse(w)
    BY <1>7, OpeningIs DEF StoreReady
  <2>2. \A v \in Ids : InUse(v)' => InUse(v)
    BY <1>7, <2>1 DEF StoreReady, InUse
  <2> QED BY <1>6, <1>7, <2>2 DEF StoreReady, disk
<1>8. CASE Migrate \/ Serve \/ EditConfig
  BY <1>6, <1>8 DEF Migrate, Serve, EditConfig, InUse, disk
<1>9. ASSUME NEW w \in Ids, Scan(w) \/ Pause(w)
      PROVE  UseInv'
  BY <1>6, <1>9 DEF Scan, Pause, InUse
<1>10. ASSUME NEW p \in Paths, PathChanges(p)
       PROVE  UseInv'
  BY <1>6, <1>10 DEF PathChanges, InUse
<1>11. CASE \A v \in Ids : ~InUse(v)'
  BY <1>11 DEF UseInv
<1>12. ASSUME NEW w \in Ids, AutoCreate(w) \/ ReconcileRow(w) \/ RemoveOrphan(w)
       PROVE  UseInv'
  BY <1>11, <1>12 DEF AutoCreate, ReconcileRow, RemoveOrphan, InUse, StageInv
<1>13. CASE Start \/ CreateDir \/ WriteMeta \/ SkipAutoCreate \/ PickTarget \/ NoTarget
            \/ Move \/ Reconciled
  BY <1>11, <1>13 DEF Start, CreateDir, WriteMeta, SkipAutoCreate, PickTarget, NoTarget, Move,
                      Reconciled, InUse, StageInv, disk
<1>14. CASE OrphansGone
  <2>1. todo' = <<>> /\ open' = {}
    BY <1>14 DEF OrphansGone, StageInv
  <2>2. \A v \in Ids : ~InUse(v)'
    BY <2>1 DEF InUse
  <2> QED BY <1>11, <2>2
<1>15. CASE RefuseStore \/ Stop \/ Crash
  BY <1>11, <1>15 DEF RefuseStore, Stop, Crash, InUse
<1> QED BY <1>3, <1>4, <1>5, <1>7, <1>8, <1>9, <1>10, <1>12, <1>13, <1>14, <1>15 DEF Next

\* When a store is opened, and as long as it is open, its directory holds all parts of one
\* database and none is left where v0 kept it, whichever of the three renames a kill came
\* between and however often the pass was repeated (rename_legacy_files_into_vault); unless
\* the block was taken out of the configuration before a v0 database with a -wal was moved.
THEOREM StoresOpenWhole ==
  ASSUME HotEdits = FALSE
  PROVE  Spec => []StoreWhole
<1>1. BaseInv /\ FilesInv /\ UseInv /\ [Next]_vars => FilesInv' /\ UseInv'
  <2> SUFFICES ASSUME BaseInv, FilesInv, UseInv, [Next]_vars
               PROVE  FilesInv' /\ UseInv'
    OBVIOUS
  <2>1. CASE UNCHANGED vars
    BY <2>1, FilesStep DEF vars, disk, UseInv, InUse, Whole
  <2>2. CASE Next
    BY <2>2, UseStep, FilesStep
  <2> QED BY <2>1, <2>2
<1>2. BaseInv /\ FilesInv /\ UseInv => StoreWhole
  <2> SUFFICES ASSUME BaseInv, FilesInv, UseInv,
                      NEW v \in open \cup (IF pc = "open" THEN Visited ELSE {})
               PROVE  /\ v \in dirs
                      /\ \A n \in Names : own[v][n] = own[v]["index"]
                      /\ \A n \in Names : root[n] # own[v]["index"]
    BY DEF StoreWhole
  <2>1. v \in Ids /\ InUse(v) /\ pc \in {"open", "serving"}
    <3>1. CASE v \in open
      BY <3>1 DEF InUse, BaseInv, TypeInv, LifeType, StageInv
    <3>2. CASE v \notin open
      <4>1. pc = "open" /\ v \in Visited
        BY <3>2
      <4>2. PICK w \in Ids : todo = <<>> \/ todo = <<w>>
        BY <4>1 DEF BaseInv, StageInv, Visited
      <4>3. v = w /\ todo = <<w>>
        BY <4>1, <4>2 DEF Visited
      <4> QED BY <4>1, <4>3 DEF InUse
    <3> QED BY <3>1, <3>2
  <2>2. ~Hot /\ own[v]["index"] # Absent
    BY <2>1 DEF FilesInv, HotInv, BaseInv, MainInv
  <2>3. \A n \in Names : root[n] \in {Legacy, Absent} /\ (root[n] # Absent => n = "index")
    BY <2>2, NamesAre DEF BaseInv, TypeInv, FileType, Hot
  <2>4. root["index"] = Legacy => own[v]["index"] # Legacy
    BY <2>1 DEF FilesInv
  <2> QED BY <2>1, <2>2, <2>3, <2>4 DEF UseInv, Whole
<1> QED BY <1>1, <1>2, FilesInit, BaseAlways, PTL DEF Spec
=============================================================================

-------------------------- MODULE VaultIndexProofs --------------------------
(***************************************************************************)
(* Theorems about VaultIndex, for every set of paths and bodies, every     *)
(* channel capacity and every bound.  TypeCorrect and                      *)
(* ChunksAlwaysFollowHash hold for any number of blocking calls that       *)
(* outlive their task.  The others hold as long as none does: text, rows   *)
(* and live events agree, the index refines AnnouncedIndex, and no update  *)
(* is lost.                                                                *)
(*                                                                         *)
(* That no call is detached is a hypothesis about the behaviour,           *)
(* [](orphans = {}), and about nothing else: tasks still fail, are         *)
(* cancelled, aborted and killed at every step, and restarted.             *)
(*                                                                         *)
(* The stat gate, and with it the last of these results, needs a second:   *)
(* every change of a file gives it an mtime of its own (FreshMtimes; that  *)
(* a restored file does not is why the constant exists).                   *)
(***************************************************************************)
EXTENDS VaultIndex, FiniteSetTheorems, TLAPS

EnvInv   == disk \in [Paths -> Files \cup {Absent}] /\ clock \in Nat
WatchInv == /\ watching \in BOOLEAN
            /\ pending \in [Paths -> Seq(Events)]
            /\ chan \in Seq([kind : Events, path : Paths])
            /\ Len(chan) <= Buffer
LifeInv  == /\ phase \in Phases
            /\ stopping \in BOOLEAN /\ skip \in BOOLEAN /\ rescan \in BOOLEAN
GhostInv == view \in [Paths -> Hashes \cup {Absent}] /\ excused \subseteq Paths
BoundInv == faults \in Nat /\ ops \in Nat

StoreInv ==
    /\ files \in [Paths -> Rows \cup {Absent}]
    /\ chunks \in [Paths -> Bodies \cup {Absent}]
    /\ fts \in [Paths -> Bodies \cup {Absent}]

\* A task works on a path of the vault, and what it is about to write was read
\* from a file.
WorkInv ==
    /\ pc \in PCs /\ job \in Jobs /\ todo \subseteq Jobs /\ gone \subseteq Paths
    /\ pc \in {"stat", "decide", "embed", "write", "remove", "publish"}
          => job.path \in Paths
    /\ pc \in {"embed", "write"} => job.hash \in Bodies
    /\ pc = "publish" => job.hash \in Hashes
    /\ \A j \in todo : j.path \in Paths

\* So does every blocking call a cancelled task left behind.
OrphanInv ==
    /\ orphans \subseteq [pc : PCs, job : Jobs, gone : SUBSET Paths]
    /\ \A o \in orphans :
          /\ o.pc \in {"decide", "write", "remove", "sweep"}
          /\ o.pc # "sweep" => o.job.path \in Paths
          /\ o.pc = "write" => o.job.hash \in Bodies

TypeInv == /\ EnvInv /\ StoreInv /\ WatchInv /\ LifeInv
           /\ WorkInv /\ OrphanInv /\ GhostInv /\ BoundInv

LEMMA TypeInvIsTypeOK == TypeInv => TypeOK
<1> QED BY DEF TypeInv, EnvInv, StoreInv, WatchInv, LifeInv, WorkInv, OrphanInv,
               GhostInv, BoundInv, TypeOK

-----------------------------------------------------------------------------
(* The transactions keep the tables well-formed and the chunks in step     *)
(* with the rows.                                                          *)

\* write_blocking writes one whole version of one file.
LEMMA WriteTxKeeps ==
    ASSUME StoreInv, NEW j \in Jobs, j.path \in Paths, j.hash \in Bodies,
           WriteTx(j)
    PROVE  StoreInv' /\ (ChunksFollowHash => ChunksFollowHash')
<1> DEFINE r == [mtime |-> j.mtime, size |-> j.size,
                 hash |-> j.hash, content |-> j.hash]
<1>1. r \in Rows /\ r.hash = j.hash
  BY DEF Rows, Jobs, Hashes
<1>2. /\ files' = [files EXCEPT ![j.path] = r]
      /\ chunks' = [chunks EXCEPT ![j.path] = j.hash]
      /\ fts' = [fts EXCEPT ![j.path] = j.hash]
  BY DEF WriteTx, RewriteChunks
<1> HIDE DEF r
<1>3. StoreInv'
  BY <1>1, <1>2 DEF StoreInv
<1>4. ChunksFollowHash => ChunksFollowHash'
  BY <1>1, <1>2, MarkAssumption, AbsentAssumption
     DEF StoreInv, ChunksFollowHash
<1> QED BY <1>3, <1>4

\* The mtime-only update touches neither a hash nor a chunk.
LEMMA TouchTxKeeps ==
    ASSUME StoreInv, NEW j \in Jobs, j.path \in Paths, NEW b \in Bodies,
           TouchTx(j, b)
    PROVE  StoreInv' /\ (ChunksFollowHash => ChunksFollowHash')
<1> DEFINE r == [files[j.path] EXCEPT !.mtime = j.mtime, !.content = b]
<1>1. ASSUME files[j.path] # Absent
      PROVE  r \in Rows /\ r.hash = files[j.path].hash
  <2>1. files[j.path] \in Rows
    BY <1>1 DEF StoreInv
  <2> QED BY <2>1 DEF Rows, Jobs
<1>2. /\ files' = [files EXCEPT ![j.path] =
                      IF files[j.path] = Absent THEN Absent ELSE r]
      /\ chunks' = chunks /\ fts' = fts
  BY DEF TouchTx, StoreInv
<1> HIDE DEF r
<1>3. StoreInv'
  BY <1>1, <1>2 DEF StoreInv
<1>4. ChunksFollowHash => ChunksFollowHash'
  BY <1>1, <1>2, AbsentAssumption DEF StoreInv, ChunksFollowHash
<1> QED BY <1>3, <1>4

\* delete_file_in_tx removes all there is of a file.
LEMMA DropTxKeeps ==
    ASSUME StoreInv, NEW S, DropTx(S)
    PROVE  StoreInv' /\ (ChunksFollowHash => ChunksFollowHash')
<1>1. StoreInv'
  BY DEF StoreInv, DropTx
<1>2. ChunksFollowHash => ChunksFollowHash'
  BY DEF StoreInv, DropTx, ChunksFollowHash
<1> QED BY <1>1, <1>2

\* run_rebuild_sql leaves the sentinel in every row and no chunk.
LEMMA RebuildKeeps ==
    ASSUME StoreInv, Rebuild
    PROVE  StoreInv' /\ ChunksFollowHash'
<1> DEFINE row(p) == [files[p] EXCEPT !.hash = Sentinel]
<1>1. ASSUME NEW p \in Paths, files[p] # Absent
      PROVE  row(p) \in Rows /\ row(p).hash = Sentinel
  <2>1. files[p] \in Rows
    BY <1>1 DEF StoreInv
  <2> QED BY <2>1 DEF Rows, Hashes
<1>2. /\ files' = [p \in Paths |-> IF files[p] = Absent THEN Absent ELSE row(p)]
      /\ chunks' = [p \in Paths |-> Absent] /\ fts' = fts
  BY DEF Rebuild
<1> HIDE DEF row
<1>3. StoreInv'
  BY <1>1, <1>2 DEF StoreInv
<1>4. ChunksFollowHash'
  BY <1>1, <1>2 DEF ChunksFollowHash
<1> QED BY <1>3, <1>4

\* A detached call commits the same transactions, whenever it lands.
LEMMA OrphanKeeps ==
    ASSUME EnvInv, StoreInv, OrphanInv, NEW o \in orphans, OrphanLands(o)
    PROVE  StoreInv' /\ (ChunksFollowHash => ChunksFollowHash')
<1>1. /\ o.job \in Jobs
      /\ o.pc # "sweep" => o.job.path \in Paths
      /\ o.pc = "write" => o.job.hash \in Bodies
  BY DEF OrphanInv
<1>2. CASE /\ o.pc = "decide" /\ HashMatches(o.job)
           /\ TouchTx(o.job, disk[o.job.path].body)
  <2>1. o.job.path \in Paths
    BY <1>1, <1>2
  <2>2. disk[o.job.path].body \in Bodies
    BY <1>2, <2>1 DEF HashMatches, EnvInv, Files
  <2> QED BY <1>1, <1>2, <2>1, <2>2, TouchTxKeeps
<1>3. CASE UNCHANGED store
  BY <1>3 DEF store, StoreInv, ChunksFollowHash
<1>4. CASE o.pc = "write" /\ WriteTx(o.job)
  BY <1>1, <1>4, WriteTxKeeps
<1>5. CASE DropTx({o.job.path}) \/ DropTx(o.gone)
  BY <1>5, DropTxKeeps
<1> QED BY <1>2, <1>3, <1>4, <1>5 DEF OrphanLands

-----------------------------------------------------------------------------
(* The ends of a turn and of a lifecycle.                                  *)

LEMMA NoJobIsJob == NoJob \in Jobs
<1> QED BY DEF NoJob, Jobs, Kinds

LEMMA JobForIsJob ==
    ASSUME NEW p \in Paths
    PROVE  JobFor(p) \in Jobs /\ JobFor(p).path = p
<1> QED BY DEF JobFor, NoJob, Jobs, Kinds

LEMMA NothingQueued ==
    ASSUME pending = [p \in Paths |-> <<>>], chan = <<>>, watching \in BOOLEAN
    PROVE  WatchInv
<1>1. <<>> \in Seq(Events) /\ <<>> \in Seq([kind : Events, path : Paths])
  OBVIOUS
<1>2. Len(<<>>) = 0
  OBVIOUS
<1>3. pending \in [Paths -> Seq(Events)]
  BY <1>1
<1>4. Len(chan) <= Buffer
  BY <1>2, BufferAssumption
<1> QED BY <1>1, <1>3, <1>4 DEF WatchInv

LEMMA UnloadKeeps ==
    ASSUME NEW next \in Phases, Unload(next), skip' \in BOOLEAN
    PROVE  WatchInv' /\ LifeInv' /\ WorkInv' /\ GhostInv'
<1>1. WatchInv'
  <2>1. watching' = FALSE /\ pending' = [p \in Paths |-> <<>>] /\ chan' = <<>>
    BY DEF Unload, ClearWatch
  <2>2. <<>> \in Seq(Events) /\ <<>> \in Seq([kind : Events, path : Paths])
    OBVIOUS
  <2>3. watching' \in BOOLEAN /\ pending' \in [Paths -> Seq(Events)]
    BY <2>1, <2>2
  <2>4. Len(chan') <= Buffer
    BY <2>1, BufferAssumption
  <2> HIDE DEF Events
  <2>5. chan' \in Seq([kind : Events, path : Paths])
    BY <2>1, <2>2, Zenon
  <2> QED BY <2>3, <2>4, <2>5 DEF WatchInv
<1>2. LifeInv'
  BY DEF Unload, LifeInv
<1>3. WorkInv'
  BY NoJobIsJob DEF Unload, ClearWork, FinishJob, WorkInv, PCs
<1>4. GhostInv'
  BY DEF Unload, GhostInv
<1> QED BY <1>1, <1>2, <1>3, <1>4

LEMMA EndQuietlyKeeps ==
    ASSUME WatchInv, LifeInv, WorkInv, GhostInv, skip' = skip,
           NEW S \in SUBSET Paths, EndQuietly(S)
    PROVE  WatchInv' /\ LifeInv' /\ WorkInv' /\ GhostInv'
<1>1. WatchInv'
  BY DEF EndQuietly, watch, WatchInv
<1>2. LifeInv'
  BY DEF EndQuietly, LifeInv
<1>3. WorkInv'
  BY NoJobIsJob DEF EndQuietly, FinishJob, WorkInv, PCs
<1>4. GhostInv'
  BY DEF EndQuietly, GhostInv
<1> QED BY <1>1, <1>2, <1>3, <1>4

LEMMA FailJobKeeps ==
    ASSUME WatchInv, LifeInv, WorkInv, GhostInv, skip' = skip,
           NEW S \in SUBSET Paths, FailJob(S)
    PROVE  WatchInv' /\ LifeInv' /\ WorkInv' /\ GhostInv'
<1>1. CASE Unload("errored")
  BY <1>1, UnloadKeeps DEF LifeInv, Phases
<1>2. CASE EndQuietly(S)
  BY <1>2, EndQuietlyKeeps
<1> QED BY <1>1, <1>2 DEF FailJob, EndQuietly

LEMMA LeaveBehindKeeps ==
    ASSUME WorkInv, OrphanInv, LeaveBehind
    PROVE  OrphanInv'
<1> DEFINE o == [pc |-> pc, job |-> job, gone |-> gone]
<1>1. CASE UNCHANGED orphans
  BY <1>1 DEF OrphanInv
<1>2. CASE /\ pc \in {"decide", "write", "remove", "sweep"}
           /\ orphans' = orphans \cup {o}
  <2>1. o \in [pc : PCs, job : Jobs, gone : SUBSET Paths]
    BY DEF WorkInv
  <2>2. /\ o.pc \in {"decide", "write", "remove", "sweep"}
        /\ o.pc # "sweep" => o.job.path \in Paths
        /\ o.pc = "write" => o.job.hash \in Bodies
    BY <1>2 DEF WorkInv
  <2> QED BY <1>2, <2>1, <2>2 DEF OrphanInv
<1> QED BY <1>1, <1>2 DEF LeaveBehind

-----------------------------------------------------------------------------
\* The vault starts empty, unwatched and without tasks.
LEMMA TypeInit == Init => TypeInv
<1> SUFFICES ASSUME Init PROVE TypeInv
  OBVIOUS
<1>1. EnvInv
  BY DEF Init, EnvInv, Files
<1>2. StoreInv
  BY DEF Init, StoreInv
<1>3. WatchInv
  BY NothingQueued DEF Init
<1>4. LifeInv /\ BoundInv
  BY DEF Init, LifeInv, Phases, BoundInv
<1>5. WorkInv
  BY NoJobIsJob DEF Init, WorkInv, PCs
<1>6. OrphanInv /\ GhostInv
  BY DEF Init, OrphanInv, GhostInv
<1> QED BY <1>1, <1>2, <1>3, <1>4, <1>5, <1>6 DEF TypeInv

-----------------------------------------------------------------------------
(* Every step keeps the types: one lemma per group of actions.             *)

\* The debouncer keeps what is needed to deliver the final state of a path.
LEMMA CoalesceEnds ==
    ASSUME NEW q \in Seq(Events), NEW kind \in Events
    PROVE  /\ Coalesce(q, kind) \in Seq(Events) /\ Coalesce(q, kind) # <<>>
           /\ Coalesce(q, kind)[Len(Coalesce(q, kind))] = kind
<1>1. CASE kind = "remove"
  <2>1. Coalesce(q, kind) = <<"remove">>
    BY <1>1 DEF Coalesce
  <2>2. <<"remove">> \in Seq(Events) /\ Len(<<"remove">>) = 1
    BY DEF Events
  <2>3. <<"remove">> # <<>> /\ <<"remove">>[1] = "remove"
    OBVIOUS
  <2> QED BY <1>1, <2>1, <2>2, <2>3
<1>2. CASE kind = "upsert" /\ q # <<>> /\ q[Len(q)] = "upsert"
  <2>1. Coalesce(q, kind) = q
    BY <1>2 DEF Coalesce
  <2> QED BY <1>2, <2>1
<1>3. CASE kind = "upsert" /\ ~(q # <<>> /\ q[Len(q)] = "upsert")
  <2>1. Coalesce(q, kind) = Append(q, "upsert")
    BY <1>3 DEF Coalesce
  <2> QED BY <1>3, <2>1
<1> QED BY <1>1, <1>2, <1>3 DEF Events

LEMMA EnvironmentType ==
    ASSUME TypeInv, Environment
    PROVE  TypeInv'
<1> USE DEF TypeInv
<1>1. ASSUME NEW p \in Paths, NEW kind \in Events,
             Notify(p, kind) \/ NotifyNobody(p), UNCHANGED <<watching, chan, view>>
      PROVE  WatchInv' /\ GhostInv'
  <2>2. pending[p] \in Seq(Events)
    BY DEF WatchInv
  <2>1. Coalesce(pending[p], kind) \in Seq(Events)
    BY <2>2, CoalesceEnds
  <2>3. pending' \in [Paths -> Seq(Events)]
    <3>1. CASE Notify(p, kind)
      BY <2>1, <2>2, <3>1 DEF Notify, WatchInv
    <3>2. CASE NotifyNobody(p)
      <4>1. <<>> \in Seq(Events)
        OBVIOUS
      <4> QED BY <3>2, <4>1 DEF NotifyNobody, WatchInv
    <3> QED BY <1>1, <3>1, <3>2
  <2>4. WatchInv'
    BY <1>1, <2>3 DEF WatchInv
  <2>5. GhostInv'
    BY <1>1 DEF Notify, NotifyNobody, GhostInv
  <2> QED BY <2>4, <2>5
<1>2. ASSUME NEW p \in Paths, NEW b \in Bodies, WriteFile(p, b)
      PROVE  TypeInv'
  <2>1. PICK t \in IF FreshMtimes THEN {clock + 1} ELSE 0 .. clock + 1 :
               disk' = [disk EXCEPT ![p] = [mtime |-> t, body |-> b]]
    BY <1>2 DEF WriteFile
  <2>2. t \in Nat
    BY <2>1 DEF EnvInv
  <2>4. [mtime |-> t, body |-> b] \in Files
    BY <2>2 DEF Files
  <2>5. EnvInv'
    BY <1>2, <2>1, <2>4 DEF WriteFile, EnvInv
  <2>3. WatchInv' /\ GhostInv'
    BY <1>1, <1>2 DEF WriteFile, Events
  <2> QED BY <1>2, <2>3, <2>5 DEF WriteFile, store, life, work, bounds, StoreInv,
             LifeInv, WorkInv, OrphanInv, BoundInv
<1>3. ASSUME NEW p \in Paths, DeleteFile(p)
      PROVE  TypeInv'
  <2>1. EnvInv'
    BY <1>3 DEF DeleteFile, EnvInv
  <2>3. PICK kind \in Events : Notify(p, kind) \/ NotifyNobody(p)
    BY <1>3 DEF DeleteFile, Events
  <2>4. UNCHANGED <<watching, chan, view>>
    BY <1>3 DEF DeleteFile
  <2>2. WatchInv' /\ GhostInv'
    BY <1>1, <2>3, <2>4
  <2> QED BY <1>3, <2>1, <2>2 DEF DeleteFile, store, life, work, bounds,
             StoreInv, LifeInv, WorkInv, OrphanInv, BoundInv
<1>4. ASSUME NEW p \in Paths, TouchFile(p)
      PROVE  TypeInv'
  <2>1. disk[p] \in Files
    BY <1>4 DEF TouchFile, EnvInv
  <2>2. EnvInv'
    BY <1>4, <2>1 DEF TouchFile, EnvInv, Files
  <2> QED BY <1>4, <2>2 DEF TouchFile, store, watch, life, work, ghost, bounds,
             StoreInv, WatchInv, LifeInv, WorkInv, OrphanInv, GhostInv, BoundInv
<1> QED BY <1>2, <1>3, <1>4 DEF Environment

LEMMA SendEventType ==
    ASSUME TypeInv, NEW p \in Paths, SendEvent(p)
    PROVE  TypeInv'
<1> USE DEF TypeInv
<1>1. pending[p] \in Seq(Events) /\ pending[p] # <<>>
  BY DEF SendEvent, WatchInv
<1>2. Head(pending[p]) \in Events /\ Tail(pending[p]) \in Seq(Events)
  BY <1>1
<1>3. [kind |-> Head(pending[p]), path |-> p] \in [kind : Events, path : Paths]
  BY <1>2
<1>4. chan' \in Seq([kind : Events, path : Paths]) /\ Len(chan') = Len(chan) + 1
  BY <1>3 DEF SendEvent, WatchInv
<1>5. Len(chan') <= Buffer
  BY <1>4, BufferAssumption DEF SendEvent, WatchInv
<1>6. WatchInv'
  BY <1>2, <1>4, <1>5 DEF SendEvent, WatchInv
<1> QED BY <1>6 DEF SendEvent, env, store, life, work, ghost, bounds, EnvInv,
           StoreInv, LifeInv, WorkInv, OrphanInv, GhostInv, BoundInv

LEMMA HiddenIsFinite ==
    ASSUME EnvInv, BoundInv, NEW h \in Hidden
    PROVE  h \subseteq Paths /\ Cardinality(h) \in Nat
<1>1. h \subseteq Paths
  BY DEF Hidden, OnDisk
<1>2. IsFiniteSet(h)
  BY <1>1, PathsAssumption, FS_Subset
<1> QED BY <1>1, <1>2, FS_CardinalityType

LEMMA SumIsNat ==
    ASSUME NEW m \in Nat, NEW n \in Nat
    PROVE  m + n \in Nat
<1> QED OBVIOUS

LEMMA BootstrapType ==
    ASSUME TypeInv, Bootstrap
    PROVE  TypeInv'
<1> USE DEF TypeInv
<1>1. CASE Start
  BY <1>1 DEF Start, env, store, watch, ghost, bounds, EnvInv, StoreInv,
     WatchInv, LifeInv, WorkInv, OrphanInv, GhostInv, BoundInv, Phases, PCs
<1>2. ASSUME NEW h \in Hidden, ScanWalk(h)
      PROVE  TypeInv'
  <2> DEFINE entry(p) == [JobFor(p) EXCEPT !.mtime = disk[p].mtime,
                                           !.size = Size[disk[p].body],
                                           !.prior = files[p]]
  <2>1. todo' = {entry(p) : p \in OnDisk \ h} /\ gone' \subseteq Paths
    BY <1>2 DEF ScanWalk, InRows
  <2>2. ASSUME NEW p \in OnDisk
        PROVE  entry(p) \in Jobs /\ entry(p).path \in Paths
    <3>1. p \in Paths /\ disk[p] \in Files
      BY DEF OnDisk, EnvInv
    <3>2. disk[p].mtime \in Nat /\ Size[disk[p].body] \in Nat
      BY <3>1, SizeAssumption DEF Files
    <3>3. files[p] \in Rows \cup {Absent}
      BY <3>1 DEF StoreInv
    <3> QED BY <3>1, <3>2, <3>3, JobForIsJob DEF Jobs
  <2> HIDE DEF entry
  <2>3. WorkInv'
    BY <1>2, <2>1, <2>2 DEF ScanWalk, WorkInv, PCs
  <2>4. h \subseteq Paths /\ Cardinality(h) \in Nat
    BY HiddenIsFinite
  <2>5. GhostInv'
    BY <1>2, <2>4 DEF ScanWalk, GhostInv
  <2>6. BoundInv'
    <3>1. faults' = faults + Cardinality(h) /\ ops' = ops
      BY <1>2 DEF ScanWalk
    <3> QED BY <2>4, <3>1, SumIsNat DEF BoundInv
  <2> QED BY <1>2, <2>3, <2>5, <2>6 DEF ScanWalk, env, store, watch, life, EnvInv,
             StoreInv, WatchInv, LifeInv, OrphanInv
<1>3. CASE ScanNext
  BY <1>3 DEF ScanNext, env, store, watch, life, ghost, bounds, EnvInv, StoreInv,
     WatchInv, LifeInv, WorkInv, OrphanInv, GhostInv, BoundInv, PCs
<1>4. CASE ScanDone
  BY <1>4 DEF ScanDone, env, store, watch, life, ghost, bounds, EnvInv, StoreInv,
     WatchInv, LifeInv, WorkInv, OrphanInv, GhostInv, BoundInv, PCs
<1>5. CASE Sweep
  <2>1. StoreInv'
    BY <1>5, DropTxKeeps DEF Sweep
  <2> QED BY <1>5, <2>1 DEF Sweep, env, watch, life, ghost, bounds, EnvInv,
             WatchInv, LifeInv, WorkInv, OrphanInv, GhostInv, BoundInv, PCs
<1>6. CASE Register
  <2>1. GhostInv'
    BY <1>6 DEF Register, HashOf, GhostInv, StoreInv, Rows
  <2> QED BY <1>6, <2>1 DEF Register, env, store, bounds, EnvInv, StoreInv,
             WatchInv, LifeInv, WorkInv, OrphanInv, BoundInv, PCs, Phases
<1> QED BY <1>1, <1>2, <1>3, <1>4, <1>5, <1>6 DEF Bootstrap

LEMMA ConsumerType ==
    ASSUME TypeInv, Consumer
    PROVE  TypeInv'
<1> USE DEF TypeInv
<1>1. ASSUME NEW h \in Hidden, RescanWalk(h)
      PROVE  TypeInv'
  <2>1. \A p \in OnDisk \ h : JobFor(p) \in Jobs /\ JobFor(p).path \in Paths
    BY JobForIsJob DEF OnDisk
  <2>2. WorkInv'
    BY <1>1, <2>1 DEF RescanWalk, ConsumerIdle, WorkInv, PCs
  <2>3. Cardinality(h) \in Nat
    BY HiddenIsFinite
  <2>4. BoundInv'
    <3>1. faults' = faults + Cardinality(h) /\ ops' = ops
      BY <1>1 DEF RescanWalk
    <3> QED BY <2>3, <3>1, SumIsNat DEF BoundInv
  <2>5. LifeInv'
    BY <1>1 DEF RescanWalk, LifeInv
  <2> QED BY <1>1, <2>2, <2>4, <2>5 DEF RescanWalk, env, store, watch, ghost, EnvInv,
             StoreInv, WatchInv, OrphanInv, GhostInv
<1>2. CASE Receive
  <2> DEFINE Messages == [kind : Events, path : Paths]
  <2>5. chan \in Seq(Messages) /\ chan # <<>> /\ Len(chan) <= Buffer
    BY <1>2 DEF Receive, WatchInv
  <2> HIDE DEF Messages
  <2>6. /\ Head(chan) \in Messages /\ Tail(chan) \in Seq(Messages)
        /\ Len(Tail(chan)) = Len(chan) - 1 /\ Len(chan) \in Nat
    BY <2>5
  <2>1. /\ Head(chan) \in [kind : Events, path : Paths]
        /\ Tail(chan) \in Seq([kind : Events, path : Paths])
        /\ Len(Tail(chan)) <= Buffer
    BY <2>5, <2>6, BufferAssumption DEF Messages
  <2>2. Head(chan).path \in Paths
    BY <2>1
  <2>3. WatchInv'
    BY <1>2, <2>1 DEF Receive, WatchInv
  <2>4. WorkInv'
    BY <1>2, <2>2, JobForIsJob DEF Receive, ConsumerIdle, WorkInv, PCs
  <2> QED BY <1>2, <2>3, <2>4 DEF Receive, env, store, life, ghost, bounds,
             EnvInv, StoreInv, LifeInv, OrphanInv, GhostInv, BoundInv
<1>3. CASE RescanNext
  BY <1>3 DEF RescanNext, env, store, watch, life, ghost, bounds, EnvInv,
     StoreInv, WatchInv, LifeInv, WorkInv, OrphanInv, GhostInv, BoundInv, PCs
<1>4. CASE Stat
  <2>1. WorkInv'
    <3>1. job.path \in Paths
      BY <1>4 DEF Stat, WorkInv
    <3>2. CASE disk[job.path] = Absent
      BY <1>4, <3>1, <3>2 DEF Stat, WorkInv, PCs
    <3>3. CASE disk[job.path] # Absent
      <4>1. disk[job.path] \in Files /\ files[job.path] \in Rows \cup {Absent}
        BY <3>1, <3>3 DEF EnvInv, StoreInv
      <4>2. /\ disk[job.path].mtime \in Nat
            /\ Size[disk[job.path].body] \in Nat
        BY <4>1, SizeAssumption DEF Files
      <4>3. job' \in Jobs /\ job'.path = job.path
        BY <1>4, <3>3, <4>1, <4>2 DEF Stat, WorkInv, Jobs
      <4> QED BY <1>4, <3>1, <3>3, <4>3 DEF Stat, WorkInv, PCs
    <3> QED BY <3>2, <3>3
  <2> QED BY <1>4, <2>1 DEF Stat, env, store, watch, life, bounds, EnvInv,
             StoreInv, WatchInv, LifeInv, OrphanInv, GhostInv, BoundInv
<1>5. CASE Remove
  <2>1. StoreInv'
    BY <1>5, DropTxKeeps DEF Remove
  <2>2. job.path \in Paths
    BY <1>5 DEF Remove, WorkInv
  <2>3. WorkInv'
    <3>1. CASE files[job.path] = Absent
      BY <1>5, <3>1, NoJobIsJob DEF Remove, FinishJob, WorkInv, PCs
    <3>2. CASE files[job.path] # Absent
      <4>1. files[job.path].hash \in Hashes
        BY <2>2, <3>2 DEF StoreInv, Rows
      <4>2. job' \in Jobs /\ job'.path = job.path /\ job'.hash \in Hashes
        BY <1>5, <3>2, <4>1 DEF Remove, WorkInv, Jobs, Kinds
      <4> QED BY <1>5, <2>2, <3>2, <4>2 DEF Remove, WorkInv, PCs
    <3> QED BY <3>1, <3>2
  <2> QED BY <1>5, <2>1, <2>3 DEF Remove, env, watch, life, ghost, bounds,
             EnvInv, WatchInv, LifeInv, OrphanInv, GhostInv, BoundInv
<1>6. CASE Publish
  <2>1. GhostInv'
    BY <1>6 DEF Publish, WorkInv, GhostInv
  <2>2. WorkInv'
    BY <1>6, NoJobIsJob DEF Publish, FinishJob, WorkInv, PCs
  <2> QED BY <1>6, <2>1, <2>2 DEF Publish, env, store, watch, life, bounds,
             EnvInv, StoreInv, WatchInv, LifeInv, OrphanInv, BoundInv
<1> QED BY <1>1, <1>2, <1>3, <1>4, <1>5, <1>6 DEF Consumer

LEMMA ReadBody ==
    ASSUME EnvInv, NEW p \in Paths, disk[p] # Absent
    PROVE  disk[p].body \in Bodies
<1> QED BY DEF EnvInv, Files

LEMMA PipelineType ==
    ASSUME TypeInv, Pipeline
    PROVE  TypeInv'
<1> USE DEF TypeInv
<1>1. CASE Decide
  <2>1. job.path \in Paths /\ job \in Jobs
    BY <1>1 DEF Decide, WorkInv
  <2>2. EnvInv' /\ OrphanInv' /\ BoundInv' /\ skip' = skip
    BY <1>1 DEF Decide, env, bounds, EnvInv, OrphanInv, BoundInv
  <2>3. CASE EndQuietly({}) /\ UNCHANGED store
    BY <2>2, <2>3, EndQuietlyKeeps DEF store, StoreInv
  <2>4. CASE FailJob({}) /\ UNCHANGED store
    BY <2>2, <2>4, FailJobKeeps DEF store, StoreInv
  <2>5. CASE HashMatches(job) /\ TouchTx(job, disk[job.path].body) /\ EndQuietly({})
    <3>1. disk[job.path].body \in Bodies
      BY <2>1, <2>5, ReadBody DEF HashMatches
    <3>2. StoreInv'
      BY <2>1, <2>5, <3>1, TouchTxKeeps
    <3> QED BY <2>2, <2>5, <3>2, EndQuietlyKeeps
  <2>6. CASE /\ disk[job.path] # Absent
             /\ job' = [job EXCEPT !.hash = disk[job.path].body]
             /\ pc' = "embed"
             /\ UNCHANGED <<store, phase, stopping, rescan, watch, todo, gone,
                            ghost>>
    <3>1. disk[job.path].body \in Bodies
      BY <2>1, <2>6, ReadBody
    <3>2. job' \in Jobs /\ job'.path = job.path /\ job'.hash \in Bodies
      BY <2>1, <2>6, <3>1 DEF Jobs, Hashes
    <3>3. WorkInv'
      BY <2>1, <2>6, <3>2 DEF WorkInv, PCs
    <3> QED BY <2>2, <2>6, <3>3 DEF store, watch, ghost, StoreInv, WatchInv,
               LifeInv, GhostInv
  <2> QED BY <1>1, <2>3, <2>4, <2>5, <2>6 DEF Decide
<1>2. CASE Embed
  BY <1>2 DEF Embed, env, store, watch, life, ghost, bounds, EnvInv, StoreInv,
     WatchInv, LifeInv, WorkInv, OrphanInv, GhostInv, BoundInv, PCs
<1>3. CASE Write
  <2>1. job.path \in Paths /\ job \in Jobs /\ job.hash \in Bodies
    BY <1>3 DEF Write, WorkInv
  <2>2. EnvInv' /\ OrphanInv' /\ BoundInv' /\ skip' = skip
    BY <1>3 DEF Write, env, bounds, EnvInv, OrphanInv, BoundInv
  <2>3. CASE FailJob({job.path}) /\ UNCHANGED store
    BY <2>1, <2>2, <2>3, FailJobKeeps DEF store, StoreInv
  <2>4. CASE WriteTx(job) /\ EndQuietly({})
    BY <2>1, <2>2, <2>4, WriteTxKeeps, EndQuietlyKeeps
  <2>5. CASE /\ WriteTx(job)
             /\ pc' = "publish"
             /\ job' = [job EXCEPT !.event = IF job.prior = Absent
                                             THEN "created" ELSE "modified"]
             /\ UNCHANGED <<phase, stopping, rescan, watch, todo, gone, ghost>>
    <3>1. job' \in Jobs /\ job'.path = job.path /\ job'.hash = job.hash
      BY <2>1, <2>5 DEF Jobs, Kinds
    <3>2. WorkInv'
      BY <2>1, <2>5, <3>1 DEF WorkInv, PCs, Hashes
    <3>3. StoreInv'
      BY <2>1, <2>5, WriteTxKeeps
    <3> QED BY <2>2, <2>5, <3>2, <3>3 DEF watch, ghost, WatchInv, LifeInv,
               GhostInv
  <2> QED BY <1>3, <2>3, <2>4, <2>5 DEF Write
<1> QED BY <1>1, <1>2, <1>3 DEF Pipeline

LEMMA FailureType ==
    ASSUME TypeInv, Failure
    PROVE  TypeInv'
<1> USE DEF TypeInv
<1>1. CASE EmbedSkips
  <2>1. job.path \in Paths
    BY <1>1 DEF EmbedSkips, WorkInv
  <2>2. EnvInv' /\ StoreInv' /\ OrphanInv' /\ BoundInv' /\ skip' = skip
    BY <1>1 DEF EmbedSkips, env, store, EnvInv, StoreInv, OrphanInv, BoundInv
  <2> QED BY <1>1, <2>1, <2>2, EndQuietlyKeeps DEF EmbedSkips
<1>2. CASE TurnFails
  <2>1. PICK S \in SUBSET Paths : FailJob(S)
    BY <1>2 DEF TurnFails, WorkInv
  <2>2. EnvInv' /\ StoreInv' /\ OrphanInv' /\ BoundInv' /\ skip' = skip
    BY <1>2 DEF TurnFails, env, store, EnvInv, StoreInv, OrphanInv, BoundInv
  <2> QED BY <2>1, <2>2, FailJobKeeps
<1>3. CASE WalkFails
  <2>1. EnvInv' /\ StoreInv' /\ OrphanInv' /\ BoundInv' /\ skip' = skip
    BY <1>3 DEF WalkFails, env, store, EnvInv, StoreInv, OrphanInv, BoundInv
  <2>2. CASE Unload("errored")
    BY <2>1, <2>2, UnloadKeeps DEF LifeInv, Phases
  <2>3. CASE rescan' = FALSE /\ UNCHANGED <<phase, stopping, watch, work, ghost>>
    BY <2>1, <2>3 DEF watch, work, ghost, WatchInv, LifeInv, WorkInv, GhostInv
  <2> QED BY <1>3, <2>2, <2>3 DEF WalkFails
<1> QED BY <1>1, <1>2, <1>3 DEF Failure

LEMMA OperationType ==
    ASSUME TypeInv, Operation
    PROVE  TypeInv'
<1> USE DEF TypeInv
<1>1. CASE RequestRescan
  BY <1>1 DEF RequestRescan, env, store, watch, work, ghost, EnvInv, StoreInv,
     WatchInv, LifeInv, WorkInv, OrphanInv, GhostInv, BoundInv
<1>2. CASE RequestStop
  BY <1>2 DEF RequestStop, env, store, watch, work, ghost, EnvInv, StoreInv,
     WatchInv, LifeInv, WorkInv, OrphanInv, GhostInv, BoundInv
<1>3. CASE Rebuild
  <2>1. StoreInv'
    BY <1>3, RebuildKeeps
  <2>2. LifeInv' /\ GhostInv' /\ BoundInv'
    BY <1>3 DEF Rebuild, LifeInv, Phases, GhostInv, BoundInv
  <2> QED BY <1>3, <2>1, <2>2 DEF Rebuild, env, watch, work, EnvInv, WatchInv,
             WorkInv, OrphanInv
<1>4. CASE Crash
  <2>1. EnvInv' /\ StoreInv' /\ BoundInv'
    BY <1>4 DEF Crash, env, store, EnvInv, StoreInv, BoundInv
  <2>2. Unload("down") /\ "down" \in Phases /\ skip' \in BOOLEAN
    BY <1>4 DEF Crash, Phases
  <2>3. OrphanInv'
    BY <1>4 DEF Crash, OrphanInv
  <2> QED BY <2>1, <2>2, <2>3, UnloadKeeps
<1>5. CASE LeaveBehind /\ Unload("down") /\ UNCHANGED <<env, store, skip, bounds>>
  <2>1. EnvInv' /\ StoreInv' /\ BoundInv' /\ skip' \in BOOLEAN
    BY <1>5 DEF env, store, bounds, EnvInv, StoreInv, LifeInv, BoundInv
  <2>2. OrphanInv'
    BY <1>5, LeaveBehindKeeps
  <2>3. "down" \in Phases
    BY DEF Phases
  <2> QED BY <1>5, <2>1, <2>2, <2>3, UnloadKeeps
<1>6. CASE DrainBegins
  BY <1>6 DEF DrainBegins, env, store, watch, work, ghost, bounds, EnvInv,
     StoreInv, WatchInv, LifeInv, WorkInv, OrphanInv, GhostInv, BoundInv, Phases
<1>7. CASE DrainEnds
  <2>1. EnvInv' /\ StoreInv' /\ OrphanInv' /\ BoundInv' /\ skip' \in BOOLEAN
    BY <1>7 DEF DrainEnds, env, store, bounds, EnvInv, StoreInv, LifeInv,
       OrphanInv, BoundInv
  <2>2. Unload("down") /\ "down" \in Phases
    BY <1>7 DEF DrainEnds, Phases
  <2> QED BY <2>1, <2>2, UnloadKeeps
<1> QED BY <1>1, <1>2, <1>3, <1>4, <1>5, <1>6, <1>7
        DEF Operation, BootstrapCancelled, ConsumerAborted

LEMMA DetachedType ==
    ASSUME TypeInv, Detached
    PROVE  TypeInv'
<1> USE DEF TypeInv
<1>1. PICK o \in orphans : OrphanLands(o)
  BY DEF Detached
<1>2. /\ o.job \in Jobs /\ o.gone \subseteq Paths
      /\ o.pc # "sweep" => o.job.path \in Paths
  BY <1>1 DEF OrphanInv
<1>3. StoreInv'
  BY <1>1, OrphanKeeps
<1>4. OrphanInv'
  BY <1>1 DEF OrphanLands, OrphanInv
<1>5. GhostInv'
  BY <1>1, <1>2 DEF OrphanLands, GhostInv
<1> QED BY <1>1, <1>3, <1>4, <1>5 DEF OrphanLands, env, watch, life, work, bounds,
           EnvInv, WatchInv, LifeInv, WorkInv, BoundInv

LEMMA StutterType ==
    ASSUME TypeInv, UNCHANGED vars
    PROVE  TypeInv'
<1> QED BY DEF TypeInv, vars, env, store, watch, life, work, ghost, bounds, EnvInv,
           StoreInv, WatchInv, LifeInv, WorkInv, OrphanInv, GhostInv, BoundInv

LEMMA TypeStep ==
    ASSUME TypeInv, [Next]_vars
    PROVE  TypeInv'
<1> QED BY EnvironmentType, SendEventType, BootstrapType, PipelineType,
           ConsumerType, FailureType, OperationType, DetachedType, StutterType
        DEF Next

LEMMA TypeAlways == Spec => []TypeInv
<1>1. TypeInv /\ [Next]_vars => TypeInv'
  BY TypeStep
<1> QED BY <1>1, TypeInit, PTL DEF Spec

\* Rows, tasks, detached calls and the watcher are well-formed, and the channel
\* between the notify thread and the consumer never holds more than its capacity,
\* for every number of paths and every capacity.
THEOREM TypeCorrect == Spec => []TypeOK
<1> QED BY TypeAlways, TypeInvIsTypeOK, PTL

-----------------------------------------------------------------------------
(* Chunks and vectors are always those of the hash in the row.             *)

\* An empty index has no chunks.
LEMMA ChunksInit == Init => ChunksFollowHash
<1> QED BY DEF Init, ChunksFollowHash

\* Only a transaction touches `files` or `chunks`, and every transaction keeps
\* them in step.
LEMMA ChunksStep ==
    ASSUME TypeInv, ChunksFollowHash, [Next]_vars
    PROVE  ChunksFollowHash'
<1> USE DEF TypeInv
<1>0. ASSUME UNCHANGED store
      PROVE  ChunksFollowHash'
  BY <1>0 DEF store, ChunksFollowHash
<1>1. CASE Environment
  BY <1>0, <1>1 DEF Environment, WriteFile, DeleteFile, TouchFile
<1>2. ASSUME NEW p \in Paths, SendEvent(p)
      PROVE  ChunksFollowHash'
  BY <1>0, <1>2 DEF SendEvent
<1>3. CASE Bootstrap
  <2>1. CASE Sweep
    BY <2>1, DropTxKeeps DEF Sweep
  <2> QED BY <1>0, <1>3, <2>1
          DEF Bootstrap, Start, ScanWalk, ScanNext, ScanDone, Register
<1>4. CASE Pipeline
  <2>1. CASE Decide
    <3>1. job.path \in Paths /\ job \in Jobs
      BY <2>1 DEF Decide, WorkInv
    <3>2. CASE HashMatches(job) /\ TouchTx(job, disk[job.path].body)
      <4>1. disk[job.path].body \in Bodies
        BY <3>1, <3>2, ReadBody DEF HashMatches
      <4> QED BY <3>1, <3>2, <4>1, TouchTxKeeps
    <3>3. CASE UNCHANGED store
      BY <1>0, <3>3
    <3> QED BY <2>1, <3>2, <3>3 DEF Decide, store
  <2>2. CASE Write
    <3>1. job.path \in Paths /\ job \in Jobs /\ job.hash \in Bodies
      BY <2>2 DEF Write, WorkInv
    <3>2. CASE WriteTx(job)
      BY <3>1, <3>2, WriteTxKeeps
    <3>3. CASE UNCHANGED store
      BY <1>0, <3>3
    <3> QED BY <2>2, <3>2, <3>3 DEF Write
  <2>3. CASE Embed
    BY <1>0, <2>3 DEF Embed
  <2> QED BY <1>4, <2>1, <2>2, <2>3 DEF Pipeline
<1>5. CASE Consumer
  <2>1. CASE Remove
    BY <2>1, DropTxKeeps DEF Remove
  <2> QED BY <1>0, <1>5, <2>1
          DEF Consumer, RescanWalk, Receive, RescanNext, Stat, Publish
<1>6. CASE Failure
  BY <1>0, <1>6 DEF Failure, EmbedSkips, TurnFails, WalkFails
<1>7. CASE Operation
  <2>1. CASE Rebuild
    BY <2>1, RebuildKeeps
  <2> QED BY <1>0, <1>7, <2>1
          DEF Operation, RequestRescan, RequestStop, Crash, BootstrapCancelled,
              DrainBegins, DrainEnds, ConsumerAborted
<1>8. CASE Detached
  BY <1>8, OrphanKeeps DEF Detached
<1>9. CASE UNCHANGED vars
  BY <1>0, <1>9 DEF vars
<1> QED BY <1>1, <1>2, <1>3, <1>4, <1>5, <1>6, <1>7, <1>8, <1>9 DEF Next

\* No interleaving of tasks, crashes, aborts and any number of detached blocking
\* calls ever leaves chunks or vectors without their row, a row without its
\* chunks, or chunks cut from another body than the one the row was hashed from.
THEOREM ChunksAlwaysFollowHash == Spec => []ChunksFollowHash
<1>1. TypeInv /\ ChunksFollowHash /\ [Next]_vars => ChunksFollowHash'
  BY ChunksStep
<1> QED BY <1>1, ChunksInit, TypeAlways, PTL DEF Spec

-----------------------------------------------------------------------------
(* No call is detached.                                                    *)

NoneDetached == orphans = {}

-----------------------------------------------------------------------------
(* Which steps a phase knows, and what is empty when.                      *)

ShapeInv ==
    /\ phase \in {"down", "errored"} => pc = "idle" /\ todo = {} /\ gone = {}
    /\ phase = "scanning" =>
          pc \in {"walk", "idle", "decide", "embed", "write", "sweep", "register"}
    /\ phase \in {"live", "draining"} =>
          pc \in {"idle", "stat", "decide", "embed", "write", "remove", "publish"}
    /\ pc \in {"walk", "sweep", "register"} => todo = {}
    /\ pc \in {"walk", "register"} => gone = {}
    /\ watching <=> phase \in {"live", "draining"}
    /\ skip => phase = "down" /\ Paths \subseteq excused

InPipeline == pc \in {"decide", "embed", "write"}

LEMMA ShapeInit == Init => ShapeInv
<1> QED BY DEF Init, ShapeInv

LEMMA UnloadShape ==
    ASSUME NEW next \in {"down", "errored"}, Unload(next), skip' = FALSE
    PROVE  ShapeInv'
<1> QED BY DEF Unload, ClearWork, ClearWatch, FinishJob, ShapeInv

LEMMA EndQuietlyShape ==
    ASSUME TypeInv, ShapeInv, NEW S, EndQuietly(S), skip' = skip,
           phase \in {"scanning", "live", "draining"}
    PROVE  ShapeInv'
<1> QED BY DEF EndQuietly, FinishJob, watch, ShapeInv

LEMMA FailJobShape ==
    ASSUME TypeInv, ShapeInv, NEW S, FailJob(S), skip' = skip,
           phase \in {"scanning", "live", "draining"}
    PROVE  ShapeInv'
<1>1. skip' = FALSE
  BY DEF ShapeInv, TypeInv, LifeInv
<1> QED BY <1>1, UnloadShape, EndQuietlyShape DEF FailJob, EndQuietly

LEMMA ShapeStep ==
    ASSUME TypeInv, ShapeInv, [Next]_vars
    PROVE  ShapeInv'
<1> USE DEF TypeInv
<1>0. phase \in Phases /\ skip \in BOOLEAN
  BY DEF LifeInv
<1>1. CASE Environment
  BY <1>1 DEF Environment, WriteFile, DeleteFile, TouchFile, Notify, NotifyNobody,
     watch, life, work, ghost, ShapeInv
<1>2. ASSUME NEW p \in Paths, SendEvent(p)
      PROVE  ShapeInv'
  BY <1>2 DEF SendEvent, life, work, ghost, ShapeInv
<1>3. CASE Bootstrap
  <2>1. CASE Start
    BY <2>1 DEF Start, watch, ghost, ShapeInv
  <2>2. ASSUME NEW h \in Hidden, ScanWalk(h)
        PROVE  ShapeInv'
    BY <1>0, <2>2 DEF ScanWalk, watch, life, ShapeInv
  <2>3. CASE ScanNext \/ ScanDone
    BY <1>0, <2>3 DEF ScanNext, ScanDone, watch, life, ghost, ShapeInv
  <2>4. CASE Sweep
    BY <1>0, <2>4 DEF Sweep, watch, life, ghost, ShapeInv
  <2>5. CASE Register
    BY <1>0, <2>5 DEF Register, ShapeInv
  <2> QED BY <1>3, <2>1, <2>2, <2>3, <2>4, <2>5 DEF Bootstrap
<1>4. CASE Pipeline
  <2>1. pc \in {"decide", "embed", "write"} /\ phase \in {"scanning", "live", "draining"}
    BY <1>4 DEF Pipeline, Decide, Embed, Write, Running
  <2>2. ASSUME NEW S, EndQuietly(S) \/ FailJob(S), skip' = skip
        PROVE  ShapeInv'
    BY <2>1, <2>2, EndQuietlyShape, FailJobShape
  <2>3. ASSUME \/ pc' = "embed" \/ pc' = "write"
               \/ pc' = "publish" /\ phase # "scanning",
               UNCHANGED <<phase, skip, watching, todo, gone, excused>>
        PROVE  ShapeInv'
    BY <2>1, <2>3 DEF ShapeInv
  <2>4. CASE Decide
    BY <2>2, <2>3, <2>4 DEF Decide, watch, ghost
  <2>5. CASE Embed
    BY <2>3, <2>5 DEF Embed, life, watch, ghost
  <2>6. CASE Write
    BY <2>1, <2>2, <2>3, <2>6 DEF Write, watch, ghost
  <2> QED BY <1>4, <2>4, <2>5, <2>6 DEF Pipeline
<1>5. CASE Consumer
  BY <1>0, <1>5 DEF Consumer, RescanWalk, Receive, RescanNext, Stat, Remove, Publish,
     ConsumerIdle, FinishJob, watch, life, work, ghost, ShapeInv
<1>6. CASE Failure
  <2>1. CASE EmbedSkips
    BY <2>1, EndQuietlyShape DEF EmbedSkips, Running
  <2>2. CASE TurnFails
    BY <2>2, FailJobShape DEF TurnFails, Running
  <2>3. CASE WalkFails
    <3>1. CASE phase = "scanning" /\ Unload("errored")
      BY <2>3, <3>1, <1>0, UnloadShape DEF WalkFails, ShapeInv
    <3>2. CASE UNCHANGED <<phase, watch, work, ghost>>
      BY <2>3, <3>2 DEF WalkFails, watch, work, ghost, ShapeInv
    <3> QED BY <2>3, <3>1, <3>2 DEF WalkFails
  <2> QED BY <1>6, <2>1, <2>2, <2>3 DEF Failure
<1>7. CASE Operation
  <2>1. ASSUME Unload("down"), skip' = skip,
               phase \in {"scanning", "live", "draining"}
        PROVE  ShapeInv'
    BY <1>0, <2>1, UnloadShape DEF ShapeInv
  <2>2. CASE Crash
    BY <2>2, UnloadShape DEF Crash
  <2>3. CASE Rebuild
    BY <2>3 DEF Rebuild, watch, work, ShapeInv
  <2>4. CASE RequestRescan \/ RequestStop \/ DrainBegins
    BY <2>4 DEF RequestRescan, RequestStop, DrainBegins, watch, work, ghost, ShapeInv
  <2> QED BY <1>7, <2>1, <2>2, <2>3, <2>4
          DEF Operation, BootstrapCancelled, DrainEnds, ConsumerAborted
<1>8. CASE Detached
  BY <1>8 DEF Detached, OrphanLands, watch, life, work, ShapeInv
<1>9. CASE UNCHANGED vars
  BY <1>9 DEF vars, watch, life, work, ghost, ShapeInv
<1> QED BY <1>1, <1>2, <1>3, <1>4, <1>5, <1>6, <1>7, <1>8, <1>9 DEF Next

-----------------------------------------------------------------------------
(* What the transactions and the ends of a turn leave alone.               *)

\* A transaction of the running job changes one row.
LEMMA OneRow ==
    ASSUME StoreInv, NEW j \in Jobs, j.path \in Paths, j.hash \in Bodies,
           NEW b \in Bodies, WriteTx(j) \/ TouchTx(j, b) \/ DropTx({j.path})
    PROVE  \A q \in Paths : q # j.path =>
              files'[q] = files[q] /\ chunks'[q] = chunks[q] /\ fts'[q] = fts[q]
<1> QED BY DEF StoreInv, WriteTx, TouchTx, DropTx, RewriteChunks

\* The row a write leaves.
LEMMA WrittenRow ==
    ASSUME StoreInv, NEW j \in Jobs, j.path \in Paths, j.hash \in Bodies, WriteTx(j)
    PROVE  /\ files'[j.path] # Absent /\ files'[j.path].mtime = j.mtime
           /\ files'[j.path].hash = j.hash
           /\ files'[j.path].content = j.hash /\ fts'[j.path] = j.hash
<1> DEFINE r == [mtime |-> j.mtime, size |-> j.size,
                 hash |-> j.hash, content |-> j.hash]
<1>1. /\ r \in Rows /\ r.mtime = j.mtime /\ r.hash = j.hash
      /\ r.content = j.hash
  BY DEF Rows, Jobs, Hashes
<1>2. files'[j.path] = r /\ fts'[j.path] = j.hash
  BY DEF WriteTx, StoreInv
<1> HIDE DEF r
<1> QED BY <1>1, <1>2, AbsentAssumption

\* The row an mtime-only update leaves.
LEMMA TouchedRow ==
    ASSUME StoreInv, NEW j \in Jobs, j.path \in Paths, NEW b \in Bodies,
           TouchTx(j, b), files[j.path] # Absent
    PROVE  /\ files'[j.path] # Absent /\ files'[j.path].mtime = j.mtime
           /\ files'[j.path].hash = files[j.path].hash
           /\ files'[j.path].content = b /\ fts'[j.path] = fts[j.path]
<1> DEFINE r == [files[j.path] EXCEPT !.mtime = j.mtime, !.content = b]
<1>1. files[j.path] \in Rows /\ j.mtime \in Nat
  BY DEF StoreInv, Jobs
<1>2. /\ r \in Rows /\ r.mtime = j.mtime /\ r.hash = files[j.path].hash
      /\ r.content = b
  BY <1>1 DEF Rows
<1>3. files'[j.path] = r /\ fts' = fts
  BY DEF TouchTx, StoreInv
<1> HIDE DEF r
<1> QED BY <1>2, <1>3, AbsentAssumption

-----------------------------------------------------------------------------
(* The row a job was given is still the row.                               *)

RowInv ==
    /\ InPipeline => job.prior = files[job.path]
    /\ pc \in {"embed", "write"} => job.hash # HashOf(job.path)
    /\ phase = "scanning" =>
          \A j \in todo : /\ j.prior = files[j.path]
                          /\ InPipeline => j.path # job.path
                          /\ \A k \in todo : k.path = j.path => k = j

LEMMA RowInit == Init => RowInv
<1> QED BY DEF Init, RowInv, InPipeline

\* Between two turns only the jobs of a scan hold rows.
LEMMA RowBetweenTurns ==
    ASSUME ~InPipeline',
           phase' = "scanning" =>
              /\ phase = "scanning" /\ todo' \subseteq todo
              /\ \A j \in todo' : files'[j.path] = files[j.path],
           RowInv
    PROVE  RowInv'
<1>1. pc' # "embed" /\ pc' # "write"
  BY DEF InPipeline
<1> QED BY <1>1 DEF RowInv

LEMMA UnloadRow ==
    ASSUME NEW next \in {"down", "errored"}, Unload(next)
    PROVE  RowInv'
<1> QED BY DEF Unload, ClearWork, FinishJob, RowInv, InPipeline

\* A turn that ends has changed no row but its own.
LEMMA EndQuietlyRow ==
    ASSUME TypeInv, RowInv, InPipeline, NEW S, EndQuietly(S),
           \A q \in Paths : q # job.path => files'[q] = files[q]
    PROVE  RowInv'
<1>1. pc' = "idle" /\ phase' = phase /\ todo' = todo
  BY DEF EndQuietly, FinishJob
<1>2. \A j \in todo : j.path \in Paths
  BY DEF TypeInv, WorkInv
<1>3. phase = "scanning" => \A j \in todo : j.path # job.path
  BY DEF RowInv
<1> QED BY <1>1, <1>2, <1>3, RowBetweenTurns DEF InPipeline

LEMMA FailJobRow ==
    ASSUME TypeInv, RowInv, NEW S, FailJob(S), files' = files
    PROVE  RowInv'
<1>1. CASE phase = "scanning"
  BY <1>1, UnloadRow DEF FailJob
<1>2. CASE phase # "scanning"
  BY <1>2, RowBetweenTurns DEF FailJob, FinishJob, InPipeline
<1> QED BY <1>1, <1>2

LEMMA RowFrame ==
    ASSUME RowInv, UNCHANGED <<files, pc, job, todo, phase>>
    PROVE  RowInv'
<1> QED BY DEF RowInv, InPipeline, HashOf

\* The transactions of a turn, seen from the other rows.
LEMMA DecideOneRow ==
    ASSUME TypeInv, Decide
    PROVE  \A q \in Paths : q # job.path => files'[q] = files[q]
<1>1. job.path \in Paths /\ job \in Jobs /\ EnvInv /\ StoreInv
  BY DEF Decide, TypeInv, WorkInv
<1>2. CASE HashMatches(job) /\ TouchTx(job, disk[job.path].body)
  BY <1>1, <1>2 DEF TouchTx, StoreInv
<1>3. CASE UNCHANGED store
  BY <1>3 DEF store
<1> QED BY <1>2, <1>3 DEF Decide, store

LEMMA WriteOneRow ==
    ASSUME TypeInv, Write
    PROVE  \A q \in Paths : q # job.path => files'[q] = files[q]
<1>1. job.path \in Paths /\ StoreInv
  BY DEF Write, TypeInv, WorkInv
<1>2. CASE WriteTx(job)
  BY <1>1, <1>2 DEF WriteTx, StoreInv
<1>3. CASE UNCHANGED store
  BY <1>3 DEF store
<1> QED BY <1>2, <1>3 DEF Write

LEMMA RowBootstrap ==
    ASSUME TypeInv, ShapeInv, RowInv, Bootstrap
    PROVE  RowInv'
<1>1. CASE Start
  <2>1. todo' = {} /\ pc' \in {"walk", "register"} /\ phase' = "scanning"
    BY <1>1 DEF Start, ShapeInv
  <2> QED BY <2>1 DEF RowInv, InPipeline
<1>2. ASSUME NEW h \in Hidden, ScanWalk(h)
      PROVE  RowInv'
  <2> DEFINE entry(p) == [JobFor(p) EXCEPT !.mtime = disk[p].mtime,
                                           !.size = Size[disk[p].body],
                                           !.prior = files[p]]
  <2>1. /\ todo' = {entry(p) : p \in OnDisk \ h} /\ pc' = "idle" /\ files' = files
    BY <1>2 DEF ScanWalk, store
  <2>2. \A p : entry(p).path = p /\ entry(p).prior = files[p]
    BY DEF JobFor, NoJob
  <2> HIDE DEF entry
  <2> QED BY <2>1, <2>2 DEF RowInv, InPipeline
<1>3. CASE ScanNext
  <2>1. PICK j \in todo : job' = j /\ todo' = todo \ {j} /\ pc' = "decide"
    BY <1>3 DEF ScanNext
  <2>2. phase = "scanning" /\ phase' = "scanning" /\ files' = files
    BY <1>3 DEF ScanNext, life, store
  <2>3. j.prior = files[j.path] /\ \A k \in todo : k.path = j.path => k = j
    BY <2>2 DEF RowInv
  <2>4. \A i \in todo : /\ i.prior = files[i.path]
                        /\ \A k \in todo : k.path = i.path => k = i
    BY <2>2 DEF RowInv
  <2> QED BY <2>1, <2>2, <2>3, <2>4 DEF RowInv, InPipeline
<1>4. CASE ScanDone
  <2>1. pc' = "sweep" /\ todo' = todo /\ files' = files /\ phase = "scanning"
    BY <1>4 DEF ScanDone, store
  <2> QED BY <2>1, RowBetweenTurns DEF InPipeline
<1>5. CASE Sweep
  <2>1. pc' = "register" /\ todo' = {}
    BY <1>5 DEF Sweep, ShapeInv
  <2> QED BY <2>1 DEF RowInv, InPipeline
<1>6. CASE Register
  <2>1. pc' = "idle" /\ phase' = "live"
    BY <1>6 DEF Register
  <2> QED BY <2>1 DEF RowInv, InPipeline
<1> QED BY <1>1, <1>2, <1>3, <1>4, <1>5, <1>6 DEF Bootstrap

LEMMA RowPipeline ==
    ASSUME TypeInv, ShapeInv, RowInv, Pipeline
    PROVE  RowInv'
<1>1. CASE Decide
  <2>1. pc = "decide" /\ InPipeline /\ job \in Jobs
    BY <1>1 DEF Decide, InPipeline, TypeInv, WorkInv
  <2>2. CASE EndQuietly({})
    BY <1>1, <2>1, <2>2, DecideOneRow, EndQuietlyRow
  <2>3. CASE FailJob({}) /\ UNCHANGED store
    BY <2>3, FailJobRow DEF store
  <2>4. CASE /\ ~HashMatches(job) /\ disk[job.path] # Absent
             /\ job' = [job EXCEPT !.hash = disk[job.path].body]
             /\ pc' = "embed"
             /\ UNCHANGED <<store, phase, stopping, rescan, watch, todo, gone,
                            ghost>>
    <3>1. /\ job'.path = job.path /\ job'.prior = job.prior
          /\ job'.hash = disk[job.path].body
      BY <2>1, <2>4 DEF Jobs
    <3>2. files' = files /\ phase' = phase /\ todo' = todo
      BY <2>4 DEF store
    <3>3. job.prior = files[job.path]
      BY <2>1 DEF RowInv
    <3>4. disk[job.path].body # HashOf(job.path)
      <4>1. job.path \in Paths
        BY <1>1 DEF Decide, TypeInv, WorkInv
      <4>2. disk[job.path].body \in Bodies
        BY <2>4, <4>1, ReadBody DEF TypeInv
      <4> QED BY <2>4, <3>3, <4>2, MarkAssumption DEF HashMatches, HashOf
    <3>5. job'.hash # HashOf(job.path)'
      BY <3>1, <3>2, <3>4 DEF HashOf
    <3> QED BY <2>1, <2>4, <3>1, <3>2, <3>3, <3>4 DEF RowInv, InPipeline, HashOf
  <2> QED BY <1>1, <2>2, <2>3, <2>4 DEF Decide
<1>2. CASE Embed
  BY <1>2 DEF Embed, store, life, RowInv, InPipeline, HashOf
<1>3. CASE Write
  <2>1. InPipeline
    BY <1>3 DEF Write, InPipeline
  <2>2. CASE FailJob({job.path}) /\ UNCHANGED store
    BY <2>2, FailJobRow DEF store
  <2>3. CASE EndQuietly({})
    BY <1>3, <2>1, <2>3, WriteOneRow, EndQuietlyRow
  <2>4. CASE pc' = "publish" /\ phase # "scanning" /\ UNCHANGED phase
    BY <2>4 DEF RowInv, InPipeline
  <2> QED BY <1>3, <2>2, <2>3, <2>4 DEF Write
<1> QED BY <1>1, <1>2, <1>3 DEF Pipeline

LEMMA ConsumerIsLive ==
    ASSUME TypeInv, ShapeInv, Consumer
    PROVE  /\ phase \in {"live", "draining"} /\ phase' = phase
           /\ watching /\ watching' = watching
<1>1. phase \in Phases
  BY DEF TypeInv, LifeInv
<1>2. CASE \E h \in Hidden : RescanWalk(h)
  BY <1>2 DEF RescanWalk, watch, ShapeInv
<1>3. CASE Receive \/ RescanNext
  BY <1>3 DEF Receive, RescanNext, life, watch, ShapeInv
<1>4. CASE Stat \/ Remove \/ Publish
  <2>1. pc \in {"stat", "remove", "publish"} /\ UNCHANGED <<watch, life>>
    BY <1>4 DEF Stat, Remove, Publish
  <2> QED BY <1>1, <2>1 DEF ShapeInv, Phases, watch, life
<1> QED BY <1>2, <1>3, <1>4 DEF Consumer

LEMMA RowConsumer ==
    ASSUME TypeInv, ShapeInv, RowInv, Consumer
    PROVE  RowInv'
<1>1. phase' # "scanning"
  BY ConsumerIsLive
<1>2. CASE Stat /\ disk[job.path] # Absent
  <2>1. job \in Jobs /\ files' = files /\ pc' = "decide"
    BY <1>2 DEF Stat, TypeInv, WorkInv, store
  <2>2. job'.path = job.path /\ job'.prior = files[job.path]
    BY <1>2, <2>1 DEF Stat, Jobs
  <2> QED BY <1>1, <2>1, <2>2 DEF RowInv
<1>3. CASE ~ InPipeline'
  BY <1>1, <1>3, RowBetweenTurns
<1>4. CASE Stat /\ disk[job.path] = Absent
  BY <1>3, <1>4 DEF Stat, InPipeline
<1>5. CASE Receive \/ RescanNext \/ Remove \/ Publish
  BY <1>3, <1>5 DEF Receive, RescanNext, Remove, Publish, FinishJob, InPipeline
<1>6. CASE \E h \in Hidden : RescanWalk(h)
  BY <1>3, <1>6 DEF RescanWalk, ConsumerIdle, InPipeline
<1> QED BY <1>2, <1>4, <1>5, <1>6 DEF Consumer

LEMMA RowFailure ==
    ASSUME TypeInv, ShapeInv, RowInv, Failure
    PROVE  RowInv'
<1>1. CASE EmbedSkips
  <2>1. InPipeline /\ EndQuietly({job.path}) /\ files' = files
    BY <1>1 DEF EmbedSkips, InPipeline, store
  <2> QED BY <2>1, EndQuietlyRow
<1>2. CASE TurnFails
  BY <1>2, FailJobRow DEF TurnFails, store
<1>3. CASE WalkFails
  <2>1. CASE Unload("errored")
    BY <2>1, UnloadRow
  <2>2. CASE UNCHANGED <<phase, work>>
    BY <1>3, <2>2, RowFrame DEF WalkFails, work, store
  <2> QED BY <1>3, <2>1, <2>2 DEF WalkFails
<1> QED BY <1>1, <1>2, <1>3 DEF Failure

LEMMA RowOperation ==
    ASSUME TypeInv, ShapeInv, RowInv, Operation
    PROVE  RowInv'
<1>1. CASE Unload("down")
  BY <1>1, UnloadRow
<1>2. CASE Rebuild
  <2>1. phase' # "scanning" /\ pc' = "idle"
    BY <1>2 DEF Rebuild, work, ShapeInv
  <2> QED BY <2>1, RowBetweenTurns DEF InPipeline
<1>3. CASE DrainBegins
  <2>1. phase' # "scanning" /\ pc' = "idle"
    BY <1>3 DEF DrainBegins, ConsumerIdle, work
  <2> QED BY <2>1, RowBetweenTurns DEF InPipeline
<1>4. CASE RequestRescan \/ RequestStop
  BY <1>4, RowFrame DEF RequestRescan, RequestStop, store, work
<1> QED BY <1>1, <1>2, <1>3, <1>4
        DEF Operation, Crash, BootstrapCancelled, DrainEnds, ConsumerAborted

LEMMA RowStep ==
    ASSUME TypeInv, ShapeInv, NoneDetached, RowInv, [Next]_vars
    PROVE  RowInv'
<1>1. CASE Environment
  BY <1>1, RowFrame
     DEF Environment, WriteFile, DeleteFile, TouchFile, store, life, work
<1>2. ASSUME NEW p \in Paths, SendEvent(p)
      PROVE  RowInv'
  BY <1>2, RowFrame DEF SendEvent, store, life, work
<1>3. CASE UNCHANGED vars
  BY <1>3, RowFrame DEF vars, store, life, work
<1>4. CASE Detached
  BY <1>4 DEF Detached, NoneDetached
<1> QED BY <1>1, <1>2, <1>3, <1>4, RowBootstrap, RowPipeline, RowConsumer,
           RowFailure, RowOperation DEF Next

\* The first invariant: everything that holds without detached calls builds on it.
BaseInv == TypeInv /\ ShapeInv /\ RowInv

LEMMA BaseAlways == Spec /\ []NoneDetached => []BaseInv
<1>1. Init => BaseInv
  BY TypeInit, ShapeInit, RowInit DEF BaseInv
<1>2. BaseInv /\ NoneDetached /\ [Next]_vars => BaseInv'
  BY TypeStep, ShapeStep, RowStep DEF BaseInv
<1> QED BY <1>1, <1>2, PTL DEF Spec

\* The INSERT or UPDATE chosen from a row that was read a whole scan or an
\* embedding call earlier fits the table when it is executed: in every behaviour
\* in which no blocking call outlives its task.
THEOREM WritesNeverConflict == Spec /\ []NoneDetached => []NoWriteConflict
<1>1. BaseInv => NoWriteConflict
  BY DEF BaseInv, RowInv, InPipeline, NoWriteConflict, WriteConflict
<1> QED BY <1>1, BaseAlways, PTL

-----------------------------------------------------------------------------
(* The text that is indexed is the text that was hashed.                   *)

LEMMA TextDrop ==
    ASSUME StoreInv, TextFollowsHash, NEW S, DropTx(S)
    PROVE  TextFollowsHash'
<1> QED BY DEF StoreInv, TextFollowsHash, DropTx

\* The mtime-only update rewrites the content with the body whose hash matched.
LEMMA TextDecide ==
    ASSUME TypeInv, RowInv, TextFollowsHash, Decide
    PROVE  TextFollowsHash'
<1>1. job.path \in Paths /\ job \in Jobs /\ StoreInv
  BY DEF Decide, TypeInv, WorkInv
<1>2. CASE HashMatches(job) /\ TouchTx(job, disk[job.path].body)
  <2> DEFINE b == disk[job.path].body
  <2>1. b \in Bodies
    BY <1>1, <1>2, ReadBody DEF HashMatches, TypeInv
  <2>2. files[job.path] # Absent /\ files[job.path].hash = b
    <3>1. job.prior = files[job.path]
      BY DEF RowInv, InPipeline, Decide
    <3> QED BY <1>2, <3>1 DEF HashMatches
  <2>3. files[job.path].content = b /\ fts[job.path] = b
    BY <1>1, <2>1, <2>2, MarkAssumption DEF TextFollowsHash
  <2>4. /\ files'[job.path] # Absent /\ files'[job.path].content = b
        /\ files'[job.path].hash = b /\ fts' = fts
    BY <1>1, <1>2, <2>1, <2>2, TouchedRow DEF TouchTx
  <2>5. \A q \in Paths : q # job.path => files'[q] = files[q]
    BY DecideOneRow
  <2> HIDE DEF b
  <2> QED BY <1>1, <2>3, <2>4, <2>5 DEF TextFollowsHash
<1>3. CASE UNCHANGED store
  BY <1>3 DEF store, TextFollowsHash
<1> QED BY <1>2, <1>3 DEF Decide, store

LEMMA TextWrite ==
    ASSUME TypeInv, TextFollowsHash, Write
    PROVE  TextFollowsHash'
<1>1. job.path \in Paths /\ job \in Jobs /\ job.hash \in Bodies /\ StoreInv
  BY DEF Write, TypeInv, WorkInv
<1>2. CASE WriteTx(job)
  <2>1. /\ files'[job.path] # Absent /\ files'[job.path].content = job.hash
        /\ files'[job.path].hash = job.hash /\ fts'[job.path] = job.hash
    BY <1>1, <1>2, WrittenRow
  <2>2. \A q \in Paths : q # job.path => files'[q] = files[q] /\ fts'[q] = fts[q]
    BY <1>1, <1>2 DEF WriteTx, StoreInv
  <2> QED BY <1>1, <2>1, <2>2 DEF TextFollowsHash
<1>3. CASE UNCHANGED store
  BY <1>3 DEF store, TextFollowsHash
<1> QED BY <1>2, <1>3 DEF Write

LEMMA TextRebuild ==
    ASSUME StoreInv, TextFollowsHash, Rebuild
    PROVE  TextFollowsHash'
<1> DEFINE row(p) == [files[p] EXCEPT !.hash = Sentinel]
<1>1. ASSUME NEW p \in Paths, files[p] # Absent
      PROVE  /\ row(p) # Absent /\ row(p).hash = Sentinel
             /\ row(p).content = files[p].content
  <2>1. files[p] \in Rows
    BY <1>1 DEF StoreInv
  <2>2. row(p) \in Rows
    BY <2>1 DEF Rows, Hashes
  <2> QED BY <2>1, <2>2, AbsentAssumption DEF Rows
<1>2. /\ files' = [p \in Paths |-> IF files[p] = Absent THEN Absent ELSE row(p)]
      /\ fts' = fts
  BY DEF Rebuild
<1> HIDE DEF row
<1> QED BY <1>1, <1>2 DEF TextFollowsHash

\* The steps that leave the index alone.
IndexStep == Sweep \/ Decide \/ Write \/ Remove \/ Rebuild

LEMMA IndexUnchanged ==
    ASSUME NoneDetached, [Next]_vars, ~IndexStep
    PROVE  UNCHANGED store
<1>1. CASE Environment
  BY <1>1 DEF Environment, WriteFile, DeleteFile, TouchFile
<1>2. CASE Bootstrap
  BY <1>2 DEF Bootstrap, Start, ScanWalk, ScanNext, ScanDone, Register, IndexStep
<1>3. CASE Pipeline
  BY <1>3 DEF Pipeline, Embed, IndexStep
<1>4. CASE Consumer
  BY <1>4 DEF Consumer, RescanWalk, Receive, RescanNext, Stat, Publish, IndexStep
<1>5. CASE Failure
  BY <1>5 DEF Failure, EmbedSkips, TurnFails, WalkFails
<1>6. CASE Operation
  BY <1>6 DEF Operation, RequestRescan, RequestStop, Crash, BootstrapCancelled,
              DrainBegins, DrainEnds, ConsumerAborted, IndexStep
<1>7. CASE Detached
  BY <1>7 DEF Detached, NoneDetached
<1>8. CASE UNCHANGED vars
  BY <1>8 DEF vars
<1> QED BY <1>1, <1>2, <1>3, <1>4, <1>5, <1>6, <1>7, <1>8 DEF Next, SendEvent

LEMMA TextStep ==
    ASSUME BaseInv, NoneDetached, TextFollowsHash, [Next]_vars
    PROVE  TextFollowsHash'
<1>1. TypeInv /\ StoreInv /\ RowInv
  BY DEF BaseInv, TypeInv
<1>2. CASE ~IndexStep
  BY <1>2, IndexUnchanged DEF store, TextFollowsHash
<1>3. CASE Sweep \/ Remove
  BY <1>1, <1>3, TextDrop DEF Sweep, Remove
<1> QED BY <1>1, <1>2, <1>3, TextDecide, TextWrite, TextRebuild DEF IndexStep

LEMMA TextInit == Init => TextFollowsHash
<1> QED BY DEF Init, TextFollowsHash

\* FTS5 removes exactly the terms it indexed, because the content column always
\* holds the indexed text, and that text is the one the row was hashed from.  A
\* detached mtime-only update is what the hypothesis excludes: it writes the
\* content of a file that may have been indexed anew since.
THEOREM TextAlwaysFollowsHash == Spec /\ []NoneDetached => []TextFollowsHash
<1>1. BaseInv /\ NoneDetached /\ TextFollowsHash /\ [Next]_vars => TextFollowsHash'
  BY TextStep
<1> QED BY <1>1, TextInit, BaseAlways, PTL DEF Spec

-----------------------------------------------------------------------------
(* Live events.                                                            *)

Live == phase \in {"live", "draining"}

\* The event that is due tells what happened, and applying it restores the copy.
EventInv ==
    /\ pc = "publish" => HashOf(job.path) = IF job.event = "deleted" THEN Absent
                                            ELSE job.hash
    /\ Live => \A p \in Paths :
                  view[p] = HashOf(p) \/ (pc = "publish" /\ job.path = p)
    /\ ~Live => view = [p \in Paths |-> Absent]

LEMMA EventInit == Init => EventInv
<1> QED BY DEF Init, EventInv, Live

LEMMA OnlyLivePublishes ==
    ASSUME TypeInv, ShapeInv, pc = "publish"
    PROVE  Live
<1> QED BY DEF TypeInv, LifeInv, Phases, ShapeInv, Live

\* Offline, nobody keeps a copy.
LEMMA EventOffline ==
    ASSUME TypeInv', ShapeInv', ~Live', view' = [p \in Paths |-> Absent]
    PROVE  EventInv'
<1>1. pc' # "publish"
  BY DEF TypeInv, LifeInv, Phases, ShapeInv, Live
<1> QED BY <1>1 DEF EventInv

LEMMA UnloadEvent ==
    ASSUME TypeInv', ShapeInv', NEW next \in {"down", "errored"}, Unload(next)
    PROVE  EventInv'
<1> QED BY EventOffline DEF Unload, Live

\* A live step that changes no hash and has nothing to announce.
LEMMA EventQuiet ==
    ASSUME EventInv, Live, Live', pc # "publish", pc' # "publish", view' = view,
           \A p \in Paths : HashOf(p)' = HashOf(p)
    PROVE  EventInv'
<1> QED BY DEF EventInv

LEMMA EventFrame ==
    ASSUME EventInv, UNCHANGED <<files, pc, job, view>>, Live' = Live
    PROVE  EventInv'
<1>1. \A p : HashOf(p)' = HashOf(p)
  BY DEF HashOf
<1>2. HashOf(job.path)' = HashOf(job.path)
  BY <1>1 DEF HashOf
<1> QED BY <1>1, <1>2 DEF EventInv

LEMMA SameHash ==
    ASSUME files' = files
    PROVE  \A p \in Paths : HashOf(p)' = HashOf(p)
<1> QED BY DEF HashOf

\* The mtime-only update keeps every hash.
LEMMA DecideHash ==
    ASSUME TypeInv, RowInv, Decide
    PROVE  \A p \in Paths : HashOf(p)' = HashOf(p)
<1>1. job.path \in Paths /\ job \in Jobs /\ StoreInv
  BY DEF Decide, TypeInv, WorkInv
<1>2. CASE HashMatches(job) /\ TouchTx(job, disk[job.path].body)
  <2>1. disk[job.path].body \in Bodies
    BY <1>1, <1>2, ReadBody DEF HashMatches, TypeInv
  <2>2. files[job.path] # Absent
    BY <1>2 DEF RowInv, InPipeline, Decide, HashMatches
  <2>3. files'[job.path] # Absent /\ files'[job.path].hash = files[job.path].hash
    BY <1>1, <1>2, <2>1, <2>2, TouchedRow
  <2>4. \A q \in Paths : q # job.path => files'[q] = files[q]
    BY DecideOneRow
  <2> QED BY <2>2, <2>3, <2>4 DEF HashOf
<1>3. CASE UNCHANGED store
  BY <1>3, SameHash DEF store
<1> QED BY <1>2, <1>3 DEF Decide, store

\* What a write or a remove does to the hashes.
LEMMA WriteHash ==
    ASSUME TypeInv, pc = "write", WriteTx(job)
    PROVE  \A p \in Paths : HashOf(p)' = IF p = job.path THEN job.hash ELSE HashOf(p)
<1>1. job.path \in Paths /\ job \in Jobs /\ job.hash \in Bodies /\ StoreInv
  BY DEF TypeInv, WorkInv
<1>2. files'[job.path] # Absent /\ files'[job.path].hash = job.hash
  BY <1>1, WrittenRow
<1>3. \A q \in Paths : q # job.path => files'[q] = files[q]
  BY <1>1 DEF WriteTx, StoreInv
<1> QED BY <1>2, <1>3 DEF HashOf

LEMMA DropHash ==
    ASSUME NEW S, DropTx(S)
    PROVE  \A p \in Paths : HashOf(p)' = IF p \in S THEN Absent ELSE HashOf(p)
<1> QED BY DEF DropTx, HashOf

\* A job on its way through the pipeline of a live vault announces what it wrote.
LEMMA EventWrite ==
    ASSUME TypeInv, ShapeInv, EventInv, Live, Write,
           ~WriteConflict(job), phase' = phase
    PROVE  EventInv'
<1>1. pc = "write" /\ phase # "scanning" /\ WriteTx(job)
  BY DEF Write, Live
<1>2. job \in Jobs /\ job' = [job EXCEPT !.event = IF job.prior = Absent
                                                   THEN "created" ELSE "modified"]
  BY <1>1 DEF Write, TypeInv, WorkInv
<1>3. job'.path = job.path /\ job'.hash = job.hash /\ job'.event # "deleted"
  BY <1>2 DEF Jobs
<1>4. pc' = "publish" /\ view' = view
  BY <1>1 DEF Write, ghost
<1>5. \A p \in Paths : HashOf(p)' = IF p = job.path THEN job.hash ELSE HashOf(p)
  BY <1>1, WriteHash
<1>6. job.path \in Paths
  BY <1>1 DEF TypeInv, WorkInv
<1>7. HashOf(job.path)' = job.hash
  BY <1>3, <1>5, <1>6 DEF HashOf
<1> QED BY <1>1, <1>3, <1>4, <1>5, <1>7 DEF EventInv, Live

LEMMA EventRemove ==
    ASSUME TypeInv, ShapeInv, EventInv, Live, Remove
    PROVE  EventInv'
<1>1. /\ pc = "remove" /\ DropTx({job.path}) /\ job \in Jobs /\ job.path \in Paths
      /\ view' = view /\ phase' = phase
  BY DEF Remove, TypeInv, WorkInv, ghost, life
<1>2. \A p \in Paths : HashOf(p)' = IF p = job.path THEN Absent ELSE HashOf(p)
  BY <1>1, DropHash
<1>3. CASE files[job.path] = Absent
  <2>1. pc' # "publish"
    BY <1>3 DEF Remove, FinishJob
  <2>2. \A p \in Paths : HashOf(p)' = HashOf(p)
    BY <1>2, <1>3 DEF HashOf
  <2> QED BY <1>1, <2>1, <2>2, EventQuiet DEF Live
<1>4. CASE files[job.path] # Absent
  <2>1. pc' = "publish" /\ job'.path = job.path /\ job'.event = "deleted"
    BY <1>1, <1>4 DEF Remove, Jobs
  <2>2. HashOf(job.path)' = Absent
    BY <1>1, <1>2, <2>1 DEF HashOf
  <2> QED BY <1>1, <1>2, <2>1, <2>2 DEF EventInv, Live
<1> QED BY <1>3, <1>4

LEMMA EventPublish ==
    ASSUME TypeInv, ShapeInv, EventInv, Live, Publish
    PROVE  EventInv'
<1>1. /\ pc = "publish" /\ pc' = "idle" /\ phase' = phase /\ job.path \in Paths
      /\ view' = [view EXCEPT ![job.path] = HashOf(job.path)]
  BY DEF Publish, FinishJob, EventInv, life, TypeInv, WorkInv
<1>2. \A p \in Paths : HashOf(p)' = HashOf(p)
  BY SameHash DEF Publish, store
<1>3. view \in [Paths -> Hashes \cup {Absent}]
  BY DEF TypeInv, GhostInv
<1> QED BY <1>1, <1>2, <1>3 DEF EventInv, Live

LEMMA FailJobEvent ==
    ASSUME TypeInv', ShapeInv', EventInv, Live \/ phase = "scanning",
           pc # "publish", NEW S, FailJob(S), files' = files
    PROVE  EventInv'
<1>1. CASE phase = "scanning"
  BY <1>1, UnloadEvent DEF FailJob
<1>2. CASE phase # "scanning"
  <2>1. pc' # "publish" /\ Live' /\ Live /\ view' = view
    BY <1>2 DEF FailJob, FinishJob, Live
  <2> QED BY <2>1, SameHash, EventQuiet
<1> QED BY <1>1, <1>2

\* The scan changes rows nobody watches.
LEMMA EventScan ==
    ASSUME TypeInv', ShapeInv', EventInv, phase = "scanning", ~Live',
           view' = view
    PROVE  EventInv'
<1> QED BY EventOffline DEF EventInv, Live

LEMMA EventStep ==
    ASSUME TypeInv, ShapeInv, RowInv, NoneDetached, TypeInv', ShapeInv',
           EventInv, [Next]_vars
    PROVE  EventInv'
<1>1. CASE Environment \/ (\E p \in Paths : SendEvent(p)) \/ UNCHANGED vars
  <2>1. UNCHANGED <<files, pc, job, view, phase>>
    BY <1>1 DEF Environment, WriteFile, DeleteFile, TouchFile, Notify, SendEvent,
                vars, store, life, work, ghost
  <2> QED BY <2>1, EventFrame DEF Live
<1>2. CASE Bootstrap
  <2>1. CASE Start
    BY <2>1, EventOffline DEF Start, Live, ghost, EventInv
  <2>2. CASE (\E h \in Hidden : ScanWalk(h)) \/ ScanNext \/ ScanDone \/ Sweep
    BY <2>2, EventScan DEF ScanWalk, ScanNext, ScanDone, Sweep, life, ghost, Live
  <2>3. CASE Register
    <3>1. \A p \in Paths : HashOf(p)' = HashOf(p)
      BY <2>3, SameHash DEF Register, store
    <3> QED BY <2>3, <3>1 DEF Register, EventInv, Live
  <2> QED BY <1>2, <2>1, <2>2, <2>3 DEF Bootstrap
<1>3. CASE Pipeline
  <2>1. InPipeline /\ (Live \/ phase = "scanning") /\ pc # "publish"
    BY <1>3 DEF Pipeline, Decide, Embed, Write, Running, InPipeline, Live
  <2>2. CASE phase' = phase /\ view' = view /\ phase = "scanning"
    BY <2>2, EventScan DEF Live
  <2>3. CASE \E S : FailJob(S) /\ files' = files
    BY <2>1, <2>3, FailJobEvent
  <2>4. CASE Decide
    <3>1. \/ pc' # "publish" /\ phase' = phase /\ view' = view
          \/ FailJob({}) /\ files' = files
      BY <2>4 DEF Decide, EndQuietly, FinishJob, ghost, store
    <3>2. CASE Live /\ pc' # "publish" /\ phase' = phase /\ view' = view
      BY <2>1, <2>4, <3>2, DecideHash, EventQuiet DEF Live
    <3> QED BY <2>1, <2>2, <2>3, <3>1, <3>2
  <2>5. CASE Embed
    <3>1. phase' = phase /\ view' = view /\ pc' # "publish" /\ files' = files
      BY <2>5 DEF Embed, life, ghost, store
    <3>2. CASE Live
      BY <2>1, <3>1, <3>2, SameHash, EventQuiet DEF Live
    <3> QED BY <2>1, <2>2, <3>1, <3>2
  <2>6. CASE Write
    <3>1. CASE WriteConflict(job)
      BY <2>3, <2>6, <3>1 DEF Write, store
    <3>2. CASE ~WriteConflict(job)
      <4>1. phase' = phase /\ view' = view
        BY <2>6, <3>2 DEF Write, EndQuietly, ghost
      <4> QED BY <2>1, <2>2, <2>6, <3>2, <4>1, EventWrite
    <3> QED BY <3>1, <3>2
  <2> QED BY <1>3, <2>4, <2>5, <2>6 DEF Pipeline
<1>4. CASE Consumer
  <2>1. Live /\ Live'
    BY <1>4, ConsumerIsLive DEF Live
  <2>2. CASE (\E h \in Hidden : RescanWalk(h)) \/ Receive \/ RescanNext \/ Stat
    <3>1. pc # "publish" /\ pc' # "publish" /\ view' = view /\ files' = files
      BY <2>2 DEF RescanWalk, Receive, RescanNext, Stat, ConsumerIdle, ghost, store
    <3> QED BY <2>1, <3>1, SameHash, EventQuiet
  <2> QED BY <1>4, <2>1, <2>2, EventRemove, EventPublish DEF Consumer
<1>5. CASE Failure
  <2>1. CASE EmbedSkips
    <3>1. pc # "publish" /\ pc' # "publish" /\ view' = view /\ files' = files
          /\ phase' = phase /\ (Live \/ phase = "scanning")
      BY <2>1 DEF EmbedSkips, EndQuietly, FinishJob, store, Running, Live
    <3>2. CASE Live
      BY <3>1, <3>2, SameHash, EventQuiet DEF Live
    <3> QED BY <3>1, <3>2, EventScan DEF Live
  <2>2. CASE TurnFails
    BY <2>2, FailJobEvent DEF TurnFails, store, Running, Live
  <2>3. CASE WalkFails
    <3>1. CASE Unload("errored")
      BY <3>1, UnloadEvent
    <3>2. CASE UNCHANGED <<phase, work, ghost>>
      BY <2>3, <3>2, EventFrame DEF WalkFails, work, store, ghost, Live
    <3> QED BY <2>3, <3>1, <3>2 DEF WalkFails
  <2> QED BY <1>5, <2>1, <2>2, <2>3 DEF Failure
<1>6. CASE Operation
  <2>1. CASE Unload("down")
    BY <2>1, UnloadEvent
  <2>2. CASE Rebuild
    BY <2>2, EventOffline DEF Rebuild, Live, EventInv
  <2>3. CASE RequestRescan \/ RequestStop \/ DrainBegins
    <3>1. UNCHANGED <<files, pc, job, view>> /\ Live' = Live
      BY <2>3 DEF RequestRescan, RequestStop, DrainBegins, store, work, ghost, Live
    <3> QED BY <3>1, EventFrame
  <2> QED BY <1>6, <2>1, <2>2, <2>3
          DEF Operation, Crash, BootstrapCancelled, DrainEnds, ConsumerAborted
<1>7. CASE Detached
  BY <1>7 DEF Detached, NoneDetached
<1> QED BY <1>1, <1>2, <1>3, <1>4, <1>5, <1>6, <1>7 DEF Next

LEMMA EventAlways == Spec /\ []NoneDetached => []EventInv
<1>1. /\ BaseInv /\ NoneDetached /\ BaseInv' /\ EventInv /\ [Next]_vars
      => EventInv'
  BY EventStep DEF BaseInv
<1> QED BY <1>1, EventInit, BaseAlways, PTL DEF Spec

\* A subscriber that queried the index when the vault went live and applied every
\* live event since holds an exact copy of it, but for the one event that is due:
\* no event is missing, spurious, out of order or about another version, whatever
\* fails between the transaction and its announcement.
THEOREM CopyStaysExact == Spec /\ []NoneDetached => []ViewExact
<1>1. EventInv => ViewExact
  BY DEF EventInv, ViewExact, Live
<1> QED BY <1>1, EventAlways, PTL

-----------------------------------------------------------------------------
(* The refinement of AnnouncedIndex.                                       *)

\* What a search shows is the version the row was hashed from, so every step is
\* mapped by what it does to the hashes.
ShowsHash == \A p \in Paths : ShownAt(p) = HashOf(p)

LEMMA TablesShowHash ==
    ASSUME ChunksFollowHash, TextFollowsHash
    PROVE  ShowsHash
<1> QED BY DEF ChunksFollowHash, TextFollowsHash, ShowsHash, ShownAt, HashOf

LEMMA ShowsAlways == Spec /\ []NoneDetached => []ShowsHash
<1>1. ChunksFollowHash /\ TextFollowsHash => ShowsHash
  BY TablesShowHash
<1> QED BY <1>1, ChunksAlwaysFollowHash, TextAlwaysFollowsHash, PTL

Due == IF pc = "publish" THEN {job.path} ELSE {}

\* The mapped step, or a stutter.
Mapped == [Announced!Next]_(Announced!vars)

LEMMA MapStutter ==
    ASSUME ShowsHash, ShowsHash', \A p \in Paths : HashOf(p)' = HashOf(p),
           Live' = Live, view' = view, Due' = Due
    PROVE  Mapped
<1>1. [p \in Paths |-> ShownAt(p)]' = [p \in Paths |-> ShownAt(p)]
  BY DEF ShowsHash
<1> QED BY <1>1 DEF Mapped, Announced!vars, Live, Due

LEMMA MapFrame ==
    ASSUME ShowsHash, ShowsHash', UNCHANGED <<files, view, pc, job>>, Live' = Live
    PROVE  Mapped
<1> QED BY SameHash, MapStutter DEF Due

LEMMA MapSilent ==
    ASSUME ShowsHash, ShowsHash', ~Live, ~Live', view' = view,
           pc # "publish", pc' # "publish",
           \/ \E p \in Paths, b \in Bodies : \A q \in Paths :
                 HashOf(q)' = IF q = p THEN b ELSE HashOf(q)
           \/ \E S \in SUBSET Paths : \A q \in Paths :
                 HashOf(q)' = IF q \in S THEN Absent ELSE HashOf(q)
           \/ \A q \in Paths :
                 HashOf(q)' = IF HashOf(q) = Absent THEN Absent ELSE Sentinel
    PROVE  Mapped
<1> DEFINE index == [p \in Paths |-> ShownAt(p)]
<1>1. \A q \in Paths : index[q] = HashOf(q) /\ index'[q] = HashOf(q)'
  BY DEF ShowsHash
<1>2. index = [q \in Paths |-> index[q]] /\ index' = [q \in Paths |-> index'[q]]
  OBVIOUS
<1>3. \/ \E p \in Paths, b \in Bodies : index' = [index EXCEPT ![p] = b]
      \/ \E S \in SUBSET Paths :
            index' = [p \in Paths |-> IF p \in S THEN Absent ELSE index[p]]
      \/ index' = [p \in Paths |-> IF index[p] = Absent THEN Absent ELSE Sentinel]
  <2> HIDE DEF index
  <2>1. CASE \E p \in Paths, b \in Bodies : \A q \in Paths :
                HashOf(q)' = IF q = p THEN b ELSE HashOf(q)
    BY <1>1, <1>2, <2>1
  <2>2. CASE \E S \in SUBSET Paths : \A q \in Paths :
                 HashOf(q)' = IF q \in S THEN Absent ELSE HashOf(q)
    BY <1>1, <1>2, <2>2
  <2>3. CASE \A q \in Paths :
                 HashOf(q)' = IF HashOf(q) = Absent THEN Absent ELSE Sentinel
    BY <1>1, <1>2, <2>3
  <2> QED BY <2>1, <2>2, <2>3
<1>4. ~(phase \in {"live", "draining"})
  BY DEF Live
<1>5. UNCHANGED <<phase \in {"live", "draining"}, view,
                  IF pc = "publish" THEN {job.path} ELSE {}>>
  <2>1. (phase \in {"live", "draining"})' = (phase \in {"live", "draining"})
    BY DEF Live
  <2> QED BY <2>1
<1>6. Announced!Silent
  BY <1>3, <1>4, <1>5, Zenon DEF Announced!Silent
<1> QED BY <1>6 DEF Mapped, Announced!Next

LEMMA MapChange ==
    ASSUME ShowsHash, ShowsHash', NEW p \in Paths,
           NEW s \in Bodies \cup {Absent}, HashOf(p) # s,
           \A q \in Paths : HashOf(q)' = IF q = p THEN s ELSE HashOf(q),
           Live, Live', view' = view,
           pc # "publish", pc' = "publish", job'.path = p
    PROVE  Mapped
<1> DEFINE index == [q \in Paths |-> ShownAt(q)]
<1>1. \A q \in Paths : index[q] = HashOf(q) /\ index'[q] = HashOf(q)'
  BY DEF ShowsHash
<1>2. index = [q \in Paths |-> index[q]] /\ index' = [q \in Paths |-> index'[q]]
  OBVIOUS
<1>3. s # index[p] /\ index' = [index EXCEPT ![p] = s]
  <2> HIDE DEF index
  <2> QED BY <1>1, <1>2
<1>4. Announced!Change(p)
  BY <1>3 DEF Announced!Change, Live
<1> QED BY <1>4 DEF Mapped, Announced!Next

LEMMA MapAnnounce ==
    ASSUME TypeInv, ShapeInv, EventInv, ShowsHash, ShowsHash', Publish
    PROVE  Mapped
<1>1. /\ pc = "publish" /\ pc' = "idle" /\ phase' = phase /\ job.path \in Paths
      /\ view' = [view EXCEPT ![job.path] = HashOf(job.path)]
  BY DEF Publish, FinishJob, EventInv, life, TypeInv, WorkInv
<1>2. \A p \in Paths : HashOf(p)' = HashOf(p)
  BY SameHash DEF Publish, store
<1>3. Live
  BY <1>1, OnlyLivePublishes
<1>4. /\ [p \in Paths |-> ShownAt(p)]' = [p \in Paths |-> ShownAt(p)]
      /\ [p \in Paths |-> ShownAt(p)][job.path] = HashOf(job.path)
  BY <1>1, <1>2 DEF ShowsHash
<1>5. Announced!Announce(job.path)
  BY <1>1, <1>3, <1>4 DEF Announced!Announce, Live
<1> QED BY <1>1, <1>5 DEF Mapped, Announced!Next

\* A lifecycle ends: subscribers are cut off, an event that is due is lost.
LEMMA MapUnload ==
    ASSUME TypeInv, ShapeInv, EventInv, ShowsHash, ShowsHash', files' = files,
           NEW next \in {"down", "errored"}, Unload(next)
    PROVE  Mapped
<1>1. /\ ~Live' /\ pc' = "idle" /\ view' = [p \in Paths |-> Absent]
      /\ \A p \in Paths : HashOf(p)' = HashOf(p)
  BY SameHash DEF Unload, ClearWork, FinishJob, Live
<1>2. CASE ~Live
  <2>1. view = [p \in Paths |-> Absent] /\ pc # "publish"
    BY <1>2, OnlyLivePublishes DEF EventInv
  <2>2. Live' = Live
    BY <1>1, <1>2 DEF Live
  <2>3. view' = view /\ Due' = Due
    BY <1>1, <2>1 DEF Due
  <2> QED BY <1>1, <2>2, <2>3, MapStutter
<1>3. CASE Live
  <2>1. [p \in Paths |-> ShownAt(p)]' = [p \in Paths |-> ShownAt(p)]
    BY <1>1 DEF ShowsHash
  <2>2. Announced!GoOffline
    BY <1>1, <1>3, <2>1 DEF Announced!GoOffline, Announced!Nothing, Live
  <2> QED BY <2>2 DEF Mapped, Announced!Next
<1> QED BY <1>2, <1>3

LEMMA MapFailJob ==
    ASSUME TypeInv, ShapeInv, EventInv, ShowsHash, ShowsHash', files' = files,
           pc # "publish", NEW S, FailJob(S)
    PROVE  Mapped
<1>1. CASE phase = "scanning"
  BY <1>1, MapUnload DEF FailJob
<1>2. CASE phase # "scanning"
  <2>1. Live' = Live /\ view' = view /\ Due' = Due
    BY <1>2 DEF FailJob, FinishJob, Live, Due
  <2> QED BY <2>1, SameHash, MapStutter
<1> QED BY <1>1, <1>2

LEMMA MapBootstrap ==
    ASSUME TypeInv, ShapeInv, EventInv, ShowsHash, ShowsHash', Bootstrap
    PROVE  Mapped
<1>1. CASE Start \/ (\E h \in Hidden : ScanWalk(h)) \/ ScanNext \/ ScanDone
  <2>1. files' = files /\ view' = view /\ Due' = Due /\ Live' = Live
    <3>1. files' = files /\ view' = view /\ ~Live /\ ~Live'
      BY <1>1 DEF Start, ScanWalk, ScanNext, ScanDone, store, ghost, life, Live
    <3>2. pc # "publish" /\ pc' # "publish"
      BY <1>1 DEF Start, ScanWalk, ScanNext, ScanDone, ShapeInv
    <3> QED BY <3>1, <3>2 DEF Due, Live
  <2> QED BY <2>1, SameHash, MapStutter
<1>2. CASE Sweep
  <2>1. /\ ~Live /\ ~Live' /\ view' = view /\ pc # "publish" /\ pc' # "publish"
        /\ DropTx(gone) /\ gone \in SUBSET Paths
    BY <1>2 DEF Sweep, ghost, life, Live, TypeInv, WorkInv
  <2>2. \A q \in Paths : HashOf(q)' = IF q \in gone THEN Absent ELSE HashOf(q)
    BY <2>1, DropHash
  <2> QED BY <2>1, <2>2, MapSilent
<1>3. CASE Register
  <2>1. [p \in Paths |-> ShownAt(p)]' = [p \in Paths |-> ShownAt(p)]
    BY <1>3, SameHash DEF Register, store, ShowsHash
  <2>2. view' = [p \in Paths |-> ShownAt(p)]
    BY <1>3 DEF Register, ShowsHash
  <2>3. /\ ~(phase \in {"live", "draining"})
        /\ (phase \in {"live", "draining"})' = TRUE
        /\ (IF pc = "publish" THEN {job.path} ELSE {})'
              = IF pc = "publish" THEN {job.path} ELSE {}
    BY <1>3 DEF Register
  <2>4. Announced!GoLive
    BY <2>1, <2>2, <2>3, Zenon DEF Announced!GoLive
  <2> QED BY <2>4 DEF Mapped, Announced!Next
<1> QED BY <1>1, <1>2, <1>3 DEF Bootstrap

LEMMA MapPipeline ==
    ASSUME TypeInv, ShapeInv, RowInv, EventInv, ShowsHash, ShowsHash', Pipeline
    PROVE  Mapped
<1>1. CASE Decide
  <2>1. CASE FailJob({}) /\ UNCHANGED store
    BY <1>1, <2>1, MapFailJob DEF Decide, store
  <2>2. CASE EndQuietly({}) \/ (UNCHANGED <<phase, ghost>> /\ pc' = "embed")
    <3>1. view' = view /\ Due' = Due /\ Live' = Live
      BY <1>1, <2>2 DEF Decide, EndQuietly, FinishJob, ghost, Due, Live
    <3> QED BY <1>1, <3>1, DecideHash, MapStutter
  <2> QED BY <1>1, <2>1, <2>2 DEF Decide
<1>2. CASE Embed
  <2>1. view' = view /\ Due' = Due /\ Live' = Live /\ files' = files
    BY <1>2 DEF Embed, ghost, life, store, Due, Live
  <2> QED BY <2>1, SameHash, MapStutter
<1>3. CASE Write
  <2>1. pc = "write" /\ job \in Jobs /\ job.path \in Paths /\ job.hash \in Bodies
    BY <1>3 DEF Write, TypeInv, WorkInv
  <2>2. CASE FailJob({job.path}) /\ UNCHANGED store
    BY <2>1, <2>2, MapFailJob DEF store
  <2>3. CASE WriteTx(job) /\ phase = "scanning" /\ EndQuietly({})
    <3>1. /\ ~Live /\ ~Live' /\ view' = view /\ pc' # "publish"
      BY <2>3 DEF EndQuietly, FinishJob, Live
    <3>2. \A q \in Paths : HashOf(q)' = IF q = job.path THEN job.hash ELSE HashOf(q)
      BY <2>1, <2>3, WriteHash
    <3> QED BY <2>1, <3>1, <3>2, MapSilent
  <2>4. CASE WriteTx(job) /\ phase # "scanning" /\ UNCHANGED <<phase, ghost>>
             /\ pc' = "publish"
    <3>1. Live /\ Live' /\ view' = view
      BY <1>3, <2>4 DEF Write, Running, Live, ghost
    <3>2. job'.path = job.path
      BY <1>3, <2>1, <2>4 DEF Write, EndQuietly, FinishJob, FailJob, Jobs
    <3>3. \A q \in Paths : HashOf(q)' = IF q = job.path THEN job.hash ELSE HashOf(q)
      BY <2>1, <2>4, WriteHash
    <3>4. HashOf(job.path) # job.hash
      BY <2>1 DEF RowInv
    <3> QED BY <2>1, <2>4, <3>1, <3>2, <3>3, <3>4, MapChange
  <2> QED BY <1>3, <2>2, <2>3, <2>4 DEF Write
<1> QED BY <1>1, <1>2, <1>3 DEF Pipeline

LEMMA MapConsumer ==
    ASSUME TypeInv, ShapeInv, EventInv, ShowsHash, ShowsHash', Consumer
    PROVE  Mapped
<1>1. Live /\ Live' /\ Live' = Live
  BY ConsumerIsLive DEF Live
<1>2. CASE (\E h \in Hidden : RescanWalk(h)) \/ Receive \/ RescanNext \/ Stat
  <2>1. view' = view /\ Due' = Due /\ files' = files
    BY <1>2 DEF RescanWalk, Receive, RescanNext, Stat, ConsumerIdle, ghost, store, Due
  <2> QED BY <1>1, <2>1, SameHash, MapStutter
<1>3. CASE Remove
  <2>1. /\ pc = "remove" /\ DropTx({job.path}) /\ job \in Jobs /\ job.path \in Paths
        /\ view' = view
    BY <1>3 DEF Remove, TypeInv, WorkInv, ghost
  <2>2. \A p \in Paths : HashOf(p)' = IF p = job.path THEN Absent ELSE HashOf(p)
    BY <2>1, DropHash
  <2>3. CASE files[job.path] = Absent
    <3>1. Due' = Due
      BY <1>3, <2>3 DEF Remove, FinishJob, Due
    <3>2. \A p \in Paths : HashOf(p)' = HashOf(p)
      BY <2>2, <2>3 DEF HashOf
    <3> QED BY <1>1, <2>1, <3>1, <3>2, MapStutter
  <2>4. CASE files[job.path] # Absent
    <3>1. pc' = "publish" /\ job'.path = job.path
      BY <1>3, <2>1, <2>4 DEF Remove, Jobs
    <3>2. HashOf(job.path) # Absent
      BY <2>1, <2>4, MarkAssumption DEF HashOf, TypeInv, StoreInv, Rows, Hashes
    <3> QED BY <1>1, <2>1, <2>2, <3>1, <3>2, MapChange
  <2> QED BY <2>3, <2>4
<1> QED BY <1>2, <1>3, MapAnnounce DEF Consumer

LEMMA MapFailure ==
    ASSUME TypeInv, ShapeInv, EventInv, ShowsHash, ShowsHash', Failure
    PROVE  Mapped
<1>1. CASE EmbedSkips
  <2>1. view' = view /\ Due' = Due /\ Live' = Live /\ files' = files
    BY <1>1 DEF EmbedSkips, EndQuietly, FinishJob, store, Due, Live
  <2> QED BY <2>1, SameHash, MapStutter
<1>2. CASE TurnFails
  BY <1>2, MapFailJob DEF TurnFails, store
<1>3. CASE WalkFails
  <2>1. CASE Unload("errored")
    BY <1>3, <2>1, MapUnload DEF WalkFails, store
  <2>2. CASE UNCHANGED <<phase, work, ghost>>
    BY <1>3, <2>2, MapFrame DEF WalkFails, work, store, ghost, Live
  <2> QED BY <1>3, <2>1, <2>2 DEF WalkFails
<1> QED BY <1>1, <1>2, <1>3 DEF Failure

LEMMA MapOperation ==
    ASSUME TypeInv, ShapeInv, EventInv, ShowsHash, ShowsHash', Operation
    PROVE  Mapped
<1>1. CASE Unload("down") /\ files' = files
  BY <1>1, MapUnload
<1>2. CASE Rebuild
  <2>1. ~Live /\ ~Live' /\ view' = view /\ pc # "publish" /\ pc' # "publish"
    BY <1>2 DEF Rebuild, ShapeInv, Live, work
  <2>2. ASSUME NEW q \in Paths
        PROVE  HashOf(q)' = IF HashOf(q) = Absent THEN Absent ELSE Sentinel
    <3> DEFINE row == [files[q] EXCEPT !.hash = Sentinel]
    <3>1. CASE files[q] = Absent
      BY <1>2, <3>1 DEF Rebuild, HashOf
    <3>2. CASE files[q] # Absent
      <4>1. files[q] \in Rows
        BY <3>2 DEF TypeInv, StoreInv
      <4>2. row \in Rows /\ row.hash = Sentinel /\ files[q].hash # Absent
        BY <4>1, MarkAssumption DEF Rows, Hashes
      <4>3. files'[q] = row
        BY <1>2, <3>2 DEF Rebuild
      <4> HIDE DEF row
      <4> QED BY <3>2, <4>2, <4>3, AbsentAssumption DEF HashOf
    <3> QED BY <3>1, <3>2
  <2> QED BY <2>1, <2>2, MapSilent
<1>3. CASE RequestRescan \/ RequestStop \/ DrainBegins
  <2>1. UNCHANGED <<files, pc, job, view>> /\ Live' = Live
    BY <1>3 DEF RequestRescan, RequestStop, DrainBegins, store, work, ghost, Live
  <2> QED BY <2>1, MapFrame
<1> QED BY <1>1, <1>2, <1>3
        DEF Operation, Crash, BootstrapCancelled, DrainEnds, ConsumerAborted, store

LEMMA MapStep ==
    ASSUME TypeInv, ShapeInv, RowInv, EventInv, ShowsHash, ShowsHash',
           NoneDetached, [Next]_vars
    PROVE  Mapped
<1>1. CASE Environment \/ (\E p \in Paths : SendEvent(p)) \/ UNCHANGED vars
  <2>1. UNCHANGED <<files, pc, job, view>> /\ Live' = Live
    BY <1>1 DEF Environment, WriteFile, DeleteFile, TouchFile, Notify, SendEvent,
                vars, store, life, work, ghost, Live
  <2> QED BY <2>1, MapFrame
<1>2. CASE Detached
  BY <1>2 DEF Detached, NoneDetached
<1> QED BY <1>1, <1>2, MapBootstrap, MapPipeline, MapConsumer, MapFailure,
           MapOperation DEF Next

\* Every behaviour without detached calls is a behaviour of AnnouncedIndex:
\* searches see whole versions only, and live events are the exact, ordered log of
\* what searches see.
THEOREM VaultKeepsItsPromise == Spec /\ []NoneDetached => AnnouncesEveryChange
<1>1. Init => Announced!Init
  <2>1. ASSUME Init
        PROVE  /\ [p \in Paths |-> ShownAt(p)] = [p \in Paths |-> Absent]
               /\ (phase \in {"live", "draining"}) = FALSE
               /\ view = [p \in Paths |-> Absent]
               /\ (IF pc = "publish" THEN {job.path} ELSE {}) = {}
    BY <2>1 DEF Init, ShownAt
  <2> QED BY <2>1, Zenon DEF Announced!Init, Announced!Nothing
<1>2. /\ BaseInv /\ EventInv /\ ShowsHash /\ ShowsHash' /\ NoneDetached
      /\ [Next]_vars
      => [Announced!Next]_(Announced!vars)
  BY MapStep DEF BaseInv, Mapped
<1> QED BY <1>1, <1>2, BaseAlways, EventAlways, ShowsAlways, PTL
        DEF Spec, AnnouncesEveryChange, Announced!Spec

-----------------------------------------------------------------------------
(* Ages.                                                                   *)

\* No mtime comes from the future, and a job that has read its file knows the
\* version its mtime belongs to.
AgeInv ==
    /\ \A p \in OnDisk : disk[p].mtime <= clock
    /\ \A p \in InRows : files[p].mtime <= clock
    /\ InPipeline => job.mtime <= clock
    /\ phase = "scanning" => \A j \in todo : j.mtime <= clock
    /\ pc \in {"embed", "write"} =>
          (disk[job.path] # Absent /\ disk[job.path].mtime = job.mtime
              => disk[job.path].body = job.hash)

\* The stat gate is sound because of the ages.
FreshInv == AgeInv /\ FreshStat

LEMMA FreshInit == Init => FreshInv
<1> SUFFICES ASSUME Init PROVE FreshInv
  OBVIOUS
<1>1. InRows = {} /\ pc = "idle" /\ phase = "down" /\ clock = 0
  BY DEF Init, InRows
<1>2. ASSUME NEW p \in OnDisk
      PROVE  disk[p].mtime <= clock
  <2>1. disk[p] \in [mtime : {0}, body : Bodies]
    BY <1>2 DEF Init, OnDisk
  <2> QED BY <2>1, <1>1
<1> QED BY <1>1, <1>2 DEF FreshInv, AgeInv, FreshStat, InPipeline

\* Time passes for one file; whatever was known of it before is older.
LEMMA FreshEnvironment ==
    ASSUME FreshMtimes, TypeInv, FreshInv, Environment
    PROVE  FreshInv'
<1>1. /\ clock \in Nat /\ clock' = clock + 1
      /\ UNCHANGED <<files, phase, pc, job, todo>>
  BY DEF Environment, WriteFile, DeleteFile, TouchFile, TypeInv, EnvInv, store,
         life, work
<1>2. PICK p \in Paths :
         /\ \A q \in Paths : q # p => disk'[q] = disk[q]
         /\ disk'[p] # Absent => disk'[p].mtime = clock + 1
  <2>1. disk \in [Paths -> Files \cup {Absent}] /\ clock + 1 \in Nat
    BY <1>1 DEF TypeInv, EnvInv
  <2>2. ASSUME NEW p \in Paths, NEW b \in Bodies, WriteFile(p, b)
        PROVE  /\ \A q \in Paths : q # p => disk'[q] = disk[q]
               /\ disk'[p].mtime = clock + 1
    <3>1. disk' = [disk EXCEPT ![p] = [mtime |-> clock + 1, body |-> b]]
      BY <2>2 DEF WriteFile
    <3> QED BY <2>1, <3>1
  <2>3. ASSUME NEW p \in Paths, DeleteFile(p)
        PROVE  /\ \A q \in Paths : q # p => disk'[q] = disk[q]
               /\ disk'[p] = Absent
    BY <2>1, <2>3 DEF DeleteFile
  <2>4. ASSUME NEW p \in Paths, TouchFile(p)
        PROVE  /\ \A q \in Paths : q # p => disk'[q] = disk[q]
               /\ disk'[p].mtime = clock + 1
    <3>1. disk[p] \in Files /\ disk' = [disk EXCEPT ![p].mtime = clock + 1]
      BY <2>1, <2>4 DEF TouchFile
    <3> QED BY <2>1, <3>1 DEF Files
  <2> QED BY <2>2, <2>3, <2>4 DEF Environment
<1>3. ASSUME NEW q \in Paths, disk'[q] # Absent
      PROVE  disk'[q].mtime = clock + 1 \/ disk'[q] = disk[q]
  BY <1>2, <1>3
<1>4. \A q \in Paths : /\ disk[q] # Absent => disk[q] \in Files
                       /\ files[q] # Absent => files[q] \in Rows
  BY DEF TypeInv, EnvInv, StoreInv
<1>5. /\ \A q \in OnDisk : disk[q].mtime \in Nat
      /\ \A q \in InRows : files[q].mtime \in Nat
      /\ job.mtime \in Nat /\ \A j \in todo : j.mtime \in Nat
      /\ InPipeline => job.path \in Paths
  BY <1>4 DEF TypeInv, WorkInv, Jobs, Files, Rows, OnDisk, InRows, InPipeline
<1>6. AgeInv'
  <2>1. \A q \in OnDisk' : disk'[q].mtime <= clock'
    BY <1>1, <1>3, <1>5 DEF FreshInv, AgeInv, OnDisk
  <2>2. \A q \in InRows' : files'[q].mtime <= clock'
    BY <1>1, <1>5 DEF FreshInv, AgeInv, InRows
  <2>3. InPipeline' => job'.mtime <= clock'
    BY <1>1, <1>5 DEF FreshInv, AgeInv, InPipeline
  <2>4. phase' = "scanning" => \A j \in todo' : j.mtime <= clock'
    BY <1>1, <1>5 DEF FreshInv, AgeInv
  <2>5. pc' \in {"embed", "write"} =>
           (disk'[job'.path] # Absent /\ disk'[job'.path].mtime = job'.mtime
              => disk'[job'.path].body = job'.hash)
    <3> SUFFICES ASSUME pc \in {"embed", "write"}, disk'[job.path] # Absent,
                        disk'[job.path].mtime = job.mtime
                 PROVE  disk'[job.path].body = job.hash
      BY <1>1
    <3>1. job.mtime <= clock /\ job.path \in Paths /\ job.mtime \in Nat
      BY <1>5 DEF FreshInv, AgeInv, InPipeline
    <3>2. disk'[job.path] = disk[job.path]
      BY <1>1, <1>3, <3>1
    <3> QED BY <3>2 DEF FreshInv, AgeInv
  <2> QED BY <2>1, <2>2, <2>3, <2>4, <2>5 DEF AgeInv
<1>7. FreshStat'
  <2> SUFFICES ASSUME NEW q \in InRows \cap OnDisk', files[q].hash # Sentinel,
                      files[q].mtime = disk'[q].mtime
               PROVE  files[q].hash = disk'[q].body
    BY <1>1 DEF FreshStat, InRows
  <2>1. files[q].mtime <= clock /\ files[q].mtime \in Nat
    BY <1>5 DEF FreshInv, AgeInv
  <2>2. disk'[q] = disk[q] /\ q \in OnDisk
    BY <1>1, <1>3, <2>1 DEF OnDisk, InRows
  <2> QED BY <2>2 DEF FreshInv, FreshStat
<1> QED BY <1>6, <1>7 DEF FreshInv

\* What a job knows of its file.
JobAge ==
    /\ InPipeline => job.mtime <= clock
    /\ phase = "scanning" => \A j \in todo : j.mtime <= clock
    /\ pc \in {"embed", "write"} =>
          (disk[job.path] # Absent /\ disk[job.path].mtime = job.mtime
              => disk[job.path].body = job.hash)

\* A transaction that leaves rows no younger than now, with the hash of the
\* version their mtime belongs to.
LEMMA FreshByRows ==
    ASSUME FreshInv, UNCHANGED env, JobAge',
           \A q \in Paths :
              \/ files'[q] = files[q] \/ files'[q] = Absent
              \/ /\ files'[q].mtime <= clock
                 /\ disk[q] # Absent /\ disk[q].mtime = files'[q].mtime
                       /\ files'[q].hash # Sentinel
                    => files'[q].hash = disk[q].body
    PROVE  FreshInv'
<1>1. disk' = disk /\ clock' = clock
  BY DEF env
<1>2. \A q \in InRows' : files'[q].mtime <= clock
  BY DEF InRows, FreshInv, AgeInv
<1>3. FreshStat'
  BY <1>1 DEF FreshInv, FreshStat, InRows, OnDisk
<1>4. \A q \in OnDisk' : disk'[q].mtime <= clock'
  BY <1>1 DEF FreshInv, AgeInv, OnDisk
<1> QED BY <1>1, <1>2, <1>3, <1>4 DEF FreshInv, AgeInv, JobAge

LEMMA FreshQuiet ==
    ASSUME FreshInv, UNCHANGED <<env, files>>,
           ~InPipeline' \/ (InPipeline /\ job' = job /\
              (pc' = "embed" \/ pc' = "write" => pc \in {"embed", "write"})),
           phase' = "scanning" =>
              todo' = {} \/ (phase = "scanning" /\ todo' \subseteq todo)
    PROVE  FreshInv'
<1>1. JobAge'
  BY DEF FreshInv, AgeInv, JobAge, InPipeline, env
<1> QED BY <1>1, FreshByRows

LEMMA UnloadFresh ==
    ASSUME FreshInv, UNCHANGED <<env, files>>, NEW next \in {"down", "errored"},
           Unload(next)
    PROVE  FreshInv'
<1>1. ~InPipeline' /\ phase' # "scanning"
  BY DEF Unload, ClearWork, FinishJob, InPipeline
<1> QED BY <1>1, FreshQuiet

LEMMA FailJobFresh ==
    ASSUME FreshInv, UNCHANGED <<env, files>>, NEW S, FailJob(S)
    PROVE  FreshInv'
<1>1. CASE phase = "scanning"
  BY <1>1, UnloadFresh DEF FailJob
<1>2. CASE phase # "scanning"
  <2>1. ~InPipeline' /\ phase' # "scanning"
    BY <1>2 DEF FailJob, FinishJob, InPipeline
  <2> QED BY <2>1, FreshQuiet
<1> QED BY <1>1, <1>2

LEMMA DropFresh ==
    ASSUME FreshInv, UNCHANGED env, NEW S, DropTx(S), ~InPipeline',
           phase' = "scanning" => todo' = {}
    PROVE  FreshInv'
<1>1. \A q \in Paths : files'[q] = files[q] \/ files'[q] = Absent
  BY DEF DropTx
<1>2. JobAge'
  BY DEF JobAge, InPipeline
<1> QED BY <1>1, <1>2, FreshByRows

LEMMA FreshBootstrap ==
    ASSUME TypeInv, ShapeInv, FreshInv, Bootstrap
    PROVE  FreshInv'
<1>1. CASE Start
  <2>1. todo' = {} /\ ~InPipeline' /\ UNCHANGED <<env, files>>
    BY <1>1 DEF Start, ShapeInv, InPipeline, store
  <2> QED BY <2>1, FreshQuiet
<1>2. ASSUME NEW h \in Hidden, ScanWalk(h)
      PROVE  FreshInv'
  <2> DEFINE entry(p) == [JobFor(p) EXCEPT !.mtime = disk[p].mtime,
                                           !.size = Size[disk[p].body],
                                           !.prior = files[p]]
  <2>1. /\ todo' = {entry(p) : p \in OnDisk \ h} /\ pc' = "idle" /\ files' = files
        /\ UNCHANGED env
    BY <1>2 DEF ScanWalk, store
  <2>2. \A p \in OnDisk : entry(p).mtime <= clock
    BY DEF JobFor, NoJob, FreshInv, AgeInv
  <2> HIDE DEF entry
  <2>3. JobAge'
    BY <2>1, <2>2 DEF JobAge, InPipeline, env
  <2> QED BY <2>1, <2>3, FreshByRows
<1>3. CASE ScanNext
  <2>1. PICK j \in todo : job' = j /\ todo' = todo \ {j} /\ pc' = "decide"
    BY <1>3 DEF ScanNext
  <2>2. phase = "scanning" /\ files' = files /\ UNCHANGED env
    BY <1>3 DEF ScanNext, store
  <2>3. \A k \in todo : k.mtime <= clock
    BY <2>2 DEF FreshInv, AgeInv
  <2>4. JobAge'
    BY <2>1, <2>2, <2>3 DEF JobAge, env
  <2> QED BY <2>2, <2>4, FreshByRows
<1>4. CASE ScanDone
  BY <1>4, FreshQuiet DEF ScanDone, store, InPipeline
<1>5. CASE Sweep
  <2>1. todo' = {} /\ ~InPipeline' /\ DropTx(gone) /\ UNCHANGED env
    BY <1>5 DEF Sweep, ShapeInv, InPipeline
  <2> QED BY <2>1, DropFresh
<1>6. CASE Register
  BY <1>6, FreshQuiet DEF Register, store, InPipeline
<1> QED BY <1>1, <1>2, <1>3, <1>4, <1>5, <1>6 DEF Bootstrap

LEMMA FreshDecide ==
    ASSUME TypeInv, ShapeInv, RowInv, FreshInv, Decide
    PROVE  FreshInv'
<1>1. /\ job.path \in Paths /\ job \in Jobs /\ StoreInv /\ UNCHANGED env
      /\ pc = "decide" /\ InPipeline
  BY DEF Decide, TypeInv, WorkInv, InPipeline
<1>2. CASE FailJob({}) /\ UNCHANGED store
  BY <1>1, <1>2, FailJobFresh DEF store
<1>3. CASE EndQuietly({})
  <2>1. ~InPipeline' /\ phase' = phase /\ todo' = todo
    BY <1>3 DEF EndQuietly, FinishJob, InPipeline
  <2>2. JobAge'
    BY <1>1, <2>1 DEF JobAge, InPipeline, FreshInv, AgeInv, env
  <2>3. CASE UNCHANGED store
    BY <1>1, <2>2, <2>3, FreshByRows DEF store
  <2>4. CASE HashMatches(job) /\ TouchTx(job, disk[job.path].body)
    <3>1. disk[job.path].body \in Bodies
      BY <1>1, <2>4, ReadBody DEF HashMatches, TypeInv
    <3>2. files[job.path] # Absent /\ files[job.path].hash = disk[job.path].body
      BY <1>1, <2>4 DEF RowInv, HashMatches
    <3>3. /\ files'[job.path].mtime = job.mtime
          /\ files'[job.path].hash = disk[job.path].body
      BY <1>1, <2>4, <3>1, <3>2, TouchedRow
    <3>4. job.mtime <= clock
      BY <1>1 DEF FreshInv, AgeInv
    <3>5. \A q \in Paths : q # job.path => files'[q] = files[q]
      BY DecideOneRow
    <3> QED BY <1>1, <2>2, <3>3, <3>4, <3>5, FreshByRows
  <2> QED BY <1>3, <2>3, <2>4 DEF Decide, store
<1>4. CASE /\ job' = [job EXCEPT !.hash = disk[job.path].body] /\ pc' = "embed"
           /\ UNCHANGED <<store, phase, todo>>
  <2>1. /\ job'.path = job.path /\ job'.mtime = job.mtime
        /\ job'.hash = disk[job.path].body
    BY <1>1, <1>4 DEF Jobs
  <2>2. JobAge'
    BY <1>1, <1>4, <2>1 DEF JobAge, InPipeline, FreshInv, AgeInv, env
  <2> QED BY <1>1, <1>4, <2>2, FreshByRows DEF store
<1> QED BY <1>2, <1>3, <1>4 DEF Decide

LEMMA FreshWrite ==
    ASSUME TypeInv, ShapeInv, FreshInv, Write
    PROVE  FreshInv'
<1>1. /\ job.path \in Paths /\ job \in Jobs /\ job.hash \in Bodies /\ StoreInv
      /\ UNCHANGED env /\ pc = "write" /\ InPipeline
  BY DEF Write, TypeInv, WorkInv, InPipeline
<1>2. CASE FailJob({job.path}) /\ UNCHANGED store
  BY <1>1, <1>2, FailJobFresh DEF store
<1>3. CASE WriteTx(job) /\ ~InPipeline' /\ phase' = phase /\ todo' = todo
  <2>1. files'[job.path].mtime = job.mtime /\ files'[job.path].hash = job.hash
    BY <1>1, <1>3, WrittenRow
  <2>2. \A q \in Paths : q # job.path => files'[q] = files[q]
    BY WriteOneRow
  <2>3. /\ job.mtime <= clock
        /\ disk[job.path] # Absent /\ disk[job.path].mtime = job.mtime
              => disk[job.path].body = job.hash
    BY <1>1 DEF FreshInv, AgeInv
  <2>4. JobAge'
    BY <1>1, <1>3 DEF JobAge, InPipeline, FreshInv, AgeInv, env
  <2> QED BY <1>1, <2>1, <2>2, <2>3, <2>4, FreshByRows
<1>4. WriteTx(job) /\ ~WriteConflict(job) => ~InPipeline' /\ phase' = phase /\ todo' = todo
  BY DEF Write, EndQuietly, FinishJob, InPipeline
<1> QED BY <1>2, <1>3, <1>4 DEF Write

LEMMA FreshConsumer ==
    ASSUME TypeInv, ShapeInv, FreshInv, Consumer
    PROVE  FreshInv'
<1>1. phase' # "scanning" /\ UNCHANGED env
  BY ConsumerIsLive DEF Consumer, RescanWalk, Receive, RescanNext, Stat, Remove,
     Publish
<1>2. CASE Stat /\ disk[job.path] # Absent
  <2>1. job \in Jobs /\ job.path \in Paths /\ pc' = "decide" /\ files' = files
    BY <1>2 DEF Stat, TypeInv, WorkInv, store
  <2>2. job'.mtime = disk[job.path].mtime
    BY <1>2, <2>1 DEF Stat, Jobs
  <2>3. job'.mtime <= clock
    BY <1>2, <2>1, <2>2 DEF FreshInv, AgeInv, OnDisk
  <2>4. JobAge'
    BY <1>1, <2>1, <2>3 DEF JobAge, env
  <2> QED BY <1>1, <2>1, <2>4, FreshByRows
<1>3. CASE Remove
  <2>1. DropTx({job.path}) /\ ~InPipeline'
    BY <1>3 DEF Remove, FinishJob, InPipeline
  <2> QED BY <1>1, <2>1, DropFresh
<1>4. CASE \/ (Stat /\ disk[job.path] = Absent) \/ Receive \/ RescanNext \/ Publish
           \/ \E h \in Hidden : RescanWalk(h)
  <2>1. ~InPipeline' /\ files' = files
    BY <1>4 DEF Stat, Receive, RescanNext, Publish, RescanWalk, ConsumerIdle,
                FinishJob, InPipeline, store
  <2> QED BY <1>1, <2>1, FreshQuiet
<1> QED BY <1>2, <1>3, <1>4 DEF Consumer

LEMMA FreshFailure ==
    ASSUME TypeInv, ShapeInv, FreshInv, Failure
    PROVE  FreshInv'
<1>1. UNCHANGED <<env, files>>
  BY DEF Failure, EmbedSkips, TurnFails, WalkFails, store
<1>2. CASE EmbedSkips
  <2>1. ~InPipeline' /\ phase' = phase /\ todo' = todo
    BY <1>2 DEF EmbedSkips, EndQuietly, FinishJob, InPipeline
  <2> QED BY <1>1, <2>1, FreshQuiet
<1>3. CASE TurnFails
  BY <1>1, <1>3, FailJobFresh DEF TurnFails
<1>4. CASE WalkFails
  <2>1. CASE Unload("errored")
    BY <1>1, <2>1, UnloadFresh
  <2>2. CASE ConsumerIdle /\ UNCHANGED <<phase, work>>
    BY <1>1, <2>2, FreshQuiet DEF work, ConsumerIdle, InPipeline
  <2> QED BY <1>4, <2>1, <2>2 DEF WalkFails
<1> QED BY <1>2, <1>3, <1>4 DEF Failure

LEMMA FreshOperation ==
    ASSUME TypeInv, ShapeInv, FreshInv, Operation
    PROVE  FreshInv'
<1>1. UNCHANGED env
  BY DEF Operation, RequestRescan, RequestStop, Rebuild, Crash, BootstrapCancelled,
         DrainBegins, DrainEnds, ConsumerAborted
<1>2. CASE Unload("down") /\ files' = files
  BY <1>1, <1>2, UnloadFresh
<1>3. CASE Rebuild
  <2>1. ~InPipeline' /\ phase' # "scanning"
    BY <1>3 DEF Rebuild, ShapeInv, work, InPipeline
  <2>2. JobAge'
    BY <2>1 DEF JobAge, InPipeline
  <2>3. ASSUME NEW q \in Paths
        PROVE  \/ files'[q] = Absent
               \/ files'[q].mtime <= clock /\ files'[q].hash = Sentinel
    <3> DEFINE row == [files[q] EXCEPT !.hash = Sentinel]
    <3>1. CASE files[q] # Absent
      <4>1. files[q] \in Rows /\ files[q].mtime <= clock
        BY <3>1 DEF TypeInv, StoreInv, FreshInv, AgeInv, InRows
      <4>2. row.mtime <= clock /\ row.hash = Sentinel
        BY <4>1 DEF Rows
      <4>3. files'[q] = row
        BY <1>3, <3>1 DEF Rebuild
      <4> HIDE DEF row
      <4> QED BY <4>2, <4>3
    <3> QED BY <1>3, <3>1 DEF Rebuild
  <2> QED BY <1>1, <2>2, <2>3, FreshByRows
<1>4. CASE RequestRescan \/ RequestStop \/ DrainBegins
  <2>1. UNCHANGED <<files, pc, job, todo>> /\ (phase' = "scanning" => phase = "scanning")
    BY <1>4 DEF RequestRescan, RequestStop, DrainBegins, store, work
  <2> QED BY <1>1, <2>1, FreshQuiet DEF InPipeline
<1> QED BY <1>2, <1>3, <1>4
        DEF Operation, Crash, BootstrapCancelled, DrainEnds, ConsumerAborted, store

LEMMA FreshStep ==
    ASSUME FreshMtimes, TypeInv, ShapeInv, RowInv, NoneDetached, FreshInv,
           [Next]_vars
    PROVE  FreshInv'
<1>1. CASE (\E p \in Paths : SendEvent(p)) \/ UNCHANGED vars
  <2>1. UNCHANGED <<env, files, pc, job, todo, phase>>
    BY <1>1 DEF SendEvent, vars, store, life, work
  <2> QED BY <2>1, FreshQuiet DEF InPipeline
<1>2. CASE Embed
  <2>1. UNCHANGED <<env, files, job, todo, phase>> /\ pc = "embed" /\ pc' = "write"
    BY <1>2 DEF Embed, store, life
  <2> QED BY <2>1, FreshQuiet DEF InPipeline
<1>3. CASE Detached
  BY <1>3 DEF Detached, NoneDetached
<1> QED BY <1>1, <1>2, <1>3, FreshEnvironment, FreshBootstrap, FreshDecide,
           FreshWrite, FreshConsumer, FreshFailure, FreshOperation
        DEF Next, Pipeline

LEMMA FreshAlways ==
    ASSUME FreshMtimes
    PROVE  Spec /\ []NoneDetached => []FreshInv
<1>1. BaseInv /\ NoneDetached /\ FreshInv /\ [Next]_vars => FreshInv'
  BY FreshStep DEF BaseInv
<1> QED BY <1>1, FreshInit, BaseAlways, PTL DEF Spec

\* The stat gate never passes a row whose file changed: although the file may be
\* rewritten between the stat, the read and the write of the row, a row with the
\* mtime of the file on disk was hashed from exactly that version.
THEOREM StatGateIsSound ==
    ASSUME FreshMtimes
    PROVE  Spec /\ []NoneDetached => []FreshStat
<1>1. FreshInv => FreshStat
  BY DEF FreshInv
<1> QED BY <1>1, FreshAlways, PTL

-----------------------------------------------------------------------------
(* The watcher's queues.                                                   *)

\* The last event queued for a path is a remove only if the file is gone.
LastIsUpsert(p) ==
    /\ pending[p] # <<>> => pending[p][Len(pending[p])] = "upsert"
    /\ pending[p] = <<>> => \A i \in InChan(p) :
          (\A k \in InChan(p) : k <= i) => chan[i].kind = "upsert"

QueueInv ==
    /\ ~watching => chan = <<>> /\ \A p \in Paths : pending[p] = <<>>
    /\ \A p \in OnDisk \ excused : LastIsUpsert(p)

LEMMA TailEnds ==
    ASSUME NEW S, NEW q \in Seq(S), q # <<>>
    PROVE  /\ Tail(q) \in Seq(S) /\ Len(Tail(q)) = Len(q) - 1
           /\ Tail(q) # <<>> => Tail(q)[Len(Tail(q))] = q[Len(q)]
           /\ Tail(q) = <<>> => Head(q) = q[Len(q)]
<1> QED OBVIOUS

LEMMA TailShifts ==
    ASSUME NEW S, NEW q \in Seq(S), q # <<>>
    PROVE  /\ Len(q) \in Nat /\ Len(q) >= 1 /\ Len(Tail(q)) = Len(q) - 1
           /\ Head(q) = q[1] /\ q[1] \in S
           /\ \A i \in 1 .. Len(q) - 1 : Tail(q)[i] = q[i + 1]
<1> QED OBVIOUS

LEMMA QueueInit == Init => QueueInv
<1> SUFFICES ASSUME Init PROVE QueueInv
  OBVIOUS
<1>1. chan = <<>> /\ pending = [p \in Paths |-> <<>>]
  BY DEF Init
<1>2. \A p : InChan(p) = {}
  BY <1>1 DEF InChan
<1> QED BY <1>1, <1>2 DEF QueueInv, LastIsUpsert, OnDisk

LEMMA QueueFrame ==
    ASSUME QueueInv, UNCHANGED <<disk, pending, chan>>, watching => watching',
           \A p \in excused \ excused' : ~Queued(p)
    PROVE  QueueInv'
<1>1. \A p : InChan(p)' = InChan(p)
  BY DEF InChan
<1>2. \A p : LastIsUpsert(p) => LastIsUpsert(p)'
  BY <1>1 DEF LastIsUpsert
<1>3. \A p : ~Queued(p) => LastIsUpsert(p)
  BY DEF Queued, LastIsUpsert
<1> QED BY <1>2, <1>3 DEF QueueInv, OnDisk

LEMMA UnloadQueue ==
    ASSUME NEW next, Unload(next)
    PROVE  QueueInv'
<1>1. chan' = <<>> /\ pending' = [p \in Paths |-> <<>>]
  BY DEF Unload, ClearWatch
<1>2. \A p : InChan(p)' = {}
  BY <1>1 DEF InChan
<1> QED BY <1>1, <1>2 DEF QueueInv, LastIsUpsert, OnDisk

\* What a change of p leaves in the queues.
LEMMA NotifyQueues ==
    ASSUME TypeInv, QueueInv, NEW p \in Paths, NEW kind \in Events,
           Notify(p, kind) \/ NotifyNobody(p), watching' = watching, chan' = chan,
           \A q \in Paths : q # p => disk'[q] = disk[q],
           disk'[p] # Absent => kind = "upsert"
    PROVE  /\ QueueInv' /\ excused \subseteq excused'
           /\ watching => Queued(p)' \/ p \in excused'
           /\ \A q \in Paths : q # p => Queued(q)' = Queued(q)
<1>1. pending \in [Paths -> Seq(Events)]
  BY DEF TypeInv, WatchInv
<1>2. \A q : InChan(q)' = InChan(q)
  BY DEF InChan
<1>3. /\ \A q \in Paths : q # p => pending'[q] = pending[q]
      /\ excused \subseteq excused'
  BY <1>1 DEF Notify, NotifyNobody
<1>4. ASSUME NEW q \in Paths, q # p
      PROVE  Queued(q)' = Queued(q) /\ (LastIsUpsert(q) => LastIsUpsert(q)')
  BY <1>2, <1>3, <1>4 DEF Queued, LastIsUpsert
<1>5. CASE watching /\ Notify(p, kind)
  <2>1. pending'[p] = Coalesce(pending[p], kind)
    BY <1>1, <1>5 DEF Notify
  <2>2. pending'[p] # <<>> /\ pending'[p][Len(pending'[p])] = kind
    BY <1>1, <2>1, CoalesceEnds
  <2>3. Queued(p)'
    BY <2>2 DEF Queued
  <2>4. disk'[p] # Absent => LastIsUpsert(p)'
    BY <2>2 DEF LastIsUpsert
  <2>5. QueueInv'
    BY <1>3, <1>4, <1>5, <2>4 DEF QueueInv, OnDisk
  <2> QED BY <1>3, <1>4, <2>3, <2>5
<1>6. CASE ~watching
  <2>1. pending' = pending /\ chan = <<>> /\ \A q \in Paths : pending[q] = <<>>
    BY <1>6 DEF Notify, NotifyNobody, QueueInv
  <2>2. \A q : InChan(q) = {}
    BY <2>1 DEF InChan
  <2>3. \A q \in Paths : LastIsUpsert(q)'
    BY <1>2, <2>1, <2>2 DEF LastIsUpsert
  <2> QED BY <1>3, <1>4, <1>6, <2>1, <2>3 DEF QueueInv, OnDisk
<1>7. CASE watching /\ NotifyNobody(p)
  <2>1. p \in excused'
    BY <1>7 DEF NotifyNobody
  <2>2. QueueInv'
    BY <1>3, <1>4, <1>7, <2>1 DEF QueueInv, OnDisk
  <2> QED BY <1>3, <1>4, <2>1, <2>2
<1> QED BY <1>5, <1>6, <1>7

LEMMA SendQueues ==
    ASSUME TypeInv, QueueInv, NEW p \in Paths, SendEvent(p)
    PROVE  QueueInv' /\ \A q \in Paths : Queued(q)' = Queued(q)
<1> DEFINE n == Len(chan)
<1> DEFINE e == [kind |-> Head(pending[p]), path |-> p]
<1>1. /\ pending \in [Paths -> Seq(Events)]
      /\ chan \in Seq([kind : Events, path : Paths])
      /\ watching' = watching /\ watching /\ disk' = disk /\ excused' = excused
      /\ chan' = Append(chan, e) /\ pending[p] # <<>>
      /\ pending' = [pending EXCEPT ![p] = Tail(pending[p])]
  BY DEF TypeInv, WatchInv, SendEvent, env, ghost
<1>2. /\ n \in Nat /\ Len(chan') = n + 1 /\ chan'[n + 1] = e
      /\ \A i \in 1 .. n : chan'[i] = chan[i]
  BY <1>1
<1>3. e.path = p /\ e.kind = Head(pending[p])
  OBVIOUS
<1>4. \A q \in Paths : q # p => pending'[q] = pending[q]
  BY <1>1
<1> HIDE DEF e
<1>5. \A q \in Paths : q # p => InChan(q)' = InChan(q)
  BY <1>2, <1>3 DEF InChan
<1>6. InChan(p)' = InChan(p) \cup {n + 1}
  BY <1>2, <1>3 DEF InChan
<1>7. \A q \in Paths : Queued(q)' = Queued(q)
  BY <1>1, <1>4, <1>5, <1>6 DEF Queued
<1>8. ASSUME NEW q \in Paths, q # p, LastIsUpsert(q)
      PROVE  LastIsUpsert(q)'
  <2>1. \A i \in InChan(q) : chan'[i] = chan[i]
    BY <1>2 DEF InChan
  <2> QED BY <1>4, <1>5, <1>8, <2>1 DEF LastIsUpsert
<1>9. ASSUME LastIsUpsert(p)
      PROVE  LastIsUpsert(p)'
  <2>1. /\ pending'[p] = Tail(pending[p]) /\ pending[p] \in Seq(Events)
        /\ pending[p][Len(pending[p])] = "upsert"
    BY <1>1, <1>9 DEF LastIsUpsert
  <2>2. CASE pending'[p] # <<>>
    <3>1. pending'[p][Len(pending'[p])] = "upsert"
      BY <1>1, <2>1, <2>2, TailEnds
    <3> QED BY <2>2, <3>1 DEF LastIsUpsert
  <2>3. CASE pending'[p] = <<>>
    <3>1. Head(pending[p]) = "upsert"
      BY <1>1, <2>1, <2>3, TailEnds
    <3>2. ASSUME NEW i \in InChan(p)', \A k \in InChan(p)' : k <= i
          PROVE  chan'[i].kind = "upsert"
      <4>1. n + 1 <= i /\ i \in 1 .. n + 1
        BY <1>2, <1>6, <3>2 DEF InChan
      <4>2. i = n + 1
        BY <1>2, <4>1
      <4> QED BY <1>2, <1>3, <3>1, <4>2
    <3> QED BY <2>3, <3>2 DEF LastIsUpsert
  <2> QED BY <2>2, <2>3
<1> QED BY <1>1, <1>7, <1>8, <1>9 DEF QueueInv, OnDisk

\* The consumer takes the oldest event.  If it was the last one of its path, it
\* says what became of the file.
LEMMA ReceiveQueues ==
    ASSUME TypeInv, QueueInv, Receive, NEW p, p = Head(chan).path
    PROVE  /\ QueueInv' /\ p \in Paths
           /\ \A q \in Paths : q # p => Queued(q)' = Queued(q)
           /\ Queued(p)' \/ Head(chan).kind = "upsert" \/ disk[p] = Absent \/ p \in excused
<1> DEFINE n == Len(chan)
<1>1. /\ pending' = pending /\ watching' = watching /\ disk' = disk /\ excused' = excused
      /\ chan # <<>> /\ chan' = Tail(chan)
      /\ chan \in Seq([kind : Events, path : Paths])
      /\ pending \in [Paths -> Seq(Events)]
  BY DEF TypeInv, WatchInv, Receive, env, ghost
<1>2. /\ n \in Nat /\ n >= 1 /\ Head(chan) = chan[1] /\ Len(chan') = n - 1
      /\ \A i \in 1 .. n - 1 : chan'[i] = chan[i + 1]
      /\ chan[1] \in [kind : Events, path : Paths]
  BY <1>1, TailShifts
<1>3. p \in Paths
  BY <1>2
<1>4. \A q : \A i : i \in InChan(q)' => i + 1 \in InChan(q)
  BY <1>2 DEF InChan
<1>5. \A q : \A i \in InChan(q) : i # 1 => i - 1 \in InChan(q)'
  <2> TAKE q
  <2> TAKE i \in InChan(q)
  <2> HAVE i # 1
  <2>1. i \in 1 .. n /\ i - 1 \in 1 .. n - 1 /\ (i - 1) + 1 = i
    BY <1>2 DEF InChan
  <2>2. chan'[i - 1] = chan[i]
    BY <1>2, <2>1
  <2> QED BY <1>2, <2>1, <2>2 DEF InChan
<1>6. \A q : q # p => 1 \notin InChan(q)
  BY <1>2 DEF InChan
<1>7. ASSUME NEW q \in Paths, q # p
      PROVE  Queued(q)' = Queued(q)
  <2>1. InChan(q)' = {} <=> InChan(q) = {}
    BY <1>4, <1>5, <1>6, <1>7
  <2> QED BY <1>1, <2>1 DEF Queued
<1>8. ASSUME NEW q \in Paths, LastIsUpsert(q)
      PROVE  LastIsUpsert(q)'
  <2>1. ASSUME pending[q] = <<>>, NEW i \in InChan(q)', \A k \in InChan(q)' : k <= i
        PROVE  chan'[i].kind = "upsert"
    <3>1. i \in 1 .. n - 1 /\ i + 1 \in InChan(q) /\ chan'[i] = chan[i + 1]
      BY <1>2, <1>4, <2>1 DEF InChan
    <3>2. ASSUME NEW k \in InChan(q)
          PROVE  k <= i + 1
      <4>1. k \in 1 .. n
        BY DEF InChan
      <4>2. CASE k # 1
        <5>1. k - 1 <= i
          BY <1>5, <2>1, <4>2
        <5> QED BY <3>1, <4>1, <5>1
      <4> QED BY <3>1, <4>1, <4>2
    <3> QED BY <1>8, <2>1, <3>1, <3>2 DEF LastIsUpsert
  <2> QED BY <1>1, <1>8, <2>1 DEF LastIsUpsert
<1>9. QueueInv'
  <2>1. watching /\ watching'
    BY <1>1 DEF QueueInv
  <2> QED BY <1>1, <1>8, <2>1 DEF QueueInv, OnDisk
<1>10. ASSUME ~Queued(p)', disk[p] # Absent, p \notin excused
       PROVE  Head(chan).kind = "upsert"
  <2>1. pending[p] = <<>> /\ InChan(p)' = {}
    BY <1>1, <1>10 DEF Queued
  <2>2. 1 \in InChan(p) /\ \A k \in InChan(p) : k <= 1
    <3>1. 1 \in InChan(p)
      BY <1>2 DEF InChan
    <3>2. \A k \in InChan(p) : k = 1
      BY <1>5, <2>1
    <3> QED BY <3>1, <3>2
  <2>3. LastIsUpsert(p)
    BY <1>3, <1>10 DEF QueueInv, OnDisk
  <2> QED BY <1>2, <2>1, <2>2, <2>3 DEF LastIsUpsert
<1> QED BY <1>3, <1>7, <1>9, <1>10

LEMMA QueueEnvironment ==
    ASSUME TypeInv, QueueInv, Environment
    PROVE  QueueInv'
<1>1. disk \in [Paths -> Files \cup {Absent}]
  BY DEF TypeInv, EnvInv
<1>2. ASSUME NEW p \in Paths, NEW b \in Bodies, WriteFile(p, b)
      PROVE  QueueInv'
  <2>1. \A q \in Paths : q # p => disk'[q] = disk[q]
    BY <1>1, <1>2 DEF WriteFile
  <2> QED BY <1>2, <2>1, NotifyQueues DEF WriteFile, Events
<1>3. ASSUME NEW p \in Paths, DeleteFile(p)
      PROVE  QueueInv'
  <2>1. disk'[p] = Absent /\ \A q \in Paths : q # p => disk'[q] = disk[q]
    BY <1>1, <1>3 DEF DeleteFile
  <2>2. PICK kind \in Events : Notify(p, kind) \/ NotifyNobody(p)
    BY <1>3 DEF DeleteFile, Events
  <2>3. watching' = watching /\ chan' = chan
    BY <1>3 DEF DeleteFile
  <2> QED BY <2>1, <2>2, <2>3, NotifyQueues
<1>4. ASSUME NEW p \in Paths, TouchFile(p)
      PROVE  QueueInv'
  <2>1. UNCHANGED <<pending, chan, watching, excused>> /\ OnDisk' \subseteq OnDisk
    BY <1>1, <1>4 DEF TouchFile, watch, ghost, OnDisk
  <2>2. \A q : InChan(q)' = InChan(q)
    BY <2>1 DEF InChan
  <2>3. \A q : LastIsUpsert(q)' = LastIsUpsert(q)
    BY <2>1, <2>2 DEF LastIsUpsert
  <2> QED BY <2>1, <2>3 DEF QueueInv
<1> QED BY <1>2, <1>3, <1>4 DEF Environment

LEMMA QueueStep ==
    ASSUME TypeInv, ShapeInv, QueueInv, [Next]_vars
    PROVE  QueueInv'
<1>1. ASSUME UNCHANGED <<env, watch>>, excused \subseteq excused'
      PROVE  QueueInv'
  BY <1>1, QueueFrame DEF env, watch
<1>2. CASE Bootstrap
  <2>1. CASE \E h \in Hidden : ScanWalk(h)
    <3>1. UNCHANGED <<disk, pending, chan, watching>> /\ ~watching
      BY <2>1 DEF ScanWalk, ShapeInv, Live, env, watch
    <3>2. \A p \in excused : p \in Paths
      BY DEF TypeInv, GhostInv
    <3>3. \A p \in Paths : ~Queued(p)
      BY <3>1 DEF QueueInv, Queued, InChan
    <3> QED BY <3>1, <3>2, <3>3, QueueFrame
  <2>2. CASE Register
    <3>1. UNCHANGED <<disk, pending, chan, excused>> /\ watching'
      BY <2>2 DEF Register, env
    <3> QED BY <3>1, QueueFrame
  <2> QED BY <1>1, <1>2, <2>1, <2>2
          DEF Bootstrap, Start, ScanNext, ScanDone, Sweep, ghost
<1>3. ASSUME NEW S, FailJob(S), UNCHANGED env
      PROVE  QueueInv'
  BY <1>1, <1>3, UnloadQueue DEF FailJob
<1>4. CASE Pipeline
  BY <1>1, <1>3, <1>4 DEF Pipeline, Decide, Embed, Write, EndQuietly, ghost
<1>5. CASE Consumer
  <2>1. CASE Receive
    BY <2>1, ReceiveQueues
  <2>2. CASE Stat
    <3>1. /\ UNCHANGED <<disk, pending, chan, watching>>
          /\ \A p \in excused \ excused' : ~Queued(p)
      BY <2>2 DEF Stat, Sampled, env, watch
    <3> QED BY <3>1, QueueFrame
  <2> QED BY <1>1, <1>5, <2>1, <2>2
          DEF Consumer, RescanWalk, RescanNext, Remove, Publish, ghost
<1>6. CASE Failure
  BY <1>1, <1>3, <1>6, UnloadQueue
     DEF Failure, EmbedSkips, TurnFails, WalkFails, EndQuietly, watch, ghost
<1>7. CASE Operation
  <2>1. CASE Rebuild
    <3>1. UNCHANGED <<env, watch>> /\ excused \subseteq excused'
      BY <2>1 DEF Rebuild, TypeInv, GhostInv
    <3> QED BY <1>1, <3>1
  <2> QED BY <1>1, <1>7, <2>1, UnloadQueue
     DEF Operation, RequestRescan, RequestStop, Crash, BootstrapCancelled,
         DrainBegins, DrainEnds, ConsumerAborted, watch, ghost
<1>8. CASE Detached
  BY <1>1, <1>8 DEF Detached, OrphanLands
<1>9. CASE UNCHANGED vars
  BY <1>1, <1>9 DEF vars, ghost
<1> QED BY <1>2, <1>4, <1>5, <1>6, <1>7, <1>8, <1>9, QueueEnvironment, SendQueues
        DEF Next

LEMMA QueueAlways == Spec => []QueueInv
<1>1. Spec => []ShapeInv
  BY ShapeInit, ShapeStep, TypeAlways, PTL DEF Spec
<1> QED BY <1>1, QueueInit, QueueStep, TypeAlways, PTL DEF Spec

-----------------------------------------------------------------------------
(* Every file that is not excused is synced, or something under way will   *)
(* sync it.                                                                *)

\* A file whose stat and row a job holds: if its row passes the stat gate, the
\* row is right.
Fresh(j) ==
    /\ disk[j.path] # Absent
    /\ files[j.path] # Absent /\ files[j.path].mtime = j.mtime
          /\ files[j.path].hash # Sentinel
       => files[j.path].hash = disk[j.path].body

Working == pc \in {"stat", "decide", "embed", "write", "remove"}

\* The running job will bring its path up to date.
JobBrings ==
    /\ pc = "remove" => disk[job.path] = Absent
    /\ pc = "decide" => Fresh(job)
    /\ pc \in {"embed", "write"} =>
          disk[job.path] # Absent /\ job.hash = disk[job.path].body

OnTrack(p) == IF Working /\ job.path = p THEN JobBrings ELSE Synced(p)

\* During the bootstrap scan: files wait in the walk's list, rows without a file
\* for the sweep.
ScanInv == phase = "scanning" /\ pc # "walk" =>
    \A p \in Paths \ excused :
       /\ p \in gone => disk[p] = Absent
       /\ IF \E j \in todo : j.path = p
          THEN \A j \in todo : j.path = p => Fresh(j)
          ELSE p \in gone \/ OnTrack(p)

\* Afterwards: changes wait in the watcher's queues.
LiveInv == Live => \A p \in Paths \ excused : Queued(p) \/ OnTrack(p)

SyncInv == ScanInv /\ LiveInv

LEMMA SyncOffline ==
    ASSUME phase' \in {"down", "errored"}
    PROVE  SyncInv'
<1> QED BY DEF SyncInv, ScanInv, LiveInv, Live

LEMMA UnloadSync ==
    ASSUME NEW next \in {"down", "errored"}, Unload(next)
    PROVE  SyncInv'
<1> QED BY SyncOffline DEF Unload

\* What a step leaves alone of a file.
SameFile(p) ==
    /\ disk'[p] = Absent <=> disk[p] = Absent
    /\ disk[p] # Absent => disk'[p].body = disk[p].body

LEMMA SameTrack ==
    ASSUME NEW p, UNCHANGED <<files, pc, job>>, SameFile(p)
    PROVE  /\ OnTrack(p) => OnTrack(p)'
           /\ \A j : j.path = p => (Fresh(j) => Fresh(j)')
<1>1. \A j : j.path = p => (Fresh(j) => Fresh(j)')
  BY DEF SameFile, Fresh
<1>2. Synced(p) => Synced(p)'
  BY DEF SameFile, Synced, HashOf
<1>3. job.path = p => (JobBrings => JobBrings')
  <2>1. job.path = p => (Fresh(job) => Fresh(job)')
    BY DEF SameFile, Fresh
  <2> QED BY <2>1 DEF SameFile, JobBrings
<1> QED BY <1>1, <1>2, <1>3 DEF OnTrack, Working

\* Nobody works: a file is as it was, or excused, or its change is queued.
LEMMA SyncFrame ==
    ASSUME SyncInv, UNCHANGED <<files, pc, job>>, Live' => Live,
           phase' = "scanning" => phase = "scanning" /\ UNCHANGED <<todo, gone>>,
           excused \subseteq excused',
           \A p \in Paths \ excused' :
              \/ SameFile(p) /\ (Queued(p) => Queued(p)')
              \/ Live' /\ phase' # "scanning" /\ Queued(p)'
    PROVE  SyncInv'
<1>1. ScanInv'
  <2> SUFFICES ASSUME phase' = "scanning", pc # "walk", NEW p \in Paths \ excused'
               PROVE  /\ p \in gone' => disk'[p] = Absent
                      /\ IF \E j \in todo' : j.path = p
                         THEN \A j \in todo' : j.path = p => Fresh(j)'
                         ELSE p \in gone' \/ OnTrack(p)'
    BY DEF ScanInv
  <2>1. SameFile(p) /\ p \in Paths \ excused /\ phase = "scanning"
        /\ todo' = todo /\ gone' = gone
    OBVIOUS
  <2>2. /\ p \in gone => disk[p] = Absent
        /\ IF \E j \in todo : j.path = p
           THEN \A j \in todo : j.path = p => Fresh(j)
           ELSE p \in gone \/ OnTrack(p)
    BY <2>1 DEF SyncInv, ScanInv
  <2> QED BY <2>1, <2>2, SameTrack DEF SameFile
<1>2. LiveInv'
  <2> SUFFICES ASSUME Live', NEW p \in Paths \ excused', ~Queued(p)'
               PROVE  OnTrack(p)'
    BY DEF LiveInv
  <2>1. SameFile(p) /\ p \in Paths \ excused /\ ~Queued(p) /\ Live
    OBVIOUS
  <2>2. OnTrack(p)
    BY <2>1 DEF SyncInv, LiveInv
  <2> QED BY <2>1, <2>2, SameTrack
<1> QED BY <1>1, <1>2 DEF SyncInv

\* A step of the task that works on p.
LEMMA SyncTurn ==
    ASSUME SyncInv, UNCHANGED <<disk, phase, todo, gone, pending, chan>>,
           NEW p \in Paths, Working => job.path = p, Working' => job'.path = p,
           \A q \in Paths : q # p => files'[q] = files[q],
           excused \subseteq excused' \cup {p}, pc # "walk",
           phase = "scanning" => excused \subseteq excused' /\ \A j \in todo : j.path # p,
           p \notin excused' /\ (p \in excused \/ OnTrack(p)) => OnTrack(p)'
    PROVE  SyncInv'
<1>1. ASSUME NEW q \in Paths, q # p
      PROVE  /\ OnTrack(q) => OnTrack(q)'
             /\ \A j : j.path = q => (Fresh(j) => Fresh(j)')
  BY <1>1 DEF OnTrack, Synced, HashOf, Fresh
<1>2. \A q : Queued(q)' = Queued(q)
  BY DEF Queued, InChan
<1>3. ScanInv'
  <2> SUFFICES ASSUME phase = "scanning", NEW q \in Paths \ excused'
               PROVE  /\ q \in gone => disk[q] = Absent
                      /\ IF \E j \in todo : j.path = q
                         THEN \A j \in todo : j.path = q => Fresh(j)'
                         ELSE q \in gone \/ OnTrack(q)'
    BY DEF ScanInv
  <2>1. CASE q # p
    <3>1. /\ q \in gone => disk[q] = Absent
          /\ IF \E j \in todo : j.path = q
             THEN \A j \in todo : j.path = q => Fresh(j)
             ELSE q \in gone \/ OnTrack(q)
      BY <2>1 DEF SyncInv, ScanInv
    <3> QED BY <1>1, <2>1, <3>1
  <2>2. CASE q = p
    <3>1. (q \in gone => disk[q] = Absent) /\ (q \in gone \/ OnTrack(q))
      BY <2>2 DEF SyncInv, ScanInv
    <3> QED BY <2>2, <3>1
  <2> QED BY <2>1, <2>2
<1>4. LiveInv'
  <2> SUFFICES ASSUME Live, NEW q \in Paths \ excused', ~Queued(q)
               PROVE  OnTrack(q)'
    BY <1>2 DEF LiveInv, Live
  <2>1. q \notin excused => OnTrack(q)
    BY DEF SyncInv, LiveInv
  <2> QED BY <1>1, <2>1
<1> QED BY <1>3, <1>4 DEF SyncInv

LEMMA SyncEnvironment ==
    ASSUME TypeInv, ShapeInv, QueueInv, SyncInv, Environment
    PROVE  SyncInv'
<1>1. /\ disk \in [Paths -> Files \cup {Absent}] /\ clock + 1 \in Nat
      /\ phase \in Phases /\ (watching <=> Live)
  BY DEF TypeInv, EnvInv, LifeInv, ShapeInv, Live
<1>2. UNCHANGED <<files, pc, job, phase, todo, gone, watching, chan>> /\ Live' = Live
  BY DEF Environment, WriteFile, DeleteFile, TouchFile, store, life, work, watch, Live
<1>3. ASSUME NEW p \in Paths, NEW kind \in Events, Notify(p, kind) \/ NotifyNobody(p),
             disk'[p] # Absent => kind = "upsert",
             \A q \in Paths : q # p => disk'[q] = disk[q]
      PROVE  SyncInv'
  <2>1. /\ watching => Queued(p)' \/ p \in excused'
        /\ \A q \in Paths : q # p => Queued(q)' = Queued(q)
    BY <1>2, <1>3, NotifyQueues
  <2>2. excused \subseteq excused' /\ (phase = "scanning" => p \in excused')
    BY <1>3 DEF Notify, NotifyNobody
  <2>3. \A q \in Paths : q # p => SameFile(q)
    BY <1>3 DEF SameFile
  <2>4. CASE phase \in {"down", "errored"}
    BY <1>2, <2>4, SyncOffline
  <2>5. CASE phase = "scanning"
    BY <1>2, <2>1, <2>2, <2>3, <2>5, SyncFrame
  <2>6. CASE Live
    <3>1. phase # "scanning" /\ Live'
      BY <1>2, <2>6 DEF Live
    <3> QED BY <1>1, <1>2, <2>1, <2>2, <2>3, <3>1, SyncFrame
  <2> QED BY <1>1, <2>4, <2>5, <2>6 DEF Phases, Live
<1>4. ASSUME NEW p \in Paths, NEW b \in Bodies, WriteFile(p, b)
      PROVE  SyncInv'
  <2>1. \A q \in Paths : q # p => disk'[q] = disk[q]
    BY <1>1, <1>4 DEF WriteFile
  <2> QED BY <1>3, <1>4, <2>1 DEF WriteFile, Events
<1>5. ASSUME NEW p \in Paths, DeleteFile(p)
      PROVE  SyncInv'
  <2>1. disk'[p] = Absent /\ \A q \in Paths : q # p => disk'[q] = disk[q]
    BY <1>1, <1>5 DEF DeleteFile
  <2>2. PICK kind \in Events : Notify(p, kind) \/ NotifyNobody(p)
    BY <1>5 DEF DeleteFile, Events
  <2> QED BY <1>3, <2>1, <2>2
<1>6. ASSUME NEW p \in Paths, TouchFile(p)
      PROVE  SyncInv'
  <2> DEFINE f == [disk[p] EXCEPT !.mtime = clock + 1]
  <2>1. disk[p] \in Files /\ disk[p] # Absent
    BY <1>1, <1>6 DEF TouchFile
  <2>2. f \in Files /\ f.body = disk[p].body
    BY <1>1, <2>1 DEF Files
  <2>3. disk' = [disk EXCEPT ![p] = f]
    BY <1>6 DEF TouchFile
  <2>4. \A q \in Paths : SameFile(q)
    <3> HIDE DEF f
    <3> QED BY <1>1, <2>1, <2>2, <2>3, AbsentAssumption DEF SameFile
  <2>5. \A q : Queued(q)' = Queued(q)
    BY <1>6 DEF TouchFile, watch, Queued, InChan
  <2>6. excused' = excused
    BY <1>6 DEF TouchFile, ghost
  <2> QED BY <1>2, <2>4, <2>5, <2>6, SyncFrame
<1> QED BY <1>4, <1>5, <1>6 DEF Environment

\* A turn that ends has synced its path or excused it.
LEMMA EndQuietlySync ==
    ASSUME RowInv, SyncInv, InPipeline, NEW S, EndQuietly(S), UNCHANGED env,
           NEW p \in Paths, job.path = p,
           \A q \in Paths : q # p => files'[q] = files[q],
           p \in S \/ (OnTrack(p) => Synced(p)')
    PROVE  SyncInv'
<1>1. /\ pc' = "idle" /\ UNCHANGED <<disk, phase, todo, gone, pending, chan>>
      /\ excused' = excused \cup S
  BY DEF EndQuietly, FinishJob, watch, env
<1>2. phase = "scanning" => \A j \in todo : j.path # p
  BY DEF RowInv
<1>3. ~Working' /\ pc # "walk"
  BY <1>1 DEF Working, InPipeline
<1>4. p \notin excused' /\ (p \in excused \/ OnTrack(p)) => OnTrack(p)'
  BY <1>1, <1>3 DEF OnTrack
<1> QED BY <1>1, <1>2, <1>3, <1>4, SyncTurn

\* A turn that fails excuses its path, unless the failure showed that a change is
\* queued; in the scan it ends the bootstrap.
LEMMA FailJobSync ==
    ASSUME ShapeInv, SyncInv, NEW S, FailJob(S), UNCHANGED <<env, files>>,
           phase = "scanning" \/ Live, pc # "publish",
           NEW p, job.path = p, p \in Paths \/ phase = "scanning",
           p \in S \/ ~OnTrack(p) \/ phase = "scanning"
    PROVE  SyncInv'
<1>1. CASE phase = "scanning"
  BY <1>1, UnloadSync DEF FailJob
<1>2. CASE phase # "scanning"
  <2>1. /\ pc' = "idle" /\ UNCHANGED <<disk, phase, todo, gone, pending, chan>>
        /\ excused' = excused \cup S
    BY <1>2 DEF FailJob, FinishJob, watch, env
  <2>2. ~Working' /\ pc # "walk"
    BY <1>2, <2>1 DEF Working, ShapeInv, Live
  <2> QED BY <1>2, <2>1, <2>2, SyncTurn
<1> QED BY <1>1, <1>2

LEMMA SyncDecide ==
    ASSUME TypeInv, ShapeInv, RowInv, SyncInv, Decide
    PROVE  SyncInv'
<1>1. PICK p \in Paths : p = job.path
  BY DEF Decide, TypeInv, WorkInv
<1>2. /\ pc = "decide" /\ InPipeline /\ Working /\ UNCHANGED env /\ job \in Jobs
      /\ files[p] = job.prior /\ (phase = "scanning" \/ Live)
  BY <1>1 DEF Decide, InPipeline, Working, RowInv, TypeInv, WorkInv, Running, Live
<1>3. OnTrack(p) <=> Fresh(job)
  BY <1>1, <1>2 DEF OnTrack, JobBrings
<1>4. \A q \in Paths : q # p => files'[q] = files[q]
  BY <1>1, DecideOneRow
<1>5. HashOf(p)' = HashOf(p) /\ disk' = disk
  BY <1>2, DecideHash DEF env
<1>6. CASE StatGate(job) /\ EndQuietly({})
  <2>1. OnTrack(p) => Synced(p)'
    <3>1. files[p] # Absent /\ files[p].mtime = job.mtime /\ files[p].hash # Sentinel
      BY <1>2, <1>6 DEF StatGate
    <3>2. Fresh(job) => disk[p] # Absent /\ files[p].hash = disk[p].body
      BY <1>1, <3>1 DEF Fresh
    <3> QED BY <1>3, <1>5, <3>1, <3>2 DEF Synced, HashOf
  <2> QED BY <1>1, <1>2, <1>4, <1>6, <2>1, EndQuietlySync
<1>7. CASE disk[p] = Absent /\ FailJob({}) /\ UNCHANGED store
  <2>1. ~OnTrack(p)
    BY <1>1, <1>3, <1>7 DEF Fresh
  <2> QED BY <1>1, <1>2, <1>7, <2>1, FailJobSync DEF store
<1>8. CASE HashMatches(job) /\ EndQuietly({})
  <2>1. Synced(p)'
    BY <1>1, <1>2, <1>5, <1>8 DEF HashMatches, Synced, HashOf
  <2> QED BY <1>1, <1>2, <1>4, <1>8, <2>1, EndQuietlySync
<1>9. CASE /\ disk[p] # Absent
           /\ job' = [job EXCEPT !.hash = disk[p].body]
           /\ pc' = "embed"
           /\ UNCHANGED <<store, phase, stopping, rescan, watch, todo, gone, ghost>>
  <2>1. job'.path = p /\ job'.hash = disk[p].body
    BY <1>1, <1>2, <1>9 DEF Jobs
  <2>2. OnTrack(p)'
    <3>1. disk'[job'.path] # Absent /\ job'.hash = disk'[job'.path].body
      BY <1>5, <1>9, <2>1
    <3>2. JobBrings'
      BY <1>9, <3>1 DEF JobBrings
    <3> QED BY <1>9, <2>1, <3>2 DEF OnTrack, Working
  <2>3. UNCHANGED <<disk, phase, todo, gone, pending, chan, excused>>
    BY <1>5, <1>9 DEF watch, ghost
  <2>4. phase = "scanning" => \A j \in todo : j.path # p
    BY <1>1, <1>2 DEF RowInv
  <2> QED BY <1>1, <1>2, <1>4, <2>1, <2>2, <2>3, <2>4, SyncTurn
<1> QED BY <1>1, <1>6, <1>7, <1>8, <1>9 DEF Decide

LEMMA SyncEmbed ==
    ASSUME TypeInv, SyncInv, Embed
    PROVE  SyncInv'
<1>1. /\ pc = "embed" /\ pc' = "write"
      /\ UNCHANGED <<disk, files, job, phase, todo, gone, excused, pending, chan>>
  BY DEF Embed, env, store, life, ghost, watch
<1>2. \A q : Queued(q)' = Queued(q)
  BY <1>1 DEF Queued, InChan
<1>3. \A q : OnTrack(q) => OnTrack(q)'
  BY <1>1 DEF OnTrack, JobBrings, Working, Synced, HashOf
<1>4. \A j : Fresh(j) => Fresh(j)'
  BY <1>1 DEF Fresh
<1>5. ScanInv'
  BY <1>1, <1>3, <1>4 DEF SyncInv, ScanInv
<1>6. LiveInv'
  BY <1>1, <1>2, <1>3 DEF SyncInv, LiveInv, Live
<1> QED BY <1>5, <1>6 DEF SyncInv

LEMMA SyncWrite ==
    ASSUME TypeInv, ShapeInv, RowInv, SyncInv, Write
    PROVE  SyncInv'
<1>1. PICK p \in Paths : p = job.path
  BY DEF Write, TypeInv, WorkInv
<1>2. /\ pc = "write" /\ InPipeline /\ Working /\ UNCHANGED env /\ job \in Jobs
      /\ (phase = "scanning" \/ Live)
  BY DEF Write, InPipeline, Working, TypeInv, WorkInv, Running, Live
<1>3. \A q \in Paths : q # p => files'[q] = files[q]
  BY <1>1, WriteOneRow
<1>4. ASSUME WriteTx(job)
      PROVE  OnTrack(p) => Synced(p)'
  <2>1. HashOf(p)' = job.hash
    BY <1>1, <1>2, <1>4, WriteHash
  <2>2. OnTrack(p) => disk[p] # Absent /\ job.hash = disk[p].body
    BY <1>1, <1>2 DEF OnTrack, JobBrings
  <2> QED BY <1>2, <2>1, <2>2 DEF Synced, env
<1>5. CASE WriteConflict(job)
  BY <1>1, <1>2, <1>5, FailJobSync DEF Write, store
<1>6. CASE ~WriteConflict(job) /\ phase = "scanning"
  BY <1>1, <1>2, <1>3, <1>4, <1>6, EndQuietlySync DEF Write
<1>7. CASE ~WriteConflict(job) /\ phase # "scanning"
  <2>1. /\ UNCHANGED <<disk, phase, todo, gone, pending, chan, excused>>
        /\ pc' = "publish"
    BY <1>2, <1>7 DEF Write, watch, ghost, env
  <2>2. ~Working'
    BY <2>1 DEF Working
  <2>3. OnTrack(p) => OnTrack(p)'
    BY <1>4, <1>7, <2>2 DEF OnTrack, Write
  <2> QED BY <1>1, <1>2, <1>3, <1>7, <2>1, <2>2, <2>3, SyncTurn
<1> QED BY <1>5, <1>6, <1>7

\* The stat and the row of a job are sampled together, so they are fresh because
\* the stat gate is sound.
LEMMA SyncStat ==
    ASSUME TypeInv, ShapeInv, FreshStat, SyncInv, Stat
    PROVE  SyncInv'
<1>1. PICK p \in Paths : p = job.path
  BY DEF Stat, TypeInv, WorkInv
<1>2. /\ pc = "stat" /\ Working /\ job \in Jobs /\ phase # "scanning"
      /\ UNCHANGED <<disk, files, phase, todo, gone, pending, chan>>
      /\ excused \subseteq excused' \cup {p}
  BY <1>1 DEF Stat, Sampled, Working, TypeInv, WorkInv, ShapeInv, env, store, life, watch
<1>3. CASE disk[p] = Absent
  <2>1. pc' = "remove" /\ job' = job
    BY <1>1, <1>3 DEF Stat
  <2>2. OnTrack(p)'
    BY <1>1, <1>2, <1>3, <2>1 DEF OnTrack, JobBrings, Working
  <2> QED BY <1>1, <1>2, <2>1, <2>2, SyncTurn
<1>4. CASE disk[p] # Absent
  <2>1. pc' = "decide" /\ job'.path = p /\ job'.mtime = disk[p].mtime
    BY <1>1, <1>2, <1>4 DEF Stat, Jobs
  <2>2. files[p] # Absent /\ files[p].mtime = disk[p].mtime
           /\ files[p].hash # Sentinel => files[p].hash = disk[p].body
    BY <1>4 DEF FreshStat, InRows, OnDisk
  <2>3. Fresh(job)'
    BY <1>2, <1>4, <2>1, <2>2 DEF Fresh
  <2>4. OnTrack(p)'
    <3>1. JobBrings'
      BY <2>1, <2>3 DEF JobBrings
    <3> QED BY <2>1, <3>1 DEF OnTrack, Working
  <2> QED BY <1>1, <1>2, <2>1, <2>4, SyncTurn
<1> QED BY <1>3, <1>4

LEMMA SyncRemove ==
    ASSUME TypeInv, ShapeInv, SyncInv, Remove
    PROVE  SyncInv'
<1>1. PICK p \in Paths : p = job.path
  BY DEF Remove, TypeInv, WorkInv
<1>2. /\ pc = "remove" /\ Working /\ phase # "scanning" /\ DropTx({p})
      /\ UNCHANGED <<disk, phase, todo, gone, pending, chan, excused>>
  BY <1>1 DEF Remove, Working, ShapeInv, env, life, watch, ghost
<1>3. ~Working'
  BY DEF Remove, FinishJob, Working
<1>4. OnTrack(p) => disk[p] = Absent
  BY <1>1, <1>2 DEF OnTrack, JobBrings
<1>5. HashOf(p)' = Absent /\ \A q \in Paths : q # p => files'[q] = files[q]
  BY <1>2, DropHash DEF DropTx
<1>6. OnTrack(p) => OnTrack(p)'
  BY <1>2, <1>3, <1>4, <1>5 DEF OnTrack, Synced
<1> QED BY <1>1, <1>2, <1>3, <1>5, <1>6, SyncTurn

LEMMA SyncPublish ==
    ASSUME TypeInv, ShapeInv, SyncInv, Publish
    PROVE  SyncInv'
<1>1. PICK p \in Paths : p = job.path
  BY DEF Publish, TypeInv, WorkInv
<1>2. /\ ~Working /\ ~Working' /\ pc = "publish" /\ phase # "scanning"
      /\ UNCHANGED <<disk, files, phase, todo, gone, pending, chan, excused>>
  BY DEF Publish, FinishJob, Working, ShapeInv, env, store, life, watch
<1>3. OnTrack(p) => OnTrack(p)'
  BY <1>2 DEF OnTrack, Synced, HashOf
<1> QED BY <1>2, <1>3, SyncTurn

\* The consumer takes up a path: what it does first is to stat it, or, if the last
\* event said remove, to remove it.
LEMMA SyncReceive ==
    ASSUME TypeInv, ShapeInv, QueueInv, SyncInv, Receive
    PROVE  SyncInv'
<1>1. PICK p \in Paths : p = Head(chan).path
  <2>1. PICK p : p = Head(chan).path
    OBVIOUS
  <2> QED BY <2>1, ReceiveQueues
<1>2. /\ ~Working /\ phase # "scanning" /\ phase' = phase /\ job' = JobFor(p)
      /\ UNCHANGED <<disk, files, excused>>
      /\ pc' = IF Head(chan).kind = "upsert" THEN "stat" ELSE "remove"
  BY <1>1 DEF Receive, ConsumerIdle, Working, env, store, life, ghost
<1>3. /\ \A q \in Paths : q # p => Queued(q)' = Queued(q)
      /\ Queued(p)' \/ Head(chan).kind = "upsert" \/ disk[p] = Absent \/ p \in excused
  BY <1>1, ReceiveQueues
<1>4. job'.path = p
  BY <1>2, JobForIsJob
<1>5. ASSUME NEW q \in Paths, q # p
      PROVE  OnTrack(q)' = OnTrack(q)
  BY <1>2, <1>4, <1>5 DEF OnTrack, Synced, HashOf
<1>6. Queued(p)' \/ OnTrack(p)' \/ p \in excused
  <2>1. CASE Head(chan).kind = "upsert"
    <3>1. JobBrings' /\ Working'
      BY <1>2, <2>1 DEF JobBrings, Working
    <3> QED BY <1>4, <3>1 DEF OnTrack
  <2>2. CASE Head(chan).kind # "upsert" /\ disk[p] = Absent
    <3>1. JobBrings' /\ Working'
      BY <1>2, <1>4, <2>2 DEF JobBrings, Working
    <3> QED BY <1>4, <3>1 DEF OnTrack
  <2> QED BY <1>3, <2>1, <2>2
<1>7. ScanInv'
  BY <1>2 DEF ScanInv
<1>8. LiveInv'
  BY <1>2, <1>3, <1>5, <1>6 DEF SyncInv, LiveInv, Live
<1> QED BY <1>7, <1>8 DEF SyncInv

LEMMA SyncRescanNext ==
    ASSUME TypeInv, SyncInv, RescanNext
    PROVE  SyncInv'
<1>1. /\ ~Working /\ pc' = "stat" /\ phase' = "live" /\ phase = "live"
      /\ UNCHANGED <<disk, files, excused, pending, chan>>
  BY DEF RescanNext, Working, env, store, life, ghost, watch
<1>2. \A q : Queued(q)' = Queued(q)
  BY <1>1 DEF Queued, InChan
<1>3. JobBrings'
  BY <1>1 DEF JobBrings
<1>4. \A q : OnTrack(q) => OnTrack(q)'
  BY <1>1, <1>3 DEF OnTrack, Synced, HashOf
<1> QED BY <1>1, <1>2, <1>4 DEF SyncInv, ScanInv, LiveInv, Live

\* Steps between two turns.
LEMMA SyncIdle ==
    ASSUME SyncInv, UNCHANGED <<env, files, pc, job, pending, chan, excused>>,
           Live' => Live,
           phase' = "scanning" => phase = "scanning" /\ UNCHANGED <<todo, gone>>
    PROVE  SyncInv'
<1>1. \A q : Queued(q)' = Queued(q)
  BY DEF Queued, InChan
<1>2. \A q : SameFile(q)
  BY DEF SameFile, env
<1> QED BY <1>1, <1>2, SyncFrame

LEMMA SyncConsumer ==
    ASSUME TypeInv, ShapeInv, QueueInv, FreshStat, SyncInv, Consumer
    PROVE  SyncInv'
<1>1. CASE \E h \in Hidden : RescanWalk(h)
  <2>1. /\ UNCHANGED <<env, files, pc, job, pending, chan, excused, phase>>
        /\ phase = "live"
    BY <1>1 DEF RescanWalk, store, watch, ghost
  <2> QED BY <2>1, SyncIdle DEF Live
<1> QED BY <1>1, SyncReceive, SyncRescanNext, SyncStat, SyncRemove, SyncPublish
        DEF Consumer

LEMMA SyncBootstrap ==
    ASSUME TypeInv, ShapeInv, RowInv, FreshStat, SyncInv, Bootstrap
    PROVE  SyncInv'
<1>1. CASE Start
  <2>1. phase' = "scanning" /\ (pc' = "walk" \/ Paths \subseteq excused')
    BY <1>1 DEF Start, ShapeInv, ghost
  <2> QED BY <2>1 DEF SyncInv, ScanInv, LiveInv, Live
<1>2. ASSUME NEW h \in Hidden, ScanWalk(h)
      PROVE  SyncInv'
  <2> DEFINE entry(p) == [JobFor(p) EXCEPT !.mtime = disk[p].mtime,
                                           !.size = Size[disk[p].body],
                                           !.prior = files[p]]
  <2>1. /\ todo' = {entry(p) : p \in OnDisk \ h} /\ pc' = "idle"
        /\ gone' = InRows \ (OnDisk \ h) /\ excused' = h /\ phase' = "scanning"
        /\ UNCHANGED <<disk, files>>
    BY <1>2 DEF ScanWalk, store, env, life
  <2>2. \A p : entry(p).path = p /\ entry(p).mtime = disk[p].mtime
    BY DEF JobFor, NoJob
  <2> HIDE DEF entry
  <2>3. ASSUME NEW p \in OnDisk, NEW j \in todo', j.path = p
        PROVE  Fresh(j)'
    <3>1. j.mtime = disk[p].mtime
      BY <2>1, <2>2, <2>3
    <3>2. /\ disk[p] # Absent
          /\ files[p] # Absent /\ files[p].mtime = disk[p].mtime
             /\ files[p].hash # Sentinel => files[p].hash = disk[p].body
      BY DEF FreshStat, InRows, OnDisk
    <3> QED BY <2>1, <2>3, <3>1, <3>2 DEF Fresh
  <2>4. ASSUME NEW p \in OnDisk \ h
        PROVE  p \notin gone' /\ \E j \in todo' : j.path = p
    BY <2>1, <2>2
  <2>5. ASSUME NEW p \in Paths \ OnDisk
        PROVE  /\ disk'[p] = Absent /\ ~\E j \in todo' : j.path = p
               /\ p \in gone' \/ OnTrack(p)'
    <3>1. disk[p] = Absent /\ (p \in InRows => p \in gone')
      BY <2>1 DEF OnDisk
    <3>2. p \notin InRows => OnTrack(p)'
      BY <2>1, <3>1 DEF InRows, OnTrack, Working, Synced, HashOf
    <3> QED BY <2>1, <2>2, <3>1, <3>2
  <2>6. ScanInv'
    BY <2>1, <2>3, <2>4, <2>5 DEF ScanInv
  <2> QED BY <2>1, <2>6 DEF SyncInv, LiveInv, Live
<1>3. CASE ScanNext
  <2>1. PICK j \in todo : job' = j /\ todo' = todo \ {j} /\ pc' = "decide"
    BY <1>3 DEF ScanNext
  <2>2. /\ phase = "scanning" /\ phase' = "scanning" /\ pc = "idle"
        /\ UNCHANGED <<disk, files, gone, excused>>
    BY <1>3 DEF ScanNext, life, store, env, ghost
  <2>3. \A k \in todo : k.path = j.path => k = j
    BY <2>2 DEF RowInv
  <2>4. \A k : Fresh(k)' = Fresh(k)
    BY <2>2 DEF Fresh
  <2>5. ASSUME NEW p \in Paths \ excused
        PROVE  /\ p \in gone => disk[p] = Absent
               /\ IF \E k \in todo' : k.path = p
                  THEN \A k \in todo' : k.path = p => Fresh(k)
                  ELSE p \in gone \/ OnTrack(p)'
    <3>1. /\ p \in gone => disk[p] = Absent
          /\ IF \E k \in todo : k.path = p
             THEN \A k \in todo : k.path = p => Fresh(k)
             ELSE p \in gone \/ OnTrack(p)
      BY <2>2 DEF SyncInv, ScanInv
    <3>2. CASE p # j.path
      <4>1. OnTrack(p) => OnTrack(p)'
        BY <2>1, <2>2, <3>2 DEF OnTrack, Working, Synced, HashOf
      <4>2. \A k : k.path = p => (k \in todo' <=> k \in todo)
        BY <2>1, <3>2
      <4> QED BY <3>1, <4>1, <4>2
    <3>3. CASE p = j.path
      <4>1. Fresh(j) /\ ~\E k \in todo' : k.path = p
        BY <2>1, <2>3, <3>1, <3>3
      <4>2. JobBrings'
        BY <2>1, <2>4, <4>1 DEF JobBrings, Fresh
      <4>3. OnTrack(p)'
        BY <2>1, <3>3, <4>2 DEF OnTrack, Working
      <4> QED BY <3>1, <4>1, <4>3
    <3> QED BY <3>2, <3>3
  <2>6. ScanInv'
    BY <2>2, <2>4, <2>5 DEF ScanInv
  <2> QED BY <2>2, <2>6 DEF SyncInv, LiveInv, Live
<1>4. CASE ScanDone
  <2>1. /\ phase = "scanning" /\ phase' = "scanning" /\ pc = "idle" /\ pc' = "sweep"
        /\ UNCHANGED <<disk, files, todo, gone, excused>>
    BY <1>4 DEF ScanDone, life, store, env, ghost
  <2>2. \A p : OnTrack(p)' = OnTrack(p)
    BY <2>1 DEF OnTrack, Working, Synced, HashOf
  <2>3. \A k : Fresh(k)' = Fresh(k)
    BY <2>1 DEF Fresh
  <2>4. ScanInv'
    BY <2>1, <2>2, <2>3 DEF SyncInv, ScanInv
  <2> QED BY <2>1, <2>4 DEF SyncInv, LiveInv, Live
<1>5. CASE Sweep
  <2>1. /\ phase = "scanning" /\ phase' = "scanning" /\ pc = "sweep"
        /\ pc' = "register" /\ todo = {} /\ todo' = {} /\ gone' = {}
        /\ UNCHANGED <<disk, excused>>
    BY <1>5 DEF Sweep, ShapeInv, life, env, ghost
  <2>2. \A p \in Paths : HashOf(p)' = IF p \in gone THEN Absent ELSE HashOf(p)
    BY <1>5, DropHash DEF Sweep
  <2>3. ASSUME NEW p \in Paths \ excused
        PROVE  OnTrack(p)'
    <3>1. (p \in gone => disk[p] = Absent) /\ (p \in gone \/ OnTrack(p))
      BY <2>1 DEF SyncInv, ScanInv
    <3> QED BY <2>1, <2>2, <3>1 DEF OnTrack, Working, Synced
  <2>4. ScanInv'
    BY <2>1, <2>3 DEF ScanInv
  <2> QED BY <2>1, <2>4 DEF SyncInv, LiveInv, Live
<1>6. CASE Register
  <2>1. /\ phase = "scanning" /\ phase' = "live" /\ pc = "register" /\ pc' = "idle"
        /\ todo = {} /\ gone = {} /\ UNCHANGED <<disk, files, excused>>
    BY <1>6 DEF Register, ShapeInv, store, env
  <2>2. \A p \in Paths \ excused : OnTrack(p)
    BY <2>1 DEF SyncInv, ScanInv
  <2>3. \A p : OnTrack(p)' = OnTrack(p)
    BY <2>1 DEF OnTrack, Working, Synced, HashOf
  <2> QED BY <2>1, <2>2, <2>3 DEF SyncInv, ScanInv, LiveInv
<1> QED BY <1>1, <1>2, <1>3, <1>4, <1>5, <1>6 DEF Bootstrap

LEMMA SyncFailure ==
    ASSUME TypeInv, ShapeInv, RowInv, SyncInv, Failure
    PROVE  SyncInv'
<1>1. PICK p : p = job.path
  OBVIOUS
<1>2. CASE EmbedSkips
  <2>1. /\ InPipeline /\ EndQuietly({p}) /\ UNCHANGED <<env, files>> /\ p \in Paths
    BY <1>1, <1>2 DEF EmbedSkips, InPipeline, TypeInv, WorkInv, store
  <2> QED BY <1>1, <2>1, EndQuietlySync
<1>3. CASE TurnFails
  <2>1. /\ UNCHANGED <<env, files>> /\ pc # "publish" /\ (phase = "scanning" \/ Live)
    BY <1>3 DEF TurnFails, store, Running, Live
  <2>2. CASE pc \in {"sweep", "register"}
    <3>1. phase = "scanning"
      BY <2>1, <2>2 DEF ShapeInv, Live
    <3> QED BY <1>3, <3>1, UnloadSync DEF TurnFails, FailJob
  <2>3. CASE pc \notin {"sweep", "register"}
    <3>1. p \in Paths /\ FailJob({p})
      BY <1>1, <1>3, <2>3 DEF TurnFails, TypeInv, WorkInv
    <3> QED BY <1>1, <2>1, <3>1, FailJobSync
  <2> QED BY <2>2, <2>3
<1>4. CASE WalkFails
  <2>1. CASE Unload("errored")
    BY <2>1, UnloadSync
  <2>2. CASE UNCHANGED <<phase, watch, work, ghost>>
    <3>1. UNCHANGED <<env, files, pc, job, pending, chan, excused, phase, todo, gone>>
      BY <1>4, <2>2 DEF WalkFails, store, watch, work, ghost
    <3> QED BY <3>1, SyncIdle DEF Live
  <2> QED BY <1>4, <2>1, <2>2 DEF WalkFails
<1> QED BY <1>2, <1>3, <1>4 DEF Failure

LEMMA SyncOperation ==
    ASSUME SyncInv, Operation
    PROVE  SyncInv'
<1>1. CASE Unload("down")
  BY <1>1, UnloadSync
<1>2. CASE Rebuild
  BY <1>2, SyncOffline DEF Rebuild
<1>3. CASE RequestRescan \/ RequestStop \/ DrainBegins
  <2>1. /\ UNCHANGED <<env, files, pc, job, pending, chan, excused, todo, gone>>
        /\ (Live' => Live) /\ (phase' = "scanning" => phase = "scanning")
    BY <1>3 DEF RequestRescan, RequestStop, DrainBegins, store, watch, work, ghost,
                Live
  <2> QED BY <2>1, SyncIdle
<1> QED BY <1>1, <1>2, <1>3
        DEF Operation, Crash, BootstrapCancelled, DrainEnds, ConsumerAborted

LEMMA SyncStep ==
    ASSUME TypeInv, ShapeInv, RowInv, FreshStat, QueueInv, NoneDetached,
           SyncInv, [Next]_vars
    PROVE  SyncInv'
<1>1. ASSUME NEW p \in Paths, SendEvent(p)
      PROVE  SyncInv'
  <2>1. \A q \in Paths : Queued(q)' = Queued(q)
    BY <1>1, SendQueues
  <2>2. UNCHANGED <<disk, files, pc, job, excused, phase, todo, gone>>
    BY <1>1 DEF SendEvent, env, store, life, work, ghost
  <2>3. \A q : SameFile(q)
    BY <2>2 DEF SameFile
  <2> QED BY <2>1, <2>2, <2>3, SyncFrame DEF Live
<1>2. CASE UNCHANGED vars
  <2>1. UNCHANGED <<env, files, pc, job, pending, chan, excused, phase, todo, gone>>
    BY <1>2 DEF vars, store, watch, life, work, ghost
  <2> QED BY <2>1, SyncIdle DEF Live
<1>3. CASE Detached
  BY <1>3 DEF Detached, NoneDetached
<1> QED BY <1>1, <1>2, <1>3, SyncEnvironment, SyncBootstrap, SyncDecide, SyncEmbed,
           SyncWrite, SyncConsumer, SyncFailure, SyncOperation DEF Next, Pipeline

LEMMA SyncInit == Init => SyncInv
<1> QED BY DEF Init, SyncInv, ScanInv, LiveInv, Live

LEMMA SyncAlways ==
    ASSUME FreshMtimes
    PROVE  Spec /\ []NoneDetached => []SyncInv
<1>1. /\ BaseInv /\ FreshInv /\ QueueInv /\ NoneDetached /\ SyncInv /\ [Next]_vars
      => SyncInv'
  BY SyncStep DEF BaseInv, FreshInv
<1> QED BY <1>1, SyncInit, BaseAlways, FreshAlways, QueueAlways, PTL DEF Spec

\* No update is lost: whenever a live vault has nothing left to do, the index
\* agrees with the directory on every path the lifecycle has not given up on, for
\* every number of files, every channel capacity, and through any number of
\* failures, rescans, restarts, drains, aborts and crashes.
THEOREM NoUpdateIsLost ==
    ASSUME FreshMtimes
    PROVE  Spec /\ []NoneDetached => []QuietMeansSynced
<1>1. SyncInv => QuietMeansSynced
  <2> SUFFICES ASSUME SyncInv, Quiescent, NEW p \in Paths \ excused
               PROVE  Synced(p)
    BY DEF QuietMeansSynced
  <2>1. Live /\ ~Working /\ chan = <<>> /\ pending[p] = <<>>
    BY DEF Quiescent, ConsumerIdle, Live, Working
  <2>2. ~Queued(p)
    BY <2>1 DEF Queued, InChan
  <2> QED BY <2>1, <2>2 DEF SyncInv, LiveInv, OnTrack
<1> QED BY <1>1, SyncAlways, PTL

-----------------------------------------------------------------------------
(* When the hypothesis about detached calls holds.                         *)

\* Without a budget for detached calls no call is ever detached, so the theorems
\* above hold of the specification itself: a task that is cancelled or aborted
\* while a blocking call runs would have to wait for it.
LEMMA NoBudgetNoneDetached ==
    ASSUME MaxOrphans = 0
    PROVE  Spec => []NoneDetached
<1>1. Init => NoneDetached
  BY DEF Init, NoneDetached
<1>2. ASSUME NoneDetached, LeaveBehind
      PROVE  NoneDetached'
  <2>1. Cardinality(orphans) = 0
    BY <1>2, FS_EmptySet DEF NoneDetached
  <2> QED BY <1>2, <2>1 DEF LeaveBehind, NoneDetached
<1>3. ASSUME NoneDetached, [Next]_vars
      PROVE  NoneDetached'
  <2>1. CASE UNCHANGED orphans
    BY <1>3, <2>1 DEF NoneDetached
  <2>2. CASE Environment \/ (\E p \in Paths : SendEvent(p)) \/ UNCHANGED vars
    BY <2>1, <2>2 DEF Environment, WriteFile, DeleteFile, TouchFile, SendEvent, vars
  <2>3. CASE Bootstrap
    BY <2>1, <2>3 DEF Bootstrap, Start, ScanWalk, ScanNext, ScanDone, Sweep, Register
  <2>4. CASE Pipeline \/ Failure
    BY <2>1, <2>4 DEF Pipeline, Decide, Embed, Write, Failure, EmbedSkips, TurnFails,
                      WalkFails
  <2>5. CASE Consumer
    BY <2>1, <2>5 DEF Consumer, RescanWalk, Receive, RescanNext, Stat, Remove, Publish
  <2>6. CASE Operation
    <3>1. CASE BootstrapCancelled \/ ConsumerAborted
      BY <1>2, <1>3, <3>1 DEF BootstrapCancelled, ConsumerAborted
    <3>2. CASE RequestRescan \/ RequestStop \/ Rebuild \/ DrainBegins \/ DrainEnds
      BY <2>1, <3>2 DEF RequestRescan, RequestStop, Rebuild, DrainBegins, DrainEnds
    <3>3. CASE Crash
      BY <3>3 DEF Crash, NoneDetached
    <3> QED BY <2>6, <3>1, <3>2, <3>3 DEF Operation
  <2>7. CASE Detached
    BY <1>3, <2>7 DEF Detached, NoneDetached
  <2> QED BY <1>3, <2>2, <2>3, <2>4, <2>5, <2>6, <2>7 DEF Next
<1> QED BY <1>1, <1>3, PTL DEF Spec
=============================================================================

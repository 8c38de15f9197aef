---------------------------- MODULE ControlPlane ----------------------------
(***************************************************************************)
(* The vault manager of one daemon: the registry of vaults, the map of     *)
(* vault runners, the tasks the runners own, the per-vault directories,    *)
(* and the operations that clients call concurrently.                      *)
(*                                                                         *)
(* Source: src/src/control_plane/manager.rs, control_plane/runner.rs,      *)
(* vault_registry/mod.rs and schema.rs, and the order of start-up in       *)
(* bin/hmnd.rs.                                                            *)
(*                                                                         *)
(* An operation is a plan: the steps its handler takes, one per await at   *)
(* which another task may run.  What a task does to the index is the       *)
(* subject of VaultIndex; here it scans, lives and ends.  A request that   *)
(* is answered without changing anything is not a step.                    *)
(***************************************************************************)
EXTENDS Naturals, Sequences, FiniteSets

CONSTANTS
    Ids,            \* surrogate vault ids
    Names,          \* vault names
    Paths,          \* vault directories
    Clients,        \* concurrent requests
    Ops,            \* the operations clients call
    Runners,        \* pool of VaultRunner values: natural numbers
    Tasks,          \* pool of bootstrap tasks with their consumers: likewise
    Absent,         \* None
    Ended,          \* what the abstract lifecycle calls a terminated vault
    MaxOps,         \* bound: operations in a behaviour
    MaxCrashes,     \* bound: crashes of the daemon
    MaxFaults,      \* bound: failing registry, file or store calls
    MaxDisconnects, \* bound: handlers dropped because the client went away
    MaxMoves        \* bound: vault paths that go away or come back

ASSUME PoolAssumption  == /\ Runners \subseteq Nat /\ IsFiniteSet(Runners)
                          /\ Tasks \subseteq Nat /\ IsFiniteSet(Tasks)
ASSUME MarkAssumption  == /\ Absent \notin Ids \cup Names \cup Paths
                          /\ Absent \notin Runners \cup Tasks
ASSUME BoundAssumption == /\ MaxOps \in Nat /\ MaxCrashes \in Nat
                          /\ MaxFaults \in Nat /\ MaxDisconnects \in Nat
                          /\ MaxMoves \in Nat

VARIABLES
    registry,    \* the rows of vaults.sqlite
    used,        \* ids ever inserted: a UUIDv7 does not come twice
    dirs,        \* ids whose <data_dir>/vaults/<id>/ exists
    accessible,  \* vault paths that are directories the daemon can read
    daemon,      \* down, rows, dirs (start-up under way) or serving
    runners,     \* the manager's map from id to runner
    runner,      \* the VaultRunner values themselves
    task,        \* the bootstrap task and, once it is live, its consumer
    client,      \* the operation each client waits for
    count        \* occurrences of what is bounded, and of operations that found
                 \* no runner in the map (create apart)

disk   == <<dirs, accessible>>
table  == <<registry, used>>
memory == <<runners, runner, task>>
vars   == <<table, disk, daemon, memory, client, count>>

-----------------------------------------------------------------------------
Statuses   == {"active", "paused", "errored"}
Rows       == [name : Names, path : Paths, status : Statuses]
Operations == {"create", "terminate", "pause", "resume", "rename", "reset",
               "rebuild", "rescan"}
Maybe(S)   == S \cup {Absent}

\* entry (name and status as searches see them), bootstrap and lifecycle slots.
RunnerValues == [vault : Ids, name : Names, status : Statuses,
                 boot : Maybe(Tasks), life : Maybe(Tasks)]
TaskValues   == [runner : Runners, stage : {"scanning", "live"}, stop : BOOLEAN]

ASSUME OpsAssumption    == Ops \subseteq Operations /\ Absent \notin Operations
ASSUME AbsentAssumption == /\ Absent \notin Rows \cup RunnerValues \cup TaskValues
                           /\ Ended \notin Maybe(Rows)

\* What a handler keeps across its awaits: the row it read, the runner it found,
\* whether it holds that runner's op_lock, the task it awaits, the name it sets.
Idle == [op |-> Absent, id |-> Absent, plan |-> <<>>, row |-> Absent,
         runner |-> Absent, locked |-> FALSE, wait |-> Absent, arg |-> Absent]

\* shutdown_with_timeout.
Shutdown == <<"boot", "join", "drain">>

\* Mutant: the directory goes before the row.
TerminationRemovingFirst == <<"unmap">> \o Shutdown \o <<"rmdir", "delete">>

Termination == <<"unmap">> \o Shutdown \o <<"delete", "rmdir">>

\* The steps of each operation; those on a vault that may have no runner in the
\* map are told whether it has one.
Creation == <<"name", "path", "insert", "subdir", "open", "spawn">>

Pausing == <<"lock">> \o Shutdown \o <<"status", "publish">>

Resumption(mapped) ==
    IF mapped THEN <<"lock", "open", "spawn", "status", "publish">>
    ELSE <<"status", "reread", "open", "spawn">>

Renaming(mapped) ==
    LET body == <<"free", "update", "reread", "meta">>
    IN  IF mapped THEN <<"lock">> \o body \o <<"publish">> ELSE body

Resetting(rebuild, mapped) ==
    (IF mapped THEN <<"lock">> \o Shutdown ELSE <<>>)
    \o (IF rebuild THEN <<"rebuild">> ELSE <<>>)
    \o <<"status", "reread", "open", "spawn">>

Rescanning == <<"lock", "signal">>

Plan(op, mapped) ==
    CASE op = "create" -> Creation
      [] op = "terminate" -> Termination
      [] op = "pause" -> Pausing
      [] op = "resume" -> Resumption(mapped)
      [] op = "rename" -> Renaming(mapped)
      [] op = "rescan" -> Rescanning
      [] OTHER -> Resetting(op = "rebuild", mapped)

Steps == {"name", "path", "insert", "subdir", "open", "spawn", "unmap", "boot",
          "join", "drain", "delete", "rmdir", "lock", "status", "publish",
          "reread", "free", "update", "meta", "rebuild", "signal"}

Requests == [op : Maybe(Operations), id : Maybe(Ids), plan : Seq(Steps),
             row : Maybe(Rows), runner : Maybe(Runners), locked : BOOLEAN,
             wait : Maybe(Tasks), arg : Maybe(Names)]

Bounds == [ops : 0 .. MaxOps, crashes : 0 .. MaxCrashes,
           faults : 0 .. MaxFaults, disconnects : 0 .. MaxDisconnects,
           moves : 0 .. MaxMoves, unmapped : 0 .. MaxOps]

Registered == {i \in Ids : registry[i] # Absent}
Mapped     == {i \in Ids : runners[i] # Absent}
Named(n)   == {i \in Registered : registry[i].name = n}
AtPath(p)  == {i \in Registered : registry[i].path = p}

\* A runner is dropped when neither the map nor a handler refers to it.
Held(r) == \/ \E i \in Ids : runners[i] = r
           \/ \E c \in Clients : client[c].runner = r

Running(t)  == t \in Tasks /\ task[t] # Absent
Scanning(t) == Running(t) /\ task[t].stage = "scanning"

FreeRunners == {r \in Runners : ~Held(r) /\ \A t \in Tasks :
                                   Running(t) => task[t].runner # r}
FreeTasks   == {t \in Tasks : ~Running(t) /\ \A c \in Clients :
                                   client[c].wait # t}
Least(S)    == CHOOSE x \in S : \A y \in S : x <= y

\* The daemon is about to start, on what an earlier run of it left.
Init ==
    /\ \E R \in SUBSET Ids :
          \E f \in [R -> [name : Names, path : Paths,
                          status : {"active", "paused"}]] :
              registry = [i \in Ids |-> IF i \in R THEN f[i] ELSE Absent]
    /\ \A i, j \in Registered : i # j => /\ registry[i].name # registry[j].name
                                         /\ registry[i].path # registry[j].path
    /\ used = Registered
    /\ dirs = Registered
    /\ accessible = Paths
    /\ daemon = "down"
    /\ runners = [i \in Ids |-> Absent]
    /\ runner = [r \in Runners |-> Absent]
    /\ task = [t \in Tasks |-> Absent]
    /\ client = [c \in Clients |-> Idle]
    /\ count = [ops |-> 0, crashes |-> 0, faults |-> 0, disconnects |-> 0,
                moves |-> 0, unmapped |-> 0]

-----------------------------------------------------------------------------
(* Start-up: VaultManager::open.                                           *)

ReconcileRows ==
    /\ daemon = "down"
    /\ daemon' = "rows"
    /\ registry' = [i \in Ids |->
          IF i \in Registered /\ registry[i].status = "active"
                              /\ registry[i].path \notin accessible
          THEN [registry[i] EXCEPT !.status = "errored"]
          ELSE registry[i]]
    /\ dirs' = dirs \cup {i \in Registered : /\ registry[i].status = "active"
                                             /\ registry[i].path \in accessible}
    /\ UNCHANGED <<used, accessible, memory, client, count>>

Active == {i \in Registered : registry[i].status = "active"}

\* Mutant: directories without a row are left alone.
ReconcileNothing ==
    /\ daemon = "rows"
    /\ daemon' = "dirs"
    /\ UNCHANGED <<table, disk, memory, client, count>>

\* Every directory whose id is not an active row is removed.
ReconcileDirs ==
    /\ daemon = "rows"
    /\ daemon' = "dirs"
    /\ dirs' = dirs \cap Active
    /\ UNCHANGED <<table, accessible, memory, client, count>>

\* As far as that works: a failure is logged and start-up goes on.
OrphansStay ==
    /\ daemon = "rows"
    /\ daemon' = "dirs"
    /\ count.faults < MaxFaults
    /\ count' = [count EXCEPT !.faults = @ + 1]
    /\ \E kept \in SUBSET (dirs \ Active) \ {{}} : dirs' = (dirs \cap Active) \cup kept
    /\ UNCHANGED <<table, accessible, memory, client>>

\* spawn_runner_for_row: a fresh runner and its bootstrap task.
NewBootstrapping(i, row, t) ==
    [vault |-> i, name |-> row.name, status |-> row.status, boot |-> t, life |-> Absent]

NewRunner(i, row, r, t) ==
    /\ runner' = [runner EXCEPT ![r] = NewBootstrapping(i, row, t)]
    /\ task' = [task EXCEPT ![t] =
                  [runner |-> r, stage |-> "scanning", stop |-> FALSE]]
    /\ runners' = [runners EXCEPT ![i] = r]

StartVault(i) ==
    /\ daemon = "dirs"
    /\ i \in Active \ Mapped
    /\ FreeRunners # {} /\ FreeTasks # {}
    /\ NewRunner(i, registry[i], Least(FreeRunners), Least(FreeTasks))
    /\ UNCHANGED <<table, disk, daemon, client, count>>

Serve ==
    /\ daemon = "dirs"
    /\ Active \subseteq Mapped
    /\ daemon' = "serving"
    /\ UNCHANGED <<table, disk, memory, client, count>>

-----------------------------------------------------------------------------
(* Requests.                                                               *)

At(c, s) == /\ daemon = "serving"
            /\ client[c].plan # <<>> /\ Head(client[c].plan) = s

\* The handler returns; its op_lock guard and its Arcs are dropped.
Return(c) == client' = [client EXCEPT ![c] = Idle]

\* The handler goes on with what `k` remembers.
Proceed(c, k) ==
    client' = [client EXCEPT ![c] = IF Tail(k.plan) = <<>> THEN Idle
                                    ELSE [k EXCEPT !.plan = Tail(@)]]

Accepts(c, op) == /\ daemon = "serving" /\ client[c] = Idle
                  /\ op \in Ops /\ count.ops < MaxOps

Begin(c, k) ==
    /\ client' = [client EXCEPT ![c] = k]
    /\ count' = [count EXCEPT !.ops = @ + 1,
                   !.unmapped = IF k.id \in Ids \ Mapped THEN @ + 1 ELSE @]
    /\ UNCHANGED <<table, disk, daemon, memory>>

\* UUIDs do not run out: a create begins only while Ids has one for it.
Creating == {c \in Clients : client[c].op = "create" /\ client[c].id = Absent}

\* canonicalize_for_create wants something to be there: a path that is not
\* accessible is taken too, if it leads to a file or to what cannot be read.
BeginCreate(c, n, p) ==
    /\ Accepts(c, "create")
    /\ Cardinality(Creating) < Cardinality(Ids \ used)
    /\ Begin(c, [Idle EXCEPT !.op = "create", !.plan = Plan("create", FALSE),
                    !.row = [name |-> n, path |-> p, status |-> "active"]])

\* resolve looks in the runner map alone, and by the name in the entry.
BeginTerminate(c, i) ==
    /\ Accepts(c, "terminate")
    /\ i \in Mapped
    /\ Begin(c, [Idle EXCEPT !.op = "terminate", !.id = i,
                             !.plan = Plan("terminate", TRUE)])

\* get reads the row, then runner_for reads the map.
BeginOn(c, op, i) ==
    /\ Accepts(c, op)
    /\ op \in Operations \ {"create", "terminate"}
    /\ i \in Registered
    /\ i \notin Mapped =>
          CASE op \in {"pause", "rescan"} -> FALSE
            [] op = "resume" -> \/ registry[i].status = "paused"
                                \/ /\ registry[i].status = "errored"
                                   /\ registry[i].path \in accessible
            [] op = "rename" -> TRUE
            [] OTHER -> registry[i].path \in accessible
    /\ \E n \in IF op = "rename" THEN Names \ {registry[i].name} ELSE {Absent} :
          Begin(c, [Idle EXCEPT !.op = op, !.id = i, !.arg = n,
                                !.row = registry[i], !.runner = runners[i],
                                !.plan = Plan(op, i \in Mapped)])

-----------------------------------------------------------------------------
(* The steps of an operation.                                              *)

\* Mutant: op_lock is not taken.
LockNothing(c) ==
    /\ At(c, "lock")
    /\ LET k == client[c]
           status == runner[k.runner].status
       IN  IF \/ k.op = "pause" /\ status = "paused"
              \/ k.op = "resume" /\ status = "active"
           THEN Return(c) ELSE Proceed(c, k)
    /\ UNCHANGED <<table, disk, daemon, memory, count>>

\* op_lock, then the early return on the status in the entry.
Lock(c) ==
    /\ At(c, "lock")
    /\ \A d \in Clients : ~(client[d].locked /\ client[d].runner = client[c].runner)
    /\ LET k == client[c]
           status == runner[k.runner].status
       IN  IF \/ k.op = "pause" /\ status = "paused"
              \/ k.op = "resume" /\ status = "active"
           THEN Return(c)
           ELSE Proceed(c, [k EXCEPT !.locked = TRUE])
    /\ UNCHANGED <<table, disk, daemon, memory, count>>

\* terminate takes the runner out of the map; a second one finds none.
Unmap(c) ==
    /\ At(c, "unmap")
    /\ LET k == client[c]
           r == runners[k.id]
       IN  /\ Proceed(c, [k EXCEPT !.runner = r,
                 !.plan = IF r = Absent THEN <<"unmap", "delete", "rmdir">>
                          ELSE @])
           /\ runners' = [runners EXCEPT ![k.id] = Absent]
    /\ UNCHANGED <<table, disk, daemon, runner, task, count>>

\* Mutant: the shutdown signal is not sent.
SignalNothing(t) == task

\* shutdown_tx.send(true): one channel for the bootstrap and the consumer.
Signal(t) == IF t = Absent THEN task ELSE [task EXCEPT ![t].stop = TRUE]

\* shutdown_with_timeout takes the bootstrap handle and signals it.
TakeBootstrap(c) ==
    /\ At(c, "boot")
    /\ LET k == client[c]
           t == runner[k.runner].boot
       IN  /\ Proceed(c, [k EXCEPT !.wait = t])
           /\ runner' = [runner EXCEPT ![k.runner].boot = Absent]
           /\ task' = Signal(t)
    /\ UNCHANGED <<table, disk, daemon, runners, count>>

\* Whoever drains a consumer holds the lifecycle mutex meanwhile.
LifecycleFree(r) ==
    \A c \in Clients : ~(/\ At(c, "drain") /\ client[c].runner = r
                         /\ client[c].wait # Absent)

\* Mutant: the bootstrap is signalled but not awaited.
JoinNothing(c) ==
    /\ At(c, "join")
    /\ LET k == client[c]
           t == runner[k.runner].life
       IN  /\ LifecycleFree(k.runner)
           /\ Proceed(c, [k EXCEPT !.wait = t])
           /\ runner' = [runner EXCEPT ![k.runner].life = Absent]
           /\ task' = Signal(t)
    /\ UNCHANGED <<table, disk, daemon, runners, count>>

\* Only when the bootstrap has ended is the lifecycle taken, since the bootstrap
\* may be about to install one.
JoinBootstrap(c) ==
    /\ At(c, "join")
    /\ LET k == client[c]
           t == runner[k.runner].life
       IN  /\ ~Scanning(k.wait)
           /\ LifecycleFree(k.runner)
           /\ Proceed(c, [k EXCEPT !.wait = t])
           /\ runner' = [runner EXCEPT ![k.runner].life = Absent]
           /\ task' = Signal(t)
    /\ UNCHANGED <<table, disk, daemon, runners, count>>

DrainConsumer(c) ==
    /\ At(c, "drain")
    /\ LET k == client[c]
       IN  /\ ~Running(k.wait)
           /\ Proceed(c, [k EXCEPT !.wait = Absent])
    /\ UNCHANGED <<table, disk, daemon, memory, count>>

\* The rebuild SQL; without a runner it opens the store, which creates the
\* directory.
RebuildIndex(c) ==
    /\ At(c, "rebuild")
    /\ dirs' = IF client[c].runner = Absent THEN dirs \cup {client[c].id} ELSE dirs
    /\ Proceed(c, client[c])
    /\ UNCHANGED <<table, accessible, daemon, memory, count>>

\* rescan signals the consumer in the lifecycle slot, if there is one: what the
\* walk does is in VaultIndex.  Here it waits for the slot with op_lock held.
SignalRescan(c) ==
    /\ At(c, "signal")
    /\ LifecycleFree(client[c].runner)
    /\ Proceed(c, client[c])
    /\ UNCHANGED <<table, disk, daemon, memory, count>>

\* Mutant: a status the schema's CHECK does not know.
UpdateStatusUnchecked(c) ==
    /\ At(c, "status")
    /\ LET k == client[c] IN
       IF k.id \notin Registered
       THEN Return(c) /\ UNCHANGED registry
       ELSE /\ registry' = [registry EXCEPT ![k.id].status =
                              IF k.op = "pause" THEN "pausing" ELSE "active"]
            /\ Proceed(c, k)
    /\ UNCHANGED <<used, disk, daemon, memory, count>>

\* update_status fails when the row is gone.
UpdateStatus(c) ==
    /\ At(c, "status")
    /\ LET k == client[c] IN
       IF k.id \notin Registered
       THEN Return(c) /\ UNCHANGED registry
       ELSE /\ registry' = [registry EXCEPT ![k.id].status =
                              IF k.op = "pause" THEN "paused" ELSE "active"]
            /\ Proceed(c, k)
    /\ UNCHANGED <<used, disk, daemon, memory, count>>

\* get_by_id after the update.
Reread(c) ==
    /\ At(c, "reread")
    /\ LET k == client[c] IN
       IF k.id \notin Registered THEN Return(c)
       ELSE Proceed(c, [k EXCEPT !.row = registry[k.id]])
    /\ UNCHANGED <<table, disk, daemon, memory, count>>

\* Store::open creates the per-vault directory when it is not there.
OpenStore(c) ==
    /\ At(c, "open")
    /\ dirs' = dirs \cup {client[c].id}
    /\ Proceed(c, client[c])
    /\ UNCHANGED <<table, accessible, daemon, memory, count>>

\* spawn_runner_parts on the runner the handler holds; reset publishes the new
\* entry with it.  Without one, a fresh runner goes into the map.
Spawn(c) ==
    /\ At(c, "spawn")
    /\ FreeTasks # {}
    /\ LET k == client[c]
           t == Least(FreeTasks)
       IN  /\ \/ /\ k.runner # Absent
                 /\ task' = [task EXCEPT ![t] =
                      [runner |-> k.runner, stage |-> "scanning", stop |-> FALSE]]
                 /\ runner' = [runner EXCEPT ![k.runner] =
                      IF k.op = "resume" THEN [@ EXCEPT !.boot = t]
                      ELSE [@ EXCEPT !.boot = t, !.name = k.row.name,
                                     !.status = k.row.status]]
                 /\ UNCHANGED runners
              \/ /\ k.runner = Absent
                 /\ FreeRunners # {}
                 /\ NewRunner(k.id, k.row, Least(FreeRunners), t)
           /\ Proceed(c, k)
    /\ UNCHANGED <<table, disk, daemon, count>>

\* replace_entry: pause from the entry it found, resume from the row it read
\* before it had the lock, rename with the name it was given.
Publish(c) ==
    /\ At(c, "publish")
    /\ LET k == client[c] IN
       /\ runner' = [runner EXCEPT ![k.runner] =
             CASE k.op = "pause" -> [@ EXCEPT !.status = "paused"]
               [] k.op = "resume" -> [@ EXCEPT !.status = "active",
                                               !.name = k.row.name]
               [] OTHER -> [@ EXCEPT !.name = k.arg]]
       /\ Proceed(c, k)
    /\ UNCHANGED <<table, disk, daemon, runners, task, count>>

\* The look-ups of create and of rename, each before its write.
CheckFree(c) ==
    /\ \/ /\ At(c, "name")
          /\ IF Named(client[c].row.name) # {} THEN Return(c)
             ELSE Proceed(c, client[c])
       \/ /\ At(c, "path")
          /\ IF AtPath(client[c].row.path) # {} THEN Return(c)
             ELSE Proceed(c, client[c])
       \/ /\ At(c, "free")
          /\ IF Named(client[c].arg) \ {client[c].id} # {} THEN Return(c)
             ELSE Proceed(c, client[c])
    /\ UNCHANGED <<table, disk, daemon, memory, count>>

\* Mutant: no UNIQUE constraint behind the look-ups.
InsertUnchecked(c) ==
    /\ At(c, "insert")
    /\ \E i \in Ids \ used :
          /\ registry' = [registry EXCEPT ![i] = client[c].row]
          /\ used' = used \cup {i}
          /\ Proceed(c, [client[c] EXCEPT !.id = i])
    /\ UNCHANGED <<disk, daemon, memory, count>>

\* INSERT with UNIQUE (name) and UNIQUE (path).
Insert(c) ==
    /\ At(c, "insert")
    /\ LET row == client[c].row IN
       \/ /\ Named(row.name) \cup AtPath(row.path) # {}
          /\ Return(c)
          /\ UNCHANGED table
       \/ /\ Named(row.name) \cup AtPath(row.path) = {}
          /\ \E i \in Ids \ used :
                /\ registry' = [registry EXCEPT ![i] = row]
                /\ used' = used \cup {i}
                /\ Proceed(c, [client[c] EXCEPT !.id = i])
    /\ UNCHANGED <<disk, daemon, memory, count>>

CreateSubdir(c) ==
    /\ At(c, "subdir")
    /\ dirs' = dirs \cup {client[c].id}
    /\ Proceed(c, client[c])
    /\ UNCHANGED <<table, accessible, daemon, memory, count>>

\* UPDATE of a UNIQUE column; no row updated is an error.
UpdateName(c) ==
    /\ At(c, "update")
    /\ LET k == client[c] IN
       IF k.id \notin Registered \/ Named(k.arg) \ {k.id} # {}
       THEN Return(c) /\ UNCHANGED registry
       ELSE /\ registry' = [registry EXCEPT ![k.id].name = k.arg]
            /\ Proceed(c, k)
    /\ UNCHANGED <<used, disk, daemon, memory, count>>

\* write_meta_toml does not create the directory.
WriteMeta(c) ==
    /\ At(c, "meta")
    /\ IF client[c].id \notin dirs THEN Return(c) ELSE Proceed(c, client[c])
    /\ UNCHANGED <<table, disk, daemon, memory, count>>

DeleteRow(c) ==
    /\ At(c, "delete")
    /\ registry' = [registry EXCEPT ![client[c].id] = Absent]
    /\ Proceed(c, client[c])
    /\ UNCHANGED <<used, disk, daemon, memory, count>>

RemoveDir(c) ==
    /\ At(c, "rmdir")
    /\ dirs' = dirs \ {client[c].id}
    /\ Proceed(c, client[c])
    /\ UNCHANGED <<table, accessible, daemon, memory, count>>

Fallible == Steps \ {"lock", "unmap", "boot", "join", "drain", "spawn", "publish",
                     "signal"}

\* `?` on a failing registry, file or store call.  A store that fails to open may
\* have its directory.
StepFails(c) ==
    /\ \E s \in Fallible : At(c, s)
    /\ count.faults < MaxFaults
    /\ count' = [count EXCEPT !.faults = @ + 1]
    /\ \/ UNCHANGED dirs
       \/ At(c, "open") /\ dirs' = dirs \cup {client[c].id}
    /\ Return(c)
    /\ UNCHANGED <<table, accessible, daemon, memory>>

\* The client goes away and the server drops the handler at an await.
Disconnect(c) ==
    /\ client[c] # Idle
    /\ count.disconnects < MaxDisconnects
    /\ count' = [count EXCEPT !.disconnects = @ + 1]
    /\ Return(c)
    /\ UNCHANGED <<table, disk, daemon, memory>>

-----------------------------------------------------------------------------
(* The tasks of a runner.                                                  *)

\* A handle of an ended task is as good as none.
Forget(t) ==
    LET r == task[t].runner
        left(h) == IF h = t THEN Absent ELSE h
    IN  [runner EXCEPT ![r].boot = left(@), ![r].life = left(@)]

\* The scan is over: the bootstrap installs watcher and consumer.  What was in
\* the slot is dropped, and its consumer ends when its channels close.
Install(t) ==
    /\ Scanning(t)
    /\ LifecycleFree(task[t].runner)
    /\ LET old == runner[task[t].runner].life IN
       task' = [u \in Tasks |->
          IF u = t THEN [task[t] EXCEPT !.stage = "live"]
          ELSE IF u = old THEN [task[u] EXCEPT !.stop = TRUE] ELSE task[u]]
    /\ runner' = [runner EXCEPT ![task[t].runner].life = t]
    /\ UNCHANGED <<table, disk, daemon, runners, client, count>>

\* A task that was told to stop ends: the scan is dropped, the consumer drains,
\* or the thirty seconds of whoever waits for it pass and it is aborted.  The
\* abort is asked for and not waited for; here the task ends with it, though it
\* may still be on its way to its next await when the waiter goes on.
TaskStops(t) ==
    /\ Running(t) /\ task[t].stop
    /\ task' = [task EXCEPT ![t] = Absent]
    /\ runner' = Forget(t)
    /\ UNCHANGED <<table, disk, daemon, runners, client, count>>

\* The initial scan fails; the vault stays active in the registry.
ScanFails(t) ==
    /\ Scanning(t)
    /\ count.faults < MaxFaults
    /\ count' = [count EXCEPT !.faults = @ + 1]
    /\ task' = [task EXCEPT ![t] = Absent]
    /\ runner' = Forget(t)
    /\ UNCHANGED <<table, disk, daemon, runners, client>>

Leaked(t) == Running(t) /\ ~Held(task[t].runner)

\* Mutant: a dropped runner leaves its consumer running.
ReapStopped(t) ==
    /\ Leaked(t) /\ task[t].stage = "live" /\ task[t].stop
    /\ task' = [task EXCEPT ![t] = Absent]
    /\ runner' = Forget(t)
    /\ UNCHANGED <<table, disk, daemon, runners, client, count>>

\* The last reference to a runner is gone: dropping its lifecycle drops the
\* watcher and the rescan sender, and the consumer ends.
Reap(t) ==
    /\ Leaked(t) /\ task[t].stage = "live"
    /\ task' = [task EXCEPT ![t] = Absent]
    /\ runner' = Forget(t)
    /\ UNCHANGED <<table, disk, daemon, runners, client, count>>

-----------------------------------------------------------------------------
(* The rest of the world.                                                  *)

\* The process ends, at any point: registry and directories remain.
Crash ==
    /\ daemon # "down"
    /\ count.crashes < MaxCrashes
    /\ count' = [count EXCEPT !.crashes = @ + 1]
    /\ daemon' = "down"
    /\ runners' = [i \in Ids |-> Absent]
    /\ runner' = [r \in Runners |-> Absent]
    /\ task' = [t \in Tasks |-> Absent]
    /\ client' = [c \in Clients |-> Idle]
    /\ UNCHANGED <<table, disk>>

\* A vault directory is unmounted, moved away or comes back.
MovePath(p) ==
    /\ count.moves < MaxMoves
    /\ count' = [count EXCEPT !.moves = @ + 1]
    /\ accessible' = IF p \in accessible THEN accessible \ {p}
                     ELSE accessible \cup {p}
    /\ UNCHANGED <<table, dirs, daemon, memory, client>>

StartUp == \/ ReconcileRows \/ ReconcileDirs \/ Serve
           \/ \E i \in Ids : StartVault(i)

Request(c) ==
    \/ \E n \in Names, p \in Paths : BeginCreate(c, n, p)
    \/ \E i \in Ids : \/ BeginTerminate(c, i)
                      \/ \E op \in Operations : BeginOn(c, op, i)

Handle(c) ==
    \/ Unmap(c) \/ TakeBootstrap(c) \/ JoinBootstrap(c) \/ DrainConsumer(c)
    \/ SignalRescan(c) \/ RebuildIndex(c) \/ UpdateStatus(c) \/ Reread(c)
    \/ OpenStore(c) \/ Spawn(c) \/ Publish(c) \/ CheckFree(c) \/ Insert(c) \/ CreateSubdir(c)
    \/ UpdateName(c) \/ WriteMeta(c) \/ DeleteRow(c) \/ RemoveDir(c)

Next ==
    \/ StartUp \/ OrphansStay \/ Crash
    \/ \E c \in Clients : Request(c) \/ Lock(c) \/ Handle(c)
                          \/ StepFails(c) \/ Disconnect(c)
    \/ \E t \in Tasks : Install(t) \/ TaskStops(t) \/ ScanFails(t) \/ Reap(t)
    \/ \E p \in Paths : MovePath(p)

Spec == Init /\ [][Next]_vars

-----------------------------------------------------------------------------
\* Rows satisfy the schema's CHECK, runners and tasks refer to each other, and a
\* handler that holds a lock holds a runner.
TypeOK ==
    /\ registry \in [Ids -> Maybe(Rows)]
    /\ used \subseteq Ids /\ Registered \subseteq used
    /\ dirs \subseteq Ids
    /\ accessible \subseteq Paths
    /\ daemon \in {"down", "rows", "dirs", "serving"}
    /\ runners \in [Ids -> Maybe(Runners)]
    /\ runner \in [Runners -> Maybe(RunnerValues)]
    /\ task \in [Tasks -> Maybe(TaskValues)]
    /\ \A i \in Mapped : runner[runners[i]] # Absent /\ runner[runners[i]].vault = i
    /\ \A t \in Tasks : Running(t) => runner[task[t].runner] # Absent
    /\ client \in [Clients -> Requests]
    /\ \A c \in Clients : client[c].locked => client[c].runner # Absent
    /\ count \in Bounds

-----------------------------------------------------------------------------
(* Safety.                                                                 *)

\* A runner in the map has at most one task.
SoleLifecycle ==
    \A i \in Mapped :
        Cardinality({t \in Tasks : Running(t) /\ task[t].runner = runners[i]}) <= 1

\* Every operation found its vault in the map, no step failed, and no handler was
\* dropped half-way.
Undisturbed == /\ count.unmapped = 0
               /\ count.faults = 0 /\ count.disconnects = 0

\* However undisturbed operations on one vault interleave, a runner in the map has
\* at most one task: op_lock serialises what spawns and what drains.  Without a
\* runner there is no lock to take; a resume that ends between spawning and
\* publishing leaves an entry that lets the next one spawn again; and a runner that
\* a terminate took out of the map keeps what late lock holders spawn on it.
OneLifecyclePerRunner == Undisturbed => SoleLifecycle

\* While a pause, reset or rebuild of a mapped vault is past its shutdown and has
\* not spawned anew, the vault has no task at all, although the bootstrap may have
\* been about to install a watcher when the shutdown began: the rebuild SQL runs
\* on a store no task uses, and a paused vault is not watched.  A handler dropped
\* in its shutdown takes the handle of a task with it, which no later one awaits.
DrainedIsQuiet ==
    Undisturbed =>
    \A c \in Clients :
        LET k == client[c] IN
        /\ k.locked /\ runners[k.id] = k.runner
        /\ \/ k.op = "pause" /\ Head(k.plan) \in {"status", "publish"}
           \/ k.op \in {"reset", "rebuild"}
              /\ Head(k.plan) \in {"rebuild", "status", "reread", "open", "spawn"}
        => \A t \in Tasks : Running(t) => task[t].runner # k.runner

Idling == daemon = "serving" /\ \A c \in Clients : client[c] = Idle

\* Operations come one after the other: there is one client.
OneByOne == \A c, d \in Clients : c = d

\* Registry, map, entries and directories agree whenever no operation is under
\* way, after any sequence of operations and crashes between their steps.  What
\* fails, is dropped or is overtaken half-way leaves an entry behind its row.
QuietAgreement ==
    OneByOne /\ count.faults = 0 /\ count.disconnects = 0 /\ Idling =>
        /\ Active \subseteq Mapped /\ Active \subseteq dirs
        /\ dirs \subseteq Registered
        /\ \A i \in Mapped : /\ i \in Registered
                             /\ runner[runners[i]].name = registry[i].name
                             /\ runner[runners[i]].status = registry[i].status

\* terminate removes the row before the directory: a crash in between leaves what
\* the next start cleans up, never a row that promises a lost index.
DirGoesAfterRow ==
    [][\A i \in dirs \ dirs' : daemon = "serving" => i \notin Registered]_vars

Lifecycle == INSTANCE VaultLifecycle WITH
    Nonexistent <- Absent, Terminated <- Ended,
    row <- [i \in Ids |-> IF i \in Registered THEN registry[i]
                          ELSE IF i \in used THEN Ended ELSE Absent],
    serving <- daemon = "serving"

\* The registry keeps the lifecycle promised to clients, whatever interleaves:
\* unique names and paths, no way back from termination, errored only at startup.
KeepsLifecycle == Lifecycle!Spec

-----------------------------------------------------------------------------
(* Liveness.                                                               *)

\* The runtime polls every future that can move; tokio's mutex is fair, hence the
\* strong fairness of Lock.  Nothing is assumed of clients, faults and crashes.
Fairness ==
    /\ WF_vars(StartUp)
    /\ \A c \in Clients : WF_vars(Handle(c)) /\ SF_vars(Lock(c))
    /\ \A t \in Tasks : WF_vars(Install(t)) /\ WF_vars(TaskStops(t))
                        /\ WF_vars(Reap(t))

FairSpec == Spec /\ Fairness

\* No operation waits forever: not for op_lock, not for the lifecycle mutex that a
\* drain holds, not for a bootstrap that waits for the same mutex.
OpsFinish == \A c \in Clients : client[c] # Idle ~> client[c] = Idle

\* A task whose runner nobody holds any more, after a terminate that was cut off
\* or a spawn on a terminated runner, ends by itself.
LeaksEnd == \A t \in Tasks : Leaked(t) ~> ~Leaked(t)

-----------------------------------------------------------------------------
(* What the documentation and the comments say.                            *)

\* docs/specs/vault-management.md:56: "Watcher + indexer stopped; index preserved".
PausedIndexSurvives ==
    \A i \in Registered : registry[i].status = "paused" => i \in dirs

\* docs/specs/vault-management.md:48: "terminate (any state)".
AnyStateTerminates == Idling => Registered \subseteq Mapped

\* docs/specs/vault-management.md:58 of `terminated`: "Registry row removed;
\* per-vault subdirectory removed".
TerminatedIsGone ==
    Idling => \A i \in used \ Registered : i \notin dirs /\ i \notin Mapped

\* docs/specs/vault-management.md:673, concurrent operations on one vault:
\* "Serialized via the per-vault `op_lock`".
OneLifecyclePerVault ==
    \A i \in Ids :
        Cardinality({t \in Tasks : /\ Running(t) /\ ~task[t].stop
                                   /\ runner[task[t].runner].vault = i}) <= 1

\* src/control_plane/manager.rs:778, rename: "update the registry and the per-vault
\* meta.toml, and replace the runner's entry with the new name".
NamesAgree ==
    Idling => \A i \in Mapped \cap Registered :
                 runner[runners[i]].name = registry[i].name

\* docs/specs/vault-management.md:56: a `paused` vault has "Watcher + indexer
\* stopped".
PausedMeansStopped ==
    Idling => \A i \in Registered : registry[i].status = "paused" =>
                 \A t \in Tasks : Running(t) => \/ task[t].stop
                                                \/ runner[task[t].runner].vault # i

\* src/control_plane/manager.rs:605, pause: "mark the registry row paused, and
\* publish a `Paused` snapshot to readers".
EntryFollowsRow ==
    Idling => \A i \in Mapped \cap Registered :
                 runner[runners[i]].status = registry[i].status

\* docs/specs/vault-management.md:661, a vault path that becomes inaccessible at
\* runtime: "Vault enters `errored`".
InaccessibleIsErrored ==
    \A i \in Ids :
        (i \in Active /\ registry[i].path \notin accessible) ~>
            ~(i \in Active /\ registry[i].path \notin accessible)
=============================================================================

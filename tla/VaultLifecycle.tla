--------------------------- MODULE VaultLifecycle ---------------------------
(***************************************************************************)
(* What the control plane promises about the registry (docs/specs/         *)
(* vault-management.md, "Vault Lifecycle State Machine" and "Identifier    *)
(* Model"): a vault is created once, under a name and a path no registered *)
(* vault has; it alternates between active and paused; it becomes errored  *)
(* only while the daemon reconciles at startup and active again from       *)
(* there; termination is final, and its identifier is never used again.    *)
(* Nothing but a rename changes a name, and nothing changes a path.        *)
(***************************************************************************)
CONSTANTS Ids, Names, Paths, Nonexistent, Terminated

VARIABLES
    row,     \* name, path and status, Nonexistent or Terminated
    serving  \* the daemon accepts operations

vars == <<row, serving>>

Registered == {i \in Ids : row[i] \notin {Nonexistent, Terminated}}

Unused(i, n, p) ==
    \A j \in Registered \ {i} : row[j].name # n /\ row[j].path # p

Init ==
    /\ \E R \in SUBSET Ids :
          \E f \in [R -> [name : Names, path : Paths,
                          status : {"active", "paused"}]] :
              row = [i \in Ids |-> IF i \in R THEN f[i] ELSE Nonexistent]
    /\ \A i \in Registered : Unused(i, row[i].name, row[i].path)
    /\ serving = FALSE

Create(i, n, p) ==
    /\ serving
    /\ row[i] = Nonexistent
    /\ Unused(i, n, p)
    /\ row' = [row EXCEPT ![i] = [name |-> n, path |-> p, status |-> "active"]]
    /\ UNCHANGED serving

Pause(i) ==
    /\ serving /\ i \in Registered
    /\ row[i].status = "active"
    /\ row' = [row EXCEPT ![i].status = "paused"]
    /\ UNCHANGED serving

Activate(i) ==
    /\ serving /\ i \in Registered
    /\ row[i].status \in {"paused", "errored"}
    /\ row' = [row EXCEPT ![i].status = "active"]
    /\ UNCHANGED serving

Rename(i, n) ==
    /\ serving /\ i \in Registered
    /\ Unused(i, n, row[i].path)
    /\ row' = [row EXCEPT ![i].name = n]
    /\ UNCHANGED serving

Terminate(i) ==
    /\ serving /\ i \in Registered
    /\ row' = [row EXCEPT ![i] = Terminated]
    /\ UNCHANGED serving

Reconcile(S) ==
    /\ ~serving
    /\ \A i \in S : row[i].status = "active"
    /\ row' = [i \in Ids |-> IF i \in S THEN [row[i] EXCEPT !.status = "errored"]
                             ELSE row[i]]
    /\ UNCHANGED serving

Switch == serving' = ~serving /\ UNCHANGED row

Next ==
    \/ Switch
    \/ \E S \in SUBSET Registered : Reconcile(S)
    \/ \E i \in Ids :
          \/ Pause(i) \/ Activate(i) \/ Terminate(i)
          \/ \E n \in Names : Rename(i, n) \/ \E p \in Paths : Create(i, n, p)

Spec == Init /\ [][Next]_vars
=============================================================================

------------------------- MODULE ControlPlaneProofs -------------------------
(***************************************************************************)
(* Theorems about ControlPlane, for every set of vaults, clients, runners  *)
(* and tasks and any number of operations, crashes, faults and             *)
(* disconnects: what the state looks like, that a directory outlives its   *)
(* row, and that the registry keeps the lifecycle of VaultLifecycle.       *)
(*                                                                         *)
(* The last three are about undisturbed operations.  With any number of    *)
(* clients: while every operation finds its runner, no step fails and no   *)
(* handler is dropped, a runner in the map has at most one task, and a     *)
(* handler past its shutdown has no task beside it.  With one client,      *)
(* whether or not operations find a runner: registry, map, entries and     *)
(* directories agree in between.                                           *)
(***************************************************************************)
EXTENDS ControlPlane, WellFoundedInduction, FiniteSetTheorems, SequenceTheorems,
        TLAPS

-----------------------------------------------------------------------------
(* Plans.  A handler's plan is always what is left of its operation's.     *)

Suffixes(P) == {SubSeq(P, n, Len(P)) : n \in 1 .. Len(P)}

LEMMA HeadOrEmpty ==
    ASSUME NEW S, NEW q \in Seq(S)
    PROVE  IF Len(q) = 0 THEN q = <<>> ELSE q # <<>> /\ Head(q) = q[1]
<1> QED OBVIOUS

LEMMA WholeIsSuffix ==
    ASSUME NEW S, NEW P \in Seq(S), P # <<>>
    PROVE  P \in Suffixes(P)
<1>1. P = SubSeq(P, 1, Len(P)) /\ 1 \in 1 .. Len(P)
  OBVIOUS
<1> QED BY <1>1 DEF Suffixes

\* Taking a step of a plan leaves the rest of it.
LEMMA SuffixStep ==
    ASSUME NEW S, NEW P \in Seq(S), NEW p \in Suffixes(P)
    PROVE  /\ p \in Seq(S) /\ p # <<>>
           /\ \E n \in 1 .. Len(P) :
                 /\ Head(p) = P[n]
                 /\ n = Len(P) => Tail(p) = <<>>
                 /\ n # Len(P) => /\ Tail(p) # <<>>
                                  /\ Tail(p) \in Suffixes(P)
                                  /\ Head(Tail(p)) = P[n + 1]
<1>1. PICK n \in 1 .. Len(P) : p = SubSeq(P, n, Len(P))
  BY DEF Suffixes
<1>2. /\ p \in Seq(S) /\ Len(p) = Len(P) - n + 1
      /\ \A m \in 1 .. Len(p) : p[m] = P[n + m - 1]
  BY <1>1
<1>3. p # <<>> /\ Head(p) = P[n]
  BY <1>2
<1>4. /\ Tail(p) \in Seq(S) /\ Len(Tail(p)) = Len(P) - n
      /\ \A m \in 1 .. Len(P) - n : Tail(p)[m] = P[n + m]
  BY <1>2, <1>3
<1>5. CASE n = Len(P)
  <2>1. Len(Tail(p)) = 0
    BY <1>4, <1>5
  <2>2. Tail(p) = <<>>
    BY <1>4, <2>1, HeadOrEmpty
  <2> QED BY <1>2, <1>3, <1>5, <2>2
<1>6. CASE n # Len(P)
  <2>1. n + 1 \in 1 .. Len(P)
    BY <1>6
  <2> DEFINE q == SubSeq(P, n + 1, Len(P))
  <2>2. /\ q \in Seq(S) /\ Len(q) = Len(P) - n
        /\ \A m \in 1 .. Len(P) - n : q[m] = P[n + m]
    BY <2>1
  <2>3. Tail(p) = q
    <3> HIDE DEF q
    <3> QED BY <1>4, <2>2, SeqEqual
  <2>4. Tail(p) \in Suffixes(P)
    BY <2>1, <2>3 DEF Suffixes
  <2>5. Tail(p) # <<>> /\ Head(Tail(p)) = P[n + 1]
    <3>1. \A k, l \in Nat : k + 1 \in 1 .. l => 1 \in 1 .. l - k /\ l - k # 0
      OBVIOUS
    <3>2. n \in Nat /\ Len(P) \in Nat
      OBVIOUS
    <3>3. 1 \in 1 .. Len(P) - n /\ Len(Tail(p)) # 0
      BY <1>4, <2>1, <3>1, <3>2
    <3>4. Tail(p) # <<>> /\ Head(Tail(p)) = Tail(p)[1]
      BY <1>4, <3>3, HeadOrEmpty
    <3> QED BY <1>4, <3>3, <3>4
  <2> QED BY <1>2, <1>3, <1>6, <2>4, <2>5
<1> QED BY <1>5, <1>6

\* The plans, step by step.
GoesTo(P, p, s) == Tail(p) # <<>> /\ Tail(p) \in Suffixes(P) /\ Head(Tail(p)) = s

LEMMA CreationPlan ==
    /\ Creation \in Seq(Steps) /\ Creation # <<>> /\ Head(Creation) = "name"
    /\ \A p \in Suffixes(Creation) :
          /\ p \in Seq(Steps) /\ p # <<>>
          /\ \/ Head(p) = "name" /\ GoesTo(Creation, p, "path")
             \/ Head(p) = "path" /\ GoesTo(Creation, p, "insert")
             \/ Head(p) = "insert" /\ GoesTo(Creation, p, "subdir")
             \/ Head(p) = "subdir" /\ GoesTo(Creation, p, "open")
             \/ Head(p) = "open" /\ GoesTo(Creation, p, "spawn")
             \/ Head(p) = "spawn" /\ Tail(p) = <<>>
<1> DEFINE P == Creation
<1>1. P \in Seq(Steps) /\ Len(P) = 6
  BY DEF Creation, Steps
<1>2. /\ P[1] = "name" /\ P[2] = "path" /\ P[3] = "insert" /\ P[4] = "subdir"
      /\ P[5] = "open" /\ P[6] = "spawn"
  BY DEF Creation
<1> HIDE DEF P
<1>3. P # <<>> /\ Head(P) = "name"
  BY <1>1, <1>2, HeadOrEmpty
<1>4. ASSUME NEW p \in Suffixes(P)
      PROVE  /\ p \in Seq(Steps) /\ p # <<>>
             /\ \/ Head(p) = "name" /\ GoesTo(P, p, "path")
                \/ Head(p) = "path" /\ GoesTo(P, p, "insert")
                \/ Head(p) = "insert" /\ GoesTo(P, p, "subdir")
                \/ Head(p) = "subdir" /\ GoesTo(P, p, "open")
                \/ Head(p) = "open" /\ GoesTo(P, p, "spawn")
                \/ Head(p) = "spawn" /\ Tail(p) = <<>>
  <2>1. PICK n \in 1 .. 6 :
           /\ Head(p) = P[n]
           /\ n = 6 => Tail(p) = <<>>
           /\ n # 6 => GoesTo(P, p, P[n + 1])
    BY <1>1, SuffixStep DEF GoesTo
  <2>2. p \in Seq(Steps) /\ p # <<>>
    BY <1>1, SuffixStep
  <2> QED BY <1>2, <2>1, <2>2
<1> QED BY <1>1, <1>3, <1>4 DEF P

LEMMA TerminationPlan ==
    /\ Termination \in Seq(Steps) /\ Termination # <<>> /\ Head(Termination) = "unmap"
    /\ \A p \in Suffixes(Termination) :
          /\ p \in Seq(Steps) /\ p # <<>>
          /\ \/ Head(p) = "unmap" /\ GoesTo(Termination, p, "boot")
             \/ Head(p) = "boot" /\ GoesTo(Termination, p, "join")
             \/ Head(p) = "join" /\ GoesTo(Termination, p, "drain")
             \/ Head(p) = "drain" /\ GoesTo(Termination, p, "delete")
             \/ Head(p) = "delete" /\ GoesTo(Termination, p, "rmdir")
             \/ Head(p) = "rmdir" /\ Tail(p) = <<>>
<1> DEFINE P == Termination
<1>1. P \in Seq(Steps) /\ Len(P) = 6
  BY DEF Termination, Shutdown, Steps
<1>2. /\ P[1] = "unmap" /\ P[2] = "boot" /\ P[3] = "join" /\ P[4] = "drain"
      /\ P[5] = "delete" /\ P[6] = "rmdir"
  BY DEF Termination, Shutdown
<1> HIDE DEF P
<1>3. P # <<>> /\ Head(P) = "unmap"
  <2>1. P # <<>> /\ Head(P) = P[1]
    BY <1>1, HeadOrEmpty
  <2> QED BY <1>2, <2>1
<1>4. ASSUME NEW p \in Suffixes(P)
      PROVE  /\ p \in Seq(Steps) /\ p # <<>>
             /\ \/ Head(p) = "unmap" /\ GoesTo(P, p, "boot")
                \/ Head(p) = "boot" /\ GoesTo(P, p, "join")
                \/ Head(p) = "join" /\ GoesTo(P, p, "drain")
                \/ Head(p) = "drain" /\ GoesTo(P, p, "delete")
                \/ Head(p) = "delete" /\ GoesTo(P, p, "rmdir")
                \/ Head(p) = "rmdir" /\ Tail(p) = <<>>
  <2>1. PICK n \in 1 .. 6 :
           /\ Head(p) = P[n]
           /\ n = 6 => Tail(p) = <<>>
           /\ n # 6 => GoesTo(P, p, P[n + 1])
    BY <1>1, SuffixStep DEF GoesTo
  <2>2. p \in Seq(Steps) /\ p # <<>>
    BY <1>1, SuffixStep
  <2> QED BY <1>2, <2>1, <2>2
<1> QED BY <1>1, <1>3, <1>4 DEF P

LEMMA PausingPlan ==
    /\ Pausing \in Seq(Steps) /\ Pausing # <<>> /\ Head(Pausing) = "lock"
    /\ \A p \in Suffixes(Pausing) :
          /\ p \in Seq(Steps) /\ p # <<>>
          /\ \/ Head(p) = "lock" /\ GoesTo(Pausing, p, "boot")
             \/ Head(p) = "boot" /\ GoesTo(Pausing, p, "join")
             \/ Head(p) = "join" /\ GoesTo(Pausing, p, "drain")
             \/ Head(p) = "drain" /\ GoesTo(Pausing, p, "status")
             \/ Head(p) = "status" /\ GoesTo(Pausing, p, "publish")
             \/ Head(p) = "publish" /\ Tail(p) = <<>>
<1> DEFINE P == Pausing
<1>1. P \in Seq(Steps) /\ Len(P) = 6
  BY DEF Pausing, Shutdown, Steps
<1>2. /\ P[1] = "lock" /\ P[2] = "boot" /\ P[3] = "join" /\ P[4] = "drain"
      /\ P[5] = "status" /\ P[6] = "publish"
  BY DEF Pausing, Shutdown
<1> HIDE DEF P
<1>3. P # <<>> /\ Head(P) = "lock"
  BY <1>1, <1>2, HeadOrEmpty, SMTT(30)
<1>4. ASSUME NEW p \in Suffixes(P)
      PROVE  /\ p \in Seq(Steps) /\ p # <<>>
             /\ \/ Head(p) = "lock" /\ GoesTo(P, p, "boot")
                \/ Head(p) = "boot" /\ GoesTo(P, p, "join")
                \/ Head(p) = "join" /\ GoesTo(P, p, "drain")
                \/ Head(p) = "drain" /\ GoesTo(P, p, "status")
                \/ Head(p) = "status" /\ GoesTo(P, p, "publish")
                \/ Head(p) = "publish" /\ Tail(p) = <<>>
  <2>1. PICK n \in 1 .. 6 :
           /\ Head(p) = P[n]
           /\ n = 6 => Tail(p) = <<>>
           /\ n # 6 => GoesTo(P, p, P[n + 1])
    BY <1>1, SuffixStep DEF GoesTo
  <2>2. p \in Seq(Steps) /\ p # <<>>
    BY <1>1, SuffixStep
  <2> QED BY <1>2, <2>1, <2>2
<1> QED BY <1>1, <1>3, <1>4 DEF P

LEMMA MappedResumptionPlan ==
    /\ Resumption(TRUE) \in Seq(Steps) /\ Resumption(TRUE) # <<>> /\ Head(Resumption(TRUE)) = "lock"
    /\ \A p \in Suffixes(Resumption(TRUE)) :
          /\ p \in Seq(Steps) /\ p # <<>>
          /\ \/ Head(p) = "lock" /\ GoesTo(Resumption(TRUE), p, "open")
             \/ Head(p) = "open" /\ GoesTo(Resumption(TRUE), p, "spawn")
             \/ Head(p) = "spawn" /\ GoesTo(Resumption(TRUE), p, "status")
             \/ Head(p) = "status" /\ GoesTo(Resumption(TRUE), p, "publish")
             \/ Head(p) = "publish" /\ Tail(p) = <<>>
<1> DEFINE P == Resumption(TRUE)
<1>1. P \in Seq(Steps) /\ Len(P) = 5
  BY DEF Resumption, Steps
<1>2. /\ P[1] = "lock" /\ P[2] = "open" /\ P[3] = "spawn" /\ P[4] = "status"
      /\ P[5] = "publish"
  BY DEF Resumption
<1> HIDE DEF P
<1>3. P # <<>> /\ Head(P) = "lock"
  BY <1>1, <1>2, HeadOrEmpty
<1>4. ASSUME NEW p \in Suffixes(P)
      PROVE  /\ p \in Seq(Steps) /\ p # <<>>
             /\ \/ Head(p) = "lock" /\ GoesTo(P, p, "open")
                \/ Head(p) = "open" /\ GoesTo(P, p, "spawn")
                \/ Head(p) = "spawn" /\ GoesTo(P, p, "status")
                \/ Head(p) = "status" /\ GoesTo(P, p, "publish")
                \/ Head(p) = "publish" /\ Tail(p) = <<>>
  <2>1. PICK n \in 1 .. 5 :
           /\ Head(p) = P[n]
           /\ n = 5 => Tail(p) = <<>>
           /\ n # 5 => GoesTo(P, p, P[n + 1])
    BY <1>1, SuffixStep DEF GoesTo
  <2>2. p \in Seq(Steps) /\ p # <<>>
    BY <1>1, SuffixStep
  <2> QED BY <1>2, <2>1, <2>2
<1> QED BY <1>1, <1>3, <1>4 DEF P

LEMMA ResumptionPlan ==
    /\ Resumption(FALSE) \in Seq(Steps) /\ Resumption(FALSE) # <<>> /\ Head(Resumption(FALSE)) = "status"
    /\ \A p \in Suffixes(Resumption(FALSE)) :
          /\ p \in Seq(Steps) /\ p # <<>>
          /\ \/ Head(p) = "status" /\ GoesTo(Resumption(FALSE), p, "reread")
             \/ Head(p) = "reread" /\ GoesTo(Resumption(FALSE), p, "open")
             \/ Head(p) = "open" /\ GoesTo(Resumption(FALSE), p, "spawn")
             \/ Head(p) = "spawn" /\ Tail(p) = <<>>
<1> DEFINE P == Resumption(FALSE)
<1>1. P \in Seq(Steps) /\ Len(P) = 4
  BY DEF Resumption, Steps
<1>2. /\ P[1] = "status" /\ P[2] = "reread" /\ P[3] = "open" /\ P[4] = "spawn"
  BY DEF Resumption
<1> HIDE DEF P
<1>3. P # <<>> /\ Head(P) = "status"
  BY <1>1, <1>2, HeadOrEmpty
<1>4. ASSUME NEW p \in Suffixes(P)
      PROVE  /\ p \in Seq(Steps) /\ p # <<>>
             /\ \/ Head(p) = "status" /\ GoesTo(P, p, "reread")
                \/ Head(p) = "reread" /\ GoesTo(P, p, "open")
                \/ Head(p) = "open" /\ GoesTo(P, p, "spawn")
                \/ Head(p) = "spawn" /\ Tail(p) = <<>>
  <2>1. PICK n \in 1 .. 4 :
           /\ Head(p) = P[n]
           /\ n = 4 => Tail(p) = <<>>
           /\ n # 4 => GoesTo(P, p, P[n + 1])
    BY <1>1, SuffixStep DEF GoesTo
  <2>2. p \in Seq(Steps) /\ p # <<>>
    BY <1>1, SuffixStep
  <2> QED BY <1>2, <2>1, <2>2
<1> QED BY <1>1, <1>3, <1>4 DEF P

LEMMA MappedRenamingPlan ==
    /\ Renaming(TRUE) \in Seq(Steps) /\ Renaming(TRUE) # <<>> /\ Head(Renaming(TRUE)) = "lock"
    /\ \A p \in Suffixes(Renaming(TRUE)) :
          /\ p \in Seq(Steps) /\ p # <<>>
          /\ \/ Head(p) = "lock" /\ GoesTo(Renaming(TRUE), p, "free")
             \/ Head(p) = "free" /\ GoesTo(Renaming(TRUE), p, "update")
             \/ Head(p) = "update" /\ GoesTo(Renaming(TRUE), p, "reread")
             \/ Head(p) = "reread" /\ GoesTo(Renaming(TRUE), p, "meta")
             \/ Head(p) = "meta" /\ GoesTo(Renaming(TRUE), p, "publish")
             \/ Head(p) = "publish" /\ Tail(p) = <<>>
<1> DEFINE P == Renaming(TRUE)
<1>1. P \in Seq(Steps) /\ Len(P) = 6
  BY DEF Renaming, Steps
<1>2. /\ P[1] = "lock" /\ P[2] = "free" /\ P[3] = "update" /\ P[4] = "reread"
      /\ P[5] = "meta" /\ P[6] = "publish"
  BY DEF Renaming
<1> HIDE DEF P
<1>3. P # <<>> /\ Head(P) = "lock"
  BY <1>1, <1>2, HeadOrEmpty
<1>4. ASSUME NEW p \in Suffixes(P)
      PROVE  /\ p \in Seq(Steps) /\ p # <<>>
             /\ \/ Head(p) = "lock" /\ GoesTo(P, p, "free")
                \/ Head(p) = "free" /\ GoesTo(P, p, "update")
                \/ Head(p) = "update" /\ GoesTo(P, p, "reread")
                \/ Head(p) = "reread" /\ GoesTo(P, p, "meta")
                \/ Head(p) = "meta" /\ GoesTo(P, p, "publish")
                \/ Head(p) = "publish" /\ Tail(p) = <<>>
  <2>1. PICK n \in 1 .. 6 :
           /\ Head(p) = P[n]
           /\ n = 6 => Tail(p) = <<>>
           /\ n # 6 => GoesTo(P, p, P[n + 1])
    BY <1>1, SuffixStep DEF GoesTo
  <2>2. p \in Seq(Steps) /\ p # <<>>
    BY <1>1, SuffixStep
  <2> QED BY <1>2, <2>1, <2>2
<1> QED BY <1>1, <1>3, <1>4 DEF P

LEMMA RenamingPlan ==
    /\ Renaming(FALSE) \in Seq(Steps) /\ Renaming(FALSE) # <<>> /\ Head(Renaming(FALSE)) = "free"
    /\ \A p \in Suffixes(Renaming(FALSE)) :
          /\ p \in Seq(Steps) /\ p # <<>>
          /\ \/ Head(p) = "free" /\ GoesTo(Renaming(FALSE), p, "update")
             \/ Head(p) = "update" /\ GoesTo(Renaming(FALSE), p, "reread")
             \/ Head(p) = "reread" /\ GoesTo(Renaming(FALSE), p, "meta")
             \/ Head(p) = "meta" /\ Tail(p) = <<>>
<1> DEFINE P == Renaming(FALSE)
<1>1. P \in Seq(Steps) /\ Len(P) = 4
  BY DEF Renaming, Steps
<1>2. /\ P[1] = "free" /\ P[2] = "update" /\ P[3] = "reread" /\ P[4] = "meta"
  BY DEF Renaming
<1> HIDE DEF P
<1>3. P # <<>> /\ Head(P) = "free"
  BY <1>1, <1>2, HeadOrEmpty
<1>4. ASSUME NEW p \in Suffixes(P)
      PROVE  /\ p \in Seq(Steps) /\ p # <<>>
             /\ \/ Head(p) = "free" /\ GoesTo(P, p, "update")
                \/ Head(p) = "update" /\ GoesTo(P, p, "reread")
                \/ Head(p) = "reread" /\ GoesTo(P, p, "meta")
                \/ Head(p) = "meta" /\ Tail(p) = <<>>
  <2>1. PICK n \in 1 .. 4 :
           /\ Head(p) = P[n]
           /\ n = 4 => Tail(p) = <<>>
           /\ n # 4 => GoesTo(P, p, P[n + 1])
    BY <1>1, SuffixStep DEF GoesTo
  <2>2. p \in Seq(Steps) /\ p # <<>>
    BY <1>1, SuffixStep
  <2> QED BY <1>2, <2>1, <2>2
<1> QED BY <1>1, <1>3, <1>4 DEF P

LEMMA MappedResetPlan ==
    /\ Resetting(FALSE, TRUE) \in Seq(Steps) /\ Resetting(FALSE, TRUE) # <<>> /\ Head(Resetting(FALSE, TRUE)) = "lock"
    /\ \A p \in Suffixes(Resetting(FALSE, TRUE)) :
          /\ p \in Seq(Steps) /\ p # <<>>
          /\ \/ Head(p) = "lock" /\ GoesTo(Resetting(FALSE, TRUE), p, "boot")
             \/ Head(p) = "boot" /\ GoesTo(Resetting(FALSE, TRUE), p, "join")
             \/ Head(p) = "join" /\ GoesTo(Resetting(FALSE, TRUE), p, "drain")
             \/ Head(p) = "drain" /\ GoesTo(Resetting(FALSE, TRUE), p, "status")
             \/ Head(p) = "status" /\ GoesTo(Resetting(FALSE, TRUE), p, "reread")
             \/ Head(p) = "reread" /\ GoesTo(Resetting(FALSE, TRUE), p, "open")
             \/ Head(p) = "open" /\ GoesTo(Resetting(FALSE, TRUE), p, "spawn")
             \/ Head(p) = "spawn" /\ Tail(p) = <<>>
<1> DEFINE P == Resetting(FALSE, TRUE)
<1>1. P \in Seq(Steps) /\ Len(P) = 8
  BY DEF Resetting, Shutdown, Steps
<1>2. /\ P[1] = "lock" /\ P[2] = "boot" /\ P[3] = "join" /\ P[4] = "drain"
      /\ P[5] = "status" /\ P[6] = "reread" /\ P[7] = "open" /\ P[8] = "spawn"
  BY DEF Resetting, Shutdown
<1> HIDE DEF P
<1>3. P # <<>> /\ Head(P) = "lock"
  BY <1>1, <1>2, HeadOrEmpty, SMTT(30)
<1>4. ASSUME NEW p \in Suffixes(P)
      PROVE  /\ p \in Seq(Steps) /\ p # <<>>
             /\ \/ Head(p) = "lock" /\ GoesTo(P, p, "boot")
                \/ Head(p) = "boot" /\ GoesTo(P, p, "join")
                \/ Head(p) = "join" /\ GoesTo(P, p, "drain")
                \/ Head(p) = "drain" /\ GoesTo(P, p, "status")
                \/ Head(p) = "status" /\ GoesTo(P, p, "reread")
                \/ Head(p) = "reread" /\ GoesTo(P, p, "open")
                \/ Head(p) = "open" /\ GoesTo(P, p, "spawn")
                \/ Head(p) = "spawn" /\ Tail(p) = <<>>
  <2>1. PICK n \in 1 .. 8 :
           /\ Head(p) = P[n]
           /\ n = 8 => Tail(p) = <<>>
           /\ n # 8 => GoesTo(P, p, P[n + 1])
    BY <1>1, SuffixStep DEF GoesTo
  <2>2. p \in Seq(Steps) /\ p # <<>>
    BY <1>1, SuffixStep
  <2> QED BY <1>2, <2>1, <2>2
<1> QED BY <1>1, <1>3, <1>4 DEF P

LEMMA ResetPlan ==
    /\ Resetting(FALSE, FALSE) \in Seq(Steps) /\ Resetting(FALSE, FALSE) # <<>> /\ Head(Resetting(FALSE, FALSE)) = "status"
    /\ \A p \in Suffixes(Resetting(FALSE, FALSE)) :
          /\ p \in Seq(Steps) /\ p # <<>>
          /\ \/ Head(p) = "status" /\ GoesTo(Resetting(FALSE, FALSE), p, "reread")
             \/ Head(p) = "reread" /\ GoesTo(Resetting(FALSE, FALSE), p, "open")
             \/ Head(p) = "open" /\ GoesTo(Resetting(FALSE, FALSE), p, "spawn")
             \/ Head(p) = "spawn" /\ Tail(p) = <<>>
<1> DEFINE P == Resetting(FALSE, FALSE)
<1>1. P \in Seq(Steps) /\ Len(P) = 4
  BY DEF Resetting, Shutdown, Steps
<1>2. /\ P[1] = "status" /\ P[2] = "reread" /\ P[3] = "open" /\ P[4] = "spawn"
  BY DEF Resetting, Shutdown
<1> HIDE DEF P
<1>3. P # <<>> /\ Head(P) = "status"
  BY <1>1, <1>2, HeadOrEmpty
<1>4. ASSUME NEW p \in Suffixes(P)
      PROVE  /\ p \in Seq(Steps) /\ p # <<>>
             /\ \/ Head(p) = "status" /\ GoesTo(P, p, "reread")
                \/ Head(p) = "reread" /\ GoesTo(P, p, "open")
                \/ Head(p) = "open" /\ GoesTo(P, p, "spawn")
                \/ Head(p) = "spawn" /\ Tail(p) = <<>>
  <2>1. PICK n \in 1 .. 4 :
           /\ Head(p) = P[n]
           /\ n = 4 => Tail(p) = <<>>
           /\ n # 4 => GoesTo(P, p, P[n + 1])
    BY <1>1, SuffixStep DEF GoesTo
  <2>2. p \in Seq(Steps) /\ p # <<>>
    BY <1>1, SuffixStep
  <2> QED BY <1>2, <2>1, <2>2
<1> QED BY <1>1, <1>3, <1>4 DEF P

LEMMA MappedRebuildPlan ==
    /\ Resetting(TRUE, TRUE) \in Seq(Steps) /\ Resetting(TRUE, TRUE) # <<>> /\ Head(Resetting(TRUE, TRUE)) = "lock"
    /\ \A p \in Suffixes(Resetting(TRUE, TRUE)) :
          /\ p \in Seq(Steps) /\ p # <<>>
          /\ \/ Head(p) = "lock" /\ GoesTo(Resetting(TRUE, TRUE), p, "boot")
             \/ Head(p) = "boot" /\ GoesTo(Resetting(TRUE, TRUE), p, "join")
             \/ Head(p) = "join" /\ GoesTo(Resetting(TRUE, TRUE), p, "drain")
             \/ Head(p) = "drain" /\ GoesTo(Resetting(TRUE, TRUE), p, "rebuild")
             \/ Head(p) = "rebuild" /\ GoesTo(Resetting(TRUE, TRUE), p, "status")
             \/ Head(p) = "status" /\ GoesTo(Resetting(TRUE, TRUE), p, "reread")
             \/ Head(p) = "reread" /\ GoesTo(Resetting(TRUE, TRUE), p, "open")
             \/ Head(p) = "open" /\ GoesTo(Resetting(TRUE, TRUE), p, "spawn")
             \/ Head(p) = "spawn" /\ Tail(p) = <<>>
<1> DEFINE P == Resetting(TRUE, TRUE)
<1>1. P \in Seq(Steps) /\ Len(P) = 9
  BY DEF Resetting, Shutdown, Steps
<1>2. /\ P[1] = "lock" /\ P[2] = "boot" /\ P[3] = "join" /\ P[4] = "drain"
      /\ P[5] = "rebuild" /\ P[6] = "status" /\ P[7] = "reread"
      /\ P[8] = "open" /\ P[9] = "spawn"
  BY DEF Resetting, Shutdown
<1> HIDE DEF P
<1>3. P # <<>> /\ Head(P) = "lock"
  BY <1>1, <1>2, HeadOrEmpty
<1>4. ASSUME NEW p \in Suffixes(P)
      PROVE  /\ p \in Seq(Steps) /\ p # <<>>
             /\ \/ Head(p) = "lock" /\ GoesTo(P, p, "boot")
                \/ Head(p) = "boot" /\ GoesTo(P, p, "join")
                \/ Head(p) = "join" /\ GoesTo(P, p, "drain")
                \/ Head(p) = "drain" /\ GoesTo(P, p, "rebuild")
                \/ Head(p) = "rebuild" /\ GoesTo(P, p, "status")
                \/ Head(p) = "status" /\ GoesTo(P, p, "reread")
                \/ Head(p) = "reread" /\ GoesTo(P, p, "open")
                \/ Head(p) = "open" /\ GoesTo(P, p, "spawn")
                \/ Head(p) = "spawn" /\ Tail(p) = <<>>
  <2>1. PICK n \in 1 .. 9 :
           /\ Head(p) = P[n]
           /\ n = 9 => Tail(p) = <<>>
           /\ n # 9 => GoesTo(P, p, P[n + 1])
    BY <1>1, SuffixStep DEF GoesTo
  <2>2. p \in Seq(Steps) /\ p # <<>>
    BY <1>1, SuffixStep
  <2> QED BY <1>2, <2>1, <2>2
<1> QED BY <1>1, <1>3, <1>4 DEF P

LEMMA RebuildPlan ==
    /\ Resetting(TRUE, FALSE) \in Seq(Steps) /\ Resetting(TRUE, FALSE) # <<>> /\ Head(Resetting(TRUE, FALSE)) = "rebuild"
    /\ \A p \in Suffixes(Resetting(TRUE, FALSE)) :
          /\ p \in Seq(Steps) /\ p # <<>>
          /\ \/ Head(p) = "rebuild" /\ GoesTo(Resetting(TRUE, FALSE), p, "status")
             \/ Head(p) = "status" /\ GoesTo(Resetting(TRUE, FALSE), p, "reread")
             \/ Head(p) = "reread" /\ GoesTo(Resetting(TRUE, FALSE), p, "open")
             \/ Head(p) = "open" /\ GoesTo(Resetting(TRUE, FALSE), p, "spawn")
             \/ Head(p) = "spawn" /\ Tail(p) = <<>>
<1> DEFINE P == Resetting(TRUE, FALSE)
<1>1. P \in Seq(Steps) /\ Len(P) = 5
  BY DEF Resetting, Shutdown, Steps
<1>2. /\ P[1] = "rebuild" /\ P[2] = "status" /\ P[3] = "reread"
      /\ P[4] = "open" /\ P[5] = "spawn"
  BY DEF Resetting, Shutdown
<1> HIDE DEF P
<1>3. P # <<>> /\ Head(P) = "rebuild"
  BY <1>1, <1>2, HeadOrEmpty
<1>4. ASSUME NEW p \in Suffixes(P)
      PROVE  /\ p \in Seq(Steps) /\ p # <<>>
             /\ \/ Head(p) = "rebuild" /\ GoesTo(P, p, "status")
                \/ Head(p) = "status" /\ GoesTo(P, p, "reread")
                \/ Head(p) = "reread" /\ GoesTo(P, p, "open")
                \/ Head(p) = "open" /\ GoesTo(P, p, "spawn")
                \/ Head(p) = "spawn" /\ Tail(p) = <<>>
  <2>1. PICK n \in 1 .. 5 :
           /\ Head(p) = P[n]
           /\ n = 5 => Tail(p) = <<>>
           /\ n # 5 => GoesTo(P, p, P[n + 1])
    BY <1>1, SuffixStep DEF GoesTo
  <2>2. p \in Seq(Steps) /\ p # <<>>
    BY <1>1, SuffixStep
  <2> QED BY <1>2, <2>1, <2>2
<1> QED BY <1>1, <1>3, <1>4 DEF P

LEMMA RescanningPlan ==
    /\ Rescanning \in Seq(Steps) /\ Rescanning # <<>> /\ Head(Rescanning) = "lock"
    /\ \A p \in Suffixes(Rescanning) :
          /\ p \in Seq(Steps) /\ p # <<>>
          /\ \/ Head(p) = "lock" /\ GoesTo(Rescanning, p, "signal")
             \/ Head(p) = "signal" /\ Tail(p) = <<>>
<1> DEFINE P == Rescanning
<1>1. P \in Seq(Steps) /\ Len(P) = 2
  BY DEF Rescanning, Steps
<1>2. /\ P[1] = "lock" /\ P[2] = "signal"
  BY DEF Rescanning
<1> HIDE DEF P
<1>3. P # <<>> /\ Head(P) = "lock"
  BY <1>1, <1>2, HeadOrEmpty
<1>4. ASSUME NEW p \in Suffixes(P)
      PROVE  /\ p \in Seq(Steps) /\ p # <<>>
             /\ \/ Head(p) = "lock" /\ GoesTo(P, p, "signal")
                \/ Head(p) = "signal" /\ Tail(p) = <<>>
  <2>1. PICK n \in 1 .. 2 :
           /\ Head(p) = P[n]
           /\ n = 2 => Tail(p) = <<>>
           /\ n # 2 => GoesTo(P, p, P[n + 1])
    BY <1>1, SuffixStep DEF GoesTo
  <2>2. p \in Seq(Steps) /\ p # <<>>
    BY <1>1, SuffixStep
  <2> QED BY <1>2, <2>1, <2>2
<1> QED BY <1>1, <1>3, <1>4 DEF P

\* A terminate that finds no runner skips the shutdown.
LEMMA ShortTermination ==
    /\ <<"unmap", "delete", "rmdir">> \in Seq(Steps)
    /\ Tail(<<"unmap", "delete", "rmdir">>) # <<>>
    /\ Tail(<<"unmap", "delete", "rmdir">>) \in Suffixes(Termination)
    /\ Head(Tail(<<"unmap", "delete", "rmdir">>)) = "delete"
<1> DEFINE P == Termination
           q == Tail(<<"unmap", "delete", "rmdir">>)
           z == SubSeq(P, 5, 6)
<1>1. P \in Seq(Steps) /\ Len(P) = 6 /\ P[5] = "delete" /\ P[6] = "rmdir"
  BY DEF Termination, Shutdown, Steps
<1>2. /\ <<"unmap", "delete", "rmdir">> \in Seq(Steps)
      /\ q \in Seq(Steps) /\ Len(q) = 2 /\ q[1] = "delete" /\ q[2] = "rmdir"
  BY DEF Steps
<1>3. q # <<>> /\ Head(q) = "delete"
  OBVIOUS
<1>4. /\ z \in Seq(Steps) /\ Len(z) = 2 /\ z[1] = P[5] /\ z[2] = P[6]
  <2> HIDE DEF P
  <2> QED BY <1>1
<1>5. z \in Suffixes(P)
  <2> HIDE DEF P
  <2> QED BY <1>1 DEF Suffixes
<1>6. q = z
  <2> HIDE DEF P, q, z
  <2> QED BY <1>1, <1>2, <1>4, SeqEqual
<1> QED BY <1>2, <1>3, <1>5, <1>6

Then(p, s) == Tail(p) # <<>> /\ Head(Tail(p)) = s

CreationStep(p) ==
    \/ Head(p) = "name" /\ Then(p, "path")
    \/ Head(p) = "path" /\ Then(p, "insert")
    \/ Head(p) = "insert" /\ Then(p, "subdir")
    \/ Head(p) = "subdir" /\ Then(p, "open")
    \/ Head(p) = "open" /\ Then(p, "spawn")
    \/ Head(p) = "spawn" /\ Tail(p) = <<>>

TerminationStep(p) ==
    \/ Head(p) = "unmap" /\ Then(p, "boot")
    \/ Head(p) = "boot" /\ Then(p, "join")
    \/ Head(p) = "join" /\ Then(p, "drain")
    \/ Head(p) = "drain" /\ Then(p, "delete")
    \/ Head(p) = "delete" /\ Then(p, "rmdir")
    \/ Head(p) = "rmdir" /\ Tail(p) = <<>>

Stopping == {"pause", "reset", "rebuild"}
Others   == Operations \ {"create", "terminate"}

\* The steps of an operation on a vault that is there, told whether the vault has
\* a runner in the map.
OperationStep(op, mapped, p) ==
    \/ /\ Head(p) = "lock" /\ mapped
       /\ \/ op \in Stopping /\ Then(p, "boot")
          \/ op = "resume" /\ Then(p, "open")
          \/ op = "rename" /\ Then(p, "free")
          \/ op = "rescan" /\ Then(p, "signal")
    \/ Head(p) = "boot" /\ mapped /\ op \in Stopping /\ Then(p, "join")
    \/ Head(p) = "join" /\ mapped /\ op \in Stopping /\ Then(p, "drain")
    \/ Head(p) = "drain" /\ mapped /\ op \in Stopping \ {"rebuild"} /\ Then(p, "status")
    \/ Head(p) = "drain" /\ mapped /\ op = "rebuild" /\ Then(p, "rebuild")
    \/ Head(p) = "rebuild" /\ op = "rebuild" /\ Then(p, "status")
    \/ Head(p) = "status" /\ mapped /\ op \in {"pause", "resume"} /\ Then(p, "publish")
    \/ Head(p) = "status" /\ ~mapped /\ op = "resume" /\ Then(p, "reread")
    \/ Head(p) = "status" /\ op \in {"reset", "rebuild"} /\ Then(p, "reread")
    \/ Head(p) = "reread" /\ ~mapped /\ op = "resume" /\ Then(p, "open")
    \/ Head(p) = "reread" /\ op \in {"reset", "rebuild"} /\ Then(p, "open")
    \/ Head(p) = "reread" /\ op = "rename" /\ Then(p, "meta")
    \/ Head(p) = "open" /\ op \in {"resume", "reset", "rebuild"} /\ Then(p, "spawn")
    \/ Head(p) = "spawn" /\ mapped /\ op = "resume" /\ Then(p, "status")
    \/ Head(p) = "spawn" /\ ~mapped /\ op = "resume" /\ Tail(p) = <<>>
    \/ Head(p) = "spawn" /\ op \in {"reset", "rebuild"} /\ Tail(p) = <<>>
    \/ Head(p) = "publish" /\ mapped /\ op \in {"pause", "resume", "rename"} /\ Tail(p) = <<>>
    \/ Head(p) = "free" /\ op = "rename" /\ Then(p, "update")
    \/ Head(p) = "update" /\ op = "rename" /\ Then(p, "reread")
    \/ Head(p) = "meta" /\ mapped /\ op = "rename" /\ Then(p, "publish")
    \/ Head(p) = "meta" /\ ~mapped /\ op = "rename" /\ Tail(p) = <<>>
    \/ Head(p) = "signal" /\ mapped /\ op = "rescan" /\ Tail(p) = <<>>

LEMMA CreationStepOk ==
    ASSUME NEW p \in Suffixes(Creation)
    PROVE  /\ p \in Seq(Steps) /\ p # <<>> /\ CreationStep(p)
           /\ Tail(p) # <<>> => Tail(p) \in Suffixes(Creation)
<1> QED BY CreationPlan DEF CreationStep, Then, GoesTo

LEMMA TerminationStepOk ==
    ASSUME NEW p \in Suffixes(Termination)
    PROVE  /\ p \in Seq(Steps) /\ p # <<>> /\ TerminationStep(p)
           /\ Tail(p) # <<>> => Tail(p) \in Suffixes(Termination)
<1> QED BY TerminationPlan DEF TerminationStep, Then, GoesTo

LEMMA OperationStepOk ==
    ASSUME NEW op \in Others, NEW mapped \in BOOLEAN,
           op \in {"pause", "rescan"} => mapped,
           NEW p \in Suffixes(Plan(op, mapped))
    PROVE  /\ p \in Seq(Steps) /\ p # <<>> /\ OperationStep(op, mapped, p)
           /\ Tail(p) # <<>> => Tail(p) \in Suffixes(Plan(op, mapped))
<1> DEFINE P == Plan(op, mapped)
           Good(s) == \A q \in Suffixes(s) :
                         /\ q \in Seq(Steps) /\ q # <<>> /\ OperationStep(op, mapped, q)
                         /\ Tail(q) # <<>> => Tail(q) \in Suffixes(s)
<1>1. CASE op = "pause"
  <2>1. P = Pausing
    BY <1>1 DEF Plan
  <2>2. Good(Pausing)
    BY PausingPlan, <1>1 DEF OperationStep, Then, GoesTo, Stopping
  <2>3. Good(P)
    BY <2>1, <2>2
  <2> QED BY <2>3
<1>2. CASE op = "rescan"
  <2>1. P = Rescanning
    BY <1>2 DEF Plan
  <2>2. Good(Rescanning)
    BY RescanningPlan, <1>2 DEF OperationStep, Then, GoesTo, Stopping
  <2>3. Good(P)
    BY <2>1, <2>2
  <2> QED BY <2>3
<1>3. CASE op = "resume" /\ mapped = TRUE
  <2>1. P = Resumption(TRUE)
    BY <1>3 DEF Plan
  <2>2. Good(Resumption(TRUE))
    BY MappedResumptionPlan, <1>3 DEF OperationStep, Then, GoesTo, Stopping
  <2>3. Good(P)
    BY <2>1, <2>2
  <2> QED BY <2>3
<1>4. CASE op = "resume" /\ mapped = FALSE
  <2>1. P = Resumption(FALSE)
    BY <1>4 DEF Plan
  <2>2. Good(Resumption(FALSE))
    BY ResumptionPlan, <1>4 DEF OperationStep, Then, GoesTo, Stopping
  <2>3. Good(P)
    BY <2>1, <2>2
  <2> QED BY <2>3
<1>5. CASE op = "rename" /\ mapped = TRUE
  <2>1. P = Renaming(TRUE)
    BY <1>5 DEF Plan
  <2>2. Good(Renaming(TRUE))
    BY MappedRenamingPlan, <1>5, ZenonT(60) DEF OperationStep, Then, GoesTo, Stopping
  <2>3. Good(P)
    BY <2>1, <2>2
  <2> QED BY <2>3
<1>6. CASE op = "rename" /\ mapped = FALSE
  <2>1. P = Renaming(FALSE)
    BY <1>6 DEF Plan
  <2>2. Good(Renaming(FALSE))
    BY RenamingPlan, <1>6 DEF OperationStep, Then, GoesTo, Stopping
  <2>3. Good(P)
    BY <2>1, <2>2
  <2> QED BY <2>3
<1>7. CASE op = "reset" /\ mapped = TRUE
  <2>1. P = Resetting(FALSE, TRUE)
    BY <1>7 DEF Plan
  <2>2. ASSUME NEW q \in Suffixes(Resetting(FALSE, TRUE))
        PROVE  /\ q \in Seq(Steps) /\ q # <<>> /\ OperationStep(op, mapped, q)
               /\ Tail(q) # <<>> => Tail(q) \in Suffixes(P)
    <3> QED BY MappedResetPlan, <1>7, <2>1 DEF OperationStep, Then, GoesTo, Stopping
  <2> QED BY <2>1, <2>2
<1>8. CASE op = "reset" /\ mapped = FALSE
  <2>1. P = Resetting(FALSE, FALSE)
    BY <1>8 DEF Plan
  <2>2. ASSUME NEW q \in Suffixes(Resetting(FALSE, FALSE))
        PROVE  /\ q \in Seq(Steps) /\ q # <<>> /\ OperationStep(op, mapped, q)
               /\ Tail(q) # <<>> => Tail(q) \in Suffixes(P)
    <3> QED BY ResetPlan, <1>8, <2>1 DEF OperationStep, Then, GoesTo, Stopping
  <2> QED BY <2>1, <2>2
<1>9. CASE op = "rebuild" /\ mapped = TRUE
  <2>1. P = Resetting(TRUE, TRUE)
    BY <1>9 DEF Plan
  <2>2. ASSUME NEW q \in Suffixes(Resetting(TRUE, TRUE))
        PROVE  /\ q \in Seq(Steps) /\ q # <<>> /\ OperationStep(op, mapped, q)
               /\ Tail(q) # <<>> => Tail(q) \in Suffixes(P)
    <3> QED BY MappedRebuildPlan, <1>9, <2>1 DEF OperationStep, Then, GoesTo, Stopping
  <2> QED BY <2>1, <2>2
<1>10. CASE op = "rebuild" /\ mapped = FALSE
  <2>1. P = Resetting(TRUE, FALSE)
    BY <1>10 DEF Plan
  <2>2. ASSUME NEW q \in Suffixes(Resetting(TRUE, FALSE))
        PROVE  /\ q \in Seq(Steps) /\ q # <<>> /\ OperationStep(op, mapped, q)
               /\ Tail(q) # <<>> => Tail(q) \in Suffixes(P)
    <3> QED BY RebuildPlan, <1>10, <2>1 DEF OperationStep, Then, GoesTo, Stopping
  <2> QED BY <2>1, <2>2
<1> QED BY <1>1, <1>2, <1>3, <1>4, <1>5, <1>6, <1>7, <1>8, <1>9, <1>10 DEF Others, Operations

\* The whole plan; only that of an operation that has a runner begins with its lock.
LEMMA WholePlan ==
    ASSUME NEW op \in Others, NEW mapped \in BOOLEAN,
           op \in {"pause", "rescan"} => mapped
    PROVE  /\ Plan(op, mapped) \in Seq(Steps)
           /\ Plan(op, mapped) \in Suffixes(Plan(op, mapped))
           /\ mapped <=> Head(Plan(op, mapped)) = "lock"
           /\ ~mapped => Head(Plan(op, mapped)) \in {"status", "free", "rebuild"}
<1> DEFINE P == Plan(op, mapped)
           Whole(s) == /\ s \in Seq(Steps) /\ s # <<>>
                       /\ mapped <=> Head(s) = "lock"
                       /\ ~mapped => Head(s) \in {"status", "free", "rebuild"}
<1>0. SUFFICES Whole(P)
  <2> HIDE DEF P
  <2>1. P \in Suffixes(P)
    BY WholeIsSuffix
  <2> QED BY <2>1 DEF P
<1>1. CASE op = "pause"
  <2>1. P = Pausing
    BY <1>1 DEF Plan
  <2>2. Whole(Pausing)
    BY PausingPlan, <1>1
  <2> QED BY <2>1, <2>2
<1>2. CASE op = "rescan"
  <2>1. P = Rescanning
    BY <1>2 DEF Plan
  <2>2. Whole(Rescanning)
    BY RescanningPlan, <1>2
  <2> QED BY <2>1, <2>2
<1>3. CASE op = "resume" /\ mapped = TRUE
  <2>1. P = Resumption(TRUE)
    BY <1>3 DEF Plan
  <2>2. Whole(Resumption(TRUE))
    BY MappedResumptionPlan, <1>3
  <2> QED BY <2>1, <2>2
<1>4. CASE op = "resume" /\ mapped = FALSE
  <2>1. P = Resumption(FALSE)
    BY <1>4 DEF Plan
  <2>2. Whole(Resumption(FALSE))
    BY ResumptionPlan, <1>4
  <2> QED BY <2>1, <2>2
<1>5. CASE op = "rename" /\ mapped = TRUE
  <2>1. P = Renaming(TRUE)
    BY <1>5 DEF Plan
  <2>2. Whole(Renaming(TRUE))
    BY MappedRenamingPlan, <1>5
  <2> QED BY <2>1, <2>2
<1>6. CASE op = "rename" /\ mapped = FALSE
  <2>1. P = Renaming(FALSE)
    BY <1>6 DEF Plan
  <2>2. Whole(Renaming(FALSE))
    BY RenamingPlan, <1>6
  <2> QED BY <2>1, <2>2
<1>7. CASE op = "reset" /\ mapped = TRUE
  <2>1. P = Resetting(FALSE, TRUE)
    BY <1>7 DEF Plan
  <2>2. Whole(Resetting(FALSE, TRUE))
    BY MappedResetPlan, <1>7
  <2> QED BY <2>1, <2>2
<1>8. CASE op = "reset" /\ mapped = FALSE
  <2>1. P = Resetting(FALSE, FALSE)
    BY <1>8 DEF Plan
  <2>2. Whole(Resetting(FALSE, FALSE))
    BY ResetPlan, <1>8
  <2> QED BY <2>1, <2>2
<1>9. CASE op = "rebuild" /\ mapped = TRUE
  <2>1. P = Resetting(TRUE, TRUE)
    BY <1>9 DEF Plan
  <2>2. Whole(Resetting(TRUE, TRUE))
    BY MappedRebuildPlan, <1>9
  <2> QED BY <2>1, <2>2
<1>10. CASE op = "rebuild" /\ mapped = FALSE
  <2>1. P = Resetting(TRUE, FALSE)
    BY <1>10 DEF Plan
  <2>2. Whole(Resetting(TRUE, FALSE))
    BY RebuildPlan, <1>10
  <2> QED BY <2>1, <2>2
<1> QED BY <1>1, <1>2, <1>3, <1>4, <1>5, <1>6, <1>7, <1>8, <1>9, <1>10 DEF Others, Operations

-----------------------------------------------------------------------------
(* What a handler remembers.  The type invariant alone is not inductive:   *)
(* that a step finds the row, the runner or the name it uses depends on    *)
(* how far in its plan the handler is.                                     *)

Heading(k, S) == k.plan # <<>> /\ Head(k.plan) \in S

Creates(k) ==
    /\ k.op = "create" /\ k.plan \in Suffixes(Creation)
    /\ k.row \in Rows /\ k.row.status = "active"
    /\ k.runner = Absent /\ ~k.locked
    /\ IF Head(k.plan) \in {"name", "path", "insert"} THEN k.id = Absent
       ELSE k.id \in Ids

Terminates(k) ==
    /\ k.op = "terminate" /\ k.plan \in Suffixes(Termination)
    /\ k.id \in Ids /\ ~k.locked
    /\ Head(k.plan) = "unmap" => k.runner = Absent
    /\ Head(k.plan) \in {"boot", "join", "drain"} => k.runner # Absent

Operates(k) ==
    /\ k.op \in Others
    /\ k.plan \in Suffixes(Plan(k.op, k.runner # Absent))
    /\ k.id \in Ids /\ k.row \in Rows
    /\ k.op \in {"pause", "rescan"} => k.runner # Absent
    /\ k.op = "rename" => k.arg \in Names
    /\ k.locked <=> k.runner # Absent /\ Head(k.plan) # "lock"

ClientOk(k) == /\ k \in Requests
               /\ k = Idle \/ Creates(k) \/ Terminates(k) \/ Operates(k)

TableInv ==
    /\ registry \in [Ids -> Maybe(Rows)]
    /\ used \subseteq Ids /\ Registered \subseteq used
    /\ dirs \subseteq Ids /\ accessible \subseteq Paths

\* A handle is one of a running task of the runner that keeps it.
Refers(t, r) == t # Absent => Running(t) /\ task[t].runner = r

MapInv ==
    /\ runners \in [Ids -> Maybe(Runners)]
    /\ runner \in [Runners -> Maybe(RunnerValues)]
    /\ task \in [Tasks -> Maybe(TaskValues)]
    /\ \A i \in Mapped : runner[runners[i]] # Absent /\ runner[runners[i]].vault = i
    /\ \A t \in Tasks : Running(t) => runner[task[t].runner] # Absent
    /\ \A r \in Runners : runner[r] # Absent => /\ Refers(runner[r].boot, r)
                                                /\ Refers(runner[r].life, r)

ClientInv ==
    /\ client \in [Clients -> Requests]
    /\ \A c \in Clients : ClientOk(client[c])

\* A handler's runner is there, and is that of its vault.
HeldInv ==
    \A c \in Clients : client[c].runner # Absent =>
        /\ runner[client[c].runner] # Absent
        /\ runner[client[c].runner].vault = client[c].id

DaemonInv ==
    /\ daemon \in {"down", "rows", "dirs", "serving"}
    /\ daemon # "serving" => \A c \in Clients : client[c] = Idle
    /\ daemon \in {"down", "rows"} => Mapped = {}

CountInv == count \in Bounds /\ count.unmapped <= count.ops

TypeInv == TableInv /\ MapInv /\ ClientInv /\ HeldInv /\ DaemonInv /\ CountInv

LEMMA IdleOk ==
    Idle \in Requests /\ Idle.plan = <<>> /\ ClientOk(Idle)
<1>1. <<>> \in Seq(Steps)
  OBVIOUS
<1>2. Idle \in Requests /\ Idle.plan = <<>>
  BY <1>1 DEF Idle, Requests, Maybe
<1> QED BY <1>2 DEF ClientOk

\* The steps that may come next, by the kind of request.
LEMMA BusyKinds ==
    ASSUME NEW k, ClientOk(k), k.plan # <<>>
    PROVE  /\ k \in Requests /\ k.plan \in Seq(Steps)
           /\ \/ Creates(k) /\ CreationStep(k.plan)
              \/ Terminates(k) /\ TerminationStep(k.plan)
              \/ Operates(k) /\ OperationStep(k.op, k.runner # Absent, k.plan)
<1>1. k \in Requests /\ (Creates(k) \/ Terminates(k) \/ Operates(k))
  BY IdleOk DEF ClientOk
<1>2. k.plan \in Seq(Steps)
  BY <1>1 DEF Requests
<1>3. CASE Creates(k)
  BY <1>1, <1>2, <1>3, CreationStepOk DEF Creates
<1>4. CASE Terminates(k)
  BY <1>1, <1>2, <1>4, TerminationStepOk DEF Terminates
<1>5. CASE Operates(k)
  <2> DEFINE m == (k.runner # Absent)
  <2>1. /\ k.op \in Others /\ m \in BOOLEAN
        /\ k.op \in {"pause", "rescan"} => m
        /\ k.plan \in Suffixes(Plan(k.op, m))
    BY <1>5 DEF Operates
  <2>2. OperationStep(k.op, m, k.plan)
    <3> HIDE DEF m
    <3> QED BY <2>1, OperationStepOk
  <2> QED BY <1>1, <1>2, <1>5, <2>2
<1> QED BY <1>1, <1>3, <1>4, <1>5

LEMMA NotBusyIsIdle ==
    ASSUME NEW k, ClientOk(k)
    PROVE  k.plan = <<>> <=> k = Idle
<1>1. CASE k = Idle
  BY <1>1, IdleOk
<1>2. CASE k # Idle
  <2>1. Creates(k) \/ Terminates(k) \/ Operates(k)
    BY <1>2 DEF ClientOk
  <2>2. Creates(k) => k.plan # <<>>
    BY CreationStepOk DEF Creates
  <2>3. Terminates(k) => k.plan # <<>>
    BY TerminationStepOk DEF Terminates
  <2>4. Operates(k) => k.plan # <<>>
    <3> DEFINE m == (k.runner # Absent)
    <3> SUFFICES ASSUME Operates(k)
                 PROVE  k.plan # <<>>
      OBVIOUS
    <3>1. /\ k.op \in Others /\ m \in BOOLEAN
          /\ k.op \in {"pause", "rescan"} => m
          /\ k.plan \in Suffixes(Plan(k.op, m))
      BY DEF Operates
    <3> HIDE DEF m
    <3> QED BY <3>1, OperationStepOk
  <2> QED BY <1>2, <2>1, <2>2, <2>3, <2>4
<1> QED BY <1>1, <1>2

\* Where Proceed leaves a handler.
Advance(k) == IF Tail(k.plan) = <<>> THEN Idle ELSE [k EXCEPT !.plan = Tail(@)]

LEMMA WithPlan ==
    ASSUME NEW k \in Requests, NEW q \in Seq(Steps), NEW m,
           m = [k EXCEPT !.plan = q]
    PROVE  /\ m \in Requests /\ m.plan = q
           /\ m.op = k.op /\ m.id = k.id /\ m.row = k.row /\ m.runner = k.runner
           /\ m.locked = k.locked /\ m.wait = k.wait /\ m.arg = k.arg
<1> QED BY DEF Requests

LEMMA AdvanceIs ==
    ASSUME NEW k \in Requests
    PROVE  \/ Tail(k.plan) = <<>> /\ Advance(k) = Idle
           \/ /\ Tail(k.plan) # <<>>
              /\ Advance(k) = [k EXCEPT !.plan = Tail(k.plan)]
<1> QED BY DEF Advance, Requests

LEMMA TailIsPlan ==
    ASSUME NEW k, ClientOk(k), k.plan # <<>>
    PROVE  k.plan \in Seq(Steps) /\ Tail(k.plan) \in Seq(Steps)
<1>1. k.plan \in Seq(Steps)
  BY DEF ClientOk, Requests
<1>2. ASSUME NEW S, NEW p \in Seq(S), p # <<>>
      PROVE  Tail(p) \in Seq(S)
  BY <1>2
<1> QED BY <1>1, <1>2

\* A step that leaves operation, vault and runner alone, takes the lock if it is
\* the one that does, and may read the row again.
LEMMA AdvanceOk ==
    ASSUME NEW k, ClientOk(k), k.plan # <<>>, Head(k.plan) \notin {"insert", "unmap"},
           NEW n \in Requests, n.plan = k.plan,
           n.op = k.op, n.id = k.id, n.arg = k.arg, n.runner = k.runner,
           n.row = k.row \/ (n.row \in Rows /\ k.op # "create"),
           n.locked <=> k.locked \/ Head(k.plan) = "lock"
    PROVE  ClientOk(Advance(n))
<1> DEFINE q == Tail(k.plan)
           m == [n EXCEPT !.plan = q]
<1>1. CASE q = <<>>
  BY <1>1, IdleOk, AdvanceIs
<1>2. CASE q # <<>>
  <2>1. Advance(n) = m
    BY <1>2, AdvanceIs
  <2>2. q \in Seq(Steps)
    BY TailIsPlan
  <2>3. /\ m \in Requests /\ m.plan = q
        /\ m.op = k.op /\ m.id = k.id /\ m.arg = k.arg /\ m.runner = k.runner
        /\ m.row = n.row /\ m.locked = n.locked
    <3> HIDE DEF q
    <3>1. /\ m \in Requests /\ m.plan = q
          /\ m.op = n.op /\ m.id = n.id /\ m.row = n.row /\ m.runner = n.runner
          /\ m.locked = n.locked /\ m.wait = n.wait /\ m.arg = n.arg
      BY <2>2, WithPlan
    <3> HIDE DEF m
    <3> QED BY <3>1
  <2> HIDE DEF m, q
  <2>4. \/ Creates(k) /\ CreationStep(k.plan)
        \/ Terminates(k) /\ TerminationStep(k.plan)
        \/ Operates(k) /\ OperationStep(k.op, k.runner # Absent, k.plan)
    BY BusyKinds
  <2>5. CASE Creates(k) /\ CreationStep(k.plan)
    <3>1. q \in Suffixes(Creation)
      BY <1>2, <2>5, CreationStepOk DEF Creates, q
    <3>2. n.row = k.row
      BY <2>5 DEF Creates
    <3>3. ~n.locked
      BY <2>5 DEF Creates, CreationStep
    <3>4. IF Head(q) \in {"name", "path", "insert"} THEN m.id = Absent ELSE m.id \in Ids
      BY <2>3, <2>5, <1>2 DEF Creates, CreationStep, Then, q
    <3>5. Creates(m)
      BY <2>3, <2>5, <3>1, <3>2, <3>3, <3>4 DEF Creates
    <3> QED BY <2>1, <2>3, <3>5 DEF ClientOk
  <2>6. CASE Terminates(k) /\ TerminationStep(k.plan)
    <3>1. q \in Suffixes(Termination)
      BY <1>2, <2>6, TerminationStepOk DEF Terminates, q
    <3>2. ~n.locked
      BY <2>6 DEF Terminates, TerminationStep
    <3>3. Head(q) # "unmap" /\ (Head(q) \in {"boot", "join", "drain"} => k.runner # Absent)
      BY <2>6, <1>2 DEF Terminates, TerminationStep, Then, q
    <3>4. Terminates(m)
      BY <2>3, <2>6, <3>1, <3>2, <3>3 DEF Terminates
    <3> QED BY <2>1, <2>3, <3>4 DEF ClientOk
  <2>7. CASE Operates(k) /\ OperationStep(k.op, k.runner # Absent, k.plan)
    <3> DEFINE b == (k.runner # Absent)
    <3>1. /\ k.op \in Others /\ b \in BOOLEAN
          /\ k.op \in {"pause", "rescan"} => b
          /\ k.plan \in Suffixes(Plan(k.op, b))
      BY <2>7 DEF Operates
    <3>2. q \in Suffixes(Plan(k.op, b))
      <4> HIDE DEF b
      <4> QED BY <1>2, <3>1, OperationStepOk DEF q
    <3>3. Head(q) # "lock" /\ (Head(k.plan) = "lock" => k.runner # Absent)
      BY <2>7, <1>2 DEF OperationStep, Then, q
    <3>4. n.locked <=> k.runner # Absent
      BY <2>7, <3>3 DEF Operates
    <3>5. m.plan \in Suffixes(Plan(m.op, m.runner # Absent))
      BY <2>3, <3>2
    <3>6. m.row \in Rows
      BY <2>3, <2>7 DEF Operates
    <3>7. Operates(m)
      BY <2>3, <2>7, <3>3, <3>4, <3>5, <3>6 DEF Operates
    <3> QED BY <2>1, <2>3, <3>7 DEF ClientOk
  <2> QED BY <2>4, <2>5, <2>6, <2>7
<1> QED BY <1>1, <1>2

-----------------------------------------------------------------------------
(* Steps of a handler, seen from the others.                               *)

\* Whoever holds a runner after the step held it before, for the same vault.
RefsStay ==
    \A d \in Clients : client'[d].runner # Absent =>
        client'[d].runner = client[d].runner /\ client'[d].id = client[d].id

\* A runner that is there stays, for its vault.
RunnersStay ==
    \A r \in Runners : runner[r] # Absent =>
        runner'[r] # Absent /\ runner'[r].vault = runner[r].vault

LEMMA ProceedIs ==
    ASSUME ClientInv, NEW c \in Clients, NEW n, Proceed(c, n)
    PROVE  /\ client' = [client EXCEPT ![c] = Advance(n)]
           /\ client'[c] = Advance(n)
           /\ \A d \in Clients \ {c} : client'[d] = client[d]
<1> QED BY DEF Proceed, Advance, ClientInv

LEMMA ReturnIs ==
    ASSUME ClientInv, NEW c \in Clients, Return(c)
    PROVE  /\ client' = [client EXCEPT ![c] = Idle]
           /\ client'[c] = Idle
           /\ \A d \in Clients \ {c} : client'[d] = client[d]
<1> QED BY DEF Return, ClientInv

LEMMA ClientSet ==
    ASSUME ClientInv, NEW c \in Clients, NEW m, ClientOk(m),
           client' = [client EXCEPT ![c] = m]
    PROVE  ClientInv'
<1>1. m \in Requests
  BY DEF ClientOk
<1>2. client' \in [Clients -> Requests]
  BY <1>1 DEF ClientInv
<1>3. ASSUME NEW d \in Clients
      PROVE  ClientOk(client'[d])
  BY DEF ClientInv
<1> QED BY <1>2, <1>3 DEF ClientInv

LEMMA ClientProceeds ==
    ASSUME ClientInv, NEW c \in Clients, client[c].plan # <<>>,
           Head(client[c].plan) \notin {"insert", "unmap"},
           NEW n \in Requests, n.plan = client[c].plan, n.op = client[c].op,
           n.id = client[c].id, n.arg = client[c].arg, n.runner = client[c].runner,
           n.row = client[c].row \/ (n.row \in Rows /\ client[c].op # "create"),
           n.locked <=> client[c].locked \/ Head(client[c].plan) = "lock",
           Proceed(c, n)
    PROVE  ClientInv' /\ RefsStay
<1> DEFINE k == client[c]
<1>1. ClientOk(k)
  BY DEF ClientInv
<1>2. ClientOk(Advance(n))
  <2> HIDE DEF k
  <2> SUFFICES ASSUME k = client[c]
               PROVE  ClientOk(Advance(n))
    BY DEF k
  <2> QED BY <1>1, AdvanceOk
<1>3. ClientInv'
  BY <1>2, ClientSet, ProceedIs
<1>4. Advance(n).runner # Absent => Advance(n).runner = k.runner /\ Advance(n).id = k.id
  <2>1. Idle.runner = Absent
    BY DEF Idle
  <2>2. Tail(k.plan) \in Seq(Steps)
    BY <1>1, TailIsPlan
  <2>3. n.plan = k.plan
    OBVIOUS
  <2> DEFINE q == Tail(k.plan)
             m == [n EXCEPT !.plan = q]
  <2>4. m.runner = n.runner /\ m.id = n.id
    <3> HIDE DEF q
    <3> QED BY <2>2, WithPlan
  <2>5. Advance(n) = Idle \/ Advance(n) = m
    BY <2>3, AdvanceIs
  <2> HIDE DEF m, q
  <2> QED BY <2>1, <2>4, <2>5
<1>5. RefsStay
  BY <1>4, ProceedIs DEF RefsStay
<1> QED BY <1>3, <1>5

LEMMA ClientReturns ==
    ASSUME ClientInv, NEW c \in Clients, Return(c)
    PROVE  ClientInv' /\ RefsStay
<1>1. ClientInv'
  BY IdleOk, ClientSet, ReturnIs
<1>2. RefsStay
  BY ReturnIs DEF RefsStay, Idle
<1> QED BY <1>1, <1>2

LEMMA HeldStays ==
    ASSUME HeldInv, ClientInv, RefsStay, RunnersStay
    PROVE  HeldInv'
<1> SUFFICES ASSUME NEW d \in Clients, client'[d].runner # Absent
             PROVE  /\ runner'[client'[d].runner] # Absent
                    /\ runner'[client'[d].runner].vault = client'[d].id
  BY DEF HeldInv
<1>1. client'[d].runner = client[d].runner /\ client'[d].id = client[d].id
  BY DEF RefsStay
<1>2. client[d].runner \in Runners
  BY <1>1 DEF ClientInv, Requests, Maybe
<1> QED BY <1>1, <1>2 DEF HeldInv, RunnersStay

\* The handlers whose step leaves the runners and their tasks alone.
QuietStep(c) ==
    \/ Lock(c) \/ DrainConsumer(c) \/ SignalRescan(c) \/ RebuildIndex(c)
    \/ UpdateStatus(c) \/ Reread(c) \/ OpenStore(c) \/ CheckFree(c)
    \/ CreateSubdir(c) \/ UpdateName(c) \/ WriteMeta(c) \/ DeleteRow(c)
    \/ RemoveDir(c)

LEMMA AtIs ==
    ASSUME NEW c \in Clients, NEW s, At(c, s), ClientInv
    PROVE  /\ daemon = "serving" /\ client[c].plan # <<>> /\ Head(client[c].plan) = s
           /\ ClientOk(client[c]) /\ client[c] \in Requests
           /\ \/ Creates(client[c]) /\ CreationStep(client[c].plan)
              \/ Terminates(client[c]) /\ TerminationStep(client[c].plan)
              \/ /\ Operates(client[c])
                 /\ OperationStep(client[c].op, client[c].runner # Absent, client[c].plan)
<1>1. ClientOk(client[c]) /\ client[c].plan # <<>> /\ client[c] \in Requests
  BY DEF At, ClientInv
<1> QED BY <1>1, BusyKinds DEF At

\* A step that keeps everything the handler remembers.
LEMMA PlainProceed ==
    ASSUME ClientInv, NEW c \in Clients, NEW s, At(c, s),
           s \notin {"insert", "unmap", "lock"}, Proceed(c, client[c])
    PROVE  ClientInv' /\ RefsStay
<1>1. /\ client[c].plan # <<>> /\ Head(client[c].plan) = s /\ client[c] \in Requests
  BY AtIs
<1> QED BY <1>1, ClientProceeds

LEMMA QuietClients ==
    ASSUME TypeInv, NEW c \in Clients, QuietStep(c)
    PROVE  ClientInv' /\ RefsStay /\ daemon = "serving"
<1>0. ClientInv
  BY DEF TypeInv
<1>1. CASE Lock(c)
  <2>1. At(c, "lock")
    BY <1>1 DEF Lock
  <2>2. CASE Return(c)
    BY <1>0, <2>1, <2>2, ClientReturns DEF At
  <2>3. CASE Proceed(c, [client[c] EXCEPT !.locked = TRUE])
    <3> DEFINE n == [client[c] EXCEPT !.locked = TRUE]
    <3>1. /\ client[c].plan # <<>> /\ Head(client[c].plan) = "lock"
          /\ client[c] \in Requests /\ daemon = "serving"
      BY <1>0, <2>1, AtIs
    <3>2. /\ n \in Requests /\ n.plan = client[c].plan /\ n.op = client[c].op
          /\ n.id = client[c].id /\ n.arg = client[c].arg /\ n.row = client[c].row
          /\ n.runner = client[c].runner /\ n.locked
      BY <3>1 DEF Requests
    <3>3. Proceed(c, n)
      BY <2>3
    <3> HIDE DEF n
    <3> QED BY <1>0, <3>1, <3>2, <3>3, ClientProceeds
  <2> QED BY <1>1, <2>2, <2>3 DEF Lock
<1>2. CASE DrainConsumer(c)
  <2> DEFINE n == [client[c] EXCEPT !.wait = Absent]
  <2>1. At(c, "drain") /\ Proceed(c, n)
    BY <1>2 DEF DrainConsumer
  <2>2. /\ client[c].plan # <<>> /\ Head(client[c].plan) = "drain"
        /\ client[c] \in Requests /\ daemon = "serving"
    BY <1>0, <2>1, AtIs
  <2>3. /\ n \in Requests /\ n.plan = client[c].plan /\ n.op = client[c].op
        /\ n.id = client[c].id /\ n.arg = client[c].arg /\ n.row = client[c].row
        /\ n.runner = client[c].runner /\ n.locked = client[c].locked
    BY <2>2 DEF Requests, Maybe
  <2> HIDE DEF n
  <2> QED BY <1>0, <2>1, <2>2, <2>3, ClientProceeds
<1>3. CASE Reread(c)
  <2>1. At(c, "reread")
    BY <1>3 DEF Reread
  <2>2. CASE Return(c)
    BY <1>0, <2>1, <2>2, ClientReturns DEF At
  <2>3. CASE /\ client[c].id \in Registered
             /\ Proceed(c, [client[c] EXCEPT !.row = registry[client[c].id]])
    <3> DEFINE n == [client[c] EXCEPT !.row = registry[client[c].id]]
    <3>1. /\ client[c].plan # <<>> /\ Head(client[c].plan) = "reread"
          /\ client[c] \in Requests /\ daemon = "serving"
      BY <1>0, <2>1, AtIs
    <3>2. registry[client[c].id] \in Rows
      BY <2>3 DEF TypeInv, TableInv, Registered, Maybe
    <3>3. /\ n \in Requests /\ n.plan = client[c].plan /\ n.op = client[c].op
          /\ n.id = client[c].id /\ n.arg = client[c].arg /\ n.row \in Rows
          /\ n.runner = client[c].runner /\ n.locked = client[c].locked
      BY <3>1, <3>2 DEF Requests, Maybe
    <3>4. client[c].op # "create"
      BY <1>0, <2>1, <3>1, AtIs
         DEF CreationStep, Terminates, Operates, Others
    <3>5. Proceed(c, n)
      BY <2>3
    <3> HIDE DEF n
    <3> QED BY <1>0, <3>1, <3>3, <3>4, <3>5, ClientProceeds
  <2> QED BY <1>3, <2>2, <2>3 DEF Reread
<1>4. CASE CheckFree(c)
  <2>1. \/ At(c, "name") \/ At(c, "path") \/ At(c, "free")
    BY <1>4 DEF CheckFree
  <2>2. Return(c) \/ Proceed(c, client[c])
    BY <1>4 DEF CheckFree
  <2> QED BY <1>0, <2>1, <2>2, PlainProceed, ClientReturns DEF At
<1>5. CASE UpdateStatus(c)
  <2>1. At(c, "status") /\ (Return(c) \/ Proceed(c, client[c]))
    BY <1>5 DEF UpdateStatus
  <2> QED BY <1>0, <2>1, PlainProceed, ClientReturns DEF At
<1>6. CASE UpdateName(c)
  <2>1. At(c, "update") /\ (Return(c) \/ Proceed(c, client[c]))
    BY <1>6 DEF UpdateName
  <2> QED BY <1>0, <2>1, PlainProceed, ClientReturns DEF At
<1>7. CASE WriteMeta(c)
  <2>1. At(c, "meta") /\ (Return(c) \/ Proceed(c, client[c]))
    BY <1>7 DEF WriteMeta
  <2> QED BY <1>0, <2>1, PlainProceed, ClientReturns DEF At
<1>8. CASE \/ SignalRescan(c) \/ RebuildIndex(c) \/ OpenStore(c) \/ CreateSubdir(c)
           \/ DeleteRow(c) \/ RemoveDir(c)
  <2>1. /\ \/ At(c, "signal") \/ At(c, "rebuild") \/ At(c, "open")
           \/ At(c, "subdir") \/ At(c, "delete") \/ At(c, "rmdir")
        /\ Proceed(c, client[c])
    BY <1>8 DEF SignalRescan, RebuildIndex, OpenStore, CreateSubdir, DeleteRow, RemoveDir
  <2> QED BY <1>0, <2>1, PlainProceed DEF At
<1> QED BY <1>1, <1>2, <1>3, <1>4, <1>5, <1>6, <1>7, <1>8 DEF QuietStep

\* What a handler refers to when it takes a step that uses it.
LEMMA AtVault ==
    ASSUME TypeInv, NEW c \in Clients,
           \/ At(c, "rebuild") \/ At(c, "open") \/ At(c, "subdir")
           \/ At(c, "status") \/ At(c, "reread") \/ At(c, "update")
           \/ At(c, "delete") \/ At(c, "rmdir") \/ At(c, "unmap")
           \/ At(c, "boot") \/ At(c, "join") \/ At(c, "drain")
           \/ At(c, "spawn") \/ At(c, "publish") \/ At(c, "lock")
    PROVE  client[c].id \in Ids
<1>1. ClientInv
  BY DEF TypeInv
<1> QED BY <1>1, AtIs DEF Creates, CreationStep, Terminates, Operates

LEMMA AtRunner ==
    ASSUME TypeInv, NEW c \in Clients,
           \/ At(c, "boot") \/ At(c, "join") \/ At(c, "drain")
           \/ At(c, "publish") \/ At(c, "lock") \/ At(c, "signal")
    PROVE  /\ client[c].runner \in Runners
           /\ runner[client[c].runner] \in RunnerValues
           /\ runner[client[c].runner].vault = client[c].id
<1>1. ClientInv
  BY DEF TypeInv
<1>2. client[c].runner # Absent
  BY <1>1, AtIs DEF Creates, CreationStep, Terminates, TerminationStep,
                    OperationStep
<1>3. client[c].runner \in Runners
  BY <1>1, <1>2 DEF ClientInv, Requests, Maybe
<1> QED BY <1>2, <1>3 DEF TypeInv, HeldInv, MapInv, Maybe

LEMMA QuietTable ==
    ASSUME TypeInv, NEW c \in Clients, QuietStep(c)
    PROVE  TableInv'
<1>0. ClientInv /\ TableInv
  BY DEF TypeInv
<1>1. CASE UNCHANGED <<table, disk>>
  BY <1>0, <1>1 DEF TableInv, Registered, table, disk
<1>2. CASE UpdateStatus(c)
  <2>1. At(c, "status") /\ UNCHANGED <<used, disk>>
    BY <1>2 DEF UpdateStatus
  <2>2. client[c].id \in Ids
    BY <2>1, AtVault
  <2>3. CASE UNCHANGED registry
    BY <1>0, <2>1, <2>3 DEF TableInv, Registered, disk
  <2>4. CASE /\ client[c].id \in Registered
             /\ registry' = [registry EXCEPT ![client[c].id].status =
                               IF client[c].op = "pause" THEN "paused" ELSE "active"]
    <3>1. registry[client[c].id] \in Rows
      BY <1>0, <2>4 DEF TableInv, Registered, Maybe
    <3>2. \E s \in Statuses :
             registry' = [registry EXCEPT ![client[c].id] =
                            [registry[client[c].id] EXCEPT !.status = s]]
      BY <2>4 DEF Statuses
    <3>3. PICK s \in Statuses :
             registry' = [registry EXCEPT ![client[c].id] =
                            [registry[client[c].id] EXCEPT !.status = s]]
      BY <3>2
    <3>4. [registry[client[c].id] EXCEPT !.status = s] \in Rows
      BY <3>1 DEF Rows
    <3>5. registry' \in [Ids -> Maybe(Rows)]
      BY <1>0, <2>2, <3>3, <3>4 DEF TableInv, Maybe
    <3>6. Registered' \subseteq Registered
      BY <1>0, <2>2, <2>4, <3>3 DEF TableInv, Registered
    <3> QED BY <1>0, <2>1, <3>5, <3>6 DEF TableInv, disk
  <2> QED BY <1>2, <2>3, <2>4 DEF UpdateStatus
<1>3. CASE UpdateName(c)
  <2>1. At(c, "update") /\ UNCHANGED <<used, disk>>
    BY <1>3 DEF UpdateName
  <2>2. client[c].id \in Ids
    BY <2>1, AtVault
  <2>3. CASE UNCHANGED registry
    BY <1>0, <2>1, <2>3 DEF TableInv, Registered, disk
  <2>4. CASE /\ client[c].id \in Registered
             /\ registry' = [registry EXCEPT ![client[c].id].name = client[c].arg]
    <3>1. registry[client[c].id] \in Rows
      BY <1>0, <2>4 DEF TableInv, Registered, Maybe
    <3>2. client[c].arg \in Names
      BY <1>0, <2>1, AtIs DEF Creates, CreationStep, Terminates, TerminationStep,
                              Operates, OperationStep
    <3>3. [registry[client[c].id] EXCEPT !.name = client[c].arg] \in Rows
      BY <3>1, <3>2 DEF Rows
    <3>4. registry' \in [Ids -> Maybe(Rows)]
      BY <1>0, <2>2, <2>4, <3>3 DEF TableInv, Maybe
    <3>5. Registered' \subseteq Registered
      BY <1>0, <2>2, <2>4 DEF TableInv, Registered
    <3> QED BY <1>0, <2>1, <3>4, <3>5 DEF TableInv, disk
  <2> QED BY <1>3, <2>3, <2>4 DEF UpdateName
<1>4. CASE DeleteRow(c)
  <2>1. /\ At(c, "delete") /\ UNCHANGED <<used, disk>>
        /\ registry' = [registry EXCEPT ![client[c].id] = Absent]
    BY <1>4 DEF DeleteRow
  <2>2. client[c].id \in Ids
    BY <2>1, AtVault
  <2>3. registry' \in [Ids -> Maybe(Rows)] /\ Registered' \subseteq Registered
    BY <1>0, <2>1, <2>2 DEF TableInv, Maybe, Registered
  <2> QED BY <1>0, <2>1, <2>3 DEF TableInv, disk
<1>5. CASE RebuildIndex(c) \/ OpenStore(c) \/ CreateSubdir(c) \/ RemoveDir(c)
  <2>1. /\ At(c, "rebuild") \/ At(c, "open") \/ At(c, "subdir") \/ At(c, "rmdir")
        /\ UNCHANGED <<table, accessible>>
        /\ \/ dirs' = dirs \/ dirs' = dirs \cup {client[c].id}
           \/ dirs' = dirs \ {client[c].id}
    BY <1>5 DEF RebuildIndex, OpenStore, CreateSubdir, RemoveDir
  <2>2. client[c].id \in Ids
    BY <2>1, AtVault
  <2> QED BY <1>0, <2>1, <2>2 DEF TableInv, Registered, table
<1> QED BY <1>1, <1>2, <1>3, <1>4, <1>5
        DEF QuietStep, Lock, DrainConsumer, SignalRescan, Reread, CheckFree, WriteMeta

LEMMA QuietMemory ==
    ASSUME NEW c \in Clients, QuietStep(c)
    PROVE  UNCHANGED <<daemon, runners, runner, task, count>>
<1> QED BY DEF QuietStep, Lock, DrainConsumer, SignalRescan, RebuildIndex, UpdateStatus,
               Reread, OpenStore, CheckFree, CreateSubdir, UpdateName, WriteMeta,
               DeleteRow, RemoveDir, memory

LEMMA MapFrame ==
    ASSUME MapInv, UNCHANGED <<runners, runner, task>>
    PROVE  MapInv' /\ RunnersStay
<1> QED BY DEF MapInv, Mapped, Running, Refers, RunnersStay

LEMMA ServingFrame ==
    ASSUME daemon = "serving", UNCHANGED daemon
    PROVE  DaemonInv'
<1> QED BY DEF DaemonInv

LEMMA QuietType ==
    ASSUME TypeInv, NEW c \in Clients, QuietStep(c)
    PROVE  TypeInv'
<1>1. UNCHANGED <<daemon, runners, runner, task, count>>
  BY QuietMemory
<1>2. ClientInv' /\ RefsStay /\ daemon = "serving"
  BY QuietClients
<1>3. MapInv' /\ RunnersStay
  BY <1>1, MapFrame DEF TypeInv
<1>4. HeldInv'
  BY <1>2, <1>3, HeldStays DEF TypeInv
<1>5. CountInv'
  BY <1>1 DEF TypeInv, CountInv
<1> QED BY <1>1, <1>2, <1>3, <1>4, <1>5, QuietTable, ServingFrame DEF TypeInv

-----------------------------------------------------------------------------
(* Type correctness: requests.                                             *)

LEMMA CountOps ==
    ASSUME CountInv, count.ops < MaxOps,
           \/ count' = [count EXCEPT !.ops = @ + 1, !.unmapped = @ + 1]
           \/ count' = [count EXCEPT !.ops = @ + 1]
    PROVE  CountInv'
<1> USE BoundAssumption DEF CountInv, Bounds
<1>1. /\ count.ops \in Nat /\ count.unmapped \in Nat /\ count.unmapped <= count.ops
      /\ count.ops + 1 \in 0 .. MaxOps /\ count.unmapped \in 0 .. MaxOps
      /\ count.unmapped + 1 \in 0 .. MaxOps
  OBVIOUS
<1>2. /\ count' \in Bounds /\ count'.ops = count.ops + 1
      /\ count'.unmapped \in {count.unmapped, count.unmapped + 1}
  BY <1>1
<1> QED BY <1>1, <1>2

LEMMA BeginType ==
    ASSUME TypeInv, NEW c \in Clients, NEW k, ClientOk(k),
           client[c] = Idle, count.ops < MaxOps, daemon = "serving", Begin(c, k),
           k.runner # Absent => k.id \in Mapped /\ k.runner = runners[k.id]
    PROVE  TypeInv'
<1>1. /\ UNCHANGED <<registry, used, dirs, accessible, daemon, runners, runner, task>>
      /\ client' = [client EXCEPT ![c] = k]
  BY DEF Begin, table, disk, memory
<1>2. TableInv'
  BY <1>1 DEF TypeInv, TableInv, Registered
<1>3. MapInv' /\ DaemonInv'
  BY <1>1, MapFrame, ServingFrame DEF TypeInv
<1>4. ClientInv'
  BY <1>1, ClientSet DEF TypeInv
<1>5. HeldInv'
  <2>1. \A d \in Clients : client'[d] = IF d = c THEN k ELSE client[d]
    BY <1>1 DEF TypeInv, ClientInv
  <2>2. k.runner # Absent => runner[k.runner] # Absent /\ runner[k.runner].vault = k.id
    BY DEF TypeInv, MapInv
  <2> QED BY <1>1, <2>1, <2>2 DEF TypeInv, HeldInv
<1>6. CountInv'
  BY CountOps DEF Begin, TypeInv
<1> QED BY <1>2, <1>3, <1>4, <1>5, <1>6 DEF TypeInv

LEMMA RequestType ==
    ASSUME TypeInv, NEW c \in Clients, Request(c)
    PROVE  TypeInv'
<1>1. ASSUME NEW n \in Names, NEW p \in Paths, BeginCreate(c, n, p)
      PROVE  TypeInv'
  <2> DEFINE row == [name |-> n, path |-> p, status |-> "active"]
  <2>1. PICK q : q = Plan("create", FALSE)
    OBVIOUS
  <2>2. q = Creation
    BY <2>1 DEF Plan
  <2>3. row \in Rows /\ row.status = "active"
    BY DEF Rows, Statuses
  <2>4. PICK k : k = [Idle EXCEPT !.op = "create", !.plan = q, !.row = row]
    OBVIOUS
  <2>5. /\ client[c] = Idle /\ count.ops < MaxOps /\ daemon = "serving" /\ Begin(c, k)
    BY <1>1, <2>1, <2>4 DEF BeginCreate, Accepts
  <2> HIDE DEF row
  <2>6. q \in Suffixes(Creation) /\ q \in Seq(Steps) /\ Head(q) = "name"
    BY <2>2, CreationPlan, WholeIsSuffix
  <2>7. /\ k \in Requests
        /\ k.op = "create" /\ k.id = Absent /\ k.plan = q /\ k.row = row
        /\ k.runner = Absent /\ k.locked = FALSE
    BY <2>3, <2>4, <2>6 DEF Idle, Requests, Maybe, Operations
  <2>8. ClientOk(k)
    BY <2>3, <2>6, <2>7 DEF ClientOk, Creates
  <2> QED BY <2>5, <2>7, <2>8, BeginType
<1>2. ASSUME NEW i \in Ids, BeginTerminate(c, i)
      PROVE  TypeInv'
  <2>1. PICK q : q = Plan("terminate", TRUE)
    OBVIOUS
  <2>2. q = Termination
    BY <2>1 DEF Plan
  <2>3. PICK k : k = [Idle EXCEPT !.op = "terminate", !.id = i, !.plan = q]
    OBVIOUS
  <2>4. /\ client[c] = Idle /\ count.ops < MaxOps /\ daemon = "serving" /\ Begin(c, k)
    BY <1>2, <2>1, <2>3 DEF BeginTerminate, Accepts
  <2>5. q \in Suffixes(Termination) /\ q \in Seq(Steps) /\ Head(q) = "unmap"
    BY <2>2, TerminationPlan, WholeIsSuffix
  <2>6. /\ k \in Requests
        /\ k.op = "terminate" /\ k.id = i /\ k.plan = q
        /\ k.runner = Absent /\ k.locked = FALSE
    BY <2>3, <2>5 DEF Idle, Requests, Maybe, Operations
  <2>7. ClientOk(k)
    BY <2>5, <2>6 DEF ClientOk, Terminates
  <2> QED BY <2>4, <2>6, <2>7, BeginType
<1>3. ASSUME NEW i \in Ids, NEW op \in Operations, BeginOn(c, op, i)
      PROVE  TypeInv'
  <2>1. /\ client[c] = Idle /\ count.ops < MaxOps /\ daemon = "serving"
        /\ op \in Others /\ i \in Registered
        /\ op \in {"pause", "rescan"} => i \in Mapped
    BY <1>3 DEF BeginOn, Accepts, Others
  <2> DEFINE m == (runners[i] # Absent)
  <2>2. m \in BOOLEAN /\ m = (i \in Mapped) /\ (op \in {"pause", "rescan"} => m)
    BY <2>1 DEF Mapped
  <2>3. PICK q : q = Plan(op, i \in Mapped)
    OBVIOUS
  <2>4. q = Plan(op, m)
    BY <2>2, <2>3
  <2>5. PICK n \in IF op = "rename" THEN Names \ {registry[i].name} ELSE {Absent} :
           Begin(c, [Idle EXCEPT !.op = op, !.id = i, !.arg = n,
                                 !.row = registry[i], !.runner = runners[i],
                                 !.plan = q])
    BY <1>3, <2>3 DEF BeginOn
  <2>6. PICK k : k = [Idle EXCEPT !.op = op, !.id = i, !.arg = n, !.row = registry[i],
                                  !.runner = runners[i], !.plan = q]
    OBVIOUS
  <2>7. /\ q \in Seq(Steps) /\ q \in Suffixes(Plan(op, m))
        /\ m <=> Head(q) = "lock"
    <3> HIDE DEF m
    <3> QED BY <2>1, <2>2, <2>4, WholePlan
  <2>8. /\ registry[i] \in Rows /\ runners[i] \in Maybe(Runners)
        /\ n \in Maybe(Names) /\ (op = "rename" => n \in Names)
    BY <2>1, <2>5 DEF TypeInv, TableInv, MapInv, Registered, Maybe
  <2>9. /\ k \in Requests
        /\ k.op = op /\ k.id = i /\ k.plan = q /\ k.row = registry[i]
        /\ k.runner = runners[i] /\ k.arg = n /\ k.locked = FALSE
    BY <2>6, <2>7, <2>8 DEF Idle, Requests, Maybe
  <2>10. Operates(k)
    <3>1. k.plan \in Suffixes(Plan(k.op, k.runner # Absent))
      BY <2>7, <2>9
    <3> QED BY <2>1, <2>2, <2>7, <2>8, <2>9, <3>1 DEF Operates
  <2>11. k.runner # Absent => k.id \in Mapped /\ k.runner = runners[k.id]
    BY <2>9 DEF Mapped
  <2>12. Begin(c, k)
    BY <2>5, <2>6
  <2> QED BY <2>1, <2>9, <2>10, <2>11, <2>12, BeginType DEF ClientOk
<1> QED BY <1>1, <1>2, <1>3 DEF Request

-----------------------------------------------------------------------------
(* Type correctness: steps that touch runners and tasks.                   *)

\* Tasks neither begin nor end, and stay with their runners.
TasksStay ==
    /\ task' \in [Tasks -> Maybe(TaskValues)]
    /\ \A u \in Tasks : /\ task'[u] # Absent <=> task[u] # Absent
                        /\ task[u] # Absent => task'[u].runner = task[u].runner

LEMMA TaskValuesAre ==
    ASSUME MapInv, NEW t \in Tasks, task[t] # Absent
    PROVE  task[t] \in TaskValues /\ task[t].runner \in Runners /\ Running(t)
<1> QED BY DEF MapInv, Maybe, TaskValues, Running

LEMMA SignalOk ==
    ASSUME MapInv, NEW t, t # Absent => Running(t), task' = Signal(t)
    PROVE  /\ TasksStay
           /\ \A u \in Tasks : /\ task'[u].stage = task[u].stage
                               /\ u # t => task'[u] = task[u]
<1>1. CASE t = Absent
  BY <1>1 DEF Signal, MapInv, TasksStay
<1>2. CASE t # Absent
  <2>1. t \in Tasks /\ task[t] \in TaskValues
    BY <1>2, TaskValuesAre DEF Running
  <2> DEFINE e == [task[t] EXCEPT !.stop = TRUE]
  <2>2. task' = [task EXCEPT ![t] = e]
    BY <1>2 DEF Signal
  <2>3. e \in TaskValues /\ e.runner = task[t].runner /\ e.stage = task[t].stage
    BY <2>1 DEF TaskValues
  <2>4. e # Absent /\ task[t] # Absent
    BY <2>1, <2>3, AbsentAssumption
  <2> HIDE DEF e
  <2>5. /\ task' \in [Tasks -> Maybe(TaskValues)]
        /\ \A u \in Tasks : task'[u] = IF u = t THEN e ELSE task[u]
    BY <2>1, <2>2, <2>3 DEF MapInv, Maybe
  <2> QED BY <2>1, <2>3, <2>4, <2>5 DEF TasksStay
<1> QED BY <1>1, <1>2

\* A runner changes, its vault and where its handles may lead apart.
LEMMA RunnerSet ==
    ASSUME MapInv, NEW r \in Runners, runner[r] # Absent,
           NEW e \in RunnerValues, e.vault = runner[r].vault,
           e.boot \in {Absent, runner[r].boot} \/ (Refers(e.boot, r) /\ e.boot \in Tasks),
           e.life \in {Absent, runner[r].life} \/ (Refers(e.life, r) /\ e.life \in Tasks),
           runner' = [runner EXCEPT ![r] = e], UNCHANGED runners, TasksStay
    PROVE  MapInv' /\ RunnersStay
<1>1. e # Absent
  BY AbsentAssumption
<1>2. /\ runner' \in [Runners -> Maybe(RunnerValues)]
      /\ \A s \in Runners : runner'[s] = IF s = r THEN e ELSE runner[s]
  BY DEF MapInv, Maybe
<1>3. RunnersStay
  BY <1>1, <1>2 DEF RunnersStay
<1>4. \A i \in Mapped' : runner'[runners'[i]] # Absent /\ runner'[runners'[i]].vault = i
  BY <1>3 DEF MapInv, Mapped, Maybe, RunnersStay
<1>5. ASSUME NEW t \in Tasks, task'[t] # Absent
      PROVE  runner'[task'[t].runner] # Absent
  <2>1. task[t] # Absent /\ task'[t].runner = task[t].runner
    BY <1>5 DEF TasksStay
  <2>2. task[t].runner \in Runners /\ runner[task[t].runner] # Absent
    BY <2>1, TaskValuesAre DEF MapInv
  <2> QED BY <1>3, <2>1, <2>2 DEF RunnersStay
<1>6. ASSUME NEW s \in Runners, runner'[s] # Absent
      PROVE  \A h \in {runner'[s].boot, runner'[s].life} : h # Absent =>
                h \in Tasks /\ task'[h] # Absent /\ task'[h].runner = s
  <2>1. (Refers(runner[s].boot, s) /\ Refers(runner[s].life, s)) \/ runner[s] = Absent
    BY DEF MapInv
  <2>2. Refers(runner'[s].boot, s) /\ Refers(runner'[s].life, s)
    BY <1>2, <1>6, <2>1 DEF Refers
  <2> QED BY <2>2 DEF Refers, Running, TasksStay
<1> QED BY <1>2, <1>3, <1>4, <1>5, <1>6 DEF MapInv, TasksStay, Running, Refers

LEMMA WaitProceeds ==
    ASSUME ClientInv, NEW c \in Clients, NEW s \in {"boot", "join"}, At(c, s),
           NEW t \in Maybe(Tasks), Proceed(c, [client[c] EXCEPT !.wait = t])
    PROVE  ClientInv' /\ RefsStay
<1> DEFINE n == [client[c] EXCEPT !.wait = t]
<1>1. /\ client[c].plan # <<>> /\ Head(client[c].plan) = s
      /\ client[c] \in Requests
  BY AtIs
<1>2. /\ n \in Requests /\ n.plan = client[c].plan /\ n.op = client[c].op
      /\ n.id = client[c].id /\ n.arg = client[c].arg /\ n.row = client[c].row
      /\ n.runner = client[c].runner /\ n.locked = client[c].locked
  BY <1>1 DEF Requests
<1>3. Proceed(c, n)
  OBVIOUS
<1> HIDE DEF n
<1> QED BY <1>1, <1>2, <1>3, ClientProceeds

LEMMA TableFrame ==
    ASSUME TableInv, UNCHANGED <<registry, used, dirs, accessible>>
    PROVE  TableInv'
<1> QED BY DEF TableInv, Registered

LEMMA ShutdownType ==
    ASSUME TypeInv, NEW c \in Clients, TakeBootstrap(c) \/ JoinBootstrap(c)
    PROVE  TypeInv'
<1> DEFINE r == client[c].runner
<1>0. ClientInv /\ MapInv /\ HeldInv
  BY DEF TypeInv
<1>1. UNCHANGED <<registry, used, dirs, accessible, daemon, runners, count>>
  BY DEF TakeBootstrap, JoinBootstrap, table, disk
<1>2. At(c, "boot") \/ At(c, "join")
  BY DEF TakeBootstrap, JoinBootstrap
<1>3. r \in Runners /\ runner[r] \in RunnerValues /\ runner[r] # Absent
  BY <1>2, AtRunner, AbsentAssumption
<1>4. /\ Refers(runner[r].boot, r) /\ Refers(runner[r].life, r)
      /\ runner[r].boot \in Maybe(Tasks) /\ runner[r].life \in Maybe(Tasks)
  BY <1>0, <1>3 DEF MapInv, RunnerValues
<1>5. ASSUME TakeBootstrap(c)
      PROVE  ClientInv' /\ RefsStay /\ MapInv' /\ RunnersStay
  <2> DEFINE e == [runner[r] EXCEPT !.boot = Absent]
  <2>1. /\ runner' = [runner EXCEPT ![r] = e] /\ task' = Signal(runner[r].boot)
        /\ Proceed(c, [client[c] EXCEPT !.wait = runner[r].boot]) /\ At(c, "boot")
    BY <1>5 DEF TakeBootstrap
  <2>2. /\ e \in RunnerValues /\ e.vault = runner[r].vault /\ e.boot = Absent
        /\ e.life = runner[r].life
    BY <1>3 DEF RunnerValues, Maybe
  <2>3. TasksStay
    BY <1>0, <1>4, <2>1, SignalOk DEF Refers
  <2> HIDE DEF e, r
  <2>4. MapInv' /\ RunnersStay
    BY <1>0, <1>1, <1>3, <2>1, <2>2, <2>3, RunnerSet
  <2>5. ClientInv' /\ RefsStay
    BY <1>0, <1>4, <2>1, WaitProceeds
  <2> QED BY <2>4, <2>5
<1>6. ASSUME JoinBootstrap(c)
      PROVE  ClientInv' /\ RefsStay /\ MapInv' /\ RunnersStay
  <2> DEFINE e == [runner[r] EXCEPT !.life = Absent]
  <2>1. /\ runner' = [runner EXCEPT ![r] = e] /\ task' = Signal(runner[r].life)
        /\ Proceed(c, [client[c] EXCEPT !.wait = runner[r].life]) /\ At(c, "join")
    BY <1>6 DEF JoinBootstrap
  <2>2. /\ e \in RunnerValues /\ e.vault = runner[r].vault /\ e.life = Absent
        /\ e.boot = runner[r].boot
    BY <1>3 DEF RunnerValues, Maybe
  <2>3. TasksStay
    BY <1>0, <1>4, <2>1, SignalOk DEF Refers
  <2> HIDE DEF e, r
  <2>4. MapInv' /\ RunnersStay
    BY <1>0, <1>1, <1>3, <2>1, <2>2, <2>3, RunnerSet
  <2>5. ClientInv' /\ RefsStay
    BY <1>0, <1>4, <2>1, WaitProceeds
  <2> QED BY <2>4, <2>5
<1>7. ClientInv' /\ RefsStay /\ MapInv' /\ RunnersStay
  BY <1>5, <1>6
<1>8. HeldInv'
  BY <1>0, <1>7, HeldStays
<1>9. TableInv' /\ DaemonInv' /\ CountInv'
  BY <1>0, <1>1, <1>2, TableFrame, ServingFrame DEF TypeInv, At, CountInv
<1> QED BY <1>7, <1>8, <1>9 DEF TypeInv

LEMMA PublishType ==
    ASSUME TypeInv, NEW c \in Clients, Publish(c)
    PROVE  TypeInv'
<1> DEFINE k == client[c]
           r == client[c].runner
           e == CASE k.op = "pause" -> [runner[r] EXCEPT !.status = "paused"]
                  [] k.op = "resume" -> [runner[r] EXCEPT !.status = "active",
                                                         !.name = k.row.name]
                  [] OTHER -> [runner[r] EXCEPT !.name = k.arg]
<1>0. ClientInv /\ MapInv /\ HeldInv
  BY DEF TypeInv
<1>1. /\ UNCHANGED <<registry, used, dirs, accessible, daemon, runners, task, count>>
      /\ At(c, "publish") /\ Proceed(c, k)
  BY DEF Publish, table, disk
<1>2. runner' = [runner EXCEPT ![r] = e]
  BY DEF Publish
<1>3. r \in Runners /\ runner[r] \in RunnerValues /\ runner[r] # Absent
  BY <1>1, AtRunner, AbsentAssumption
<1>4. /\ k.op \in {"pause", "resume", "rename"} /\ k.row \in Rows
      /\ k.op = "rename" => k.arg \in Names
  BY <1>0, <1>1, AtIs DEF CreationStep, TerminationStep, OperationStep, Operates
<1>5. e \in RunnerValues /\ e.vault = runner[r].vault /\ e.boot = runner[r].boot
      /\ e.life = runner[r].life
  <2>1. CASE k.op = "pause"
    BY <1>3, <2>1 DEF RunnerValues, Statuses
  <2>2. CASE k.op = "resume"
    BY <1>3, <1>4, <2>2 DEF RunnerValues, Statuses, Rows
  <2>3. CASE k.op = "rename"
    BY <1>3, <1>4, <2>3 DEF RunnerValues
  <2> QED BY <1>4, <2>1, <2>2, <2>3
<1>6. TasksStay
  BY <1>0, <1>1 DEF TasksStay, MapInv
<1> HIDE DEF e, r
<1>7. MapInv' /\ RunnersStay
  BY <1>0, <1>1, <1>2, <1>3, <1>5, <1>6, RunnerSet
<1>8. ClientInv' /\ RefsStay
  BY <1>0, <1>1, PlainProceed
<1>9. HeldInv'
  BY <1>0, <1>7, <1>8, HeldStays
<1>10. TableInv' /\ DaemonInv' /\ CountInv'
  BY <1>1, TableFrame, ServingFrame DEF TypeInv, At, CountInv
<1> QED BY <1>7, <1>8, <1>9, <1>10 DEF TypeInv

LEMMA UnmapType ==
    ASSUME TypeInv, NEW c \in Clients, Unmap(c)
    PROVE  TypeInv'
<1> DEFINE k == client[c]
<1>0. ClientInv /\ MapInv /\ HeldInv
  BY DEF TypeInv
<1>1. PICK r : r = runners[k.id]
  OBVIOUS
<1>2. PICK p : p = IF r = Absent THEN <<"unmap", "delete", "rmdir">> ELSE k.plan
  OBVIOUS
<1> DEFINE n == [k EXCEPT !.runner = r, !.plan = p]
<1>3. /\ UNCHANGED <<registry, used, dirs, accessible, daemon, runner, task, count>>
      /\ At(c, "unmap") /\ runners' = [runners EXCEPT ![k.id] = Absent]
  BY DEF Unmap, table, disk
<1>4. Proceed(c, n)
  BY <1>1, <1>2 DEF Unmap
<1>5. /\ k \in Requests /\ k.plan # <<>> /\ Head(k.plan) = "unmap" /\ ClientOk(k)
      /\ Terminates(k) /\ TerminationStep(k.plan) /\ k.id \in Ids
  BY <1>0, <1>3, AtIs DEF CreationStep, OperationStep, Terminates
<1>6. /\ p \in Seq(Steps) /\ Tail(p) # <<>> /\ Tail(p) \in Suffixes(Termination)
      /\ Head(Tail(p)) = IF r = Absent THEN "delete" ELSE "boot"
  <2>1. CASE r = Absent
    BY <1>2, <2>1, ShortTermination
  <2>2. CASE r # Absent
    BY <1>2, <1>5, <2>2, TerminationStepOk DEF TerminationStep, Then, Terminates
  <2> QED BY <2>1, <2>2
<1>7. r \in Maybe(Runners)
  BY <1>0, <1>1, <1>5 DEF MapInv
<1>8. /\ n \in Requests /\ n.plan = p /\ n.runner = r /\ n.op = k.op /\ n.id = k.id
      /\ n.locked = k.locked
  BY <1>5, <1>6, <1>7 DEF Requests
<1> DEFINE q == Tail(p)
           m == [n EXCEPT !.plan = q]
<1>9. q \in Seq(Steps)
  BY <1>6, TerminationStepOk
<1>10. /\ m \in Requests /\ m.plan = q /\ m.op = k.op /\ m.id = k.id /\ m.runner = r
       /\ m.locked = k.locked
  <2> HIDE DEF n, q
  <2>1. /\ m \in Requests /\ m.plan = q /\ m.op = n.op /\ m.id = n.id
        /\ m.runner = n.runner /\ m.locked = n.locked
    BY <1>8, <1>9, WithPlan
  <2> HIDE DEF m
  <2> QED BY <1>8, <2>1
<1>11. Advance(n) = m
  <2> HIDE DEF n
  <2> QED BY <1>6, <1>8, AdvanceIs
<1> HIDE DEF m, n
<1>12. Terminates(m)
  BY <1>5, <1>6, <1>10 DEF Terminates
<1>13. ClientOk(m)
  BY <1>10, <1>12 DEF ClientOk
<1>14. /\ client' = [client EXCEPT ![c] = m] /\ client'[c] = m
       /\ \A d \in Clients \ {c} : client'[d] = client[d]
  BY <1>0, <1>4, <1>11, ProceedIs
<1>15. ClientInv'
  BY <1>0, <1>13, <1>14, ClientSet
<1>16. HeldInv'
  <2>1. r # Absent => runner[r] # Absent /\ runner[r].vault = k.id
    BY <1>0, <1>1, <1>5 DEF MapInv, Mapped
  <2> QED BY <1>0, <1>3, <1>10, <1>14, <2>1 DEF HeldInv
<1>17. MapInv'
  <2>1. runners' \in [Ids -> Maybe(Runners)]
    BY <1>0, <1>3 DEF MapInv, Maybe
  <2>2. \A i \in Mapped' : i \in Mapped /\ runners'[i] = runners[i]
    BY <1>0, <1>3 DEF Mapped, MapInv
  <2> QED BY <1>0, <1>3, <2>1, <2>2 DEF MapInv, Running, Refers
<1>18. TableInv' /\ DaemonInv' /\ CountInv'
  BY <1>3, TableFrame, ServingFrame DEF TypeInv, At, CountInv
<1> QED BY <1>15, <1>16, <1>17, <1>18 DEF TypeInv

LEMMA InsertType ==
    ASSUME TypeInv, NEW c \in Clients, Insert(c)
    PROVE  TypeInv'
<1> DEFINE k == client[c]
<1>0. ClientInv /\ MapInv /\ HeldInv /\ TableInv
  BY DEF TypeInv
<1>1. /\ UNCHANGED <<dirs, accessible, daemon, runners, runner, task, count>>
      /\ At(c, "insert")
  BY DEF Insert, disk, memory
<1>2. /\ k \in Requests /\ k.plan # <<>> /\ Head(k.plan) = "insert" /\ ClientOk(k)
      /\ Creates(k) /\ CreationStep(k.plan)
  BY <1>0, <1>1, AtIs DEF TerminationStep, OperationStep
<1>3. ASSUME Return(c), UNCHANGED table
      PROVE  ClientInv' /\ RefsStay /\ TableInv'
  BY <1>0, <1>1, <1>3, ClientReturns, TableFrame DEF table
<1>4. ASSUME NEW i \in Ids \ used,
             registry' = [registry EXCEPT ![i] = k.row], used' = used \cup {i},
             Proceed(c, [k EXCEPT !.id = i])
      PROVE  ClientInv' /\ RefsStay /\ TableInv'
  <2> DEFINE n == [k EXCEPT !.id = i]
             q == Tail(k.plan)
             m == [n EXCEPT !.plan = q]
  <2>1. /\ n \in Requests /\ n.plan = k.plan /\ n.op = k.op /\ n.id = i
        /\ n.row = k.row /\ n.runner = k.runner /\ n.locked = k.locked
    BY <1>2 DEF Requests, Maybe
  <2>2. q \in Seq(Steps) /\ q # <<>> /\ q \in Suffixes(Creation) /\ Head(q) = "subdir"
    BY <1>2, CreationStepOk DEF Creates, CreationStep, Then
  <2>3. /\ m \in Requests /\ m.plan = q /\ m.op = k.op /\ m.id = i /\ m.row = k.row
        /\ m.runner = k.runner /\ m.locked = k.locked
    <3> HIDE DEF n, q
    <3>1. /\ m \in Requests /\ m.plan = q /\ m.op = n.op /\ m.id = n.id
          /\ m.row = n.row /\ m.runner = n.runner /\ m.locked = n.locked
      BY <2>1, <2>2, WithPlan
    <3> HIDE DEF m
    <3> QED BY <2>1, <3>1
  <2>4. Advance(n) = m
    <3> HIDE DEF n
    <3> QED BY <2>1, <2>2, AdvanceIs
  <2>5. Proceed(c, n)
    BY <1>4
  <2> HIDE DEF m, n
  <2>6. Creates(m)
    BY <1>2, <2>2, <2>3 DEF Creates
  <2>7. ClientOk(m)
    BY <2>3, <2>6 DEF ClientOk
  <2>8. /\ client' = [client EXCEPT ![c] = m] /\ client'[c] = m
        /\ \A d \in Clients \ {c} : client'[d] = client[d]
    BY <1>0, <2>4, <2>5, ProceedIs
  <2>9. ClientInv'
    BY <1>0, <2>7, <2>8, ClientSet
  <2>10. RefsStay
    BY <1>2, <2>3, <2>8 DEF RefsStay, Creates
  <2>11. k.row \in Rows
    BY <1>2 DEF Creates
  <2>12. registry' \in [Ids -> Maybe(Rows)]
    BY <1>0, <1>4, <2>11 DEF TableInv, Maybe
  <2>13. Registered' \subseteq Registered \cup {i}
    BY <1>0, <1>4 DEF TableInv, Registered
  <2>14. TableInv'
    BY <1>0, <1>1, <1>4, <2>12, <2>13 DEF TableInv
  <2> QED BY <2>9, <2>10, <2>14
<1>5. ClientInv' /\ RefsStay /\ TableInv'
  BY <1>3, <1>4 DEF Insert
<1>6. MapInv' /\ RunnersStay
  BY <1>0, <1>1, MapFrame
<1>7. HeldInv'
  BY <1>0, <1>5, <1>6, HeldStays
<1>8. DaemonInv' /\ CountInv'
  BY <1>1, ServingFrame DEF TypeInv, At, CountInv
<1> QED BY <1>5, <1>6, <1>7, <1>8 DEF TypeInv

LEMMA CountFault ==
    ASSUME CountInv,
           \/ count.faults < MaxFaults /\ count' = [count EXCEPT !.faults = @ + 1]
           \/ count.disconnects < MaxDisconnects /\ count' = [count EXCEPT !.disconnects = @ + 1]
           \/ count.crashes < MaxCrashes /\ count' = [count EXCEPT !.crashes = @ + 1]
           \/ count.moves < MaxMoves /\ count' = [count EXCEPT !.moves = @ + 1]
    PROVE  CountInv'
<1> USE BoundAssumption DEF CountInv, Bounds
<1>1. /\ count.faults \in Nat /\ count.disconnects \in Nat /\ count.crashes \in Nat
      /\ count.moves \in Nat
  OBVIOUS
<1>2. count' \in Bounds
  BY <1>1
<1>3. count'.ops = count.ops /\ count'.unmapped = count.unmapped
  OBVIOUS
<1> QED BY <1>2, <1>3

LEMMA CutOffType ==
    ASSUME TypeInv, NEW c \in Clients, StepFails(c) \/ Disconnect(c)
    PROVE  TypeInv'
<1>1. /\ UNCHANGED <<registry, used, accessible, daemon, runners, runner, task>>
      /\ Return(c) /\ client[c] # Idle
  <2>1. StepFails(c) => client[c].plan # <<>>
    BY DEF StepFails, At
  <2> QED BY <2>1, IdleOk DEF StepFails, Disconnect, table, disk, memory
<1>2. ClientInv' /\ RefsStay
  BY <1>1, ClientReturns DEF TypeInv
<1>3. MapInv' /\ RunnersStay
  BY <1>1, MapFrame DEF TypeInv
<1>4. HeldInv'
  BY <1>2, <1>3, HeldStays DEF TypeInv
<1>5. CountInv'
  BY CountFault DEF StepFails, Disconnect, TypeInv
<1>6. TableInv'
  <2>1. dirs' = dirs \/ (At(c, "open") /\ dirs' = dirs \cup {client[c].id})
    BY DEF StepFails, Disconnect, disk
  <2>2. At(c, "open") => client[c].id \in Ids
    BY AtVault
  <2> QED BY <1>1, <2>1, <2>2 DEF TypeInv, TableInv, Registered
<1>7. DaemonInv'
  BY <1>1, ServingFrame DEF TypeInv, DaemonInv
<1> QED BY <1>2, <1>3, <1>4, <1>5, <1>6, <1>7 DEF TypeInv

-----------------------------------------------------------------------------
(* Type correctness: new runners and tasks.                                *)

LEMMA LeastNatural ==
    ASSUME NEW S, S \subseteq Nat, S # {}
    PROVE  \E n \in S : \A m \in S : n <= m
<1> DEFINE R == OpToRel(<, Nat)
<1>1. IsWellFoundedOn(R, Nat)
  BY NatLessThanWellFounded
<1>2. PICK n \in S : \A m \in S : ~ (<<m, n>> \in R)
  <2> HIDE DEF R
  <2> QED BY <1>1, WFMin
<1>3. \A m \in S : ~ (m < n)
  BY <1>2 DEF OpToRel
<1> QED BY <1>3

LEMMA LeastFree ==
    /\ FreeRunners # {} => Least(FreeRunners) \in FreeRunners
    /\ FreeTasks # {} => Least(FreeTasks) \in FreeTasks
<1>1. ASSUME NEW S, S \subseteq Nat, S # {}
      PROVE  Least(S) \in S
  <2>1. \E n \in S : \A m \in S : n <= m
    BY <1>1, LeastNatural
  <2> QED BY <2>1 DEF Least
<1>2. FreeRunners \subseteq Nat /\ FreeTasks \subseteq Nat
  BY PoolAssumption DEF FreeRunners, FreeTasks
<1> QED BY <1>1, <1>2

LEMMA NewRunnerOk ==
    ASSUME MapInv, HeldInv, NEW i \in Ids, NEW row \in Rows,
           NEW r \in FreeRunners, NEW t \in FreeTasks, NewRunner(i, row, r, t)
    PROVE  /\ MapInv'
           /\ runner'[r].vault = i /\ runner'[r].status = row.status
           /\ \A s \in Runners : s # r => runner'[s] = runner[s]
           /\ \A d \in Clients : client[d].runner # r
           /\ \A j \in Ids : runners[j] # r /\ runners'[j] = IF j = i THEN r ELSE runners[j]
           /\ \A u \in Tasks : Running(u) => u # t /\ task[u].runner # r /\ task'[u] = task[u]
           /\ t \in Tasks /\ ~Running(t)
           /\ task'[t] = [runner |-> r, stage |-> "scanning", stop |-> FALSE]
           /\ \A u \in Tasks : u # t => task'[u] = task[u]
<1> DEFINE e == NewBootstrapping(i, row, t)
           v == [runner |-> r, stage |-> "scanning", stop |-> FALSE]
<1>1. /\ r \in Runners /\ t \in Tasks /\ ~Running(t)
      /\ \A j \in Ids : runners[j] # r
      /\ \A d \in Clients : client[d].runner # r
      /\ \A u \in Tasks : Running(u) => task[u].runner # r
  BY DEF FreeRunners, FreeTasks, Held
<1>2. /\ e \in RunnerValues /\ e # Absent /\ e.vault = i /\ e.status = row.status
      /\ e.boot = t /\ e.life = Absent
  <2>1. e \in RunnerValues
    BY <1>1 DEF NewBootstrapping, RunnerValues, Rows, Maybe
  <2> QED BY <2>1, AbsentAssumption DEF NewBootstrapping
<1>3. v \in TaskValues /\ v # Absent /\ v.runner = r
  <2>1. v \in TaskValues
    BY <1>1 DEF TaskValues
  <2> QED BY <2>1, AbsentAssumption
<1>4. /\ runner' = [runner EXCEPT ![r] = e] /\ task' = [task EXCEPT ![t] = v]
      /\ runners' = [runners EXCEPT ![i] = r]
  BY DEF NewRunner
<1> HIDE DEF e, v
<1>5. /\ runner' \in [Runners -> Maybe(RunnerValues)]
      /\ task' \in [Tasks -> Maybe(TaskValues)]
      /\ runners' \in [Ids -> Maybe(Runners)]
  BY <1>1, <1>2, <1>3, <1>4 DEF MapInv, Maybe
<1>6. /\ \A s \in Runners : runner'[s] = IF s = r THEN e ELSE runner[s]
      /\ \A u \in Tasks : task'[u] = IF u = t THEN v ELSE task[u]
      /\ \A j \in Ids : runners'[j] = IF j = i THEN r ELSE runners[j]
  BY <1>1, <1>4 DEF MapInv
<1>7. \A u \in Tasks : Running(u) => u # t /\ task'[u] = task[u]
  BY <1>1, <1>6
<1>8. \A j \in Mapped' : runner'[runners'[j]] # Absent /\ runner'[runners'[j]].vault = j
  <2> SUFFICES ASSUME NEW j \in Ids, runners'[j] # Absent
               PROVE  runner'[runners'[j]] # Absent /\ runner'[runners'[j]].vault = j
    BY DEF Mapped
  <2>1. CASE j = i
    BY <1>1, <1>2, <1>6, <2>1
  <2>2. CASE j # i
    <3>1. runners'[j] = runners[j] /\ j \in Mapped
      BY <1>6, <2>2 DEF Mapped
    <3>2. runners[j] \in Runners /\ runners[j] # r
      BY <1>1, <3>1 DEF MapInv, Mapped, Maybe
    <3> QED BY <1>6, <3>1, <3>2 DEF MapInv
  <2> QED BY <2>1, <2>2
<1>9. ASSUME NEW u \in Tasks, task'[u] # Absent
      PROVE  runner'[task'[u].runner] # Absent
  <2>1. CASE u = t
    BY <1>1, <1>2, <1>3, <1>6, <2>1
  <2>2. CASE u # t
    <3>1. Running(u) /\ task'[u] = task[u]
      BY <1>6, <1>9, <2>2 DEF Running
    <3>2. task[u].runner \in Runners /\ task[u].runner # r
      BY <1>1, <3>1, TaskValuesAre DEF Running
    <3> QED BY <1>6, <3>1, <3>2 DEF MapInv
  <2> QED BY <2>1, <2>2
<1>10. ASSUME NEW s \in Runners, runner'[s] # Absent
       PROVE  \A h \in {runner'[s].boot, runner'[s].life} : h # Absent =>
                 h \in Tasks /\ task'[h] # Absent /\ task'[h].runner = s
  <2>1. CASE s = r
    BY <1>1, <1>2, <1>3, <1>6, <2>1
  <2>2. CASE s # r
    <3>1. runner'[s] = runner[s]
      BY <1>6, <2>2
    <3>2. Refers(runner[s].boot, s) /\ Refers(runner[s].life, s)
      BY <1>10, <3>1 DEF MapInv
    <3> QED BY <1>7, <3>1, <3>2 DEF Refers, Running
  <2> QED BY <2>1, <2>2
<1>11. MapInv'
  BY <1>5, <1>8, <1>9, <1>10 DEF MapInv, Running, Refers
<1> QED BY <1>1, <1>2, <1>6, <1>7, <1>11 DEF v

LEMMA SpawnRunners ==
    ASSUME TypeInv, NEW c \in Clients, Spawn(c)
    PROVE  /\ MapInv' /\ ClientInv' /\ RefsStay
           /\ \A d \in Clients : client[d].runner # Absent =>
                 /\ runner'[client[d].runner] # Absent
                 /\ runner'[client[d].runner].vault = client[d].id
<1> DEFINE k == client[c]
           r == client[c].runner
<1>0. ClientInv /\ MapInv /\ HeldInv
  BY DEF TypeInv
<1>1. /\ At(c, "spawn") /\ FreeTasks # {} /\ Proceed(c, k)
  BY DEF Spawn
<1>2. PICK t : t = Least(FreeTasks)
  OBVIOUS
<1>3. t \in FreeTasks
  BY <1>1, <1>2, LeastFree
<1>4. t \in Tasks /\ ~Running(t)
  BY <1>3 DEF FreeTasks
<1>5. ClientInv' /\ RefsStay
  BY <1>0, <1>1, PlainProceed
<1>6. k.row \in Rows /\ k.id \in Ids
  BY <1>0, <1>1, AtIs, AtVault DEF Creates, TerminationStep, Operates
<1>7. ASSUME r # Absent,
             task' = [task EXCEPT ![t] = [runner |-> r, stage |-> "scanning",
                                          stop |-> FALSE]],
             runner' = [runner EXCEPT ![r] =
                          IF k.op = "resume" THEN [@ EXCEPT !.boot = t]
                          ELSE [@ EXCEPT !.boot = t, !.name = k.row.name,
                                         !.status = k.row.status]],
             UNCHANGED runners
      PROVE  MapInv' /\ RunnersStay
  <2> DEFINE e == IF k.op = "resume" THEN [runner[r] EXCEPT !.boot = t]
                  ELSE [runner[r] EXCEPT !.boot = t, !.name = k.row.name,
                                         !.status = k.row.status]
             v == [runner |-> r, stage |-> "scanning", stop |-> FALSE]
  <2>1. /\ r \in Runners /\ runner[r] # Absent
        /\ runner[r] \in RunnerValues
    BY <1>0, <1>7 DEF ClientInv, Requests, Maybe, HeldInv, MapInv
  <2>2. /\ e \in RunnerValues /\ e.vault = runner[r].vault /\ e.boot = t
        /\ e.life = runner[r].life
    BY <1>4, <1>6, <2>1 DEF RunnerValues, Rows, Maybe
  <2>3. v \in TaskValues /\ v.runner = r /\ v # Absent
    <3>1. v \in TaskValues
      BY <2>1 DEF TaskValues
    <3> QED BY <3>1, AbsentAssumption
  <2>4. runner' = [runner EXCEPT ![r] = e] /\ task' = [task EXCEPT ![t] = v]
    BY <1>7
  <2> HIDE DEF e, v
  <2>5. /\ runner' \in [Runners -> Maybe(RunnerValues)]
        /\ task' \in [Tasks -> Maybe(TaskValues)]
        /\ \A s \in Runners : runner'[s] = IF s = r THEN e ELSE runner[s]
        /\ \A u \in Tasks : task'[u] = IF u = t THEN v ELSE task[u]
    BY <1>0, <1>4, <2>1, <2>2, <2>3, <2>4 DEF MapInv, Maybe
  <2>6. e # Absent
    BY <2>2, AbsentAssumption
  <2>7. RunnersStay
    BY <2>2, <2>5, <2>6 DEF RunnersStay
  <2>8. \A j \in Mapped' : runner'[runners'[j]] # Absent /\ runner'[runners'[j]].vault = j
    BY <1>0, <1>7, <2>7 DEF MapInv, Mapped, Maybe, RunnersStay
  <2>9. ASSUME NEW u \in Tasks, task'[u] # Absent
        PROVE  runner'[task'[u].runner] # Absent
    <3>1. CASE u = t
      BY <2>3, <2>5, <2>6, <2>1, <3>1
    <3>2. CASE u # t
      <4>1. Running(u) /\ task'[u] = task[u]
        BY <2>5, <2>9, <3>2 DEF Running
      <4>2. task[u].runner \in Runners /\ runner[task[u].runner] # Absent
        BY <1>0, <4>1, TaskValuesAre DEF MapInv, Running
      <4> QED BY <2>7, <4>1, <4>2 DEF RunnersStay
    <3> QED BY <3>1, <3>2
  <2>10. ASSUME NEW s \in Runners, runner'[s] # Absent
         PROVE  \A h \in {runner'[s].boot, runner'[s].life} : h # Absent =>
                   h \in Tasks /\ task'[h] # Absent /\ task'[h].runner = s
    <3>1. runner[s] # Absent
      BY <2>1, <2>5, <2>10
    <3>2. Refers(runner[s].boot, s) /\ Refers(runner[s].life, s)
      BY <1>0, <3>1 DEF MapInv
    <3>3. \A h : Refers(h, s) /\ h # Absent => h \in Tasks /\ task'[h] # Absent /\ task'[h].runner = s
      BY <1>4, <2>5 DEF Refers, Running
    <3>4. CASE s = r
      BY <1>4, <2>1, <2>2, <2>3, <2>5, <3>2, <3>3, <3>4
    <3>5. CASE s # r
      BY <2>5, <3>2, <3>3, <3>5, SMTT(30)
    <3> QED BY <3>4, <3>5
  <2>11. MapInv'
    BY <1>0, <1>7, <2>5, <2>8, <2>9, <2>10 DEF MapInv, Running, Refers
  <2> QED BY <2>7, <2>11
<1>8. CASE /\ r # Absent
           /\ task' = [task EXCEPT ![t] = [runner |-> r, stage |-> "scanning",
                                          stop |-> FALSE]]
           /\ runner' = [runner EXCEPT ![r] =
                          IF k.op = "resume" THEN [@ EXCEPT !.boot = t]
                          ELSE [@ EXCEPT !.boot = t, !.name = k.row.name,
                                         !.status = k.row.status]]
           /\ UNCHANGED runners
  <2>1. MapInv' /\ RunnersStay
    BY <1>7, <1>8
  <2>2. \A d \in Clients : client[d].runner \in Maybe(Runners)
    BY <1>0 DEF ClientInv, Requests
  <2> QED BY <1>0, <1>5, <2>1, <2>2 DEF RunnersStay, HeldInv, Maybe
<1>9. CASE /\ r = Absent /\ FreeRunners # {}
           /\ NewRunner(k.id, k.row, Least(FreeRunners), t)
  <2>1. PICK s : s = Least(FreeRunners)
    OBVIOUS
  <2>2. s \in FreeRunners /\ NewRunner(k.id, k.row, s, t)
    BY <1>9, <2>1, LeastFree
  <2>3. /\ MapInv' /\ \A z \in Runners : z # s => runner'[z] = runner[z]
        /\ \A d \in Clients : client[d].runner # s
    <3>1. PICK i \in Ids, row \in Rows : i = k.id /\ row = k.row
      BY <1>6
    <3>2. NewRunner(i, row, s, t)
      BY <2>2, <3>1
    <3>3. MapInv'
      BY <1>0, <1>3, <2>2, <3>2, NewRunnerOk
    <3>4. \A z \in Runners : z # s => runner'[z] = runner[z]
      BY <1>0, <3>2 DEF NewRunner, MapInv
    <3>5. \A d \in Clients : client[d].runner # s
      BY <1>0, <1>3, <2>2, <3>2, NewRunnerOk
    <3> QED BY <3>3, <3>4, <3>5
  <2>4. \A d \in Clients : client[d].runner \in Maybe(Runners)
    BY <1>0 DEF ClientInv, Requests
  <2> QED BY <1>0, <1>5, <2>3, <2>4 DEF HeldInv, Maybe
<1> QED BY <1>2, <1>8, <1>9 DEF Spawn

LEMMA SpawnType ==
    ASSUME TypeInv, NEW c \in Clients, Spawn(c)
    PROVE  TypeInv'
<1>1. /\ UNCHANGED <<registry, used, dirs, accessible, daemon, count>> /\ At(c, "spawn")
  BY DEF Spawn, table, disk
<1>2. MapInv' /\ ClientInv'
  BY SpawnRunners
<1>3. HeldInv'
  BY SpawnRunners DEF HeldInv, RefsStay
<1>4. TableInv' /\ DaemonInv' /\ CountInv'
  BY <1>1, TableFrame, ServingFrame DEF TypeInv, At, CountInv
<1> QED BY <1>2, <1>3, <1>4 DEF TypeInv

-----------------------------------------------------------------------------
(* Type correctness: start-up, the tasks, and the rest of the world.       *)

LEMMA ClientFrame ==
    ASSUME ClientInv, UNCHANGED client
    PROVE  ClientInv' /\ RefsStay
<1> QED BY DEF ClientInv, RefsStay

LEMMA ReconcileType ==
    ASSUME TypeInv, ReconcileRows \/ ReconcileDirs \/ Serve
    PROVE  TypeInv'
<1>1. UNCHANGED <<used, accessible, runners, runner, task, client, count>>
  BY DEF ReconcileRows, ReconcileDirs, Serve, table, disk, memory
<1>2. MapInv' /\ RunnersStay /\ ClientInv' /\ RefsStay
  BY <1>1, MapFrame, ClientFrame DEF TypeInv
<1>3. HeldInv'
  BY <1>2, HeldStays DEF TypeInv
<1>4. CountInv'
  BY <1>1 DEF TypeInv, CountInv
<1>5. DaemonInv'
  BY <1>1 DEF TypeInv, DaemonInv, ReconcileRows, ReconcileDirs, Serve, Mapped
<1>6. CASE ReconcileRows
  <2> DEFINE new == [i \in Ids |->
                       IF i \in Registered /\ registry[i].status = "active"
                                           /\ registry[i].path \notin accessible
                       THEN [registry[i] EXCEPT !.status = "errored"]
                       ELSE registry[i]]
  <2>1. ASSUME NEW i \in Ids
        PROVE  new[i] \in Maybe(Rows) /\ (new[i] # Absent => i \in Registered)
    BY <2>1 DEF TypeInv, TableInv, Maybe, Rows, Statuses, Registered
  <2>2. registry' = new
    BY <1>6 DEF ReconcileRows
  <2>3. registry' \in [Ids -> Maybe(Rows)] /\ Registered' \subseteq Registered
    BY <2>1, <2>2 DEF Registered
  <2>4. dirs' \subseteq Ids
    BY <1>6 DEF ReconcileRows, TypeInv, TableInv, Registered
  <2>5. TableInv'
    BY <1>1, <2>3, <2>4 DEF TypeInv, TableInv
  <2> QED BY <1>2, <1>3, <1>4, <1>5, <2>5 DEF TypeInv
<1>7. CASE ReconcileDirs \/ Serve
  <2>1. TableInv'
    BY <1>1, <1>7 DEF ReconcileDirs, Serve, TypeInv, TableInv, table, disk, Registered
  <2> QED BY <1>2, <1>3, <1>4, <1>5, <2>1 DEF TypeInv
<1> QED BY <1>6, <1>7

LEMMA StartVaultType ==
    ASSUME TypeInv, NEW i \in Ids, StartVault(i)
    PROVE  TypeInv'
<1>1. /\ UNCHANGED <<registry, used, dirs, accessible, daemon, client, count>>
      /\ daemon = "dirs" /\ i \in Registered
  BY DEF StartVault, table, disk, Active
<1>2. PICK row \in Rows : row = registry[i]
  BY <1>1 DEF TypeInv, TableInv, Registered, Maybe
<1>3. PICK r \in FreeRunners, t \in FreeTasks :
         r = Least(FreeRunners) /\ t = Least(FreeTasks)
  BY LeastFree DEF StartVault
<1>4. NewRunner(i, row, r, t)
  BY <1>2, <1>3 DEF StartVault
<1>5. MapInv'
  BY <1>4, NewRunnerOk DEF TypeInv
<1>6. \A c \in Clients : client'[c].runner = Absent
  BY <1>1 DEF TypeInv, DaemonInv, Idle
<1>7. HeldInv'
  BY <1>6 DEF HeldInv
<1>8. ClientInv' /\ TableInv' /\ CountInv'
  BY <1>1, ClientFrame, TableFrame DEF TypeInv, CountInv
<1>9. DaemonInv'
  BY <1>1 DEF TypeInv, DaemonInv
<1> QED BY <1>5, <1>7, <1>8, <1>9 DEF TypeInv

\* A task ends, and its handles with it.
LEMMA ForgetOk ==
    ASSUME MapInv, NEW t \in Tasks, Running(t),
           task' = [task EXCEPT ![t] = Absent], runner' = Forget(t),
           UNCHANGED runners
    PROVE  /\ MapInv' /\ RunnersStay
           /\ \A u \in Tasks : task'[u] = IF u = t THEN Absent ELSE task[u]
           /\ \A s \in Runners : runner[s] # Absent =>
                 /\ runner'[s].status = runner[s].status
                 /\ runner'[s].name = runner[s].name
                 /\ runner'[s].boot = IF runner[s].boot = t THEN Absent ELSE runner[s].boot
                 /\ runner'[s].life = IF runner[s].life = t THEN Absent ELSE runner[s].life
<1> DEFINE r == task[t].runner
           e == [runner[r] EXCEPT !.boot = IF @ = t THEN Absent ELSE @,
                                  !.life = IF @ = t THEN Absent ELSE @]
<1>1. r \in Runners /\ runner[r] # Absent /\ task[t] # Absent
  BY TaskValuesAre DEF Running, MapInv
<1>2. runner[r] \in RunnerValues
  BY <1>1 DEF MapInv, Maybe
<1>3. /\ e \in RunnerValues /\ e.vault = runner[r].vault
      /\ e.status = runner[r].status /\ e.name = runner[r].name
      /\ e.boot = (IF runner[r].boot = t THEN Absent ELSE runner[r].boot)
      /\ e.life = (IF runner[r].life = t THEN Absent ELSE runner[r].life)
  BY <1>2 DEF RunnerValues, Maybe
<1>4. e # Absent
  BY <1>3, AbsentAssumption
<1>5. runner' = [runner EXCEPT ![r] = e]
  BY <1>1 DEF Forget, MapInv
<1>6. t # Absent
  BY MarkAssumption
<1> HIDE DEF e
<1>7. /\ runner' \in [Runners -> Maybe(RunnerValues)]
      /\ task' \in [Tasks -> Maybe(TaskValues)]
      /\ \A s \in Runners : runner'[s] = IF s = r THEN e ELSE runner[s]
      /\ \A u \in Tasks : task'[u] = IF u = t THEN Absent ELSE task[u]
  BY <1>1, <1>3, <1>5 DEF MapInv, Maybe
<1>8. RunnersStay
  BY <1>3, <1>4, <1>7 DEF RunnersStay
<1>9. ASSUME NEW s \in Runners, runner[s] # Absent
      PROVE  /\ runner'[s].status = runner[s].status
             /\ runner'[s].name = runner[s].name
             /\ runner'[s].boot = IF runner[s].boot = t THEN Absent ELSE runner[s].boot
             /\ runner'[s].life = IF runner[s].life = t THEN Absent ELSE runner[s].life
  <2>1. CASE s = r
    BY <1>3, <1>7, <2>1
  <2>2. CASE s # r
    <3>1. Refers(runner[s].boot, s) /\ Refers(runner[s].life, s)
      BY <1>9 DEF MapInv
    <3>2. runner[s].boot # t /\ runner[s].life # t
      BY <1>6, <2>2, <3>1 DEF Refers
    <3> QED BY <1>7, <2>2, <3>2
  <2> QED BY <2>1, <2>2
<1>10. \A j \in Mapped' : runner'[runners'[j]] # Absent /\ runner'[runners'[j]].vault = j
  BY <1>8 DEF MapInv, Mapped, Maybe, RunnersStay
<1>11. ASSUME NEW u \in Tasks, task'[u] # Absent
       PROVE  runner'[task'[u].runner] # Absent
  <2>1. task'[u] = task[u] /\ task[u] # Absent
    BY <1>7, <1>11
  <2>2. task[u].runner \in Runners /\ runner[task[u].runner] # Absent
    BY <2>1, TaskValuesAre DEF MapInv
  <2> QED BY <1>8, <2>1, <2>2 DEF RunnersStay
<1>12. ASSUME NEW s \in Runners, runner'[s] # Absent
       PROVE  \A h \in {runner'[s].boot, runner'[s].life} : h # Absent =>
                 h \in Tasks /\ task'[h] # Absent /\ task'[h].runner = s
  <2>1. runner[s] # Absent
    BY <1>1, <1>7, <1>12
  <2>2. Refers(runner[s].boot, s) /\ Refers(runner[s].life, s)
    BY <2>1 DEF MapInv
  <2>3. \A h : Refers(h, s) /\ h # Absent /\ h # t =>
                  h \in Tasks /\ task'[h] # Absent /\ task'[h].runner = s
    BY <1>7 DEF Refers, Running
  <2> QED BY <1>9, <2>1, <2>2, <2>3
<1>13. MapInv'
  BY <1>7, <1>10, <1>11, <1>12 DEF MapInv, Running, Refers
<1> QED BY <1>7, <1>8, <1>9, <1>13

\* The task that the bootstrap replaces is told to stop.
LEMMA InstallOk ==
    ASSUME MapInv, NEW t \in Tasks, Install(t)
    PROVE  /\ MapInv' /\ RunnersStay
           /\ \A u \in Tasks : /\ task'[u] # Absent <=> task[u] # Absent
                               /\ task[u] # Absent => task'[u].runner = task[u].runner
                               /\ u # t => task'[u].stage = task[u].stage
           /\ Scanning(t) /\ task'[t].stage = "live"
           /\ \A s \in Runners : runner[s] # Absent =>
                 /\ runner'[s].status = runner[s].status
                 /\ runner'[s].name = runner[s].name
                 /\ runner'[s].boot = runner[s].boot
                 /\ runner'[s].life = IF s = task[t].runner THEN t ELSE runner[s].life
<1> DEFINE r == task[t].runner
           old == runner[r].life
           e == [runner[r] EXCEPT !.life = t]
           v == [task[t] EXCEPT !.stage = "live"]
<1>1. Scanning(t) /\ r \in Runners /\ runner[r] # Absent /\ task[t] # Absent
  BY TaskValuesAre DEF Install, Scanning, Running, MapInv
<1>2. runner[r] \in RunnerValues /\ task[t] \in TaskValues
  BY <1>1 DEF MapInv, Maybe
<1>3. /\ e \in RunnerValues /\ e.vault = runner[r].vault /\ e.life = t
      /\ e.status = runner[r].status /\ e.name = runner[r].name
      /\ e.boot = runner[r].boot
  BY <1>2 DEF RunnerValues, Maybe
<1>4. v \in TaskValues /\ v.runner = r /\ v.stage = "live" /\ v # Absent
  <2>1. v \in TaskValues /\ v.runner = r /\ v.stage = "live"
    BY <1>2 DEF TaskValues
  <2> QED BY <2>1, AbsentAssumption
<1>5. old # Absent => old \in Tasks /\ task[old] # Absent
  BY <1>1 DEF MapInv, Refers, Running
<1>6. \A u \in Tasks : u = old => /\ task[u] \in TaskValues /\ task[u] # Absent
                                  /\ [task[u] EXCEPT !.stop = TRUE] \in TaskValues
                                  /\ [task[u] EXCEPT !.stop = TRUE] # Absent
                                  /\ [task[u] EXCEPT !.stop = TRUE].runner = task[u].runner
                                  /\ [task[u] EXCEPT !.stop = TRUE].stage = task[u].stage
  <2> SUFFICES ASSUME NEW u \in Tasks, u = old
               PROVE  /\ task[u] \in TaskValues /\ task[u] # Absent
                      /\ [task[u] EXCEPT !.stop = TRUE] \in TaskValues
                      /\ [task[u] EXCEPT !.stop = TRUE] # Absent
                      /\ [task[u] EXCEPT !.stop = TRUE].runner = task[u].runner
                      /\ [task[u] EXCEPT !.stop = TRUE].stage = task[u].stage
    OBVIOUS
  <2>1. task[u] \in TaskValues
    BY <1>5, MarkAssumption, TaskValuesAre
  <2>2. /\ [task[u] EXCEPT !.stop = TRUE] \in TaskValues
        /\ [task[u] EXCEPT !.stop = TRUE].runner = task[u].runner
        /\ [task[u] EXCEPT !.stop = TRUE].stage = task[u].stage
    BY <2>1 DEF TaskValues
  <2>3. task[u] # Absent
    BY <1>5, MarkAssumption
  <2> QED BY <2>1, <2>2, <2>3, AbsentAssumption
<1>7. /\ task' = [u \in Tasks |-> IF u = t THEN v
                                  ELSE IF u = old THEN [task[u] EXCEPT !.stop = TRUE]
                                  ELSE task[u]]
      /\ runner' = [runner EXCEPT ![r] = e]
      /\ UNCHANGED runners
  BY DEF Install
<1> HIDE DEF e, v
<1>8. \A u \in Tasks : task[u] \in Maybe(TaskValues)
  BY DEF MapInv
<1>9. TasksStay
  <2>1. \A u \in Tasks : task'[u] \in Maybe(TaskValues)
    BY <1>4, <1>6, <1>7, <1>8 DEF Maybe
  <2>2. task' \in [Tasks -> Maybe(TaskValues)]
    BY <1>7, <2>1
  <2>3. \A u \in Tasks : /\ task'[u] # Absent <=> task[u] # Absent
                         /\ task[u] # Absent => task'[u].runner = task[u].runner
    BY <1>1, <1>4, <1>6, <1>7
  <2> QED BY <2>2, <2>3 DEF TasksStay
<1>10. Refers(e.life, r) /\ e.life \in Tasks
  BY <1>1, <1>3 DEF Refers, Running
<1>11. MapInv' /\ RunnersStay
  BY <1>1, <1>3, <1>7, <1>9, <1>10, RunnerSet
<1>12. \A u \in Tasks : u # t => task'[u].stage = task[u].stage
  BY <1>6, <1>7
<1>13. task'[t].stage = "live"
  BY <1>4, <1>7
<1>14. \A s \in Runners : runner'[s] = IF s = r THEN e ELSE runner[s]
  BY <1>7 DEF MapInv
<1>15. \A s \in Runners : runner[s] # Absent =>
                 /\ runner'[s].status = runner[s].status
                 /\ runner'[s].name = runner[s].name
                 /\ runner'[s].boot = runner[s].boot
                 /\ runner'[s].life = IF s = r THEN t ELSE runner[s].life
  BY <1>3, <1>14
<1> QED BY <1>1, <1>9, <1>11, <1>12, <1>13, <1>15 DEF TasksStay

LEMMA TaskType ==
    ASSUME TypeInv, NEW t \in Tasks,
           Install(t) \/ TaskStops(t) \/ ScanFails(t) \/ Reap(t)
    PROVE  TypeInv'
<1>1. /\ UNCHANGED <<registry, used, dirs, accessible, daemon, runners, client>>
  BY DEF Install, TaskStops, ScanFails, Reap, table, disk
<1>2. MapInv' /\ RunnersStay
  <2>1. CASE Install(t)
    BY <2>1, InstallOk DEF TypeInv
  <2>2. CASE TaskStops(t) \/ ScanFails(t) \/ Reap(t)
    <3>1. /\ Running(t) /\ task' = [task EXCEPT ![t] = Absent]
          /\ runner' = Forget(t) /\ UNCHANGED runners
      BY <2>2 DEF TaskStops, ScanFails, Reap, Leaked, Scanning
    <3> QED BY <3>1, ForgetOk DEF TypeInv
  <2> QED BY <2>1, <2>2
<1>3. ClientInv' /\ RefsStay /\ TableInv'
  BY <1>1, ClientFrame, TableFrame DEF TypeInv
<1>4. HeldInv'
  BY <1>2, <1>3, HeldStays DEF TypeInv
<1>5. DaemonInv'
  BY <1>1 DEF TypeInv, DaemonInv, Mapped
<1>6. CountInv'
  <2>1. UNCHANGED count \/ (/\ count.faults < MaxFaults
                            /\ count' = [count EXCEPT !.faults = @ + 1])
    BY DEF Install, TaskStops, ScanFails, Reap
  <2> QED BY <2>1, CountFault DEF TypeInv, CountInv
<1> QED BY <1>2, <1>3, <1>4, <1>5, <1>6 DEF TypeInv

LEMMA CrashType ==
    ASSUME TypeInv, Crash
    PROVE  TypeInv'
<1>1. /\ UNCHANGED <<registry, used, dirs, accessible>> /\ daemon' = "down"
      /\ runners' = [i \in Ids |-> Absent] /\ runner' = [r \in Runners |-> Absent]
      /\ task' = [t \in Tasks |-> Absent] /\ client' = [c \in Clients |-> Idle]
  BY DEF Crash, table, disk
<1>2. TableInv'
  BY <1>1, TableFrame DEF TypeInv
<1>3. MapInv'
  BY <1>1 DEF MapInv, Mapped, Running, Maybe
<1>4. ClientInv' /\ \A c \in Clients : client'[c] = Idle
  BY <1>1, IdleOk DEF ClientInv
<1>5. HeldInv'
  BY <1>4 DEF HeldInv, Idle
<1>6. DaemonInv'
  BY <1>1, <1>4 DEF DaemonInv, Mapped
<1>7. CountInv'
  BY CountFault DEF TypeInv, Crash
<1> QED BY <1>2, <1>3, <1>4, <1>5, <1>6, <1>7 DEF TypeInv

LEMMA MoveType ==
    ASSUME TypeInv, NEW p \in Paths, MovePath(p)
    PROVE  TypeInv'
<1>1. UNCHANGED <<registry, used, dirs, daemon, runners, runner, task, client>>
  BY DEF MovePath, table, memory
<1>2. TableInv'
  BY <1>1 DEF MovePath, TypeInv, TableInv, Registered
<1>3. MapInv' /\ RunnersStay /\ ClientInv' /\ RefsStay
  BY <1>1, MapFrame, ClientFrame DEF TypeInv
<1>4. HeldInv'
  BY <1>3, HeldStays DEF TypeInv
<1>5. DaemonInv'
  BY <1>1 DEF TypeInv, DaemonInv, Mapped
<1>6. CountInv'
  BY CountFault DEF TypeInv, MovePath
<1> QED BY <1>2, <1>3, <1>4, <1>5, <1>6 DEF TypeInv

LEMMA OrphansType ==
    ASSUME TypeInv, OrphansStay
    PROVE  TypeInv'
<1>1. UNCHANGED <<registry, used, accessible, runners, runner, task, client>>
  BY DEF OrphansStay, table, memory
<1>2. TableInv'
  BY <1>1 DEF OrphansStay, TypeInv, TableInv, Registered
<1>3. MapInv' /\ RunnersStay /\ ClientInv' /\ RefsStay
  BY <1>1, MapFrame, ClientFrame DEF TypeInv
<1>4. HeldInv'
  BY <1>3, HeldStays DEF TypeInv
<1>5. DaemonInv'
  BY <1>1 DEF OrphansStay, TypeInv, DaemonInv, Mapped
<1>6. CountInv'
  BY CountFault DEF TypeInv, OrphansStay
<1> QED BY <1>2, <1>3, <1>4, <1>5, <1>6 DEF TypeInv

LEMMA StutterType ==
    ASSUME TypeInv, UNCHANGED vars
    PROVE  TypeInv'
<1>1. UNCHANGED <<registry, used, dirs, accessible, daemon, runners, runner, task,
                  client, count>>
  BY DEF vars, table, disk, memory
<1>2. MapInv' /\ RunnersStay /\ ClientInv' /\ RefsStay /\ TableInv'
  BY <1>1, MapFrame, ClientFrame, TableFrame DEF TypeInv
<1>3. HeldInv'
  BY <1>2, HeldStays DEF TypeInv
<1>4. DaemonInv' /\ CountInv'
  BY <1>1 DEF TypeInv, DaemonInv, CountInv, Mapped
<1> QED BY <1>2, <1>3, <1>4 DEF TypeInv

LEMMA TypeInit ==
    ASSUME Init
    PROVE  TypeInv
<1>1. TableInv
  <2>1. PICK R \in SUBSET Ids :
          \E f \in [R -> [name : Names, path : Paths, status : {"active", "paused"}]] :
              registry = [i \in Ids |-> IF i \in R THEN f[i] ELSE Absent]
    BY DEF Init
  <2>2. PICK f \in [R -> [name : Names, path : Paths, status : {"active", "paused"}]] :
              registry = [i \in Ids |-> IF i \in R THEN f[i] ELSE Absent]
    BY <2>1
  <2>3. \A i \in R : f[i] \in Rows
    BY <2>2 DEF Rows, Statuses
  <2>4. registry \in [Ids -> Maybe(Rows)]
    BY <2>2, <2>3 DEF Maybe
  <2> QED BY <2>4 DEF Init, TableInv, Registered
<1>2. MapInv
  BY DEF Init, MapInv, Mapped, Running, Maybe
<1>3. ClientInv /\ \A c \in Clients : client[c] = Idle
  BY IdleOk DEF Init, ClientInv
<1>4. HeldInv
  BY <1>3 DEF HeldInv, Idle
<1>5. DaemonInv
  BY <1>3 DEF Init, DaemonInv, Mapped
<1>6. CountInv
  BY BoundAssumption DEF Init, CountInv, Bounds
<1> QED BY <1>1, <1>2, <1>3, <1>4, <1>5, <1>6 DEF TypeInv

LEMMA TypeNext ==
    ASSUME TypeInv, [Next]_vars
    PROVE  TypeInv'
<1>1. CASE StartUp
  BY <1>1, ReconcileType, StartVaultType DEF StartUp
<1>2. CASE Crash
  BY <1>2, CrashType
<1>3. ASSUME NEW c \in Clients, Request(c)
      PROVE  TypeInv'
  BY <1>3, RequestType
<1>4. ASSUME NEW c \in Clients, Lock(c) \/ Handle(c)
      PROVE  TypeInv'
  BY <1>4, QuietType, ShutdownType, PublishType, UnmapType, InsertType, SpawnType
     DEF Handle, QuietStep
<1>5. ASSUME NEW c \in Clients, StepFails(c) \/ Disconnect(c)
      PROVE  TypeInv'
  BY <1>5, CutOffType
<1>6. ASSUME NEW t \in Tasks, Install(t) \/ TaskStops(t) \/ ScanFails(t) \/ Reap(t)
      PROVE  TypeInv'
  BY <1>6, TaskType
<1>7. ASSUME NEW p \in Paths, MovePath(p)
      PROVE  TypeInv'
  BY <1>7, MoveType
<1>8. CASE UNCHANGED vars
  BY <1>8, StutterType
<1>9. CASE OrphansStay
  BY <1>9, OrphansType
<1> QED BY <1>1, <1>2, <1>3, <1>4, <1>5, <1>6, <1>7, <1>8, <1>9 DEF Next

LEMMA TypeAlways == Spec => []TypeInv
<1> QED BY TypeInit, TypeNext, PTL DEF Spec

\* Whatever clients, faults and crashes do, rows satisfy the schema's CHECK, runners
\* and tasks refer to each other, and a handler that holds a lock holds a runner.
THEOREM TypeCorrect == Spec => []TypeOK
<1>1. TypeInv => TypeOK
  <2> SUFFICES ASSUME TypeInv
               PROVE  TypeOK
    OBVIOUS
  <2>1. ASSUME NEW c \in Clients, client[c].locked
        PROVE  client[c].runner # Absent
    <3>1. ClientOk(client[c]) /\ client[c] # Idle
      BY <2>1 DEF TypeInv, ClientInv, Idle
    <3> QED BY <2>1, <3>1 DEF ClientOk, Creates, Terminates, Operates
  <2> QED BY <2>1 DEF TypeInv, TypeOK, TableInv, MapInv, ClientInv, DaemonInv, CountInv
<1> QED BY <1>1, TypeAlways, PTL

-----------------------------------------------------------------------------
(* What a step does to the handler that takes it and to the registry.      *)

LEMMA AdvanceFields ==
    ASSUME NEW k, ClientOk(k), k.plan # <<>>,
           NEW n \in Requests, n.plan = k.plan, NEW m, m = Advance(n)
    PROVE  \/ m = Idle
           \/ /\ Tail(k.plan) # <<>> /\ m.plan = Tail(k.plan) /\ m.op = n.op
              /\ m.id = n.id /\ m.row = n.row /\ m.runner = n.runner
              /\ m.locked = n.locked /\ m.wait = n.wait /\ m.arg = n.arg
<1> DEFINE q == Tail(k.plan)
<1>1. q \in Seq(Steps)
  BY TailIsPlan
<1>2. m = Idle \/ (q # <<>> /\ m = [n EXCEPT !.plan = q])
  BY AdvanceIs
<1> HIDE DEF q
<1>3. CASE q # <<>> /\ m = [n EXCEPT !.plan = q]
  <2>1. /\ m.plan = q /\ m.op = n.op /\ m.id = n.id /\ m.row = n.row
        /\ m.runner = n.runner /\ m.locked = n.locked /\ m.wait = n.wait
        /\ m.arg = n.arg
    BY <1>1, <1>3, WithPlan
  <2> QED BY <1>3, <2>1 DEF q
<1> QED BY <1>2, <1>3

\* The handler of `c` has gone on, from what `k` to what `m` remembers.
Onward(c, k, m) ==
    /\ m.plan # <<>> /\ m.op = k.op
    /\ \/ m.plan = Tail(k.plan)
       \/ /\ Head(k.plan) = "unmap" /\ runners[k.id] = Absent
          /\ Head(m.plan) = "delete"
    /\ Head(k.plan) # "insert" => m.id = k.id
    /\ Head(k.plan) = "insert" => m.id \in Ids \ used
    /\ m.runner = IF Head(k.plan) = "unmap" THEN runners[k.id] ELSE k.runner
    /\ m.row = IF Head(k.plan) = "reread" THEN registry[k.id] ELSE k.row
    /\ m.arg = k.arg
    /\ m.locked <=> k.locked \/ Head(k.plan) = "lock"
    /\ Head(k.plan) = "boot" => m.wait = runner[k.runner].boot
    /\ Head(k.plan) = "join" => m.wait = runner[k.runner].life

LEMMA Onwards ==
    ASSUME TypeInv, NEW c \in Clients, NEW s, At(c, s), s # "unmap",
           NEW n \in Requests, n.plan = client[c].plan, n.op = client[c].op,
           n.runner = client[c].runner, Proceed(c, n),
           s # "insert" => n.id = client[c].id,
           s = "insert" => n.id \in Ids \ used,
           n.row = IF s = "reread" THEN registry[client[c].id] ELSE client[c].row,
           n.arg = client[c].arg,
           n.locked <=> client[c].locked \/ s = "lock",
           s = "boot" => n.wait = runner[client[c].runner].boot,
           s = "join" => n.wait = runner[client[c].runner].life
    PROVE  \/ client'[c] = Idle
           \/ Onward(c, client[c], client'[c])
<1>1. ClientInv /\ ClientOk(client[c]) /\ client[c].plan # <<>> /\ Head(client[c].plan) = s
  BY AtIs DEF TypeInv
<1>2. PICK k : k = client[c]
  OBVIOUS
<1>3. PICK m : m = client'[c]
  OBVIOUS
<1>4. m = Advance(n)
  BY <1>1, <1>3, ProceedIs
<1>5. \/ m = Idle
      \/ /\ Tail(k.plan) # <<>> /\ m.plan = Tail(k.plan) /\ m.op = n.op
         /\ m.id = n.id /\ m.row = n.row /\ m.runner = n.runner
         /\ m.locked = n.locked /\ m.wait = n.wait /\ m.arg = n.arg
  BY <1>1, <1>2, <1>4, AdvanceFields
<1> QED BY <1>1, <1>2, <1>3, <1>5 DEF Onward

LEMMA PlainOnwards ==
    ASSUME TypeInv, NEW c \in Clients, NEW s, At(c, s), Proceed(c, client[c]),
           s \notin {"unmap", "insert", "reread", "lock", "boot", "join"}
    PROVE  \/ client'[c] = Idle
           \/ Onward(c, client[c], client'[c])
<1>1. client[c] \in Requests
  BY AtIs DEF TypeInv
<1> QED BY <1>1, Onwards

\* The handlers' steps: their own client moves, the others' stay.
LEMMA HandlerStep ==
    ASSUME TypeInv, NEW c \in Clients, Lock(c) \/ Handle(c)
    PROVE  /\ daemon = "serving" /\ client[c].plan # <<>>
           /\ UNCHANGED <<daemon, accessible, count>>
           /\ \A d \in Clients : d # c => client'[d] = client[d]
           /\ client'[c] = Idle \/ Onward(c, client[c], client'[c])
<1>0. ClientInv
  BY SMTT(30) DEF TypeInv
<1>1. UNCHANGED <<daemon, accessible, count>>
  BY SMTT(30) DEF Lock, Handle, Unmap, TakeBootstrap, JoinBootstrap, DrainConsumer, SignalRescan,
         RebuildIndex, UpdateStatus, Reread, OpenStore, Spawn, Publish, CheckFree, Insert,
         CreateSubdir, UpdateName, WriteMeta, DeleteRow, RemoveDir, disk
<1>2. \E s : At(c, s)
  BY DEF Lock, Handle, Unmap, TakeBootstrap, JoinBootstrap, DrainConsumer, SignalRescan,
         RebuildIndex, UpdateStatus, Reread, OpenStore, Spawn, Publish, CheckFree, Insert,
         CreateSubdir, UpdateName, WriteMeta, DeleteRow, RemoveDir
<1>3. daemon = "serving" /\ client[c].plan # <<>> /\ client[c] \in Requests
  BY <1>0, <1>2, AtIs
<1>4. \A n : Return(c) \/ Proceed(c, n) => \A d \in Clients : d # c => client'[d] = client[d]
  BY <1>0, ProceedIs, ReturnIs
<1>5. Return(c) => client'[c] = Idle
  BY <1>0, ReturnIs
<1>6. CASE Lock(c)
  <2> DEFINE n == [client[c] EXCEPT !.locked = TRUE]
  <2>1. At(c, "lock") /\ (Return(c) \/ Proceed(c, n))
    BY <1>6 DEF Lock
  <2>2. /\ n \in Requests /\ n.plan = client[c].plan /\ n.op = client[c].op
        /\ n.id = client[c].id /\ n.row = client[c].row
        /\ n.arg = client[c].arg /\ n.runner = client[c].runner /\ n.locked
    BY <1>3 DEF Requests
  <2> HIDE DEF n
  <2>3. Proceed(c, n) => client'[c] = Idle \/ Onward(c, client[c], client'[c])
    BY <2>1, <2>2, Onwards
  <2> QED BY <1>1, <1>3, <1>4, <1>5, <2>1, <2>3
<1>7. CASE Unmap(c)
  <2>1. PICK r, p : /\ r = runners[client[c].id]
                    /\ p = IF r = Absent THEN <<"unmap", "delete", "rmdir">>
                           ELSE client[c].plan
    OBVIOUS
  <2> DEFINE n == [client[c] EXCEPT !.runner = r, !.plan = p]
  <2>2. At(c, "unmap") /\ Proceed(c, n)
    BY <1>7, <2>1 DEF Unmap
  <2>3. /\ Head(client[c].plan) = "unmap" /\ ClientOk(client[c])
        /\ Terminates(client[c]) /\ TerminationStep(client[c].plan)
    BY <1>0, <2>2, AtIs DEF CreationStep, OperationStep
  <2>4. /\ p \in Seq(Steps) /\ Tail(p) # <<>> /\ Tail(p) \in Seq(Steps)
        /\ p = client[c].plan \/ (r = Absent /\ Head(Tail(p)) = "delete")
    <3>1. CASE r = Absent
      BY <2>1, <3>1, ShortTermination, TerminationStepOk
    <3>2. CASE r # Absent
      BY <2>1, <2>3, <3>2, TerminationStepOk DEF TerminationStep, Then, Terminates
    <3> QED BY <3>1, <3>2
  <2>5. r \in Maybe(Runners) /\ client[c].id \in Ids
    BY <2>1, <2>3 DEF TypeInv, MapInv, Terminates
  <2>6. /\ n \in Requests /\ n.plan = p /\ n.op = client[c].op
        /\ n.id = client[c].id /\ n.row = client[c].row
        /\ n.arg = client[c].arg /\ n.runner = r /\ n.locked = client[c].locked
    BY <1>3, <2>4, <2>5 DEF Requests
  <2> HIDE DEF n
  <2>7. PICK q : q = Tail(p)
    OBVIOUS
  <2>8. client'[c] = Advance(n)
    BY <1>0, <2>2, ProceedIs
  <2>9. Advance(n) = [n EXCEPT !.plan = q]
    BY <2>4, <2>6, <2>7, AdvanceIs
  <2>10. PICK m : m = client'[c]
    OBVIOUS
  <2>11. /\ m.plan = q /\ m.op = n.op /\ m.id = n.id /\ m.row = n.row
         /\ m.runner = n.runner /\ m.locked = n.locked /\ m.arg = n.arg
    <3>1. m = [n EXCEPT !.plan = q] /\ q \in Seq(Steps) /\ n \in Requests
      BY <2>4, <2>6, <2>7, <2>8, <2>9, <2>10
    <3> QED BY <3>1, WithPlan
  <2>12. Onward(c, client[c], m)
    BY <2>1, <2>3, <2>4, <2>6, <2>7, <2>11 DEF Onward
  <2> QED BY <1>1, <1>3, <1>4, <2>2, <2>10, <2>12
<1>8. CASE Reread(c)
  <2> DEFINE n == [client[c] EXCEPT !.row = registry[client[c].id]]
  <2>1. At(c, "reread") /\ (Return(c) \/ (client[c].id \in Registered /\ Proceed(c, n)))
    BY <1>8 DEF Reread
  <2>2. client[c].id \in Registered => registry[client[c].id] \in Rows
    BY DEF TypeInv, TableInv, Registered, Maybe
  <2>3. client[c].id \in Registered =>
          /\ n \in Requests /\ n.plan = client[c].plan /\ n.op = client[c].op
          /\ n.id = client[c].id /\ n.row = registry[client[c].id]
          /\ n.arg = client[c].arg /\ n.runner = client[c].runner /\ n.locked = client[c].locked
    BY <1>3, <2>2 DEF Requests, Maybe
  <2> HIDE DEF n
  <2>4. CASE Proceed(c, n) /\ client[c].id \in Registered
    <3>1. client'[c] = Idle \/ Onward(c, client[c], client'[c])
      BY <2>1, <2>3, <2>4, Onwards
    <3> QED BY <1>1, <1>3, <1>4, <2>4, <3>1
  <2> QED BY <1>1, <1>3, <1>4, <1>5, <2>1, <2>4
<1>9. CASE Insert(c)
  <2>1. /\ At(c, "insert")
        /\ Return(c) \/ \E i \in Ids \ used : Proceed(c, [client[c] EXCEPT !.id = i])
    BY <1>9 DEF Insert
  <2>2. ASSUME NEW i \in Ids \ used, Proceed(c, [client[c] EXCEPT !.id = i])
        PROVE  client'[c] = Idle \/ Onward(c, client[c], client'[c])
    <3> DEFINE n == [client[c] EXCEPT !.id = i]
    <3>1. /\ n \in Requests /\ n.plan = client[c].plan /\ n.op = client[c].op
          /\ n.id = i /\ n.row = client[c].row
          /\ n.arg = client[c].arg /\ n.runner = client[c].runner /\ n.locked = client[c].locked
      BY <1>3 DEF Requests, Maybe
    <3>2. Proceed(c, n)
      BY <2>2
    <3> HIDE DEF n
    <3> QED BY <2>1, <3>1, <3>2, Onwards
  <2> QED BY <1>1, <1>3, <1>4, <1>5, <2>1, <2>2
<1>10. CASE DrainConsumer(c)
  <2> DEFINE n == [client[c] EXCEPT !.wait = Absent]
  <2>1. At(c, "drain") /\ Proceed(c, n)
    BY <1>10 DEF DrainConsumer
  <2>2. /\ n \in Requests /\ n.plan = client[c].plan /\ n.op = client[c].op
        /\ n.id = client[c].id /\ n.row = client[c].row
        /\ n.arg = client[c].arg /\ n.runner = client[c].runner /\ n.locked = client[c].locked
    BY <1>3 DEF Requests, Maybe
  <2> HIDE DEF n
  <2> QED BY <1>1, <1>3, <1>4, <2>1, <2>2, Onwards
<1>11. CASE TakeBootstrap(c) \/ JoinBootstrap(c)
  <2> DEFINE r == client[c].runner
  <2>1. PICK s \in {"boot", "join"}, t \in Maybe(Tasks) :
           /\ At(c, s) /\ Proceed(c, [client[c] EXCEPT !.wait = t])
           /\ s = "boot" => t = runner[r].boot
           /\ s = "join" => t = runner[r].life
    <3>1. At(c, "boot") \/ At(c, "join")
      BY <1>11 DEF TakeBootstrap, JoinBootstrap
    <3>2. runner[r].boot \in Maybe(Tasks) /\ runner[r].life \in Maybe(Tasks)
      BY <3>1, AtRunner DEF RunnerValues
    <3>3. \/ /\ At(c, "boot") /\ Proceed(c, [client[c] EXCEPT !.wait = runner[r].boot])
          \/ /\ At(c, "join") /\ Proceed(c, [client[c] EXCEPT !.wait = runner[r].life])
      BY <1>11 DEF TakeBootstrap, JoinBootstrap
    <3> QED BY <3>2, <3>3
  <2> DEFINE n == [client[c] EXCEPT !.wait = t]
  <2>2. /\ n \in Requests /\ n.plan = client[c].plan /\ n.op = client[c].op
        /\ n.id = client[c].id /\ n.row = client[c].row /\ n.wait = t
        /\ n.arg = client[c].arg /\ n.runner = client[c].runner /\ n.locked = client[c].locked
    BY <1>3, <2>1 DEF Requests
  <2>3. Proceed(c, n)
    BY <2>1
  <2> HIDE DEF n
  <2>4. client'[c] = Idle \/ Onward(c, client[c], client'[c])
    BY <2>1, <2>2, <2>3, Onwards
  <2> QED BY <1>1, <1>3, <1>4, <2>3, <2>4
<1>12. CASE \/ SignalRescan(c) \/ RebuildIndex(c) \/ UpdateStatus(c) \/ OpenStore(c)
            \/ Spawn(c) \/ Publish(c) \/ CheckFree(c) \/ CreateSubdir(c)
            \/ UpdateName(c) \/ WriteMeta(c) \/ DeleteRow(c) \/ RemoveDir(c)
  <2>1. /\ \E s : At(c, s) /\ s \notin {"unmap", "insert", "reread", "lock", "boot", "join"}
        /\ Return(c) \/ Proceed(c, client[c])
    BY <1>12 DEF SignalRescan, RebuildIndex, UpdateStatus, OpenStore, Spawn, Publish,
                 CheckFree, CreateSubdir, UpdateName, WriteMeta, DeleteRow, RemoveDir
  <2> QED BY <1>1, <1>3, <1>4, <1>5, <2>1, PlainOnwards
<1> QED BY <1>6, <1>7, <1>8, <1>9, <1>10, <1>11, <1>12 DEF Handle

\* What a handler remembers when its request arrives.
Fresh(m) ==
    /\ m.plan # <<>> /\ ~m.locked
    /\ \/ /\ m.op = "create" /\ Head(m.plan) = "name"
          /\ m.id = Absent /\ m.runner = Absent
       \/ /\ m.op = "terminate" /\ Head(m.plan) = "unmap"
          /\ m.id \in Mapped /\ m.runner = Absent
       \/ /\ m.op \in Others /\ m.id \in Registered /\ m.runner = runners[m.id]
          /\ m.row = registry[m.id]
          /\ m.runner # Absent <=> Head(m.plan) = "lock"
          /\ m.runner = Absent => Head(m.plan) \in {"status", "free", "rebuild"}

LEMMA BeginIs ==
    ASSUME TypeInv, NEW c \in Clients, NEW k, Begin(c, k)
    PROVE  /\ UNCHANGED <<registry, used, dirs, accessible, daemon, runners, runner, task>>
           /\ \A d \in Clients : d # c => client'[d] = client[d]
           /\ client'[c] = k
           /\ count'.unmapped = 0 => count.unmapped = 0 /\ k.id \notin Ids \ Mapped
           /\ count'.faults = count.faults /\ count'.disconnects = count.disconnects
<1>1. ClientInv /\ CountInv
  BY DEF TypeInv
<1>2. count.unmapped \in Nat /\ count \in Bounds
  BY <1>1, BoundAssumption DEF CountInv, Bounds
<1>3. /\ UNCHANGED <<registry, used, dirs, accessible, daemon, runners, runner, task>>
      /\ client' = [client EXCEPT ![c] = k]
  BY DEF Begin, table, disk, memory
<1>4. CASE k.id \in Ids \ Mapped
  <2>1. count' = [count EXCEPT !.ops = @ + 1, !.unmapped = @ + 1]
    BY <1>4 DEF Begin
  <2>2. /\ count'.unmapped = count.unmapped + 1
        /\ count'.faults = count.faults /\ count'.disconnects = count.disconnects
    BY <1>2, <2>1 DEF Bounds
  <2> QED BY <1>1, <1>2, <1>3, <2>2 DEF ClientInv
<1>5. CASE k.id \notin Ids \ Mapped
  <2>1. count' = [count EXCEPT !.ops = @ + 1, !.unmapped = @]
    BY <1>5 DEF Begin
  <2>2. /\ count'.unmapped = count.unmapped
        /\ count'.faults = count.faults /\ count'.disconnects = count.disconnects
    BY <1>2, <2>1 DEF Bounds
  <2> QED BY <1>1, <1>3, <1>5, <2>2 DEF ClientInv
<1> QED BY <1>4, <1>5

LEMMA RequestStep ==
    ASSUME TypeInv, NEW c \in Clients, Request(c)
    PROVE  /\ daemon = "serving" /\ client[c] = Idle
           /\ UNCHANGED <<registry, used, dirs, accessible, daemon, runners, runner, task>>
           /\ \A d \in Clients : d # c => client'[d] = client[d]
           /\ Fresh(client'[c])
           /\ count'.unmapped = 0 => /\ count.unmapped = 0
                                     /\ client'[c].id \notin Ids \ Mapped
           /\ count'.faults = count.faults /\ count'.disconnects = count.disconnects
<1>1. CASE \E n \in Names, p \in Paths : BeginCreate(c, n, p)
  <2>1. PICK n \in Names, p \in Paths : BeginCreate(c, n, p)
    BY <1>1
  <2>2. PICK q : q = Plan("create", FALSE)
    OBVIOUS
  <2>3. q = Creation
    BY <2>2 DEF Plan
  <2>4. PICK k : k = [Idle EXCEPT !.op = "create", !.plan = q,
                        !.row = [name |-> n, path |-> p, status |-> "active"]]
    OBVIOUS
  <2>5. client[c] = Idle /\ daemon = "serving" /\ Begin(c, k)
    BY <2>1, <2>2, <2>4 DEF BeginCreate, Accepts
  <2>6. q # <<>> /\ Head(q) = "name"
    BY <2>3, CreationPlan
  <2>7. /\ k.op = "create" /\ k.id = Absent /\ k.plan = q
        /\ k.runner = Absent /\ k.locked = FALSE
    BY <2>4 DEF Idle
  <2> QED BY <2>5, <2>6, <2>7, BeginIs DEF Fresh
<1>2. CASE \E i \in Ids : BeginTerminate(c, i)
  <2>1. PICK i \in Ids : BeginTerminate(c, i)
    BY <1>2
  <2>2. PICK q : q = Plan("terminate", TRUE)
    OBVIOUS
  <2>3. q = Termination
    BY <2>2 DEF Plan
  <2>4. PICK k : k = [Idle EXCEPT !.op = "terminate", !.id = i, !.plan = q]
    OBVIOUS
  <2>5. client[c] = Idle /\ daemon = "serving" /\ Begin(c, k) /\ i \in Mapped
    BY <2>1, <2>2, <2>4 DEF BeginTerminate, Accepts
  <2>6. q # <<>> /\ Head(q) = "unmap"
    BY <2>3, TerminationPlan
  <2>7. /\ k.op = "terminate" /\ k.id = i /\ k.plan = q
        /\ k.runner = Absent /\ k.locked = FALSE
    BY <2>4 DEF Idle
  <2>8. Fresh(k)
    BY <2>5, <2>6, <2>7 DEF Fresh
  <2>9. Mapped' = Mapped /\ Fresh(client'[c])
    BY <2>5, <2>8, BeginIs DEF Mapped
  <2> QED BY <2>5, <2>9, BeginIs
<1>3. CASE \E i \in Ids, op \in Operations : BeginOn(c, op, i)
  <2>1. PICK i \in Ids, op \in Operations : BeginOn(c, op, i)
    BY <1>3
  <2>2. /\ client[c] = Idle /\ daemon = "serving" /\ i \in Registered
        /\ op \in Others /\ (op \in {"pause", "rescan"} => i \in Mapped)
    BY <2>1 DEF BeginOn, Accepts, Others
  <2> DEFINE b == (runners[i] # Absent)
  <2>3. b \in BOOLEAN /\ b = (i \in Mapped) /\ (op \in {"pause", "rescan"} => b)
    BY <2>2 DEF Mapped
  <2>4. PICK q : q = Plan(op, i \in Mapped)
    OBVIOUS
  <2>5. q = Plan(op, b)
    BY <2>3, <2>4
  <2>6. PICK n : Begin(c, [Idle EXCEPT !.op = op, !.id = i, !.arg = n,
                                       !.row = registry[i], !.runner = runners[i],
                                       !.plan = q])
    BY <2>1, <2>4 DEF BeginOn
  <2>7. PICK k : k = [Idle EXCEPT !.op = op, !.id = i, !.arg = n, !.row = registry[i],
                                  !.runner = runners[i], !.plan = q]
    OBVIOUS
  <2>8. /\ q \in Seq(Steps) /\ q \in Suffixes(Plan(op, b)) /\ (b <=> Head(q) = "lock")
        /\ ~b => Head(q) \in {"status", "free", "rebuild"}
    <3> HIDE DEF b
    <3> QED BY <2>2, <2>3, <2>5, WholePlan
  <2>9. q # <<>>
    <3> HIDE DEF b
    <3> QED BY <2>2, <2>3, <2>8, OperationStepOk
  <2>10. /\ k.op = op /\ k.id = i /\ k.plan = q
         /\ k.row = registry[i] /\ k.runner = runners[i] /\ k.locked = FALSE
    BY <2>7 DEF Idle
  <2>11. Fresh(k)
    BY <2>2, <2>8, <2>9, <2>10 DEF Fresh
  <2>12. Begin(c, k)
    BY <2>6, <2>7
  <2> QED BY <2>2, <2>11, <2>12, BeginIs
<1> QED BY <1>1, <1>2, <1>3 DEF Request

\* The changes of the registry, each under its guard.
RegistryStep(c) ==
    LET k == client[c] IN
    \/ UNCHANGED <<registry, used>>
    \/ /\ At(c, "insert") /\ client'[c].id \in Ids \ used
       /\ Named(k.row.name) = {} /\ AtPath(k.row.path) = {}
       /\ registry' = [registry EXCEPT ![client'[c].id] = k.row]
       /\ used' = used \cup {client'[c].id}
    \/ /\ At(c, "status") /\ k.id \in Registered
       /\ registry' = [registry EXCEPT ![k.id].status =
                         IF k.op = "pause" THEN "paused" ELSE "active"]
       /\ UNCHANGED used
    \/ /\ At(c, "update") /\ k.id \in Registered /\ Named(k.arg) \subseteq {k.id}
       /\ registry' = [registry EXCEPT ![k.id].name = k.arg]
       /\ UNCHANGED used
    \/ /\ At(c, "delete")
       /\ registry' = [registry EXCEPT ![k.id] = Absent]
       /\ UNCHANGED used

LEMMA RegistrySteps ==
    ASSUME TypeInv, NEW c \in Clients, Lock(c) \/ Handle(c)
    PROVE  /\ RegistryStep(c)
           /\ ~UNCHANGED registry => UNCHANGED <<runners, dirs>>
           /\ At(c, "delete") => registry' = [registry EXCEPT ![client[c].id] = Absent]
           /\ At(c, "status") => \/ client'[c] = Idle
                                 \/ /\ client[c].id \in Registered
                                    /\ registry' = [registry EXCEPT ![client[c].id].status =
                                         IF client[c].op = "pause" THEN "paused" ELSE "active"]
           /\ At(c, "insert") => \/ client'[c] = Idle
                                 \/ /\ client'[c].id \in Ids \ used
                                    /\ registry' = [registry EXCEPT ![client'[c].id] = client[c].row]
                                    /\ used' = used \cup {client'[c].id}
<1>0. ClientInv
  BY DEF TypeInv
<1>1. CASE Insert(c)
  <2>1. At(c, "insert") /\ UNCHANGED <<runners, dirs>>
    BY <1>1 DEF Insert, memory, disk
  <2>2. CASE Return(c) /\ UNCHANGED table
    <3>1. client'[c] = Idle
      BY <1>0, <2>2, ReturnIs
    <3> QED BY <2>1, <2>2, <3>1 DEF RegistryStep, table, At
  <2>3. ASSUME NEW i \in Ids \ used, Proceed(c, [client[c] EXCEPT !.id = i])
        PROVE  client'[c].id = i
    <3> DEFINE n == [client[c] EXCEPT !.id = i]
    <3>1. /\ client[c] \in Requests /\ client[c].plan # <<>> /\ ClientOk(client[c])
          /\ Creates(client[c]) /\ CreationStep(client[c].plan)
          /\ Head(client[c].plan) = "insert"
      BY <1>0, <2>1, AtIs DEF TerminationStep, OperationStep
    <3>2. n \in Requests /\ n.plan = client[c].plan /\ n.id = i
      BY <3>1 DEF Requests, Maybe
    <3>3. Proceed(c, n)
      BY <2>3
    <3> HIDE DEF n
    <3>4. client'[c] = Advance(n)
      BY <1>0, <3>3, ProceedIs
    <3>5. PICK m : m = Advance(n)
      OBVIOUS
    <3>6. Tail(n.plan) # <<>>
      BY <3>1, <3>2 DEF CreationStep, Then
    <3>7. PICK q : q = Tail(n.plan)
      OBVIOUS
    <3>8. m = [n EXCEPT !.plan = q] /\ q \in Seq(Steps)
      BY <3>1, <3>2, <3>5, <3>6, <3>7, AdvanceIs, TailIsPlan
    <3>9. m.id = n.id
      BY <3>2, <3>8, WithPlan
    <3> QED BY <3>2, <3>4, <3>5, <3>9
  <2>4. CASE /\ Named(client[c].row.name) \cup AtPath(client[c].row.path) = {}
             /\ \E i \in Ids \ used :
                   /\ registry' = [registry EXCEPT ![i] = client[c].row]
                   /\ used' = used \cup {i}
                   /\ Proceed(c, [client[c] EXCEPT !.id = i])
    <3>1. PICK i \in Ids \ used :
                   /\ registry' = [registry EXCEPT ![i] = client[c].row]
                   /\ used' = used \cup {i}
                   /\ Proceed(c, [client[c] EXCEPT !.id = i])
      BY <2>4
    <3>2. client'[c].id = i
      BY <2>3, <3>1
    <3>3. Named(client[c].row.name) = {} /\ AtPath(client[c].row.path) = {}
      BY <2>4
    <3> QED BY <2>1, <3>1, <3>2, <3>3 DEF RegistryStep, At
  <2> QED BY <1>1, <2>2, <2>4 DEF Insert
<1>2. CASE UpdateStatus(c)
  <2>1. At(c, "status") /\ UNCHANGED <<used, runners, dirs>>
    BY <1>2 DEF UpdateStatus, disk, memory
  <2>2. Return(c) => client'[c] = Idle
    BY <1>0, ReturnIs
  <2> QED BY <1>2, <2>1, <2>2 DEF UpdateStatus, RegistryStep, At
<1>3. CASE UpdateName(c)
  <2>1. At(c, "update") /\ UNCHANGED <<used, runners, dirs>>
    BY <1>3 DEF UpdateName, disk, memory
  <2>2. CASE UNCHANGED registry
    BY <2>1, <2>2 DEF RegistryStep, At
  <2>3. CASE /\ ~(client[c].id \notin Registered \/ Named(client[c].arg) \ {client[c].id} # {})
             /\ registry' = [registry EXCEPT ![client[c].id].name = client[c].arg]
    <3>1. client[c].id \in Registered /\ Named(client[c].arg) \subseteq {client[c].id}
      BY <2>3
    <3> QED BY <2>1, <2>3, <3>1 DEF RegistryStep, At
  <2> QED BY <1>3, <2>2, <2>3 DEF UpdateName
<1>4. CASE DeleteRow(c)
  BY <1>4 DEF DeleteRow, RegistryStep, At, memory, disk
<1>5. CASE \/ Lock(c) \/ Unmap(c) \/ TakeBootstrap(c) \/ JoinBootstrap(c)
           \/ DrainConsumer(c) \/ SignalRescan(c) \/ RebuildIndex(c) \/ Reread(c)
           \/ OpenStore(c) \/ Spawn(c) \/ Publish(c) \/ CheckFree(c) \/ CreateSubdir(c)
           \/ WriteMeta(c) \/ RemoveDir(c)
  <2>1. UNCHANGED <<registry, used>> /\ ~At(c, "delete") /\ ~At(c, "status")
        /\ ~At(c, "insert")
    BY <1>5 DEF Lock, Unmap, TakeBootstrap, JoinBootstrap, DrainConsumer, SignalRescan,
                RebuildIndex, Reread, OpenStore, Spawn, Publish, CheckFree, CreateSubdir,
                WriteMeta, RemoveDir, At, table
  <2> QED BY <2>1, SMTT(30) DEF RegistryStep
<1> QED BY <1>1, <1>2, <1>3, <1>4, <1>5 DEF Handle

\* The changes of the map of runners.
MapStep(c) ==
    LET k == client[c] IN
    \/ UNCHANGED runners
    \/ At(c, "unmap") /\ runners' = [runners EXCEPT ![k.id] = Absent]
    \/ /\ At(c, "spawn") /\ k.runner = Absent
       /\ \A i \in Ids : i # k.id => runners'[i] = runners[i]

LEMMA MapSteps ==
    ASSUME TypeInv, NEW c \in Clients, Lock(c) \/ Handle(c)
    PROVE  MapStep(c)
<1>1. CASE Unmap(c)
  BY <1>1 DEF Unmap, MapStep, At
<1>2. CASE Spawn(c)
  <2>1. /\ At(c, "spawn")
        /\ \/ UNCHANGED runners
           \/ /\ client[c].runner = Absent
              /\ runners' = [runners EXCEPT ![client[c].id] = Least(FreeRunners)]
    BY <1>2 DEF Spawn, NewRunner
  <2> QED BY <2>1 DEF MapStep, At, TypeInv, MapInv
<1>3. CASE \/ Lock(c) \/ TakeBootstrap(c) \/ JoinBootstrap(c)
           \/ DrainConsumer(c) \/ SignalRescan(c) \/ RebuildIndex(c) \/ UpdateStatus(c)
           \/ Reread(c) \/ OpenStore(c) \/ Publish(c) \/ CheckFree(c) \/ Insert(c)
           \/ CreateSubdir(c) \/ UpdateName(c) \/ WriteMeta(c) \/ DeleteRow(c) \/ RemoveDir(c)
  <2>1. UNCHANGED runners
    BY <1>3 DEF Lock, TakeBootstrap, JoinBootstrap, DrainConsumer, SignalRescan,
                RebuildIndex, UpdateStatus, Reread, OpenStore, Publish, CheckFree, Insert,
                CreateSubdir, UpdateName, WriteMeta, DeleteRow, RemoveDir, memory
  <2> QED BY <2>1, SMTT(30) DEF MapStep
<1> QED BY <1>1, <1>2, <1>3 DEF Handle

-----------------------------------------------------------------------------
(* What keeps the registry sound: names and paths are unique, an id that a *)
(* runner or a handler refers to was inserted once and never again, an     *)
(* errored vault has no runner and no handler past its checks, and whoever *)
(* is about to remove a directory has removed the row.                     *)

UniqueInv ==
    \A i, j \in Registered : i # j => /\ registry[i].name # registry[j].name
                                      /\ registry[i].path # registry[j].path

UsedInv == /\ Mapped \subseteq used
           /\ \A c \in Clients : client[c].id # Absent => client[c].id \in used

\* A handler that goes on as if the row were not errored.
Trusts(k) == \/ k.runner # Absent
             \/ k.op # "rename" /\ Heading(k, {"subdir", "reread", "open", "spawn"})

SoundInv ==
    \A i \in Registered :
        (i \in Mapped \/ \E c \in Clients : client[c].id = i /\ Trusts(client[c]))
        => registry[i].status # "errored"

RemovedInv ==
    \A c \in Clients : Heading(client[c], {"rmdir"}) => client[c].id \notin Registered

RegInv == UniqueInv /\ UsedInv /\ SoundInv /\ RemovedInv

LEMMA IdleFields ==
    Idle.id = Absent /\ Idle.runner = Absent /\ Idle.plan = <<>> /\ ~Idle.locked
    /\ Idle.op = Absent
<1> QED BY DEF Idle

\* Rows and ids after a handler's step.
LEMMA RowsFrom ==
    ASSUME TypeInv, NEW c \in Clients, RegistryStep(c)
    PROVE  /\ used \subseteq used'
           /\ \A i \in Registered' :
                 \/ i \in Registered
                 \/ /\ At(c, "insert") /\ i = client'[c].id /\ i \in Ids \ used /\ i \in used'
                    /\ registry'[i] = client[c].row
                    /\ Named(client[c].row.name) = {} /\ AtPath(client[c].row.path) = {}
           /\ \A i \in Registered \cap Registered' :
                 /\ registry'[i].path = registry[i].path
                 /\ \/ registry'[i].name = registry[i].name
                    \/ /\ At(c, "update") /\ i = client[c].id
                       /\ registry'[i].name = client[c].arg
                       /\ Named(client[c].arg) \subseteq {i}
                 /\ \/ registry'[i].status = registry[i].status
                    \/ registry'[i].status \in {"active", "paused"}
                 /\ At(c, "status") /\ i = client[c].id /\ ~UNCHANGED registry
                       => registry'[i].status \in {"active", "paused"}
<1>1. registry \in [Ids -> Maybe(Rows)]
  BY DEF TypeInv, TableInv
<1>2. \A i \in Registered : registry[i] \in Rows
  BY <1>1 DEF Registered, Maybe
<1>3. CASE UNCHANGED <<registry, used>>
  BY <1>3 DEF Registered
<1>4. CASE /\ At(c, "insert") /\ client'[c].id \in Ids \ used
           /\ Named(client[c].row.name) = {} /\ AtPath(client[c].row.path) = {}
           /\ registry' = [registry EXCEPT ![client'[c].id] = client[c].row]
           /\ used' = used \cup {client'[c].id}
  <2>1. client'[c].id \notin Registered
    BY <1>4 DEF TypeInv, TableInv
  <2>2. \A i \in Ids : registry'[i] = IF i = client'[c].id THEN client[c].row ELSE registry[i]
    BY <1>1, <1>4
  <2> QED BY <1>4, <2>1, <2>2 DEF Registered, At
<1>5. CASE /\ At(c, "status") /\ client[c].id \in Registered
           /\ registry' = [registry EXCEPT ![client[c].id].status =
                             IF client[c].op = "pause" THEN "paused" ELSE "active"]
           /\ UNCHANGED used
  <2>1. PICK s \in {"active", "paused"} :
           registry' = [registry EXCEPT ![client[c].id].status = s]
    BY <1>5
  <2>2. \A i \in Ids : registry'[i] = IF i = client[c].id
                                      THEN [registry[i] EXCEPT !.status = s] ELSE registry[i]
    BY <1>1, <2>1
  <2>3. \A i \in Registered : /\ [registry[i] EXCEPT !.status = s].status = s
                              /\ [registry[i] EXCEPT !.status = s].name = registry[i].name
                              /\ [registry[i] EXCEPT !.status = s].path = registry[i].path
    BY <1>2 DEF Rows
  <2>4. Registered' \subseteq Registered
    BY <1>5, <2>2 DEF Registered
  <2> QED BY <1>5, <2>2, <2>3, <2>4 DEF Registered, At
<1>6. CASE /\ At(c, "update") /\ client[c].id \in Registered
           /\ Named(client[c].arg) \subseteq {client[c].id}
           /\ registry' = [registry EXCEPT ![client[c].id].name = client[c].arg]
           /\ UNCHANGED used
  <2>1. \A i \in Ids : registry'[i] = IF i = client[c].id
                                      THEN [registry[i] EXCEPT !.name = client[c].arg]
                                      ELSE registry[i]
    BY <1>1, <1>6
  <2>2. \A i \in Registered :
           /\ [registry[i] EXCEPT !.name = client[c].arg].status = registry[i].status
           /\ [registry[i] EXCEPT !.name = client[c].arg].name = client[c].arg
           /\ [registry[i] EXCEPT !.name = client[c].arg].path = registry[i].path
    BY <1>2 DEF Rows
  <2>3. Registered' \subseteq Registered
    BY <1>6, <2>1 DEF Registered
  <2> QED BY <1>6, <2>1, <2>2, <2>3 DEF At
<1>7. CASE /\ At(c, "delete")
           /\ registry' = [registry EXCEPT ![client[c].id] = Absent]
           /\ UNCHANGED used
  <2>1. \A i \in Ids : registry'[i] = IF i = client[c].id THEN Absent ELSE registry[i]
    BY <1>1, <1>7
  <2>2. \A i \in Registered' : i \in Registered /\ registry'[i] = registry[i]
    BY <2>1 DEF Registered
  <2> QED BY <1>7, <2>2 DEF At
<1> QED BY <1>3, <1>4, <1>5, <1>6, <1>7 DEF RegistryStep

LEMMA HandlerUnique ==
    ASSUME TypeInv, UniqueInv, NEW c \in Clients, Lock(c) \/ Handle(c)
    PROVE  UniqueInv'
<1>1. RegistryStep(c)
  BY RegistrySteps
<1>2. \A i \in Registered' :
         \/ i \in Registered
         \/ /\ At(c, "insert") /\ i = client'[c].id
            /\ registry'[i] = client[c].row
            /\ Named(client[c].row.name) = {} /\ AtPath(client[c].row.path) = {}
  BY <1>1, RowsFrom
<1>3. \A i \in Registered \cap Registered' :
         /\ registry'[i].path = registry[i].path
         /\ \/ registry'[i].name = registry[i].name
            \/ /\ At(c, "update") /\ i = client[c].id
               /\ registry'[i].name = client[c].arg
               /\ Named(client[c].arg) \subseteq {i}
  BY <1>1, RowsFrom
<1>4. ASSUME NEW i \in Registered', NEW j \in Registered', i # j,
             i \in Registered
      PROVE  /\ registry'[i].name # registry'[j].name
             /\ registry'[i].path # registry'[j].path
  <2>1. CASE j \in Registered
    <3>1. /\ registry[i].name # registry[j].name /\ registry[i].path # registry[j].path
      BY <1>4, <2>1 DEF UniqueInv
    <3>2. CASE At(c, "update") /\ i = client[c].id /\ Named(client[c].arg) \subseteq {i}
                 /\ registry'[i].name = client[c].arg
      <4>1. registry[j].name # client[c].arg /\ registry'[j].name = registry[j].name
        BY <1>3, <1>4, <2>1, <3>2 DEF Named
      <4> QED BY <1>3, <1>4, <2>1, <3>1, <3>2, <4>1
    <3>3. CASE At(c, "update") /\ j = client[c].id /\ Named(client[c].arg) \subseteq {j}
                 /\ registry'[j].name = client[c].arg
      <4>1. registry[i].name # client[c].arg /\ registry'[i].name = registry[i].name
        BY <1>3, <1>4, <2>1, <3>3 DEF Named
      <4> QED BY <1>3, <1>4, <2>1, <3>1, <3>3, <4>1
    <3> QED BY <1>3, <1>4, <2>1, <3>1, <3>2, <3>3
  <2>2. CASE j \notin Registered
    <3>1. /\ At(c, "insert") /\ registry'[j] = client[c].row
          /\ registry[i].name # client[c].row.name /\ registry[i].path # client[c].row.path
      BY <1>2, <1>4, <2>2 DEF Named, AtPath
    <3>2. registry'[i].name = registry[i].name /\ registry'[i].path = registry[i].path
      BY <1>3, <1>4, <3>1 DEF At
    <3> QED BY <3>1, <3>2
  <2> QED BY <2>1, <2>2
<1>5. \A i, j \in Registered' : i # j => i \in Registered \/ j \in Registered
  BY <1>2
<1> QED BY <1>4, <1>5 DEF UniqueInv

LEMMA HandlerUsed ==
    ASSUME TypeInv, UsedInv, NEW c \in Clients, Lock(c) \/ Handle(c)
    PROVE  UsedInv'
<1>1. RegistryStep(c) /\ MapStep(c)
  BY RegistrySteps, MapSteps
<1>2. used \subseteq used'
  BY <1>1, RowsFrom
<1>3. Mapped' \subseteq used'
  <2>1. \A i \in Mapped' : i \in Mapped \/ (At(c, "spawn") /\ i = client[c].id)
    BY <1>1 DEF MapStep, Mapped, TypeInv, MapInv
  <2>2. At(c, "spawn") => client[c].id \in used
    <3>1. At(c, "spawn") => client[c].id \in Ids
      BY AtVault
    <3> QED BY <3>1, MarkAssumption DEF UsedInv
  <2> QED BY <1>2, <2>1, <2>2 DEF UsedInv
<1>4. ASSUME NEW d \in Clients, client'[d].id # Absent
      PROVE  client'[d].id \in used'
  <2>1. CASE d # c
    BY <1>2, <1>4, <2>1, HandlerStep DEF UsedInv
  <2>2. CASE d = c /\ client'[c] # Idle
    <3>1. Onward(c, client[c], client'[c]) /\ client[c].plan # <<>> /\ daemon = "serving"
      BY <2>2, HandlerStep
    <3>2. CASE Head(client[c].plan) = "insert"
      <4>1. At(c, "insert")
        BY <3>1, <3>2 DEF At
      <4> QED BY <2>2, <4>1, RegistrySteps
    <3>3. CASE Head(client[c].plan) # "insert"
      BY <1>2, <1>4, <2>2, <3>1, <3>3 DEF Onward, UsedInv
    <3> QED BY <3>2, <3>3
  <2> QED BY <1>4, <2>1, <2>2, IdleFields
<1> QED BY <1>3, <1>4 DEF UsedInv

\* The tables of steps, for a handler and what it remembers next.
LEMMA OnwardKinds ==
    ASSUME TypeInv, NEW c \in Clients, NEW k, k = client[c], k.plan # <<>>,
           NEW m, Onward(c, k, m)
    PROVE  /\ Head(m.plan) = "rmdir" => Head(k.plan) = "delete"
           /\ Trusts(m) /\ ~Trusts(k) => Head(k.plan) \in {"insert", "status", "unmap"}
           /\ Head(k.plan) = "unmap" => k.runner = Absent
           /\ Head(k.plan) = "insert" => k.runner = Absent
<1>1. ClientOk(k)
  BY DEF TypeInv, ClientInv
<1>2. \/ Creates(k) /\ CreationStep(k.plan)
      \/ Terminates(k) /\ TerminationStep(k.plan)
      \/ Operates(k) /\ OperationStep(k.op, k.runner # Absent, k.plan)
  BY <1>1, BusyKinds
<1>3. CASE Creates(k) /\ CreationStep(k.plan)
  <2>1. m.op = "create" /\ k.op = "create" /\ k.runner = Absent /\ m.runner = Absent
        /\ m.plan = Tail(k.plan) /\ m.plan # <<>>
    BY <1>3 DEF Onward, Creates, CreationStep
  <2> QED BY <1>3, <2>1 DEF Trusts, Heading, CreationStep, Then
<1>4. CASE Terminates(k) /\ TerminationStep(k.plan)
  <2>1. /\ m.plan # <<>> /\ m.op = k.op /\ k.op = "terminate"
        /\ Head(k.plan) = "unmap" => k.runner = Absent
        /\ Head(k.plan) # "unmap" => m.plan = Tail(k.plan) /\ m.runner = k.runner
        /\ Head(k.plan) = "unmap" => Head(m.plan) \in {"boot", "delete"}
    BY <1>4 DEF Onward, Terminates, TerminationStep, Then
  <2> QED BY <1>4, <2>1 DEF Trusts, Heading, TerminationStep, Then
<1>5. CASE Operates(k) /\ OperationStep(k.op, k.runner # Absent, k.plan)
  <2>1. /\ m.plan # <<>> /\ m.op = k.op /\ m.plan = Tail(k.plan) /\ m.runner = k.runner
        /\ Head(k.plan) \notin {"unmap", "insert", "subdir"}
    BY <1>5 DEF Onward, OperationStep
  <2>2. Head(m.plan) # "rmdir"
    BY <1>5, <2>1 DEF OperationStep, Then
  <2>3. k.runner = Absent /\ m.op # "rename" /\ Head(m.plan) \in {"subdir", "reread", "open", "spawn"}
          => k.op # "rename" /\ Head(k.plan) \in {"status", "reread", "open", "spawn"}
    BY <1>5, <2>1 DEF OperationStep, Then
  <2> QED BY <2>1, <2>2, <2>3 DEF Trusts, Heading
<1> QED BY <1>2, <1>3, <1>4, <1>5

LEMMA HandlerSound ==
    ASSUME TypeInv, UsedInv, SoundInv, NEW c \in Clients, Lock(c) \/ Handle(c)
    PROVE  SoundInv'
<1> SUFFICES ASSUME NEW i \in Registered', registry'[i].status = "errored",
                    i \in Mapped' \/ \E d \in Clients : client'[d].id = i /\ Trusts(client'[d])
             PROVE  FALSE
  BY DEF SoundInv, Trusts, Heading
<1> DEFINE k == client[c]
           m == client'[c]
<1>0. ClientInv
  BY DEF TypeInv
<1>1. RegistryStep(c) /\ MapStep(c) /\ daemon = "serving" /\ k.plan # <<>>
      /\ ClientOk(k)
  BY <1>0, RegistrySteps, MapSteps, HandlerStep DEF ClientInv
<1>2. At(c, "insert") => k.row.status = "active"
  BY <1>0, AtIs DEF Creates, TerminationStep, OperationStep
<1>3. /\ i \in Registered /\ registry[i].status = "errored"
      /\ At(c, "status") /\ i = k.id => UNCHANGED registry
  BY <1>1, <1>2, RowsFrom
<1>4. i \notin Mapped /\ \A d \in Clients : client[d].id = i => ~Trusts(client[d])
  BY <1>3 DEF SoundInv
<1>5. i \in used /\ i \in Ids /\ i # Absent
  BY <1>3, MarkAssumption DEF TypeInv, TableInv, Registered
<1>6. CASE i \in Mapped'
  <2>1. At(c, "spawn") /\ i = k.id
    BY <1>1, <1>4, <1>6 DEF MapStep, Mapped, TypeInv, MapInv
  <2>2. Heading(k, {"spawn"}) /\ k.op # "rename"
    BY <1>0, <2>1, AtIs DEF Heading, Creates, TerminationStep, OperationStep, At
  <2>3. Trusts(k)
    BY <2>2 DEF Trusts, Heading
  <2> QED BY <1>4, <2>1, <2>3
<1>7. ASSUME NEW d \in Clients, client'[d].id = i, Trusts(client'[d])
      PROVE  FALSE
  <2>1. CASE d # c
    BY <1>4, <1>7, <2>1, HandlerStep
  <2>2. CASE d = c
    <3>1. m # Idle
      BY <1>5, <1>7, <2>2, IdleFields
    <3>2. Onward(c, k, m)
      BY <3>1, HandlerStep
    <3>3. Head(k.plan) # "insert" /\ i = k.id /\ ~Trusts(k)
      BY <1>4, <1>5, <1>7, <2>2, <3>2 DEF Onward
    <3>4. Head(k.plan) \in {"status", "unmap"}
      <4>1. /\ Trusts(m) /\ ~Trusts(k) => Head(k.plan) \in {"insert", "status", "unmap"}
        <5>1. PICK kk : kk = k
          OBVIOUS
        <5>2. PICK mm : mm = m
          OBVIOUS
        <5> QED BY <1>1, <3>2, <5>1, <5>2, OnwardKinds
      <4> QED BY <1>7, <2>2, <3>3, <4>1
    <3>5. CASE Head(k.plan) = "status"
      <4>1. At(c, "status")
        BY <1>1, <3>5 DEF At
      <4>2. UNCHANGED registry
        BY <1>3, <3>3, <4>1
      <4>3. registry' = [registry EXCEPT ![k.id].status =
                              IF k.op = "pause" THEN "paused" ELSE "active"]
            /\ k.id \in Registered
        BY <3>1, <4>1, RegistrySteps
      <4>4. registry[i] \in Rows
        BY <1>3 DEF TypeInv, TableInv, Registered, Maybe
      <4>5. registry'[i].status \in {"paused", "active"}
        BY <3>3, <4>3, <4>4, <1>5 DEF Rows, TypeInv, TableInv
      <4> QED BY <4>5
    <3>6. CASE Head(k.plan) = "unmap"
      <4>1. m.runner = runners[i] /\ m.plan # <<>> /\ m.op = k.op
            /\ Head(m.plan) \in {"boot", "delete"}
        <5>1. At(c, "unmap")
          BY <1>1, <3>6 DEF At
        <5>2. Terminates(k) /\ TerminationStep(k.plan)
          BY <1>0, <5>1, AtIs DEF CreationStep, OperationStep, At
        <5> QED BY <3>2, <3>3, <3>6, <5>2 DEF Onward, TerminationStep, Then
      <4>2. m.runner # Absent
        BY <1>7, <2>2, <4>1 DEF Trusts, Heading
      <4> QED BY <1>4, <1>5, <4>1, <4>2 DEF Mapped
    <3> QED BY <3>4, <3>5, <3>6
  <2> QED BY <2>1, <2>2
<1> QED BY <1>6, <1>7

LEMMA HandlerRemoved ==
    ASSUME TypeInv, UsedInv, RemovedInv, NEW c \in Clients, Lock(c) \/ Handle(c)
    PROVE  RemovedInv'
<1> SUFFICES ASSUME NEW d \in Clients, client'[d].plan # <<>>,
                    Head(client'[d].plan) = "rmdir", client'[d].id \in Registered'
             PROVE  FALSE
  BY DEF RemovedInv, Heading
<1>1. RegistryStep(c) /\ daemon = "serving" /\ client[c].plan # <<>>
  BY RegistrySteps, HandlerStep
<1>2. CASE d # c
  <2>1. client'[d] = client[d] /\ client[d].id \notin Registered
    BY <1>2, HandlerStep DEF RemovedInv, Heading
  <2>2. client[d].id \notin used
    BY <1>1, <2>1, RowsFrom
  <2>3. client[d].id \in Ids /\ client[d].id # Absent
    BY <2>1, MarkAssumption DEF Registered
  <2> QED BY <2>2, <2>3 DEF UsedInv
<1>3. CASE d = c
  <2>1. PICK k, m : k = client[c] /\ m = client'[c]
    OBVIOUS
  <2>2. Onward(c, k, m)
    BY <1>3, <2>1, HandlerStep, IdleFields
  <2>3. Head(k.plan) = "delete" /\ k.plan # <<>>
    BY <1>1, <1>3, <2>1, <2>2, OnwardKinds
  <2>4. At(c, "delete") /\ m.id = k.id
    BY <1>1, <2>1, <2>2, <2>3 DEF At, Onward
  <2>5. registry' = [registry EXCEPT ![k.id] = Absent] /\ k.id \in Ids
    BY <2>1, <2>4, RegistrySteps, AtVault
  <2>6. k.id \notin Registered'
    BY <2>5 DEF Registered, TypeInv, TableInv
  <2> QED BY <1>3, <2>1, <2>4, <2>6
<1> QED BY <1>2, <1>3

\* Steps that keep the rows: handlers go, and the map at most loses entries.
LEMMA RegFrame ==
    ASSUME RegInv, UNCHANGED <<registry, used>>, Mapped' \subseteq Mapped,
           \A d \in Clients : client'[d] = client[d] \/ client'[d] = Idle
    PROVE  RegInv'
<1>1. Registered' = Registered
  BY DEF Registered
<1>2. UniqueInv'
  BY <1>1 DEF RegInv, UniqueInv
<1>3. UsedInv'
  BY IdleFields DEF RegInv, UsedInv
<1>4. \A d \in Clients : /\ client'[d].id # Absent => client'[d] = client[d]
                         /\ client'[d].plan # <<>> => client'[d] = client[d]
                         /\ client'[d].runner # Absent => client'[d] = client[d]
  BY IdleFields
<1>5. RemovedInv'
  BY <1>1, <1>4 DEF RegInv, RemovedInv, Heading
<1>6. \A d \in Clients : Trusts(client[d])' => client'[d] = client[d]
  BY <1>4 DEF Trusts, Heading
<1>7. SoundInv'
  <2> SUFFICES ASSUME NEW i \in Registered,
                      i \in Mapped \/ \E d \in Clients : client'[d].id = i /\ Trusts(client[d])'
               PROVE  registry[i].status # "errored"
    BY <1>1 DEF SoundInv
  <2>1. ASSUME NEW d \in Clients, client'[d].id = i, Trusts(client[d])'
        PROVE  client[d].id = i /\ Trusts(client[d])
    BY <1>6, <2>1 DEF Trusts, Heading
  <2> QED BY <2>1 DEF RegInv, SoundInv
<1> QED BY <1>2, <1>3, <1>5, <1>7 DEF RegInv

LEMMA RequestReg ==
    ASSUME TypeInv, RegInv, NEW c \in Clients, Request(c)
    PROVE  RegInv'
<1> DEFINE m == client'[c]
<1>1. /\ UNCHANGED <<registry, used, runners>>
      /\ \A d \in Clients : d # c => client'[d] = client[d]
      /\ Fresh(m)
  BY RequestStep
<1>2. Registered' = Registered /\ Mapped' = Mapped
  BY <1>1 DEF Registered, Mapped
<1>3. /\ m.id # Absent => m.id \in Mapped \cup Registered
      /\ Head(m.plan) # "rmdir" /\ m.plan # <<>>
      /\ Trusts(m) => m.id \in Mapped
  <2>1. \A i \in Registered : runners[i] # Absent => i \in Mapped
    BY DEF Registered, Mapped
  <2> QED BY <1>1, <2>1 DEF Fresh, Trusts, Heading
<1>4. UniqueInv'
  BY <1>1, <1>2 DEF RegInv, UniqueInv
<1>5. UsedInv'
  <2>1. m.id # Absent => m.id \in used
    BY <1>3 DEF RegInv, UsedInv, TypeInv, TableInv
  <2> QED BY <1>1, <1>2, <2>1 DEF RegInv, UsedInv
<1>6. RemovedInv'
  BY <1>1, <1>2, <1>3 DEF RegInv, RemovedInv, Heading
<1>7. SoundInv'
  <2> SUFFICES ASSUME NEW i \in Registered, NEW d \in Clients,
                      client'[d].id = i, Trusts(client'[d])
               PROVE  registry[i].status # "errored"
    BY <1>1, <1>2 DEF RegInv, SoundInv, Trusts, Heading
  <2>1. CASE d = c
    BY <1>3, <2>1 DEF RegInv, SoundInv
  <2>2. CASE d # c
    BY <1>1, <2>2 DEF RegInv, SoundInv
  <2> QED BY <2>1, <2>2
<1> QED BY <1>4, <1>5, <1>6, <1>7 DEF RegInv

LEMMA StartUpReg ==
    ASSUME TypeInv, RegInv, StartUp
    PROVE  RegInv'
<1>1. UNCHANGED <<used, client>> /\ \A c \in Clients : client[c] = Idle
  BY DEF StartUp, ReconcileRows, ReconcileDirs, Serve, StartVault, TypeInv, DaemonInv, table
<1>2. \A c \in Clients : client'[c] = Idle
  BY <1>1
<1>3. RemovedInv' /\ \A c \in Clients : client'[c].id = Absent
  BY <1>2, IdleFields DEF RemovedInv, Heading
<1>4. CASE ReconcileRows
  <2>1. Mapped' = {}
    BY <1>4 DEF ReconcileRows, memory, TypeInv, DaemonInv, Mapped
  <2>2. \A i \in Registered' : /\ i \in Registered
                               /\ registry'[i].name = registry[i].name
                               /\ registry'[i].path = registry[i].path
    <3>1. \A i \in Registered : registry[i] \in Rows
      BY DEF TypeInv, TableInv, Registered, Maybe
    <3>2. \A i \in Registered :
             /\ [registry[i] EXCEPT !.status = "errored"].name = registry[i].name
             /\ [registry[i] EXCEPT !.status = "errored"].path = registry[i].path
      BY <3>1 DEF Rows
    <3>3. \A i \in Ids : \/ registry'[i] = registry[i]
                         \/ i \in Registered /\ registry'[i] = [registry[i] EXCEPT !.status = "errored"]
      BY <1>4 DEF ReconcileRows
    <3> QED BY <3>2, <3>3 DEF Registered
  <2>3. UniqueInv'
    BY <2>2 DEF RegInv, UniqueInv
  <2>4. UsedInv'
    BY <1>3, <2>1 DEF UsedInv
  <2>5. \A i \in Registered' : i # Absent
    BY MarkAssumption DEF Registered
  <2>6. SoundInv'
    BY <1>3, <2>1, <2>5 DEF SoundInv
  <2> QED BY <1>3, <2>3, <2>4, <2>6 DEF RegInv
<1>5. CASE ReconcileDirs \/ Serve
  <2>1. UNCHANGED <<registry, used, runners>>
    BY <1>5 DEF ReconcileDirs, Serve, table, memory
  <2> QED BY <1>1, <2>1, RegFrame DEF Mapped
<1>6. ASSUME NEW i \in Ids, StartVault(i)
      PROVE  RegInv'
  <2>1. /\ UNCHANGED <<registry, used>> /\ i \in Registered
        /\ registry[i].status = "active"
        /\ \E r : runners' = [runners EXCEPT ![i] = r]
    BY <1>6 DEF StartVault, table, Active, NewRunner
  <2>2. Registered' = Registered /\ Mapped' \subseteq Mapped \cup {i}
    BY <2>1 DEF Registered, Mapped, TypeInv, MapInv
  <2>3. UniqueInv'
    BY <2>1, <2>2 DEF RegInv, UniqueInv
  <2>4. UsedInv'
    BY <1>3, <2>1, <2>2 DEF RegInv, UsedInv, TypeInv, TableInv
  <2>5. \A j \in Registered : j # Absent
    BY MarkAssumption DEF Registered
  <2>6. SoundInv'
    BY <1>3, <2>1, <2>2, <2>5 DEF RegInv, SoundInv
  <2> QED BY <1>3, <2>3, <2>4, <2>6 DEF RegInv
<1> QED BY <1>4, <1>5, <1>6 DEF StartUp

LEMMA RegInit ==
    ASSUME Init
    PROVE  RegInv
<1>1. Mapped = {} /\ \A c \in Clients : client[c] = Idle
  BY DEF Init, Mapped
<1>2. \A i \in Registered : i # Absent
  BY MarkAssumption DEF Registered
<1>3. UsedInv /\ SoundInv /\ RemovedInv
  BY <1>1, <1>2, IdleFields DEF UsedInv, SoundInv, RemovedInv, Heading
<1>4. UniqueInv
  BY DEF Init, UniqueInv
<1> QED BY <1>3, <1>4 DEF RegInv

LEMMA RegNext ==
    ASSUME TypeInv, RegInv, [Next]_vars
    PROVE  RegInv'
<1>1. CASE StartUp
  BY <1>1, StartUpReg
<1>2. CASE Crash
  BY <1>2, RegFrame DEF Crash, table, Mapped
<1>3. ASSUME NEW c \in Clients, Request(c)
      PROVE  RegInv'
  BY <1>3, RequestReg
<1>4. ASSUME NEW c \in Clients, Lock(c) \/ Handle(c)
      PROVE  RegInv'
  <2>1. UniqueInv' /\ UsedInv'
    BY <1>4, HandlerUnique, HandlerUsed DEF RegInv
  <2>2. SoundInv' /\ RemovedInv'
    BY <1>4, HandlerSound, HandlerRemoved DEF RegInv
  <2> QED BY <2>1, <2>2 DEF RegInv
<1>5. ASSUME NEW c \in Clients, StepFails(c) \/ Disconnect(c)
      PROVE  RegInv'
  <2>1. UNCHANGED <<registry, used, runners>> /\ Return(c)
    BY <1>5 DEF StepFails, Disconnect, table, memory
  <2>2. \A d \in Clients : client'[d] = client[d] \/ client'[d] = Idle
    BY <2>1, ReturnIs DEF TypeInv
  <2> QED BY <2>1, <2>2, RegFrame DEF Mapped
<1>6. ASSUME NEW t \in Tasks, Install(t) \/ TaskStops(t) \/ ScanFails(t) \/ Reap(t)
      PROVE  RegInv'
  <2>1. UNCHANGED <<registry, used, runners, client>>
    BY <1>6 DEF Install, TaskStops, ScanFails, Reap, table
  <2> QED BY <2>1, RegFrame DEF Mapped
<1>7. ASSUME NEW p \in Paths, MovePath(p)
      PROVE  RegInv'
  <2>1. UNCHANGED <<registry, used, runners, client>>
    BY <1>7 DEF MovePath, table, memory
  <2> QED BY <2>1, RegFrame DEF Mapped
<1>8. CASE UNCHANGED vars
  BY <1>8, RegFrame DEF vars, table, memory, Mapped
<1>9. CASE OrphansStay
  BY <1>9, RegFrame DEF OrphansStay, table, memory, Mapped
<1> QED BY <1>1, <1>2, <1>3, <1>4, <1>5, <1>6, <1>7, <1>8, <1>9 DEF Next

LEMMA RegAlways == Spec => [](TypeInv /\ RegInv)
<1>1. Init => TypeInv /\ RegInv
  BY TypeInit, RegInit
<1>2. TypeInv /\ RegInv /\ [Next]_vars => (TypeInv /\ RegInv)'
  BY TypeNext, RegNext
<1> QED BY <1>1, <1>2, PTL DEF Spec

-----------------------------------------------------------------------------
(* A directory goes after its row.                                         *)

\* Only the last step of a terminate takes a directory away while the daemon
\* serves, and its row is gone by then whoever else was at work on the vault.
LEMMA DirStep ==
    ASSUME TypeInv, RegInv, [Next]_vars, NEW i \in dirs \ dirs', daemon = "serving"
    PROVE  i \notin Registered
<1>1. CASE \E c \in Clients : RemoveDir(c)
  <2>1. PICK c \in Clients : RemoveDir(c)
    BY <1>1
  <2>2. At(c, "rmdir") /\ i = client[c].id
    BY <2>1 DEF RemoveDir
  <2> QED BY <2>2 DEF RegInv, RemovedInv, Heading, At
<1>2. CASE StartUp \/ OrphansStay \/ Crash \/ UNCHANGED vars \/ \E p \in Paths : MovePath(p)
  BY <1>2 DEF StartUp, ReconcileRows, ReconcileDirs, Serve, StartVault, OrphansStay, Crash,
              vars, disk, MovePath
<1>3. CASE \E t \in Tasks : Install(t) \/ TaskStops(t) \/ ScanFails(t) \/ Reap(t)
  BY <1>3 DEF Install, TaskStops, ScanFails, Reap, disk
<1>4. ASSUME NEW c \in Clients, Request(c) \/ StepFails(c) \/ Disconnect(c) \/ Lock(c)
      PROVE  FALSE
  BY <1>4, RequestStep, SMTT(30) DEF StepFails, Disconnect, Lock, disk
<1>5. ASSUME NEW c \in Clients, Handle(c), ~RemoveDir(c)
      PROVE  FALSE
  BY <1>5 DEF Handle, Unmap, TakeBootstrap, JoinBootstrap, DrainConsumer,
              SignalRescan, RebuildIndex, UpdateStatus, Reread, OpenStore, Spawn, Publish,
              CheckFree, Insert, CreateSubdir, UpdateName, WriteMeta, DeleteRow, disk
<1> QED BY <1>1, <1>2, <1>3, <1>4, <1>5 DEF Next

\* terminate removes the row before the directory, also against every operation that
\* runs beside it: what a serving daemon removes belongs to no row.
THEOREM DirsGoLast == Spec => DirGoesAfterRow
<1>1. TypeInv /\ RegInv /\ [Next]_vars =>
         [\A i \in dirs \ dirs' : daemon = "serving" => i \notin Registered]_vars
  BY DirStep
<1> QED BY <1>1, RegAlways, PTL DEF Spec, DirGoesAfterRow

-----------------------------------------------------------------------------
(* The refinement of VaultLifecycle: what the abstract lifecycle sees of   *)
(* the registry, and the step of it that each step of the daemon is.       *)

Seen == [i \in Ids |-> IF i \in Registered THEN registry[i]
                       ELSE IF i \in used THEN Ended ELSE Absent]

Mapping == [Lifecycle!Next]_(Lifecycle!vars)

LEMMA SeenIs ==
    ASSUME TypeInv
    PROVE  /\ Lifecycle!Registered = Registered
           /\ Seen = [i \in Ids |-> Seen[i]] /\ Seen' = [i \in Ids |-> Seen'[i]]
           /\ \A i \in Registered : Seen[i] = registry[i] /\ Seen[i] \in Rows
           /\ \A i \in Ids \ used : Seen[i] = Absent
<1>1. \A i \in Registered : registry[i] \in Rows
  BY DEF TypeInv, TableInv, Registered, Maybe
<1>2. \A i \in Registered : registry[i] \notin {Absent, Ended}
  BY <1>1, AbsentAssumption DEF Maybe
<1>3. Lifecycle!Registered = Registered
  <2>1. \A i \in Ids : /\ i \in Registered => Seen[i] = registry[i]
                       /\ i \notin Registered => Seen[i] \in {Ended, Absent}
    BY DEF Seen
  <2>2. Lifecycle!Registered = {i \in Ids : Seen[i] \notin {Absent, Ended}}
    BY DEF Lifecycle!Registered, Seen
  <2> QED BY <1>2, <2>1, <2>2 DEF Registered
<1>4. Registered \subseteq used
  BY DEF TypeInv, TableInv
<1> QED BY <1>1, <1>3, <1>4 DEF Seen, Registered

\* The state as the lifecycle sees it is unchanged.
LEMMA SameSight ==
    ASSUME UNCHANGED <<registry, used>>, (daemon = "serving") <=> (daemon' = "serving")
    PROVE  Mapping
<1>1. Seen' = Seen
  BY DEF Seen, Registered
<1>2. (daemon = "serving")' = (daemon = "serving")
  OBVIOUS
<1> QED BY <1>1, <1>2 DEF Mapping, Lifecycle!vars, Seen

LEMMA SwitchSeen ==
    ASSUME UNCHANGED <<registry, used>>, (daemon' = "serving") <=> ~(daemon = "serving")
    PROVE  Mapping
<1>1. Seen' = Seen
  BY DEF Seen, Registered
<1>2. (daemon = "serving")' = ~(daemon = "serving")
  OBVIOUS
<1>3. Lifecycle!Switch
  BY <1>1, <1>2 DEF Lifecycle!Switch, Seen
<1> QED BY <1>3 DEF Mapping, Lifecycle!Next

LEMMA ReconcileSeen ==
    ASSUME TypeInv, ReconcileRows
    PROVE  Mapping
<1>1. PICK S \in SUBSET Registered :
         \A i \in Registered : i \in S <=> /\ registry[i].status = "active"
                                           /\ registry[i].path \notin accessible
  <2>1. {i \in Registered : /\ registry[i].status = "active"
                            /\ registry[i].path \notin accessible} \in SUBSET Registered
    OBVIOUS
  <2> QED BY <2>1
<1>2. \A i \in Ids : registry'[i] = IF i \in S THEN [registry[i] EXCEPT !.status = "errored"]
                                    ELSE registry[i]
  BY <1>1 DEF ReconcileRows
<1>3. \A i \in S : [registry[i] EXCEPT !.status = "errored"] # Absent
  <2>1. \A i \in S : registry[i] \in Rows
    BY DEF TypeInv, TableInv, Registered, Maybe
  <2>2. \A i \in S : [registry[i] EXCEPT !.status = "errored"] \in Rows
    BY <2>1 DEF Rows, Statuses
  <2> QED BY <2>2, AbsentAssumption
<1>4. S \subseteq Ids /\ UNCHANGED used
  BY DEF Registered, ReconcileRows
<1>5. Registered' = Registered
  BY <1>2, <1>3, <1>4 DEF Registered
<1>6. \A i \in S : Seen[i].status = "active"
  BY <1>1, SeenIs
<1>7. \A i \in Ids : Seen'[i] = IF i \in S THEN [Seen[i] EXCEPT !.status = "errored"]
                                ELSE Seen[i]
  BY <1>2, <1>4, <1>5 DEF Seen
<1>8. Seen' = [i \in Ids |-> IF i \in S THEN [Seen[i] EXCEPT !.status = "errored"]
                             ELSE Seen[i]]
  BY <1>7, SeenIs
<1>9. daemon # "serving" /\ daemon' # "serving"
  BY DEF ReconcileRows
<1>10. Lifecycle!Reconcile(S)
  BY <1>6, <1>8, <1>9 DEF Lifecycle!Reconcile, Seen
<1>11. S \in SUBSET Lifecycle!Registered
  BY SeenIs
<1>12. Lifecycle!Next
  BY <1>10, <1>11, Zenon DEF Lifecycle!Next
<1> QED BY <1>12 DEF Mapping

\* One row is written while the daemon serves.
LEMMA RowWritten ==
    ASSUME TypeInv, NEW i \in Ids, NEW v, registry' = [registry EXCEPT ![i] = v],
           used' = used \cup {i}, v # Absent, i \in Registered \cup (Ids \ used),
           daemon = "serving", UNCHANGED daemon
    PROVE  Seen' = [Seen EXCEPT ![i] = v]
<1>1. /\ \A j \in Ids : registry'[j] = IF j = i THEN v ELSE registry[j]
  BY DEF TypeInv, TableInv
<1>2. \A j \in Ids : j # i => (j \in Registered' <=> j \in Registered)
  BY <1>1 DEF Registered
<1>3. i \in Registered'
  BY <1>1 DEF Registered
<1>4. \A j \in Ids : Seen'[j] = IF j = i THEN v ELSE Seen[j]
  BY <1>1, <1>2, <1>3 DEF Seen
<1>5. [Seen EXCEPT ![i] = v] = [j \in Ids |-> IF j = i THEN v ELSE Seen[j]]
  BY DEF Seen
<1> QED BY <1>4, <1>5, SeenIs

LEMMA InsertSeen ==
    ASSUME TypeInv, UsedInv, NEW c \in Clients, At(c, "insert"), client'[c].id \in Ids \ used,
           Named(client[c].row.name) = {}, AtPath(client[c].row.path) = {},
           registry' = [registry EXCEPT ![client'[c].id] = client[c].row],
           used' = used \cup {client'[c].id}, UNCHANGED daemon
    PROVE  Mapping
<1>1. ClientInv /\ daemon = "serving"
  BY DEF TypeInv, At
<1>2. PICK row \in Rows : row = client[c].row /\ row.status = "active"
  BY <1>1, AtIs DEF Creates, TerminationStep, OperationStep
<1>3. PICK i \in Ids \ used : i = client'[c].id
  OBVIOUS
<1>4. row # Absent
  BY <1>2, AbsentAssumption
<1>5. Seen' = [Seen EXCEPT ![i] = row] /\ Seen[i] = Absent
  BY <1>1, <1>2, <1>3, <1>4, RowWritten, SeenIs
<1>6. PICK n \in Names, p \in Paths : row = [name |-> n, path |-> p, status |-> "active"]
  BY <1>2 DEF Rows
<1>7. \A j \in Registered : Seen[j].name # n /\ Seen[j].path # p
  BY <1>2, <1>6, SeenIs DEF Named, AtPath
<1>8. Lifecycle!Unused(i, n, p)
  BY <1>7, SeenIs DEF Lifecycle!Unused, Seen
<1>9. Lifecycle!Create(i, n, p)
  BY <1>1, <1>5, <1>6, <1>8 DEF Lifecycle!Create, Seen
<1>10. Lifecycle!Next
  BY <1>3, <1>6, <1>9, Zenon DEF Lifecycle!Next
<1> QED BY <1>10 DEF Mapping

LEMMA StatusSeen ==
    ASSUME TypeInv, SoundInv, NEW c \in Clients, At(c, "status"),
           client[c].id \in Registered, UNCHANGED <<used, daemon>>,
           registry' = [registry EXCEPT ![client[c].id].status =
                          IF client[c].op = "pause" THEN "paused" ELSE "active"]
    PROVE  Mapping
<1>1. ClientInv /\ daemon = "serving"
  BY DEF TypeInv, At
<1>2. PICK i \in Registered : i = client[c].id
  OBVIOUS
<1>3. PICK s \in {"paused", "active"} :
         /\ s = IF client[c].op = "pause" THEN "paused" ELSE "active"
         /\ registry' = [registry EXCEPT ![i].status = s]
  BY <1>2
<1>4. i \in Ids /\ i \in used /\ registry[i] \in Rows /\ Seen[i] = registry[i]
  BY SeenIs DEF TypeInv, TableInv, Registered
<1>5. PICK v \in Rows : v = [registry[i] EXCEPT !.status = s]
  BY <1>4 DEF Rows, Statuses
<1>6. registry' = [registry EXCEPT ![i] = v] /\ v # Absent /\ used' = used \cup {i}
  BY <1>3, <1>4, <1>5, AbsentAssumption, ZenonT(60)
<1>7. Seen' = [Seen EXCEPT ![i] = v]
  BY <1>1, <1>2, <1>4, <1>6, RowWritten
<1>8. CASE registry[i].status = s
  <2>1. v = registry[i]
    BY <1>4, <1>5, <1>8 DEF Rows
  <2>2. UNCHANGED registry
    BY <1>6, <2>1 DEF TypeInv, TableInv
  <2> QED BY <2>2, SameSight
<1>9. CASE registry[i].status # s
  <2>1. Seen' = [Seen EXCEPT ![i].status = s]
    BY <1>4, <1>5, <1>7
  <2>2. i \in Lifecycle!Registered /\ i \in Ids
    BY <1>4, SeenIs
  <2>3. CASE s = "active"
    <3>1. Seen[i].status \in {"paused", "errored"}
      BY <1>4, <1>9, <2>3 DEF Rows, Statuses
    <3>2. Lifecycle!Activate(i)
      BY <1>1, <2>1, <2>2, <2>3, <3>1 DEF Lifecycle!Activate, Seen
    <3>3. Lifecycle!Next
      BY <2>2, <3>2, Zenon DEF Lifecycle!Next
    <3> QED BY <3>3 DEF Mapping
  <2>4. CASE s = "paused"
    <3>1. client[c].op = "pause"
      BY <1>3, <2>4
    <3>2. client[c].runner # Absent
      BY <1>1, <3>1, AtIs DEF Creates, Terminates, Operates
    <3>3. registry[i].status # "errored"
      BY <1>2, <3>2 DEF SoundInv, Trusts
    <3>4. Seen[i].status = "active"
      BY <1>4, <1>9, <2>4, <3>3 DEF Rows, Statuses
    <3>5. Lifecycle!Pause(i)
      BY <1>1, <2>1, <2>2, <2>4, <3>4 DEF Lifecycle!Pause, Seen
    <3>6. Lifecycle!Next
      BY <2>2, <3>5, Zenon DEF Lifecycle!Next
    <3> QED BY <3>6 DEF Mapping
  <2> QED BY <2>3, <2>4
<1> QED BY <1>8, <1>9

LEMMA NameSeen ==
    ASSUME TypeInv, UniqueInv, NEW c \in Clients, At(c, "update"),
           client[c].id \in Registered, Named(client[c].arg) \subseteq {client[c].id},
           UNCHANGED <<used, daemon>>,
           registry' = [registry EXCEPT ![client[c].id].name = client[c].arg]
    PROVE  Mapping
<1>1. ClientInv /\ daemon = "serving"
  BY DEF TypeInv, At
<1>2. PICK i \in Registered : i = client[c].id
  OBVIOUS
<1>3. PICK n \in Names : n = client[c].arg
  BY <1>1, AtIs DEF CreationStep, TerminationStep, OperationStep, Operates
<1>4. i \in Ids /\ i \in used /\ registry[i] \in Rows /\ Seen[i] = registry[i]
  BY SeenIs DEF TypeInv, TableInv, Registered
<1>5. PICK v \in Rows : v = [registry[i] EXCEPT !.name = n]
  BY <1>4 DEF Rows
<1>6. registry' = [registry EXCEPT ![i] = v] /\ v # Absent /\ used' = used \cup {i}
  BY <1>2, <1>3, <1>4, <1>5, AbsentAssumption
<1>7. Seen' = [Seen EXCEPT ![i] = v]
  BY <1>1, <1>2, <1>4, <1>6, RowWritten
<1>8. Seen' = [Seen EXCEPT ![i].name = n]
  BY <1>4, <1>5, <1>7
<1>9. \A j \in Registered \ {i} : Seen[j].name # n /\ Seen[j].path # Seen[i].path
  BY <1>2, <1>3, SeenIs DEF Named, UniqueInv
<1>10. Lifecycle!Unused(i, n, Seen[i].path)
  BY <1>9, SeenIs DEF Lifecycle!Unused, Seen
<1>11. i \in Lifecycle!Registered
  BY SeenIs
<1>12. Lifecycle!Rename(i, n)
  BY <1>1, <1>8, <1>10, <1>11 DEF Lifecycle!Rename, Seen
<1>13. Lifecycle!Next
  BY <1>4, <1>12, Zenon DEF Lifecycle!Next
<1> QED BY <1>13 DEF Mapping

LEMMA DeleteSeen ==
    ASSUME TypeInv, NEW c \in Clients, At(c, "delete"),
           registry' = [registry EXCEPT ![client[c].id] = Absent],
           UNCHANGED <<used, daemon>>
    PROVE  Mapping
<1>1. PICK i \in Ids : i = client[c].id
  BY AtVault
<1>2. \A j \in Ids : registry'[j] = IF j = i THEN Absent ELSE registry[j]
  BY <1>1 DEF TypeInv, TableInv
<1>3. Registered' = Registered \ {i}
  BY <1>2 DEF Registered
<1>4. CASE i \in Registered
  <2>1. i \in used
    BY <1>4 DEF TypeInv, TableInv
  <2>2. \A j \in Ids : Seen'[j] = IF j = i THEN Ended ELSE Seen[j]
    BY <1>2, <1>3, <2>1 DEF Seen
  <2>3. Seen' = [Seen EXCEPT ![i] = Ended]
    <3>1. [Seen EXCEPT ![i] = Ended] = [j \in Ids |-> IF j = i THEN Ended ELSE Seen[j]]
      BY DEF Seen
    <3> QED BY <2>2, <3>1, SeenIs
  <2>4. daemon = "serving" /\ i \in Lifecycle!Registered
    BY <1>4, SeenIs DEF At
  <2>5. Lifecycle!Terminate(i)
    BY <2>3, <2>4 DEF Lifecycle!Terminate, Seen
  <2>6. Lifecycle!Next
    BY <2>5, Zenon DEF Lifecycle!Next
  <2> QED BY <2>6 DEF Mapping
<1>5. CASE i \notin Registered
  <2>1. Registered' = Registered /\ \A j \in Registered : registry'[j] = registry[j]
    BY <1>2, <1>3, <1>5 DEF Registered
  <2>2. \A j \in Ids : Seen'[j] = Seen[j]
    BY <2>1 DEF Seen
  <2>3. Seen' = Seen
    BY <2>2, SeenIs
  <2>4. (daemon = "serving")' = (daemon = "serving")
    OBVIOUS
  <2> QED BY <2>3, <2>4 DEF Mapping, Lifecycle!vars, Seen
<1> QED BY <1>4, <1>5

LEMMA StepSeen ==
    ASSUME TypeInv, RegInv, [Next]_vars
    PROVE  Mapping
<1>1. CASE StartUp
  <2>1. CASE ReconcileRows
    BY <2>1, ReconcileSeen
  <2>2. CASE Serve
    BY <2>2, SwitchSeen DEF Serve, table
  <2>3. CASE ReconcileDirs \/ \E i \in Ids : StartVault(i)
    BY <2>3, SameSight DEF ReconcileDirs, StartVault, table
  <2> QED BY <1>1, <2>1, <2>2, <2>3 DEF StartUp
<1>2. CASE Crash
  BY <1>2, SwitchSeen, SameSight DEF Crash, table
<1>3. ASSUME NEW c \in Clients, Request(c) \/ StepFails(c) \/ Disconnect(c)
      PROVE  Mapping
  BY <1>3, RequestStep, SameSight DEF StepFails, Disconnect, table
<1>4. ASSUME NEW c \in Clients, Lock(c) \/ Handle(c)
      PROVE  Mapping
  <2>1. RegistryStep(c) /\ UNCHANGED daemon
    BY <1>4, RegistrySteps, HandlerStep
  <2> QED BY <2>1, SameSight, InsertSeen, StatusSeen, NameSeen, DeleteSeen
          DEF RegistryStep, RegInv
<1>5. CASE \/ \E t \in Tasks : Install(t) \/ TaskStops(t) \/ ScanFails(t) \/ Reap(t)
           \/ (\E p \in Paths : MovePath(p)) \/ OrphansStay
           \/ UNCHANGED vars
  BY <1>5, SameSight DEF Install, TaskStops, ScanFails, Reap, MovePath, OrphansStay, vars, table
<1> QED BY <1>1, <1>2, <1>3, <1>4, <1>5 DEF Next

LEMMA InitSeen ==
    ASSUME Init
    PROVE  Lifecycle!Init
<1>1. TypeInv /\ daemon # "serving"
  BY TypeInit DEF Init
<1>2. PICK R \in SUBSET Ids :
        \E f \in [R -> [name : Names, path : Paths, status : {"active", "paused"}]] :
            registry = [i \in Ids |-> IF i \in R THEN f[i] ELSE Absent]
  BY DEF Init
<1>3. PICK f \in [R -> [name : Names, path : Paths, status : {"active", "paused"}]] :
            registry = [i \in Ids |-> IF i \in R THEN f[i] ELSE Absent]
  BY <1>2
<1>4. \A i \in R : f[i] # Absent
  BY AbsentAssumption DEF Rows, Statuses
<1>5. Registered = R /\ used = R
  BY <1>3, <1>4 DEF Init, Registered
<1>6. \A i \in Ids : Seen[i] = IF i \in R THEN f[i] ELSE Absent
  BY <1>3, <1>5 DEF Seen
<1>7. Seen = [i \in Ids |-> IF i \in R THEN f[i] ELSE Absent]
  BY <1>1, <1>6, SeenIs
<1>8. \A i \in Registered : \A j \in Registered \ {i} :
         Seen[j].name # Seen[i].name /\ Seen[j].path # Seen[i].path
  BY <1>1, SeenIs, ZenonT(60) DEF Init
<1>9. \A i \in Lifecycle!Registered : Lifecycle!Unused(i, Seen[i].name, Seen[i].path)
  BY <1>1, <1>8, SeenIs DEF Lifecycle!Unused, Seen
<1> QED BY <1>1, <1>7, <1>9 DEF Lifecycle!Init, Seen

\* However operations interleave, fail, are dropped or cut off by a crash, the registry
\* keeps the lifecycle promised to clients: unique names and paths, no way back from
\* termination, no id used twice, errored only at start-up.
THEOREM RegistryKeepsLifecycle == Spec => KeepsLifecycle
<1>1. Init => Lifecycle!Init
  BY InitSeen
<1>2. TypeInv /\ RegInv /\ [Next]_vars => [Lifecycle!Next]_(Lifecycle!vars)
  BY StepSeen DEF Mapping
<1> QED BY <1>1, <1>2, RegAlways, PTL DEF Spec, KeepsLifecycle, Lifecycle!Spec

-----------------------------------------------------------------------------
(* Undisturbed operations.  Whoever holds op_lock is alone; a task that    *)
(* runs can be reached from its runner's slots, or by the holder that has  *)
(* just taken it out; and an entry that is not active has no task, unless  *)
(* a resume that holds the lock has spawned one and not yet published it.  *)

On(t, r)    == Running(t) /\ task[t].runner = r
Holds(c, r) == client[c].locked /\ client[c].runner = r

LockInv ==
    \A c, d \in Clients :
        client[c].locked /\ client[d].locked /\ client[c].runner = client[d].runner => c = d

\* Every operation but a create found its vault in the map, and whether it is still
\* there only a terminate decides.
FoundInv ==
    /\ Mapped \subseteq Registered
    /\ \A c \in Clients : client[c].op \in Others =>
          client[c].runner # Absent /\ runners[client[c].id] \in {Absent, client[c].runner}
    /\ \A c \in Clients : client[c].op = "terminate" /\ Head(client[c].plan) # "unmap" =>
          client[c].id \notin Mapped
    /\ \A c \in Clients : client[c].op = "create" /\ client[c].id # Absent =>
          /\ client[c].id \in Registered \ Mapped
          /\ \A d \in Clients : client[d].id = client[c].id => d = c

OneTask(i) == \A t, u \in Tasks : On(t, runners[i]) /\ On(u, runners[i]) => t = u

Reached(i) ==
    \A t \in Tasks : On(t, runners[i]) =>
        /\ task[t].stage = "scanning" =>
              \/ runner[runners[i]].boot = t
              \/ \E c \in Clients : Holds(c, runners[i]) /\ Heading(client[c], {"join"})
        /\ task[t].stage = "live" =>
              \/ runner[runners[i]].life = t
              \/ \E c \in Clients : Holds(c, runners[i]) /\ Heading(client[c], {"drain"})

\* Past the shutdown, and before the spawn.
Drained(k) ==
    \/ k.op = "pause" /\ Heading(k, {"status", "publish"})
    \/ k.op \in {"reset", "rebuild"}
          /\ Heading(k, {"rebuild", "status", "reread", "open", "spawn"})
    \/ k.op = "resume" /\ Heading(k, {"open", "spawn"})

\* What the holder `k` of the lock of vault `i` knows.
Knows(i, k) ==
    /\ Heading(k, {"join"}) =>
          \A t \in Tasks : On(t, runners[i]) /\ task[t].stage = "scanning" => t = k.wait
    /\ Heading(k, {"drain"}) => \A t \in Tasks : On(t, runners[i]) => t = k.wait
    /\ Drained(k) => \A t \in Tasks : ~On(t, runners[i])
    /\ k.op \in {"reset", "rebuild"} /\ Heading(k, {"reread"}) =>
          registry[i].status = "active"
    /\ k.op \in {"reset", "rebuild"} /\ Heading(k, {"open", "spawn"}) =>
          k.row.status = "active"

Resuming(k) == k.op = "resume" /\ Heading(k, {"status", "publish"})

EntryTrue(i) ==
    runner[runners[i]].status # "active" =>
        \/ \A t \in Tasks : ~On(t, runners[i])
        \/ \E c \in Clients : Holds(c, runners[i]) /\ Resuming(client[c])

Kept(i) ==
    /\ OneTask(i) /\ Reached(i) /\ EntryTrue(i)
    /\ \A c \in Clients : Holds(c, runners[i]) => Knows(i, client[c])

Calm == LockInv /\ FoundInv /\ \A i \in Mapped : Kept(i)

LEMMA OthersAre ==
    Others = {"pause", "resume", "rename", "reset", "rebuild", "rescan"}
<1> QED BY DEF Others, Operations

\* A runner in the map is that of one vault, and so is a handler that refers to it.
LEMMA MapIsInjective ==
    ASSUME TypeInv, NEW i \in Mapped
    PROVE  /\ i \in Ids /\ runners[i] \in Runners /\ runners[i] # Absent
           /\ runner[runners[i]] \in RunnerValues
           /\ \A j \in Mapped : runners[j] = runners[i] => j = i
           /\ \A c \in Clients : client[c].runner = runners[i] => client[c].id = i
<1> QED BY DEF TypeInv, MapInv, HeldInv, Mapped, Maybe

\* Under a calm history the map changes only by a terminate and by a create.
LEMMA HandlerKinds ==
    ASSUME TypeInv, FoundInv, NEW c \in Clients, client[c].plan # <<>>
    PROVE  /\ client[c] \in Requests
           /\ \/ /\ Creates(client[c]) /\ CreationStep(client[c].plan)
              \/ /\ Terminates(client[c]) /\ TerminationStep(client[c].plan)
              \/ /\ client[c].op \in Others /\ client[c].runner \in Runners
                 /\ client[c].id \in Ids
                 /\ OperationStep(client[c].op, TRUE, client[c].plan)
                 /\ client[c].locked <=> Head(client[c].plan) # "lock"
<1>1. ClientOk(client[c]) /\ client[c] \in Requests
  BY DEF TypeInv, ClientInv
<1>2. PICK k : k = client[c]
  OBVIOUS
<1>3. CASE Operates(k) /\ OperationStep(k.op, k.runner # Absent, k.plan)
  <2>1. k.op \in Others /\ k.runner # Absent /\ k.id \in Ids
    BY <1>2, <1>3 DEF Operates, FoundInv
  <2>2. OperationStep(k.op, TRUE, k.plan)
    BY <1>3, <2>1 DEF OperationStep
  <2> QED BY <1>1, <1>2, <1>3, <2>1, <2>2 DEF Operates, Requests, Maybe
<1> QED BY <1>1, <1>2, <1>3, BusyKinds

\* A client without operation refers to nothing.
LEMMA IdleIsNobody ==
    ASSUME NEW k, k = Idle
    PROVE  ~k.locked /\ k.op \notin Operations /\ k.id = Absent /\ k.plan = <<>>
           /\ k.runner = Absent
<1> QED BY OpsAssumption, IdleFields

LEMMA OthersOperate ==
    ASSUME TypeInv, NEW d \in Clients, client[d].op \in Others
    PROVE  Operates(client[d]) /\ client[d].id \in Ids /\ client[d].plan # <<>>
<1>1. PICK k : k = client[d]
  OBVIOUS
<1>2. ClientOk(k) /\ k.op \in Others /\ k # Idle
  BY <1>1, IdleIsNobody DEF TypeInv, ClientInv, Others
<1>3. ~Creates(k) /\ ~Terminates(k)
  BY <1>2 DEF Others, Creates, Terminates
<1>4. Operates(k)
  BY <1>2, <1>3 DEF ClientOk
<1>5. k.id \in Ids /\ k.plan # <<>>
  BY <1>2, <1>4, NotBusyIsIdle DEF Operates
<1> QED BY <1>1, <1>4, <1>5

-----------------------------------------------------------------------------
(* op_lock is held by one handler at a time.                               *)

LEMMA HandlerLock ==
    ASSUME TypeInv, FoundInv, LockInv, NEW c \in Clients, Lock(c) \/ Handle(c)
    PROVE  LockInv'
<1>1. /\ daemon = "serving" /\ client[c].plan # <<>>
      /\ \A d \in Clients : d # c => client'[d] = client[d]
      /\ client'[c] = Idle \/ Onward(c, client[c], client'[c])
  BY HandlerStep, SMTT(30)
<1>2. Head(client[c].plan) = "lock" =>
         \A d \in Clients : ~(client[d].locked /\ client[d].runner = client[c].runner)
  BY <1>1 DEF Lock, Handle, Unmap, TakeBootstrap, JoinBootstrap, DrainConsumer, SignalRescan,
         RebuildIndex, UpdateStatus, Reread, OpenStore, Spawn, Publish, CheckFree, Insert,
         CreateSubdir, UpdateName, WriteMeta, DeleteRow, RemoveDir, At
<1>3. Head(client[c].plan) = "unmap" => ~client[c].locked
  BY <1>1, HandlerKinds DEF Terminates, CreationStep, OperationStep
<1>4. client'[c].locked => /\ client[c].locked \/ Head(client[c].plan) = "lock"
                           /\ client'[c].runner = client[c].runner
  BY <1>1, <1>3, IdleFields DEF Onward
<1>5. ASSUME NEW d \in Clients, d # c, client'[d].locked, client'[c].locked,
             client'[d].runner = client'[c].runner
      PROVE  FALSE
  BY <1>1, <1>2, <1>4, <1>5 DEF LockInv
<1> QED BY <1>1, <1>5 DEF LockInv

\* Handlers only go, or arrive without the lock.
LEMMA LockFrame ==
    ASSUME LockInv, \A d \in Clients : client'[d] = client[d] \/ ~client'[d].locked
    PROVE  LockInv'
<1> QED BY DEF LockInv

-----------------------------------------------------------------------------
(* What handlers found stays found.                                        *)

LEMMA FoundFrame ==
    ASSUME FoundInv, UNCHANGED registry, \A i \in Ids : runners'[i] \in {runners[i], Absent},
           \A d \in Clients : client'[d] = client[d] \/ client'[d] = Idle,
           TypeInv
    PROVE  FoundInv'
<1>1. Registered' = Registered /\ Mapped' \subseteq Mapped
  BY DEF Registered, Mapped
<1>2. ASSUME NEW d \in Clients, client'[d].op \in Operations
      PROVE  client'[d] = client[d]
  BY <1>2, IdleIsNobody
<1>3. \A d \in Clients : client'[d].id # Absent => client'[d] = client[d]
  BY IdleIsNobody
<1>4. ASSUME NEW d \in Clients, client'[d].op \in Others
      PROVE  client'[d].runner # Absent /\ runners'[client'[d].id] \in {Absent, client'[d].runner}
  <2>1. client'[d] = client[d]
    BY <1>2, <1>4 DEF Others
  <2>2. client[d].id \in Ids
    BY <1>4, <2>1, OthersOperate
  <2> QED BY <1>4, <2>1, <2>2 DEF FoundInv
<1>5. ASSUME NEW d \in Clients, client'[d].op = "terminate", Head(client'[d].plan) # "unmap"
      PROVE  client'[d].id \notin Mapped'
  BY <1>1, <1>2, <1>5 DEF FoundInv, Operations
<1>6. ASSUME NEW d \in Clients, client'[d].op = "create", client'[d].id # Absent
      PROVE  /\ client'[d].id \in Registered' \ Mapped'
             /\ \A e \in Clients : client'[e].id = client'[d].id => e = d
  <2>1. client'[d] = client[d]
    BY <1>3, <1>6
  <2>2. client[d].id \in Registered \ Mapped
    BY <1>6, <2>1 DEF FoundInv
  <2>3. ASSUME NEW e \in Clients, client'[e].id = client'[d].id
        PROVE  e = d
    <3>1. client'[e] = client[e]
      BY <1>3, <1>6, <2>3
    <3> QED BY <1>6, <2>1, <2>3, <3>1 DEF FoundInv
  <2> QED BY <1>1, <2>1, <2>2, <2>3
<1> QED BY <1>1, <1>4, <1>5, <1>6 DEF FoundInv

LEMMA RequestFound ==
    ASSUME TypeInv, FoundInv, NEW c \in Clients, Request(c), count'.unmapped = 0
    PROVE  FoundInv'
<1> DEFINE m == client'[c]
<1>1. /\ UNCHANGED <<registry, runners>>
      /\ \A d \in Clients : d # c => client'[d] = client[d]
      /\ Fresh(m) /\ m.id \notin Ids \ Mapped
  BY RequestStep
<1>2. Registered' = Registered /\ Mapped' = Mapped
  BY <1>1 DEF Registered, Mapped
<1>3. m.id # Absent => m.id \in Mapped
  BY <1>1 DEF Fresh, Registered, Mapped
<1>4. m.op \in Others => m.runner # Absent /\ runners[m.id] = m.runner
  <2>1. m.op \in Others => m.runner = runners[m.id] /\ m.id \in Registered
    BY <1>1 DEF Fresh, Others
  <2> QED BY <1>1, <2>1 DEF Mapped, Registered
<1>5. m.op = "terminate" => Head(m.plan) = "unmap"
  BY <1>1 DEF Fresh, Others
<1>6. m.op = "create" => m.id = Absent
  BY <1>1 DEF Fresh, Others
<1>7. Mapped' \subseteq Registered'
  BY <1>2 DEF FoundInv
<1>8. ASSUME NEW d \in Clients, client'[d].op = "create", client'[d].id # Absent
      PROVE  /\ client'[d].id \in Registered' \ Mapped'
             /\ \A e \in Clients : client'[e].id = client'[d].id => e = d
  <2>1. d # c /\ client'[d] = client[d]
    BY <1>1, <1>6, <1>8
  <2>2. client[d].id \in Registered \ Mapped
    BY <1>8, <2>1 DEF FoundInv
  <2>3. ASSUME NEW e \in Clients, client'[e].id = client'[d].id
        PROVE  e = d
    <3>1. e # c
      BY <1>3, <1>8, <2>1, <2>2, <2>3
    <3> QED BY <1>1, <1>8, <2>1, <2>3, <3>1 DEF FoundInv
  <2> QED BY <1>2, <2>1, <2>2, <2>3
<1> QED BY <1>1, <1>2, <1>4, <1>5, <1>7, <1>8 DEF FoundInv

LEMMA HandlerFound ==
    ASSUME TypeInv, RegInv, FoundInv, NEW c \in Clients, Lock(c) \/ Handle(c)
    PROVE  FoundInv'
<1> DEFINE k == client[c]
           m == client'[c]
<1>1. /\ daemon = "serving" /\ k.plan # <<>>
      /\ \A d \in Clients : d # c => client'[d] = client[d]
      /\ m = Idle \/ Onward(c, k, m)
      /\ RegistryStep(c) /\ MapStep(c)
  BY HandlerStep, RegistrySteps, MapSteps
<1>2. /\ k \in Requests
      /\ \/ Creates(k) /\ CreationStep(k.plan)
         \/ Terminates(k) /\ TerminationStep(k.plan)
         \/ /\ k.op \in Others /\ k.runner \in Runners /\ k.id \in Ids
            /\ OperationStep(k.op, TRUE, k.plan)
  BY <1>1, HandlerKinds
<1>3. At(c, "spawn") /\ k.runner = Absent =>
         /\ k.op = "create" /\ m = Idle
         /\ k.id \in Registered \ Mapped /\ \A d \in Clients : client[d].id = k.id => d = c
  <2> SUFFICES ASSUME At(c, "spawn"), k.runner = Absent
               PROVE  /\ k.op = "create" /\ m = Idle
                      /\ k.id \in Registered \ Mapped
                      /\ \A d \in Clients : client[d].id = k.id => d = c
    OBVIOUS
  <2>1. Creates(k) /\ CreationStep(k.plan) /\ Head(k.plan) = "spawn"
    BY <1>2, MarkAssumption DEF At, TerminationStep
  <2>2. Tail(k.plan) = <<>> /\ k.id \in Ids /\ k.id # Absent
    BY <2>1, MarkAssumption DEF CreationStep, Creates
  <2>3. m = Idle
    BY <1>1, <2>1, <2>2 DEF Onward
  <2> QED BY <2>1, <2>2, <2>3 DEF FoundInv, Creates
<1>4. /\ \A i \in Mapped' : i \in Mapped \/ (At(c, "spawn") /\ k.runner = Absent /\ i = k.id)
      /\ \A i \in Ids : /\ runners'[i] = runners[i] \/ (At(c, "unmap") /\ i = k.id /\ runners'[i] = Absent)
                           \/ (At(c, "spawn") /\ k.runner = Absent /\ i = k.id)
  BY <1>1 DEF MapStep, Mapped, TypeInv, MapInv
<1>5. /\ \A i \in Registered : i \in Registered' \/ (At(c, "delete") /\ i = k.id)
      /\ At(c, "insert") /\ m # Idle => m.id \in Registered' /\ m.id \in Ids \ used
  <2>1. /\ registry \in [Ids -> Maybe(Rows)]
        /\ \A i \in Registered : registry[i] \in Rows
    BY DEF TypeInv, TableInv, Registered, Maybe
  <2>2. k.row \in Rows \/ ~At(c, "insert")
    BY <1>2 DEF At, Creates, TerminationStep, OperationStep
  <2>3. At(c, "insert") /\ m # Idle => m.id \in Registered' /\ m.id \in Ids \ used
    <3>1. At(c, "insert") /\ m # Idle =>
             m.id \in Ids \ used /\ registry' = [registry EXCEPT ![m.id] = k.row]
      BY RegistrySteps
    <3> QED BY <2>1, <2>2, <3>1, AbsentAssumption DEF Registered
  <2>4. CASE UNCHANGED registry
    BY <2>3, <2>4 DEF Registered
  <2>5. CASE At(c, "insert") /\ m.id \in Ids \ used /\ registry' = [registry EXCEPT ![m.id] = k.row]
    BY <2>1, <2>2, <2>3, <2>5, AbsentAssumption DEF Registered
  <2>6. CASE At(c, "delete") /\ registry' = [registry EXCEPT ![k.id] = Absent]
    <3>1. \A i \in Ids : i # k.id => registry'[i] = registry[i]
      BY <2>1, <2>6
    <3> QED BY <2>3, <2>6, <3>1 DEF Registered
  <2>7. CASE \/ /\ k.id \in Registered
                /\ \E s \in Statuses : registry' = [registry EXCEPT ![k.id].status = s]
    <3>1. PICK s \in Statuses : registry' = [registry EXCEPT ![k.id].status = s]
      BY <2>7
    <3>2. [registry[k.id] EXCEPT !.status = s] # Absent
      <4>1. registry[k.id] \in Rows
        BY <2>1, <2>7
      <4>2. [registry[k.id] EXCEPT !.status = s] \in Rows
        BY <4>1 DEF Rows
      <4> QED BY <4>2, AbsentAssumption
    <3>3. \A i \in Ids : registry'[i] # Absent <=> registry[i] # Absent
      BY <2>1, <2>7, <3>1, <3>2 DEF Registered
    <3> QED BY <2>3, <3>3 DEF Registered
  <2>8. CASE /\ At(c, "update") /\ k.id \in Registered
             /\ registry' = [registry EXCEPT ![k.id].name = k.arg]
    <3>1. k.arg \in Names
      <4>1. Operates(k) /\ k.op = "rename"
        <5>1. ClientInv
          BY DEF TypeInv
        <5> QED BY <2>8, <5>1, AtIs DEF CreationStep, TerminationStep, OperationStep
      <4> QED BY <4>1 DEF Operates
    <3>2. [registry[k.id] EXCEPT !.name = k.arg] # Absent
      <4>1. registry[k.id] \in Rows
        BY <2>1, <2>8
      <4>2. [registry[k.id] EXCEPT !.name = k.arg] \in Rows
        BY <3>1, <4>1 DEF Rows
      <4> QED BY <4>2, AbsentAssumption
    <3>3. \A i \in Ids : registry'[i] # Absent <=> registry[i] # Absent
      BY <2>1, <2>8, <3>2 DEF Registered
    <3> QED BY <2>3, <3>3 DEF Registered
  <2>9. CASE /\ At(c, "status") /\ k.id \in Registered
             /\ registry' = [registry EXCEPT ![k.id].status =
                               IF k.op = "pause" THEN "paused" ELSE "active"]
    BY <2>7, <2>9 DEF Statuses
  <2> QED BY <1>1, <2>4, <2>5, <2>6, <2>8, <2>9 DEF RegistryStep
<1>6. At(c, "delete") \/ At(c, "unmap") => k.op = "terminate"
  BY <1>2 DEF At, CreationStep, OperationStep, Terminates
<1>7. At(c, "delete") => k.id \notin Mapped
  BY <1>6 DEF FoundInv, At
<1>8. Mapped' \subseteq Registered'
  <2> SUFFICES ASSUME NEW i \in Mapped'
               PROVE  i \in Registered'
    OBVIOUS
  <2>1. CASE i \in Mapped
    BY <1>5, <1>7, <2>1 DEF FoundInv
  <2>2. CASE At(c, "spawn") /\ k.runner = Absent /\ i = k.id
    BY <1>3, <1>5, <2>2 DEF At
  <2> QED BY <1>4, <2>1, <2>2
<1>9. m # Idle => m.op = k.op /\ (m.id = k.id \/ Head(k.plan) = "insert")
  BY <1>1 DEF Onward
<1>10. \A d \in Clients : client'[d].op \in Operations => client'[d].op = client[d].op
  BY <1>1, <1>9, IdleIsNobody
<1>11. ASSUME NEW d \in Clients, client'[d].op \in Others
       PROVE  client'[d].runner # Absent /\ runners'[client'[d].id] \in {Absent, client'[d].runner}
  <2>1. client[d].op \in Others /\ client'[d].runner = client[d].runner
        /\ client'[d].id = client[d].id
    <3>1. CASE d = c
      <4>1. m # Idle
        BY <1>11, <3>1, IdleIsNobody DEF Others
      <4>2. k.op \in Others
        BY <1>9, <1>11, <3>1, <4>1
      <4>3. Head(k.plan) \notin {"insert", "unmap"}
        BY <1>2, <4>2 DEF OperationStep, Creates, Terminates, Others
      <4> QED BY <1>1, <3>1, <4>1, <4>2, <4>3 DEF Onward
    <3> QED BY <1>1, <1>11, <3>1
  <2>2. client[d].id \in Ids
    BY <2>1, OthersOperate
  <2>3. ~(At(c, "spawn") /\ k.runner = Absent /\ client[d].id = k.id)
    BY <1>3, <2>1 DEF Others
  <2> QED BY <1>4, <2>1, <2>2, <2>3 DEF FoundInv
<1>12. ASSUME NEW d \in Clients, client'[d].op = "terminate", Head(client'[d].plan) # "unmap"
       PROVE  client'[d].id \notin Mapped'
  <2>1. CASE d # c
    <3>1. client'[d] = client[d] /\ client[d].id \notin Mapped
      BY <1>1, <1>12, <2>1 DEF FoundInv
    <3> QED BY <1>3, <1>4, <2>1, <3>1
  <2>2. CASE d = c
    <3>1. m # Idle
      BY <1>12, <2>2, IdleIsNobody DEF Operations
    <3>2. Terminates(k) /\ TerminationStep(k.plan) /\ m.id = k.id
      BY <1>1, <1>2, <1>9, <1>12, <2>2, <3>1 DEF Creates, TerminationStep, Others
    <3>3. ~At(c, "spawn")
      BY <3>2 DEF At, TerminationStep
    <3>4. CASE Head(k.plan) # "unmap"
      <4>1. k.id \notin Mapped
        BY <3>2, <3>4 DEF FoundInv, Terminates
      <4> QED BY <1>4, <2>2, <3>2, <3>3, <4>1
    <3>5. CASE Head(k.plan) = "unmap"
      <4>1. Unmap(c)
        BY <1>1, <3>5 DEF Lock, Handle, TakeBootstrap, JoinBootstrap, DrainConsumer, SignalRescan,
             RebuildIndex, UpdateStatus, Reread, OpenStore, Spawn, Publish, CheckFree, Insert,
             CreateSubdir, UpdateName, WriteMeta, DeleteRow, RemoveDir, At
      <4>2. runners' = [runners EXCEPT ![k.id] = Absent]
        BY <4>1 DEF Unmap
      <4> QED BY <2>2, <3>2, <4>2, SMTT(30) DEF Mapped, TypeInv, MapInv
    <3> QED BY <3>4, <3>5
  <2> QED BY <2>1, <2>2
<1>13. ASSUME NEW d \in Clients, client'[d].op = "create", client'[d].id # Absent
       PROVE  /\ client'[d].id \in Registered' \ Mapped'
              /\ \A e \in Clients : client'[e].id = client'[d].id => e = d
  <2>0. \A e \in Clients : client[e].id # Absent => client[e].id \in used
    BY DEF RegInv, UsedInv
  <2>1. client[d].op = "create"
    BY <1>10, <1>13 DEF Operations
  <2>2. CASE d = c /\ Head(k.plan) = "insert"
    <3>1. At(c, "insert") /\ m # Idle
      BY <1>1, <1>13, <2>2, IdleIsNobody DEF At
    <3>2. m.id \in Registered' /\ m.id \in Ids \ used
      BY <1>5, <3>1
    <3>3. m.id \notin Mapped
      BY <3>2 DEF RegInv, UsedInv
    <3>4. m.id \notin Mapped'
      BY <1>4, <3>1, <3>3 DEF At
    <3>5. \A e \in Clients : e # c => client'[e].id # m.id
      BY <1>1, <1>13, <2>0, <2>2, <3>2
    <3> QED BY <2>2, <3>2, <3>4, <3>5
  <2>3. CASE ~(d = c /\ Head(k.plan) = "insert")
    <3>1. client'[d].id = client[d].id /\ client[d].id # Absent
      BY <1>1, <1>9, <1>13, <2>3, IdleIsNobody
    <3>2. /\ client[d].id \in Registered \ Mapped
          /\ \A e \in Clients : client[e].id = client[d].id => e = d
      BY <2>1, <3>1 DEF FoundInv
    <3>3. ~(At(c, "delete") /\ client[d].id = k.id)
      BY <1>6, <2>1, <3>2
    <3>4. ~(At(c, "spawn") /\ k.runner = Absent /\ client[d].id = k.id)
      BY <1>3, <1>13, <3>2, IdleIsNobody
    <3>5. client[d].id \in Registered' \ Mapped'
      BY <1>4, <1>5, <3>2, <3>3, <3>4
    <3>6. ASSUME NEW e \in Clients, client'[e].id = client'[d].id
          PROVE  e = d
      <4>1. CASE e = c /\ Head(k.plan) = "insert" /\ m # Idle
        <5>1. m.id \in Ids \ used
          BY <1>1, <1>5, <4>1 DEF At
        <5> QED BY <2>0, <3>1, <3>6, <4>1, <5>1
      <4>2. CASE ~(e = c /\ Head(k.plan) = "insert" /\ m # Idle)
        <5>1. client'[e].id = client[e].id
          BY <1>1, <1>9, <3>1, <3>6, <4>2, IdleIsNobody
        <5> QED BY <3>1, <3>2, <3>6, <5>1
      <4> QED BY <4>1, <4>2
    <3> QED BY <3>1, <3>5, <3>6
  <2> QED BY <2>2, <2>3
<1> QED BY <1>8, <1>11, <1>12, <1>13 DEF FoundInv

-----------------------------------------------------------------------------
(* A vault whose runner a step does not touch.                             *)

\* The tasks of runner `r` stay what they are.
SameTasks(r) ==
    \A t \in Tasks : /\ (Running(t)' /\ task'[t].runner = r) <=> On(t, r)
                     /\ On(t, r) => task'[t].stage = task[t].stage

SameSlots(r) ==
    /\ runner'[r].status = runner[r].status
    /\ runner'[r].boot = runner[r].boot /\ runner'[r].life = runner[r].life

LEMMA KeptFrame ==
    ASSUME NEW i \in Mapped, Kept(i), NEW r, r = runners[i], runners'[i] = r,
           SameSlots(r), SameTasks(r),
           \A d \in Clients : Holds(d, r) \/ (client'[d].locked /\ client'[d].runner = r) =>
               client'[d] = client[d],
           registry'[i].status = registry[i].status
    PROVE  Kept(i)'
<1>1. \A t \in Tasks : /\ On(t, runners[i])' <=> On(t, r)
                       /\ On(t, r) => task'[t].stage = task[t].stage
  BY DEF On, SameTasks
<1>2. \A d \in Clients : Holds(d, runners[i])' <=> Holds(d, r)
  BY DEF Holds
<1>3. \A d \in Clients : Holds(d, r) => client'[d] = client[d]
  OBVIOUS
<1>4. OneTask(i)'
  BY <1>1 DEF Kept, OneTask
<1>5. Reached(i)'
  BY <1>1, <1>2, <1>3 DEF Kept, Reached, SameSlots, Heading
<1>6. EntryTrue(i)'
  BY <1>1, <1>2, <1>3 DEF Kept, EntryTrue, SameSlots, Resuming, Heading
<1>7. ASSUME NEW d \in Clients, Holds(d, runners[i])'
      PROVE  Knows(i, client[d])'
  <2>1. client'[d] = client[d] /\ Holds(d, r)
    BY <1>2, <1>3, <1>7
  <2>2. Knows(i, client[d])
    BY <2>1 DEF Kept
  <2> QED BY <1>1, <2>1, <2>2 DEF Knows, Heading, Drained
<1> QED BY <1>4, <1>5, <1>6, <1>7 DEF Kept

LEMMA HandlerTouches ==
    ASSUME TypeInv, FoundInv, NEW c \in Clients, Lock(c) \/ Handle(c),
           NEW i \in Mapped, i \in Mapped', NEW r, r = runners[i], client[c].runner # r
    PROVE  runners'[i] = r /\ SameSlots(r) /\ SameTasks(r)
<1> DEFINE k == client[c]
<1>0. /\ r \in Runners /\ r # Absent /\ runner[r] # Absent /\ MapInv /\ HeldInv
  BY MapIsInjective, AbsentAssumption DEF TypeInv
<1>1. runners'[i] = r
  <2>1. At(c, "spawn") /\ k.runner = Absent => k.id \notin Mapped
    <3>1. At(c, "spawn") /\ k.runner = Absent => Creates(k) /\ k.id \in Ids
      BY HandlerKinds, MarkAssumption DEF At, TerminationStep, Creates
    <3> QED BY <3>1, MarkAssumption DEF FoundInv, Creates
  <2>2. MapStep(c) /\ i \in Ids
    BY MapSteps DEF Mapped
  <2> QED BY <2>1, <2>2 DEF MapStep, Mapped, TypeInv, MapInv
<1>2. CASE QuietStep(c) \/ Insert(c) \/ Unmap(c)
  <2>1. UNCHANGED <<runner, task>>
    BY <1>2, QuietMemory DEF Insert, Unmap, memory
  <2> QED BY <1>1, <2>1 DEF SameSlots, SameTasks, On, Running
<1>3. CASE TakeBootstrap(c) \/ JoinBootstrap(c)
  <2>1. PICK h : /\ h = runner[k.runner].boot \/ h = runner[k.runner].life
                 /\ task' = Signal(h)
                 /\ At(c, "boot") \/ At(c, "join")
                 /\ \E e : runner' = [runner EXCEPT ![k.runner] = e]
    BY <1>3 DEF TakeBootstrap, JoinBootstrap
  <2>2. k.runner \in Runners /\ runner[k.runner] # Absent
    BY <2>1, AtRunner, AbsentAssumption
  <2>3. h # Absent => Running(h)
    BY <1>0, <2>1, <2>2 DEF MapInv, Refers
  <2>4. TasksStay /\ \A u \in Tasks : task'[u].stage = task[u].stage
    BY <1>0, <2>1, <2>3, SignalOk
  <2>5. runner'[r] = runner[r]
    BY <1>0, <2>1 DEF MapInv
  <2> QED BY <1>1, <2>4, <2>5 DEF SameSlots, SameTasks, On, Running, TasksStay
<1>4. CASE Publish(c)
  <2>1. task' = task /\ \E e : runner' = [runner EXCEPT ![k.runner] = e]
    BY <1>4 DEF Publish
  <2>2. runner'[r] = runner[r]
    BY <1>0, <2>1 DEF MapInv
  <2> QED BY <1>1, <2>1, <2>2 DEF SameSlots, SameTasks, On, Running
<1>5. CASE Spawn(c)
  <2>1. PICK t \in FreeTasks : t = Least(FreeTasks)
    BY <1>5, LeastFree DEF Spawn
  <2>2. t \in Tasks /\ ~Running(t)
    BY <2>1 DEF FreeTasks
  <2>3. PICK s : /\ s # r
                 /\ task' = [task EXCEPT ![t] = [runner |-> s, stage |-> "scanning", stop |-> FALSE]]
                 /\ \E e : runner' = [runner EXCEPT ![s] = e]
    <3>1. CASE /\ k.runner # Absent
               /\ task' = [task EXCEPT ![t] = [runner |-> k.runner, stage |-> "scanning",
                                               stop |-> FALSE]]
               /\ \E e : runner' = [runner EXCEPT ![k.runner] = e]
      BY <3>1
    <3>2. CASE /\ FreeRunners # {}
               /\ NewRunner(k.id, k.row, Least(FreeRunners), t)
      <4>1. Least(FreeRunners) \in FreeRunners /\ r \notin FreeRunners
        BY <3>2, LeastFree DEF FreeRunners, Held, Mapped
      <4> QED BY <3>2, <4>1 DEF NewRunner
    <3> QED BY <1>5, <2>1, <3>1, <3>2 DEF Spawn
  <2>4. runner'[r] = runner[r]
    BY <1>0, <2>3 DEF MapInv
  <2>5. \A u \in Tasks : task'[u] = IF u = t THEN [runner |-> s, stage |-> "scanning", stop |-> FALSE]
                                    ELSE task[u]
    BY <1>0, <2>2, <2>3 DEF MapInv
  <2>6. ~(task'[t].runner = r) /\ ~On(t, r)
    BY <2>2, <2>3, <2>5 DEF On
  <2>7. \A u \in Tasks : u # t => task'[u] = task[u]
    BY <2>5
  <2> QED BY <1>1, <2>4, <2>6, <2>7 DEF SameSlots, SameTasks, On, Running
<1> QED BY <1>2, <1>3, <1>4, <1>5 DEF Handle, QuietStep

LEMMA StatusStays ==
    ASSUME TypeInv, NEW c \in Clients, RegistryStep(c), NEW i \in Registered, i \in Registered',
           ~(At(c, "status") /\ i = client[c].id)
    PROVE  registry'[i].status = registry[i].status
<1>1. registry \in [Ids -> Maybe(Rows)] /\ registry[i] \in Rows /\ i \in Ids /\ i \in used
  BY DEF TypeInv, TableInv, Registered, Maybe
<1>2. CASE UNCHANGED registry
  BY <1>2
<1>3. CASE client'[c].id \in Ids \ used /\ registry' = [registry EXCEPT ![client'[c].id] = client[c].row]
  BY <1>1, <1>3
<1>4. CASE /\ At(c, "status")
           /\ registry' = [registry EXCEPT ![client[c].id].status =
                             IF client[c].op = "pause" THEN "paused" ELSE "active"]
  <2>1. i # client[c].id
    BY <1>4
  <2>2. PICK v : registry' = [registry EXCEPT ![client[c].id] = v]
    BY <1>4
  <2> QED BY <1>1, <2>1, <2>2
<1>5. CASE registry' = [registry EXCEPT ![client[c].id].name = client[c].arg]
  <2>1. [registry[i] EXCEPT !.name = client[c].arg].status = registry[i].status
    BY <1>1 DEF Rows
  <2> QED BY <1>1, <1>5, <2>1
<1>6. CASE registry' = [registry EXCEPT ![client[c].id] = Absent]
  BY <1>1, <1>6 DEF Registered
<1> QED BY <1>2, <1>3, <1>4, <1>5, <1>6 DEF RegistryStep

\* A handler's step keeps what holds of the vaults of other runners.
LEMMA KeptByOthers ==
    ASSUME TypeInv, RegInv, FoundInv, NEW c \in Clients, Lock(c) \/ Handle(c),
           NEW i \in Mapped, i \in Mapped', Kept(i), client[c].runner # runners[i]
    PROVE  Kept(i)'
<1> DEFINE k == client[c]
           m == client'[c]
<1>1. PICK r : r = runners[i]
  OBVIOUS
<1>2. runners'[i] = r /\ SameSlots(r) /\ SameTasks(r)
  BY <1>1, HandlerTouches
<1>3. /\ daemon = "serving" /\ k.plan # <<>>
      /\ \A d \in Clients : d # c => client'[d] = client[d]
      /\ m = Idle \/ Onward(c, k, m)
      /\ RegistryStep(c)
  BY HandlerStep, RegistrySteps
<1>4. m.locked => m.runner # r
  <2>1. Head(k.plan) = "unmap" => ~k.locked
    BY <1>3, HandlerKinds DEF Terminates, CreationStep, OperationStep
  <2> QED BY <1>1, <1>3, <2>1, IdleFields DEF Onward
<1>5. \A d \in Clients : Holds(d, r) \/ (client'[d].locked /\ client'[d].runner = r) =>
               client'[d] = client[d]
  BY <1>1, <1>3, <1>4 DEF Holds
<1>6. registry'[i].status = registry[i].status
  <2>1. i \in Registered /\ i \in Registered'
    BY HandlerFound DEF FoundInv
  <2>2. At(c, "status") => k.op \in Others
    BY HandlerKinds DEF At, CreationStep, TerminationStep
  <2>3. At(c, "status") => i # k.id
    BY <1>1, <2>2 DEF FoundInv, Mapped
  <2> QED BY <1>3, <2>1, <2>3, StatusStays
<1> QED BY <1>1, <1>2, <1>5, <1>6, KeptFrame

\* The handler that has or takes the lock of vault `i`, and its step.
LEMMA HolderIs ==
    ASSUME TypeInv, RegInv, FoundInv, LockInv, NEW c \in Clients, Lock(c) \/ Handle(c),
           NEW i \in Mapped, client[c].runner = runners[i]
    PROVE  /\ daemon = "serving" /\ client[c].plan # <<>>
           /\ client[c].op \in Others /\ client[c].id = i
           /\ OperationStep(client[c].op, TRUE, client[c].plan)
           /\ client[c].locked <=> Head(client[c].plan) # "lock"
           /\ runners'[i] = runners[i] /\ i \in Mapped'
           /\ \A d \in Clients : d # c => /\ client'[d] = client[d]
                                          /\ ~Holds(d, runners[i])
           /\ \/ client'[c] = Idle
              \/ /\ Onward(c, client[c], client'[c])
                 /\ client'[c].plan = Tail(client[c].plan)
                 /\ client'[c].locked /\ client'[c].runner = runners[i]
<1> DEFINE k == client[c]
           m == client'[c]
<1>1. /\ daemon = "serving" /\ k.plan # <<>>
      /\ \A d \in Clients : d # c => client'[d] = client[d]
      /\ m = Idle \/ Onward(c, k, m)
  BY HandlerStep
<1>2. k.id = i /\ k.runner # Absent /\ i \in Ids
  BY MapIsInjective
<1>3. /\ k.op \in Others
      /\ OperationStep(k.op, TRUE, k.plan)
      /\ k.locked <=> Head(k.plan) # "lock"
  <2>1. ~Creates(k)
    BY <1>2 DEF Creates
  <2>2. ~Terminates(k)
    <3>1. Terminates(k) => k.op = "terminate" /\ Head(k.plan) # "unmap"
      BY <1>2 DEF Terminates
    <3> QED BY <1>2, <3>1 DEF FoundInv
  <2> QED BY <1>1, <2>1, <2>2, HandlerKinds
<1>4. Head(k.plan) \notin {"unmap", "insert"}
  BY <1>3 DEF OperationStep
<1>5. runners'[i] = runners[i]
  BY <1>2, <1>4, MapSteps DEF MapStep, At
<1>6. i \in Mapped'
  BY <1>2, <1>5 DEF Mapped
<1>7. ASSUME NEW d \in Clients, d # c
      PROVE  ~Holds(d, runners[i])
  <2>1. CASE k.locked
    BY <1>7, <2>1 DEF LockInv, Holds
  <2>2. CASE Head(k.plan) = "lock"
    <3>1. Lock(c)
      BY <1>1, <2>2 DEF Handle, Unmap, TakeBootstrap, JoinBootstrap, DrainConsumer, SignalRescan,
         RebuildIndex, UpdateStatus, Reread, OpenStore, Spawn, Publish, CheckFree, Insert,
         CreateSubdir, UpdateName, WriteMeta, DeleteRow, RemoveDir, At
    <3> QED BY <3>1, SMTT(30) DEF Lock, Holds
  <2> QED BY <1>3, <2>1, <2>2
<1>8. Onward(c, k, m) => m.plan = Tail(k.plan) /\ m.locked /\ m.runner = runners[i]
  BY <1>3, <1>4 DEF Onward
<1> QED BY <1>1, <1>2, <1>3, <1>5, <1>6, <1>7, <1>8

LEMMA HolderFacts ==
    ASSUME NEW c \in Clients, NEW r, NEW i \in Mapped, r = runners[i], Kept(i),
           \A d \in Clients : d # c => ~Holds(d, r)
    PROVE  /\ \A t, u \in Tasks : On(t, r) /\ On(u, r) => t = u
           /\ \A t \in Tasks : On(t, r) =>
                 /\ task[t].stage = "scanning" =>
                       runner[r].boot = t \/ (Holds(c, r) /\ Heading(client[c], {"join"}))
                 /\ task[t].stage = "live" =>
                       runner[r].life = t \/ (Holds(c, r) /\ Heading(client[c], {"drain"}))
           /\ runner[r].status # "active" =>
                 \/ \A t \in Tasks : ~On(t, r)
                 \/ Holds(c, r) /\ Resuming(client[c])
           /\ Holds(c, r) => Knows(i, client[c])
<1> QED BY DEF Kept, OneTask, Reached, EntryTrue

\* The other way round, after a step.
LEMMA HolderKeeps ==
    ASSUME NEW c \in Clients, NEW r, NEW i, runners'[i] = r,
           \A d \in Clients : d # c => ~Holds(d, r)',
           NEW m, m = client'[c],
           \A t, u \in Tasks : On(t, r)' /\ On(u, r)' => t = u,
           \A t \in Tasks : On(t, r)' =>
                 /\ task'[t].stage = "scanning" =>
                       runner'[r].boot = t \/ (Holds(c, r)' /\ Heading(m, {"join"}))
                 /\ task'[t].stage = "live" =>
                       runner'[r].life = t \/ (Holds(c, r)' /\ Heading(m, {"drain"})),
           runner'[r].status # "active" =>
                 \/ \A t \in Tasks : ~On(t, r)'
                 \/ Holds(c, r)' /\ Resuming(m),
           Holds(c, r)' =>
                 /\ Heading(m, {"join"}) =>
                       \A t \in Tasks : On(t, r)' /\ task'[t].stage = "scanning" => t = m.wait
                 /\ Heading(m, {"drain"}) => \A t \in Tasks : On(t, r)' => t = m.wait
                 /\ Drained(m) => \A t \in Tasks : ~On(t, r)'
                 /\ m.op \in {"reset", "rebuild"} /\ Heading(m, {"reread"}) =>
                       registry'[i].status = "active"
                 /\ m.op \in {"reset", "rebuild"} /\ Heading(m, {"open", "spawn"}) =>
                       m.row.status = "active"
    PROVE  Kept(i)'
<1>1. \A t \in Tasks : On(t, runners[i])' <=> On(t, r)'
  BY DEF On
<1>2. \A d \in Clients : Holds(d, runners[i])' <=> Holds(d, r)'
  BY DEF Holds
<1>3. OneTask(i)'
  BY <1>1 DEF OneTask
<1>4. Reached(i)'
  BY <1>1, <1>2 DEF Reached, Heading
<1>5. EntryTrue(i)'
  BY <1>1, <1>2 DEF EntryTrue, Resuming, Heading
<1>6. Holds(c, r)' => Knows(i, client[c])'
  BY <1>1 DEF Knows, Heading, Drained
<1> QED BY <1>2, <1>3, <1>4, <1>5, <1>6 DEF Kept

-----------------------------------------------------------------------------
(* The steps of the handler that has the lock.                             *)

QuietHeads == {"lock", "drain", "rebuild", "status", "reread", "open", "free", "update",
               "meta", "signal"}

LEMMA GoesOn ==
    ASSUME TypeInv, NEW c \in Clients, client[c].plan # <<>>, Tail(client[c].plan) # <<>>,
           NEW n \in Requests, n.plan = client[c].plan, Proceed(c, n)
    PROVE  client'[c] # Idle
<1>1. ClientInv /\ ClientOk(client[c]) /\ client[c] \in Requests
  BY DEF TypeInv, ClientInv
<1>2. PICK k : k = client[c]
  OBVIOUS
<1>3. PICK q \in Seq(Steps) : q = Tail(k.plan)
  BY <1>1, <1>2, TailIsPlan
<1>4. client'[c] = [n EXCEPT !.plan = q]
  <2>1. client'[c] = Advance(n)
    BY <1>1, ProceedIs
  <2>2. Tail(n.plan) = q /\ q # <<>>
    BY <1>2, <1>3
  <2>3. Advance(n) = [n EXCEPT !.plan = Tail(n.plan)]
    BY <2>2, AdvanceIs
  <2> QED BY <2>1, <2>2, <2>3
<1>5. PICK m : m = [n EXCEPT !.plan = q]
  OBVIOUS
<1>6. m.plan = q
  BY <1>5, WithPlan
<1> QED BY <1>2, <1>3, <1>4, <1>5, <1>6, IdleFields

\* What the holder sees in its quiet steps.
LEMMA QuietSight ==
    ASSUME TypeInv, RegInv, FoundInv, LockInv, NEW c \in Clients, QuietStep(c),
           NEW i \in Mapped, client[c].runner = runners[i]
    PROVE  /\ Head(client[c].plan) \in QuietHeads
           /\ Head(client[c].plan) = "drain" => ~Running(client[c].wait)
           /\ Head(client[c].plan) = "lock" /\ client[c].op = "resume" /\ client'[c] # Idle =>
                 runner[runners[i]].status # "active"
           /\ Head(client[c].plan) = "status" =>
                 /\ client'[c] # Idle
                 /\ client[c].op # "pause" => registry'[i].status = "active"
<1>0. Lock(c) \/ Handle(c)
  BY DEF QuietStep, Handle
<1>1. /\ client[c].plan # <<>> /\ client[c].id = i /\ client[c].op \in Others
      /\ OperationStep(client[c].op, TRUE, client[c].plan)
  BY <1>0, HolderIs
<1>2. ClientInv /\ i \in Registered /\ i \in Ids /\ registry \in [Ids -> Maybe(Rows)]
  BY DEF TypeInv, TableInv, FoundInv, Mapped
<1>3. Head(client[c].plan) \in QuietHeads
  <2>1. Head(client[c].plan) \in QuietHeads \cup {"name", "path", "subdir", "delete", "rmdir"}
    BY DEF QuietStep, QuietHeads, Lock, DrainConsumer, SignalRescan, RebuildIndex, UpdateStatus,
           Reread, OpenStore, CheckFree, CreateSubdir, UpdateName, WriteMeta, DeleteRow,
           RemoveDir, At
  <2> QED BY <1>1, <2>1 DEF OperationStep
<1>4. Head(client[c].plan) = "drain" => ~Running(client[c].wait)
  BY DEF QuietStep, Lock, DrainConsumer, SignalRescan, RebuildIndex, UpdateStatus,
           Reread, OpenStore, CheckFree, CreateSubdir, UpdateName, WriteMeta, DeleteRow,
           RemoveDir, At
<1>5. ASSUME Head(client[c].plan) = "lock", client[c].op = "resume", client'[c] # Idle
      PROVE  runner[runners[i]].status # "active"
  <2>1. Lock(c)
    BY <1>5 DEF QuietStep, Lock, DrainConsumer, SignalRescan, RebuildIndex, UpdateStatus,
           Reread, OpenStore, CheckFree, CreateSubdir, UpdateName, WriteMeta, DeleteRow,
           RemoveDir, At
  <2>2. ~Return(c)
    BY <1>2, <1>5, ReturnIs
  <2> QED BY <1>5, <2>1, <2>2 DEF Lock
<1>6. ASSUME Head(client[c].plan) = "status"
      PROVE  /\ client'[c] # Idle
             /\ client[c].op # "pause" => registry'[i].status = "active"
  <2>1. UpdateStatus(c)
    BY <1>6 DEF QuietStep, Lock, DrainConsumer, SignalRescan, RebuildIndex, UpdateStatus,
           Reread, OpenStore, CheckFree, CreateSubdir, UpdateName, WriteMeta, DeleteRow,
           RemoveDir, At
  <2>2. /\ Proceed(c, client[c])
        /\ registry' = [registry EXCEPT ![i].status =
                              IF client[c].op = "pause" THEN "paused" ELSE "active"]
    BY <1>1, <1>2, <2>1 DEF UpdateStatus
  <2>3. Tail(client[c].plan) # <<>>
    BY <1>1, <1>6 DEF OperationStep, Then
  <2>4. client'[c] # Idle
    BY <1>1, <1>2, <2>2, <2>3, GoesOn DEF ClientInv
  <2>5. registry[i] \in Rows
    BY <1>2 DEF Registered, Maybe
  <2>6. client[c].op # "pause" => registry'[i].status = "active"
    <3> SUFFICES ASSUME client[c].op # "pause"
                 PROVE  registry'[i].status = "active"
      OBVIOUS
    <3>1. registry'[i] = [registry[i] EXCEPT !.status = "active"]
      BY <1>2, <2>2
    <3> QED BY <2>5, <3>1 DEF Rows
  <2> QED BY <2>4, <2>6
<1> QED BY <1>3, <1>4, <1>5, <1>6

LEMMA HolderQuiet ==
    ASSUME TypeInv, RegInv, FoundInv, LockInv, NEW c \in Clients, QuietStep(c),
           NEW i \in Mapped, Kept(i), client[c].runner = runners[i]
    PROVE  Kept(i)'
<1>0. Lock(c) \/ Handle(c)
  BY DEF QuietStep, Handle
<1>1. PICK r : r = runners[i]
  OBVIOUS
<1>2. PICK k : k = client[c]
  OBVIOUS
<1>3. PICK m : m = client'[c]
  OBVIOUS
<1>4. /\ k.plan # <<>> /\ k.op \in Others /\ k.id = i /\ k.runner = r
      /\ OperationStep(k.op, TRUE, k.plan)
      /\ k.locked <=> Head(k.plan) # "lock"
      /\ runners'[i] = r
      /\ \A d \in Clients : d # c => client'[d] = client[d] /\ ~Holds(d, r)
      /\ m # Idle => /\ Onward(c, k, m)
                     /\ m.plan = Tail(k.plan) /\ m.locked /\ m.runner = r
  BY <1>0, <1>1, <1>2, <1>3, HolderIs
<1>5. /\ Head(k.plan) \in QuietHeads
      /\ Head(k.plan) = "drain" => ~Running(k.wait)
      /\ Head(k.plan) = "lock" /\ k.op = "resume" /\ m # Idle => runner[r].status # "active"
      /\ Head(k.plan) = "status" => m # Idle /\ (k.op # "pause" => registry'[i].status = "active")
  BY <1>1, <1>2, <1>3, QuietSight
<1>6. UNCHANGED <<runner, task>>
  BY QuietMemory
<1>7. \A t \in Tasks : On(t, r)' <=> On(t, r)
  BY <1>6 DEF On, Running
<1>8. \A d \in Clients : d # c => ~Holds(d, r)'
  BY <1>4 DEF Holds
<1>9. /\ \A t, u \in Tasks : On(t, r) /\ On(u, r) => t = u
      /\ \A t \in Tasks : On(t, r) =>
            /\ task[t].stage = "scanning" =>
                  runner[r].boot = t \/ (Holds(c, r) /\ Heading(k, {"join"}))
            /\ task[t].stage = "live" =>
                  runner[r].life = t \/ (Holds(c, r) /\ Heading(k, {"drain"}))
      /\ runner[r].status # "active" =>
            \/ \A t \in Tasks : ~On(t, r)
            \/ Holds(c, r) /\ Resuming(k)
      /\ Holds(c, r) => Knows(i, k)
  BY <1>1, <1>2, <1>4, HolderFacts
<1>10. Holds(c, r) <=> Head(k.plan) # "lock"
  BY <1>2, <1>4 DEF Holds
<1>11. Head(k.plan) = "drain" => \A t \in Tasks : ~On(t, r)
  BY <1>1, <1>4, <1>5, <1>9, <1>10 DEF Knows, Heading, On
<1>12. Holds(c, r)' <=> m # Idle
  BY <1>3, <1>4, IdleFields DEF Holds
<1>13. \A t \in Tasks : On(t, r) =>
            /\ task[t].stage = "scanning" => runner[r].boot = t
            /\ task[t].stage = "live" => runner[r].life = t
  BY <1>5, <1>9, <1>11 DEF Heading, QuietHeads
<1>14. runner[r].status # "active" =>
            \/ \A t \in Tasks : ~On(t, r)
            \/ Holds(c, r)' /\ Resuming(m)
  <2> SUFFICES ASSUME Holds(c, r), Resuming(k)
               PROVE  m # Idle /\ Resuming(m)
    BY <1>9, <1>12
  <2>1. Head(k.plan) = "status" /\ k.op = "resume"
    BY <1>5 DEF Resuming, Heading, QuietHeads
  <2>2. m # Idle /\ m.op = "resume" /\ m.plan # <<>> /\ Head(m.plan) = "publish"
    BY <1>4, <1>5, <2>1 DEF Onward, OperationStep, Then
  <2> QED BY <2>2 DEF Resuming, Heading
<1>15. ASSUME m # Idle
       PROVE  /\ Heading(m, {"join"}) =>
                       \A t \in Tasks : On(t, r)' /\ task'[t].stage = "scanning" => t = m.wait
              /\ Heading(m, {"drain"}) => \A t \in Tasks : On(t, r)' => t = m.wait
              /\ Drained(m) => \A t \in Tasks : ~On(t, r)'
              /\ m.op \in {"reset", "rebuild"} /\ Heading(m, {"reread"}) =>
                       registry'[i].status = "active"
              /\ m.op \in {"reset", "rebuild"} /\ Heading(m, {"open", "spawn"}) =>
                       m.row.status = "active"
  <2>1. /\ m.plan = Tail(k.plan) /\ m.plan # <<>> /\ m.op = k.op
        /\ m.row = IF Head(k.plan) = "reread" THEN registry[i] ELSE k.row
    BY <1>4, <1>15 DEF Onward
  <2>2. ~Heading(m, {"join"}) /\ ~Heading(m, {"drain"})
    BY <1>4, <1>5, <2>1 DEF Heading, OperationStep, Then, QuietHeads
  <2>3. Drained(m) => \/ Head(k.plan) = "drain"
                      \/ Head(k.plan) = "lock" /\ k.op = "resume"
                      \/ Head(k.plan) # "lock" /\ Drained(k)
    BY <1>4, <1>5, <2>1 DEF Heading, OperationStep, Then, QuietHeads, Drained, Stopping
  <2>4. Drained(m) => \A t \in Tasks : ~On(t, r)
    <3>1. CASE Head(k.plan) = "drain"
      BY <1>11, <3>1
    <3>2. CASE Head(k.plan) = "lock" /\ k.op = "resume"
      BY <1>5, <1>9, <1>10, <1>15, <3>2
    <3>3. CASE Head(k.plan) # "lock" /\ Drained(k)
      BY <1>1, <1>9, <1>10, <3>3 DEF Knows
    <3> QED BY <2>3, <3>1, <3>2, <3>3
  <2>5. m.op \in {"reset", "rebuild"} /\ Heading(m, {"reread"}) => registry'[i].status = "active"
    <3>1. m.op \in {"reset", "rebuild"} /\ Heading(m, {"reread"}) =>
             Head(k.plan) = "status" /\ k.op # "pause"
      BY <1>4, <1>5, <2>1 DEF Heading, OperationStep, Then, QuietHeads
    <3> QED BY <1>5, <3>1
  <2>6. ASSUME m.op \in {"reset", "rebuild"}, Heading(m, {"open", "spawn"})
        PROVE  m.row.status = "active"
    <3>1. k.op \in {"reset", "rebuild"} /\ Head(k.plan) \in {"reread", "open"}
      BY <1>4, <1>5, <2>1, <2>6 DEF Heading, OperationStep, Then, QuietHeads
    <3>2. Knows(i, k)
      BY <1>9, <1>10, <3>1
    <3>3. CASE Head(k.plan) = "reread"
      BY <1>4, <2>1, <3>1, <3>2, <3>3 DEF Knows, Heading
    <3>4. CASE Head(k.plan) = "open"
      BY <1>4, <2>1, <3>1, <3>2, <3>4 DEF Knows, Heading
    <3> QED BY <3>1, <3>3, <3>4
  <2> QED BY <1>7, <2>2, <2>4, <2>5, <2>6
<1> QED BY <1>3, <1>4, <1>6, <1>7, <1>8, <1>9, <1>12, <1>13, <1>14, <1>15, HolderKeeps

\* The steps of a shutdown that take the two handles.
LEMMA ShutdownSight ==
    ASSUME TypeInv, NEW c \in Clients, TakeBootstrap(c) \/ JoinBootstrap(c),
           NEW k, k = client[c], NEW r \in Runners, r = k.runner, k.plan # <<>>,
           k.op \in Others, OperationStep(k.op, TRUE, k.plan),
           runner[r] \in RunnerValues
    PROVE  /\ client'[c] # Idle /\ k.op \in Stopping
           /\ \A t \in Tasks : /\ Running(t)' <=> Running(t)
                               /\ Running(t) => task'[t].runner = task[t].runner
                               /\ task'[t].stage = task[t].stage
           /\ runner'[r].status = runner[r].status
           /\ \/ /\ Head(k.plan) = "boot" /\ Head(Tail(k.plan)) = "join"
                 /\ runner'[r].life = runner[r].life
              \/ /\ Head(k.plan) = "join" /\ Head(Tail(k.plan)) = "drain"
                 /\ ~Scanning(k.wait)
<1>0. ClientInv /\ MapInv /\ k \in Requests /\ runner[r] # Absent
  BY AbsentAssumption DEF TypeInv, ClientInv
<1>1. CASE TakeBootstrap(c)
  <2>1. PICK t : t = runner[r].boot
    OBVIOUS
  <2>2. PICK n : n = [k EXCEPT !.wait = t]
    OBVIOUS
  <2>3. /\ At(c, "boot") /\ Proceed(c, n) /\ task' = Signal(t)
        /\ runner' = [runner EXCEPT ![r].boot = Absent]
    BY <1>1, <2>1, <2>2 DEF TakeBootstrap
  <2>4. t \in Maybe(Tasks) /\ (t # Absent => Running(t))
    BY <1>0, <2>1 DEF RunnerValues, MapInv, Refers
  <2>5. n \in Requests /\ n.plan = k.plan
    BY <1>0, <2>2, <2>4 DEF Requests
  <2>6. Head(k.plan) = "boot" /\ k.op \in Stopping /\ Then(k.plan, "join")
    BY <2>3 DEF At, OperationStep
  <2>7. client'[c] # Idle
    BY <2>3, <2>5, <2>6, GoesOn DEF Then
  <2>8. TasksStay /\ \A u \in Tasks : task'[u].stage = task[u].stage
    BY <1>0, <2>3, <2>4, SignalOk
  <2>9. runner'[r] = [runner[r] EXCEPT !.boot = Absent]
    BY <1>0, <2>3 DEF MapInv
  <2>10. runner'[r].status = runner[r].status /\ runner'[r].life = runner[r].life
    BY <2>9 DEF RunnerValues
  <2> QED BY <2>6, <2>7, <2>8, <2>10 DEF TasksStay, Running, Then
<1>2. CASE JoinBootstrap(c)
  <2>1. PICK t : t = runner[r].life
    OBVIOUS
  <2>2. PICK n : n = [k EXCEPT !.wait = t]
    OBVIOUS
  <2>3. /\ At(c, "join") /\ Proceed(c, n) /\ task' = Signal(t) /\ ~Scanning(k.wait)
        /\ runner' = [runner EXCEPT ![r].life = Absent]
    BY <1>2, <2>1, <2>2 DEF JoinBootstrap
  <2>4. t \in Maybe(Tasks) /\ (t # Absent => Running(t))
    BY <1>0, <2>1 DEF RunnerValues, MapInv, Refers
  <2>5. n \in Requests /\ n.plan = k.plan
    BY <1>0, <2>2, <2>4 DEF Requests
  <2>6. Head(k.plan) = "join" /\ k.op \in Stopping /\ Then(k.plan, "drain")
    BY <2>3 DEF At, OperationStep
  <2>7. client'[c] # Idle
    BY <2>3, <2>5, <2>6, GoesOn DEF Then
  <2>8. TasksStay /\ \A u \in Tasks : task'[u].stage = task[u].stage
    BY <1>0, <2>3, <2>4, SignalOk
  <2>9. runner'[r] = [runner[r] EXCEPT !.life = Absent]
    BY <1>0, <2>3 DEF MapInv
  <2>10. runner'[r].status = runner[r].status
    BY <2>9 DEF RunnerValues
  <2> QED BY <2>3, <2>6, <2>7, <2>8, <2>10 DEF TasksStay, Running, Then
<1> QED BY <1>1, <1>2

LEMMA HolderShutsDown ==
    ASSUME TypeInv, RegInv, FoundInv, LockInv, NEW c \in Clients,
           TakeBootstrap(c) \/ JoinBootstrap(c),
           NEW i \in Mapped, Kept(i), client[c].runner = runners[i]
    PROVE  Kept(i)'
<1>0. Lock(c) \/ Handle(c)
  BY DEF Handle
<1>1. PICK r : r = runners[i]
  OBVIOUS
<1>2. PICK k : k = client[c]
  OBVIOUS
<1>3. PICK m : m = client'[c]
  OBVIOUS
<1>4. /\ k.plan # <<>> /\ k.op \in Others /\ k.id = i /\ k.runner = r
      /\ OperationStep(k.op, TRUE, k.plan)
      /\ k.locked <=> Head(k.plan) # "lock"
      /\ runners'[i] = r
      /\ \A d \in Clients : d # c => client'[d] = client[d] /\ ~Holds(d, r)
      /\ m # Idle => /\ Onward(c, k, m)
                     /\ m.plan = Tail(k.plan) /\ m.locked /\ m.runner = r
  BY <1>0, <1>1, <1>2, <1>3, HolderIs
<1>5. r \in Runners /\ runner[r] \in RunnerValues
  BY <1>1, MapIsInjective
<1>6. /\ m # Idle /\ k.op \in Stopping
      /\ \A t \in Tasks : /\ Running(t)' <=> Running(t)
                          /\ Running(t) => task'[t].runner = task[t].runner
                          /\ task'[t].stage = task[t].stage
      /\ runner'[r].status = runner[r].status
      /\ \/ /\ Head(k.plan) = "boot" /\ Head(Tail(k.plan)) = "join"
            /\ runner'[r].life = runner[r].life
         \/ /\ Head(k.plan) = "join" /\ Head(Tail(k.plan)) = "drain"
            /\ ~Scanning(k.wait)
  BY <1>2, <1>3, <1>4, <1>5, ShutdownSight, ZenonT(60)
<1>7. \A t \in Tasks : On(t, r)' <=> On(t, r)
  BY <1>6 DEF On
<1>8. \A d \in Clients : d # c => ~Holds(d, r)'
  BY <1>4 DEF Holds
<1>9. /\ \A t, u \in Tasks : On(t, r) /\ On(u, r) => t = u
      /\ \A t \in Tasks : On(t, r) =>
            /\ task[t].stage = "scanning" =>
                  runner[r].boot = t \/ (Holds(c, r) /\ Heading(k, {"join"}))
            /\ task[t].stage = "live" =>
                  runner[r].life = t \/ (Holds(c, r) /\ Heading(k, {"drain"}))
      /\ runner[r].status # "active" =>
            \/ \A t \in Tasks : ~On(t, r)
            \/ Holds(c, r) /\ Resuming(k)
      /\ Holds(c, r) => Knows(i, k)
  BY <1>1, <1>2, <1>4, HolderFacts
<1>10. Holds(c, r) /\ Holds(c, r)'
  BY <1>2, <1>3, <1>4, <1>6 DEF Holds
<1>11. runner[r].status # "active" => \A t \in Tasks : ~On(t, r)
  BY <1>6, <1>9 DEF Resuming, Stopping
<1>12. m.plan # <<>> /\ m.op = k.op /\ m.plan = Tail(k.plan)
  BY <1>4, <1>6 DEF Onward
<1>13. CASE Head(k.plan) = "boot"
  <2>1. m.wait = runner[r].boot /\ Head(m.plan) = "join" /\ runner'[r].life = runner[r].life
    BY <1>4, <1>6, <1>13 DEF Onward
  <2>2. Heading(m, {"join"}) /\ ~Heading(m, {"drain"}) /\ ~Drained(m)
        /\ ~Heading(m, {"reread"}) /\ ~Heading(m, {"open", "spawn"})
    BY <1>12, <2>1 DEF Heading, Drained
  <2>3. ~Heading(k, {"join"}) /\ ~Heading(k, {"drain"})
    BY <1>13 DEF Heading
  <2>4. \A t \in Tasks : On(t, r)' =>
                 /\ task'[t].stage = "scanning" => t = m.wait
                 /\ task'[t].stage = "live" => runner'[r].life = t
    BY <1>6, <1>7, <1>9, <2>1, <2>3
  <2>5. runner'[r].status # "active" => \A t \in Tasks : ~On(t, r)'
    BY <1>6, <1>7, <1>11
  <2>6. \A t, u \in Tasks : On(t, r)' /\ On(u, r)' => t = u
    BY <1>7, <1>9
  <2> QED BY <1>3, <1>4, <1>8, <1>10, <2>2, <2>4, <2>5, <2>6, HolderKeeps
<1>14. CASE Head(k.plan) = "join"
  <2>1. m.wait = runner[r].life /\ Head(m.plan) = "drain" /\ ~Scanning(k.wait)
    BY <1>4, <1>6, <1>14 DEF Onward
  <2>2. ~Heading(m, {"join"}) /\ Heading(m, {"drain"}) /\ ~Drained(m)
        /\ ~Heading(m, {"reread"}) /\ ~Heading(m, {"open", "spawn"})
    BY <1>12, <2>1 DEF Heading, Drained
  <2>3. ASSUME NEW t \in Tasks, On(t, r)
        PROVE  task[t].stage = "live" /\ t = m.wait
    <3>1. task[t] \in TaskValues
      BY <2>3, TaskValuesAre DEF On, Running, TypeInv
    <3>2. Heading(k, {"join"}) /\ ~Heading(k, {"drain"})
      BY <1>4, <1>14 DEF Heading
    <3>3. task[t].stage # "scanning"
      BY <1>1, <1>9, <1>10, <2>1, <2>3, <3>2 DEF Knows, Scanning, On
    <3> QED BY <1>9, <2>1, <2>3, <3>1, <3>2, <3>3 DEF TaskValues
  <2>4. \A t \in Tasks : On(t, r)' =>
                 /\ task'[t].stage # "scanning"
                 /\ t = m.wait
    BY <1>6, <1>7, <2>3
  <2>5. runner'[r].status # "active" => \A t \in Tasks : ~On(t, r)'
    BY <1>6, <1>7, <1>11
  <2>6. \A t, u \in Tasks : On(t, r)' /\ On(u, r)' => t = u
    BY <1>7, <1>9
  <2> QED BY <1>3, <1>4, <1>8, <1>10, <2>2, <2>4, <2>5, <2>6, HolderKeeps
<1> QED BY <1>6, <1>13, <1>14

LEMMA HolderPublishes ==
    ASSUME TypeInv, RegInv, FoundInv, LockInv, NEW c \in Clients, Publish(c),
           NEW i \in Mapped, Kept(i), client[c].runner = runners[i]
    PROVE  Kept(i)'
<1>0. Lock(c) \/ Handle(c)
  BY DEF Handle
<1>1. PICK r : r = runners[i]
  OBVIOUS
<1>2. PICK k : k = client[c]
  OBVIOUS
<1>3. PICK m : m = client'[c]
  OBVIOUS
<1>4. /\ k.plan # <<>> /\ k.op \in Others /\ k.id = i /\ k.runner = r
      /\ OperationStep(k.op, TRUE, k.plan)
      /\ k.locked <=> Head(k.plan) # "lock"
      /\ runners'[i] = r
      /\ \A d \in Clients : d # c => client'[d] = client[d] /\ ~Holds(d, r)
      /\ m # Idle => Onward(c, k, m) /\ m.plan = Tail(k.plan)
  BY <1>0, <1>1, <1>2, <1>3, HolderIs
<1>5. r \in Runners /\ runner[r] \in RunnerValues /\ MapInv
  BY <1>1, MapIsInjective DEF TypeInv
<1>6. /\ Head(k.plan) = "publish" /\ task' = task
      /\ runner' = [runner EXCEPT ![r] =
             CASE k.op = "pause" -> [@ EXCEPT !.status = "paused"]
               [] k.op = "resume" -> [@ EXCEPT !.status = "active", !.name = k.row.name]
               [] OTHER -> [@ EXCEPT !.name = k.arg]]
  BY <1>2, <1>4 DEF Publish, At
<1>7. m = Idle /\ k.op \in {"pause", "resume", "rename"}
  <2>1. Tail(k.plan) = <<>> /\ k.op \in {"pause", "resume", "rename"}
    BY <1>4, <1>6 DEF OperationStep
  <2> QED BY <1>4, <2>1 DEF Onward
<1>8. /\ \A t, u \in Tasks : On(t, r) /\ On(u, r) => t = u
      /\ \A t \in Tasks : On(t, r) =>
            /\ task[t].stage = "scanning" =>
                  runner[r].boot = t \/ (Holds(c, r) /\ Heading(k, {"join"}))
            /\ task[t].stage = "live" =>
                  runner[r].life = t \/ (Holds(c, r) /\ Heading(k, {"drain"}))
      /\ runner[r].status # "active" =>
            \/ \A t \in Tasks : ~On(t, r)
            \/ Holds(c, r) /\ Resuming(k)
      /\ Holds(c, r) => Knows(i, k)
  BY <1>1, <1>2, <1>4, HolderFacts
<1>9. /\ runner'[r].boot = runner[r].boot /\ runner'[r].life = runner[r].life
      /\ k.op = "resume" => runner'[r].status = "active"
      /\ k.op = "rename" => runner'[r].status = runner[r].status
  <2>1. runner'[r] = CASE k.op = "pause" -> [runner[r] EXCEPT !.status = "paused"]
               [] k.op = "resume" -> [runner[r] EXCEPT !.status = "active", !.name = k.row.name]
               [] OTHER -> [runner[r] EXCEPT !.name = k.arg]
    BY <1>5, <1>6 DEF MapInv
  <2> QED BY <1>5, <2>1 DEF RunnerValues
<1>10. \A t \in Tasks : On(t, r)' <=> On(t, r)
  BY <1>6 DEF On, Running
<1>11. \A d \in Clients : ~Holds(d, r)'
  BY <1>3, <1>4, <1>7, IdleFields DEF Holds
<1>12. runner'[r].status # "active" => \A t \in Tasks : ~On(t, r)
  <2>1. CASE k.op = "pause"
    <3>1. Drained(k) /\ Holds(c, r)
      BY <1>2, <1>4, <1>6, <2>1 DEF Drained, Heading, Holds
    <3> QED BY <1>1, <1>8, <3>1 DEF Knows
  <2>2. CASE k.op = "resume"
    BY <1>9, <2>2
  <2>3. CASE k.op = "rename"
    BY <1>8, <1>9, <2>3 DEF Resuming
  <2> QED BY <1>7, <2>1, <2>2, <2>3
<1>13. ~Heading(k, {"join"}) /\ ~Heading(k, {"drain"})
  BY <1>6 DEF Heading
<1>14. \A t \in Tasks : On(t, r)' =>
            /\ task'[t].stage = "scanning" => runner'[r].boot = t
            /\ task'[t].stage = "live" => runner'[r].life = t
  BY <1>6, <1>8, <1>9, <1>10, <1>13
<1>15. \A t, u \in Tasks : On(t, r)' /\ On(u, r)' => t = u
  BY <1>8, <1>10
<1> QED BY <1>3, <1>4, <1>10, <1>11, <1>12, <1>14, <1>15, HolderKeeps

\* The holder spawns on a runner without tasks.
LEMMA HolderSpawns ==
    ASSUME TypeInv, RegInv, FoundInv, LockInv, NEW c \in Clients, Spawn(c),
           NEW i \in Mapped, Kept(i), client[c].runner = runners[i]
    PROVE  Kept(i)'
<1>0. Lock(c) \/ Handle(c)
  BY DEF Handle
<1>1. PICK r : r = runners[i]
  OBVIOUS
<1>2. PICK k : k = client[c]
  OBVIOUS
<1>3. PICK m : m = client'[c]
  OBVIOUS
<1>4. /\ k.plan # <<>> /\ k.op \in Others /\ k.id = i /\ k.runner = r
      /\ OperationStep(k.op, TRUE, k.plan)
      /\ k.locked <=> Head(k.plan) # "lock"
      /\ runners'[i] = r
      /\ \A d \in Clients : d # c => client'[d] = client[d] /\ ~Holds(d, r)
      /\ m # Idle => /\ Onward(c, k, m) /\ m.plan = Tail(k.plan) /\ m.locked
                     /\ m.runner = r
  BY <1>0, <1>1, <1>2, <1>3, HolderIs
<1>5. r \in Runners /\ r # Absent /\ runner[r] \in RunnerValues /\ MapInv
  BY <1>1, MapIsInjective DEF TypeInv
<1>6. PICK t \in FreeTasks : t = Least(FreeTasks)
  BY LeastFree DEF Spawn
<1>7. t \in Tasks /\ ~Running(t)
  BY <1>6 DEF FreeTasks
<1>8. /\ Head(k.plan) = "spawn" /\ Proceed(c, k)
      /\ task' = [task EXCEPT ![t] = [runner |-> r, stage |-> "scanning", stop |-> FALSE]]
      /\ runner' = [runner EXCEPT ![r] =
                      IF k.op = "resume" THEN [@ EXCEPT !.boot = t]
                      ELSE [@ EXCEPT !.boot = t, !.name = k.row.name,
                                     !.status = k.row.status]]
  BY <1>2, <1>4, <1>5, <1>6 DEF Spawn, At
<1>9. /\ Holds(c, r) => Knows(i, k)
      /\ runner[r].status # "active" => (\A u \in Tasks : ~On(u, r)) \/ (Holds(c, r) /\ Resuming(k))
  BY <1>1, <1>2, <1>4, HolderFacts
<1>10. Holds(c, r)
  BY <1>2, <1>4, <1>8 DEF Holds
<1>11. \/ k.op = "resume" /\ Then(k.plan, "status")
       \/ k.op \in {"reset", "rebuild"} /\ Tail(k.plan) = <<>>
  BY <1>4, <1>8 DEF OperationStep
<1>12. \A u \in Tasks : ~On(u, r)
  <2>1. Drained(k)
    BY <1>4, <1>8, <1>11 DEF Drained, Heading
  <2> QED BY <1>1, <1>9, <1>10, <2>1 DEF Knows
<1>13. \A u \in Tasks : task'[u] = IF u = t THEN [runner |-> r, stage |-> "scanning", stop |-> FALSE]
                                   ELSE task[u]
  BY <1>5, <1>7, <1>8 DEF MapInv
<1>14. \A u \in Tasks : On(u, r)' => u = t
  BY <1>12, <1>13 DEF On, Running
<1>15. task'[t].stage = "scanning" /\ runner'[r].boot = t
  <2>1. task'[t].stage = "scanning"
    BY <1>7, <1>13
  <2>2. CASE k.op = "resume"
    <3>1. runner'[r] = [runner[r] EXCEPT !.boot = t]
      BY <1>5, <1>8, <2>2 DEF MapInv
    <3> QED BY <1>5, <2>1, <3>1 DEF RunnerValues
  <2>3. CASE k.op # "resume"
    <3>1. runner'[r] = [runner[r] EXCEPT !.boot = t, !.name = k.row.name, !.status = k.row.status]
      BY <1>5, <1>8, <2>3 DEF MapInv
    <3> QED BY <1>5, <2>1, <3>1 DEF RunnerValues
  <2> QED BY <2>2, <2>3
<1>16. CASE k.op = "resume" /\ Then(k.plan, "status")
  <2>1. m # Idle
    <3>1. k \in Requests
      BY <1>2 DEF TypeInv, ClientInv
    <3> QED BY <1>2, <1>3, <1>4, <1>8, <1>16, <3>1, GoesOn DEF Then
  <2>2. m.op = "resume" /\ m.plan # <<>> /\ Head(m.plan) = "status" /\ m.locked /\ m.runner = r
    BY <1>4, <1>16, <2>1 DEF Onward, Then
  <2>3. Resuming(m) /\ Holds(c, r)'
    BY <1>3, <2>2 DEF Resuming, Heading, Holds
  <2>4. ~Heading(m, {"join"}) /\ ~Heading(m, {"drain"}) /\ ~Drained(m)
        /\ ~Heading(m, {"reread"}) /\ ~Heading(m, {"open", "spawn"})
    BY <2>2 DEF Heading, Drained
  <2>5. \A d \in Clients : d # c => ~Holds(d, r)'
    BY <1>4 DEF Holds
  <2> QED BY <1>3, <1>4, <1>14, <1>15, <2>3, <2>4, <2>5, HolderKeeps
<1>17. CASE k.op \in {"reset", "rebuild"} /\ Tail(k.plan) = <<>>
  <2>1. m = Idle
    BY <1>4, <1>17 DEF Onward
  <2>2. \A d \in Clients : ~Holds(d, r)'
    BY <1>3, <1>4, <2>1, IdleFields DEF Holds
  <2>3. k.row.status = "active"
    BY <1>4, <1>8, <1>9, <1>10, <1>17 DEF Knows, Heading
  <2>4. runner'[r].status = "active"
    <3>1. runner'[r] = [runner[r] EXCEPT !.boot = t, !.name = k.row.name, !.status = k.row.status]
      BY <1>5, <1>8, <1>17 DEF MapInv
    <3> QED BY <1>5, <2>3, <3>1 DEF RunnerValues
  <2> QED BY <1>3, <1>4, <1>14, <1>15, <2>2, <2>4, HolderKeeps
<1> QED BY <1>11, <1>16, <1>17

-----------------------------------------------------------------------------
(* A vault that comes into the map has one task, and nobody else knows its *)
(* runner.                                                                 *)

LEMMA NewlyKept ==
    ASSUME NEW i, NEW r, runners'[i] = r, NEW t \in Tasks,
           \A d \in Clients : client'[d].runner # r,
           \A u \in Tasks : On(u, r)' => u = t,
           task'[t].stage = "scanning",
           runner'[r].boot = t, runner'[r].status = "active"
    PROVE  Kept(i)'
<1>1. \A u \in Tasks : On(u, runners[i])' => u = t
  BY DEF On
<1>2. \A d \in Clients : ~Holds(d, runners[i])'
  BY DEF Holds
<1>3. OneTask(i)'
  BY <1>1 DEF OneTask
<1>4. Reached(i)' /\ EntryTrue(i)'
  BY <1>1, <1>2 DEF Reached, EntryTrue
<1> QED BY <1>2, <1>3, <1>4 DEF Kept

LEMMA NewRunnerKept ==
    ASSUME TypeInv, NEW i \in Ids, NEW row \in Rows, row.status = "active",
           NEW r \in FreeRunners, NEW t \in FreeTasks, NewRunner(i, row, r, t),
           \A d \in Clients : client'[d].runner \in {client[d].runner, Absent}
    PROVE  Kept(i)'
<1>1. /\ runner'[r].status = row.status
      /\ \A d \in Clients : client[d].runner # r
      /\ runners'[i] = r
      /\ \A u \in Tasks : Running(u) => u # t /\ task[u].runner # r /\ task'[u] = task[u]
      /\ t \in Tasks
      /\ task'[t] = [runner |-> r, stage |-> "scanning", stop |-> FALSE]
      /\ \A u \in Tasks : u # t => task'[u] = task[u]
  BY NewRunnerOk DEF TypeInv
<1>2. r \in Runners /\ r # Absent
  BY MarkAssumption DEF FreeRunners
<1>3. runner'[r].boot = t
  <2>1. runner'[r] = NewBootstrapping(i, row, t)
    BY <1>2 DEF NewRunner, TypeInv, MapInv
  <2> QED BY <2>1 DEF NewBootstrapping
<1>4. ASSUME NEW u \in Tasks, On(u, r)'
      PROVE  u = t
  BY <1>1, <1>4 DEF On, Running
<1>5. \A d \in Clients : client'[d].runner # r
  BY <1>1, <1>2
<1> QED BY <1>1, <1>3, <1>4, <1>5, NewlyKept

\* A create ends with a spawn that puts its vault into the map.
LEMMA NewcomerKept ==
    ASSUME TypeInv, RegInv, FoundInv, NEW c \in Clients, Lock(c) \/ Handle(c),
           NEW i \in Mapped', i \notin Mapped
    PROVE  Kept(i)'
<1> DEFINE k == client[c]
           m == client'[c]
<1>1. /\ k.plan # <<>> /\ MapStep(c)
      /\ \A d \in Clients : d # c => client'[d] = client[d]
      /\ m = Idle \/ Onward(c, k, m)
  BY HandlerStep, MapSteps
<1>2. At(c, "spawn") /\ k.runner = Absent /\ i = k.id /\ i \in Ids
  BY <1>1 DEF MapStep, Mapped, TypeInv, MapInv
<1>3. Creates(k)
  BY <1>1, <1>2, HandlerKinds, MarkAssumption DEF At, TerminationStep
<1>4. Spawn(c)
  BY <1>2 DEF Lock, Handle, Unmap, TakeBootstrap, JoinBootstrap, DrainConsumer, SignalRescan,
         RebuildIndex, UpdateStatus, Reread, OpenStore, Publish, CheckFree, Insert,
         CreateSubdir, UpdateName, WriteMeta, DeleteRow, RemoveDir, At
<1>5. PICK r \in FreeRunners, t \in FreeTasks : NewRunner(i, k.row, r, t)
  BY <1>2, <1>4, LeastFree DEF Spawn
<1>6. k.row \in Rows /\ k.row.status = "active"
  BY <1>3 DEF Creates
<1>7. \A d \in Clients : client'[d].runner \in {client[d].runner, Absent}
  BY <1>1, <1>2, IdleFields DEF Onward, At
<1>8. PICK row \in Rows : row = k.row
  BY <1>6
<1> QED BY <1>2, <1>5, <1>6, <1>7, <1>8, NewRunnerKept

LEMMA CalmHandler ==
    ASSUME TypeInv, RegInv, Calm, NEW c \in Clients, Lock(c) \/ Handle(c)
    PROVE  Calm'
<1>1. LockInv' /\ FoundInv'
  BY HandlerLock, HandlerFound DEF Calm
<1>2. ASSUME NEW i \in Mapped'
      PROVE  Kept(i)'
  <2>1. CASE i \notin Mapped
    BY <1>2, <2>1, NewcomerKept DEF Calm
  <2>2. CASE i \in Mapped /\ client[c].runner # runners[i]
    BY <1>2, <2>2, KeptByOthers DEF Calm
  <2>3. CASE i \in Mapped /\ client[c].runner = runners[i]
    <3>1. client[c].plan # <<>> /\ OperationStep(client[c].op, TRUE, client[c].plan)
      BY <2>3, HolderIs DEF Calm
    <3>2. ~Unmap(c) /\ ~Insert(c)
      BY <3>1 DEF Unmap, Insert, At, OperationStep
    <3>3. CASE QuietStep(c)
      BY <2>3, <3>3, HolderQuiet DEF Calm
    <3>4. CASE TakeBootstrap(c) \/ JoinBootstrap(c)
      BY <2>3, <3>4, HolderShutsDown DEF Calm
    <3>5. CASE Publish(c)
      BY <2>3, <3>5, HolderPublishes DEF Calm
    <3>6. CASE Spawn(c)
      BY <2>3, <3>6, HolderSpawns DEF Calm
    <3> QED BY <3>2, <3>3, <3>4, <3>5, <3>6 DEF Handle, QuietStep
  <2> QED BY <2>1, <2>2, <2>3
<1> QED BY <1>1, <1>2 DEF Calm

-----------------------------------------------------------------------------
(* Requests, tasks, start-up, and the rest of the world.                   *)

LEMMA CalmRequest ==
    ASSUME TypeInv, Calm, NEW c \in Clients, Request(c), count'.unmapped = 0
    PROVE  Calm'
<1>1. /\ client[c] = Idle
      /\ UNCHANGED <<registry, runners, runner, task>>
      /\ \A d \in Clients : d # c => client'[d] = client[d]
      /\ ~client'[c].locked
  BY RequestStep DEF Fresh
<1>2. LockInv'
  BY <1>1, LockFrame DEF Calm
<1>3. FoundInv'
  BY RequestFound DEF Calm
<1>4. ASSUME NEW i \in Mapped'
      PROVE  Kept(i)'
  <2>1. i \in Mapped
    BY <1>1, <1>4 DEF Mapped
  <2>2. PICK r : r = runners[i]
    OBVIOUS
  <2>3. SameSlots(r) /\ SameTasks(r)
    BY <1>1 DEF SameSlots, SameTasks, On, Running
  <2>4. \A d \in Clients : Holds(d, r) \/ (client'[d].locked /\ client'[d].runner = r) =>
               client'[d] = client[d]
    BY <1>1, IdleFields DEF Holds
  <2> QED BY <1>1, <2>1, <2>2, <2>3, <2>4, KeptFrame DEF Calm
<1> QED BY <1>2, <1>3, <1>4 DEF Calm

\* A task ends, by itself or with its runner.
LEMMA EndKeeps ==
    ASSUME TypeInv, NEW t \in Tasks, Running(t), task' = [task EXCEPT ![t] = Absent],
           runner' = Forget(t), UNCHANGED <<registry, runners, client>>,
           NEW i \in Mapped, Kept(i)
    PROVE  Kept(i)'
<1>1. PICK r \in Runners : r = runners[i] /\ runner[r] # Absent
  BY MapIsInjective DEF TypeInv, MapInv
<1>2. /\ \A u \in Tasks : task'[u] = IF u = t THEN Absent ELSE task[u]
      /\ runner'[r].status = runner[r].status
      /\ runner'[r].boot = IF runner[r].boot = t THEN Absent ELSE runner[r].boot
      /\ runner'[r].life = IF runner[r].life = t THEN Absent ELSE runner[r].life
  BY <1>1, ForgetOk, ZenonT(60) DEF TypeInv
<1>3. \A u \in Tasks : On(u, runners[i])' <=> On(u, r) /\ u # t
  BY <1>1, <1>2 DEF On, Running
<1>4. \A u \in Tasks : On(u, runners[i])' => task'[u] = task[u] /\ On(u, runners[i])
  BY <1>1, <1>2, <1>3
<1>5. \A d \in Clients : Holds(d, runners[i])' <=> Holds(d, runners[i])
  BY DEF Holds
<1>6. OneTask(i)'
  BY <1>4 DEF Kept, OneTask
<1>7. Reached(i)'
  BY <1>1, <1>2, <1>3, <1>4, <1>5 DEF Kept, Reached, Heading
<1>8. EntryTrue(i)'
  BY <1>1, <1>2, <1>4, <1>5 DEF Kept, EntryTrue, Resuming, Heading
<1>9. ASSUME NEW d \in Clients, Holds(d, runners[i])'
      PROVE  Knows(i, client[d])'
  <2>1. Knows(i, client[d])
    BY <1>5, <1>9 DEF Kept
  <2> QED BY <1>4, <2>1 DEF Knows, Heading, Drained
<1> QED BY <1>6, <1>7, <1>8, <1>9 DEF Kept

LEMMA InstallKeeps ==
    ASSUME TypeInv, NEW t \in Tasks, Install(t), NEW i \in Mapped, Kept(i)
    PROVE  Kept(i)'
<1>0. UNCHANGED <<registry, runners, client>>
  BY DEF Install, table
<1>1. PICK r \in Runners : r = runners[i] /\ runner[r] # Absent
  BY MapIsInjective DEF TypeInv, MapInv
<1>2. /\ \A u \in Tasks : /\ task'[u] # Absent <=> task[u] # Absent
                          /\ task[u] # Absent => task'[u].runner = task[u].runner
                          /\ u # t => task'[u].stage = task[u].stage
      /\ Scanning(t) /\ task'[t].stage = "live"
      /\ runner'[r].status = runner[r].status
      /\ runner'[r].boot = runner[r].boot
      /\ runner'[r].life = IF r = task[t].runner THEN t ELSE runner[r].life
  BY <1>1, InstallOk DEF TypeInv
<1>3. \A u \in Tasks : On(u, runners[i])' <=> On(u, runners[i])
  BY <1>0, <1>1, <1>2 DEF On, Running
<1>4. \A d \in Clients : Holds(d, runners[i])' <=> Holds(d, runners[i])
  BY <1>0 DEF Holds
<1>5. OneTask(i)'
  BY <1>3 DEF Kept, OneTask
<1>6. Reached(i)'
  <2> SUFFICES ASSUME NEW u \in Tasks, On(u, runners[i])
               PROVE  /\ task'[u].stage = "scanning" =>
                            \/ runner'[r].boot = u
                            \/ \E c \in Clients : Holds(c, runners[i])' /\ Heading(client[c], {"join"})'
                      /\ task'[u].stage = "live" =>
                            \/ runner'[r].life = u
                            \/ \E c \in Clients : Holds(c, runners[i])' /\ Heading(client[c], {"drain"})'
    BY <1>0, <1>1, <1>3 DEF Reached
  <2>1. CASE u = t
    <3>1. r = task[t].runner
      BY <1>1, <2>1 DEF On
    <3> QED BY <1>2, <2>1, <3>1
  <2>2. CASE u # t
    <3>1. r # task[t].runner
      BY <1>1, <1>2, <2>2 DEF Kept, OneTask, On, Scanning
    <3> QED BY <1>0, <1>1, <1>2, <1>4, <2>2, <3>1 DEF Kept, Reached, Heading
  <2> QED BY <2>1, <2>2
<1>7. EntryTrue(i)'
  BY <1>0, <1>1, <1>2, <1>3, <1>4 DEF Kept, EntryTrue, Resuming, Heading
<1>8. ASSUME NEW d \in Clients, Holds(d, runners[i])'
      PROVE  Knows(i, client[d])'
  <2>1. Knows(i, client[d])
    BY <1>4, <1>8 DEF Kept
  <2>2. \A u \in Tasks : task'[u].stage = "scanning" => task[u].stage = "scanning"
    BY <1>2
  <2> QED BY <1>0, <1>3, <2>1, <2>2 DEF Knows, Heading, Drained
<1> QED BY <1>5, <1>6, <1>7, <1>8 DEF Kept

LEMMA CalmTask ==
    ASSUME TypeInv, Calm, NEW t \in Tasks, Install(t) \/ TaskStops(t) \/ Reap(t)
    PROVE  Calm'
<1>1. UNCHANGED <<registry, runners, client>>
  BY DEF Install, TaskStops, Reap, table
<1>2. LockInv' /\ FoundInv'
  <2>1. LockInv'
    BY <1>1 DEF Calm, LockInv
  <2> QED BY <1>1, <2>1, FoundFrame DEF Calm
<1>3. ASSUME NEW i \in Mapped'
      PROVE  Kept(i)'
  <2>1. i \in Mapped
    BY <1>1, <1>3 DEF Mapped
  <2>2. CASE Install(t)
    BY <2>1, <2>2, InstallKeeps DEF Calm
  <2>3. CASE TaskStops(t) \/ Reap(t)
    <3>1. /\ Running(t) /\ task' = [task EXCEPT ![t] = Absent] /\ runner' = Forget(t)
      BY <2>3 DEF TaskStops, Reap, Leaked
    <3> QED BY <1>1, <2>1, <3>1, EndKeeps DEF Calm
  <2> QED BY <2>2, <2>3
<1> QED BY <1>2, <1>3 DEF Calm

\* Nobody is at work while the daemon is not serving.
LEMMA CalmAlone ==
    ASSUME \A c \in Clients : client[c] = Idle, Mapped \subseteq Registered,
           \A i \in Mapped : Kept(i)
    PROVE  Calm
<1>1. \A c \in Clients : ~client[c].locked /\ client[c].op \notin Operations
  BY IdleIsNobody
<1> QED BY <1>1 DEF Calm, LockInv, FoundInv, Operations, Others

\* What is in the map stays as it is.
LEMMA SameKept ==
    ASSUME UNCHANGED <<runners, runner, task, client, registry>>, NEW i \in Mapped, Kept(i)
    PROVE  Kept(i)'
<1>1. PICK r : r = runners[i]
  OBVIOUS
<1>2. SameSlots(r) /\ SameTasks(r)
  BY DEF SameSlots, SameTasks, On, Running
<1> QED BY <1>1, <1>2, KeptFrame

LEMMA CalmStutter ==
    ASSUME Calm, UNCHANGED <<runners, runner, task, client, registry>>
    PROVE  Calm'
<1>1. LockInv' /\ FoundInv' /\ Mapped' = Mapped
  BY DEF Calm, LockInv, FoundInv, Mapped, Registered
<1>2. \A i \in Mapped' : Kept(i)'
  BY <1>1, SameKept DEF Calm
<1> QED BY <1>1, <1>2 DEF Calm

LEMMA CalmStartUp ==
    ASSUME TypeInv, Calm, StartUp
    PROVE  Calm'
<1>1. UNCHANGED client /\ \A c \in Clients : client[c] = Idle
  BY DEF StartUp, ReconcileRows, ReconcileDirs, Serve, StartVault, TypeInv, DaemonInv
<1>2. CASE ReconcileRows
  <2>1. Mapped' = {}
    BY <1>2 DEF ReconcileRows, memory, TypeInv, DaemonInv, Mapped
  <2> QED BY <1>1, <2>1, IdleIsNobody DEF Calm, LockInv, FoundInv, Operations, Others
<1>3. CASE ReconcileDirs \/ Serve
  BY <1>1, <1>3, CalmStutter DEF ReconcileDirs, Serve, table, memory
<1>4. ASSUME NEW i \in Ids, StartVault(i)
      PROVE  Calm'
  <2>1. /\ UNCHANGED registry /\ i \in Registered /\ i \notin Mapped
        /\ registry[i].status = "active"
    BY <1>4 DEF StartVault, table, Active
  <2>2. PICK row \in Rows : row = registry[i]
    BY <2>1 DEF TypeInv, TableInv, Registered, Maybe
  <2>3. PICK r \in FreeRunners, t \in FreeTasks : NewRunner(i, row, r, t)
    BY <1>4, <2>2, LeastFree DEF StartVault
  <2>4. Kept(i)'
    BY <1>1, <2>1, <2>2, <2>3, NewRunnerKept
  <2>5. /\ \A s \in Runners : s # r => runner'[s] = runner[s]
        /\ \A j \in Ids : runners[j] # r /\ runners'[j] = IF j = i THEN r ELSE runners[j]
        /\ \A u \in Tasks : Running(u) => u # t /\ task'[u] = task[u]
        /\ t \in Tasks /\ ~Running(t)
        /\ task'[t] = [runner |-> r, stage |-> "scanning", stop |-> FALSE]
        /\ \A u \in Tasks : u # t => task'[u] = task[u]
    BY <2>2, <2>3, NewRunnerOk DEF TypeInv
  <2>6. ASSUME NEW j \in Mapped', j # i
        PROVE  Kept(j)'
    <3>1. j \in Mapped /\ j \in Ids /\ runners'[j] = runners[j] /\ runners[j] # r
      BY <2>5, <2>6 DEF Mapped
    <3>2. PICK s \in Runners : s = runners[j] /\ s # r
      BY <3>1, MapIsInjective
    <3>3. SameSlots(s)
      BY <2>5, <3>2 DEF SameSlots
    <3>4. SameTasks(s)
      <4>1. ~(task'[t].runner = s) /\ ~On(t, s)
        BY <2>5, <3>2 DEF On
      <4> QED BY <2>5, <4>1 DEF SameTasks, On, Running
    <3> QED BY <1>1, <2>1, <3>1, <3>2, <3>3, <3>4, KeptFrame DEF Calm
  <2>7. Mapped' \subseteq Registered'
    BY <2>1, <2>5 DEF Calm, FoundInv, Mapped, Registered
  <2>8. \A j \in Mapped' : Kept(j)'
    BY <2>4, <2>6
  <2>9. \A d \in Clients : ~client'[d].locked /\ client'[d].op \notin Operations
    BY <1>1, IdleIsNobody
  <2> QED BY <2>7, <2>8, <2>9 DEF Calm, LockInv, FoundInv, Operations, Others
<1> QED BY <1>2, <1>3, <1>4 DEF StartUp

LEMMA CalmInit ==
    ASSUME Init
    PROVE  Calm
<1>1. Mapped = {} /\ \A c \in Clients : client[c] = Idle
  BY DEF Init, Mapped
<1> QED BY <1>1, CalmAlone

LEMMA CalmCrash ==
    ASSUME Crash
    PROVE  Calm'
<1>1. Mapped' = {} /\ \A c \in Clients : client'[c] = Idle
  BY DEF Crash, Mapped
<1>2. \A c \in Clients : ~client'[c].locked /\ client'[c].op \notin Operations
  BY <1>1, IdleIsNobody
<1> QED BY <1>1, <1>2 DEF Calm, LockInv, FoundInv, Operations, Others

\* What disturbed a history stays counted.
LEMMA StaysCounted ==
    ASSUME TypeInv, [Next]_vars, count'.faults = 0, count'.disconnects = 0
    PROVE  /\ count.faults = 0 /\ count.disconnects = 0
           /\ count'.unmapped = 0 => count.unmapped = 0
           /\ ~OrphansStay /\ \A c \in Clients : ~StepFails(c) /\ ~Disconnect(c)
           /\ \A t \in Tasks : ~ScanFails(t)
<1> DEFINE Before == /\ count.faults = 0 /\ count.disconnects = 0
                     /\ count'.unmapped = 0 => count.unmapped = 0
<1>1. /\ count \in Bounds /\ count.faults \in Nat /\ count.disconnects \in Nat
      /\ count.unmapped \in Nat
  BY BoundAssumption DEF TypeInv, CountInv, Bounds
<1>2. \A c \in Clients : ~StepFails(c)
  BY <1>1 DEF StepFails, Bounds
<1>3. \A c \in Clients : ~Disconnect(c)
  BY <1>1 DEF Disconnect, Bounds
<1>4. ~OrphansStay /\ \A t \in Tasks : ~ScanFails(t)
  BY <1>1 DEF OrphansStay, ScanFails, Bounds
<1>5. CASE UNCHANGED count
  BY <1>2, <1>3, <1>4, <1>5
<1>6. CASE Crash
  <2>1. count' = [count EXCEPT !.crashes = @ + 1]
    BY <1>6 DEF Crash
  <2>2. Before
    BY <1>1, <2>1 DEF Bounds
  <2> QED BY <1>2, <1>3, <1>4, <2>2
<1>7. ASSUME NEW p \in Paths, MovePath(p)
      PROVE  Before
  <2>1. count' = [count EXCEPT !.moves = @ + 1]
    BY <1>7 DEF MovePath
  <2> QED BY <1>1, <2>1 DEF Bounds
<1>8. ASSUME NEW c \in Clients, Request(c)
      PROVE  Before
  BY <1>8, RequestStep
<1>9. ASSUME NEW c \in Clients, Lock(c) \/ Handle(c)
      PROVE  Before
  BY <1>9, HandlerStep
<1>10. StartUp => UNCHANGED count
  BY DEF StartUp, ReconcileRows, ReconcileDirs, Serve, StartVault
<1>11. \A t \in Tasks : Install(t) \/ TaskStops(t) \/ Reap(t) => UNCHANGED count
  BY DEF Install, TaskStops, Reap
<1> HIDE DEF Before
<1>12. Before
  BY <1>2, <1>3, <1>4, <1>6, <1>7, <1>8, <1>9, <1>10, <1>11 DEF Next, vars, Before
<1> QED BY <1>2, <1>3, <1>4, <1>12 DEF Before

LEMMA StaysDisturbed ==
    ASSUME TypeInv, [Next]_vars, Undisturbed'
    PROVE  /\ Undisturbed
           /\ ~OrphansStay /\ \A c \in Clients : ~StepFails(c) /\ ~Disconnect(c)
           /\ \A t \in Tasks : ~ScanFails(t)
<1> QED BY StaysCounted DEF Undisturbed

LEMMA CalmNext ==
    ASSUME TypeInv, RegInv, Calm, [Next]_vars, Undisturbed'
    PROVE  Calm'
<1>1. CASE StartUp
  BY <1>1, CalmStartUp
<1>2. CASE Crash
  BY <1>2, CalmCrash
<1>3. ASSUME NEW c \in Clients, Request(c)
      PROVE  Calm'
  BY <1>3, CalmRequest DEF Undisturbed
<1>4. ASSUME NEW c \in Clients, Lock(c) \/ Handle(c)
      PROVE  Calm'
  BY <1>4, CalmHandler
<1>5. ASSUME NEW t \in Tasks, Install(t) \/ TaskStops(t) \/ Reap(t)
      PROVE  Calm'
  BY <1>5, CalmTask
<1>6. ASSUME NEW p \in Paths, MovePath(p)
      PROVE  Calm'
  BY <1>6, CalmStutter DEF MovePath, table, memory
<1>7. CASE UNCHANGED vars
  BY <1>7, CalmStutter DEF vars, table, memory
<1> QED BY <1>1, <1>2, <1>3, <1>4, <1>5, <1>6, <1>7, StaysDisturbed DEF Next

LEMMA CalmAlways == Spec => [](TypeInv /\ RegInv /\ (Undisturbed => Calm))
<1>1. Init => (Undisturbed => Calm)
  BY CalmInit
<1>2. TypeInv /\ RegInv /\ (Undisturbed => Calm) /\ [Next]_vars => (Undisturbed => Calm)'
  <2> SUFFICES ASSUME TypeInv, RegInv, Undisturbed => Calm, [Next]_vars, Undisturbed'
               PROVE  Calm'
    OBVIOUS
  <2>1. Undisturbed
    BY StaysDisturbed
  <2> QED BY <2>1, CalmNext
<1> QED BY <1>1, <1>2, RegAlways, PTL DEF Spec

-----------------------------------------------------------------------------
(* The theorems.                                                           *)

\* However many operations interleave on however many vaults, while every one
\* found its runner and none was cut short a runner in the map has at most one
\* task: op_lock serialises what spawns and what drains.
THEOREM LockServes == Spec => []OneLifecyclePerRunner
<1>1. ASSUME TypeInv, Undisturbed => Calm
      PROVE  OneLifecyclePerRunner
  <2> SUFFICES ASSUME Undisturbed, NEW i \in Mapped
               PROVE  Cardinality({t \in Tasks : Running(t) /\ task[t].runner = runners[i]}) <= 1
    BY DEF OneLifecyclePerRunner, SoleLifecycle
  <2> DEFINE S == {t \in Tasks : Running(t) /\ task[t].runner = runners[i]}
  <2>1. \A t, u \in S : t = u
    BY <1>1 DEF Calm, Kept, OneTask, On
  <2>2. CASE S = {}
    <3>1. Cardinality(S) = 0
      BY <2>2, FS_EmptySet
    <3> QED BY <3>1
  <2>3. CASE S # {}
    <3>1. PICK t : t \in S
      BY <2>3
    <3>2. S = {t}
      BY <2>1, <3>1
    <3> HIDE DEF S
    <3>3. Cardinality(S) = 1
      BY <3>2, FS_Singleton
    <3> QED BY <3>3 DEF S
  <2> QED BY <2>2, <2>3
<1> QED BY <1>1, CalmAlways, PTL

\* While a pause, reset or rebuild of a mapped vault is past its shutdown and has
\* not spawned anew, no task of the vault's runner is left: neither the consumer
\* that was there nor the bootstrap that was about to install another.
THEOREM ShutdownIsComplete == Spec => []DrainedIsQuiet
<1>1. ASSUME TypeInv, Undisturbed => Calm
      PROVE  DrainedIsQuiet
  <2> SUFFICES ASSUME Undisturbed, NEW c \in Clients, NEW k, k = client[c],
                      k.locked, runners[k.id] = k.runner,
                      \/ k.op = "pause" /\ Head(k.plan) \in {"status", "publish"}
                      \/ k.op \in {"reset", "rebuild"}
                         /\ Head(k.plan) \in {"rebuild", "status", "reread", "open", "spawn"},
                      NEW t \in Tasks, Running(t)
               PROVE  task[t].runner # k.runner
    BY DEF DrainedIsQuiet
  <2>1. k.op \in Others
    BY DEF Others, Operations
  <2>2. k.id \in Ids /\ k.plan # <<>> /\ k.runner # Absent
    BY <1>1, <2>1, OthersOperate DEF Calm, FoundInv
  <2>3. k.id \in Mapped
    BY <2>2 DEF Mapped
  <2>4. Knows(k.id, k)
    BY <1>1, <2>3 DEF Calm, Kept, Holds
  <2>5. Drained(k)
    BY <2>2 DEF Drained, Heading
  <2> QED BY <2>4, <2>5 DEF Knows, On
<1> QED BY <1>1, CalmAlways, PTL

-----------------------------------------------------------------------------
(* Registry, map, entries and directories agree.  The inductive invariant: *)
(* a vault no operation is under way on is settled, and the operation that *)
(* is under way, at most one, has gone as far as its plan says.            *)

Agrees(i) ==
    /\ i \in Registered
    /\ runner[runners[i]].name = registry[i].name
    /\ runner[runners[i]].status = registry[i].status

Settled(i) ==
    /\ i \in Active => i \in Mapped
    /\ i \in dirs => i \in Registered
    /\ i \in Mapped => i \in dirs /\ Agrees(i)

CreateGoes(k) ==
    /\ k.id \in Registered \ Mapped /\ registry[k.id] = k.row
    /\ Heading(k, {"spawn"}) => k.id \in dirs

TerminateGoes(k) ==
    /\ Heading(k, {"unmap"}) => Settled(k.id)
    /\ Heading(k, {"boot", "join", "drain", "delete", "rmdir"}) => k.id \notin Mapped
    /\ Heading(k, {"rmdir"}) => k.id \notin Registered

\* The row is written and the entry is not.
Behind(k) ==
    \/ k.op \in {"pause", "resume"} /\ Heading(k, {"publish"})
    \/ k.op = "rename" /\ Heading(k, {"reread", "meta", "publish"})
    \/ k.op \in {"reset", "rebuild"} /\ Heading(k, {"reread", "open", "spawn"})

\* What the entry lacks is what the handler is about to publish.
Publishes(k) ==
    LET entry == runner[k.runner]
        row   == registry[k.id]
    IN  /\ k.op = "pause" => row.status = "paused" /\ entry.name = row.name
        /\ k.op = "resume" => row.status = "active" /\ k.row.name = row.name
        /\ k.op = "rename" => row.name = k.arg /\ entry.status = row.status
        /\ k.op \in {"reset", "rebuild"} /\ Heading(k, {"open", "spawn"}) => k.row = row

MappedGoes(k) ==
    /\ k.id \in Registered \cap Mapped /\ k.runner = runners[k.id] /\ k.id \in dirs
    /\ IF Behind(k) THEN Publishes(k)
       ELSE Agrees(k.id) /\ (k.op = "resume" => k.row.name = registry[k.id].name)

UnmappedGoes(k) ==
    /\ k.id \in Registered \ Mapped
    /\ k.op = "rename" => Settled(k.id)
    /\ Heading(k, {"open", "spawn"}) => k.row = registry[k.id]
    /\ Heading(k, {"spawn"}) => k.id \in dirs

Goes(k) ==
    /\ k.op = "create" => CreateGoes(k)
    /\ k.op = "terminate" => TerminateGoes(k)
    /\ k.op \in Others /\ k.runner # Absent => MappedGoes(k)
    /\ k.op \in Others /\ k.runner = Absent => UnmappedGoes(k)

AgreeInv ==
    /\ daemon = "rows" => Active \subseteq dirs
    /\ daemon = "dirs" =>
          /\ dirs \subseteq Registered /\ Active \subseteq dirs
          /\ \A i \in Mapped : i \in dirs /\ Agrees(i)
    /\ daemon = "serving" =>
          /\ \A i \in Ids : (\A c \in Clients : client[c].id # i) => Settled(i)
          /\ \A c \in Clients : client[c].id # Absent => Goes(client[c])

\* What Settled and Goes look at in vault `i` is as it was.
SameVault(i) ==
    /\ registry'[i] = registry[i] /\ runners'[i] = runners[i]
    /\ i \in dirs' <=> i \in dirs
    /\ i \in Mapped => /\ runner'[runners[i]].name = runner[runners[i]].name
                       /\ runner'[runners[i]].status = runner[runners[i]].status

LEMMA SettledStays ==
    ASSUME NEW i \in Ids, SameVault(i), Settled(i)
    PROVE  Settled(i)'
<1> QED BY DEF SameVault, Settled, Agrees, Active, Registered, Mapped

\* Agreement is one thing and the other: a settled mapped vault agrees.
LEMMA SettledAre ==
    ASSUME NEW i \in Ids
    PROVE  /\ i \in Mapped => (Settled(i) <=> i \in dirs /\ Agrees(i))
           /\ i \notin Mapped => (Settled(i) <=> i \notin Active /\ (i \in dirs => i \in Registered))
<1> QED BY DEF Settled, Agrees, Active

LEMMA GoesStays ==
    ASSUME NEW k, k.id \in Ids, Goes(k), SameVault(k.id)
    PROVE  Goes(k)'
<1>1. PICK i \in Ids : i = k.id
  OBVIOUS
<1>2. /\ i \in Registered' <=> i \in Registered
      /\ i \in Mapped' <=> i \in Mapped
      /\ Settled(i) => Settled(i)'
  BY <1>1, SettledStays DEF SameVault, Registered, Mapped
<1>3. k.op = "create" => CreateGoes(k)'
  BY <1>1, <1>2 DEF Goes, CreateGoes, SameVault
<1>4. k.op = "terminate" => TerminateGoes(k)'
  BY <1>1, <1>2 DEF Goes, TerminateGoes, SameVault
<1>5. k.op \in Others /\ k.runner # Absent => MappedGoes(k)'
  BY <1>1, <1>2 DEF Goes, MappedGoes, SameVault, Agrees, Publishes
<1>6. k.op \in Others /\ k.runner = Absent => UnmappedGoes(k)'
  BY <1>1, <1>2 DEF Goes, UnmappedGoes, SameVault
<1> QED BY <1>3, <1>4, <1>5, <1>6 DEF Goes

\* A step that no client takes and that changes no vault.
LEMMA AgreeFrame ==
    ASSUME TypeInv, AgreeInv, UNCHANGED <<registry, dirs, runners, client, daemon>>,
           \A i \in Mapped : /\ runner'[runners[i]].name = runner[runners[i]].name
                             /\ runner'[runners[i]].status = runner[runners[i]].status
    PROVE  AgreeInv'
<1>1. ASSUME NEW i \in Ids
      PROVE  SameVault(i)
  BY DEF SameVault
<1>2. Mapped' = Mapped /\ Registered' = Registered /\ Active' = Active
  BY DEF Mapped, Registered, Active
<1>3. ASSUME daemon = "dirs", NEW i \in Mapped
      PROVE  i \in dirs /\ Agrees(i)'
  BY <1>2, <1>3 DEF AgreeInv, Agrees
<1>4. ASSUME daemon = "serving", NEW c \in Clients, client[c].id # Absent
      PROVE  Goes(client[c])'
  <2>1. PICK k : k = client[c]
    OBVIOUS
  <2>2. k.id \in Ids
    BY <1>4, <2>1 DEF TypeInv, ClientInv, Requests, Maybe
  <2>3. Goes(k)'
    BY <1>1, <1>4, <2>1, <2>2, GoesStays DEF AgreeInv
  <2> QED BY <2>1, <2>3
<1>5. ASSUME daemon = "serving", NEW i \in Ids, \A c \in Clients : client[c].id # i
      PROVE  Settled(i)'
  BY <1>1, <1>5, SettledStays DEF AgreeInv
<1> QED BY <1>2, <1>3, <1>4, <1>5 DEF AgreeInv

LEMMA AgreeTask ==
    ASSUME TypeInv, AgreeInv, NEW t \in Tasks, Install(t) \/ TaskStops(t) \/ Reap(t)
    PROVE  AgreeInv'
<1>1. ASSUME NEW i \in Mapped
      PROVE  runners[i] \in Runners /\ runner[runners[i]] # Absent
  BY DEF TypeInv, MapInv, Mapped, Maybe
<1>2. MapInv
  BY DEF TypeInv
<1>3. CASE Install(t)
  <2>1. \A s \in Runners : runner[s] # Absent =>
           runner'[s].status = runner[s].status /\ runner'[s].name = runner[s].name
    BY <1>2, <1>3, InstallOk
  <2>2. UNCHANGED <<registry, dirs, runners, client, daemon>>
    BY <1>3 DEF Install, table, disk
  <2> QED BY <1>1, <2>1, <2>2, AgreeFrame
<1>4. CASE TaskStops(t) \/ Reap(t)
  <2>1. /\ UNCHANGED <<registry, dirs, runners, client, daemon>> /\ Running(t)
        /\ task' = [task EXCEPT ![t] = Absent] /\ runner' = Forget(t)
    BY <1>4 DEF TaskStops, Reap, Leaked, table, disk
  <2>2. \A s \in Runners : runner[s] # Absent =>
           runner'[s].status = runner[s].status /\ runner'[s].name = runner[s].name
    BY <1>2, <2>1, ForgetOk
  <2> QED BY <1>1, <2>1, <2>2, AgreeFrame
<1> QED BY <1>3, <1>4

\* A fresh runner's entry is its row's; the others stay.
LEMMA EntryOfNew ==
    ASSUME TypeInv, NEW i \in Ids, NEW row \in Rows,
           NEW r \in FreeRunners, NEW t \in FreeTasks, NewRunner(i, row, r, t)
    PROVE  /\ r \in Runners /\ \A s \in Runners : s # r => runner'[s] = runner[s]
           /\ \A j \in Ids : runners[j] # r /\ runners'[j] = IF j = i THEN r ELSE runners[j]
           /\ runner'[r].name = row.name /\ runner'[r].status = row.status
<1>1. r \in Runners /\ \A j \in Ids : runners[j] # r
  BY DEF FreeRunners, Held
<1>2. PICK e : e = NewBootstrapping(i, row, t)
  OBVIOUS
<1>3. runner' = [runner EXCEPT ![r] = e] /\ runners' = [runners EXCEPT ![i] = r]
  BY <1>2 DEF NewRunner
<1>4. runner'[r] = e /\ \A s \in Runners : s # r => runner'[s] = runner[s]
  BY <1>1, <1>3 DEF TypeInv, MapInv
<1>5. \A j \in Ids : runners'[j] = IF j = i THEN r ELSE runners[j]
  BY <1>3 DEF TypeInv, MapInv
<1>6. e.name = row.name /\ e.status = row.status
  BY <1>2 DEF NewBootstrapping
<1> QED BY <1>1, <1>4, <1>5, <1>6

\* With nothing under way, agreement is that of every vault.
LEMMA AgreeStartUp ==
    ASSUME TypeInv, AgreeInv, StartUp
    PROVE  AgreeInv'
<1>0. daemon # "serving" /\ \A c \in Clients : client[c].id = Absent
  <2>1. daemon # "serving"
    BY DEF StartUp, ReconcileRows, ReconcileDirs, Serve, StartVault
  <2> QED BY <2>1, IdleFields DEF TypeInv, DaemonInv
<1>1. CASE ReconcileRows
  <2>1. daemon' = "rows"
    BY <1>1 DEF ReconcileRows
  <2>2. ASSUME NEW i \in Active'
        PROVE  i \in dirs'
    <3>1. registry'[i] = IF i \in Registered /\ registry[i].status = "active"
                                             /\ registry[i].path \notin accessible
                         THEN [registry[i] EXCEPT !.status = "errored"]
                         ELSE registry[i]
      BY <1>1, <2>2 DEF ReconcileRows, Active, Registered
    <3>2. i \in Ids /\ registry'[i] # Absent /\ registry'[i].status = "active"
      BY <2>2 DEF Active, Registered
    <3>3. i \in Registered => registry[i] \in Rows
      BY DEF Registered, TypeInv, TableInv, Maybe
    <3>4. i \in Registered /\ registry[i].status = "active" /\ registry[i].path \in accessible
      BY <3>1, <3>2, <3>3 DEF Registered, Rows
    <3> QED BY <1>1, <3>4 DEF ReconcileRows
  <2> QED BY <2>1, <2>2 DEF AgreeInv
<1>2. CASE ReconcileDirs
  <2>1. /\ daemon = "rows" /\ daemon' = "dirs" /\ dirs' = dirs \cap Active
        /\ UNCHANGED <<registry, runners>>
    BY <1>2 DEF ReconcileDirs, table, memory
  <2>2. Mapped' = {}
    BY <2>1 DEF TypeInv, DaemonInv, Mapped
  <2>3. Active' = Active /\ Registered' = Registered /\ Active \subseteq Registered
    BY <2>1 DEF Active, Registered
  <2> QED BY <2>1, <2>2, <2>3 DEF AgreeInv
<1>3. ASSUME NEW i \in Ids, StartVault(i)
      PROVE  AgreeInv'
  <2>1. /\ daemon = "dirs" /\ daemon' = "dirs" /\ i \in Active \ Mapped
        /\ UNCHANGED <<registry, dirs>>
    BY <1>3 DEF StartVault, table, disk
  <2>2. PICK row \in Rows : row = registry[i]
    BY <2>1 DEF Active, Registered, TypeInv, TableInv, Maybe
  <2>3. PICK r \in FreeRunners, t \in FreeTasks : NewRunner(i, row, r, t)
    BY <1>3, <2>2, LeastFree DEF StartVault
  <2>5. /\ r \in Runners /\ \A s \in Runners : s # r => runner'[s] = runner[s]
        /\ \A j \in Ids : runners[j] # r /\ runners'[j] = IF j = i THEN r ELSE runners[j]
        /\ runner'[r].name = row.name /\ runner'[r].status = row.status
    BY <2>3, EntryOfNew
  <2>8. Active' = Active /\ Registered' = Registered
    BY <2>1 DEF Active, Registered
  <2>9. ASSUME NEW j \in Mapped'
        PROVE  j \in dirs' /\ Agrees(j)'
    <3>1. CASE j = i
      BY <2>1, <2>2, <2>5, <2>8, <3>1 DEF AgreeInv, Agrees, Active
    <3>2. CASE j # i
      <4>1. j \in Mapped /\ runners'[j] = runners[j] /\ runners[j] # r /\ runners[j] \in Runners
        BY <2>5, <3>2 DEF Mapped, TypeInv, MapInv, Maybe
      <4> QED BY <2>1, <2>5, <2>8, <4>1 DEF AgreeInv, Agrees
    <3> QED BY <3>1, <3>2
  <2> QED BY <2>1, <2>8, <2>9 DEF AgreeInv
<1>4. CASE Serve
  <2>1. /\ daemon = "dirs" /\ daemon' = "serving" /\ Active \subseteq Mapped
        /\ UNCHANGED <<registry, dirs, runners, runner, client>>
    BY <1>4 DEF Serve, table, disk, memory
  <2>2. ASSUME NEW i \in Ids
        PROVE  Settled(i)'
    <3>1. Settled(i)
      BY <2>1 DEF AgreeInv, Settled
    <3> QED BY <2>1, <3>1 DEF Settled, Active, Registered, Mapped, Agrees
  <2> QED BY <1>0, <2>1, <2>2 DEF AgreeInv
<1> QED BY <1>1, <1>2, <1>3, <1>4 DEF StartUp

\* A request finds its vault as the last one left it.
LEMMA AgreeRequest ==
    ASSUME TypeInv, OneByOne, AgreeInv, NEW c \in Clients, Request(c)
    PROVE  AgreeInv'
<1>1. /\ daemon = "serving" /\ client[c] = Idle
      /\ UNCHANGED <<registry, used, dirs, accessible, daemon, runners, runner, task>>
      /\ Fresh(client'[c])
  BY RequestStep
<1>2. PICK m : m = client'[c]
  OBVIOUS
<1>3. \A d \in Clients : d = c
  BY DEF OneByOne
<1>4. ASSUME NEW i \in Ids
      PROVE  Settled(i) /\ Settled(i)'
  <2>1. \A d \in Clients : client[d].id # i
    BY <1>1, <1>3, IdleFields, MarkAssumption
  <2>2. Settled(i) /\ SameVault(i)
    BY <1>1, <2>1 DEF AgreeInv, SameVault
  <2> QED BY <2>2, SettledStays
<1>5. /\ Registered' = Registered /\ Mapped' = Mapped /\ Active' = Active
  BY <1>1 DEF Registered, Mapped, Active
<1>6. ASSUME m.id # Absent
      PROVE  Goes(m)'
  <2>1. CASE m.op = "terminate" /\ Head(m.plan) = "unmap" /\ m.id \in Mapped
    <3>1. Settled(m.id)'
      BY <1>4, <2>1 DEF Mapped
    <3> QED BY <2>1, <3>1 DEF Goes, TerminateGoes, Heading, Others
  <2>2. CASE /\ m.op \in Others /\ m.id \in Registered /\ m.runner = runners[m.id]
             /\ m.row = registry[m.id] /\ m.plan # <<>>
             /\ m.runner # Absent <=> Head(m.plan) = "lock"
             /\ m.runner = Absent => Head(m.plan) \in {"status", "free", "rebuild"}
    <3>1. m.id \in Ids /\ m.op \notin {"create", "terminate"}
      BY <2>2 DEF Registered, Others
    <3>2. Settled(m.id) /\ Settled(m.id)'
      BY <1>4, <3>1
    <3>3. CASE m.runner # Absent
      <4>1. m.id \in Mapped /\ ~Behind(m)
        BY <2>2, <3>1, <3>3 DEF Mapped, Behind, Heading
      <4>2. Agrees(m.id)' /\ m.id \in dirs'
        BY <1>5, <3>2, <4>1 DEF Settled
      <4>3. MappedGoes(m)'
        BY <1>1, <1>5, <2>2, <4>1, <4>2 DEF MappedGoes
      <4> QED BY <3>1, <3>3, <4>3 DEF Goes
    <3>4. CASE m.runner = Absent
      <4>1. m.id \notin Mapped
        BY <2>2, <3>4 DEF Mapped
      <4>2. UnmappedGoes(m)'
        BY <1>5, <2>2, <3>2, <3>4, <4>1 DEF UnmappedGoes, Heading
      <4> QED BY <3>1, <3>4, <4>2 DEF Goes
    <3> QED BY <3>3, <3>4
  <2> QED BY <1>1, <1>2, <1>6, <2>1, <2>2 DEF Fresh
<1>7. \A d \in Clients : client'[d] = m
  BY <1>2, <1>3
<1>8. ASSUME NEW d \in Clients, (client[d].id # Absent)'
      PROVE  Goes(client[d])'
  <2>1. client'[d] = m
    BY <1>7
  <2> QED BY <1>6, <1>8, <2>1
<1> QED BY <1>1, <1>4, <1>8 DEF AgreeInv

-----------------------------------------------------------------------------
(* The operation under way takes a step.                                   *)

\* The other vaults stay as they are.
LEMMA OtherVaults ==
    ASSUME TypeInv, NEW c \in Clients, Lock(c) \/ Handle(c), NEW j \in Ids,
           client[c].id # j, client'[c].id # j
    PROVE  SameVault(j)
<1>1. PICK k : k = client[c]
  OBVIOUS
<1>2. RegistryStep(c) /\ MapStep(c)
  BY RegistrySteps, MapSteps
<1>3. ClientInv
  BY DEF TypeInv
<1>4. registry'[j] = registry[j]
  BY <1>2 DEF RegistryStep, TypeInv, TableInv
<1>5. runners'[j] = runners[j]
  BY <1>2, SMTT(30) DEF MapStep, TypeInv, MapInv
<1>6. j \in dirs' <=> j \in dirs
  BY DEF Lock, Handle, Unmap, TakeBootstrap, JoinBootstrap, DrainConsumer, SignalRescan,
         RebuildIndex, UpdateStatus, Reread, OpenStore, Spawn, Publish, CheckFree, Insert,
         CreateSubdir, UpdateName, WriteMeta, DeleteRow, RemoveDir, disk
<1>7. ASSUME NEW r, r = runners[j], j \in Mapped
      PROVE  runner'[r].name = runner[r].name /\ runner'[r].status = runner[r].status
  <2>1. r \in Runners /\ r # k.runner
    BY <1>1, <1>7, MapIsInjective
  <2>2. CASE UNCHANGED runner
    BY <2>2
  <2>3. CASE TakeBootstrap(c) \/ JoinBootstrap(c) \/ Publish(c)
    <3>1. \E e : runner' = [runner EXCEPT ![k.runner] = e]
      BY <1>1, <2>3 DEF TakeBootstrap, JoinBootstrap, Publish
    <3> QED BY <2>1, <3>1 DEF TypeInv, MapInv
  <2>4. CASE Spawn(c)
    <3>1. CASE \E e : runner' = [runner EXCEPT ![k.runner] = e]
      BY <2>1, <3>1 DEF TypeInv, MapInv
    <3>2. CASE k.runner = Absent
      <4>1. PICK s \in FreeRunners, t \in FreeTasks :
               runner' = [runner EXCEPT ![s] = NewBootstrapping(k.id, k.row, t)]
        BY <1>1, <2>4, <3>2, LeastFree DEF Spawn, NewRunner
      <4>2. s # r
        BY <1>7 DEF FreeRunners, Held
      <4> QED BY <2>1, <4>1, <4>2 DEF TypeInv, MapInv
    <3> QED BY <1>1, <2>4, <3>1, <3>2 DEF Spawn
  <2> QED BY <2>2, <2>3, <2>4
          DEF Lock, Handle, Unmap, DrainConsumer, SignalRescan, RebuildIndex, UpdateStatus,
              Reread, OpenStore, CheckFree, Insert, CreateSubdir, UpdateName, WriteMeta,
              DeleteRow, RemoveDir, memory
<1> QED BY <1>4, <1>5, <1>6, <1>7 DEF SameVault

\* What a quiet step does to the directories, and how it ends the handler early.
LEMMA QuietDirs ==
    ASSUME TypeInv, NEW c \in Clients, QuietStep(c), NEW k, k = client[c]
    PROVE  /\ k.id \in dirs' <=>
                 CASE \/ Head(k.plan) \in {"open", "subdir"}
                      \/ Head(k.plan) = "rebuild" /\ k.runner = Absent -> TRUE
                   [] Head(k.plan) = "rmdir" -> FALSE
                   [] OTHER -> k.id \in dirs
           /\ client'[c] = Idle /\ Tail(k.plan) # <<>> =>
                 /\ UNCHANGED registry
                 /\ \/ Head(k.plan) \in {"lock", "free", "update", "name", "path"}
                    \/ Head(k.plan) \in {"status", "reread"} /\ k.id \notin Registered
                    \/ Head(k.plan) = "meta" /\ k.id \notin dirs
           /\ Head(k.plan) = "update" /\ client'[c] # Idle =>
                 /\ k.id \in Registered
                 /\ registry' = [registry EXCEPT ![k.id].name = k.arg]
           /\ Head(k.plan) = "status" /\ k.id \in Registered =>
                 registry' = [registry EXCEPT ![k.id].status =
                                IF k.op = "pause" THEN "paused" ELSE "active"]
           /\ Head(k.plan) = "delete" => registry' = [registry EXCEPT ![k.id] = Absent]
           /\ Head(k.plan) \notin {"update", "status", "delete"} => UNCHANGED registry
<1>0. Lock(c) \/ Handle(c)
  BY DEF QuietStep, Handle
<1>1. k.plan # <<>> /\ k \in Requests
  BY <1>0, HandlerStep DEF TypeInv, ClientInv
<1>2. Return(c) => client'[c] = Idle
  BY ReturnIs DEF TypeInv
<1>3. \A n \in Requests : n.plan = k.plan /\ Proceed(c, n) /\ Tail(k.plan) # <<>> =>
         client'[c] # Idle
  BY <1>1, GoesOn
<1>4. Proceed(c, k) /\ Tail(k.plan) # <<>> => client'[c] # Idle
  BY <1>1, <1>3
<1>5. CASE Lock(c)
  BY <1>5 DEF Lock, At, table, disk
<1>6. CASE DrainConsumer(c)
  <2> DEFINE n == [k EXCEPT !.wait = Absent]
  <2>1. n \in Requests /\ n.plan = k.plan
    BY <1>1 DEF Requests, Maybe
  <2>2. Proceed(c, n)
    BY <1>6 DEF DrainConsumer
  <2> HIDE DEF n
  <2>3. Tail(k.plan) # <<>> => client'[c] # Idle
    BY <1>3, <2>1, <2>2
  <2> QED BY <1>6, <2>3 DEF DrainConsumer, At, table, disk
<1>7. CASE Reread(c)
  <2> DEFINE n == [k EXCEPT !.row = registry[k.id]]
  <2>1. CASE k.id \in Registered
    <3>1. registry[k.id] \in Rows
      BY <2>1 DEF Registered, TypeInv, TableInv, Maybe
    <3>2. n \in Requests /\ n.plan = k.plan
      BY <1>1, <3>1 DEF Requests, Maybe
    <3>3. Proceed(c, n)
      BY <1>7, <2>1 DEF Reread
    <3> HIDE DEF n
    <3>4. Tail(k.plan) # <<>> => client'[c] # Idle
      BY <1>3, <3>2, <3>3
    <3> QED BY <1>7, <3>4 DEF Reread, At, table, disk
  <2>2. CASE k.id \notin Registered
    BY <1>7, <2>2 DEF Reread, At, table, disk
  <2> QED BY <2>1, <2>2
<1>8. CASE SignalRescan(c) \/ RebuildIndex(c) \/ OpenStore(c)
  BY <1>4, <1>8 DEF SignalRescan, RebuildIndex, OpenStore, At, table, disk
<1>9. CASE CreateSubdir(c) \/ DeleteRow(c) \/ RemoveDir(c)
  BY <1>4, <1>9 DEF CreateSubdir, DeleteRow, RemoveDir, At, table, disk
<1>10. CASE UpdateStatus(c)
  BY <1>2, <1>4, <1>10 DEF UpdateStatus, At, disk
<1>11. CASE UpdateName(c)
  BY <1>2, <1>4, <1>11 DEF UpdateName, At, disk
<1>12. CASE CheckFree(c) \/ WriteMeta(c)
  BY <1>2, <1>4, <1>12 DEF CheckFree, WriteMeta, At, table, disk
<1> QED BY <1>5, <1>6, <1>7, <1>8, <1>9, <1>10, <1>11, <1>12 DEF QuietStep

\* What it does to the row and the entry of its own vault.
LEMMA QuietRow ==
    ASSUME TypeInv, NEW c \in Clients, QuietStep(c), NEW k, k = client[c],
           NEW i \in Ids, i = k.id
    PROVE  /\ UNCHANGED <<daemon, runners, runner>>
           /\ i \in Registered /\ Head(k.plan) # "delete" =>
                 /\ i \in Registered'
                 /\ registry'[i].status = IF Head(k.plan) = "status"
                                          THEN IF k.op = "pause" THEN "paused" ELSE "active"
                                          ELSE registry[i].status
                 /\ registry'[i].name = IF Head(k.plan) = "update" /\ client'[c] # Idle
                                        THEN k.arg ELSE registry[i].name
           /\ Head(k.plan) \notin {"update", "status", "delete"} => registry'[i] = registry[i]
           /\ Head(k.plan) = "delete" => i \notin Registered'
<1>1. UNCHANGED <<daemon, runners, runner>>
  BY QuietMemory
<1>2. registry \in [Ids -> Maybe(Rows)]
  BY DEF TypeInv, TableInv
<1>3. CASE UNCHANGED registry /\ Head(k.plan) \notin {"status", "delete"}
           /\ (Head(k.plan) = "update" => client'[c] = Idle)
  BY <1>1, <1>3 DEF Registered
<1>4. CASE Head(k.plan) = "delete"
  <2>1. registry' = [registry EXCEPT ![i] = Absent]
    BY <1>4, QuietDirs
  <2> QED BY <1>1, <1>2, <1>4, <2>1 DEF Registered
<1>5. CASE Head(k.plan) = "update" /\ client'[c] # Idle
  <2>1. i \in Registered /\ registry' = [registry EXCEPT ![i].name = k.arg]
    BY <1>5, QuietDirs
  <2>2. registry[i] \in Rows /\ registry'[i] = [registry[i] EXCEPT !.name = k.arg]
    BY <1>2, <2>1 DEF Registered, Maybe
  <2>3. k.arg \in Names
    <3>1. QuietStep(c) /\ (Lock(c) \/ Handle(c))
      BY DEF QuietStep, Handle
    <3>2. At(c, "update")
      BY <1>5, <3>1, HandlerStep DEF At
    <3> QED BY <3>2, AtIs DEF TypeInv, CreationStep, TerminationStep, OperationStep, Operates
  <2>4. registry'[i] \in Rows
    BY <2>2, <2>3 DEF Rows
  <2>5. i \in Registered'
    BY <2>4, AbsentAssumption DEF Registered
  <2> QED BY <1>1, <1>5, <2>2, <2>5 DEF Rows
<1>6. CASE Head(k.plan) = "status" /\ i \in Registered
  <2>1. PICK s \in {"paused", "active"} : s = IF k.op = "pause" THEN "paused" ELSE "active"
    OBVIOUS
  <2>2. registry' = [registry EXCEPT ![i].status = s]
    BY <1>6, <2>1, QuietDirs
  <2>3. registry[i] \in Rows /\ registry'[i] = [registry[i] EXCEPT !.status = s]
    BY <1>2, <1>6, <2>2 DEF Registered, Maybe
  <2>4. registry'[i] \in Rows
    BY <2>3 DEF Rows, Statuses
  <2>5. i \in Registered'
    BY <2>4, AbsentAssumption DEF Registered
  <2> QED BY <1>1, <1>6, <2>1, <2>3, <2>5 DEF Rows
<1>7. CASE Head(k.plan) = "status" /\ i \notin Registered
  BY <1>1, <1>7
<1>8. Head(k.plan) = "update" /\ client'[c] = Idle => UNCHANGED registry
  <2> SUFFICES ASSUME Head(k.plan) = "update", client'[c] = Idle
               PROVE  UNCHANGED registry
    OBVIOUS
  <2>1. (Lock(c) \/ Handle(c)) /\ ClientInv
    BY DEF QuietStep, Handle, TypeInv
  <2>2. At(c, "update")
    BY <2>1, HandlerStep DEF At
  <2>3. Tail(k.plan) # <<>>
    BY <2>1, <2>2, AtIs DEF CreationStep, TerminationStep, OperationStep, Then
  <2> QED BY <2>3, QuietDirs
<1> QED BY <1>3, <1>4, <1>5, <1>6, <1>7, <1>8, QuietDirs

LEMMA CreateQuiet ==
    ASSUME TypeInv, NEW c \in Clients, QuietStep(c), NEW k, k = client[c], k.id \in Ids,
           Creates(k), CreationStep(k.plan), Goes(k), NEW m, m = client'[c], m # Idle,
           Onward(c, k, m)
    PROVE  CreateGoes(m)' /\ m.op = "create"
<1>1. PICK i \in Ids : i = k.id
  OBVIOUS
<1>2. k.op = "create" /\ Head(k.plan) \notin {"name", "path", "insert"} /\ CreateGoes(k)
  BY MarkAssumption DEF Creates, Goes
<1>3. /\ m.plan = Tail(k.plan) /\ m.id = i /\ m.row = k.row /\ m.op = "create"
      /\ \/ Head(k.plan) = "subdir" /\ Head(m.plan) = "open"
         \/ Head(k.plan) = "open" /\ Head(m.plan) = "spawn"
  BY <1>1, <1>2 DEF Onward, CreationStep, Then
<1>4. /\ i \in Registered' /\ i \notin Mapped' /\ registry'[i] = registry[i]
      /\ Head(k.plan) = "open" => i \in dirs'
  BY <1>1, <1>2, <1>3, QuietRow, QuietDirs, ZenonT(60) DEF CreateGoes, Mapped
<1> QED BY <1>1, <1>2, <1>3, <1>4 DEF CreateGoes, Heading

LEMMA TerminateQuiet ==
    ASSUME TypeInv, NEW c \in Clients, QuietStep(c), NEW k, k = client[c],
           Terminates(k), TerminationStep(k.plan), Goes(k), NEW m, m = client'[c],
           m = Idle \/ Onward(c, k, m)
    PROVE  /\ m # Idle => TerminateGoes(m)' /\ m.op = "terminate"
           /\ m = Idle => Settled(k.id)'
<1>1. PICK i \in Ids : i = k.id
  BY DEF Terminates
<1>2. k.op = "terminate" /\ TerminateGoes(k)
  BY DEF Terminates, Goes
<1>3. Head(k.plan) \in {"drain", "delete", "rmdir"} /\ k.plan # <<>>
  <2>1. /\ Lock(c) \/ Handle(c)
        /\ Head(k.plan) \notin {"unmap", "boot", "join"}
    BY DEF QuietStep, Lock, Handle, DrainConsumer, SignalRescan, RebuildIndex, UpdateStatus,
           Reread, OpenStore, CheckFree, CreateSubdir, UpdateName, WriteMeta, DeleteRow,
           RemoveDir, At
  <2> QED BY <2>1, HandlerStep DEF TerminationStep
<1>4. i \notin Mapped
  BY <1>1, <1>2, <1>3 DEF TerminateGoes, Heading
<1>5. /\ i \notin Mapped'
      /\ Head(k.plan) = "delete" => i \notin Registered'
      /\ Head(k.plan) = "rmdir" => i \notin Registered' /\ i \notin dirs'
  <2>1. Head(k.plan) = "rmdir" => i \notin Registered
    BY <1>1, <1>2, <1>3 DEF TerminateGoes, Heading
  <2> QED BY <1>1, <1>4, <2>1, QuietRow, QuietDirs DEF Mapped, Registered
<1>6. CASE m = Idle
  <2>1. Head(k.plan) = "rmdir"
    BY <1>3, <1>6, QuietDirs DEF TerminationStep, Then
  <2> QED BY <1>1, <1>5, <1>6, <2>1 DEF Settled, Active
<1>7. CASE m # Idle
  <2>1. /\ m.plan = Tail(k.plan) /\ m.id = i /\ m.op = "terminate" /\ m.plan # <<>>
        /\ \/ Head(k.plan) = "drain" /\ Head(m.plan) = "delete"
           \/ Head(k.plan) = "delete" /\ Head(m.plan) = "rmdir"
    BY <1>1, <1>2, <1>3, <1>7 DEF Onward, TerminationStep, Then
  <2> QED BY <1>5, <1>7, <2>1 DEF TerminateGoes, Heading
<1> QED BY <1>6, <1>7

LEMMA MappedQuiet ==
    ASSUME TypeInv, NEW c \in Clients, QuietStep(c), NEW k, k = client[c],
           k.op \in Others, k.runner # Absent, OperationStep(k.op, TRUE, k.plan), k.plan # <<>>,
           MappedGoes(k), NEW m, m = client'[c], m = Idle \/ Onward(c, k, m)
    PROVE  /\ m # Idle => MappedGoes(m)' /\ m.op = k.op /\ m.runner = k.runner
           /\ m = Idle => Settled(k.id)'
<1>1. PICK i \in Ids : i = k.id
  BY DEF MappedGoes, Mapped
<1>2. PICK h : h = Head(k.plan)
  OBVIOUS
<1>3. /\ i \in Registered /\ i \in Mapped /\ k.runner = runners[i] /\ i \in dirs
      /\ k.op \notin {"create", "terminate"}
  BY <1>1 DEF MappedGoes, Others
<1>4. h \notin {"delete", "rmdir", "unmap", "boot", "join", "publish", "spawn", "insert"}
  <2>1. h \notin {"delete", "rmdir", "unmap", "insert"}
    BY <1>2 DEF OperationStep
  <2>2. h \notin {"boot", "join", "publish", "spawn"}
    BY <1>2 DEF QuietStep, Lock, DrainConsumer, SignalRescan, RebuildIndex, UpdateStatus,
           Reread, OpenStore, CheckFree, CreateSubdir, UpdateName, WriteMeta, DeleteRow,
           RemoveDir, At
  <2> QED BY <2>1, <2>2
<1>5. PICK e : e = runner[k.runner]
  OBVIOUS
<1>6. PICK R, S : R = registry[i] /\ S = registry'[i]
  OBVIOUS
<1>7. /\ UNCHANGED <<daemon, runners, runner>> /\ i \in Registered' /\ i \in Mapped'
      /\ S.status = IF h = "status" THEN IF k.op = "pause" THEN "paused" ELSE "active"
                    ELSE R.status
      /\ S.name = IF h = "update" /\ m # Idle THEN k.arg ELSE R.name
      /\ h \notin {"update", "status"} => S = R
  BY <1>1, <1>2, <1>3, <1>4, <1>6, QuietRow DEF Mapped
<1>8. i \in dirs'
  BY <1>1, <1>2, <1>3, <1>4, QuietDirs
<1>9. IF Behind(k)
      THEN /\ k.op = "pause" => R.status = "paused" /\ e.name = R.name
           /\ k.op = "resume" => R.status = "active" /\ k.row.name = R.name
           /\ k.op = "rename" => R.name = k.arg /\ e.status = R.status
           /\ k.op \in {"reset", "rebuild"} /\ Heading(k, {"open", "spawn"}) => k.row = R
      ELSE /\ e.name = R.name /\ e.status = R.status
           /\ k.op = "resume" => k.row.name = R.name
  BY <1>1, <1>3, <1>5, <1>6 DEF MappedGoes, Publishes, Agrees
<1>10. CASE m = Idle
  <2>1. ~Behind(k) /\ S = R
    <3>1. CASE Tail(k.plan) = <<>>
      BY <1>2, <1>4, <1>7, <3>1 DEF OperationStep, Then, Behind, Heading
    <3>2. CASE Tail(k.plan) # <<>>
      <4>1. h \in {"lock", "free", "update"}
        BY <1>1, <1>2, <1>3, <1>10, <3>2, QuietDirs DEF OperationStep
      <4>2. S = R
        BY <1>1, <1>2, <1>6, <1>7, <1>10, <3>2, <4>1, QuietDirs
      <4> QED BY <1>2, <4>1, <4>2 DEF Behind, Heading
    <3> QED BY <3>1, <3>2
  <2>2. e.name = R.name /\ e.status = R.status
    BY <1>9, <2>1
  <2>3. Agrees(i)'
    BY <1>3, <1>5, <1>6, <1>7, <2>1, <2>2 DEF Agrees
  <2> QED BY <1>1, <1>7, <1>8, <1>10, <2>3 DEF Settled
<1>11. CASE m # Idle
  <2>1. /\ m.plan = Tail(k.plan) /\ m.plan # <<>> /\ m.op = k.op /\ m.id = i /\ m.arg = k.arg
        /\ m.runner = k.runner /\ m.row = IF h = "reread" THEN R ELSE k.row
    BY <1>1, <1>2, <1>4, <1>6, <1>11 DEF Onward
  <2>2. PICK g : g = Head(m.plan)
    OBVIOUS
  <2>3. \/ /\ h = "lock"
           /\ \/ k.op \in Stopping /\ g = "boot"
              \/ k.op = "resume" /\ g = "open"
              \/ k.op = "rename" /\ g = "free"
              \/ k.op = "rescan" /\ g = "signal"
        \/ h = "drain" /\ k.op \in Stopping /\ g \in {"status", "rebuild"}
        \/ h = "rebuild" /\ k.op = "rebuild" /\ g = "status"
        \/ h = "status" /\ k.op \in {"pause", "resume"} /\ g = "publish"
        \/ h = "status" /\ k.op \in {"reset", "rebuild"} /\ g = "reread"
        \/ h = "reread" /\ k.op \in {"reset", "rebuild"} /\ g = "open"
        \/ h = "reread" /\ k.op = "rename" /\ g = "meta"
        \/ h = "open" /\ k.op \in {"resume", "reset", "rebuild"} /\ g = "spawn"
        \/ h = "free" /\ k.op = "rename" /\ g = "update"
        \/ h = "update" /\ k.op = "rename" /\ g = "reread"
        \/ h = "meta" /\ k.op = "rename" /\ g = "publish"
    BY <1>2, <1>4, <2>1, <2>2 DEF OperationStep, Then, Stopping
  <2>4. /\ Behind(k) <=> \/ k.op \in {"pause", "resume"} /\ h = "publish"
                         \/ k.op = "rename" /\ h \in {"reread", "meta", "publish"}
                         \/ k.op \in {"reset", "rebuild"} /\ h \in {"reread", "open", "spawn"}
        /\ Behind(m) <=> \/ k.op \in {"pause", "resume"} /\ g = "publish"
                         \/ k.op = "rename" /\ g \in {"reread", "meta", "publish"}
                         \/ k.op \in {"reset", "rebuild"} /\ g \in {"reread", "open", "spawn"}
        /\ Heading(k, {"open", "spawn"}) <=> h \in {"open", "spawn"}
        /\ Heading(m, {"open", "spawn"}) <=> g \in {"open", "spawn"}
    BY <1>2, <2>1, <2>2 DEF Behind, Heading
  <2>5. IF Behind(m)
        THEN /\ k.op = "pause" => S.status = "paused" /\ e.name = S.name
             /\ k.op = "resume" => S.status = "active" /\ m.row.name = S.name
             /\ k.op = "rename" => S.name = k.arg /\ e.status = S.status
             /\ k.op \in {"reset", "rebuild"} /\ Heading(m, {"open", "spawn"}) => m.row = S
        ELSE /\ e.name = S.name /\ e.status = S.status
             /\ k.op = "resume" => m.row.name = S.name
    BY <1>7, <1>9, <1>11, <2>1, <2>3, <2>4 DEF Stopping
  <2>6. IF Behind(m) THEN Publishes(m)'
        ELSE Agrees(i)' /\ (m.op = "resume" => m.row.name = S.name)
    BY <1>3, <1>5, <1>6, <1>7, <2>1, <2>5 DEF Publishes, Agrees
  <2>7. MappedGoes(m)'
    BY <1>3, <1>6, <1>7, <1>8, <2>1, <2>6 DEF MappedGoes
  <2> QED BY <1>11, <2>1, <2>7
<1> QED BY <1>10, <1>11

LEMMA UnmappedQuiet ==
    ASSUME TypeInv, NEW c \in Clients, QuietStep(c), NEW k, k = client[c],
           k.op \in Others, k.runner = Absent, OperationStep(k.op, FALSE, k.plan), k.plan # <<>>,
           UnmappedGoes(k), NEW m, m = client'[c], m = Idle \/ Onward(c, k, m)
    PROVE  /\ m # Idle => UnmappedGoes(m)' /\ m.op = k.op /\ m.runner = Absent
           /\ m = Idle => Settled(k.id)'
<1>1. PICK i \in Ids : i = k.id
  BY DEF UnmappedGoes, Registered
<1>2. PICK h : h = Head(k.plan)
  OBVIOUS
<1>3. i \in Registered /\ i \notin Mapped /\ k.op \notin {"create", "terminate"}
  BY <1>1 DEF UnmappedGoes, Others
<1>4. h \in {"rebuild", "status", "reread", "open", "free", "update", "meta"}
  <2>1. h # "spawn"
    BY <1>2 DEF QuietStep, Lock, DrainConsumer, SignalRescan, RebuildIndex, UpdateStatus,
           Reread, OpenStore, CheckFree, CreateSubdir, UpdateName, WriteMeta, DeleteRow,
           RemoveDir, At
  <2> QED BY <1>2, <2>1 DEF OperationStep
<1>5. PICK R, S : R = registry[i] /\ S = registry'[i]
  OBVIOUS
<1>6. /\ UNCHANGED <<daemon, runners, runner>> /\ i \in Registered' /\ i \notin Mapped'
      /\ h # "status" => S.status = R.status
      /\ h \notin {"update", "status"} => S = R
  BY <1>1, <1>2, <1>3, <1>4, <1>5, QuietRow DEF Mapped
<1>7. i \in dirs' <=> IF h = "open" \/ h = "rebuild" THEN TRUE ELSE i \in dirs
  BY <1>1, <1>2, <1>3, <1>4, QuietDirs
<1>8. k.op = "rename" => Settled(i) /\ h \in {"free", "update", "reread", "meta"}
  BY <1>1, <1>2, <1>4 DEF UnmappedGoes, OperationStep
<1>9. k.op = "rename" => Settled(i)'
  <2> SUFFICES ASSUME k.op = "rename" PROVE Settled(i)'
    OBVIOUS
  <2>1. Settled(i) /\ h # "status" /\ (i \in dirs' <=> i \in dirs)
    BY <1>7, <1>8
  <2>2. i \notin Active'
    BY <1>3, <1>5, <1>6, <2>1 DEF Settled, Active
  <2> QED BY <1>3, <1>6, <2>1, <2>2 DEF Settled
<1>10. CASE m = Idle
  <2>1. k.op = "rename"
    <3>1. CASE Tail(k.plan) = <<>>
      BY <1>2, <1>4, <3>1 DEF OperationStep, Then
    <3>2. CASE Tail(k.plan) # <<>>
      <4>1. h \in {"free", "update", "meta"}
        BY <1>1, <1>2, <1>3, <1>4, <1>10, <3>2, QuietDirs
      <4> QED BY <1>2, <4>1 DEF OperationStep
    <3> QED BY <3>1, <3>2
  <2> QED BY <1>1, <1>9, <1>10, <2>1
<1>11. CASE m # Idle
  <2>1. /\ m.plan = Tail(k.plan) /\ m.plan # <<>> /\ m.op = k.op /\ m.id = i
        /\ m.runner = Absent /\ m.row = IF h = "reread" THEN R ELSE k.row
    BY <1>1, <1>2, <1>4, <1>5, <1>11 DEF Onward
  <2>2. Head(m.plan) = "open" => h = "reread"
    BY <1>2, <1>4, <2>1 DEF OperationStep, Then
  <2>3. Head(m.plan) = "spawn" => h = "open"
    BY <1>2, <1>4, <2>1 DEF OperationStep, Then
  <2>4. h = "open" => k.row = R
    BY <1>1, <1>2, <1>5 DEF UnmappedGoes, Heading
  <2>5. /\ Heading(m, {"open", "spawn"}) => m.row = S
        /\ Heading(m, {"spawn"}) => i \in dirs'
    BY <1>6, <1>7, <2>1, <2>2, <2>3, <2>4 DEF Heading
  <2>6. UnmappedGoes(m)'
    BY <1>5, <1>6, <1>9, <2>1, <2>5 DEF UnmappedGoes
  <2> QED BY <1>11, <2>1, <2>6
<1> QED BY <1>10, <1>11

LEMMA ShutdownGoes ==
    ASSUME TypeInv, NEW c \in Clients, TakeBootstrap(c) \/ JoinBootstrap(c),
           NEW k, k = client[c], Goes(k), NEW m, m = client'[c], m = Idle \/ Onward(c, k, m)
    PROVE  m # Idle /\ Goes(m)'
<1>0. Lock(c) \/ Handle(c)
  BY DEF Handle
<1>1. PICK r : r = k.runner
  OBVIOUS
<1>2. /\ At(c, "boot") \/ At(c, "join")
      /\ UNCHANGED <<registry, dirs, runners, daemon>>
  BY DEF TakeBootstrap, JoinBootstrap, table, disk
<1>3. /\ r \in Runners /\ runner[r] \in RunnerValues /\ k.id \in Ids /\ k \in Requests
      /\ k.plan # <<>> /\ Head(k.plan) \in {"boot", "join"} /\ ClientOk(k)
  BY <1>1, <1>2, AtRunner, AtVault, AtIs DEF TypeInv, ClientInv, At
<1>4. /\ Tail(k.plan) # <<>> /\ Head(Tail(k.plan)) \in {"join", "drain"}
      /\ k.op \in Stopping \cup {"terminate"}
      /\ k.op = "terminate" => Terminates(k)
  <2>1. \/ Creates(k) /\ CreationStep(k.plan)
        \/ Terminates(k) /\ TerminationStep(k.plan)
        \/ Operates(k) /\ OperationStep(k.op, k.runner # Absent, k.plan)
    BY <1>2, AtIs DEF TypeInv
  <2>2. CASE Creates(k) /\ CreationStep(k.plan)
    BY <1>3, <2>2 DEF CreationStep
  <2>3. CASE Terminates(k) /\ TerminationStep(k.plan)
    BY <1>3, <2>3, SMTT(30) DEF TerminationStep, Then, Terminates
  <2>4. CASE Operates(k) /\ OperationStep(k.op, k.runner # Absent, k.plan)
    BY <1>3, <2>4 DEF OperationStep, Then, Stopping, Operates
  <2> QED BY <2>1, <2>2, <2>3, <2>4
<1>5. PICK t : Proceed(c, [k EXCEPT !.wait = t]) /\ t \in Maybe(Tasks)
  BY <1>1, <1>3 DEF TakeBootstrap, JoinBootstrap, RunnerValues
<1>6. m # Idle
  <2> DEFINE n == [k EXCEPT !.wait = t]
  <2>1. n \in Requests /\ n.plan = k.plan /\ Proceed(c, n)
    BY <1>3, <1>5 DEF Requests
  <2> HIDE DEF n
  <2> QED BY <1>3, <1>4, <2>1, GoesOn
<1>7. /\ m.plan = Tail(k.plan) /\ m.op = k.op /\ m.id = k.id /\ m.runner = r
      /\ m.row = k.row /\ m.plan # <<>>
  BY <1>1, <1>3, <1>4, <1>6 DEF Onward
<1>8. \A s \in Runners : runner'[s].name = runner[s].name /\ runner'[s].status = runner[s].status
  <2>1. \/ runner' = [runner EXCEPT ![r] = [runner[r] EXCEPT !.boot = Absent]]
        \/ runner' = [runner EXCEPT ![r] = [runner[r] EXCEPT !.life = Absent]]
    BY <1>1 DEF TakeBootstrap, JoinBootstrap
  <2>2. \A s \in Runners : s # r => runner'[s] = runner[s]
    BY <2>1 DEF TypeInv, MapInv
  <2>3. \/ runner'[r] = [runner[r] EXCEPT !.boot = Absent]
        \/ runner'[r] = [runner[r] EXCEPT !.life = Absent]
    BY <1>3, <2>1 DEF TypeInv, MapInv
  <2>4. runner'[r].name = runner[r].name /\ runner'[r].status = runner[r].status
    BY <1>3, <2>3 DEF RunnerValues
  <2> QED BY <2>2, <2>4
<1>9. SameVault(k.id)
  BY <1>2, <1>8 DEF SameVault, TypeInv, MapInv, Mapped, Maybe
<1>10. Goes(m)
  <2>1. CASE k.op = "terminate"
    <3>1. k.id \notin Mapped
      BY <1>3, <2>1 DEF Goes, TerminateGoes, Heading
    <3> QED BY <1>4, <1>7, <2>1, <3>1 DEF Goes, TerminateGoes, Heading, Others
  <2>2. CASE k.op \in Stopping
    <3>1. k.op \in Others /\ k.op \notin {"create", "terminate", "rename", "resume"}
      BY <2>2 DEF Others, Operations, Stopping
    <3>2. r # Absent
      BY <1>3, MarkAssumption
    <3>3. ~Behind(k) /\ ~Behind(m)
      BY <1>3, <1>4, <1>7, <3>1 DEF Behind, Heading
    <3>4. MappedGoes(m)
      BY <1>1, <1>7, <3>1, <3>2, <3>3 DEF Goes, MappedGoes
    <3> QED BY <1>7, <3>1, <3>2, <3>4 DEF Goes
  <2> QED BY <1>4, <2>1, <2>2
<1>11. m.id \in Ids /\ SameVault(m.id)
  BY <1>3, <1>7, <1>9
<1> QED BY <1>6, <1>10, <1>11, GoesStays

LEMMA UnmapGoes ==
    ASSUME TypeInv, NEW c \in Clients, Unmap(c), NEW k, k = client[c],
           NEW m, m = client'[c], m = Idle \/ Onward(c, k, m)
    PROVE  m # Idle /\ Goes(m)'
<1>1. /\ At(c, "unmap") /\ runners' = [runners EXCEPT ![k.id] = Absent]
  BY DEF Unmap
<1>2. /\ Terminates(k) /\ k.id \in Ids /\ Then(k.plan, "boot") /\ Head(k.plan) = "unmap"
      /\ k \in Requests
  BY <1>1, AtIs, AtVault DEF TypeInv, At, CreationStep, TerminationStep, OperationStep
<1>3. k.id \notin Mapped'
  BY <1>1, <1>2 DEF TypeInv, MapInv, Mapped
<1>4. m # Idle
  <2>1. PICK r, p : /\ r = runners[k.id]
                    /\ p = IF r = Absent THEN <<"unmap", "delete", "rmdir">> ELSE k.plan
    OBVIOUS
  <2> DEFINE n == [k EXCEPT !.runner = r, !.plan = p]
  <2>2. /\ p \in Seq(Steps) /\ Tail(p) # <<>> /\ Tail(p) \in Seq(Steps)
    <3>1. CASE r = Absent
      BY <2>1, <3>1, ShortTermination, TerminationStepOk
    <3>2. CASE r # Absent
      BY <1>2, <2>1, <3>2, TerminationStepOk DEF Terminates, Then
    <3> QED BY <3>1, <3>2
  <2>3. n.plan = p /\ Proceed(c, n)
    BY <1>2, <2>1, <2>2 DEF Unmap, Requests
  <2>4. n \in Requests
    BY <1>2, <2>1, <2>2 DEF Requests, TypeInv, MapInv
  <2> HIDE DEF n
  <2>5. PICK q : q = Tail(p)
    OBVIOUS
  <2>6. m = [n EXCEPT !.plan = q]
    <3>1. m = Advance(n)
      BY <2>3, ProceedIs DEF TypeInv
    <3>2. Advance(n) = [n EXCEPT !.plan = q]
      BY <2>2, <2>3, <2>4, <2>5, AdvanceIs
    <3> QED BY <3>1, <3>2
  <2>7. m.plan = q
    BY <2>2, <2>4, <2>5, <2>6, WithPlan
  <2> QED BY <2>2, <2>5, <2>7, IdleFields
<1>5. m.op = "terminate" /\ m.id = k.id /\ Head(m.plan) \in {"boot", "delete"} /\ m.plan # <<>>
  BY <1>2, <1>4 DEF Onward, Then, Terminates
<1> QED BY <1>3, <1>4, <1>5 DEF Goes, TerminateGoes, Heading, Others

LEMMA PublishGoes ==
    ASSUME TypeInv, NEW c \in Clients, Publish(c), NEW k, k = client[c], Goes(k),
           NEW m, m = client'[c], m = Idle \/ Onward(c, k, m)
    PROVE  m = Idle /\ Settled(k.id)'
<1>1. PICK i, r : i = k.id /\ r = k.runner
  OBVIOUS
<1>2. /\ At(c, "publish") /\ UNCHANGED <<registry, dirs, runners>>
      /\ runner' = [runner EXCEPT ![r] =
             CASE k.op = "pause" -> [@ EXCEPT !.status = "paused"]
               [] k.op = "resume" -> [@ EXCEPT !.status = "active", !.name = k.row.name]
               [] OTHER -> [@ EXCEPT !.name = k.arg]]
  BY <1>1 DEF Publish, table, disk
<1>3. /\ r \in Runners /\ r # Absent /\ runner[r] \in RunnerValues /\ i \in Ids
      /\ k.plan # <<>> /\ Head(k.plan) = "publish"
  BY <1>1, <1>2, AtRunner, AtVault, MarkAssumption DEF At
<1>4. /\ Operates(k) /\ Tail(k.plan) = <<>> /\ k.op \in {"pause", "resume", "rename"}
  <2>1. \/ Creates(k) /\ CreationStep(k.plan)
        \/ Terminates(k) /\ TerminationStep(k.plan)
        \/ Operates(k) /\ OperationStep(k.op, k.runner # Absent, k.plan)
    BY <1>2, AtIs DEF TypeInv
  <2>2. ~CreationStep(k.plan) /\ ~TerminationStep(k.plan)
    BY <1>3 DEF CreationStep, TerminationStep
  <2> QED BY <1>3, <2>1, <2>2 DEF OperationStep
<1>5. m = Idle
  BY <1>3, <1>4 DEF Onward
<1>6. MappedGoes(k) /\ Behind(k)
  BY <1>1, <1>3, <1>4 DEF Goes, Operates, Behind, Heading
<1>7. PICK e, R : e = runner[r] /\ R = registry[i]
  OBVIOUS
<1>8. /\ i \in Registered /\ i \in Mapped /\ r = runners[i] /\ i \in dirs
      /\ k.op = "pause" => R.status = "paused" /\ e.name = R.name
      /\ k.op = "resume" => R.status = "active" /\ k.row.name = R.name
      /\ k.op = "rename" => R.name = k.arg /\ e.status = R.status
  BY <1>1, <1>6, <1>7 DEF MappedGoes, Publishes
<1>9. runner'[r] = CASE k.op = "pause" -> [e EXCEPT !.status = "paused"]
               [] k.op = "resume" -> [e EXCEPT !.status = "active", !.name = k.row.name]
               [] OTHER -> [e EXCEPT !.name = k.arg]
  BY <1>2, <1>3, <1>7 DEF TypeInv, MapInv
<1>10. runner'[r].name = R.name /\ runner'[r].status = R.status
  BY <1>3, <1>4, <1>7, <1>8, <1>9 DEF RunnerValues
<1>11. Agrees(i)'
  BY <1>2, <1>7, <1>8, <1>10 DEF Agrees, Registered
<1> QED BY <1>1, <1>2, <1>5, <1>8, <1>11 DEF Settled, Agrees, Mapped

\* A spawn on the runner that is there publishes what a reset read; without one
\* the fresh runner's entry is the row the handler has.
LEMMA SpawnGoes ==
    ASSUME TypeInv, NEW c \in Clients, Spawn(c), NEW k, k = client[c], Goes(k),
           NEW m, m = client'[c], m = Idle \/ Onward(c, k, m)
    PROVE  /\ m # Idle => Goes(m)'
           /\ m = Idle => Settled(k.id)'
<1>1. PICK i, r : i = k.id /\ r = k.runner
  OBVIOUS
<1>2. /\ At(c, "spawn") /\ UNCHANGED <<registry, dirs>> /\ Proceed(c, k)
  BY <1>1 DEF Spawn, table, disk
<1>3. i \in Ids /\ k.plan # <<>> /\ Head(k.plan) = "spawn" /\ k \in Requests
  BY <1>1, <1>2, AtVault DEF At, TypeInv, ClientInv
<1>4. /\ \/ Creates(k) /\ CreationStep(k.plan)
         \/ Operates(k) /\ OperationStep(k.op, k.runner # Absent, k.plan)
  <2>1. \/ Creates(k) /\ CreationStep(k.plan)
        \/ Terminates(k) /\ TerminationStep(k.plan)
        \/ Operates(k) /\ OperationStep(k.op, k.runner # Absent, k.plan)
    BY <1>2, AtIs DEF TypeInv
  <2> QED BY <1>3, <2>1 DEF TerminationStep
<1>5. Registered' = Registered
  BY <1>2 DEF Registered
<1>6. CASE r = Absent
  <2>1. /\ i \in Registered /\ i \notin Mapped /\ i \in dirs /\ registry[i] = k.row
    <3>1. CASE Creates(k)
      BY <1>1, <1>3, <3>1 DEF Creates, Goes, CreateGoes, Heading
    <3>2. CASE Operates(k)
      BY <1>1, <1>3, <1>6, <3>2 DEF Operates, Goes, UnmappedGoes, Heading
    <3> QED BY <1>4, <3>1, <3>2
  <2>2. m = Idle
    <3>1. Tail(k.plan) = <<>>
      <4>1. CASE Creates(k) /\ CreationStep(k.plan)
        BY <1>3, <4>1 DEF CreationStep
      <4>2. CASE OperationStep(k.op, k.runner # Absent, k.plan)
        BY <1>1, <1>3, <1>6, <4>2 DEF OperationStep
      <4> QED BY <1>4, <4>1, <4>2
    <3> QED BY <1>3, <3>1 DEF Onward
  <2>3. PICK row \in Rows : row = k.row
    BY <2>1 DEF Registered, TypeInv, TableInv, Maybe
  <2>4. PICK s \in FreeRunners, t \in FreeTasks : NewRunner(i, row, s, t)
    BY <1>1, <1>6, <2>3, LeastFree, MarkAssumption DEF Spawn
  <2>5. runners'[i] = s /\ runner'[s].name = row.name /\ runner'[s].status = row.status
    BY <1>3, <2>4, EntryOfNew
  <2>6. Agrees(i)'
    BY <1>2, <1>5, <2>1, <2>3, <2>5 DEF Agrees
  <2> QED BY <1>1, <1>2, <1>3, <1>5, <2>1, <2>2, <2>5, <2>6, MarkAssumption
          DEF Settled, Active, Mapped, FreeRunners
<1>7. CASE r # Absent
  <2>1. Operates(k) /\ OperationStep(k.op, TRUE, k.plan) /\ k.op \in Others
    <3>1. Operates(k) /\ OperationStep(k.op, k.runner # Absent, k.plan)
      BY <1>1, <1>4, <1>7 DEF Creates
    <3> QED BY <1>1, <1>7, <3>1 DEF Operates, OperationStep
  <2>2. /\ i \in Registered /\ i \in Mapped /\ r = runners[i] /\ i \in dirs /\ MappedGoes(k)
    BY <1>1, <1>7, <2>1 DEF Goes, MappedGoes
  <2>3. r \in Runners /\ runner[r] \in RunnerValues
    BY <2>2, MapIsInjective, SMTT(30)
  <2>4. PICK t : /\ UNCHANGED runners
                 /\ runner' = [runner EXCEPT ![r] =
                      IF k.op = "resume" THEN [@ EXCEPT !.boot = t]
                      ELSE [@ EXCEPT !.boot = t, !.name = k.row.name, !.status = k.row.status]]
    BY <1>1, <1>7 DEF Spawn
  <2>5. \/ k.op = "resume" /\ Then(k.plan, "status")
        \/ k.op \in {"reset", "rebuild"} /\ Tail(k.plan) = <<>>
    BY <1>3, <2>1 DEF OperationStep
  <2>6. CASE k.op = "resume" /\ Then(k.plan, "status")
    <3>1. m # Idle
      BY <1>2, <1>3, <2>6, GoesOn DEF Then
    <3>2. /\ m.plan # <<>> /\ Head(m.plan) = "status" /\ m.op = "resume" /\ m.id = i
          /\ m.runner = r /\ m.row = k.row
      BY <1>1, <1>3, <2>6, <3>1 DEF Onward, Then
    <3>3. ~Behind(k) /\ ~Behind(m)
      BY <1>3, <2>6, <3>2 DEF Behind, Heading
    <3>4. MappedGoes(m)
      BY <1>1, <2>2, <2>6, <3>2, <3>3 DEF MappedGoes
    <3>5. runner'[r] = [runner[r] EXCEPT !.boot = t]
      BY <2>3, <2>4, <2>6 DEF TypeInv, MapInv
    <3>6. SameVault(i)
      BY <1>2, <2>2, <2>3, <2>4, <3>5, ZenonT(60) DEF SameVault, RunnerValues
    <3>7. Goes(m)
      BY <1>7, <3>2, <3>4 DEF Goes
    <3>8. Goes(m)'
      BY <1>3, <3>2, <3>6, <3>7, GoesStays
    <3> QED BY <3>1, <3>8
  <2>7. CASE k.op \in {"reset", "rebuild"} /\ Tail(k.plan) = <<>>
    <3>1. m = Idle
      BY <1>3, <2>7 DEF Onward
    <3>2. k.row = registry[i]
      BY <1>1, <1>3, <2>2, <2>7 DEF MappedGoes, Behind, Publishes, Heading
    <3>3. runner'[r] = [runner[r] EXCEPT !.boot = t, !.name = k.row.name, !.status = k.row.status]
      BY <2>3, <2>4, <2>7 DEF TypeInv, MapInv
    <3>4. runner'[r].name = k.row.name /\ runner'[r].status = k.row.status
      BY <2>3, <3>3 DEF RunnerValues
    <3>5. Agrees(i)'
      BY <1>2, <1>5, <2>2, <2>4, <3>2, <3>4 DEF Agrees
    <3> QED BY <1>1, <1>2, <2>2, <2>4, <3>1, <3>5 DEF Settled, Agrees, Mapped
  <2> QED BY <2>5, <2>6, <2>7
<1> QED BY <1>6, <1>7

\* The row that a create inserts is of a vault that was nowhere.
LEMMA InsertGoes ==
    ASSUME TypeInv, NEW c \in Clients, Insert(c), NEW k, k = client[c],
           NEW m, m = client'[c], Onward(c, k, m), Settled(m.id)
    PROVE  Goes(m)'
<1>1. /\ At(c, "insert") /\ UNCHANGED <<dirs, runners>>
  BY DEF Insert, disk, memory
<1>2. Creates(k) /\ Head(k.plan) = "insert" /\ Then(k.plan, "subdir") /\ k.row \in Rows
  BY <1>1, AtIs DEF TypeInv, At, CreationStep, TerminationStep, OperationStep, Creates
<1>3. /\ m.op = "create" /\ m.row = k.row /\ m.id \in Ids \ used
      /\ m.plan # <<>> /\ Head(m.plan) = "subdir"
  BY <1>2 DEF Onward, Then, Creates
<1>4. registry' = [registry EXCEPT ![m.id] = k.row]
  <2>1. m # Idle
    BY <1>3, OpsAssumption, IdleFields DEF Operations
  <2> QED BY <1>1, <2>1, RegistrySteps DEF Handle
<1>5. registry'[m.id] = k.row /\ m.id \in Registered'
  BY <1>2, <1>3, <1>4, AbsentAssumption DEF TypeInv, TableInv, Registered
<1>6. m.id \notin Mapped'
  BY <1>1, <1>3 DEF Settled, Agrees, TypeInv, TableInv, Mapped
<1>7. CreateGoes(m)'
  BY <1>3, <1>5, <1>6 DEF CreateGoes, Heading
<1> QED BY <1>3, <1>7 DEF Goes, Others

\* Whichever step it is, the vault of the operation is settled when it ends and
\* until then as far as the plan says.
LEMMA OwnVault ==
    ASSUME TypeInv, NEW c \in Clients, Lock(c) \/ Handle(c), NEW k, k = client[c],
           k.id \in Ids, Goes(k), NEW m, m = client'[c]
    PROVE  /\ m # Idle => Goes(m)' /\ m.id = k.id
           /\ m = Idle => Settled(k.id)'
<1>1. k.plan # <<>> /\ (m = Idle \/ Onward(c, k, m))
  BY HandlerStep
<1>2. m # Idle => m.id = k.id
  <2>1. Head(k.plan) = "insert" => k.id = Absent
    <3> SUFFICES ASSUME Head(k.plan) = "insert" PROVE k.id = Absent
      OBVIOUS
    <3>1. At(c, "insert")
      BY <1>1, HandlerStep DEF At
    <3> QED BY <3>1, AtIs DEF TypeInv, Creates, TerminationStep, OperationStep
  <2> QED BY <1>1, <2>1, MarkAssumption DEF Onward
<1>3. CASE QuietStep(c)
  <2>1. /\ ClientOk(k)
        /\ \/ Creates(k) /\ CreationStep(k.plan)
           \/ Terminates(k) /\ TerminationStep(k.plan)
           \/ Operates(k) /\ OperationStep(k.op, k.runner # Absent, k.plan)
    BY <1>1, BusyKinds DEF TypeInv, ClientInv
  <2>2. CASE Creates(k) /\ CreationStep(k.plan)
    <3>1. m # Idle => Goes(m)'
      BY <1>1, <1>3, <2>2, CreateQuiet DEF Goes, Others
    <3>2. m # Idle
      <4>1. Head(k.plan) \in {"subdir", "open"}
        <5>1. Head(k.plan) # "spawn" /\ Head(k.plan) \notin {"name", "path", "insert"}
          BY <1>3, <2>2, MarkAssumption
             DEF Creates, QuietStep, Lock, DrainConsumer, SignalRescan, RebuildIndex,
                 UpdateStatus, Reread, OpenStore, CheckFree, CreateSubdir, UpdateName,
                 WriteMeta, DeleteRow, RemoveDir, At
        <5> QED BY <2>2, <5>1 DEF CreationStep
      <4>2. Tail(k.plan) # <<>>
        BY <2>2, <4>1 DEF CreationStep, Then
      <4> QED BY <1>3, <4>1, <4>2, QuietDirs
    <3> QED BY <1>2, <3>1, <3>2
  <2>3. CASE Terminates(k) /\ TerminationStep(k.plan)
    <3>1. /\ m # Idle => TerminateGoes(m)' /\ m.op = "terminate"
          /\ m = Idle => Settled(k.id)'
      BY <1>1, <1>3, <2>3, TerminateQuiet
    <3> QED BY <1>2, <3>1 DEF Goes, Others
  <2>4. CASE Operates(k) /\ OperationStep(k.op, k.runner # Absent, k.plan)
    <3>1. k.op \in Others /\ k.op \notin {"create", "terminate"}
      BY <2>4 DEF Operates, Others
    <3>2. CASE k.runner # Absent
      <4>1. MappedGoes(k) /\ OperationStep(k.op, TRUE, k.plan)
        BY <2>4, <3>1, <3>2 DEF Goes, OperationStep
      <4>2. /\ m # Idle => MappedGoes(m)' /\ m.op = k.op /\ m.runner = k.runner
            /\ m = Idle => Settled(k.id)'
        BY <1>1, <1>3, <3>1, <3>2, <4>1, MappedQuiet, ZenonT(90)
      <4> QED BY <1>2, <3>1, <3>2, <4>2 DEF Goes
    <3>3. CASE k.runner = Absent
      <4>1. UnmappedGoes(k) /\ OperationStep(k.op, FALSE, k.plan)
        BY <2>4, <3>1, <3>3 DEF Goes, OperationStep
      <4>2. /\ m # Idle => UnmappedGoes(m)' /\ m.op = k.op /\ m.runner = Absent
            /\ m = Idle => Settled(k.id)'
        BY <1>1, <1>3, <3>1, <3>3, <4>1, UnmappedQuiet
      <4> QED BY <1>2, <3>1, <3>3, <4>2 DEF Goes
    <3> QED BY <3>2, <3>3
  <2> QED BY <2>1, <2>2, <2>3, <2>4
<1>4. CASE Unmap(c)
  BY <1>1, <1>2, <1>4, UnmapGoes
<1>5. CASE TakeBootstrap(c) \/ JoinBootstrap(c)
  BY <1>1, <1>2, <1>5, ShutdownGoes
<1>6. CASE Publish(c)
  BY <1>1, <1>6, PublishGoes
<1>7. CASE Spawn(c)
  BY <1>1, <1>2, <1>7, SpawnGoes
<1>8. ~Insert(c)
  <2> SUFFICES ASSUME Insert(c) PROVE FALSE
    OBVIOUS
  <2>1. At(c, "insert")
    BY DEF Insert
  <2> QED BY <2>1, AtIs, MarkAssumption
          DEF TypeInv, At, Creates, TerminationStep, OperationStep
<1> QED BY <1>3, <1>4, <1>5, <1>6, <1>7, <1>8 DEF Handle, QuietStep

\* Before its row is inserted a create changes nothing.
LEMMA BeforeInsert ==
    ASSUME TypeInv, NEW c \in Clients, Lock(c) \/ Handle(c), NEW k, k = client[c],
           k.id \notin Ids, NEW m, m = client'[c]
    PROVE  \/ m.id = Absent
           \/ Insert(c) /\ Onward(c, k, m) /\ m.id \in Ids
<1>1. k.plan # <<>> /\ (m = Idle \/ Onward(c, k, m)) /\ daemon = "serving"
  BY HandlerStep
<1>2. Creates(k) /\ CreationStep(k.plan) /\ Head(k.plan) \in {"name", "path", "insert"}
      /\ k.id = Absent
  <2>1. At(c, Head(k.plan))
    BY <1>1 DEF At
  <2> QED BY <2>1, AtIs DEF TypeInv, Creates, Terminates, Operates
<1>3. CASE m = Idle
  BY <1>3, IdleFields
<1>4. CASE m # Idle /\ Head(k.plan) = "insert"
  <2>1. Insert(c)
    BY <1>1, <1>4
       DEF Lock, Handle, Unmap, TakeBootstrap, JoinBootstrap, DrainConsumer, SignalRescan,
           RebuildIndex, UpdateStatus, Reread, OpenStore, Spawn, Publish, CheckFree,
           CreateSubdir, UpdateName, WriteMeta, DeleteRow, RemoveDir, At
  <2> QED BY <1>1, <1>4, <2>1 DEF Onward
<1>5. CASE m # Idle /\ Head(k.plan) # "insert"
  BY <1>1, <1>2, <1>5 DEF Onward
<1> QED BY <1>3, <1>4, <1>5

LEMMA AgreeHandler ==
    ASSUME TypeInv, OneByOne, AgreeInv, NEW c \in Clients, Lock(c) \/ Handle(c)
    PROVE  AgreeInv'
<1>1. PICK k, m : k = client[c] /\ m = client'[c]
  OBVIOUS
<1>2. daemon = "serving" /\ daemon' = "serving" /\ \A d \in Clients : d = c
  BY HandlerStep DEF OneByOne
<1>3. k.id \in Ids \/ k.id = Absent
  BY <1>1 DEF TypeInv, ClientInv, Requests, Maybe
<1>4. ASSUME NEW j \in Ids, j # k.id
      PROVE  Settled(j)
  BY <1>1, <1>2, <1>4 DEF AgreeInv
<1>5. ASSUME NEW j \in Ids, j # k.id, j # m.id
      PROVE  Settled(j)'
  BY <1>1, <1>4, <1>5, OtherVaults, SettledStays
<1>6. /\ m.id # Absent => Goes(m)'
      /\ \A j \in Ids : j # m.id => Settled(j)'
  <2>1. CASE k.id \in Ids
    <3>1. Goes(k)
      BY <1>1, <1>2, <2>1, MarkAssumption DEF AgreeInv
    <3>2. /\ m # Idle => Goes(m)' /\ m.id = k.id
          /\ m = Idle => Settled(k.id)'
      BY <1>1, <2>1, <3>1, OwnVault
    <3> QED BY <1>5, <2>1, <3>2, IdleFields
  <2>2. CASE k.id \notin Ids
    <3>1. \/ m.id = Absent
          \/ Insert(c) /\ Onward(c, k, m) /\ m.id \in Ids
      BY <1>1, <2>2, BeforeInsert
    <3>2. m.id # Absent => Goes(m)'
      BY <1>1, <1>4, <2>2, <3>1, InsertGoes
    <3> QED BY <1>5, <2>2, <3>2
  <2> QED BY <2>1, <2>2
<1>7. \A d \in Clients : client'[d] = m
  BY <1>1, <1>2
<1>8. ASSUME NEW d \in Clients, (client[d].id # Absent)'
      PROVE  Goes(client[d])'
  <2>1. client'[d] = m
    BY <1>7
  <2> QED BY <1>6, <1>8, <2>1
<1>9. ASSUME NEW j \in Ids, \A d \in Clients : client'[d].id # j
      PROVE  Settled(j)'
  BY <1>6, <1>7, <1>9
<1> QED BY <1>2, <1>8, <1>9 DEF AgreeInv

\* What QuietAgreement asks of a history.
Unspoilt == OneByOne /\ count.faults = 0 /\ count.disconnects = 0

LEMMA StaysSpoilt ==
    ASSUME TypeInv, [Next]_vars, Unspoilt'
    PROVE  /\ Unspoilt
           /\ ~OrphansStay /\ \A c \in Clients : ~StepFails(c) /\ ~Disconnect(c)
           /\ \A t \in Tasks : ~ScanFails(t)
<1> QED BY StaysCounted DEF Unspoilt, OneByOne

LEMMA AgreeNext ==
    ASSUME TypeInv, AgreeInv, [Next]_vars, Unspoilt'
    PROVE  AgreeInv'
<1>1. Unspoilt /\ OneByOne
  BY StaysSpoilt DEF Unspoilt
<1>2. CASE StartUp
  BY <1>2, AgreeStartUp
<1>3. CASE Crash
  BY <1>3 DEF Crash, AgreeInv
<1>4. ASSUME NEW c \in Clients, Request(c)
      PROVE  AgreeInv'
  BY <1>1, <1>4, AgreeRequest
<1>5. ASSUME NEW c \in Clients, Lock(c) \/ Handle(c)
      PROVE  AgreeInv'
  BY <1>1, <1>5, AgreeHandler
<1>6. ASSUME NEW t \in Tasks, Install(t) \/ TaskStops(t) \/ Reap(t)
      PROVE  AgreeInv'
  BY <1>6, AgreeTask
<1>7. CASE UNCHANGED <<registry, dirs, runners, runner, client, daemon>>
  BY <1>7, AgreeFrame
<1>8. \A p \in Paths : MovePath(p) => UNCHANGED <<registry, dirs, runners, runner, client, daemon>>
  BY DEF MovePath, table, memory
<1>9. UNCHANGED vars => UNCHANGED <<registry, dirs, runners, runner, client, daemon>>
  BY DEF vars, table, disk, memory
<1> QED BY <1>2, <1>3, <1>4, <1>5, <1>6, <1>7, <1>8, <1>9, StaysSpoilt DEF Next

LEMMA AgreeAlways == Spec => [](TypeInv /\ (Unspoilt => AgreeInv))
<1>1. Init => (Unspoilt => AgreeInv)
  BY DEF Init, AgreeInv
<1>2. TypeInv /\ (Unspoilt => AgreeInv) /\ [Next]_vars => (Unspoilt => AgreeInv)'
  <2> SUFFICES ASSUME TypeInv, Unspoilt => AgreeInv, [Next]_vars, Unspoilt'
               PROVE  AgreeInv'
    OBVIOUS
  <2>1. Unspoilt
    BY StaysSpoilt
  <2> QED BY <2>1, AgreeNext
<1> QED BY <1>1, <1>2, TypeAlways, PTL DEF Spec

\* After any sequence of operations, one at a time, that neither failed nor was
\* dropped, with crashes between any two of their steps: the registry, the map, the
\* entries searches see and the directories say the same of every vault.
THEOREM OperationsAgree == Spec => []QuietAgreement
<1>1. ASSUME TypeInv, Unspoilt => AgreeInv
      PROVE  QuietAgreement
  <2> SUFFICES ASSUME Unspoilt, Idling
               PROVE  /\ Active \subseteq Mapped /\ Active \subseteq dirs
                      /\ dirs \subseteq Registered
                      /\ \A i \in Mapped : /\ i \in Registered
                                           /\ runner[runners[i]].name = registry[i].name
                                           /\ runner[runners[i]].status = registry[i].status
    BY DEF QuietAgreement, Unspoilt
  <2>1. \A i \in Ids : Settled(i)
    BY <1>1, IdleFields, MarkAssumption DEF AgreeInv, Idling
  <2>2. dirs \subseteq Ids /\ Active \subseteq Ids /\ Mapped \subseteq Ids
    BY <1>1 DEF TypeInv, TableInv, Active, Registered, Mapped
  <2> QED BY <2>1, <2>2 DEF Settled, Agrees
<1> QED BY <1>1, AgreeAlways, PTL
=============================================================================

--------------------------- MODULE VaultPathsProofs ---------------------------
(***************************************************************************)
(* Theorems about VaultPaths, for any files, glob sets, .gitignore files   *)
(* and number of changes:                                                  *)
(*   PlainFilesAgree  the chain of matchers decides as the nearest rule    *)
(*                    does, and the three places decide alike;             *)
(*   OverridesWin     what the operator includes stays in the index, and   *)
(*                    the vault's own .git directory never is.             *)
(***************************************************************************)
EXTENDS VaultPaths, SequenceTheorems, WellFoundedInduction, TLAPS

----------------------------------------------------------------------------
(* The greatest of a bounded set of naturals.                              *)

LEMMA LeastNatural ==
  ASSUME NEW S, S \subseteq Nat, S # {}
  PROVE  \E n \in S : \A m \in S : n <= m
<1> DEFINE R == OpToRel(<, Nat)
<1>1. IsWellFoundedOn(R, Nat)
  BY NatLessThanWellFounded
<1>2. PICK n \in S : \A m \in S : ~ (<<m, n>> \in R)
  <2> HIDE DEF R
  <2> QED BY <1>1, WFMin
<1>3. \A m \in S : ~ (m < n)
  BY <1>2 DEF OpToRel
<1> QED BY <1>3

LEMMA GreatestBelow ==
  ASSUME NEW b \in Nat, NEW S, S \subseteq 0..b, S # {}
  PROVE  \E n \in S : \A m \in S : m <= n
<1> DEFINE T == {b - m : m \in S}
<1>1. T \subseteq Nat
  <2>1. ASSUME NEW m \in S
        PROVE  b - m \in Nat
    <3>1. m \in 0..b
      OBVIOUS
    <3> QED BY <3>1
  <2> QED BY <2>1
<1>2. T # {}
  OBVIOUS
<1>3. PICK k \in T : \A m \in T : k <= m
  <2> HIDE DEF T
  <2> QED BY <1>1, <1>2, LeastNatural
<1>4. PICK n \in S : k = b - n
  OBVIOUS
<1>5. \A m \in S : k <= b - m
  BY <1>3
<1> QED BY <1>4, <1>5

----------------------------------------------------------------------------
(* The nearest rule.                                                       *)

\* The beginnings of a path are told apart by their lengths.
Begins(p) == {SubSeq(p, 1, n) : n \in 0..Len(p)}

LEMMA BeginningsDiffer ==
  ASSUME NEW p \in Seq(STRING), NEW d \in Begins(p)
  PROVE  /\ d \in Seq(STRING) /\ Len(d) \in 0..Len(p) /\ d = SubSeq(p, 1, Len(d))
         /\ \A e \in Begins(p) : Len(e) = Len(d) => e = d
<1>1. \A n \in 0..Len(p) : SubSeq(p, 1, n) \in Seq(STRING) /\ Len(SubSeq(p, 1, n)) = n
  OBVIOUS
<1>2. \A e \in Begins(p) : /\ e \in Seq(STRING) /\ Len(e) \in 0..Len(p)
                           /\ e = SubSeq(p, 1, Len(e))
  BY <1>1 DEF Begins
<1> QED BY <1>2

\* One of the greatest length, which is the one that LongestOf chooses.
LEMMA LongestExists ==
  ASSUME NEW p \in Seq(STRING), NEW S, S \subseteq Begins(p), S # {}
  PROVE  /\ LongestOf(S) \in S
         /\ \A d \in S : Len(d) <= Len(LongestOf(S))
         /\ \A d \in S : Len(LongestOf(S)) <= Len(d) => d = LongestOf(S)
<1> DEFINE lengths == {Len(d) : d \in S}
<1>1. lengths \subseteq 0..Len(p) /\ lengths # {} /\ Len(p) \in Nat
  <2>1. \A d \in S : Len(d) \in 0..Len(p)
    BY BeginningsDiffer
  <2>2. lengths \subseteq 0..Len(p)
    BY <2>1
  <2>3. lengths # {}
    OBVIOUS
  <2>4. Len(p) \in Nat
    BY LenProperties
  <2> QED BY <2>2, <2>3, <2>4
<1>2. PICK n \in lengths : \A m \in lengths : m <= n
  <2> HIDE DEF lengths
  <2> QED BY <1>1, GreatestBelow
<1>3. \E q \in S : \A d \in S : Len(d) <= Len(q)
  BY <1>2
<1>4. LongestOf(S) \in S /\ \A d \in S : Len(d) <= Len(LongestOf(S))
  BY <1>3 DEF LongestOf
<1>5. ASSUME NEW d \in S, Len(LongestOf(S)) <= Len(d)
      PROVE  d = LongestOf(S)
  <2>1. Len(d) = Len(LongestOf(S))
    <3>1. Len(d) \in Nat /\ Len(LongestOf(S)) \in Nat
      BY <1>4, BeginningsDiffer
    <3> QED BY <1>4, <1>5, <3>1
  <2> QED BY <1>4, <2>1, BeginningsDiffer
<1> QED BY <1>4, <1>5

LEMMA PrefixesBegin ==
  ASSUME NEW p \in Seq(STRING)
  PROVE  /\ Prefixes(p) \subseteq Begins(p)
         /\ \A d \in Seq(STRING) : Under(p, d) => d \in Begins(p)
         /\ \A d \in Seq(STRING), q \in Prefixes(p) : Under(q, d) => Under(p, d)
<1>1. Prefixes(p) \subseteq Begins(p)
  BY DEF Prefixes, Begins
<1>2. ASSUME NEW d \in Seq(STRING), Under(p, d)
      PROVE  d \in Begins(p)
  <2>1. Len(d) \in Nat /\ Len(p) \in Nat /\ Len(d) < Len(p) /\ SubSeq(p, 1, Len(d)) = d
    BY <1>2 DEF Under
  <2>2. Len(d) \in 0..Len(p)
    BY <2>1
  <2> QED BY <2>1, <2>2 DEF Begins
<1>3. ASSUME NEW d \in Seq(STRING), NEW q \in Prefixes(p), Under(q, d)
      PROVE  Under(p, d)
  <2>1. PICK n \in 1..Len(p) : q = SubSeq(p, 1, n)
    BY DEF Prefixes
  <2>2. Len(q) = n /\ \A i \in 1..n : q[i] = p[i]
    BY <2>1
  <2>3. Len(d) \in Nat /\ Len(d) < n /\ SubSeq(q, 1, Len(d)) = d
    BY <1>3, <2>2 DEF Under
  <2>4. Len(d) < Len(p)
    BY <2>3
  <2>5. SubSeq(q, 1, Len(d)) = SubSeq(p, 1, Len(d))
    BY <2>1, <2>2, <2>3
  <2> QED BY <2>3, <2>4, <2>5 DEF Under
<1> QED BY <1>1, <1>2, <1>3

TypeInv ==
    /\ disk \subseteq Files /\ rules \in GitIgnores
    /\ phase \in {"down", "scanned", "watching", "live"}
    /\ index \in [Files -> {"none", "current", "stale"}]

\* matched_path_or_any_parents asks the deepest .gitignore that says anything and takes
\* its rule for the longest part of the path: of all rules this is the nearest.
LEMMA ChainFindsNearest ==
  ASSUME TypeInv, NEW p \in Files
  PROVE  IsIgnored(rules, p) <=> \E dq \in Nearest(p) : rules[dq[1]][dq[2]] # "keep"
<1>1. p \in Seq(STRING) /\ DOMAIN rules \subseteq Seq(STRING)
  BY RulesAssumption DEF TypeInv
<1>2. \A dq : dq \in Said(p) <=> \E d \in Speaking(rules, p) : \E q \in Spoken(rules, d, p) : dq = <<d, q>>
  <2>1. ASSUME NEW dq \in Said(p)
        PROVE  \E d \in Speaking(rules, p) : \E q \in Spoken(rules, d, p) : dq = <<d, q>>
    <3>1. PICK d \in DOMAIN rules, q \in Prefixes(p) : dq = <<d, q>>
      BY <2>1 DEF Said
    <3>2. Under(q, d) /\ q \in DOMAIN rules[d]
      BY <2>1, <3>1 DEF Said
    <3>3. q \in Spoken(rules, d, p) /\ Under(p, d)
      BY <1>1, <3>1, <3>2, PrefixesBegin DEF Spoken
    <3> QED BY <3>1, <3>3 DEF Speaking
  <2>2. ASSUME NEW d \in Speaking(rules, p), NEW q \in Spoken(rules, d, p)
        PROVE  <<d, q>> \in Said(p)
    BY <2>2 DEF Said, Speaking, Spoken
  <2> QED BY <2>1, <2>2
<1>3. /\ Speaking(rules, p) \subseteq Begins(p)
      /\ \A d : Spoken(rules, d, p) \subseteq Begins(p)
  BY <1>1, PrefixesBegin DEF Speaking, Spoken
<1>4. CASE Speaking(rules, p) = {}
  <2>1. Said(p) = {}
    BY <1>2, <1>4
  <2> QED BY <1>4, <2>1 DEF Nearest, IsIgnored
<1>5. CASE Speaking(rules, p) # {}
  <2> DEFINE D == LongestOf(Speaking(rules, p))
             Q == LongestOf(Spoken(rules, D, p))
  <2>1. /\ D \in Speaking(rules, p)
        /\ \A d \in Speaking(rules, p) : Len(d) <= Len(D) /\ (Len(D) <= Len(d) => d = D)
        /\ \A d \in Speaking(rules, p) : Len(d) \in Nat
    BY <1>1, <1>3, <1>5, LongestExists, BeginningsDiffer
  <2>2. Spoken(rules, D, p) # {}
    BY <2>1 DEF Speaking
  <2>3. /\ Q \in Spoken(rules, D, p)
        /\ \A q \in Spoken(rules, D, p) : Len(q) <= Len(Q) /\ (Len(Q) <= Len(q) => q = Q)
        /\ \A q \in Spoken(rules, D, p) : Len(q) \in Nat
    <3> HIDE DEF D
    <3> QED BY <1>1, <1>3, <2>2, LongestExists, BeginningsDiffer
  <2>4. IsIgnored(rules, p) <=> rules[D][Q] = "ignore"
    BY <1>5 DEF IsIgnored, Verdict
  <2>5. rules[D][Q] \in {"ignore", "keep"}
    <3> HIDE DEF D, Q
    <3> QED BY <2>1, <2>3, RulesAssumption DEF TypeInv, Speaking, Spoken
  <2> HIDE DEF D, Q
  <2>6. <<D, Q>> \in Nearest(p)
    <3>1. <<D, Q>> \in Said(p)
      BY <1>2, <2>1, <2>3
    <3>2. ASSUME NEW e \in Said(p)
          PROVE  Len(e[1]) < Len(D) \/ (e[1] = D /\ Len(e[2]) <= Len(Q))
      <4>1. PICK d \in Speaking(rules, p) : \E q \in Spoken(rules, d, p) : e = <<d, q>>
        BY <1>2
      <4>2. PICK q \in Spoken(rules, d, p) : e = <<d, q>>
        BY <4>1
      <4>3. CASE d = D
        BY <2>3, <4>2, <4>3
      <4>4. CASE d # D
        <5>1. Len(d) < Len(D)
          BY <2>1, <4>4
        <5> QED BY <4>2, <5>1
      <4> QED BY <4>3, <4>4
    <3> QED BY <3>1, <3>2 DEF Nearest
  <2>7. ASSUME NEW dq \in Nearest(p)
        PROVE  dq = <<D, Q>>
    <3>1. PICK d \in Speaking(rules, p) : \E q \in Spoken(rules, d, p) : dq = <<d, q>>
      BY <1>2 DEF Nearest
    <3>2. PICK q \in Spoken(rules, d, p) : dq = <<d, q>>
      BY <3>1
    <3>3. Len(D) < Len(d) \/ (D = d /\ Len(Q) <= Len(q))
      <4>1. <<D, Q>> \in Said(p)
        BY <2>6 DEF Nearest
      <4> QED BY <3>2, <4>1 DEF Nearest
    <3>4. Len(d) <= Len(D) /\ Len(d) \in Nat /\ Len(D) \in Nat
      BY <2>1
    <3>5. D = d /\ Len(Q) <= Len(q)
      BY <3>3, <3>4
    <3> QED BY <2>3, <3>2, <3>5
  <2> QED BY <2>4, <2>5, <2>6, <2>7
<1> QED BY <1>4, <1>5

LEMMA ReferenceIs ==
  ASSUME TypeInv, NEW p \in Files
  PROVE  Includes(rules, p) <=> Reference(p)
<1>1. IsIgnored(rules, p) <=> \E dq \in Nearest(p) : rules[dq[1]][dq[2]] # "keep"
  BY ChainFindsNearest
<1> QED BY <1>1 DEF Includes, Reference

----------------------------------------------------------------------------
(* The inductive invariant.                                                *)

LEMMA TypeHolds == Spec => []TypeInv
<1>1. Init => TypeInv
  BY PathsAssumption DEF Init, TypeInv
<1>2. TypeInv /\ [Next]_vars => TypeInv'
  <2> SUFFICES ASSUME TypeInv, [Next]_vars PROVE TypeInv'
    OBVIOUS
  <2>1. CASE InitialScan
    BY <2>1 DEF TypeInv, InitialScan
  <2>2. CASE SpawnWatcher
    BY <2>2 DEF TypeInv, SpawnWatcher
  <2>3. CASE SpawnConsumer
    BY <2>3 DEF TypeInv, SpawnConsumer
  <2>4. CASE EditGitIgnore
    BY <2>4 DEF TypeInv, EditGitIgnore
  <2>5. CASE Rescan
    BY <2>5 DEF TypeInv, Rescan
  <2>6. CASE Stop
    BY <2>6 DEF TypeInv, Stop
  <2>7. ASSUME NEW p \in Files, Write(p)
        PROVE  TypeInv'
    BY <2>7 DEF TypeInv, Write
  <2>8. ASSUME NEW p \in Files, Delete(p)
        PROVE  TypeInv'
    BY <2>8 DEF TypeInv, Delete
  <2>9. CASE UNCHANGED vars
    BY <2>9 DEF TypeInv, vars
  <2> QED BY <2>1, <2>2, <2>3, <2>4, <2>5, <2>6, <2>7, <2>8, <2>9 DEF Next
<1> QED BY <1>1, <1>2, PTL DEF Spec

\* The filters built so far were built from the same rules.
SameRules ==
    /\ phase \in {"watching", "live"} => watchRules = scanRules
    /\ phase = "live" => rescanRules = scanRules

\* The path is in the index when it exists and is included, as it is, and not otherwise.
InSyncWith(r, p) == index[p] = IF p \in disk /\ Includes(r, p) THEN "current" ELSE "none"

\* From the scan on, so are the plain files whose changes were heard.
SyncInv == phase # "down" /\ SameRules => \A p \in Plain \ missed : InSyncWith(scanRules, p)

\* Neither the .gitignore files nor the moments the filters were built matter to what
\* the operator includes.
OverrideInv ==
    /\ \A p \in Files : p[1] = ".git" => index[p] = "none"
    /\ phase # "down" => \A p \in (Plain \cap Reinclude) \ missed :
                             (index[p] = "current") <=> (p \in disk /\ p[1] # ".git")

Inv == TypeInv /\ SyncInv /\ OverrideInv

LEMMA PlainIs ==
  ASSUME NEW p \in Plain
  PROVE  /\ p \in Files /\ p \notin Outside
         /\ \A r : FilterPass(r, p) <=> Includes(r, p)
<1> QED BY DEF Plain, FilterPass

LEMMA IncludesIs ==
  ASSUME NEW r, NEW p
  PROVE  /\ p[1] = ".git" => ~Includes(r, p)
         /\ p \in Reinclude => (Includes(r, p) <=> p[1] # ".git")
<1> QED BY DEF Includes

LEMMA InvInit == Init => SyncInv /\ OverrideInv
<1> QED BY DEF Init, SyncInv, OverrideInv

----------------------------------------------------------------------------
(* The scan and a rescan.                                                  *)

LEMMA InitialScanKeeps ==
  ASSUME Inv, InitialScan
  PROVE  SyncInv' /\ OverrideInv'
<1>1. \A p \in Files : index'[p] = IF p \in Walked(rules) THEN "current" ELSE "none"
  BY DEF InitialScan
<1>2. \A p \in Plain : p \in Walked(rules) <=> p \in disk /\ Includes(rules, p)
  BY PlainIs DEF Walked
<1>3. scanRules' = rules /\ disk' = disk /\ missed' = {} /\ phase' = "scanned"
  BY DEF InitialScan
<1>4. \A p : p \in Walked(rules) => Includes(rules, p)
  BY DEF Walked
<1>5. SyncInv'
  BY <1>1, <1>2, <1>3, PlainIs DEF SyncInv, InSyncWith
<1>6. OverrideInv'
  BY <1>1, <1>2, <1>3, <1>4, PlainIs, IncludesIs DEF OverrideInv
<1> QED BY <1>5, <1>6

LEMMA RescanKeeps ==
  ASSUME Inv, Rescan
  PROVE  SyncInv' /\ OverrideInv'
<1>1. \A p \in Files : index'[p] = IF p \in Walked(rescanRules) THEN "current" ELSE index[p]
  BY DEF Rescan
<1>2. \A p \in Plain : p \in Walked(rescanRules) <=> p \in disk /\ Includes(rescanRules, p)
  BY PlainIs DEF Walked
<1>3. /\ disk' = disk /\ missed' = missed /\ phase' = phase /\ phase = "live"
      /\ scanRules' = scanRules /\ watchRules' = watchRules /\ rescanRules' = rescanRules
  BY DEF Rescan
<1>4. \A p : p \in Walked(rescanRules) => Includes(rescanRules, p)
  BY DEF Walked
<1>5. SyncInv'
  <2> SUFFICES ASSUME SameRules, NEW p \in Plain \ missed
               PROVE  InSyncWith(scanRules, p)'
    BY <1>3 DEF SyncInv, SameRules
  <2>1. rescanRules = scanRules /\ InSyncWith(scanRules, p)
    BY <1>3 DEF SameRules, Inv, SyncInv
  <2> QED BY <1>1, <1>2, <1>3, <2>1, PlainIs DEF InSyncWith
<1>6. OverrideInv'
  BY <1>1, <1>2, <1>3, <1>4, PlainIs, IncludesIs DEF OverrideInv, Inv
<1> QED BY <1>5, <1>6

----------------------------------------------------------------------------
(* Changes of a file.                                                      *)

\* While a watcher runs, what is heard of a plain file is what its filter includes.
LEMMA HeardIs ==
  ASSUME NEW p
  PROVE  /\ Heard(p) => phase \in {"watching", "live"} /\ Includes(watchRules, p)
         /\ p \in Plain /\ phase \in {"watching", "live"} /\ Includes(watchRules, p) => Heard(p)
<1> QED BY PlainIs DEF Heard, FilterPass

LEMMA WriteKeeps ==
  ASSUME Inv, NEW w \in Files, Write(w)
  PROVE  SyncInv' /\ OverrideInv'
<1>1. /\ \A p \in Files : p # w => index'[p] = index[p]
      /\ Heard(w) => index'[w] = "current"
      /\ ~Heard(w) => index'[w] = IF index[w] = "none" THEN "none" ELSE "stale"
  BY DEF Write, Inv, TypeInv
<1>2. disk' = disk \cup {w}
  BY DEF Write
<1>3. /\ missed \subseteq missed'
      /\ phase = "scanned" => w \in missed'
  BY DEF Write, Noticed
<1>4. /\ phase' = phase /\ scanRules' = scanRules
      /\ watchRules' = watchRules /\ rescanRules' = rescanRules
  BY DEF Write
<1>5. phase \in {"down", "scanned", "watching", "live"}
  BY DEF Inv, TypeInv
<1>6. SyncInv'
  <2> SUFFICES ASSUME phase # "down", SameRules, NEW p \in Plain \ missed'
               PROVE  InSyncWith(scanRules, p)'
    BY <1>4 DEF SyncInv, SameRules
  <2>1. InSyncWith(scanRules, p) /\ p \in Files
    BY <1>3, PlainIs DEF Inv, SyncInv
  <2>2. CASE p # w
    BY <1>1, <1>2, <1>4, <2>1, <2>2 DEF InSyncWith
  <2>3. CASE p = w
    <3>1. phase \in {"watching", "live"} /\ watchRules = scanRules
      BY <1>3, <1>5, <2>3 DEF SameRules
    <3>2. Heard(w) <=> Includes(scanRules, w)
      BY <2>3, <3>1, HeardIs
    <3> QED BY <1>1, <1>2, <1>4, <2>1, <2>3, <3>2 DEF InSyncWith
  <2> QED BY <2>2, <2>3
<1>7. OverrideInv'
  <2>1. ASSUME NEW p \in Files, p[1] = ".git"
        PROVE  index'[p] = "none"
    <3>1. index[p] = "none" /\ ~Heard(p)
      BY <2>1, HeardIs, IncludesIs DEF Inv, OverrideInv
    <3> QED BY <1>1, <3>1
  <2>2. ASSUME phase # "down", NEW p \in (Plain \cap Reinclude) \ missed'
        PROVE  (index'[p] = "current") <=> (p \in disk' /\ p[1] # ".git")
    <3>1. /\ (index[p] = "current") <=> (p \in disk /\ p[1] # ".git")
          /\ p \in Files
      BY <1>3, <2>2, PlainIs DEF Inv, OverrideInv
    <3>2. CASE p # w
      BY <1>1, <1>2, <3>1, <3>2
    <3>3. CASE p = w
      <4>1. phase \in {"watching", "live"}
        BY <1>3, <1>5, <2>2, <3>3
      <4>2. Heard(w) <=> p[1] # ".git"
        BY <3>3, <4>1, HeardIs, IncludesIs
      <4> QED BY <1>1, <1>2, <3>3, <4>2
    <3> QED BY <3>2, <3>3
  <2> QED BY <1>4, <2>1, <2>2 DEF OverrideInv
<1> QED BY <1>6, <1>7

LEMMA DeleteKeeps ==
  ASSUME Inv, NEW w \in Files, Delete(w)
  PROVE  SyncInv' /\ OverrideInv'
<1>1. /\ \A p \in Files : p # w => index'[p] = index[p]
      /\ index'[w] = IF Heard(w) \/ index[w] = "none" THEN "none" ELSE "stale"
  BY DEF Delete, Inv, TypeInv
<1>2. disk' = disk \ {w}
  BY DEF Delete
<1>3. /\ missed \subseteq missed'
      /\ phase = "scanned" => w \in missed'
  BY DEF Delete, Noticed
<1>4. /\ phase' = phase /\ scanRules' = scanRules
      /\ watchRules' = watchRules /\ rescanRules' = rescanRules
  BY DEF Delete
<1>5. phase \in {"down", "scanned", "watching", "live"}
  BY DEF Inv, TypeInv
<1>6. SyncInv'
  <2> SUFFICES ASSUME phase # "down", SameRules, NEW p \in Plain \ missed'
               PROVE  InSyncWith(scanRules, p)'
    BY <1>4 DEF SyncInv, SameRules
  <2>1. InSyncWith(scanRules, p) /\ p \in Files
    BY <1>3, PlainIs DEF Inv, SyncInv
  <2>2. CASE p # w
    BY <1>1, <1>2, <1>4, <2>1, <2>2 DEF InSyncWith
  <2>3. CASE p = w
    <3>1. phase \in {"watching", "live"} /\ watchRules = scanRules
      BY <1>3, <1>5, <2>3 DEF SameRules
    <3>2. Heard(w) <=> Includes(scanRules, w)
      BY <2>3, <3>1, HeardIs
    <3> QED BY <1>1, <1>2, <1>4, <2>1, <2>3, <3>2 DEF InSyncWith
  <2> QED BY <2>2, <2>3
<1>7. OverrideInv'
  <2>1. ASSUME NEW p \in Files, p[1] = ".git"
        PROVE  index'[p] = "none"
    BY <1>1, <2>1 DEF Inv, OverrideInv
  <2>2. ASSUME phase # "down", NEW p \in (Plain \cap Reinclude) \ missed'
        PROVE  (index'[p] = "current") <=> (p \in disk' /\ p[1] # ".git")
    <3>1. /\ (index[p] = "current") <=> (p \in disk /\ p[1] # ".git")
          /\ p \in Files
      BY <1>3, <2>2, PlainIs DEF Inv, OverrideInv
    <3>2. CASE p # w
      BY <1>1, <1>2, <3>1, <3>2
    <3>3. CASE p = w
      BY <1>1, <1>2, <3>3
    <3> QED BY <3>2, <3>3
  <2> QED BY <1>4, <2>1, <2>2 DEF OverrideInv
<1> QED BY <1>6, <1>7

----------------------------------------------------------------------------
LEMMA InvNext == Inv /\ [Next]_vars => SyncInv' /\ OverrideInv'
<1> SUFFICES ASSUME Inv, [Next]_vars PROVE SyncInv' /\ OverrideInv'
  OBVIOUS
<1>1. CASE InitialScan
  BY <1>1, InitialScanKeeps
<1>2. CASE SpawnWatcher
  BY <1>2 DEF Inv, SyncInv, OverrideInv, SameRules, InSyncWith, SpawnWatcher
<1>3. CASE SpawnConsumer
  BY <1>3 DEF Inv, SyncInv, OverrideInv, SameRules, InSyncWith, SpawnConsumer
<1>4. CASE EditGitIgnore
  BY <1>4 DEF Inv, SyncInv, OverrideInv, SameRules, InSyncWith, EditGitIgnore
<1>5. CASE Rescan
  BY <1>5, RescanKeeps
<1>6. CASE Stop
  BY <1>6 DEF Inv, SyncInv, OverrideInv, Stop
<1>7. ASSUME NEW p \in Files, Write(p)
      PROVE  SyncInv' /\ OverrideInv'
  BY <1>7, WriteKeeps
<1>8. ASSUME NEW p \in Files, Delete(p)
      PROVE  SyncInv' /\ OverrideInv'
  BY <1>8, DeleteKeeps
<1>9. CASE UNCHANGED vars
  BY <1>9 DEF Inv, SyncInv, OverrideInv, SameRules, InSyncWith, vars
<1> QED BY <1>1, <1>2, <1>3, <1>4, <1>5, <1>6, <1>7, <1>8, <1>9 DEF Next

LEMMA InvHolds == Spec => []Inv
<1>1. TypeInv /\ SyncInv /\ OverrideInv <=> Inv
  BY DEF Inv
<1> QED BY <1>1, TypeHolds, InvInit, InvNext, PTL DEF Spec

\* The chain of matchers finds the nearest rule, and the walk of the scan, the filter
\* of the watcher and the walk of a rescan keep to it: as long as the rules stay as
\* they were, a live vault has the plain files that the rules include, and has them
\* as they are.
THEOREM PlainFilesAgree == Spec => []PlainInSync
<1>1. Inv => PlainInSync
  <2> SUFFICES ASSUME Inv, phase = "live",
                      scanRules = rules, watchRules = rules, rescanRules = rules,
                      NEW p \in Plain \ missed
               PROVE  index[p] = IF p \in disk /\ Reference(p) THEN "current" ELSE "none"
    BY DEF PlainInSync
  <2>1. InSyncWith(rules, p)
    BY DEF Inv, SyncInv, SameRules
  <2>2. Includes(rules, p) <=> Reference(p)
    BY PlainIs, ReferenceIs DEF Inv
  <2> QED BY <2>1, <2>2 DEF InSyncWith
<1> QED BY <1>1, InvHolds, PTL

\* What the operator includes is in the index of a live vault whatever the .gitignore
\* files say and whenever they change, and the vault's own .git directory never is.
THEOREM OverridesWin == Spec => []OverrideHolds
<1>1. Inv => OverrideHolds
  BY DEF Inv, OverrideInv, OverrideHolds
<1> QED BY <1>1, InvHolds, PTL
=============================================================================

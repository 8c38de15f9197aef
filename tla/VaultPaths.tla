------------------------------- MODULE VaultPaths -------------------------------
(***************************************************************************)
(* Which Markdown files of a vault are in its index.  Three places decide: *)
(* the walk of the initial scan, the filter in front of the watcher's      *)
(* channel, and the walk of a rescan.  Each has an InclusionFilter of its  *)
(* own, built from the .gitignore files at another moment of the vault's   *)
(* start (indexer/mod.rs, indexer/walk.rs, watcher/, and run_bootstrap in  *)
(* control_plane/manager.rs).                                              *)
(*                                                                         *)
(* A path is the sequence of its components.  A glob set stands for the    *)
(* paths it matches, a .gitignore for what its last matching pattern says  *)
(* of each path below its directory.  The work on one file is one step and *)
(* each change of a file reaches the watcher as an event of that file;     *)
(* VaultIndex takes both apart: it interleaves the work, and has the       *)
(* changes of which the watcher is not told (NotifyNobody).                *)
(***************************************************************************)
EXTENDS Naturals, Sequences, FiniteSets

CONSTANTS Files,          \* the .md paths of the vault
          DotNames,       \* components that begin with a dot
          ConflictNames,  \* file names is_sync_conflict knows
          Unseen,         \* files behind a linked directory: no events for them
          Outside,        \* links to a file that is not in the vault
          IgnorePatterns, \* ignore_patterns: the files a glob matches, and whether
                          \* it begins with !
          Respect,        \* respect_gitignore
          GitIgnores,     \* the .gitignore files the vault may have: a verdict
                          \* ("ignore" or "keep") for paths, by directory
          Vaults,         \* the sets of files the vault may begin with
          MaxChanges      \* bound: changes of the vault, rescans and restarts

ASSUME PathsAssumption == /\ Unseen \cup Outside \subseteq Files
                          /\ IgnorePatterns \subseteq [glob : SUBSET Files, bang : BOOLEAN]
                          /\ <<>> \notin Files /\ Vaults \subseteq SUBSET Files
ASSUME RulesAssumption == /\ Files \subseteq Seq(STRING)
                          /\ \A r \in GitIgnores : /\ DOMAIN r \subseteq Seq(STRING)
                                                  /\ \A d \in DOMAIN r : \A q \in DOMAIN r[d] :
                                                        r[d][q] \in {"ignore", "keep"}
ASSUME RespectAssumption == Respect \in BOOLEAN /\ MaxChanges \in Nat

VARIABLES disk,     \* the files that exist
          rules,    \* the .gitignore files
          phase,    \* down, scanned, watching, live
          scanRules, watchRules, rescanRules,   \* the rules each filter was built from
          index,    \* none, current or stale
          missed,   \* history: changed after the scan and before the watch began
          changes

vars == <<disk, rules, phase, scanRules, watchRules, rescanRules, index, missed, changes>>

----------------------------------------------------------------------------
(* The filters *)

\* compiled_ignores_split
Exclude   == UNION {i.glob : i \in {j \in IgnorePatterns : ~j.bang}}
Reinclude == UNION {i.glob : i \in {j \in IgnorePatterns : j.bang}}

Prefixes(p)  == {SubSeq(p, 1, n) : n \in 1..Len(p)}
Under(p, d)  == Len(d) < Len(p) /\ SubSeq(p, 1, Len(d)) = d

\* Mutant: what is nearest to the root decides
ShortestOf(S) == CHOOSE q \in S : \A r \in S : Len(q) <= Len(r)

LongestOf(S)  == CHOOSE q \in S : \A r \in S : Len(r) <= Len(q)

\* The .gitignore of d speaks of p itself or of a directory p lies in, the
\* nearest first (matched_path_or_any_parents)
Spoken(r, d, p)  == {q \in Prefixes(p) : Under(q, d) /\ q \in DOMAIN r[d]}
Verdict(r, d, p) == r[d][LongestOf(Spoken(r, d, p))]

\* is_ignored: the deepest .gitignore that says anything of p
Speaking(r, p)  == {d \in DOMAIN r : Under(p, d) /\ Spoken(r, d, p) # {}}
IsIgnored(r, p) == Speaking(r, p) # {} /\ Verdict(r, LongestOf(Speaking(r, p)), p) = "ignore"

\* Mutant: the .gitignore is asked before the operator's !
IncludesVcsFirst(r, p) ==
    /\ p[1] # ".git"
    /\ ~(Respect /\ IsIgnored(r, p))
    /\ p \in Reinclude \/ p \notin Exclude

\* InclusionFilter::includes
Includes(r, p) ==
    /\ p[1] # ".git"
    /\ p \in Reinclude \/ (p \notin Exclude /\ ~(Respect /\ IsIgnored(r, p)))

\* walk_vault
Walked(r) == {p \in disk : p \notin Outside /\ Includes(r, p)}

\* is_relevant_path and is_sync_conflict
IsRelevant(p)     == \A i \in DOMAIN p : p[i] \notin DotNames
IsSyncConflict(p) == p[Len(p)] \in ConflictNames

\* filter_pass, for an event of p
FilterPass(r, p) == p \notin Unseen /\ IsRelevant(p) /\ Includes(r, p) /\ ~IsSyncConflict(p)

----------------------------------------------------------------------------
Init ==
    /\ disk \in Vaults
    /\ rules \in GitIgnores
    /\ phase = "down"
    /\ scanRules = rules /\ watchRules = rules /\ rescanRules = rules
    /\ index = [p \in Files |-> "none"]
    /\ missed = {}
    /\ changes = 0

\* Scanner::new and run in run_bootstrap: rows of files not walked are deleted
InitialScan ==
    /\ phase = "down"
    /\ scanRules' = rules
    /\ index' = [p \in Files |-> IF p \in Walked(rules) THEN "current" ELSE "none"]
    /\ phase' = "scanned" /\ missed' = {}
    /\ UNCHANGED <<disk, rules, watchRules, rescanRules, changes>>

SpawnWatcher ==
    /\ phase = "scanned"
    /\ watchRules' = rules
    /\ phase' = "watching"
    /\ UNCHANGED <<disk, rules, scanRules, rescanRules, index, missed, changes>>

SpawnConsumer ==
    /\ phase = "watching"
    /\ rescanRules' = rules
    /\ phase' = "live"
    /\ UNCHANGED <<disk, rules, scanRules, watchRules, index, missed, changes>>

Counted == changes < MaxChanges /\ changes' = changes + 1

\* A file is written.  Only the scan asks whether it lies outside of the vault:
\* reindex_path reads what the path leads to.
Heard(p) == phase \in {"watching", "live"} /\ FilterPass(watchRules, p)

Noticed(p) == missed' = IF phase = "scanned" THEN missed \cup {p} ELSE missed

Write(p) ==
    /\ Counted
    /\ disk' = disk \cup {p}
    /\ index' = [index EXCEPT ![p] = IF Heard(p) THEN "current"
                                     ELSE IF @ = "none" THEN "none" ELSE "stale"]
    /\ Noticed(p)
    /\ UNCHANGED <<rules, phase, scanRules, watchRules, rescanRules>>

\* A file is removed by itself.  When a whole directory is, translate drops the only
\* event, and its files stay in the index: NotifyNobody of VaultIndex.
Delete(p) ==
    /\ Counted /\ p \in disk
    /\ disk' = disk \ {p}
    /\ index' = [index EXCEPT ![p] = IF Heard(p) \/ @ = "none" THEN "none" ELSE "stale"]
    /\ Noticed(p)
    /\ UNCHANGED <<rules, phase, scanRules, watchRules, rescanRules>>

EditGitIgnore ==
    /\ Counted
    /\ \E r \in GitIgnores \ {rules} : rules' = r
    /\ UNCHANGED <<disk, phase, scanRules, watchRules, rescanRules, index, missed>>

\* run_rescan: every walked file is indexed again, no row is deleted
Rescan ==
    /\ phase = "live" /\ Counted
    /\ index' = [p \in Files |-> IF p \in Walked(rescanRules) THEN "current" ELSE index[p]]
    /\ UNCHANGED <<disk, rules, phase, scanRules, watchRules, rescanRules, missed>>

Stop ==
    /\ phase = "live" /\ Counted
    /\ phase' = "down"
    /\ UNCHANGED <<disk, rules, scanRules, watchRules, rescanRules, index, missed>>

Next ==
    \/ InitialScan \/ SpawnWatcher \/ SpawnConsumer \/ EditGitIgnore \/ Rescan \/ Stop
    \/ \E p \in Files : Write(p) \/ Delete(p)

Spec == Init /\ [][Next]_vars

----------------------------------------------------------------------------
\* Files the three places judge alike: a note with no dot in its path, no
\* conflict copy, and no link.
Plain == {p \in Files \ (Unseen \cup Outside) : IsRelevant(p) /\ ~IsSyncConflict(p)}

\* The rules that speak of p or of a directory it lies in, each with its directory,
\* the nearest of them, and their verdict, without the chain of matchers
Said(p) == {dq \in (DOMAIN rules) \X Prefixes(p) :
                Under(dq[2], dq[1]) /\ dq[2] \in DOMAIN rules[dq[1]]}
Nearest(p) == {dq \in Said(p) : \A e \in Said(p) :
                  \/ Len(e[1]) < Len(dq[1])
                  \/ e[1] = dq[1] /\ Len(e[2]) <= Len(dq[2])}

Reference(p) ==
    /\ p[1] # ".git"
    /\ p \notin Reinclude =>
          /\ p \notin Exclude
          /\ Respect => \A dq \in Nearest(p) : rules[dq[1]][dq[2]] = "keep"

\* While the .gitignore files stay as they were, a live vault has the plain files
\* that the precedence of the rules includes, and has them as they are: the walk
\* of the scan, the filter of the watcher and the walk of a rescan agree, however
\* nested .gitignore files, exclusions and operator overrides contradict each
\* other.
PlainInSync ==
    phase = "live" /\ scanRules = rules /\ watchRules = rules /\ rescanRules = rules =>
        \A p \in Plain \ missed :
            index[p] = IF p \in disk /\ Reference(p) THEN "current" ELSE "none"

\* What the operator includes with ! stays in the index whatever the .gitignore
\* files say and whenever they change, except in the vault's own .git directory,
\* of which nothing is ever in the index.
OverrideHolds ==
    /\ \A p \in Files : p[1] = ".git" => index[p] = "none"
    /\ phase = "live" => \A p \in (Plain \cap Reinclude) \ missed :
                             (index[p] = "current") <=> (p \in disk /\ p[1] # ".git")

----------------------------------------------------------------------------
(* What the documents say beyond that, and the code does not keep *)

\* "Unified path-inclusion predicate shared by the initial vault walk and the
\* watcher event filter"
ScanWatchAgree ==
    phase = "live" /\ scanRules = watchRules =>
        \A p \in disk : p \in Walked(scanRules) <=> FilterPass(watchRules, p)

\* "Changes to .gitignore do not take effect until the operator runs rescan":
\* after it they have
RescanReadsRules == [][Rescan => \A p \in Plain : index'[p] = "current" => Includes(rules, p)]_vars

\* "Symlinks pointing outside the vault are not followed"
OutsideNeverIndexed == \A p \in Outside : index[p] = "none"

\* "There is no way to index .git/ contents"
GitNeverIndexed == \A p \in Files : (\E i \in DOMAIN p : p[i] = ".git") => index[p] = "none"
=============================================================================

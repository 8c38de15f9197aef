--------------------------- MODULE AnnouncedIndex ---------------------------
(***************************************************************************)
(* What one vault promises to those who search it and to those who watch   *)
(* it (docs/specs/change-events.md, "Normal Flow" and "Live-Only           *)
(* Contract"): every path shows one whole file version, a marker that it   *)
(* awaits re-embedding, or nothing; while the vault is live each change of *)
(* what is shown is announced, once, before the next one; nothing is       *)
(* announced that did not change; and a subscriber that queried the index  *)
(* when the vault went live keeps an exact copy of it from the             *)
(* announcements alone.  Changes made while the vault is not live are      *)
(* silent, and an announcement that is due when the vault stops is lost.   *)
(***************************************************************************)
CONSTANTS Paths, Bodies, Absent, Stale

VARIABLES
    index,  \* what each path shows
    live,   \* events are being delivered
    view,   \* the copy a subscriber keeps
    due     \* the paths whose change has yet to be announced

vars == <<index, live, view, due>>

Shown   == Bodies \cup {Absent, Stale}
Nothing == [p \in Paths |-> Absent]

Init ==
    /\ index = Nothing /\ view = Nothing
    /\ live = FALSE /\ due = {}

\* Not live: one file is indexed, files are dropped together, or every shown file
\* is marked for re-embedding.
Silent ==
    /\ ~live
    /\ \/ \E p \in Paths, b \in Bodies : index' = [index EXCEPT ![p] = b]
       \/ \E S \in SUBSET Paths :
             index' = [p \in Paths |-> IF p \in S THEN Absent ELSE index[p]]
       \/ index' = [p \in Paths |-> IF index[p] = Absent THEN Absent ELSE Stale]
    /\ UNCHANGED <<live, view, due>>

GoLive ==
    /\ ~live
    /\ live' = TRUE
    /\ view' = index
    /\ UNCHANGED <<index, due>>

\* Live: the change of one path is announced before another path changes.
Change(p) ==
    /\ live /\ due = {}
    /\ \E s \in (Bodies \cup {Absent}) \ {index[p]} :
          index' = [index EXCEPT ![p] = s]
    /\ due' = {p}
    /\ UNCHANGED <<live, view>>

Announce(p) ==
    /\ live /\ due = {p}
    /\ view' = [view EXCEPT ![p] = index[p]]
    /\ due' = {}
    /\ UNCHANGED <<index, live>>

GoOffline ==
    /\ live
    /\ live' = FALSE
    /\ view' = Nothing /\ due' = {}
    /\ UNCHANGED index

Next == \/ Silent \/ GoLive \/ GoOffline
        \/ \E p \in Paths : Change(p) \/ Announce(p)

Spec == Init /\ [][Next]_vars
=============================================================================

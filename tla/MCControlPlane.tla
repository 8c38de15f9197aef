--------------------------- MODULE MCControlPlane ---------------------------
EXTENDS ControlPlane, TLC

\* Paths are interchangeable, and so are clients, names and ids.
Perms == Permutations(Ids) \cup Permutations(Names) \cup Permutations(Paths)
         \cup Permutations(Clients)
AllOps == Operations
\* Without rescan, which changes nothing that a safety property is about.
ChangingOps == Operations \ {"rescan"}
=============================================================================

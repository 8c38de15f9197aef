------------------------------ MODULE MCVaultPaths ------------------------------
EXTENDS VaultPaths, TLC

Note       == <<"note">>
Draft      == <<"drafts", "a">>
Kept       == <<"drafts", "b">>
Nested     == <<"drafts", "old", "c">>
GitFile    == <<".git", "d">>
Submodule  == <<"drafts", ".git", "e">>
Conflict   == <<"copy">>
Linked     == <<"link", "f">>
External   == <<"external">>

AllFiles   == {Note, Draft, Kept, Nested, GitFile, Submodule, Conflict, Linked, External}
Root       == <<>>
Drafts     == <<"drafts">>

\* No .gitignore; one that ignores the directory and one file of it back in; a
\* nested one that contradicts it; a nested one alone
Ignores ==
    {Root :> <<>>,
     Root :> (Drafts :> "ignore"),
     Root :> (Drafts :> "ignore" @@ Draft :> "keep"),
     Root :> (Drafts :> "ignore" @@ Note :> "ignore")
         @@ Drafts :> (<<"drafts", "old">> :> "keep" @@ Kept :> "keep"),
     Root :> (Note :> "keep")
         @@ Drafts :> (Nested :> "ignore" @@ Draft :> "ignore")}

Dots       == {".git"}
Conflicts  == {"copy"}
Behind     == {Linked}
Elsewhere  == {External}
\* drafts/b, drafts/**/c, !.git/**, !drafts/b, !note
Patterns   == {[glob |-> {Kept}, bang |-> FALSE], [glob |-> {Nested}, bang |-> FALSE],
               [glob |-> {GitFile}, bang |-> TRUE], [glob |-> {Kept}, bang |-> TRUE],
               [glob |-> {Note}, bang |-> TRUE]}
FullOrEmpty == {AllFiles, {}}
=============================================================================

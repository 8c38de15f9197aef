-------------------------- MODULE MCCrossVaultSearch --------------------------
(* Instances of CrossVaultSearch for TLC. *)
EXTENDS CrossVaultSearch

\* Texts 3 and 4 are different and worth the same
MCScore == (1 :> 1) @@ (2 :> 2) @@ (3 :> 3) @@ (4 :> 3)

\* Nothing, a file without vectors, one file with a text that occurs twice, and two
\* files the first of which has as many chunks of one text as there are candidates
MCIndexes == {<<>>, 1 :> <<>>, 1 :> <<1, 2, 2>>, (1 :> <<3, 3, 3>>) @@ (2 :> <<1, 4>>)}

MCFilters == {<<>>, <<<<"name", "n">>>>, <<<<"id", 2>>, <<"name", "m">>, <<"name", "n">>>>,
              <<<<"id", 3>>, <<"id", 1>>>>, NoTokens}

Spelled(f, p) == [form |-> f, path |-> p]

Files    == [op |-> "filesystem", filter |-> <<>>, limit |-> 1, prefix |-> "none", badPattern |-> FALSE]
Content  == [Files EXCEPT !.op = "content"] @@
            [mode |-> "absent", regex |-> FALSE, cased |-> FALSE, empty |-> FALSE]
Semantic == [op |-> "semantic", filter |-> <<>>, limit |-> 1, prefix |-> "none", minimum |-> 0,
             includeText |-> "none", previewBytes |-> 1, granularity |-> "chunk", perDocument |-> 1]
Get      == [op |-> "get", filter |-> <<>>, paths |-> <<Spelled("dotted", 2), Spelled("plain", 1)>>]
Debug    == [op |-> "debug", filter |-> <<>>, path |-> Spelled("plain", 1), mode |-> "diff",
             text |-> "none"]

\* The kinds of search with all limits and prefixes; filters and wrong requests
\* with one of each
MCSearches ==
  {Files, Content, [Content EXCEPT !.mode = "ranked"], [Content EXCEPT !.regex = TRUE],
   Semantic, [Semantic EXCEPT !.minimum = 2], [Semantic EXCEPT !.granularity = "document"]}

MCContents ==
  {[Content EXCEPT !.mode = m, !.regex = r, !.cased = c, !.empty = e] :
     m \in {"absent", "substring", "regex", "ranked", "other"}, r, c, e \in BOOLEAN}
  \cup {[k EXCEPT !.prefix = p, !.badPattern = TRUE] :
          k \in {Files, Content, [Content EXCEPT !.regex = TRUE], [Content EXCEPT !.mode = "ranked"]},
          p \in {"none", "empty"}}
MCSemantics ==
  {[Semantic EXCEPT !.granularity = "document", !.perDocument = 2, !.limit = 2],
   [Semantic EXCEPT !.limit = 0], [Semantic EXCEPT !.limit = 3], [Semantic EXCEPT !.granularity = "other"],
   [Semantic EXCEPT !.perDocument = 0], [Semantic EXCEPT !.includeText = "other"],
   [Semantic EXCEPT !.previewBytes = 0]}
MCGets ==
  {[Get EXCEPT !.paths = <<>>], [Get EXCEPT !.paths = <<Spelled("plain", 1), Spelled("dotted", 1)>>]}
  \cup {[Get EXCEPT !.paths = <<Spelled(f, 1)>>] :
          f \in {"dot", "dotslash", "empty", "absolute", "parent"}}
MCDebugs ==
  {Debug, [Debug EXCEPT !.mode = "other"], [Debug EXCEPT !.text = "other"],
   [Debug EXCEPT !.path = Spelled("dotted", 2), !.mode = "indexed"],
   [Debug EXCEPT !.filter = <<<<"name", "n">>>>], [Debug EXCEPT !.filter = <<<<"id", 2>>>>],
   [Debug EXCEPT !.filter = <<<<"id", 3>>>>]}
  \cup {[Debug EXCEPT !.path = Spelled(f, 1)] : f \in {"dot", "dotslash", "parent"}}

MCRequests ==
  {[k EXCEPT !.limit = l, !.prefix = p] : k \in MCSearches, l \in {1, 2}, p \in {"none", "dir"}}
  \cup {[k EXCEPT !.filter = f] : k \in MCSearches \cup {Get}, f \in MCFilters}
  \cup {[k EXCEPT !.prefix = p] : k \in MCSearches, p \in {"empty", "invalid"}}
  \cup MCContents \cup MCSemantics \cup MCGets \cup MCDebugs \cup {[Files EXCEPT !.limit = 0]}

=============================================================================

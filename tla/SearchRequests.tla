---------------------------- MODULE SearchRequests ----------------------------
(***************************************************************************)
(* The requests that read the indexes (api/types.rs), what the handlers    *)
(* check before they look at a vault, the search inside one vault          *)
(* (search/filesystem.rs, search/content.rs, search/semantic.rs), and the  *)
(* merge of what the vaults return (api/search.rs).                        *)
(*                                                                         *)
(* An index gives each path the texts of its chunks.  What a text is worth *)
(* to the query is its Score: equal texts have equal vectors.  A higher    *)
(* score is better, for distances and for BM25 alike.  Vaults, paths and   *)
(* texts (by their hashes) are numbers because answers are ordered by them.*)
(***************************************************************************)
EXTENDS Integers, Sequences, FiniteSets, FiniteSetsExt, SequencesExt

CONSTANTS Vaults, Names,
          Paths,
          Dir,          \* the paths under the one directory requests name as prefix
          Literal,      \* the paths whose body contains the query as it is written
          Pattern,      \* the paths whose body matches the query as a regex
          Texts, Score,
          Multiplier,   \* document_candidate_multiplier
          CandidateCap, \* document_candidate_limit
          MaxLimit,     \* MAX_SEMANTIC_LIMIT
          MaxChunks     \* the largest chunks_per_document

ASSUME IdsAssumption   == /\ Vaults \subseteq Nat /\ IsFiniteSet(Vaults)
                          /\ Paths \subseteq Nat \ {0} /\ IsFiniteSet(Paths)
ASSUME PathsAssumption == Dir \cup Literal \cup Pattern \subseteq Paths
ASSUME TextsAssumption == Texts \subseteq Nat /\ Score \in [Texts -> Nat]
ASSUME DepthAssumption == {Multiplier, CandidateCap, MaxLimit, MaxChunks} \subseteq Nat \ {0}

NoTokens == <<<<"empty", 0>>>>   \* a filter that was given without tokens; no filter is <<>>
Filters  == Seq(({"name"} \X Names) \cup ({"id"} \X Nat)) \cup {NoTokens}
PrefixKinds == {"none", "empty", "dir", "invalid"}

\* A path as a request spells it: as the index does; with a leading "./" or
\* doubled slashes; "./" alone; ".//x"; empty; absolute; with a ".."
Forms     == {"plain", "dotted", "dot", "dotslash", "empty", "absolute", "parent"}
Spellings == [form: Forms, path: Paths]

FilesystemQueries ==
  [op: {"filesystem"}, filter: Filters, limit: Nat, prefix: PrefixKinds, badPattern: BOOLEAN]
ContentQueries ==
  [op: {"content"}, filter: Filters, limit: Nat, prefix: PrefixKinds, badPattern: BOOLEAN,
   mode: {"absent", "substring", "regex", "ranked", "other"},
   regex: BOOLEAN, cased: BOOLEAN, empty: BOOLEAN]
SemanticQueries ==
  [op: {"semantic"}, filter: Filters, limit: Nat, prefix: PrefixKinds, minimum: Nat,
   includeText: {"preview", "full", "none", "other"}, previewBytes: Nat,
   granularity: {"chunk", "document", "other"}, perDocument: Nat]
GetQueries == [op: {"get"}, filter: Filters, paths: Seq(Spellings)]
DebugQueries ==
  [op: {"debug"}, filter: {f \in Filters \ {NoTokens} : Len(f) <= 1}, path: Spellings,
   mode: {"indexed", "preview", "diff", "other"}, text: {"preview", "full", "none", "other"}]

Queries == FilesystemQueries \cup ContentQueries \cup SemanticQueries \cup GetQueries \cup DebugQueries

----------------------------------------------------------------------------
(* The checks.                                                             *)

IsSemantic(r) == r.op = "semantic"
IsDocument(r) == IsSemantic(r) /\ r.granularity = "document"

\* resolve_content_mode: the mode, or the error
ResolveContentMode(r) ==
  IF \/ r.mode \notin {"absent", "regex"} /\ r.regex
     \/ r.mode = "ranked" /\ r.cased
     \/ r.mode = "other"
  THEN "invalid_request"
  ELSE IF r.mode = "ranked" THEN (IF r.empty THEN "invalid_query" ELSE "ranked")
  ELSE IF r.mode = "regex" \/ r.regex THEN "regex" ELSE "substring"

IsRanked(r) == r.op = "content" /\ ResolveContentMode(r) = "ranked"

\* normalize_retrieval_path
Normalize(s) ==
  [s EXCEPT !.form = CASE @ = "dotted" -> "plain" [] @ = "dot" -> "empty"
                       [] @ = "dotslash" -> "absolute" [] OTHER -> @]

\* validate_retrieval_path, and validate_path of the debug handler
Valid(s) == s.form \notin {"empty", "absolute", "parent"}

NoError == "none"
ContentError(r) ==
  IF ResolveContentMode(r) \in {"invalid_request", "invalid_query"} THEN ResolveContentMode(r)
  ELSE NoError
SemanticError(r) ==
  IF \/ r.granularity = "other" \/ r.perDocument \notin 1..MaxChunks
     \/ r.includeText = "other" \/ r.previewBytes = 0 \/ r.limit \notin 1..MaxLimit
  THEN "invalid_request" ELSE NoError
\* A path is checked as it is spelled, and looked up as it is normalized
GetError(r) ==
  IF r.paths = <<>> THEN "invalid_request"
  ELSE IF \E i \in DOMAIN r.paths : ~Valid(r.paths[i]) THEN "invalid_path" ELSE NoError
\* Here it is normalized first
DebugError(r) ==
  IF ~Valid(Normalize(r.path)) THEN "invalid_path"
  ELSE IF r.mode = "other" \/ r.text = "other" THEN "invalid_request" ELSE NoError

\* What the handlers check before they look at a vault
Validated(r) ==
  IF r.op = "get" /\ GetError(r) # NoError THEN GetError(r)
  ELSE IF r.filter = NoTokens THEN "invalid_request"
  ELSE CASE r.op = "content"  -> ContentError(r)
         [] r.op = "semantic" -> SemanticError(r)
         [] r.op = "debug"    -> DebugError(r)
         [] OTHER             -> NoError

\* The number of neighbours asked of each vault
CandidateLimit(r) ==
  IF IsDocument(r) THEN Max({1, Min({r.limit * Multiplier, CandidateCap})}) ELSE r.limit

----------------------------------------------------------------------------
(* The search in one vault v with the index ix.                            *)

\* normalize_prefix with passes_filters: the paths in scope
Within(r) == IF r.prefix = "dir" THEN Dir ELSE Paths

\* build_matcher looks at the flag, not at the mode
Matches(r) == IF r.op # "content" \/ IsRanked(r) THEN Paths
              ELSE IF r.regex THEN Pattern ELSE Literal

\* Every row names its vault
Row(v, p, i, s) == [vault |-> v, path |-> p, chunk |-> i, score |-> s]
ChunkRow(v, p, i, t) ==
  [vault |-> v, path |-> p, chunk |-> i, text |-> t, score |-> Score[t]]

FileRows(v, ix)  == {Row(v, p, 0, 0) : p \in DOMAIN ix}
ChunkRows(v, ix) == UNION {{ChunkRow(v, p, i, ix[p][i]) : i \in DOMAIN ix[p]} : p \in DOMAIN ix}
\* FTS5 has one score per file, here that of its first chunk
RankRows(v, ix)  == {k \in ChunkRows(v, ix) : k.chunk = 1}

ByPath(a, b) == a.path < b.path \/ (a.path = b.path /\ a.vault < b.vault)
\* A stable sort keeps the items of one path in the order of the request
ByItem(a, b) == ByPath(a, b) \/ (a.path = b.path /\ a.vault = b.vault /\ a.chunk < b.chunk)
ByRank(a, b) == a.score > b.score \/ (a.score = b.score /\ ByPath(a, b))
ByScore(a, b) ==
  \/ a.score > b.score
  \/ a.score = b.score /\ a.vault < b.vault
  \/ a.score = b.score /\ a.vault = b.vault /\ a.path < b.path
  \/ a.score = b.score /\ a.vault = b.vault /\ a.path = b.path /\ a.chunk < b.chunk

\* As SetToSortSeq has it, in a form that can be proved about: k comes after as many
\* items as are before it
Sorted(S, Before(_, _)) ==
  [i \in 1..Cardinality(S) |->
     CHOOSE k \in S : Cardinality({m \in S : Before(m, k)}) = i - 1]
Cut(s, n) == SubSeq(s, 1, Min({n, Len(s)}))
Top(S, Before(_, _), n) == Cut(Sorted(S, Before), n)

\* The n best of S; among equals SQLite may choose
Best(S, n) ==
  {T \in SUBSET S : /\ Cardinality(T) = Min({n, Cardinality(S)})
                    /\ \A a \in T, b \in S \ T : a.score >= b.score}

\* search_filesystem, search_content
PathSearch(r, v, ix) ==
  LET hits == {k \in FileRows(v, ix) : k.path \in Within(r) \cap Matches(r)}
  IN  {[rows |-> ToSet(Top(hits, ByPath, r.limit)),
        truncated |-> Cardinality(hits) > r.limit, hint |-> FALSE]}

\* run_ranked_blocking asks for one row more than it returns
RankedSearch(r, v, ix) ==
  LET hits == {k \in RankRows(v, ix) : k.path \in Within(r)}
  IN  {[rows |-> T, truncated |-> Cardinality(hits) > r.limit, hint |-> FALSE] :
         T \in Best(hits, r.limit)}

\* run_blocking_query: the nearest neighbours first, then the prefix, then
\* the similarity
SemanticSearch(r, v, ix) ==
  LET k == CandidateLimit(r)
      Found(T) == {c \in T : c.path \in Within(r)}
      Kept(T)  == {c \in Found(T) : c.score >= r.minimum}
  IN  {[rows |-> Kept(T), truncated |-> Cardinality(Found(T)) >= k,
        hint |-> Kept(T) = {} /\ ChunkRows(v, ix) = {} /\ DOMAIN ix # {}] :
         T \in Best(ChunkRows(v, ix), k)}

VaultSearch(r, v, ix) ==
  IF IsSemantic(r) THEN SemanticSearch(r, v, ix)
  ELSE IF IsRanked(r) THEN RankedSearch(r, v, ix)
  ELSE PathSearch(r, v, ix)

\* The item of a get for its i-th path: score 1 if the path was found, and the
\* path 0 stands for all that is never in an index
Item(r, v, ix, i) ==
  LET s == Normalize(r.paths[i])
      p == IF Valid(s) THEN s.path ELSE 0
  IN  Row(v, p, i, IF p \in DOMAIN ix THEN 1 ELSE 0)

\* anyhow_is_request_validation: the errors that are the request's own.  The
\* pattern is compiled as a glob, or as a regex if the flag says so
Misasked(r) ==
  /\ r.op \in {"filesystem", "content", "semantic"}
  /\ \/ r.prefix = "invalid"
     \/ r.op = "filesystem" /\ r.badPattern
     \/ r.op = "content" /\ r.badPattern /\ (r.regex \/ IsRanked(r))

\* prefix_successor panics on an empty prefix; the ranked search does not ask, and
\* SQLite has not seen the query by then
Panics(r) == IsRanked(r) /\ r.prefix = "empty"

\* collect_ranked_rows knows some of the errors of FTS5 by their wording; another one
\* passes for a failure of the vault
Misread(r) == IsRanked(r) /\ r.badPattern

----------------------------------------------------------------------------
(* The merge.                                                              *)

\* DocKey: the hash in it is that of the chunk's own text
DocumentOf(k) == <<k.vault, k.path, k.text>>

\* Documents of one score, vault and path stay in the order of the BTreeMap
ByDocument(a, b) ==
  \/ a.score > b.score
  \/ a.score = b.score /\ a.vault < b.vault
  \/ a.score = b.score /\ a.vault = b.vault /\ a.path < b.path
  \/ a.score = b.score /\ a.vault = b.vault /\ a.path = b.path /\ a.text < b.text

\* Mutant: of equal chunks the last ones are kept
DocumentsByLastChunk(r, S) ==
  {[vault |-> d[1], path |-> d[2], text |-> d[3],
    score |-> Max({k.score : k \in {c \in S : DocumentOf(c) = d}}),
    chunks |-> Top({c \in S : DocumentOf(c) = d},
                   LAMBDA a, b : a.score > b.score \/ (a.score = b.score /\ a.chunk > b.chunk),
                   r.perDocument)] :
     d \in {DocumentOf(c) : c \in S}}

\* build_document_results: the chunks are grouped by DocKey; each document has its
\* best ones as evidence
Documents(r, S) ==
  {[vault |-> d[1], path |-> d[2], text |-> d[3],
    score |-> Max({k.score : k \in {c \in S : DocumentOf(c) = d}}),
    chunks |-> Top({c \in S : DocumentOf(c) = d}, ByScore, r.perDocument)] :
     d \in {DocumentOf(c) : c \in S}}

\* Mutant: by path, whatever was asked
MergedByPath(r, S) ==
  IF IsDocument(r) THEN Sorted(Documents(r, S), ByDocument) ELSE Sorted(S, ByItem)

Merged(r, S) ==
  IF r.op = "get" THEN Sorted(S, ByItem)
  ELSE IF IsDocument(r) THEN Sorted(Documents(r, S), ByDocument)
  ELSE IF IsSemantic(r) THEN Sorted(S, ByScore)
  ELSE IF IsRanked(r) THEN Sorted(S, ByRank)
  ELSE Sorted(S, ByPath)

Respond(r, S, a) ==
  LET merged == Merged(r, S)
      shown  == IF r.op = "get" THEN merged ELSE Cut(merged, r.limit)
  IN  [error |-> NoError, results |-> shown,
       acc |-> [a EXCEPT !.truncated = @ \/ Len(merged) > Len(shown),
                         !.hint = @ /\ shown = <<>>]]

----------------------------------------------------------------------------
(* The chunks of a file for the debug handler: those stored, and those the *)
(* chunker would cut from the stored text.                                 *)

Shared(indexed, preview) == DOMAIN indexed \cap DOMAIN preview

\* build_diff
Diff(indexed, preview) ==
  [changed |-> {i \in Shared(indexed, preview) : indexed[i] # preview[i]},
   added   |-> DOMAIN preview \ DOMAIN indexed,
   removed |-> DOMAIN indexed \ DOMAIN preview]

\* indexed_chunks_to_json: a stored chunk has its boundaries from the equal
\* chunk of the preview
Unbounded(indexed, preview) ==
  DOMAIN indexed \ {i \in Shared(indexed, preview) : indexed[i] = preview[i]}

\* run_debug_chunks, for the one file that was found
Explain(r, found) ==
  [vault |-> found.vault, path |-> found.path, indexed |-> found.chunks,
   unbounded |-> Unbounded(found.chunks, found.text),
   diff |-> IF r.mode = "diff" THEN Diff(found.chunks, found.text) ELSE Diff(<<>>, <<>>)]

=============================================================================

--------------------------- MODULE CrossVaultSearch ---------------------------
(***************************************************************************)
(* One request that reads over all vaults (api/search.rs, api/debug.rs)    *)
(* and what happens to the vaults meanwhile: the request lists the         *)
(* registry, takes the entries from the runner map, asks one vault after   *)
(* the other, and merges what they return.  Between any two of these steps *)
(* vaults are paused, renamed, terminated, and their files re-indexed.     *)
(***************************************************************************)
EXTENDS SearchRequests

CONSTANTS Indexes,    \* what a vault may have indexed
          Requests,
          MaxChanges, \* vault changes during a request
          MaxFaults   \* failures of stores and of the embedding service

ASSUME RequestsAssumption == Requests \subseteq Queries
ASSUME IndexesAssumption  == \A ix \in Indexes : /\ DOMAIN ix \subseteq Paths
                                                 /\ ix \in [DOMAIN ix -> Seq(Texts)]

VARIABLES rows,    \* the registry: status and name of each vault
          live,    \* the entries in the runner map
          index,   \* the index of each vault
          req, pc,
          listed,  \* the rows the request has read
          todo,    \* scope rows still to be searched
          reading, \* what has been read of the vault at the head of todo
          pool,    \* the rows collected from the vaults
          acc,     \* flags and the skipped and failed lists
          answer,
          seen,    \* history: the index a vault had when it was searched
          changes, faults

envVars == <<rows, live, index, changes>>
vars == <<rows, live, index, req, pc, listed, todo, reading, pool, acc, answer, seen,
          changes, faults>>

NoRow    == [status |-> "gone", name |-> "none"]
NoEntry  == "none"
Unread   == <<>>
Nothing  == [skipped |-> {}, failed |-> {}, truncated |-> FALSE, hint |-> FALSE]
NoAnswer == [error |-> "pending", results |-> <<>>, acc |-> Nothing]

----------------------------------------------------------------------------
(* The handler.                                                            *)

Init ==
  /\ rows \in [Vaults -> {[status |-> s, name |-> n] :
                            s \in {"active", "paused", "errored"}, n \in Names}]
  /\ \A v, w \in Vaults : v # w => rows[v].name # rows[w].name
  /\ live = [v \in Vaults |-> IF rows[v].status = "active" THEN rows[v].name ELSE NoEntry]
  /\ index \in [Vaults -> Indexes]
  /\ req \in Requests
  /\ pc = "ask"
  /\ listed = [v \in Vaults |-> NoRow]
  /\ todo = <<>> /\ reading = <<>> /\ pool = {} /\ acc = Nothing /\ answer = NoAnswer
  /\ seen = [v \in Vaults |-> Unread]
  /\ changes = 0 /\ faults = 0

Reply(a) == answer' = a /\ pc' = "done"
Refuse(e) == Reply([NoAnswer EXCEPT !.error = e])

\* The checks, then registry.list()
ListRows ==
  /\ pc = "ask"
  /\ IF Validated(req) = "none"
     THEN listed' = rows /\ pc' = "listed" /\ UNCHANGED answer
     ELSE Refuse(Validated(req)) /\ UNCHANGED listed
  /\ UNCHANGED <<envVars, req, todo, reading, pool, acc, seen, faults>>

\* registry.list() fails, and with it search_scope() and the request
ListFails ==
  /\ pc = "ask" /\ Validated(req) = NoError
  /\ faults < MaxFaults /\ faults' = faults + 1
  /\ Refuse("registry_corrupt")
  /\ UNCHANGED <<envVars, req, listed, todo, reading, pool, acc, seen>>

\* filter_scope: a token is a name or, if nobody has that name, an id
Selects(token) ==
  LET registered == {v \in Vaults : listed[v] # NoRow}
      named == {v \in registered : token = <<"name", listed[v].name>>}
  IN  IF named # {} THEN named ELSE {v \in registered : token = <<"id", v>>}

\* Each selected vault once, where its first token stands
Selected(filter)     == {v \in Vaults : \E i \in DOMAIN filter : v \in Selects(filter[i])}
TokenOf(filter, v)   == Min({i \in DOMAIN filter : v \in Selects(filter[i])})
InScope(filter) ==
  IF filter = <<>> THEN Sorted({v \in Vaults : listed[v] # NoRow}, <)
  ELSE Sorted(Selected(filter), LAMBDA v, w : TokenOf(filter, v) < TokenOf(filter, w))

UnknownFailures(filter) ==
  {[who |-> t, code |-> "vault_not_found"] : t \in {u \in ToSet(filter) : Selects(u) = {}}}

\* search_scope takes the entries of the active rows; the filter is applied
TakeEntries ==
  /\ pc = "listed" /\ req.op # "debug"
  /\ pc' = "search"
  /\ todo' = [i \in DOMAIN InScope(req.filter) |->
       LET v == InScope(req.filter)[i]
       IN  [vault |-> v, status |-> listed[v].status,
            entry |-> IF listed[v].status = "active" THEN live[v] ELSE NoEntry]]
  /\ acc' = [Nothing EXCEPT !.failed = UnknownFailures(req.filter)]
  /\ UNCHANGED <<envVars, req, listed, reading, pool, answer, seen, faults>>

Asking == pc = "search" /\ todo # <<>>
Head1  == Head(todo).vault

Step(a) == acc' = a /\ todo' = Tail(todo) /\ reading' = <<>>
SkipVault(v) == Step([acc EXCEPT !.skipped = @ \cup {v}])
FailVault(v) ==
  Step([acc EXCEPT !.failed = @ \cup {[who |-> <<"id", v>>, code |-> "vault_search_failed"]}])

\* Mutant: a vault without a runner is passed over
PassVaultSilently ==
  /\ Asking /\ Head(todo).entry = NoEntry
  /\ IF Head(todo).status = "active" THEN Step(acc) ELSE SkipVault(Head1)
  /\ UNCHANGED <<envVars, req, pc, listed, pool, answer, seen, faults>>

\* Paused and errored vaults are skipped; an active one without a runner failed
PassVault ==
  /\ Asking /\ Head(todo).entry = NoEntry
  /\ IF Head(todo).status = "active" THEN FailVault(Head1) ELSE SkipVault(Head1)
  /\ UNCHANGED <<envVars, req, pc, listed, pool, answer, seen, faults>>

\* The entry keeps the store open whatever became of the vault
SearchVault ==
  /\ Asking /\ Head(todo).entry # NoEntry /\ req.op \notin {"get", "debug"}
  /\ \/ /\ Misasked(req) /\ ~Panics(req)
        /\ Refuse("invalid_pattern")
        /\ UNCHANGED <<todo, reading, pool, acc, seen>>
     \/ /\ Panics(req) \/ Misread(req)
        /\ FailVault(Head1)
        /\ UNCHANGED <<pc, answer, pool, seen>>
     \/ /\ ~Misasked(req) /\ ~Panics(req)
        /\ \E found \in VaultSearch(req, Head1, index[Head1]) :
             /\ Step([acc EXCEPT !.truncated = @ \/ found.truncated,
                                 !.hint = @ \/ found.hint])
             /\ pool' = pool \cup found.rows
             /\ seen' = [seen EXCEPT ![Head1] = <<index[Head1]>>]
        /\ UNCHANGED <<pc, answer>>
  /\ UNCHANGED <<envVars, req, listed, faults>>

\* Mutant: only the items of the last path are kept
GetPathKeepingLast ==
  /\ Asking /\ Head(todo).entry # NoEntry /\ req.op = "get"
  /\ LET item == Item(req, Head1, index[Head1], Len(reading) + 1) IN
     IF Len(reading) + 1 = Len(req.paths)
     THEN /\ Step(acc)
          /\ pool' = pool \cup {item}
          /\ seen' = [seen EXCEPT ![Head1] = <<index[Head1]>>]
     ELSE reading' = Append(reading, item) /\ UNCHANGED <<todo, acc, pool, seen>>
  /\ UNCHANGED <<envVars, req, pc, listed, answer, faults>>

\* A query for each path of a get, outside a transaction
GetPath ==
  /\ Asking /\ Head(todo).entry # NoEntry /\ req.op = "get"
  /\ LET item == Item(req, Head1, index[Head1], Len(reading) + 1) IN
     IF Len(reading) + 1 = Len(req.paths)
     THEN /\ Step(acc)
          /\ pool' = pool \cup ToSet(reading) \cup {item}
          /\ seen' = [seen EXCEPT ![Head1] = <<index[Head1]>>]
     ELSE reading' = Append(reading, item) /\ UNCHANGED <<todo, acc, pool, seen>>
  /\ UNCHANGED <<envVars, req, pc, listed, answer, faults>>

Faulty == /\ Asking /\ Head(todo).entry # NoEntry
          /\ faults < MaxFaults /\ faults' = faults + 1

\* Mutant: the first vault that fails ends the request
VaultFailsAll ==
  /\ Faulty /\ req.op # "debug"
  /\ Refuse("vault_search_failed")
  /\ UNCHANGED <<envVars, req, listed, todo, reading, pool, acc, seen>>

\* The store fails, or the embedding of the query fails for good
VaultFails ==
  /\ Faulty /\ req.op # "debug"
  /\ FailVault(Head1)
  /\ UNCHANGED <<envVars, req, pc, listed, pool, answer, seen>>

\* The embedding service is unreachable: nothing can be searched
EmbedderDown ==
  /\ Faulty /\ IsSemantic(req)
  /\ Refuse("embedding_unavailable")
  /\ UNCHANGED <<envVars, req, listed, todo, reading, pool, acc, seen>>

Merge ==
  /\ pc = "search" /\ todo = <<>> /\ req.op # "debug"
  /\ Reply(Respond(req, pool, acc))
  /\ UNCHANGED <<envVars, req, listed, todo, reading, pool, acc, seen, faults>>

----------------------------------------------------------------------------
(* The debug handler: it looks a path up in the active vaults and answers  *)
(* for the one that has it.                                                *)

\* Here the token is compared with the names in the entries
Candidates ==
  {v \in Vaults : /\ listed[v].status = "active" /\ live[v] # NoEntry
                  /\ req.filter = <<>> \/ req.filter[1] \in {<<"name", live[v]>>, <<"id", v>>}}

DebugCandidates ==
  /\ pc = "listed" /\ req.op = "debug"
  /\ IF Candidates = {}
     THEN Refuse("vault_not_found") /\ UNCHANGED todo
     ELSE /\ todo' = [i \in 1..Cardinality(Candidates) |->
               LET v == Sorted(Candidates, <)[i]
               IN  [vault |-> v, status |-> "active", entry |-> live[v]]]
          /\ pc' = "search" /\ UNCHANGED answer
  /\ UNCHANGED <<envVars, req, listed, reading, pool, acc, seen, faults>>

Wanted == Normalize(req.path).path

\* The row of the file, and in a query of its own, later, its chunks
DebugFile ==
  /\ Asking /\ req.op = "debug" /\ reading = <<>>
  /\ seen' = [seen EXCEPT ![Head1] = <<index[Head1]>>]
  /\ IF Wanted \in DOMAIN index[Head1]
     THEN reading' = <<index[Head1][Wanted]>> /\ UNCHANGED <<acc, todo>>
     ELSE Step(acc)
  /\ UNCHANGED <<envVars, req, pc, listed, pool, answer, faults>>

DebugChunks ==
  /\ Asking /\ req.op = "debug" /\ reading # <<>>
  /\ LET ix == index[Head1] IN
     pool' = pool \cup {[vault |-> Head1, path |-> Wanted, text |-> reading[1],
                         chunks |-> IF Wanted \in DOMAIN ix THEN ix[Wanted] ELSE <<>>]}
  /\ Step(acc)
  /\ UNCHANGED <<envVars, req, pc, listed, answer, seen, faults>>

DebugFails ==
  /\ Faulty /\ req.op = "debug"
  /\ Refuse("debug_chunks_failed")
  /\ UNCHANGED <<envVars, req, listed, todo, reading, pool, acc, seen>>

DebugAnswer ==
  /\ pc = "search" /\ todo = <<>> /\ req.op = "debug"
  /\ IF pool = {} THEN Refuse("path_not_found")
     ELSE IF Cardinality(pool) > 1 THEN Refuse("invalid_request")
     ELSE Reply([NoAnswer EXCEPT !.error = NoError,
                                 !.results = <<Explain(req, CHOOSE f \in pool : TRUE)>>])
  /\ UNCHANGED <<envVars, req, listed, todo, reading, pool, acc, seen, faults>>

----------------------------------------------------------------------------
(* The vaults meanwhile.  Row and entry change at different moments.       *)

Changes(A) == changes < MaxChanges /\ changes' = changes + 1 /\ pc # "done" /\ A
             /\ UNCHANGED <<req, pc, listed, todo, reading, pool, acc, answer, seen,
                            faults>>

RowChanges(v) == Changes(
  /\ rows[v] # NoRow
  /\ \E row \in {NoRow} \cup {[rows[v] EXCEPT !.status = s] : s \in {"active", "paused"}}
                \cup {[rows[v] EXCEPT !.name = n] : n \in Names} :
       /\ row # rows[v]
       /\ row = NoRow \/ \A w \in Vaults \ {v} : rows[w].name # row.name
       /\ rows' = [rows EXCEPT ![v] = row]
  /\ UNCHANGED <<live, index>>)

EntryChanges(v) == Changes(
  /\ \E e \in {NoEntry, rows[v].name} : e # live[v] /\ live' = [live EXCEPT ![v] = e]
  /\ UNCHANGED <<rows, index>>)

Reindexed(v) == Changes(
  /\ live[v] # NoEntry
  /\ \E ix \in Indexes \ {index[v]} : index' = [index EXCEPT ![v] = ix]
  /\ UNCHANGED <<rows, live>>)

Next ==
  \/ ListRows \/ ListFails \/ TakeEntries \/ PassVault \/ SearchVault \/ GetPath \/ VaultFails
  \/ EmbedderDown \/ Merge
  \/ DebugCandidates \/ DebugFile \/ DebugChunks \/ DebugFails \/ DebugAnswer
  \/ \E v \in Vaults : RowChanges(v) \/ EntryChanges(v) \/ Reindexed(v)

Spec == Init /\ [][Next]_vars

----------------------------------------------------------------------------
(* Properties.                                                             *)

Done     == pc = "done" /\ answer.error = NoError
Searched == Done /\ req.op # "debug"
Answered == {v \in Vaults : seen[v] # Unread}
Shown    == ToSet(answer.results)
Told(v)  == [who |-> <<"id", v>>, code |-> "vault_search_failed"]

\* No vault is lost: each one that was registered when the request listed them,
\* and that its filter asks for, was searched, skipped or failed, and only one
\* of these; a token of the filter nobody answers to is reported
EveryVaultAccounted ==
  Searched =>
    /\ \A v \in Vaults :
         LET asked == /\ listed[v] # NoRow
                      /\ req.filter = <<>> \/ \E i \in DOMAIN req.filter :
                           req.filter[i] \in {<<"name", listed[v].name>>, <<"id", v>>}
         IN  IF asked
             THEN Cardinality({k \in 1..3 : \/ k = 1 /\ v \in Answered
                                            \/ k = 2 /\ v \in answer.acc.skipped
                                            \/ k = 3 /\ Told(v) \in answer.acc.failed}) = 1
             ELSE v \notin Answered \cup answer.acc.skipped /\ Told(v) \notin answer.acc.failed
    /\ \A i \in DOMAIN req.filter :
         \/ [who |-> req.filter[i], code |-> "vault_not_found"] \in answer.acc.failed
         \/ \E v \in Vaults : /\ listed[v] # NoRow
                              /\ req.filter[i] \in {<<"name", listed[v].name>>, <<"id", v>>}

\* The reference: all that matches in the indexes as they were when searched
Matching ==
  UNION {LET ix == seen[v][1] IN
         {k \in (IF IsSemantic(req) THEN ChunkRows(v, ix)
                 ELSE IF IsRanked(req) THEN RankRows(v, ix) ELSE FileRows(v, ix)) :
            /\ k.path \in Within(req) \cap Matches(req)
            /\ IsSemantic(req) => k.score >= req.minimum} : v \in Answered}
Expected == IF IsDocument(req) THEN {DocumentOf(k) : k \in Matching} ELSE Matching
Given    == IF IsDocument(req) THEN {DocumentOf(k) : k \in Shown} ELSE Shown

\* A prefix is applied to the nearest neighbours of the whole vault
PostFiltered == IsSemantic(req) /\ req.prefix = "dir"
Ranked       == Searched /\ req.op # "get" /\ ~PostFiltered

\* A vault with more chunks than are asked of it
Cramped(v) == Cardinality(ChunkRows(v, seen[v][1])) > CandidateLimit(req)

\* Candidates are chunks: those of equal text may leave no room for another
\* document of the vault, which then gives way to worse ones of other vaults
Crowded(k, m) == IsDocument(req) /\ k.vault # m.vault /\ Cramped(m.vault)

\* The merge of the tops of the vaults is the top of the merge: nothing that was
\* left out is better than what is shown, what is shown matches and is no more
\* than was asked for, and an answer that does not say it is truncated is
\* complete, although every vault cuts its part and a document may stand for
\* several chunks (only a crowded vault hides one, and the answer is truncated then)
NothingBetterOmitted ==
  Ranked =>
    /\ Given \subseteq Expected
    /\ Len(answer.results) <= req.limit
    /\ ~answer.acc.truncated => Expected \subseteq Given
    /\ \A k \in Shown, m \in Matching :
         (IF IsDocument(req) THEN DocumentOf(m) ELSE m) \notin Given =>
           IF IsSemantic(req) \/ IsRanked(req) THEN m.score <= k.score \/ Crowded(k, m)
           ELSE ByPath(k, m)

\* A get answers once for every path and searched vault, in the order of the
\* paths, also for paths that are spelled differently and are the same.  The
\* debug handler answers for a vault only if no other vault it looked into had
\* the path, and says that no vault has it only if none had
EveryPathAnswered ==
  /\ Searched /\ req.op = "get" =>
       /\ {<<k.vault, k.chunk>> : k \in Shown} = Answered \X DOMAIN req.paths
       /\ \A i, j \in DOMAIN answer.results :
            LET a == answer.results[i]  b == answer.results[j]
            IN  i < j => a.path <= b.path /\ (a.path = b.path => a.vault <= b.vault)
  /\ pc = "done" /\ req.op = "debug" =>
       LET having == {v \in Answered : Wanted \in DOMAIN seen[v][1]} IN
       /\ answer.error = NoError => having = {answer.results[1].vault}
       /\ answer.error = "path_not_found" => having = {}

\* A document that is shown is one text of one file, shown once and worth what the
\* text is worth.  Its evidence are chunks of this text in the file as it was
\* searched, in their order, and no more than asked for; one is left out only for
\* those before it, or because the vault had more chunks than candidates
DocumentsWhole ==
  Done /\ IsDocument(req) =>
    \A k \in Shown :
      LET own == {c \in ChunkRows(k.vault, seen[k.vault][1]) : DocumentOf(c) = DocumentOf(k)}
      IN  /\ Cardinality({d \in Shown : DocumentOf(d) = DocumentOf(k)}) = 1
          /\ k.score = Score[k.text]
          /\ k.chunks # <<>> /\ Len(k.chunks) <= req.perDocument /\ ToSet(k.chunks) \subseteq own
          /\ \A i, j \in DOMAIN k.chunks : i < j => k.chunks[i].chunk < k.chunks[j].chunk
          /\ \A c \in own \ ToSet(k.chunks) :
               \/ Cramped(k.vault)
               \/ /\ Len(k.chunks) = req.perDocument
                  /\ \A i \in DOMAIN k.chunks : k.chunks[i].chunk < c.chunk

\* A search fails as a whole only for a request that is wrong in itself, for an
\* embedding service that is down, or for a registry that could not be listed, and
\* then no vault was asked.  A vault whose store fails never fails the others' part
OneVaultFailsAlone ==
  pc = "done" /\ req.op # "debug" /\ answer.error # NoError =>
    \/ Validated(req) # NoError \/ Misasked(req)
    \/ IsSemantic(req) /\ answer.error = "embedding_unavailable"
    \/ /\ answer.error = "registry_corrupt"
       /\ \A v \in Vaults : listed[v] = NoRow /\ v \notin Answered

----------------------------------------------------------------------------
(* Further claims that TLC refutes.                                        *)

\* "chunks are grouped by parent file" (docs/specs/semantic-search.md:16): a file is
\* one document of the answer
FilesShownOnce ==
  Done /\ IsDocument(req) =>
    \A k, m \in Shown : k.vault = m.vault /\ k.path = m.path => k = m

\* "Equivalent to `mode: "regex"`" (api/types.rs:74): both spellings of a
\* regex search find the same files
RegexModeSearchesPatterns ==
  Done /\ req.op = "content" /\ ResolveContentMode(req) = "regex" =>
    \A k \in Shown : k.path \in Pattern

\* "re-truncates at `limit` preserving cross-vault top-N" (overview.md:227), for documents
DocumentsAreTheTop ==
  Done /\ IsDocument(req) /\ ~PostFiltered =>
    \A k \in Shown, m \in Matching : DocumentOf(m) \notin Given => m.score <= k.score

\* A prefix narrows a semantic search without hiding what it asks for
PrefixedIsComplete ==
  Done /\ PostFiltered /\ ~answer.acc.truncated => Expected \subseteq Given

\* "debug_assert!(!prefix.is_empty())" (prefix_successor)
PrefixNeverEmpty == Asking /\ Head(todo).entry # NoEntry => ~Panics(req)

\* The diff compares the stored chunks with those of the text they were cut
\* from: while the chunker stays the same it is empty
DebugReadsOneVersion ==
  Done /\ req.op = "debug" => answer.results[1].diff = Diff(<<>>, <<>>)

=============================================================================

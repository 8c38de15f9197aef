------------------------ MODULE CrossVaultSearchProofs ------------------------
(***************************************************************************)
(* Theorems about CrossVaultSearch, for any number of vaults and paths,    *)
(* all requests and indexes, and any number of changes and faults.         *)
(*                                                                         *)
(* SearchInv is the invariant of a request.  What it says of the vaults    *)
(* searched so far is Serves: what the answer of one vault promises to the *)
(* merge, whichever of the equal rows SQLite has chosen.  The rest of the  *)
(* module follows from it without steps: the request is done, and its      *)
(* answer is a sorted and cut list of what the vaults have given.          *)
(***************************************************************************)
EXTENDS CrossVaultSearch, FiniteSetTheorems, SequenceTheorems, WellFoundedInduction, TLAPS

----------------------------------------------------------------------------
(* Orders.                                                                 *)

\* A strict order of a finite set that tells any two elements apart.
Total(R, S) ==
  /\ \A a \in S : <<a, a>> \notin R
  /\ \A a, b, c \in S : <<a, b>> \in R /\ <<b, c>> \in R => <<a, c>> \in R
  /\ \A a, b \in S : a # b => <<a, b>> \in R \/ <<b, a>> \in R

\* s has the elements of S, each once, in the order of R
Lists(s, S, R) ==
  /\ s \in Seq(S) /\ Len(s) = Cardinality(S)
  /\ \A k \in S : \E i \in 1..Len(s) : s[i] = k
  /\ \A i, j \in 1..Len(s) : i < j => <<s[i], s[j]>> \in R /\ s[i] # s[j]

RankIn(R, S, k) == Cardinality({m \in S : <<m, k>> \in R})

LEMMA RanksDiffer ==
  ASSUME NEW S, IsFiniteSet(S), NEW R, Total(R, S)
  PROVE  /\ \A k \in S : RankIn(R, S, k) \in 0..(Cardinality(S) - 1)
         /\ \A a, b \in S : <<a, b>> \in R => RankIn(R, S, a) < RankIn(R, S, b)
<1>1. ASSUME NEW k \in S
      PROVE  IsFiniteSet({m \in S : <<m, k>> \in R}) /\ RankIn(R, S, k) \in Nat
  BY FS_Subset, FS_CardinalityType DEF RankIn
<1>2. ASSUME NEW k \in S
      PROVE  RankIn(R, S, k) \in 0..(Cardinality(S) - 1)
  <2> DEFINE below == {m \in S : <<m, k>> \in R}
  <2>1. below \subseteq S \ {k}
    BY DEF Total
  <2>2. IsFiniteSet(S \ {k}) /\ Cardinality(S \ {k}) = Cardinality(S) - 1
    BY FS_RemoveElement
  <2>3. Cardinality(below) <= Cardinality(S \ {k})
    BY <2>1, <2>2, FS_Subset
  <2>4. Cardinality(S) \in Nat
    BY FS_CardinalityType
  <2> QED BY <1>1, <2>2, <2>3, <2>4 DEF RankIn
<1>3. ASSUME NEW a \in S, NEW b \in S, <<a, b>> \in R
      PROVE  RankIn(R, S, a) < RankIn(R, S, b)
  <2> DEFINE A == {m \in S : <<m, a>> \in R}
             B == {m \in S : <<m, b>> \in R}
  <2>1. A \subseteq B /\ a \in B /\ a \notin A
    BY <1>3 DEF Total
  <2>2. IsFiniteSet(A) /\ IsFiniteSet(B) /\ Cardinality(A) \in Nat /\ Cardinality(B) \in Nat
    BY <1>1 DEF RankIn
  <2>3. Cardinality(A) <= Cardinality(B) /\ (Cardinality(A) = Cardinality(B) => A = B)
    <3> HIDE DEF A, B
    <3> QED BY <2>1, <2>2, FS_Subset
  <2>4. Cardinality(A) # Cardinality(B)
    BY <2>1, <2>3
  <2> QED BY <2>2, <2>3, <2>4 DEF RankIn
<1> QED BY <1>2, <1>3

\* Every position is the rank of one element.
LEMMA RanksTaken ==
  ASSUME NEW S, IsFiniteSet(S), NEW R, Total(R, S)
  PROVE  \A i \in 1..Cardinality(S) : \E k \in S : RankIn(R, S, k) = i - 1
<1> DEFINE rank == [k \in S |-> RankIn(R, S, k)]
           taken == {RankIn(R, S, k) : k \in S}
           free == 0..(Cardinality(S) - 1)
<1>1. \A a, b \in S : RankIn(R, S, a) = RankIn(R, S, b) => a = b
  <2> SUFFICES ASSUME NEW a \in S, NEW b \in S, a # b
               PROVE  RankIn(R, S, a) # RankIn(R, S, b)
    OBVIOUS
  <2>1. <<a, b>> \in R \/ <<b, a>> \in R
    BY DEF Total
  <2>2. RankIn(R, S, a) \in Int /\ RankIn(R, S, b) \in Int
    BY RanksDiffer
  <2> QED BY <2>1, <2>2, RanksDiffer
<1>2. rank \in Bijection(S, taken)
  BY <1>1 DEF Bijection, Injection, Surjection, IsInjective
<1>3. IsFiniteSet(taken) /\ Cardinality(taken) = Cardinality(S)
  <2>1. ExistsBijection(S, taken)
    BY <1>2 DEF ExistsBijection
  <2> QED BY <2>1, FS_Bijection
<1>4. taken \subseteq free
  BY RanksDiffer
<1>5. IsFiniteSet(free) /\ Cardinality(free) = Cardinality(S)
  <2>1. Cardinality(S) \in Nat
    BY FS_CardinalityType
  <2> QED BY <2>1, FS_Interval
<1>6. taken = free
  <2> HIDE DEF taken, free
  <2> QED BY <1>3, <1>4, <1>5, FS_Subset
<1>7. ASSUME NEW i \in 1..Cardinality(S)
      PROVE  \E k \in S : RankIn(R, S, k) = i - 1
  <2>1. Cardinality(S) \in Nat
    BY FS_CardinalityType
  <2>2. i - 1 \in free
    BY <2>1
  <2>3. i - 1 \in taken
    <3> HIDE DEF taken, free
    <3> QED BY <1>6, <2>2
  <2> QED BY <2>3
<1> QED BY <1>7

LEMMA RankedLists ==
  ASSUME NEW S, IsFiniteSet(S), NEW R, Total(R, S),
         NEW s \in [1..Cardinality(S) -> S],
         \A i \in 1..Cardinality(S) : RankIn(R, S, s[i]) = i - 1
  PROVE  Lists(s, S, R)
<1>1. Cardinality(S) \in Nat
  BY FS_CardinalityType
<1>2. s \in Seq(S) /\ Len(s) = Cardinality(S)
  BY <1>1
<1>3. ASSUME NEW k \in S
      PROVE  \E i \in 1..Len(s) : s[i] = k
  <2> DEFINE i == RankIn(R, S, k) + 1
  <2>1. i \in 1..Cardinality(S) /\ RankIn(R, S, k) \in Nat
    BY <1>1, RanksDiffer
  <2>2. s[i] \in S /\ RankIn(R, S, s[i]) = RankIn(R, S, k)
    BY <2>1
  <2>3. s[i] = k
    <3> HIDE DEF i
    <3>1. <<s[i], k>> \notin R /\ <<k, s[i]>> \notin R
      BY <2>1, <2>2, RanksDiffer
    <3> QED BY <2>2, <3>1 DEF Total
  <2> QED BY <1>2, <2>1, <2>3
<1>4. ASSUME NEW i \in 1..Len(s), NEW j \in 1..Len(s), i < j
      PROVE  <<s[i], s[j]>> \in R /\ s[i] # s[j]
  <2>1. /\ s[i] \in S /\ RankIn(R, S, s[i]) = i - 1
        /\ s[j] \in S /\ RankIn(R, S, s[j]) = j - 1
    BY <1>2
  <2>2. s[i] # s[j]
    BY <1>1, <1>2, <1>4, <2>1
  <2>3. <<s[j], s[i]>> \notin R
    BY <1>1, <1>2, <1>4, <2>1, RanksDiffer
  <2> QED BY <2>1, <2>2, <2>3 DEF Total
<1> QED BY <1>2, <1>3, <1>4 DEF Lists

LEMMA ListsAre ==
  ASSUME NEW S, NEW R, NEW s, Lists(s, S, R)
  PROVE  /\ s \in Seq(S) /\ Len(s) \in Nat
         /\ \A i \in 1..Len(s) : s[i] \in S
         /\ \A i, j \in 1..Len(s) : s[i] = s[j] => i = j
         /\ \A k : (\E i \in 1..Len(s) : s[i] = k) <=> k \in S
         /\ ToSet(s) = S
<1>1. s \in Seq(S) /\ Len(s) \in Nat /\ DOMAIN s = 1..Len(s)
  BY LenProperties DEF Lists
<1>2. \A i \in 1..Len(s) : s[i] \in S
  BY <1>1
<1>3. ASSUME NEW i \in 1..Len(s), NEW j \in 1..Len(s), s[i] = s[j]
      PROVE  i = j
  <2>1. ~(i < j) /\ ~(j < i)
    BY <1>3 DEF Lists
  <2> QED BY <2>1
<1>4. \A k : (\E i \in 1..Len(s) : s[i] = k) <=> k \in S
  BY <1>2 DEF Lists
<1>5. ToSet(s) = S
  BY <1>1, <1>4 DEF ToSet
<1> QED BY <1>1, <1>2, <1>3, <1>4, <1>5

\* The orders of the handlers as relations, each total where it is used.
IdOrder(S)    == {e \in S \X S : e[1] < e[2]}
PathOrder(S)  == {e \in S \X S : ByPath(e[1], e[2])}
ItemOrder(S)  == {e \in S \X S : ByItem(e[1], e[2])}
RankOrder(S)  == {e \in S \X S : ByRank(e[1], e[2])}
ScoreOrder(S) == {e \in S \X S : ByScore(e[1], e[2])}
DocumentOrder(S) == {e \in S \X S : ByDocument(e[1], e[2])}

IdSorted(S)    == Sorted(S, <)
PathSorted(S)  == Sorted(S, ByPath)
ItemSorted(S)  == Sorted(S, ByItem)
RankSorted(S)  == Sorted(S, ByRank)
ScoreSorted(S) == Sorted(S, ByScore)
DocumentSorted(S) == Sorted(S, ByDocument)

LEMMA ListedById ==
  ASSUME NEW S, IsFiniteSet(S),
         S \subseteq Nat
  PROVE  Lists(IdSorted(S), S, IdOrder(S))
<1> DEFINE R == IdOrder(S)
<1>1. Total(R, S)
  BY DEF Total, IdOrder
<1>2. \A k \in S : Cardinality({m \in S : m < k}) = RankIn(R, S, k)
  <2>1. \A k \in S : {m \in S : m < k} = {m \in S : <<m, k>> \in R}
    BY DEF IdOrder
  <2> QED BY <2>1 DEF RankIn
<1>3. ASSUME NEW i \in 1..Cardinality(S)
      PROVE  \E k \in S : Cardinality({m \in S : m < k}) = i - 1
  <2> HIDE DEF R
  <2>1. PICK k \in S : RankIn(R, S, k) = i - 1
    BY <1>1, RanksTaken
  <2> QED BY <1>2, <2>1
<1>4. IdSorted(S) \in [1..Cardinality(S) -> S]
  BY <1>3 DEF IdSorted, Sorted
<1>5. \A i \in 1..Cardinality(S) : RankIn(R, S, IdSorted(S)[i]) = i - 1
  <2> HIDE DEF R
  <2> QED BY <1>2, <1>3 DEF IdSorted, Sorted
<1> QED BY <1>1, <1>4, <1>5, RankedLists

LEMMA ListedByPath ==
  ASSUME NEW S, IsFiniteSet(S),
         \A k \in S : k.path \in Nat /\ k.vault \in Nat,
         \A a, b \in S : a.path = b.path /\ a.vault = b.vault => a = b
  PROVE  Lists(PathSorted(S), S, PathOrder(S))
<1> DEFINE R == PathOrder(S)
<1>1. Total(R, S)
  BY DEF Total, PathOrder, ByPath
<1>2. \A k \in S : Cardinality({m \in S : ByPath(m, k)}) = RankIn(R, S, k)
  <2>1. \A k \in S : {m \in S : ByPath(m, k)} = {m \in S : <<m, k>> \in R}
    BY DEF PathOrder
  <2> QED BY <2>1 DEF RankIn
<1>3. ASSUME NEW i \in 1..Cardinality(S)
      PROVE  \E k \in S : Cardinality({m \in S : ByPath(m, k)}) = i - 1
  <2> HIDE DEF R
  <2>1. PICK k \in S : RankIn(R, S, k) = i - 1
    BY <1>1, RanksTaken
  <2> QED BY <1>2, <2>1
<1>4. PathSorted(S) \in [1..Cardinality(S) -> S]
  BY <1>3 DEF PathSorted, Sorted
<1>5. \A i \in 1..Cardinality(S) : RankIn(R, S, PathSorted(S)[i]) = i - 1
  <2> HIDE DEF R
  <2> QED BY <1>2, <1>3 DEF PathSorted, Sorted
<1> QED BY <1>1, <1>4, <1>5, RankedLists

LEMMA ListedByItem ==
  ASSUME NEW S, IsFiniteSet(S),
         \A k \in S : k.path \in Nat /\ k.vault \in Nat /\ k.chunk \in Nat,
         \A a, b \in S : a.chunk = b.chunk /\ a.vault = b.vault => a = b
  PROVE  Lists(ItemSorted(S), S, ItemOrder(S))
<1> DEFINE R == ItemOrder(S)
<1>1. Total(R, S)
  BY DEF Total, ItemOrder, ByItem, ByPath
<1>2. \A k \in S : Cardinality({m \in S : ByItem(m, k)}) = RankIn(R, S, k)
  <2>1. \A k \in S : {m \in S : ByItem(m, k)} = {m \in S : <<m, k>> \in R}
    BY DEF ItemOrder
  <2> QED BY <2>1 DEF RankIn
<1>3. ASSUME NEW i \in 1..Cardinality(S)
      PROVE  \E k \in S : Cardinality({m \in S : ByItem(m, k)}) = i - 1
  <2> HIDE DEF R
  <2>1. PICK k \in S : RankIn(R, S, k) = i - 1
    BY <1>1, RanksTaken
  <2> QED BY <1>2, <2>1
<1>4. ItemSorted(S) \in [1..Cardinality(S) -> S]
  BY <1>3 DEF ItemSorted, Sorted
<1>5. \A i \in 1..Cardinality(S) : RankIn(R, S, ItemSorted(S)[i]) = i - 1
  <2> HIDE DEF R
  <2> QED BY <1>2, <1>3 DEF ItemSorted, Sorted
<1> QED BY <1>1, <1>4, <1>5, RankedLists

LEMMA ListedByRank ==
  ASSUME NEW S, IsFiniteSet(S),
         \A k \in S : k.path \in Nat /\ k.vault \in Nat /\ k.score \in Nat,
         \A a, b \in S : a.path = b.path /\ a.vault = b.vault => a = b
  PROVE  Lists(RankSorted(S), S, RankOrder(S))
<1> DEFINE R == RankOrder(S)
<1>1. Total(R, S)
  BY DEF Total, RankOrder, ByRank, ByPath
<1>2. \A k \in S : Cardinality({m \in S : ByRank(m, k)}) = RankIn(R, S, k)
  <2>1. \A k \in S : {m \in S : ByRank(m, k)} = {m \in S : <<m, k>> \in R}
    BY DEF RankOrder
  <2> QED BY <2>1 DEF RankIn
<1>3. ASSUME NEW i \in 1..Cardinality(S)
      PROVE  \E k \in S : Cardinality({m \in S : ByRank(m, k)}) = i - 1
  <2> HIDE DEF R
  <2>1. PICK k \in S : RankIn(R, S, k) = i - 1
    BY <1>1, RanksTaken
  <2> QED BY <1>2, <2>1
<1>4. RankSorted(S) \in [1..Cardinality(S) -> S]
  BY <1>3 DEF RankSorted, Sorted
<1>5. \A i \in 1..Cardinality(S) : RankIn(R, S, RankSorted(S)[i]) = i - 1
  <2> HIDE DEF R
  <2> QED BY <1>2, <1>3 DEF RankSorted, Sorted
<1> QED BY <1>1, <1>4, <1>5, RankedLists

LEMMA ListedByScore ==
  ASSUME NEW S, IsFiniteSet(S),
         \A k \in S : k.path \in Nat /\ k.vault \in Nat /\ k.score \in Nat /\ k.chunk \in Nat,
         \A a, b \in S : a.path = b.path /\ a.vault = b.vault /\ a.chunk = b.chunk => a = b
  PROVE  Lists(ScoreSorted(S), S, ScoreOrder(S))
<1> DEFINE R == ScoreOrder(S)
<1>1. Total(R, S)
  BY DEF Total, ScoreOrder, ByScore
<1>2. \A k \in S : Cardinality({m \in S : ByScore(m, k)}) = RankIn(R, S, k)
  <2>1. \A k \in S : {m \in S : ByScore(m, k)} = {m \in S : <<m, k>> \in R}
    BY DEF ScoreOrder
  <2> QED BY <2>1 DEF RankIn
<1>3. ASSUME NEW i \in 1..Cardinality(S)
      PROVE  \E k \in S : Cardinality({m \in S : ByScore(m, k)}) = i - 1
  <2> HIDE DEF R
  <2>1. PICK k \in S : RankIn(R, S, k) = i - 1
    BY <1>1, RanksTaken
  <2> QED BY <1>2, <2>1
<1>4. ScoreSorted(S) \in [1..Cardinality(S) -> S]
  BY <1>3 DEF ScoreSorted, Sorted
<1>5. \A i \in 1..Cardinality(S) : RankIn(R, S, ScoreSorted(S)[i]) = i - 1
  <2> HIDE DEF R
  <2> QED BY <1>2, <1>3 DEF ScoreSorted, Sorted
<1> QED BY <1>1, <1>4, <1>5, RankedLists

LEMMA ListedByDocument ==
  ASSUME NEW S, IsFiniteSet(S),
         \A k \in S : k.path \in Nat /\ k.vault \in Nat /\ k.score \in Nat /\ k.text \in Nat,
         \A a, b \in S : a.path = b.path /\ a.vault = b.vault /\ a.text = b.text => a = b
  PROVE  Lists(DocumentSorted(S), S, DocumentOrder(S))
<1> DEFINE R == DocumentOrder(S)
<1>1. Total(R, S)
  BY DEF Total, DocumentOrder, ByDocument
<1>2. \A k \in S : Cardinality({m \in S : ByDocument(m, k)}) = RankIn(R, S, k)
  <2>1. \A k \in S : {m \in S : ByDocument(m, k)} = {m \in S : <<m, k>> \in R}
    BY DEF DocumentOrder
  <2> QED BY <2>1 DEF RankIn
<1>3. ASSUME NEW i \in 1..Cardinality(S)
      PROVE  \E k \in S : Cardinality({m \in S : ByDocument(m, k)}) = i - 1
  <2> HIDE DEF R
  <2>1. PICK k \in S : RankIn(R, S, k) = i - 1
    BY <1>1, RanksTaken
  <2> QED BY <1>2, <2>1
<1>4. DocumentSorted(S) \in [1..Cardinality(S) -> S]
  BY <1>3 DEF DocumentSorted, Sorted
<1>5. \A i \in 1..Cardinality(S) : RankIn(R, S, DocumentSorted(S)[i]) = i - 1
  <2> HIDE DEF R
  <2> QED BY <1>2, <1>3 DEF DocumentSorted, Sorted
<1> QED BY <1>1, <1>4, <1>5, RankedLists

----------------------------------------------------------------------------
(* The states of a request.                                                *)

Tokens  == ({"name"} \X Names) \cup ({"id"} \X Nat) \cup {<<"empty", 0>>}
RowSet  == [status : {"active", "paused", "errored", "gone"}, name : Names \cup {"none"}]
Scope   == [vault : Vaults, status : {"active", "paused", "errored", "gone"},
            entry : Names \cup {"none"}]
Failure == [who : Tokens, code : {"vault_not_found", "vault_search_failed"}]
AccSet  == [skipped : SUBSET Vaults, failed : SUBSET Failure,
            truncated : BOOLEAN, hint : BOOLEAN]

VaultsInv ==
  /\ rows \in [Vaults -> RowSet] /\ listed \in [Vaults -> RowSet]
  /\ live \in [Vaults -> Names \cup {"none"}]
  /\ index \in [Vaults -> Indexes]

UniqueNames(r) == \A v, w \in Vaults :
                     v # w /\ r[v] # NoRow /\ r[w] # NoRow => r[v].name # r[w].name

RequestInv ==
  /\ req \in Requests
  /\ pc \in {"ask", "listed", "search", "done"}
  /\ todo \in Seq(Scope)
  /\ \A i, j \in 1..Len(todo) : todo[i].vault = todo[j].vault => i = j
  /\ acc \in AccSet
  /\ seen \in [Vaults -> {Unread} \cup {<<ix>> : ix \in Indexes}]

\* Nothing is collected before the entries are taken.
StartInv ==
  /\ pc \in {"ask", "listed"} => /\ todo = <<>> /\ reading = <<>> /\ pool = {}
                                 /\ acc = Nothing
                                 /\ \A v \in Vaults : seen[v] = Unread
  /\ pc = "ask" => \A v \in Vaults : listed[v] = NoRow
  /\ pc \in {"listed", "search"} => Validated(req) = NoError

BaseInv == VaultsInv /\ UniqueNames(rows) /\ UniqueNames(listed) /\ RequestInv /\ StartInv

\* The fields of a request that every kind has, or some.
LEMMA RequestIs ==
  ASSUME req \in Requests
  PROVE  /\ req.op \in {"filesystem", "content", "semantic", "get", "debug"}
         /\ req.filter \in Seq(Tokens)
         /\ req.op \in {"filesystem", "content", "semantic"} =>
               req.limit \in Nat /\ req.prefix \in PrefixKinds
         /\ req.op = "semantic" => req.minimum \in Nat /\ req.perDocument \in Nat
         /\ req.op = "get" => req.paths \in Seq(Spellings)
         /\ req.op = "debug" => req.path \in Spellings /\ Len(req.filter) <= 1
<1>1. req \in Queries
  BY RequestsAssumption
<1>2. \A f \in Filters : f \in Seq(Tokens)
  <2>1. NoTokens \in Seq(Tokens)
    BY DEF NoTokens, Tokens
  <2>2. ({"name"} \X Names) \cup ({"id"} \X Nat) \subseteq Tokens
    BY DEF Tokens
  <2>3. Seq(({"name"} \X Names) \cup ({"id"} \X Nat)) \subseteq Seq(Tokens)
    BY <2>2
  <2> QED BY <2>1, <2>3 DEF Filters
<1>3. CASE req \in FilesystemQueries
  BY <1>2, <1>3 DEF FilesystemQueries
<1>4. CASE req \in ContentQueries
  BY <1>2, <1>4 DEF ContentQueries
<1>5. CASE req \in SemanticQueries
  BY <1>2, <1>5 DEF SemanticQueries
<1>6. CASE req \in GetQueries
  BY <1>2, <1>6 DEF GetQueries
<1>7. CASE req \in DebugQueries
  BY <1>2, <1>7 DEF DebugQueries
<1> QED BY <1>1, <1>3, <1>4, <1>5, <1>6, <1>7 DEF Queries

LEMMA TailOfTodo ==
  ASSUME todo \in Seq(Scope), todo # <<>>,
         \A i, j \in 1..Len(todo) : todo[i].vault = todo[j].vault => i = j,
         todo' = Tail(todo)
  PROVE  /\ todo' \in Seq(Scope)
         /\ \A i, j \in 1..Len(todo') : todo'[i].vault = todo'[j].vault => i = j
         /\ Head(todo) \in Scope /\ Head1 \in Vaults
         /\ \A v : (\E i \in 1..Len(todo') : todo'[i].vault = v)
                     <=> (\E i \in 1..Len(todo) : todo[i].vault = v) /\ v # Head1
         /\ \E i \in 1..Len(todo) : todo[i].vault = Head1
<1>1. /\ Len(todo) \in Nat /\ Len(todo) > 0 /\ Head(todo) = todo[1]
      /\ Tail(todo) \in Seq(Scope) /\ Len(Tail(todo)) = Len(todo) - 1
      /\ \A i \in 1..Len(Tail(todo)) : Tail(todo)[i] = todo[i + 1]
  BY HeadTailProperties
<1>2. Head(todo) \in Scope /\ Head1 \in Vaults
  <2>1. Head(todo) \in Scope
    BY <1>1
  <2> QED BY <2>1 DEF Head1, Scope
<1>3. \A i, j \in 1..Len(todo') : todo'[i].vault = todo'[j].vault => i = j
  BY <1>1
<1>4. ASSUME NEW v
      PROVE  (\E i \in 1..Len(todo') : todo'[i].vault = v)
                <=> (\E i \in 1..Len(todo) : todo[i].vault = v) /\ v # Head1
  <2>1. ASSUME NEW i \in 1..Len(todo'), todo'[i].vault = v
        PROVE  (\E k \in 1..Len(todo) : todo[k].vault = v) /\ v # Head1
    <3>1. i + 1 \in 1..Len(todo) /\ todo[i + 1].vault = v /\ 1 \in 1..Len(todo) /\ i + 1 # 1
      BY <1>1, <2>1
    <3> QED BY <1>1, <3>1 DEF Head1
  <2>2. ASSUME NEW i \in 1..Len(todo), todo[i].vault = v, v # Head1
        PROVE  \E k \in 1..Len(todo') : todo'[k].vault = v
    <3>1. i # 1
      BY <1>1, <2>2 DEF Head1
    <3>2. i - 1 \in 1..Len(todo') /\ todo'[i - 1] = todo[i]
      BY <1>1, <3>1
    <3> QED BY <2>2, <3>2
  <2> QED BY <2>1, <2>2
<1>5. \E i \in 1..Len(todo) : todo[i].vault = Head1
  BY <1>1 DEF Head1
<1> QED BY <1>1, <1>2, <1>3, <1>4, <1>5

----------------------------------------------------------------------------
(* The scope of a filter.                                                  *)

LEMMA LeastOf ==
  ASSUME NEW S, S \subseteq Nat, S # {}
  PROVE  Min(S) \in S /\ \A m \in S : Min(S) <= m
<1> DEFINE R == OpToRel(<, Nat)
<1>1. IsWellFoundedOn(R, Nat)
  BY NatLessThanWellFounded
<1>2. PICK n \in S : \A m \in S : ~ (<<m, n>> \in R)
  <2> HIDE DEF R
  <2> QED BY <1>1, WFMin
<1>3. \A m \in S : ~ (m < n)
  BY <1>2 DEF OpToRel
<1>4. \E k \in S : \A m \in S : k <= m
  BY <1>3
<1> QED BY <1>4 DEF Min

\* The token asks for the vault.
AsksFor(t, v) == listed[v] # NoRow /\ t \in {<<"name", listed[v].name>>, <<"id", v>>}

\* The filter does.
Asked(v) == /\ listed[v] # NoRow
            /\ req.filter = <<>> \/ \E i \in DOMAIN req.filter :
                 req.filter[i] \in {<<"name", listed[v].name>>, <<"id", v>>}

LEMMA SelectsOne ==
  ASSUME VaultsInv, UniqueNames(listed), NEW t \in Tokens
  PROVE  /\ \A v \in Vaults : v \in Selects(t) <=> AsksFor(t, v)
         /\ \A v, w \in Selects(t) : v = w
         /\ Selects(t) \subseteq Vaults
<1> DEFINE registered == {v \in Vaults : listed[v] # NoRow}
           named == {v \in registered : t = <<"name", listed[v].name>>}
           ids == {v \in registered : t = <<"id", v>>}
<1>1. Selects(t) = IF named # {} THEN named ELSE ids
  BY DEF Selects
<1>2. CASE t[1] = "name"
  <2>1. ids = {}
    BY <1>2
  <2>2. Selects(t) = named
    BY <1>1, <2>1
  <2> QED BY <1>2, <2>2 DEF AsksFor, UniqueNames
<1>3. CASE t[1] # "name"
  <2>1. named = {}
    BY <1>3
  <2>2. Selects(t) = ids
    BY <1>1, <2>1
  <2> QED BY <1>3, <2>2 DEF AsksFor
<1> QED BY <1>2, <1>3

FilterSorted(S, f) == Sorted(S, LAMBDA v, w : TokenOf(f, v) < TokenOf(f, w))
FilterOrder(S, f)  == {e \in S \X S : TokenOf(f, e[1]) < TokenOf(f, e[2])}

LEMMA ListedByFilter ==
  ASSUME VaultsInv, UniqueNames(listed), NEW f \in Seq(Tokens)
  PROVE  Lists(FilterSorted(Selected(f), f), Selected(f), FilterOrder(Selected(f), f))
<1> DEFINE S == Selected(f)
           R == FilterOrder(S, f)
<1>1. IsFiniteSet(S)
  BY FS_Subset, IdsAssumption DEF Selected
<1>2. ASSUME NEW v \in S
      PROVE  /\ TokenOf(f, v) \in DOMAIN f /\ TokenOf(f, v) \in Nat
             /\ v \in Selects(f[TokenOf(f, v)])
  <2> DEFINE T == {i \in DOMAIN f : v \in Selects(f[i])}
  <2>1. T \subseteq Nat /\ T # {}
    BY DEF Selected
  <2>2. Min(T) \in T
    <3> HIDE DEF T
    <3> QED BY <2>1, LeastOf
  <2> QED BY <2>1, <2>2 DEF TokenOf
<1>3. \A v, w \in S : TokenOf(f, v) = TokenOf(f, w) => v = w
  <2> HIDE DEF S
  <2>1. \A i \in DOMAIN f : f[i] \in Tokens
    OBVIOUS
  <2> QED BY <1>2, <2>1, SelectsOne
<1>4. Total(R, S)
  <2> HIDE DEF S
  <2> QED BY <1>2, <1>3 DEF Total, FilterOrder
<1>5. \A k \in S : Cardinality({m \in S : TokenOf(f, m) < TokenOf(f, k)}) = RankIn(R, S, k)
  <2>1. \A k \in S : {m \in S : TokenOf(f, m) < TokenOf(f, k)} = {m \in S : <<m, k>> \in R}
    BY DEF FilterOrder
  <2> QED BY <2>1 DEF RankIn
<1>6. ASSUME NEW i \in 1..Cardinality(S)
      PROVE  \E k \in S : Cardinality({m \in S : TokenOf(f, m) < TokenOf(f, k)}) = i - 1
  <2> HIDE DEF R, S
  <2>1. PICK k \in S : RankIn(R, S, k) = i - 1
    BY <1>1, <1>4, RanksTaken
  <2> QED BY <1>5, <2>1
<1>7. FilterSorted(S, f) \in [1..Cardinality(S) -> S]
  BY <1>6 DEF FilterSorted, Sorted
<1>8. \A i \in 1..Cardinality(S) : RankIn(R, S, FilterSorted(S, f)[i]) = i - 1
  <2> HIDE DEF R
  <2> QED BY <1>5, <1>6 DEF FilterSorted, Sorted
<1> QED BY <1>1, <1>4, <1>7, <1>8, RankedLists

\* filter_scope: each registered vault that is asked for, once.
LEMMA ScopeListed ==
  ASSUME VaultsInv, UniqueNames(listed), req \in Requests
  PROVE  /\ InScope(req.filter) \in Seq(Vaults)
         /\ \A i, j \in 1..Len(InScope(req.filter)) :
               InScope(req.filter)[i] = InScope(req.filter)[j] => i = j
         /\ \A v \in Vaults :
               (\E i \in 1..Len(InScope(req.filter)) : InScope(req.filter)[i] = v) <=> Asked(v)
<1> DEFINE f == req.filter
           all == {v \in Vaults : listed[v] # NoRow}
<1>1. f \in Seq(Tokens)
  BY RequestIs
<1>2. CASE f = <<>>
  <2>1. InScope(f) = IdSorted(all)
    BY <1>2 DEF InScope, IdSorted, Sorted
  <2>2. Lists(IdSorted(all), all, IdOrder(all))
    <3>1. IsFiniteSet(all) /\ all \subseteq Nat
      BY FS_Subset, IdsAssumption
    <3> HIDE DEF all
    <3> QED BY <3>1, ListedById
  <2>3. \A v \in Vaults : v \in all <=> Asked(v)
    BY <1>2 DEF Asked
  <2>4. all \subseteq Vaults
    OBVIOUS
  <2> HIDE DEF all, f
  <2>5. Lists(InScope(f), all, IdOrder(all))
    BY <2>1, <2>2
  <2>6. InScope(f) \in Seq(Vaults)
    <3>1. InScope(f) \in Seq(all) /\ Seq(all) \subseteq Seq(Vaults)
      BY <2>4, <2>5, ListsAre
    <3> QED BY <3>1
  <2>7. \A i, j \in 1..Len(InScope(f)) : InScope(f)[i] = InScope(f)[j] => i = j
    BY <2>5, ListsAre
  <2>8. \A v \in Vaults : (\E i \in 1..Len(InScope(f)) : InScope(f)[i] = v) <=> Asked(v)
    BY <2>3, <2>5, ListsAre
  <2> QED BY <2>6, <2>7, <2>8 DEF f
<1>3. CASE f # <<>>
  <2> DEFINE sel == Selected(f)
  <2>1. InScope(f) = FilterSorted(sel, f)
    BY <1>3 DEF InScope, FilterSorted, Sorted
  <2>2. Lists(FilterSorted(sel, f), sel, FilterOrder(sel, f))
    BY <1>1, ListedByFilter
  <2>3. \A v \in Vaults : v \in sel <=> Asked(v)
    <3>1. \A i \in DOMAIN f : f[i] \in Tokens
      BY <1>1
    <3> QED BY <1>3, <3>1, SelectsOne DEF Asked, Selected, AsksFor
  <2>4. sel \subseteq Vaults
    BY DEF Selected
  <2> HIDE DEF sel, f
  <2>5. Lists(InScope(f), sel, FilterOrder(sel, f))
    BY <2>1, <2>2
  <2>6. InScope(f) \in Seq(Vaults)
    <3>1. InScope(f) \in Seq(sel) /\ Seq(sel) \subseteq Seq(Vaults)
      BY <2>4, <2>5, ListsAre
    <3> QED BY <3>1
  <2>7. \A i, j \in 1..Len(InScope(f)) : InScope(f)[i] = InScope(f)[j] => i = j
    BY <2>5, ListsAre
  <2>8. \A v \in Vaults : (\E i \in 1..Len(InScope(f)) : InScope(f)[i] = v) <=> Asked(v)
    BY <2>3, <2>5, ListsAre
  <2> QED BY <2>6, <2>7, <2>8 DEF f
<1> QED BY <1>2, <1>3

----------------------------------------------------------------------------
(* The search in one vault.                                                *)

LEMMA LesserOf ==
  ASSUME NEW a \in Nat, NEW b \in Nat
  PROVE  Min({a, b}) = IF a <= b THEN a ELSE b
<1>1. Min({a, b}) \in {a, b} /\ \A m \in {a, b} : Min({a, b}) <= m
  BY LeastOf
<1> QED BY <1>1

LEMMA CutIs ==
  ASSUME NEW S, NEW s \in Seq(S), NEW n \in Nat
  PROVE  /\ Cut(s, n) \in Seq(S) /\ Len(Cut(s, n)) \in Nat
         /\ Len(Cut(s, n)) = IF n <= Len(s) THEN n ELSE Len(s)
         /\ \A i \in 1..Len(Cut(s, n)) : Cut(s, n)[i] = s[i]
<1> DEFINE k == Min({n, Len(s)})
<1>1. k \in 0..Len(s) /\ k = IF n <= Len(s) THEN n ELSE Len(s)
  BY LesserOf
<1>2. Cut(s, n) = SubSeq(s, 1, k)
  BY DEF Cut
<1> HIDE DEF k
<1> QED BY <1>1, <1>2

\* The first n of a list are before the others.
LEMMA CutLists ==
  ASSUME NEW S, IsFiniteSet(S), NEW R, NEW s, Lists(s, S, R), NEW n \in Nat
  PROVE  /\ Cut(s, n) \in Seq(S) /\ Len(Cut(s, n)) \in Nat /\ Len(Cut(s, n)) <= n
         /\ ToSet(Cut(s, n)) = {Cut(s, n)[i] : i \in 1..Len(Cut(s, n))}
         /\ ToSet(Cut(s, n)) \subseteq S /\ IsFiniteSet(ToSet(Cut(s, n)))
         /\ Cardinality(ToSet(Cut(s, n))) = Len(Cut(s, n))
         /\ \A i, j \in 1..Len(Cut(s, n)) :
               i < j => <<Cut(s, n)[i], Cut(s, n)[j]>> \in R /\ Cut(s, n)[i] # Cut(s, n)[j]
         /\ ~ (Len(s) > Len(Cut(s, n))) => ToSet(Cut(s, n)) = S
         /\ ToSet(Cut(s, n)) # S => Len(Cut(s, n)) = n
         /\ \A a \in ToSet(Cut(s, n)), b \in S \ ToSet(Cut(s, n)) : <<a, b>> \in R
<1> DEFINE c == Cut(s, n)
           T == ToSet(c)
<1>1. /\ s \in Seq(S) /\ Len(s) \in Nat
      /\ \A i \in 1..Len(s) : s[i] \in S
      /\ \A i, j \in 1..Len(s) : s[i] = s[j] => i = j
      /\ \A k : (\E i \in 1..Len(s) : s[i] = k) <=> k \in S
  BY ListsAre
<1>2. /\ c \in Seq(S) /\ Len(c) \in Nat
      /\ Len(c) = IF n <= Len(s) THEN n ELSE Len(s)
      /\ \A i \in 1..Len(c) : c[i] = s[i]
  BY <1>1, CutIs
<1>3. Len(c) <= n /\ Len(c) <= Len(s) /\ DOMAIN c = 1..Len(c)
  <2> HIDE DEF c
  <2> QED BY <1>1, <1>2
<1>4. T = {c[i] : i \in 1..Len(c)}
  <2> HIDE DEF c
  <2> QED BY <1>3 DEF ToSet
<1> HIDE DEF c
<1>5. \A k : k \in T <=> \E i \in 1..Len(c) : s[i] = k
  BY <1>2, <1>4
<1> HIDE DEF T
<1>6. T \subseteq S /\ IsFiniteSet(T)
  <2>1. T \subseteq S
    BY <1>1, <1>2, <1>3, <1>5
  <2> QED BY <2>1, FS_Subset
<1>7. \A i, j \in 1..Len(c) : i < j => <<c[i], c[j]>> \in R /\ c[i] # c[j]
  <2>1. \A i \in 1..Len(c) : i \in 1..Len(s)
    BY <1>1, <1>2, <1>3
  <2> QED BY <1>2, <2>1 DEF Lists
<1>8. Cardinality(T) = Len(c)
  <2> DEFINE g == [i \in 1..Len(c) |-> s[i]]
  <2>1. IsFiniteSet(1..Len(c)) /\ Cardinality(1..Len(c)) = Len(c)
    <3>1. Len(c) \in Nat
      BY <1>2
    <3> HIDE DEF g
    <3> QED BY <3>1, FS_Interval, SMTT(30)
  <2>2. g \in Bijection(1..Len(c), T)
    <3>1. 1..Len(c) \subseteq 1..Len(s)
      BY <1>1, <1>2, <1>3
    <3> QED BY <1>1, <1>5, <3>1 DEF Bijection, Injection, Surjection, IsInjective
  <2>3. ExistsBijection(1..Len(c), T)
    BY <2>2 DEF ExistsBijection
  <2> QED BY <2>1, <2>3, FS_Bijection
<1>9. ASSUME ~ (Len(s) > Len(c))
      PROVE  T = S
  <2>1. Len(c) = Len(s)
    BY <1>1, <1>2, <1>3, <1>9
  <2> QED BY <1>1, <1>5, <2>1
<1>10. T # S => Len(c) = n
  <2>1. ASSUME Len(c) # n PROVE T = S
    <3>1. Len(c) = Len(s)
      BY <1>2, <2>1
    <3> QED BY <1>1, <1>5, <3>1
  <2> QED BY <2>1
<1>11. ASSUME NEW a \in T, NEW b \in S \ T
       PROVE  <<a, b>> \in R
  <2>1. PICK i \in 1..Len(c) : s[i] = a
    BY <1>5
  <2>2. PICK j \in 1..Len(s) : s[j] = b
    BY <1>1
  <2>3. ~(j \in 1..Len(c))
    BY <1>5, <1>11, <2>2
  <2>4. i < j /\ i \in 1..Len(s)
    BY <1>1, <1>2, <1>3, <2>1, <2>2, <2>3
  <2> QED BY <2>1, <2>2, <2>4 DEF Lists
<1> QED BY <1>2, <1>3, <1>4, <1>6, <1>7, <1>8, <1>9, <1>10, <1>11 DEF c, T

LEMMA ImageFinite ==
  ASSUME NEW S, IsFiniteSet(S), NEW f, DOMAIN f = S, f = [x \in S |-> f[x]]
  PROVE  IsFiniteSet({f[x] : x \in S})
<1> DEFINE T == {f[x] : x \in S}
<1>1. f \in Surjection(S, T)
  BY DEF Surjection
<1>2. IsFiniteSet(T)
  <2> HIDE DEF T
  <2> QED BY <1>1, FS_Surjection
<1> QED BY <1>2

LEMMA IndexedRows ==
  ASSUME NEW v \in Vaults, NEW ix \in Indexes
  PROVE  /\ IsFiniteSet(FileRows(v, ix)) /\ IsFiniteSet(ChunkRows(v, ix))
         /\ \A k \in FileRows(v, ix) : k = Row(v, k.path, 0, 0) /\ k.path \in DOMAIN ix
         /\ \A k \in ChunkRows(v, ix) :
               /\ k = ChunkRow(v, k.path, k.chunk, ix[k.path][k.chunk])
               /\ k.path \in DOMAIN ix /\ k.chunk \in DOMAIN ix[k.path]
         /\ \A p \in DOMAIN ix : p \in Paths /\ ix[p] \in Seq(Texts)
<1>1. DOMAIN ix \subseteq Paths /\ \A p \in DOMAIN ix : ix[p] \in Seq(Texts)
  BY IndexesAssumption
<1>2. IsFiniteSet(DOMAIN ix)
  BY <1>1, IdsAssumption, FS_Subset
<1>3. IsFiniteSet(FileRows(v, ix))
  <2> DEFINE row == [p \in DOMAIN ix |-> Row(v, p, 0, 0)]
  <2>1. IsFiniteSet({row[p] : p \in DOMAIN ix})
    BY <1>2, ImageFinite
  <2>2. {row[p] : p \in DOMAIN ix} = FileRows(v, ix)
    BY DEF FileRows
  <2> QED BY <2>1, <2>2
<1>4. IsFiniteSet(ChunkRows(v, ix))
  <2> DEFINE of(p) == {ChunkRow(v, p, i, ix[p][i]) : i \in DOMAIN ix[p]}
             part == [p \in DOMAIN ix |-> of(p)]
             parts == {part[p] : p \in DOMAIN ix}
  <2>1. IsFiniteSet(parts)
    <3> HIDE DEF of
    <3> QED BY <1>2, ImageFinite
  <2>2. ASSUME NEW p \in DOMAIN ix
        PROVE  IsFiniteSet(of(p))
    <3>1. IsFiniteSet(DOMAIN ix[p])
      <4>1. Len(ix[p]) \in Nat /\ DOMAIN ix[p] = 1..Len(ix[p])
        BY <1>1
      <4> QED BY <4>1, FS_Interval
    <3> DEFINE row == [i \in DOMAIN ix[p] |-> ChunkRow(v, p, i, ix[p][i])]
    <3>2. IsFiniteSet({row[i] : i \in DOMAIN ix[p]})
      <4> DEFINE D == DOMAIN ix[p]
      <4>1. DOMAIN row = D /\ row = [i \in D |-> row[i]]
        OBVIOUS
      <4> HIDE DEF row
      <4> QED BY <3>1, <4>1, ImageFinite
    <3> QED BY <3>2
  <2>3. IsFiniteSet(UNION parts)
    <3> HIDE DEF of
    <3> QED BY <2>1, <2>2, FS_UNION
  <2>4. UNION parts = ChunkRows(v, ix)
    BY DEF ChunkRows
  <2> QED BY <2>3, <2>4
<1>5. \A k \in FileRows(v, ix) : k = Row(v, k.path, 0, 0) /\ k.path \in DOMAIN ix
  BY DEF FileRows, Row
<1>6. \A k \in ChunkRows(v, ix) :
        /\ k = ChunkRow(v, k.path, k.chunk, ix[k.path][k.chunk])
        /\ k.path \in DOMAIN ix /\ k.chunk \in DOMAIN ix[k.path]
  BY DEF ChunkRows, ChunkRow
<1> QED BY <1>1, <1>3, <1>4, <1>5, <1>6

\* What of the index of a vault matches the request.
Source(r, v, ix) == IF IsSemantic(r) THEN ChunkRows(v, ix)
                 ELSE IF IsRanked(r) THEN RankRows(v, ix) ELSE FileRows(v, ix)
Hits(r, v, ix) ==
  {k \in Source(r, v, ix) : /\ k.path \in Within(r) \cap Matches(r)
                            /\ IsSemantic(r) => k.score >= r.minimum}

LEMMA HitsAre ==
  ASSUME NEW v, NEW ix, NEW k
  PROVE  k \in Hits(req, v, ix) <=>
           /\ k \in Source(req, v, ix)
           /\ k.path \in Within(req) /\ k.path \in Matches(req)
           /\ IsSemantic(req) => k.score >= req.minimum
BY DEF Hits

\* No row is shown twice, and the orders can compare rows.
Comparable(r, S) ==
  /\ \A k \in S : k.vault \in Nat /\ k.path \in Nat /\ k.chunk \in Nat /\ k.score \in Nat
  /\ \A a, b \in S : a.vault = b.vault /\ a.path = b.path /\ a.chunk = b.chunk => a = b
  /\ ~IsSemantic(r) => \A a, b \in S : a.vault = b.vault /\ a.path = b.path => a = b
  /\ IsSemantic(r) => \A k \in S : k.text \in Nat /\ k.score = Score[k.text]

LEMMA SourceIs ==
  ASSUME NEW v \in Vaults, NEW ix \in Indexes
  PROVE  /\ IsFiniteSet(Source(req, v, ix)) /\ Comparable(req, Source(req, v, ix))
         /\ \A k \in Source(req, v, ix) : k.vault = v /\ k.path \in Paths
<1>1. v \in Nat /\ Paths \subseteq Nat
  BY IdsAssumption
<1>2. /\ IsFiniteSet(FileRows(v, ix))
      /\ \A k \in FileRows(v, ix) :
           k.vault = v /\ k.path \in Paths /\ k.chunk \in Nat /\ k.score \in Nat
      /\ \A a, b \in FileRows(v, ix) : a.path = b.path => a = b
  BY IndexedRows DEF Row
<1>3. /\ IsFiniteSet(ChunkRows(v, ix))
      /\ \A k \in ChunkRows(v, ix) :
           /\ k.vault = v /\ k.path \in Paths /\ k.chunk \in Nat /\ k.score \in Nat
           /\ k.text \in Nat /\ k.score = Score[k.text]
      /\ \A a, b \in ChunkRows(v, ix) : a.path = b.path /\ a.chunk = b.chunk => a = b
  <2>1. ASSUME NEW k \in ChunkRows(v, ix)
        PROVE  /\ k.vault = v /\ k.path \in Paths /\ k.chunk \in Nat /\ k.score \in Nat
               /\ k.text \in Nat /\ k.score = Score[k.text]
    <3>1. /\ k = ChunkRow(v, k.path, k.chunk, ix[k.path][k.chunk])
          /\ k.path \in Paths /\ k.chunk \in DOMAIN ix[k.path] /\ ix[k.path] \in Seq(Texts)
      BY IndexedRows
    <3>2. k.chunk \in Nat /\ ix[k.path][k.chunk] \in Texts
      BY <3>1
    <3>3. \A t \in Texts : t \in Nat /\ Score[t] \in Nat
      BY TextsAssumption
    <3>4. /\ k.vault = v /\ k.text = ix[k.path][k.chunk]
          /\ k.score = Score[ix[k.path][k.chunk]]
      BY <3>1 DEF ChunkRow
    <3> QED BY <3>1, <3>2, <3>3, <3>4
  <2> QED BY <2>1, IndexedRows
<1>4. RankRows(v, ix) \subseteq ChunkRows(v, ix) /\ \A k \in RankRows(v, ix) : k.chunk = 1
  BY DEF RankRows
<1>5. IsFiniteSet(RankRows(v, ix))
  BY <1>3, <1>4, FS_Subset
<1> QED BY <1>1, <1>2, <1>3, <1>4, <1>5 DEF Source, Comparable

LEMMA BestIs ==
  ASSUME NEW S, IsFiniteSet(S), NEW n \in Nat, NEW T \in Best(S, n)
  PROVE  /\ T \subseteq S /\ IsFiniteSet(T) /\ Cardinality(T) \in Nat /\ Cardinality(T) <= n
         /\ T # S => Cardinality(T) = n /\ Cardinality(S) > n
         /\ \A a \in T, b \in S \ T : a.score >= b.score
<1>1. T \subseteq S /\ \A a \in T, b \in S \ T : a.score >= b.score
  BY DEF Best
<1>2. Cardinality(T) = Min({n, Cardinality(S)})
  BY DEF Best
<1>3. /\ IsFiniteSet(T) /\ Cardinality(T) \in Nat /\ Cardinality(S) \in Nat
      /\ Cardinality(T) <= Cardinality(S) /\ (Cardinality(T) = Cardinality(S) => T = S)
  BY <1>1, FS_Subset, FS_CardinalityType
<1>4. Cardinality(T) = IF n <= Cardinality(S) THEN n ELSE Cardinality(S)
  BY <1>2, <1>3, LesserOf
<1> QED BY <1>1, <1>3, <1>4

LEMMA CandidatesPositive ==
  ASSUME req \in Requests, IsSemantic(req)
  PROVE  /\ CandidateLimit(req) \in Nat
         /\ ~IsDocument(req) => CandidateLimit(req) = req.limit
<1>1. req.limit \in Nat
  BY RequestIs DEF IsSemantic
<1>2. CASE IsDocument(req)
  <2> DEFINE d == Min({req.limit * Multiplier, CandidateCap})
  <2>1. Multiplier \in Nat /\ CandidateCap \in Nat
    BY DepthAssumption
  <2>2. req.limit * Multiplier \in Nat
    BY <1>1, <2>1
  <2>3. d \in Nat
    <3> DEFINE a == req.limit * Multiplier
    <3>1. Min({a, CandidateCap}) = IF a <= CandidateCap THEN a ELSE CandidateCap
      <4> HIDE DEF a
      <4> QED BY <2>1, <2>2, LesserOf DEF a
    <3> HIDE DEF a
    <3> QED BY <2>1, <2>2, <3>1 DEF a
  <2>4. Max({1, d}) = IF d <= 1 THEN 1 ELSE d
    <3> HIDE DEF d
    <3>1. \E x \in {1, d} : \A y \in {1, d} : x >= y
      BY <2>3
    <3> QED BY <2>3, <3>1 DEF Max
  <2>5. CandidateLimit(req) = Max({1, d})
    BY <1>2 DEF CandidateLimit
  <2> HIDE DEF d
  <2> QED BY <1>2, <2>3, <2>4, <2>5
<1>3. CASE ~IsDocument(req)
  BY <1>1, <1>3 DEF CandidateLimit
<1> QED BY <1>2, <1>3

\* a may stand before b in an answer.
Better(r, a, b) == IF IsSemantic(r) \/ IsRanked(r) THEN b.score <= a.score ELSE ByPath(a, b)

\* A prefix is applied to the nearest neighbours of the whole vault.
Prefixed(r) == IsSemantic(r) /\ r.prefix = "dir"

\* What the search in one vault promises to the merge.
Serves(r, v, ix, found) ==
  /\ found.rows \subseteq Hits(r, v, ix) /\ IsFiniteSet(found.rows)
  /\ found.truncated \in BOOLEAN /\ found.hint \in BOOLEAN
  /\ ~Prefixed(r) /\ ~found.truncated => found.rows = Hits(r, v, ix)
  /\ \A k \in found.rows, m \in Hits(r, v, ix) \ found.rows : Better(r, k, m)
  /\ ~Prefixed(r) /\ found.rows # Hits(r, v, ix) =>
        /\ IsSemantic(r) => Cardinality(found.rows) = CandidateLimit(r)
        /\ ~IsSemantic(r) => Cardinality(found.rows) = r.limit
  /\ IsSemantic(r) /\ found.rows # Hits(r, v, ix) =>
        Cardinality(ChunkRows(v, ix)) > CandidateLimit(r)

LEMMA PathSearchServes ==
  ASSUME req \in Requests, req.op \in {"filesystem", "content"}, ~IsRanked(req),
         NEW v \in Vaults, NEW ix \in Indexes, NEW found \in PathSearch(req, v, ix)
  PROVE  Serves(req, v, ix, found)
<1> DEFINE hits == {k \in FileRows(v, ix) : k.path \in Within(req) \cap Matches(req)}
           s == PathSorted(hits)
<1>1. ~IsSemantic(req) /\ req.limit \in Nat
  BY RequestIs DEF IsSemantic
<1>2. hits = Hits(req, v, ix)
  <2>1. Source(req, v, ix) = FileRows(v, ix)
    BY <1>1 DEF Source
  <2>2. \A k : k \in hits <=> k \in Hits(req, v, ix)
    BY <1>1, <2>1, HitsAre
  <2> HIDE DEF hits
  <2> QED BY <2>2
<1>3. IsFiniteSet(hits) /\ Comparable(req, hits) /\ Cardinality(hits) \in Nat
  <2>1. IsFiniteSet(Source(req, v, ix)) /\ Comparable(req, Source(req, v, ix)) /\ hits \subseteq Source(req, v, ix)
    BY <1>2, SourceIs DEF Hits
  <2> HIDE DEF hits
  <2>2. IsFiniteSet(hits)
    BY <2>1, FS_Subset
  <2> QED BY <2>1, <2>2, FS_CardinalityType DEF Comparable
<1>4. Lists(s, hits, PathOrder(hits))
  <2> HIDE DEF hits
  <2> QED BY <1>1, <1>3, ListedByPath DEF Comparable
<1>5. /\ found.rows = ToSet(Cut(s, req.limit))
      /\ found.truncated \in BOOLEAN /\ found.hint \in BOOLEAN
      /\ found.truncated <=> Cardinality(hits) > req.limit
  <2> DEFINE more == Cardinality(hits) > req.limit
             top == ToSet(Top(hits, ByPath, req.limit))
  <2>1. found = [rows |-> top, truncated |-> more, hint |-> FALSE]
    BY DEF PathSearch
  <2>2. Top(hits, ByPath, req.limit) = Cut(s, req.limit)
    BY DEF Top, PathSorted, Sorted
  <2>3. top = ToSet(Cut(s, req.limit))
    BY <2>2
  <2>4. more \in BOOLEAN
    OBVIOUS
  <2> HIDE DEF more, top
  <2>5. found.truncated = more /\ found.hint = FALSE /\ found.rows = top
    BY <2>1
  <2>6. found.truncated \in BOOLEAN /\ (found.truncated <=> more)
    BY <2>4, <2>5
  <2> QED BY <2>3, <2>5, <2>6 DEF more
<1> HIDE DEF hits, s
<1>6. /\ found.rows \subseteq hits /\ IsFiniteSet(found.rows)
      /\ ~ (Len(s) > Len(Cut(s, req.limit))) => found.rows = hits
      /\ found.rows # hits => Cardinality(found.rows) = req.limit
      /\ \A a \in found.rows, b \in hits \ found.rows : <<a, b>> \in PathOrder(hits)
  <2> DEFINE c == Cut(s, req.limit)
             T == ToSet(c)
             R == PathOrder(hits)
  <2>1. /\ T \subseteq hits /\ IsFiniteSet(T) /\ Cardinality(T) = Len(c)
        /\ ~ (Len(s) > Len(c)) => T = hits
        /\ T # hits => Len(c) = req.limit
        /\ \A a \in T, b \in hits \ T : <<a, b>> \in R
    <3>1. IsFiniteSet(hits) /\ req.limit \in Nat /\ Lists(s, hits, R)
      BY <1>1, <1>3, <1>4
    <3> DEFINE n == req.limit
    <3> HIDE DEF R, n
    <3>2. n \in Nat
      BY <3>1 DEF n
    <3>3. /\ ToSet(Cut(s, n)) \subseteq hits /\ IsFiniteSet(ToSet(Cut(s, n)))
          /\ Cardinality(ToSet(Cut(s, n))) = Len(Cut(s, n))
          /\ ~ (Len(s) > Len(Cut(s, n))) => ToSet(Cut(s, n)) = hits
          /\ ToSet(Cut(s, n)) # hits => Len(Cut(s, n)) = n
          /\ \A a \in ToSet(Cut(s, n)), b \in hits \ ToSet(Cut(s, n)) : <<a, b>> \in R
      BY <3>1, <3>2, CutLists
    <3> QED BY <3>3 DEF n
  <2>2. found.rows = T
    BY <1>5
  <2> HIDE DEF c, T, R
  <2> QED BY <2>1, <2>2 DEF c, R
<1>7. ASSUME ~found.truncated
      PROVE  found.rows = hits
  <2>1. Len(s) = Cardinality(hits) /\ s \in Seq(hits)
    BY <1>4 DEF Lists
  <2>2. Len(Cut(s, req.limit)) = Len(s)
    BY <1>1, <1>3, <1>5, <1>7, <2>1, CutIs
  <2> QED BY <1>3, <1>6, <2>1, <2>2
<1>8. \A k \in found.rows, m \in hits \ found.rows : ByPath(k, m)
  BY <1>6 DEF PathOrder
<1> QED BY <1>1, <1>2, <1>5, <1>6, <1>7, <1>8 DEF Serves, Better

LEMMA RankedSearchServes ==
  ASSUME req \in Requests, IsRanked(req), ~IsSemantic(req),
         NEW v \in Vaults, NEW ix \in Indexes, NEW found \in RankedSearch(req, v, ix)
  PROVE  Serves(req, v, ix, found)
<1> DEFINE hits == {k \in RankRows(v, ix) : k.path \in Within(req)}
<1>1. req.limit \in Nat
  BY RequestIs DEF IsRanked
<1>2. hits = Hits(req, v, ix)
  <2>1. Matches(req) = Paths
    BY DEF Matches
  <2>2. Source(req, v, ix) = RankRows(v, ix)
    BY DEF Source
  <2>3. \A k : k \in hits <=> k \in Hits(req, v, ix)
    BY <2>1, <2>2, HitsAre, SourceIs
  <2> HIDE DEF hits
  <2> QED BY <2>3
<1>3. IsFiniteSet(hits) /\ Comparable(req, hits) /\ Cardinality(hits) \in Nat
  <2>1. IsFiniteSet(Source(req, v, ix)) /\ Comparable(req, Source(req, v, ix)) /\ hits \subseteq Source(req, v, ix)
    BY <1>2, SourceIs DEF Hits
  <2> HIDE DEF hits
  <2>2. IsFiniteSet(hits)
    BY <2>1, FS_Subset
  <2> QED BY <2>1, <2>2, FS_CardinalityType DEF Comparable
<1>4. PICK T \in Best(hits, req.limit) :
        found = [rows |-> T, truncated |-> Cardinality(hits) > req.limit, hint |-> FALSE]
  BY DEF RankedSearch
<1>5. /\ found.rows = T /\ found.truncated \in BOOLEAN /\ found.hint \in BOOLEAN
      /\ found.truncated <=> Cardinality(hits) > req.limit
  <2> DEFINE more == Cardinality(hits) > req.limit
  <2>1. found = [rows |-> T, truncated |-> more, hint |-> FALSE] /\ more \in BOOLEAN
    BY <1>4
  <2> HIDE DEF more
  <2>2. found.truncated = more /\ found.hint = FALSE /\ found.rows = T
    BY <2>1
  <2> QED BY <2>1, <2>2 DEF more
<1> HIDE DEF hits
<1>6. /\ T \subseteq hits /\ IsFiniteSet(T)
      /\ T # hits => Cardinality(T) = req.limit /\ Cardinality(hits) > req.limit
      /\ \A a \in T, b \in hits \ T : a.score >= b.score
  BY <1>1, <1>3, BestIs
<1>7. \A k \in T, m \in hits \ T : Better(req, k, m)
  <2>1. \A k \in T, m \in hits \ T : k.score \in Nat /\ m.score \in Nat /\ k.score >= m.score
    BY <1>3, <1>6 DEF Comparable
  <2> QED BY <2>1 DEF Better
<1> QED BY <1>2, <1>5, <1>6, <1>7 DEF Serves

LEMMA SemanticSearchServes ==
  ASSUME req \in Requests, IsSemantic(req),
         NEW v \in Vaults, NEW ix \in Indexes, NEW found \in SemanticSearch(req, v, ix)
  PROVE  Serves(req, v, ix, found)
<1> DEFINE all == ChunkRows(v, ix)
           n == CandidateLimit(req)
           within(T) == {c \in T : c.path \in Within(req)}
           kept(T) == {c \in within(T) : c.score >= req.minimum}
<1>1. n \in Nat
  BY CandidatesPositive
<1>2. all = Source(req, v, ix) /\ Matches(req) = Paths /\ req.minimum \in Nat
  BY RequestIs DEF Source, Matches, IsSemantic
<1>3. IsFiniteSet(all) /\ \A k \in all : k.score \in Nat /\ k.path \in Paths
  <2> HIDE DEF all
  <2> QED BY <1>2, SourceIs DEF Comparable
<1>4. PICK T \in Best(all, n) :
        found = [rows |-> kept(T), truncated |-> Cardinality(within(T)) >= n,
                 hint |-> kept(T) = {} /\ all = {} /\ DOMAIN ix # {}]
  BY DEF SemanticSearch
<1>5. /\ found.rows = kept(T) /\ found.truncated \in BOOLEAN /\ found.hint \in BOOLEAN
      /\ found.truncated <=> Cardinality(within(T)) >= n
  <2> DEFINE more == Cardinality(within(T)) >= n
             none == kept(T) = {} /\ all = {} /\ DOMAIN ix # {}
  <2>1. /\ found = [rows |-> kept(T), truncated |-> more, hint |-> none]
        /\ more \in BOOLEAN /\ none \in BOOLEAN
    BY <1>4
  <2> HIDE DEF more, none, kept
  <2>2. found.truncated = more /\ found.hint = none /\ found.rows = kept(T)
    BY <2>1
  <2> QED BY <2>1, <2>2 DEF more
<1>6. /\ T \subseteq all /\ IsFiniteSet(T) /\ Cardinality(T) \in Nat
      /\ T # all => Cardinality(T) = n /\ Cardinality(all) > n
      /\ \A a \in T, b \in all \ T : a.score >= b.score
  <2> HIDE DEF all, n
  <2> QED BY <1>1, <1>3, BestIs
<1>7. Hits(req, v, ix) = {k \in all : k.path \in Within(req) /\ k.score >= req.minimum}
  <2>1. \A k : k \in Hits(req, v, ix) <=>
                 k \in all /\ k.path \in Within(req) /\ k.score >= req.minimum
    BY <1>2, <1>3, HitsAre
  <2> HIDE DEF all
  <2> QED BY <2>1
<1>8. kept(T) = {k \in Hits(req, v, ix) : k \in T}
  <2> HIDE DEF all
  <2> QED BY <1>6, <1>7
<1>9. IsFiniteSet(kept(T))
  <2>1. kept(T) \subseteq T
    OBVIOUS
  <2> QED BY <1>6, <2>1, FS_Subset
<1>10. ASSUME NEW k \in kept(T), NEW m \in all \ kept(T), m \in Hits(req, v, ix)
       PROVE  m.score <= k.score
  <2>1. k \in T /\ k.path \in Within(req) /\ k.score >= req.minimum /\ k \in all
    BY <1>6
  <2>2. CASE m \notin T
    <3> HIDE DEF all
    <3> QED BY <1>3, <1>6, <1>10, <2>1, <2>2
  <2>3. CASE m \in T
    <3>1. m.path \in Within(req) /\ ~ (m.score >= req.minimum)
      <4> HIDE DEF all
      <4> QED BY <1>7, <1>10, <2>1, <2>3
    <3> HIDE DEF all
    <3> QED BY <1>2, <1>3, <1>10, <2>1, <3>1
  <2> QED BY <2>2, <2>3
<1>11. ASSUME ~Prefixed(req)
       PROVE  within(T) = T
  <2>1. Within(req) = Paths
    BY <1>11 DEF Prefixed, Within
  <2> HIDE DEF all
  <2> QED BY <1>3, <1>6, <2>1
<1>12. ASSUME ~Prefixed(req), ~found.truncated
       PROVE  kept(T) = Hits(req, v, ix)
  <2>1. ~ (Cardinality(T) >= n)
    BY <1>5, <1>11, <1>12
  <2>2. T = all
    <3> HIDE DEF all, n
    <3> QED BY <1>1, <1>6, <2>1
  <2> QED BY <1>7, <1>8, <2>2
<1>13. ASSUME ~Prefixed(req), kept(T) # Hits(req, v, ix)
       PROVE  Cardinality(kept(T)) = n
  <2>1. T # all
    BY <1>7, <1>8, <1>13
  <2>2. Cardinality(T) = n
    BY <1>6, <2>1
  <2>3. kept(T) = T
    <3>1. PICK m \in Hits(req, v, ix) : m \notin T
      BY <1>8, <1>13
    <3>2. m \in all /\ m.score >= req.minimum
      BY <1>7, <3>1
    <3>3. \A k \in T : k.score >= req.minimum /\ k.path \in Within(req)
      <4>1. \A k \in T : k \in all /\ k.score \in Nat /\ m.score \in Nat /\ k.score >= m.score
        <5> HIDE DEF all
        <5> QED BY <1>3, <1>6, <3>1, <3>2
      <4>2. \A k \in T : k \in within(T)
        BY <1>11, <1>13
      <4> HIDE DEF all
      <4> QED BY <1>2, <3>2, <4>1, <4>2
    <3> QED BY <3>3
  <2> QED BY <2>2, <2>3
<1>14. kept(T) \subseteq Hits(req, v, ix)
  BY <1>8
<1>15. \A k \in kept(T), m \in Hits(req, v, ix) \ kept(T) : Better(req, k, m)
  <2>1. Hits(req, v, ix) \subseteq all
    BY <1>7
  <2> HIDE DEF all, kept
  <2> QED BY <1>10, <2>1 DEF Better
<1>16. ASSUME kept(T) # Hits(req, v, ix)
       PROVE  Cardinality(all) > n
  <2>1. T # all
    BY <1>7, <1>8, <1>16
  <2> QED BY <1>6, <2>1
<1> HIDE DEF kept, within
<1> QED BY <1>5, <1>9, <1>12, <1>13, <1>14, <1>15, <1>16 DEF Serves

LEMMA VaultSearchServes ==
  ASSUME req \in Requests, req.op \notin {"get", "debug"},
         NEW v \in Vaults, NEW ix \in Indexes, NEW found \in VaultSearch(req, v, ix)
  PROVE  Serves(req, v, ix, found)
<1>1. CASE IsSemantic(req)
  <2>1. found \in SemanticSearch(req, v, ix)
    BY <1>1 DEF VaultSearch
  <2> QED BY <1>1, <2>1, SemanticSearchServes
<1>2. CASE ~IsSemantic(req) /\ IsRanked(req)
  <2>1. found \in RankedSearch(req, v, ix)
    BY <1>2 DEF VaultSearch
  <2> QED BY <1>2, <2>1, RankedSearchServes
<1>3. CASE ~IsSemantic(req) /\ ~IsRanked(req)
  <2>1. found \in PathSearch(req, v, ix)
    BY <1>3 DEF VaultSearch
  <2>2. req.op \in {"filesystem", "content"}
    BY <1>3, RequestIs DEF IsSemantic
  <2> QED BY <1>3, <2>1, <2>2, PathSearchServes
<1> QED BY <1>1, <1>2, <1>3

----------------------------------------------------------------------------
(* The states of a request are as they should be.                          *)

\* What the vaults do between two steps of the request, or nothing.
Meanwhile == UNCHANGED <<req, pc, listed, todo, reading, pool, acc, answer, seen>>

LEMMA VaultsMeanwhile ==
  ASSUME VaultsInv, UniqueNames(rows),
         (\E v \in Vaults : RowChanges(v) \/ EntryChanges(v) \/ Reindexed(v)) \/ UNCHANGED vars
  PROVE  Meanwhile /\ VaultsInv' /\ UniqueNames(rows)'
<1>1. CASE UNCHANGED vars
  BY <1>1 DEF vars, Meanwhile, VaultsInv, UniqueNames
<1>2. ASSUME NEW v \in Vaults, RowChanges(v)
      PROVE  Meanwhile /\ VaultsInv' /\ UniqueNames(rows)'
  <2>1. PICK row \in {NoRow} \cup {[rows[v] EXCEPT !.status = s] : s \in {"active", "paused"}}
                        \cup {[rows[v] EXCEPT !.name = n] : n \in Names} :
          /\ row = NoRow \/ \A w \in Vaults \ {v} : rows[w].name # row.name
          /\ rows' = [rows EXCEPT ![v] = row]
    BY <1>2 DEF RowChanges, Changes
  <2>2. row \in RowSet
    <3>1. rows[v] \in RowSet
      BY DEF VaultsInv
    <3> QED BY <3>1 DEF RowSet, NoRow
  <2>3. UNCHANGED <<listed, live, index>> /\ Meanwhile
    BY <1>2 DEF RowChanges, Changes, Meanwhile
  <2> QED BY <2>1, <2>2, <2>3 DEF VaultsInv, UniqueNames
<1>3. ASSUME NEW v \in Vaults, EntryChanges(v)
      PROVE  Meanwhile /\ VaultsInv' /\ UniqueNames(rows)'
  <2>1. PICK e \in {NoEntry, rows[v].name} : live' = [live EXCEPT ![v] = e]
    BY <1>3 DEF EntryChanges, Changes
  <2>2. e \in Names \cup {"none"}
    BY DEF VaultsInv, RowSet, NoEntry
  <2>3. UNCHANGED <<listed, rows, index>> /\ Meanwhile
    BY <1>3 DEF EntryChanges, Changes, Meanwhile
  <2> QED BY <2>1, <2>2, <2>3 DEF VaultsInv, UniqueNames
<1>4. ASSUME NEW v \in Vaults, Reindexed(v)
      PROVE  Meanwhile /\ VaultsInv' /\ UniqueNames(rows)'
  <2>1. PICK ix \in Indexes : index' = [index EXCEPT ![v] = ix]
    BY <1>4 DEF Reindexed, Changes
  <2>2. UNCHANGED <<listed, rows, live>> /\ Meanwhile
    BY <1>4 DEF Reindexed, Changes, Meanwhile
  <2> QED BY <2>1, <2>2 DEF VaultsInv, UniqueNames
<1> QED BY <1>1, <1>2, <1>3, <1>4

LEMMA BaseStart == Init => BaseInv
<1> SUFFICES ASSUME Init PROVE BaseInv
  OBVIOUS
<1>1. VaultsInv
  BY DEF Init, VaultsInv, RowSet, NoRow, NoEntry
<1>2. UniqueNames(rows) /\ UniqueNames(listed)
  BY DEF Init, UniqueNames
<1>3. RequestInv
  <2>1. acc \in AccSet
    BY DEF Init, AccSet, Nothing
  <2>2. todo \in Seq(Scope) /\ \A i, j \in 1..Len(todo) : todo[i].vault = todo[j].vault => i = j
    BY DEF Init
  <2> QED BY <2>1, <2>2 DEF Init, RequestInv
<1>4. StartInv
  BY DEF Init, StartInv
<1> QED BY <1>1, <1>2, <1>3, <1>4 DEF BaseInv

\* One vault less to ask.
LEMMA BaseStepped ==
  ASSUME BaseInv, Asking, NEW a \in AccSet, Step(a),
         UNCHANGED <<rows, live, index, req, pc, listed>>,
         seen' \in [Vaults -> {Unread} \cup {<<ix>> : ix \in Indexes}]
  PROVE  BaseInv'
<1>1. todo' \in Seq(Scope) /\ \A i, j \in 1..Len(todo') : todo'[i].vault = todo'[j].vault => i = j
  BY TailOfTodo DEF BaseInv, RequestInv, Asking, Step
<1>2. VaultsInv' /\ UniqueNames(rows)' /\ UniqueNames(listed)'
  BY DEF BaseInv, VaultsInv, UniqueNames
<1>3. RequestInv'
  BY <1>1 DEF BaseInv, RequestInv, Step
<1>4. StartInv'
  BY DEF BaseInv, StartInv, Asking
<1> QED BY <1>2, <1>3, <1>4 DEF BaseInv

\* Only the answer.
LEMMA BaseReplied ==
  ASSUME BaseInv, pc' \in {"search", "done"}, pc' = "search" => pc = "search",
         UNCHANGED <<rows, live, index, req, listed, todo, acc, seen>>
  PROVE  BaseInv'
BY DEF BaseInv, VaultsInv, UniqueNames, RequestInv, StartInv

LEMMA HeadIs ==
  ASSUME BaseInv, Asking
  PROVE  /\ Head1 \in Vaults /\ index[Head1] \in Indexes /\ Head(todo) \in Scope
         /\ \E i \in 1..Len(todo) : todo[i].vault = Head1
<1>1. /\ Len(todo) \in Nat /\ Len(todo) > 0 /\ Head(todo) = todo[1] /\ Head(todo) \in Scope
  BY HeadTailProperties DEF BaseInv, RequestInv, Asking
<1> QED BY <1>1 DEF BaseInv, VaultsInv, Head1, Scope

LEMMA AccIs ==
  ASSUME acc \in AccSet, NEW v \in Vaults
  PROVE  /\ [acc EXCEPT !.skipped = @ \cup {v}] \in AccSet
         /\ [acc EXCEPT !.failed = @ \cup {[who |-> <<"id", v>>, code |-> "vault_search_failed"]}]
               \in AccSet
<1>1. [who |-> <<"id", v>>, code |-> "vault_search_failed"] \in Failure
  BY IdsAssumption DEF Failure, Tokens
<1> QED BY <1>1 DEF AccSet

\* The vault is still to be asked.
Queued(v) == \E i \in 1..Len(todo) : todo[i].vault = v

LEMMA EntriesTaken ==
  ASSUME BaseInv, TakeEntries
  PROVE  /\ todo' \in Seq(Scope)
         /\ \A i, j \in 1..Len(todo') : todo'[i].vault = todo'[j].vault => i = j
         /\ \A v \in Vaults : Queued(v)' <=> Asked(v)
         /\ acc' \in AccSet /\ acc'.skipped = {} /\ acc'.truncated = FALSE
         /\ acc'.failed = UnknownFailures(req.filter)
<1> DEFINE scope == InScope(req.filter)
           entry(v) == [vault |-> v, status |-> listed[v].status,
                        entry |-> IF listed[v].status = "active" THEN live[v] ELSE NoEntry]
<1>1. /\ scope \in Seq(Vaults)
      /\ \A i, j \in 1..Len(scope) : scope[i] = scope[j] => i = j
      /\ \A v \in Vaults : (\E i \in 1..Len(scope) : scope[i] = v) <=> Asked(v)
  BY ScopeListed DEF BaseInv, RequestInv
<1>2. DOMAIN scope = 1..Len(scope) /\ Len(scope) \in Nat
  BY <1>1
<1>3. todo' = [i \in 1..Len(scope) |-> entry(scope[i])]
  BY <1>2 DEF TakeEntries
<1>4. \A v \in Vaults : entry(v) \in Scope /\ entry(v).vault = v
  BY DEF BaseInv, VaultsInv, RowSet, Scope, NoEntry
<1>5. /\ todo' \in Seq(Scope) /\ Len(todo') = Len(scope)
      /\ \A i \in 1..Len(scope) : todo'[i].vault = scope[i]
  <2>1. \A i \in 1..Len(scope) : scope[i] \in Vaults
    BY <1>1
  <2> HIDE DEF scope, entry
  <2> QED BY <1>2, <1>3, <1>4, <2>1
<1>6. \A i, j \in 1..Len(todo') : todo'[i].vault = todo'[j].vault => i = j
  <2> HIDE DEF scope
  <2> QED BY <1>1, <1>5
<1>7. \A v \in Vaults : Queued(v)' <=> Asked(v)
  <2> HIDE DEF scope
  <2> QED BY <1>1, <1>5 DEF Queued
<1>8. UnknownFailures(req.filter) \subseteq Failure
  <2>1. req.filter \in Seq(Tokens)
    BY RequestIs DEF BaseInv, RequestInv
  <2>2. ToSet(req.filter) \subseteq Tokens
    BY <2>1 DEF ToSet
  <2> QED BY <2>2 DEF UnknownFailures, Failure
<1>9. /\ acc' \in AccSet /\ acc'.skipped = {} /\ acc'.truncated = FALSE
      /\ acc'.failed = UnknownFailures(req.filter)
  BY <1>8 DEF TakeEntries, Nothing, AccSet
<1> QED BY <1>5, <1>6, <1>7, <1>9

LEMMA CandidatesTaken ==
  ASSUME BaseInv, DebugCandidates, Candidates # {}
  PROVE  /\ todo' \in Seq(Scope)
         /\ \A i, j \in 1..Len(todo') : todo'[i].vault = todo'[j].vault => i = j
<1> DEFINE s == IdSorted(Candidates)
           entry(v) == [vault |-> v, status |-> "active", entry |-> live[v]]
           n == Cardinality(Candidates)
<1>1. IsFiniteSet(Candidates) /\ Candidates \subseteq Nat /\ Candidates \subseteq Vaults
  BY IdsAssumption, FS_Subset DEF Candidates
<1>2. Lists(s, Candidates, IdOrder(Candidates))
  BY <1>1, ListedById
<1>3. /\ n \in Nat /\ Len(s) = n /\ \A i \in 1..n : s[i] \in Candidates
      /\ \A i, j \in 1..n : s[i] = s[j] => i = j
  <2> HIDE DEF s
  <2>1. n \in Nat
    BY <1>1, FS_CardinalityType
  <2>2. Len(s) = n
    BY <1>2 DEF Lists
  <2>3. /\ \A i \in 1..Len(s) : s[i] \in Candidates
        /\ \A i, j \in 1..Len(s) : s[i] = s[j] => i = j
    BY <1>2, ListsAre
  <2> QED BY <2>1, <2>2, <2>3
<1>4. todo' = [i \in 1..n |-> entry(s[i])]
  BY DEF DebugCandidates, IdSorted, Sorted
<1>5. \A v \in Vaults : entry(v) \in Scope /\ entry(v).vault = v
  BY DEF BaseInv, VaultsInv, Scope
<1>6. \A i \in 1..n : s[i] \in Vaults
  BY <1>1, <1>3
<1> HIDE DEF s, n, entry
<1>7. /\ todo' \in Seq(Scope) /\ Len(todo') = n
      /\ \A i \in 1..n : todo'[i].vault = s[i]
  BY <1>3, <1>4, <1>5, <1>6
<1> QED BY <1>3, <1>7

\* The vault at the head of todo has been searched.
VaultGives ==
  /\ \E found \in VaultSearch(req, Head1, index[Head1]) :
       /\ Step([acc EXCEPT !.truncated = @ \/ found.truncated, !.hint = @ \/ found.hint])
       /\ pool' = pool \cup found.rows
       /\ seen' = [seen EXCEPT ![Head1] = <<index[Head1]>>]
  /\ UNCHANGED <<pc, answer>>

\* The search in one vault refuses the request, fails, or finds something.
LEMMA SearchEnds ==
  ASSUME SearchVault
  PROVE  \/ /\ Misasked(req) /\ Refuse("invalid_pattern")
            /\ UNCHANGED <<todo, reading, pool, acc, seen>>
         \/ FailVault(Head1) /\ UNCHANGED <<pc, answer, pool, seen>>
         \/ VaultGives
<1>1. CASE Misasked(req) /\ ~Panics(req) /\ ~FailVault(Head1)
  BY <1>1 DEF SearchVault
<1>2. CASE ~ (Misasked(req) /\ ~Panics(req) /\ ~FailVault(Head1))
  BY <1>2 DEF SearchVault, VaultGives
<1> QED BY <1>1, <1>2

LEMMA VaultSearched ==
  ASSUME BaseInv, SearchVault, VaultGives
  PROVE  \E found \in VaultSearch(req, Head1, index[Head1]) :
           /\ Serves(req, Head1, index[Head1], found)
           /\ Step([acc EXCEPT !.truncated = @ \/ found.truncated, !.hint = @ \/ found.hint])
           /\ pool' = pool \cup found.rows
           /\ seen' = [seen EXCEPT ![Head1] = <<index[Head1]>>]
           /\ acc' \in AccSet /\ acc'.skipped = acc.skipped /\ acc'.failed = acc.failed
           /\ acc'.truncated <=> acc.truncated \/ found.truncated
<1>1. PICK found \in VaultSearch(req, Head1, index[Head1]) :
        /\ Step([acc EXCEPT !.truncated = @ \/ found.truncated, !.hint = @ \/ found.hint])
        /\ pool' = pool \cup found.rows
        /\ seen' = [seen EXCEPT ![Head1] = <<index[Head1]>>]
  BY DEF VaultGives
<1>2. Serves(req, Head1, index[Head1], found)
  <2>1. req \in Requests /\ req.op \notin {"get", "debug"} /\ Asking
    BY DEF BaseInv, RequestInv, SearchVault
  <2> QED BY <2>1, HeadIs, VaultSearchServes
<1>3. /\ acc' \in AccSet /\ acc'.skipped = acc.skipped /\ acc'.failed = acc.failed
      /\ acc'.truncated <=> acc.truncated \/ found.truncated
  <2> DEFINE t == acc.truncated \/ found.truncated
             h == acc.hint \/ found.hint
  <2>1. t \in BOOLEAN /\ h \in BOOLEAN
    OBVIOUS
  <2>2. acc' = [[acc EXCEPT !.truncated = t] EXCEPT !.hint = h]
    BY <1>1 DEF Step
  <2> HIDE DEF t, h
  <2>3. acc \in AccSet
    BY DEF BaseInv, RequestInv
  <2>4. acc' \in AccSet /\ acc'.skipped = acc.skipped /\ acc'.failed = acc.failed /\ acc'.truncated = t
    BY <2>1, <2>2, <2>3 DEF AccSet
  <2>5. acc'.truncated <=> t
    BY <2>4
  <2> QED BY <2>4, <2>5 DEF t
<1> QED BY <1>1, <1>2, <1>3

LEMMA BaseStep == BaseInv /\ [Next]_vars => BaseInv'
<1> SUFFICES ASSUME BaseInv, [Next]_vars
             PROVE  BaseInv'
  OBVIOUS
<1> DEFINE Seens == [Vaults -> {Unread} \cup {<<ix>> : ix \in Indexes}]
<1>1. seen \in Seens /\ acc \in AccSet
  BY DEF BaseInv, RequestInv
<1>2. Asking => [seen EXCEPT ![Head1] = <<index[Head1]>>] \in Seens
  BY <1>1, HeadIs
<1> HIDE DEF Seens
<1>3. CASE ListRows
  <2>1. UNCHANGED <<rows, live, index, req, todo, reading, pool, acc, seen>>
    BY <1>3 DEF ListRows, envVars
  <2>2. CASE Validated(req) = "none"
    <3>1. listed' = rows /\ pc' = "listed" /\ pc = "ask"
      BY <1>3, <2>2 DEF ListRows
    <3> QED BY <2>1, <2>2, <3>1
        DEF BaseInv, VaultsInv, UniqueNames, RequestInv, StartInv, NoError
  <2>3. CASE Validated(req) # "none"
    <3>1. listed' = listed /\ pc' = "done"
      BY <1>3, <2>3 DEF ListRows, Refuse, Reply
    <3> QED BY <2>1, <3>1, BaseReplied
  <2> QED BY <2>2, <2>3
<1>4. CASE TakeEntries
  <2>1. UNCHANGED <<rows, live, index, req, listed, pool, seen>> /\ pc' = "search" /\ pc = "listed"
    BY <1>4 DEF TakeEntries, envVars
  <2>2. /\ todo' \in Seq(Scope)
        /\ \A i, j \in 1..Len(todo') : todo'[i].vault = todo'[j].vault => i = j
        /\ acc' \in AccSet
    BY <1>4, EntriesTaken
  <2>3. RequestInv'
    BY <2>1, <2>2 DEF BaseInv, RequestInv
  <2> QED BY <2>1, <2>3 DEF BaseInv, VaultsInv, UniqueNames, StartInv
<1>5. CASE DebugCandidates
  <2>1. UNCHANGED <<rows, live, index, req, listed, pool, acc, seen>> /\ pc = "listed"
    BY <1>5 DEF DebugCandidates, envVars
  <2>2. CASE Candidates = {}
    <3>1. todo' = todo /\ pc' = "done"
      BY <1>5, <2>2 DEF DebugCandidates, Refuse, Reply
    <3> QED BY <2>1, <3>1, BaseReplied
  <2>3. CASE Candidates # {}
    <3>1. /\ todo' \in Seq(Scope)
          /\ \A i, j \in 1..Len(todo') : todo'[i].vault = todo'[j].vault => i = j
      BY <1>5, <2>3, CandidatesTaken
    <3>2. pc' = "search"
      BY <1>5, <2>3 DEF DebugCandidates
    <3>3. RequestInv'
      BY <2>1, <3>1, <3>2 DEF BaseInv, RequestInv
    <3> QED BY <2>1, <3>2, <3>3 DEF BaseInv, VaultsInv, UniqueNames, StartInv
  <2> QED BY <2>2, <2>3
<1>6. CASE PassVault
  <2>1. Asking /\ UNCHANGED <<rows, live, index, req, pc, listed, seen>>
    BY <1>6 DEF PassVault, envVars
  <2>2. \E a \in AccSet : Step(a)
    BY <1>1, <1>6, <2>1, HeadIs, AccIs DEF PassVault, SkipVault, FailVault
  <2> QED BY <1>1, <2>1, <2>2, BaseStepped DEF Seens
<1>7. CASE SearchVault
  <2>1. Asking /\ UNCHANGED <<rows, live, index, req, listed>>
    BY <1>7 DEF SearchVault, envVars
  <2>2. CASE Refuse("invalid_pattern") /\ UNCHANGED <<todo, acc, seen>>
    <3>1. pc' = "done"
      BY <2>2 DEF Refuse, Reply
    <3> QED BY <2>1, <2>2, <3>1, BaseReplied
  <2>3. CASE FailVault(Head1) /\ UNCHANGED <<pc, seen>>
    <3>1. FailVault(Head1) /\ UNCHANGED <<seen, pc>>
      BY <2>3
    <3>2. \E a \in AccSet : Step(a)
      BY <1>1, <2>1, <3>1, HeadIs, AccIs DEF FailVault
    <3> QED BY <1>1, <2>1, <3>1, <3>2, BaseStepped DEF Seens
  <2>4. CASE VaultGives
    <3>1. PICK found \in VaultSearch(req, Head1, index[Head1]) :
            /\ Step([acc EXCEPT !.truncated = @ \/ found.truncated, !.hint = @ \/ found.hint])
            /\ seen' = [seen EXCEPT ![Head1] = <<index[Head1]>>]
            /\ acc' \in AccSet
      BY <1>7, <2>4, VaultSearched
    <3>2. Step(acc')
      BY <3>1 DEF Step
    <3>3. pc' = pc
      BY <2>4 DEF VaultGives
    <3>4. seen' \in Seens
      BY <1>2, <2>1, <3>1
    <3>5. \E a \in AccSet : Step(a)
      BY <3>1, <3>2
    <3> QED BY <2>1, <3>3, <3>4, <3>5, BaseStepped DEF Seens
  <2> QED BY <1>7, <2>2, <2>3, <2>4, SearchEnds
<1>8. CASE GetPath
  <2>1. Asking /\ UNCHANGED <<rows, live, index, req, pc, listed>>
    BY <1>8 DEF GetPath, envVars
  <2>2. CASE Len(reading) + 1 = Len(req.paths)
    <3>1. Step(acc) /\ seen' \in Seens
      BY <1>2, <1>8, <2>1, <2>2 DEF GetPath
    <3> QED BY <1>1, <2>1, <3>1, BaseStepped DEF Seens
  <2>3. CASE Len(reading) + 1 # Len(req.paths)
    <3>1. UNCHANGED <<todo, acc, seen>>
      BY <1>8, <2>3 DEF GetPath
    <3> QED BY <2>1, <3>1, BaseReplied DEF Asking
  <2> QED BY <2>2, <2>3
<1>9. CASE VaultFails
  <2>1. Asking /\ UNCHANGED <<rows, live, index, req, pc, listed, seen>>
    BY <1>9 DEF VaultFails, Faulty, envVars
  <2>2. \E a \in AccSet : Step(a)
    BY <1>1, <1>9, <2>1, HeadIs, AccIs DEF VaultFails, FailVault
  <2> QED BY <1>1, <2>1, <2>2, BaseStepped DEF Seens
<1>10. CASE ListFails \/ EmbedderDown \/ Merge \/ DebugFails \/ DebugAnswer
  <2>1. UNCHANGED <<rows, live, index, req, listed, todo, acc, seen>> /\ pc' = "done"
    BY <1>10 DEF ListFails, EmbedderDown, Merge, DebugFails, DebugAnswer, Refuse, Reply, envVars
  <2> QED BY <2>1, BaseReplied
<1>11. CASE DebugFile
  <2>1. Asking /\ UNCHANGED <<rows, live, index, req, pc, listed>> /\ seen' \in Seens
    BY <1>2, <1>11 DEF DebugFile, envVars
  <2>2. CASE Wanted \in DOMAIN index[Head1]
    <3>1. UNCHANGED <<todo, acc>>
      BY <1>11, <2>2 DEF DebugFile
    <3>2. pc = "search"
      BY <2>1 DEF Asking
    <3> QED BY <2>1, <3>1, <3>2 DEF BaseInv, VaultsInv, UniqueNames, RequestInv, StartInv, Seens
  <2>3. CASE Wanted \notin DOMAIN index[Head1]
    <3>1. Step(acc)
      BY <1>11, <2>3 DEF DebugFile
    <3> QED BY <1>1, <2>1, <3>1, BaseStepped DEF Seens
  <2> QED BY <2>2, <2>3
<1>12. CASE DebugChunks
  <2>1. Asking /\ UNCHANGED <<rows, live, index, req, pc, listed, seen>> /\ Step(acc)
    BY <1>12 DEF DebugChunks, envVars
  <2> QED BY <1>1, <2>1, BaseStepped DEF Seens
<1>13. CASE (\E v \in Vaults : RowChanges(v) \/ EntryChanges(v) \/ Reindexed(v)) \/ UNCHANGED vars
  <2>1. Meanwhile /\ VaultsInv' /\ UniqueNames(rows)'
    BY <1>13, VaultsMeanwhile DEF BaseInv
  <2> QED BY <2>1 DEF Meanwhile, BaseInv, UniqueNames, RequestInv, StartInv
<1> QED BY <1>3, <1>4, <1>5, <1>6, <1>7, <1>8, <1>9, <1>10, <1>11, <1>12, <1>13 DEF Next

LEMMA DoneStays ==
  ASSUME pc = "done", [Next]_vars
  PROVE  Meanwhile
BY DEF Next, vars, Meanwhile, ListRows, ListFails, TakeEntries, PassVault, SearchVault, GetPath, VaultFails,
       EmbedderDown, Merge, DebugCandidates, DebugFile, DebugChunks, DebugFails, DebugAnswer,
       Faulty, Asking, RowChanges, EntryChanges, Reindexed, Changes

----------------------------------------------------------------------------
(* What the request answers with.                                          *)

\* An answer without an error comes from the merge, after all vaults.
RepliedInv ==
  /\ pc = "done" /\ answer.error = NoError => Validated(req) = NoError
  /\ Searched => todo = <<>> /\ answer = Respond(req, pool, acc)

LEMMA RefusalIs ==
  ASSUME NEW e, Refuse(e)
  PROVE  answer'.error = e /\ pc' = "done"
BY DEF Refuse, Reply, NoAnswer

LEMMA NeitherBefore == Init => RepliedInv /\ OneVaultFailsAlone
BY DEF Init, RepliedInv, Searched, Done, OneVaultFailsAlone

LEMMA RepliedStep ==
  ASSUME BaseInv, RepliedInv, OneVaultFailsAlone, [Next]_vars
  PROVE  RepliedInv' /\ OneVaultFailsAlone'
<1>1. CASE pc = "done"
  <2>1. Meanwhile
    BY <1>1, DoneStays
  <2> QED BY <2>1 DEF Meanwhile, RepliedInv, OneVaultFailsAlone, Searched, Done, Answered
<1>2. CASE pc' # "done"
  BY <1>2 DEF RepliedInv, OneVaultFailsAlone, Searched, Done
<1>3. CASE pc # "done" /\ pc' = "done"
  <2>1. ASSUME NEW e, Refuse(e), req' = req, e # NoError,
               \/ req.op = "debug" \/ (IsSemantic(req) /\ e = "embedding_unavailable")
               \/ Validated(req) # NoError \/ Misasked(req)
        PROVE  RepliedInv' /\ OneVaultFailsAlone'
    <3>1. answer'.error = e
      BY <2>1, RefusalIs
    <3> QED BY <2>1, <3>1 DEF RepliedInv, OneVaultFailsAlone, Searched, Done
  <2>2. CASE ListRows
    <3>1. Validated(req) # "none" /\ Refuse(Validated(req)) /\ req' = req
      BY <1>3, <2>2 DEF ListRows
    <3> QED BY <2>1, <3>1 DEF NoError
  <2>12. ASSUME NEW e, Refuse(e), req' = req, e # NoError, req.op = "debug"
         PROVE  RepliedInv' /\ OneVaultFailsAlone'
    <3>1. answer'.error = e
      BY <2>12, RefusalIs
    <3> QED BY <2>12, <3>1 DEF RepliedInv, OneVaultFailsAlone, Searched, Done
  <2>3. CASE TakeEntries \/ PassVault \/ GetPath \/ VaultFails \/ DebugFile \/ DebugChunks
    BY <1>3, <2>3 DEF TakeEntries, PassVault, GetPath, VaultFails, DebugFile, DebugChunks
  <2>4. CASE SearchVault
    <3>1. Misasked(req) /\ Refuse("invalid_pattern") /\ req' = req
      BY <1>3, <2>4, SearchEnds DEF SearchVault, VaultGives
    <3> QED BY <2>1, <3>1 DEF NoError
  <2>5. CASE EmbedderDown
    <3>1. Refuse("embedding_unavailable") /\ req' = req /\ IsSemantic(req)
      BY <2>5 DEF EmbedderDown
    <3> QED BY <2>1, <3>1 DEF NoError
  <2>6. CASE Merge
    <3>1. /\ answer' = Respond(req, pool, acc) /\ todo = <<>> /\ pc = "search"
          /\ UNCHANGED <<req, pool, acc, todo>>
      BY <2>6 DEF Merge, Reply
    <3>2. answer'.error = NoError
      BY <3>1 DEF Respond
    <3>3. Validated(req) = NoError
      BY <3>1 DEF BaseInv, StartInv
    <3>4. Respond(req, pool, acc)' = Respond(req, pool, acc)
      BY <3>1
    <3> QED BY <3>1, <3>2, <3>3, <3>4 DEF RepliedInv, OneVaultFailsAlone
  <2>7. CASE DebugCandidates
    <3>1. Refuse("vault_not_found") /\ req' = req /\ req.op = "debug"
      BY <1>3, <2>7 DEF DebugCandidates
    <3> QED BY <2>12, <3>1 DEF NoError
  <2>8. CASE DebugFails
    <3>1. Refuse("debug_chunks_failed") /\ req' = req /\ req.op = "debug"
      BY <2>8 DEF DebugFails
    <3> QED BY <2>12, <3>1 DEF NoError
  <2>9. CASE DebugAnswer
    <3>1. req' = req /\ req.op = "debug" /\ Validated(req) = NoError
      BY <2>9 DEF DebugAnswer, BaseInv, StartInv
    <3> QED BY <3>1 DEF RepliedInv, OneVaultFailsAlone, Searched, Done
  <2>10. CASE (\E v \in Vaults : RowChanges(v) \/ EntryChanges(v) \/ Reindexed(v)) \/ UNCHANGED vars
    <3>1. pc' = pc
      BY <2>10, VaultsMeanwhile DEF Meanwhile, BaseInv
    <3> QED BY <1>3, <3>1
  <2>11. CASE ListFails
    <3>1. /\ Refuse("registry_corrupt") /\ UNCHANGED <<req, listed, seen>>
          /\ \A v \in Vaults : listed[v] = NoRow /\ seen[v] = Unread
      BY <2>11 DEF ListFails, BaseInv, StartInv
    <3>2. answer'.error = "registry_corrupt"
      BY <3>1, RefusalIs
    <3>3. OneVaultFailsAlone'
      BY <3>1, <3>2 DEF OneVaultFailsAlone, Answered
    <3> QED BY <3>2, <3>3 DEF RepliedInv, Searched, Done, NoError
  <2> QED BY <2>2, <2>3, <2>4, <2>5, <2>6, <2>7, <2>8, <2>9, <2>10, <2>11 DEF Next
<1> QED BY <1>1, <1>2, <1>3

----------------------------------------------------------------------------
(* Every vault has one outcome.                                            *)

\* A vault that is asked for is queued, searched, skipped or failed, and only
\* one of these; the others are none.
OutcomeOf(v) ==
  /\ Asked(v) <=> Queued(v) \/ seen[v] # Unread \/ v \in acc.skipped \/ Told(v) \in acc.failed
  /\ Queued(v) => seen[v] = Unread /\ v \notin acc.skipped /\ Told(v) \notin acc.failed
  /\ seen[v] # Unread => v \notin acc.skipped /\ Told(v) \notin acc.failed
  /\ v \in acc.skipped => Told(v) \notin acc.failed

\* Nobody answers to the token, and that is reported.
TokenTold(t) ==
  \/ [who |-> t, code |-> "vault_not_found"] \in acc.failed
  \/ \E v \in Vaults : AsksFor(t, v)

Searching == req.op # "debug" /\ (pc = "search" \/ Searched)

OutcomeInv ==
  Searching => /\ \A v \in Vaults : OutcomeOf(v)
               /\ \A i \in DOMAIN req.filter : TokenTold(req.filter[i])

LEMMA OutcomesTaken ==
  ASSUME BaseInv, TakeEntries
  PROVE  OutcomeInv'
<1>1. /\ \A v \in Vaults : Queued(v)' <=> Asked(v)
      /\ acc' \in AccSet /\ acc'.skipped = {} /\ acc'.failed = UnknownFailures(req.filter)
  BY EntriesTaken
<1>2. UNCHANGED <<listed, req, seen>> /\ \A v \in Vaults : seen[v] = Unread
  BY DEF TakeEntries, BaseInv, StartInv
<1>3. \A v \in Vaults : Told(v) \notin acc'.failed
  BY <1>1 DEF UnknownFailures, Told
<1>4. ASSUME NEW v \in Vaults
      PROVE  OutcomeOf(v)'
  <2>1. Asked(v)' <=> Asked(v)
    BY <1>2 DEF Asked
  <2>2. Told(v)' = Told(v)
    BY DEF Told
  <2> QED BY <1>1, <1>2, <1>3, <2>1, <2>2 DEF OutcomeOf
<1>5. ASSUME NEW i \in DOMAIN req.filter
      PROVE  TokenTold(req.filter[i])'
  <2>1. req.filter[i] \in Tokens /\ req.filter[i] \in ToSet(req.filter)
    BY RequestIs DEF BaseInv, RequestInv, ToSet
  <2>2. CASE Selects(req.filter[i]) = {}
    <3>1. [who |-> req.filter[i], code |-> "vault_not_found"] \in acc'.failed
      BY <1>1, <2>1, <2>2 DEF UnknownFailures
    <3> QED BY <1>2, <3>1 DEF TokenTold
  <2>3. CASE Selects(req.filter[i]) # {}
    <3>1. \E v \in Vaults : AsksFor(req.filter[i], v)
      BY <2>1, <2>3, SelectsOne DEF BaseInv
    <3> QED BY <1>2, <3>1 DEF TokenTold, AsksFor
  <2> QED BY <2>2, <2>3
<1> QED BY <1>2, <1>4, <1>5 DEF OutcomeInv

\* The head of todo gets one outcome.
LEMMA OutcomesStepped ==
  ASSUME BaseInv, OutcomeInv, req.op # "debug", Asking, todo' = Tail(todo),
         UNCHANGED <<req, listed, pc>>, acc.failed \subseteq acc'.failed,
         \A v \in Vaults \ {Head1} : /\ seen'[v] = seen[v]
                                     /\ v \in acc'.skipped <=> v \in acc.skipped
                                     /\ Told(v) \in acc'.failed <=> Told(v) \in acc.failed,
         \/ /\ seen'[Head1] # Unread
            /\ acc'.skipped = acc.skipped /\ acc'.failed = acc.failed
         \/ /\ seen'[Head1] = seen[Head1]
            /\ Head1 \in acc'.skipped /\ acc'.failed = acc.failed
         \/ /\ seen'[Head1] = seen[Head1]
            /\ acc'.skipped = acc.skipped /\ Told(Head1) \in acc'.failed
  PROVE  OutcomeInv'
<1>1. Head1 \in Vaults /\ Queued(Head1)
  BY HeadIs DEF Queued
<1>2. \A v \in Vaults : Queued(v)' <=> Queued(v) /\ v # Head1
  BY TailOfTodo DEF BaseInv, RequestInv, Asking, Queued
<1>3. \A v \in Vaults : OutcomeOf(v)
  BY DEF OutcomeInv, Searching, Asking
<1>4. ASSUME NEW v \in Vaults
      PROVE  OutcomeOf(v)'
  <2>1. (Asked(v)' <=> Asked(v)) /\ Told(v)' = Told(v)
    BY DEF Asked, Told
  <2>2. CASE v = Head1
    BY <1>1, <1>2, <1>3, <2>1, <2>2 DEF OutcomeOf
  <2>3. CASE v # Head1
    BY <1>2, <1>3, <2>1, <2>3 DEF OutcomeOf
  <2> QED BY <2>2, <2>3
<1>5. \A i \in DOMAIN req.filter : TokenTold(req.filter[i])'
  BY DEF OutcomeInv, Searching, Asking, TokenTold, AsksFor
<1> QED BY <1>4, <1>5 DEF OutcomeInv

LEMMA OutcomeStep == BaseInv /\ RepliedInv /\ OutcomeInv /\ [Next]_vars => OutcomeInv'
<1> SUFFICES ASSUME BaseInv, RepliedInv, OutcomeInv, [Next]_vars
             PROVE  OutcomeInv'
  OBVIOUS
<1>1. acc \in AccSet
  BY DEF BaseInv, RequestInv
<1>2. ASSUME ~Searching'
      PROVE  OutcomeInv'
  BY <1>2 DEF OutcomeInv
<1>3. ASSUME Meanwhile
      PROVE  OutcomeInv'
  BY <1>3 DEF Meanwhile, OutcomeInv, Searching, Searched, Done, OutcomeOf, TokenTold, AsksFor,
              Asked, Queued, Told
<1>4. ASSUME UNCHANGED <<req, listed, todo, acc, seen>>, pc = "search", req.op # "debug"
      PROVE  OutcomeInv'
  BY <1>4 DEF OutcomeInv, Searching, OutcomeOf, TokenTold, AsksFor, Asked, Queued, Told
<1>5. ASSUME FailVault(Head1), Asking, req.op # "debug", UNCHANGED <<req, listed, pc, seen>>
      PROVE  OutcomeInv'
  <2>1. /\ todo' = Tail(todo) /\ acc'.skipped = acc.skipped
        /\ acc'.failed = acc.failed \cup {Told(Head1)}
    BY <1>1, <1>5 DEF FailVault, Step, Told, AccSet
  <2>2. \A v \in Vaults \ {Head1} : Told(v) # Told(Head1)
    BY DEF Told
  <2> QED BY <1>5, <2>1, <2>2, OutcomesStepped
<1>6. ASSUME Asking, req.op # "debug", todo' = Tail(todo), UNCHANGED <<req, listed, pc>>,
             acc'.skipped = acc.skipped, acc'.failed = acc.failed,
             seen' = [seen EXCEPT ![Head1] = <<index[Head1]>>]
      PROVE  OutcomeInv'
  <2>1. seen'[Head1] # Unread /\ \A v \in Vaults \ {Head1} : seen'[v] = seen[v]
    <3>1. seen'[Head1] = <<index[Head1]>> /\ \A v \in Vaults \ {Head1} : seen'[v] = seen[v]
      BY <1>6, HeadIs DEF BaseInv, RequestInv
    <3> QED BY <3>1 DEF Unread
  <2> QED BY <1>6, <2>1, OutcomesStepped
<1>7. CASE ListRows \/ ListFails \/ EmbedderDown \/ DebugFails \/ DebugAnswer \/ DebugCandidates \/ DebugFile
           \/ DebugChunks
  <2>1. CASE EmbedderDown
    <3>1. answer'.error = "embedding_unavailable" /\ pc' = "done"
      BY <2>1, RefusalIs DEF EmbedderDown
    <3> QED BY <1>2, <3>1 DEF Searching, Searched, Done, NoError
  <2>2. CASE DebugFails \/ DebugAnswer \/ DebugCandidates \/ DebugFile \/ DebugChunks
    <3>1. req' = req /\ req.op = "debug"
      BY <2>2 DEF DebugFails, DebugAnswer, DebugCandidates, DebugFile, DebugChunks
    <3> QED BY <1>2, <3>1 DEF Searching
  <2>3. CASE ListRows
    <3>1. CASE Validated(req) = "none"
      <4>1. pc' = "listed"
        BY <2>3, <3>1 DEF ListRows
      <4> QED BY <1>2, <4>1 DEF Searching, Searched, Done
    <3>2. CASE Validated(req) # "none"
      <4>1. answer'.error = Validated(req) /\ pc' = "done"
        BY <2>3, <3>2, RefusalIs DEF ListRows
      <4> QED BY <1>2, <3>2, <4>1 DEF Searching, Searched, Done, NoError
    <3> QED BY <3>1, <3>2
  <2>4. CASE ListFails
    <3>1. answer'.error = "registry_corrupt" /\ pc' = "done"
      BY <2>4, RefusalIs DEF ListFails
    <3> QED BY <1>2, <3>1 DEF Searching, Searched, Done, NoError
  <2> QED BY <1>7, <2>1, <2>2, <2>3, <2>4
<1>8. CASE TakeEntries
  BY <1>8, OutcomesTaken
<1>9. CASE PassVault
  <2>1. Asking /\ UNCHANGED <<req, listed, pc, seen>>
    BY <1>9 DEF PassVault
  <2>2. CASE req.op = "debug"
    BY <1>2, <2>1, <2>2 DEF Searching
  <2>3. CASE req.op # "debug" /\ FailVault(Head1)
    BY <1>5, <2>1, <2>3
  <2>4. CASE req.op # "debug" /\ SkipVault(Head1)
    <3>1. /\ todo' = Tail(todo) /\ acc'.failed = acc.failed
          /\ acc'.skipped = acc.skipped \cup {Head1}
      BY <1>1, <2>4 DEF SkipVault, Step, AccSet
    <3> QED BY <2>1, <2>4, <3>1, OutcomesStepped
  <2> QED BY <1>9, <2>2, <2>3, <2>4 DEF PassVault
<1>10. CASE SearchVault
  <2>1. Asking /\ UNCHANGED <<req, listed>> /\ req.op # "debug"
    BY <1>10 DEF SearchVault
  <2>2. CASE Refuse("invalid_pattern")
    <3>1. answer'.error = "invalid_pattern" /\ pc' = "done"
      BY <2>2, RefusalIs
    <3> QED BY <1>2, <3>1 DEF Searching, Searched, Done, NoError
  <2>3. CASE FailVault(Head1) /\ UNCHANGED <<pc, seen>>
    BY <1>5, <2>1, <2>3
  <2>4. CASE VaultGives
    <3>1. pc' = pc
      BY <2>4 DEF VaultGives
    <3>2. /\ todo' = Tail(todo) /\ acc'.skipped = acc.skipped /\ acc'.failed = acc.failed
          /\ seen' = [seen EXCEPT ![Head1] = <<index[Head1]>>]
      BY <1>10, <2>4, VaultSearched DEF Step
    <3> QED BY <1>6, <2>1, <3>1, <3>2
  <2> QED BY <1>10, <2>2, <2>3, <2>4, SearchEnds
<1>11. CASE GetPath
  <2>1. Asking /\ UNCHANGED <<req, listed, pc>> /\ req.op # "debug"
    BY <1>11 DEF GetPath
  <2>2. CASE Len(reading) + 1 = Len(req.paths)
    <3>1. todo' = Tail(todo) /\ acc' = acc /\ seen' = [seen EXCEPT ![Head1] = <<index[Head1]>>]
      BY <1>11, <2>2 DEF GetPath, Step
    <3> QED BY <1>6, <2>1, <3>1
  <2>3. CASE Len(reading) + 1 # Len(req.paths)
    <3>1. UNCHANGED <<todo, acc, seen>>
      BY <1>11, <2>3 DEF GetPath
    <3> QED BY <1>4, <2>1, <3>1 DEF Asking
  <2> QED BY <2>2, <2>3
<1>12. CASE VaultFails
  BY <1>5, <1>12 DEF VaultFails, Faulty
<1>13. CASE Merge
  BY <1>4, <1>13 DEF Merge, Reply
<1>14. CASE (\E v \in Vaults : RowChanges(v) \/ EntryChanges(v) \/ Reindexed(v)) \/ UNCHANGED vars
  BY <1>3, <1>14, VaultsMeanwhile DEF BaseInv
<1> QED BY <1>7, <1>8, <1>9, <1>10, <1>11, <1>12, <1>13, <1>14 DEF Next

LEMMA OutcomesAccount ==
  ASSUME BaseInv, RepliedInv, OutcomeInv
  PROVE  EveryVaultAccounted
<1> SUFFICES ASSUME Searched PROVE EveryVaultAccounted
  BY DEF EveryVaultAccounted
<1>1. todo = <<>> /\ answer = Respond(req, pool, acc)
  BY DEF RepliedInv
<1>2. answer.acc.skipped = acc.skipped /\ answer.acc.failed = acc.failed
  <2> DEFINE m == Merged(req, pool)
             shown == IF req.op = "get" THEN m ELSE Cut(m, req.limit)
             t == acc.truncated \/ Len(m) > Len(shown)
             h == acc.hint /\ shown = <<>>
  <2>1. answer.acc = [[acc EXCEPT !.truncated = t] EXCEPT !.hint = h]
    BY <1>1 DEF Respond
  <2> HIDE DEF t, h
  <2> QED BY <2>1 DEF BaseInv, RequestInv, AccSet
<1>3. ASSUME NEW v \in Vaults
      PROVE  /\ Asked(v) =>
                  Cardinality({k \in 1..3 : \/ k = 1 /\ v \in Answered
                                            \/ k = 2 /\ v \in answer.acc.skipped
                                            \/ k = 3 /\ Told(v) \in answer.acc.failed}) = 1
             /\ ~Asked(v) =>
                  v \notin Answered \cup answer.acc.skipped /\ Told(v) \notin answer.acc.failed
  <2> DEFINE K == {k \in 1..3 : \/ k = 1 /\ v \in Answered
                                \/ k = 2 /\ v \in answer.acc.skipped
                                \/ k = 3 /\ Told(v) \in answer.acc.failed}
  <2>1. OutcomeOf(v)
    BY DEF OutcomeInv, Searching, Searched
  <2>2. ~Queued(v)
    BY <1>1 DEF Queued
  <2>3. v \in Answered <=> seen[v] # Unread
    BY DEF Answered
  <2>4. ~Asked(v) =>
          v \notin Answered \cup answer.acc.skipped /\ Told(v) \notin answer.acc.failed
    BY <1>2, <2>1, <2>3 DEF OutcomeOf
  <2>5. Asked(v) => \E k \in 1..3 : K = {k}
    <3> SUFFICES ASSUME Asked(v) PROVE K = {1} \/ K = {2} \/ K = {3}
      OBVIOUS
    <3>1. CASE v \in Answered
      <4>1. v \notin answer.acc.skipped /\ Told(v) \notin answer.acc.failed
        BY <1>2, <2>1, <2>3, <3>1 DEF OutcomeOf
      <4> QED BY <3>1, <4>1
    <3>2. CASE v \in answer.acc.skipped
      <4>1. v \notin Answered /\ Told(v) \notin answer.acc.failed
        BY <1>2, <2>1, <2>3, <3>2 DEF OutcomeOf
      <4> QED BY <3>2, <4>1
    <3>3. CASE Told(v) \in answer.acc.failed
      <4>1. v \notin Answered /\ v \notin answer.acc.skipped
        BY <1>2, <2>1, <2>3, <3>3 DEF OutcomeOf
      <4> QED BY <3>3, <4>1
    <3> QED BY <1>2, <2>1, <2>2, <2>3, <3>1, <3>2, <3>3 DEF OutcomeOf
  <2>6. Asked(v) => Cardinality(K) = 1
    <3> HIDE DEF K
    <3> QED BY <2>5, FS_Singleton
  <2> QED BY <2>4, <2>6
<1>4. \A i \in DOMAIN req.filter :
        \/ [who |-> req.filter[i], code |-> "vault_not_found"] \in answer.acc.failed
        \/ \E v \in Vaults : /\ listed[v] # NoRow
                             /\ req.filter[i] \in {<<"name", listed[v].name>>, <<"id", v>>}
  BY <1>2 DEF OutcomeInv, Searching, Searched, TokenTold, AsksFor
<1> QED BY <1>3, <1>4 DEF EveryVaultAccounted, Asked

----------------------------------------------------------------------------
(* What the vaults have given.                                             *)

RowsOf(v) == {k \in pool : k.vault = v}
Part(v)   == [rows |-> RowsOf(v), truncated |-> acc.truncated, hint |-> FALSE]

\* The collected rows of a searched vault are its answer to the request.
PoolInv ==
  req.op \in {"filesystem", "content", "semantic"} =>
    /\ IsFiniteSet(pool)
    /\ \A k \in pool : k.vault \in Vaults /\ seen[k.vault] # Unread
    /\ \A v \in Vaults : seen[v] # Unread => Serves(req, v, seen[v][1], Part(v))

\* A flag of another vault takes nothing away.
LEMMA ServesMore ==
  ASSUME NEW v \in Vaults, NEW ix \in Indexes, NEW f, Serves(req, v, ix, f),
         NEW t \in BOOLEAN, f.truncated => t, NEW S, S = f.rows
  PROVE  Serves(req, v, ix, [rows |-> S, truncated |-> t, hint |-> FALSE])
<1> DEFINE g == [rows |-> S, truncated |-> t, hint |-> FALSE]
<1>1. g.rows = f.rows /\ g.hint \in BOOLEAN /\ g.truncated = t
  OBVIOUS
<1>2. g.truncated \in BOOLEAN /\ (~g.truncated => ~f.truncated)
  BY <1>1
<1> HIDE DEF g
<1>3. Serves(req, v, ix, g)
  BY <1>1, <1>2 DEF Serves
<1> QED BY <1>3 DEF g

LEMMA PoolKept ==
  ASSUME BaseInv, PoolInv, UNCHANGED <<req, pool, seen>>, acc'.truncated = acc.truncated
  PROVE  PoolInv'
BY DEF PoolInv, Part, RowsOf

LEMMA PoolGrows ==
  ASSUME BaseInv, OutcomeInv, PoolInv, SearchVault, VaultGives
  PROVE  PoolInv'
<1>1. PICK found \in VaultSearch(req, Head1, index[Head1]) :
        /\ Serves(req, Head1, index[Head1], found)
        /\ pool' = pool \cup found.rows
        /\ seen' = [seen EXCEPT ![Head1] = <<index[Head1]>>]
        /\ acc' \in AccSet
        /\ acc'.truncated <=> acc.truncated \/ found.truncated
  BY VaultSearched
<1>2. /\ Asking /\ pc = "search" /\ req' = req /\ req \in Requests
      /\ req.op \in {"filesystem", "content", "semantic"}
  BY RequestIs DEF SearchVault, Asking, BaseInv, RequestInv
<1>3. Head1 \in Vaults /\ index[Head1] \in Indexes /\ seen[Head1] = Unread
  <2>1. Head1 \in Vaults /\ index[Head1] \in Indexes /\ Queued(Head1)
    BY <1>2, HeadIs DEF Queued
  <2> QED BY <1>2, <2>1 DEF OutcomeInv, Searching, OutcomeOf
<1>4. acc'.truncated \in BOOLEAN /\ acc.truncated \in BOOLEAN
  BY <1>1 DEF AccSet, BaseInv, RequestInv
<1>5. found.rows \subseteq Source(req, Head1, index[Head1]) /\ IsFiniteSet(found.rows)
  BY <1>1 DEF Serves, Hits
<1>6. \A k \in found.rows : k.vault = Head1
  BY <1>2, <1>3, <1>5, SourceIs
<1>7. \A k \in pool : k.vault \in Vaults /\ seen[k.vault] # Unread
  BY <1>2 DEF PoolInv
<1> PICK h \in Vaults : h = Head1
  BY <1>3
<1>8. /\ RowsOf(h)' = found.rows
      /\ \A v \in Vaults : v # h => RowsOf(v)' = RowsOf(v)
  <2>1. \A k \in pool : k.vault # h
    BY <1>3, <1>7
  <2> QED BY <1>1, <1>6, <2>1 DEF RowsOf
<1>9. /\ seen'[h] = <<index[h]>>
      /\ \A v \in Vaults : v # h => seen'[v] = seen[v]
  BY <1>1 DEF BaseInv, RequestInv
<1>10. IsFiniteSet(pool')
  BY <1>1, <1>2, <1>5, FS_Union DEF PoolInv
<1>11. \A k \in pool' : k.vault \in Vaults /\ seen'[k.vault] # Unread
  BY <1>1, <1>3, <1>6, <1>7, <1>9 DEF Unread
<1>12. ASSUME NEW v \in Vaults, seen'[v] # Unread
       PROVE  Serves(req, v, seen'[v][1], Part(v)')
  <2>1. CASE v = h
    <3>1. Serves(req, h, index[h],
                 [rows |-> RowsOf(h)', truncated |-> acc'.truncated, hint |-> FALSE])
      BY <1>1, <1>3, <1>4, <1>8, ServesMore
    <3>2. seen'[v][1] = index[h]
      BY <1>9, <2>1
    <3> QED BY <2>1, <3>1, <3>2 DEF Part
  <2>2. CASE v # h
    <3>1. seen'[v] = seen[v] /\ Serves(req, v, seen[v][1], Part(v))
      BY <1>2, <1>9, <1>12, <2>2 DEF PoolInv
    <3>2. seen[v][1] \in Indexes
      BY <1>12, <3>1 DEF BaseInv, RequestInv
    <3>3. Part(v).rows = RowsOf(v)' /\ Part(v).truncated = acc.truncated
      BY <1>8, <2>2 DEF Part
    <3>4. Part(v).truncated => acc'.truncated
      BY <1>1, <3>3
    <3>5. Serves(req, v, seen[v][1],
                 [rows |-> RowsOf(v)', truncated |-> acc'.truncated, hint |-> FALSE])
      BY <1>4, <3>1, <3>2, <3>3, <3>4, ServesMore
    <3> QED BY <3>1, <3>5 DEF Part
  <2> QED BY <2>1, <2>2
<1> QED BY <1>2, <1>10, <1>11, <1>12 DEF PoolInv

LEMMA PoolStep == BaseInv /\ OutcomeInv /\ PoolInv /\ [Next]_vars => PoolInv'
<1> SUFFICES ASSUME BaseInv, OutcomeInv, PoolInv, [Next]_vars
             PROVE  PoolInv'
  OBVIOUS
<1>1. acc \in AccSet
  BY DEF BaseInv, RequestInv
<1>2. CASE ListRows \/ ListFails \/ EmbedderDown \/ Merge \/ DebugFails \/ DebugAnswer
           \/ DebugCandidates
  <2>1. UNCHANGED <<req, pool, seen, acc>>
    BY <1>2 DEF ListRows, ListFails, EmbedderDown, Merge, DebugFails, DebugAnswer, DebugCandidates
  <2> QED BY <2>1, PoolKept
<1>3. CASE TakeEntries
  <2>1. UNCHANGED <<req, pool, seen>> /\ acc.truncated = FALSE
    BY <1>3 DEF TakeEntries, BaseInv, StartInv, Nothing
  <2>2. acc'.truncated = FALSE
    BY <1>3, EntriesTaken
  <2> QED BY <2>1, <2>2, PoolKept
<1>4. CASE PassVault \/ VaultFails
  <2>1. UNCHANGED <<req, pool, seen>> /\ (SkipVault(Head1) \/ FailVault(Head1))
    BY <1>4 DEF PassVault, VaultFails
  <2>2. acc'.truncated = acc.truncated
    BY <1>1, <2>1 DEF SkipVault, FailVault, Step, AccSet
  <2> QED BY <2>1, <2>2, PoolKept
<1>5. CASE SearchVault
  <2>1. CASE UNCHANGED <<pool, acc, seen>>
    <3>1. UNCHANGED <<req, pool, seen, acc>>
      BY <1>5, <2>1 DEF SearchVault
    <3> QED BY <3>1, PoolKept
  <2>2. CASE FailVault(Head1) /\ UNCHANGED <<pool, seen>>
    <3>1. UNCHANGED <<req, pool, seen>> /\ FailVault(Head1)
      BY <1>5, <2>2 DEF SearchVault
    <3>2. acc'.truncated = acc.truncated
      BY <1>1, <3>1 DEF FailVault, Step, AccSet
    <3> QED BY <3>1, <3>2, PoolKept
  <2>3. CASE VaultGives
    BY <1>5, <2>3, PoolGrows
  <2> QED BY <1>5, <2>1, <2>2, <2>3, SearchEnds
<1>6. CASE GetPath \/ DebugFile \/ DebugChunks
  BY <1>6 DEF GetPath, DebugFile, DebugChunks, PoolInv
<1>7. CASE (\E v \in Vaults : RowChanges(v) \/ EntryChanges(v) \/ Reindexed(v)) \/ UNCHANGED vars
  <2>1. UNCHANGED <<req, pool, seen, acc>>
    BY <1>7, VaultsMeanwhile DEF Meanwhile, BaseInv
  <2> QED BY <2>1, PoolKept
<1> QED BY <1>2, <1>3, <1>4, <1>5, <1>6, <1>7 DEF Next

\* The invariant of a request.
SearchInv == BaseInv /\ RepliedInv /\ OneVaultFailsAlone /\ OutcomeInv /\ PoolInv

LEMMA InvHolds == Spec => []SearchInv
<1>1. Init => SearchInv
  <2>1. Init => OutcomeInv
    BY DEF Init, OutcomeInv, Searching, Searched, Done
  <2>2. Init => PoolInv
    BY FS_EmptySet DEF Init, PoolInv
  <2> QED BY <2>1, <2>2, BaseStart, NeitherBefore DEF SearchInv
<1>2. SearchInv /\ [Next]_vars => SearchInv'
  BY BaseStep, RepliedStep, OutcomeStep, PoolStep DEF SearchInv
<1> QED BY <1>1, <1>2, PTL DEF Spec

\* One vault whose store fails never fails the whole search: a search over
\* several vaults fails as a whole only if the request is wrong in itself, if the
\* embedding service is down, or if the registry could not be listed, before any
\* vault was asked.
THEOREM OneFailureIsOneVault == Spec => []OneVaultFailsAlone
<1>1. SearchInv => OneVaultFailsAlone
  BY DEF SearchInv
<1> QED BY <1>1, InvHolds, PTL

\* No vault that the filter asks for is lost, none has two outcomes, and every
\* token of the filter that nobody answers to is reported.
THEOREM AllVaultsAccounted == Spec => []EveryVaultAccounted
<1>1. SearchInv => EveryVaultAccounted
  BY OutcomesAccount DEF SearchInv
<1> QED BY <1>1, InvHolds, PTL

----------------------------------------------------------------------------
(* What the merge shows.                                                   *)

LEMMA LargestOf ==
  ASSUME NEW S, IsFiniteSet(S), S \subseteq Nat, S # {}
  PROVE  Max(S) \in S /\ \A m \in S : Max(S) >= m
<1> DEFINE R == IdOrder(S)
           n == Cardinality(S)
<1>1. Total(R, S)
  BY DEF Total, IdOrder
<1>2. n \in Nat /\ n # 0
  BY FS_CardinalityType, FS_EmptySet
<1>3. \E k \in S : RankIn(R, S, k) = n - 1
  <2>1. n \in 1..n
    BY <1>2
  <2> HIDE DEF R
  <2> QED BY <1>1, <2>1, RanksTaken
<1>4. PICK k \in S : RankIn(R, S, k) = n - 1
  BY <1>3
<1>5. ASSUME NEW m \in S
      PROVE  k >= m
  <2>1. RankIn(R, S, m) \in 0..(n - 1) /\ (<<k, m>> \in R => RankIn(R, S, k) < RankIn(R, S, m))
    <3> HIDE DEF R
    <3> QED BY <1>1, RanksDiffer
  <2>2. <<k, m>> \notin R
    <3> HIDE DEF R, n
    <3> QED BY <1>2, <1>4, <2>1
  <2> QED BY <2>2 DEF IdOrder
<1> QED BY <1>5 DEF Max

\* The requests that search.
Finds == Searched /\ req.op \in {"filesystem", "content", "semantic"}

LEMMA ResponseIs ==
  ASSUME SearchInv, Finds
  PROVE  /\ answer.results = Cut(Merged(req, pool), req.limit)
         /\ answer.acc.truncated <=>
              acc.truncated \/ Len(Merged(req, pool)) > Len(answer.results)
         /\ req \in Requests /\ req.limit \in Nat /\ Validated(req) = NoError
<1>1. answer = Respond(req, pool, acc) /\ req \in Requests /\ acc \in AccSet
      /\ Validated(req) = NoError
  BY DEF SearchInv, BaseInv, RequestInv, RepliedInv, Finds, Searched, Done
<1>2. req.op # "get" /\ req.limit \in Nat
  BY <1>1, RequestIs DEF Finds
<1> DEFINE m == Merged(req, pool)
           shown == Cut(m, req.limit)
           t == acc.truncated \/ Len(m) > Len(shown)
           h == acc.hint /\ shown = <<>>
<1>3. answer.results = shown /\ answer.acc = [[acc EXCEPT !.truncated = t] EXCEPT !.hint = h]
  BY <1>1, <1>2 DEF Respond
<1>4. t \in BOOLEAN
  OBVIOUS
<1>5. answer.acc.truncated = t
  <2> HIDE DEF t, h
  <2> QED BY <1>1, <1>3 DEF AccSet
<1>6. answer.acc.truncated <=> t
  <2> HIDE DEF t
  <2> QED BY <1>4, <1>5
<1> QED BY <1>1, <1>2, <1>3, <1>6

LEMMA PartsAre ==
  ASSUME SearchInv, Finds, NEW v \in Vaults, seen[v] # Unread
  PROVE  /\ seen[v][1] \in Indexes
         /\ Serves(req, v, seen[v][1], Part(v))
         /\ RowsOf(v) \subseteq Hits(req, v, seen[v][1])
         /\ \A k \in Hits(req, v, seen[v][1]) : k \in Source(req, v, seen[v][1]) /\ k.vault = v
<1>1. seen[v][1] \in Indexes /\ req \in Requests
  BY DEF SearchInv, BaseInv, RequestInv
<1>2. Serves(req, v, seen[v][1], Part(v))
  BY DEF SearchInv, PoolInv, Finds
<1>3. RowsOf(v) \subseteq Hits(req, v, seen[v][1])
  <2>1. Part(v).rows = RowsOf(v)
    BY DEF Part
  <2> QED BY <1>2, <2>1 DEF Serves
<1>4. \A k \in Hits(req, v, seen[v][1]) : k \in Source(req, v, seen[v][1]) /\ k.vault = v
  BY <1>1, SourceIs, HitsAre
<1> QED BY <1>1, <1>2, <1>3, <1>4

\* Every collected row is of a searched vault.
LEMMA PoolIs ==
  ASSUME SearchInv, Finds
  PROVE  /\ IsFiniteSet(pool) /\ Comparable(req, pool)
         /\ \A k \in pool : /\ k.vault \in Vaults /\ seen[k.vault] # Unread
                            /\ k \in RowsOf(k.vault)
                            /\ k \in Source(req, k.vault, seen[k.vault][1])
<1>1. IsFiniteSet(pool) /\ \A k \in pool : k.vault \in Vaults /\ seen[k.vault] # Unread
  BY DEF SearchInv, PoolInv, Finds
<1>2. ASSUME NEW k \in pool
      PROVE  k \in RowsOf(k.vault) /\ k \in Source(req, k.vault, seen[k.vault][1])
  <2>1. k \in RowsOf(k.vault)
    BY DEF RowsOf
  <2> QED BY <1>1, <2>1, PartsAre
<1>3. ASSUME NEW v \in Vaults, seen[v] # Unread
      PROVE  Comparable(req, Source(req, v, seen[v][1]))
  BY <1>3, PartsAre, SourceIs
<1>4. Comparable(req, pool)
  <2>1. ASSUME NEW k \in pool
        PROVE  /\ k.vault \in Nat /\ k.path \in Nat /\ k.chunk \in Nat /\ k.score \in Nat
               /\ IsSemantic(req) => k.text \in Nat /\ k.score = Score[k.text]
    BY <1>1, <1>2, <1>3 DEF Comparable
  <2>2. ASSUME NEW a \in pool, NEW b \in pool, a.vault = b.vault, a.path = b.path,
               a.chunk = b.chunk \/ ~IsSemantic(req)
        PROVE  a = b
    <3>1. PICK v \in Vaults : v = a.vault /\ seen[v] # Unread
      BY <1>1
    <3>2. a \in Source(req, v, seen[v][1]) /\ b \in Source(req, v, seen[v][1])
      BY <1>2, <2>2, <3>1
    <3>3. Comparable(req, Source(req, v, seen[v][1]))
      BY <1>3, <3>1
    <3> QED BY <2>2, <3>2, <3>3 DEF Comparable
  <2> QED BY <2>1, <2>2 DEF Comparable
<1> QED BY <1>1, <1>2, <1>4

LEMMA MatchingIs ==
  ASSUME SearchInv, Finds, NEW m
  PROVE  m \in Matching <=> \E v \in Vaults : seen[v] # Unread /\ m \in Hits(req, v, seen[v][1])
<1> DEFINE of(v) == {k \in Source(req, v, seen[v][1]) :
                       /\ k.path \in Within(req) \cap Matches(req)
                       /\ IsSemantic(req) => k.score >= req.minimum}
<1>1. Matching = UNION {of(v) : v \in Answered}
  BY DEF Matching, Source
<1>2. \A v : of(v) = Hits(req, v, seen[v][1])
  BY DEF Hits
<1> HIDE DEF of
<1>3. m \in Matching <=> \E v \in Answered : m \in of(v)
  BY <1>1
<1> QED BY <1>2, <1>3 DEF Answered

\* Rows, where no documents are asked for, are shown from the best on.
LEMMA RowsMerged ==
  ASSUME SearchInv, Finds, ~IsDocument(req)
  PROVE  \E R : /\ Lists(Merged(req, pool), pool, R)
                /\ \A a, b \in pool : <<a, b>> \in R => Better(req, a, b)
<1>1. IsFiniteSet(pool) /\ Comparable(req, pool)
  BY PoolIs
<1>2. req.op # "get"
  BY DEF Finds
<1>3. CASE IsSemantic(req)
  <2>1. Merged(req, pool) = ScoreSorted(pool)
    BY <1>2, <1>3 DEF Merged, ScoreSorted, Sorted
  <2>2. Lists(ScoreSorted(pool), pool, ScoreOrder(pool))
    BY <1>1, ListedByScore DEF Comparable
  <2>3. \A a, b \in pool : <<a, b>> \in ScoreOrder(pool) => Better(req, a, b)
    BY <1>1, <1>3 DEF ScoreOrder, ByScore, Better, Comparable
  <2> QED BY <2>1, <2>2, <2>3
<1>4. CASE ~IsSemantic(req) /\ IsRanked(req)
  <2>1. Merged(req, pool) = RankSorted(pool)
    BY <1>2, <1>4 DEF Merged, RankSorted, Sorted, IsDocument
  <2>2. Lists(RankSorted(pool), pool, RankOrder(pool))
    BY <1>1, <1>4, ListedByRank DEF Comparable
  <2>3. \A a, b \in pool : <<a, b>> \in RankOrder(pool) => Better(req, a, b)
    BY <1>1, <1>4 DEF RankOrder, ByRank, Better, Comparable
  <2> QED BY <2>1, <2>2, <2>3
<1>5. CASE ~IsSemantic(req) /\ ~IsRanked(req)
  <2>1. Merged(req, pool) = PathSorted(pool)
    BY <1>2, <1>5 DEF Merged, PathSorted, Sorted, IsDocument
  <2>2. Lists(PathSorted(pool), pool, PathOrder(pool))
    BY <1>1, <1>5, ListedByPath DEF Comparable
  <2>3. \A a, b \in pool : <<a, b>> \in PathOrder(pool) => Better(req, a, b)
    BY <1>5 DEF PathOrder, Better
  <2> QED BY <2>1, <2>2, <2>3
<1> QED BY <1>3, <1>4, <1>5

LEMMA BetterChains ==
  ASSUME NEW a, NEW b, NEW c,
         \A k \in {a, b, c} : k.vault \in Nat /\ k.path \in Nat /\ k.score \in Nat,
         Better(req, a, b), Better(req, b, c)
  PROVE  Better(req, a, c)
BY DEF Better, ByPath

LEMMA RankedFinds ==
  ASSUME SearchInv, Ranked
  PROVE  Finds /\ ~Prefixed(req)
<1>1. req \in Requests
  BY DEF SearchInv, BaseInv, RequestInv
<1> QED BY <1>1, RequestIs DEF Ranked, Finds, Searched, Prefixed, PostFiltered

LEMMA MatchComparable ==
  ASSUME SearchInv, Finds, NEW v \in Vaults, seen[v] # Unread, NEW m \in Hits(req, v, seen[v][1])
  PROVE  m.vault = v /\ m.vault \in Nat /\ m.path \in Nat /\ m.score \in Nat
BY PartsAre, SourceIs DEF Comparable

\* A vault that cuts its part has given as many rows as are shown, all better than the rest.
LEMMA NoRowOmitted ==
  ASSUME SearchInv, Ranked, ~IsDocument(req)
  PROVE  NothingBetterOmitted
<1>1. Finds /\ ~Prefixed(req) /\ req.limit \in Nat /\ req \in Requests
  BY RankedFinds, ResponseIs
<1>2. PICK R : /\ Lists(Merged(req, pool), pool, R)
               /\ \A a, b \in pool : <<a, b>> \in R => Better(req, a, b)
  BY <1>1, RowsMerged
<1> DEFINE s == Merged(req, pool)
           n == req.limit
<1>3. answer.results = Cut(s, n) /\ (answer.acc.truncated <=> acc.truncated \/ Len(s) > Len(answer.results))
  BY <1>1, ResponseIs
<1>4. IsFiniteSet(pool) /\ Comparable(req, pool)
  BY <1>1, PoolIs
<1> HIDE DEF s, n
<1>5. /\ Len(Cut(s, n)) \in Nat /\ Len(Cut(s, n)) <= n
      /\ ToSet(Cut(s, n)) \subseteq pool /\ IsFiniteSet(ToSet(Cut(s, n)))
      /\ Cardinality(ToSet(Cut(s, n))) = Len(Cut(s, n))
      /\ ~ (Len(s) > Len(Cut(s, n))) => ToSet(Cut(s, n)) = pool
      /\ \A a \in ToSet(Cut(s, n)), b \in pool \ ToSet(Cut(s, n)) : <<a, b>> \in R
  <2>1. Lists(s, pool, R) /\ n \in Nat
    BY <1>1, <1>2 DEF s, n
  <2> QED BY <1>4, <2>1, CutLists, SMTT(30)
<1>6. /\ Shown \subseteq pool /\ IsFiniteSet(Shown) /\ Cardinality(Shown) \in Nat
      /\ Cardinality(Shown) <= n /\ n \in Nat /\ Len(answer.results) <= n
      /\ ~answer.acc.truncated => Shown = pool /\ ~acc.truncated
      /\ \A a \in Shown, b \in pool \ Shown : Better(req, a, b)
  <2>1. n \in Nat
    BY <1>1 DEF n
  <2>2. Shown = ToSet(Cut(s, n))
    BY <1>3 DEF Shown
  <2> QED BY <1>2, <1>3, <1>5, <2>1, <2>2
<1>7. Given = Shown /\ Expected = Matching
  BY DEF Given, Expected
<1>8. Shown \subseteq Matching
  <2> SUFFICES ASSUME NEW k \in Shown PROVE k \in Matching
    OBVIOUS
  <2>1. k.vault \in Vaults /\ seen[k.vault] # Unread /\ k \in RowsOf(k.vault)
    BY <1>1, <1>6, PoolIs
  <2> QED BY <1>1, <2>1, PartsAre, MatchingIs
<1>9. ASSUME ~answer.acc.truncated
      PROVE  Matching \subseteq Shown
  <2> SUFFICES ASSUME NEW m \in Matching PROVE m \in Shown
    OBVIOUS
  <2>1. PICK v \in Vaults : seen[v] # Unread /\ m \in Hits(req, v, seen[v][1])
    BY <1>1, MatchingIs
  <2>2. Part(v).rows = RowsOf(v) /\ ~Part(v).truncated
    BY <1>6, <1>9 DEF Part
  <2>3. RowsOf(v) = Hits(req, v, seen[v][1])
    BY <1>1, <2>1, <2>2, PartsAre DEF Serves
  <2> QED BY <1>6, <1>9, <2>1, <2>3 DEF RowsOf
<1>10. ASSUME NEW k \in Shown, NEW m \in Matching \ Shown
       PROVE  Better(req, k, m)
  <2>1. PICK v \in Vaults : seen[v] # Unread /\ m \in Hits(req, v, seen[v][1])
    BY <1>1, MatchingIs
  <2> DEFINE rows_ == RowsOf(v)
             hits == Hits(req, v, seen[v][1])
  <2>2. /\ Serves(req, v, seen[v][1], Part(v)) /\ Part(v).rows = rows_
    BY <1>1, <2>1, PartsAre DEF Part
  <2>3. CASE m \in rows_
    <3>1. m \in pool
      BY <2>3 DEF RowsOf
    <3> QED BY <1>6, <1>10, <3>1
  <2>4. CASE m \notin rows_
    <3>1. /\ Cardinality(rows_) = n
          /\ \A r \in rows_ : Better(req, r, m)
      <4>1. rows_ # hits /\ m \in hits \ rows_
        BY <2>1, <2>4
      <4>2. IsSemantic(req) => CandidateLimit(req) = req.limit
        BY <1>1, CandidatesPositive
      <4>3. \A r \in rows_ : Better(req, r, m)
        BY <2>2, <4>1 DEF Serves
      <4>4. Cardinality(Part(v).rows) = req.limit
        <5>1. Part(v).rows # Hits(req, v, seen[v][1])
          BY <2>2, <4>1
        <5> QED BY <1>1, <2>2, <4>2, <5>1 DEF Serves
      <4> QED BY <2>2, <4>3, <4>4 DEF n
    <3>2. CASE k \in rows_
      BY <3>1, <3>2
    <3>3. CASE k \notin rows_
      <4>1. \E r \in rows_ : r \notin Shown
        <5> SUFFICES ASSUME rows_ \subseteq Shown PROVE FALSE
          OBVIOUS
        <5>1. rows_ \subseteq Shown \ {k}
          BY <3>3
        <5>2. IsFiniteSet(Shown \ {k}) /\ Cardinality(Shown \ {k}) = Cardinality(Shown) - 1
          BY <1>6, FS_RemoveElement
        <5>3. Cardinality(rows_) <= Cardinality(Shown \ {k})
          <6> HIDE DEF rows_
          <6> QED BY <5>1, <5>2, FS_Subset
        <5> QED BY <1>6, <3>1, <5>2, <5>3
      <4>2. PICK r \in rows_ : r \notin Shown
        BY <4>1
      <4>3. r \in pool /\ k \in pool
        BY <1>6, <4>2 DEF RowsOf
      <4>4. Better(req, k, r) /\ Better(req, r, m)
        BY <1>6, <3>1, <4>2, <4>3
      <4>5. m.vault \in Nat /\ m.path \in Nat /\ m.score \in Nat
        BY <1>1, <2>1, MatchComparable
      <4>6. \A x \in {k, r, m} : x.vault \in Nat /\ x.path \in Nat /\ x.score \in Nat
        BY <1>4, <4>3, <4>5 DEF Comparable
      <4> QED BY <4>4, <4>6, BetterChains
    <3> QED BY <3>2, <3>3
  <2> QED BY <2>3, <2>4
<1>11. ASSUME NEW k \in Shown, NEW m \in Matching, m \notin Given
       PROVE  IF IsSemantic(req) \/ IsRanked(req) THEN m.score <= k.score \/ Crowded(k, m)
              ELSE ByPath(k, m)
  <2>1. Better(req, k, m)
    BY <1>7, <1>10, <1>11
  <2> QED BY <2>1 DEF Better
<1> QED BY <1>6, <1>7, <1>8, <1>9, <1>11 DEF NothingBetterOmitted, n

----------------------------------------------------------------------------
(* Documents.                                                              *)

\* The collected chunks of a document, and the document made of them.
Own(x)   == {c \in pool : DocumentOf(c) = x}
BestScore(x) == Max({k.score : k \in Own(x)})
DocAt(x) == [vault |-> x[1], path |-> x[2], text |-> x[3], score |-> BestScore(x),
             chunks |-> Cut(ScoreSorted(Own(x)), req.perDocument)]
Collected == {DocumentOf(c) : c \in pool}

LEMMA DocumentsOfPool ==
  ASSUME SearchInv, Finds
  PROVE  /\ Documents(req, pool) = {DocAt(x) : x \in Collected}
         /\ IsFiniteSet(Documents(req, pool))
         /\ \A x \in Collected : DocumentOf(DocAt(x)) = x
<1>1. Documents(req, pool) = {DocAt(x) : x \in Collected}
  BY DEF Documents, DocAt, BestScore, Collected, Own, Top, ScoreSorted, Sorted
<1>2. IsFiniteSet(Collected)
  <2> DEFINE f == [c \in pool |-> DocumentOf(c)]
  <2>1. IsFiniteSet({f[c] : c \in pool})
    BY PoolIs, ImageFinite
  <2>2. {f[c] : c \in pool} = Collected
    BY DEF Collected
  <2> QED BY <2>1, <2>2
<1>3. IsFiniteSet({DocAt(x) : x \in Collected})
  <2> DEFINE f == [x \in Collected |-> DocAt(x)]
  <2>1. IsFiniteSet({f[x] : x \in Collected})
    BY <1>2, ImageFinite
  <2>2. {f[x] : x \in Collected} = {DocAt(x) : x \in Collected}
    OBVIOUS
  <2> QED BY <2>1, <2>2
<1>4. \A x \in Collected : DocumentOf(DocAt(x)) = x
  BY DEF Collected, DocAt, DocumentOf
<1> QED BY <1>1, <1>3, <1>4

LEMMA DocIs ==
  ASSUME SearchInv, Finds, IsSemantic(req), NEW x \in Collected
  PROVE  /\ IsFiniteSet(Own(x)) /\ Own(x) # {} /\ Comparable(req, Own(x))
         /\ \A c \in Own(x) : /\ c.vault = x[1] /\ c.path = x[2] /\ c.text = x[3]
                               /\ c.score = BestScore(x)
         /\ DocAt(x).vault \in Nat /\ DocAt(x).path \in Nat /\ DocAt(x).text \in Nat
         /\ BestScore(x) = Score[x[3]]
         /\ DocAt(x).score = BestScore(x) /\ BestScore(x) \in Nat
         /\ \E c \in Own(x) : c.score = BestScore(x)
         /\ \A c \in Own(x) : c.score \in Nat /\ c.score <= BestScore(x)
<1>1. IsFiniteSet(Own(x)) /\ Comparable(req, Own(x))
  <2>1. IsFiniteSet(pool) /\ Comparable(req, pool) /\ Own(x) \subseteq pool
    BY PoolIs DEF Own
  <2>2. IsFiniteSet(Own(x))
    BY <2>1, FS_Subset
  <2> QED BY <2>1, <2>2 DEF Comparable
<1>2. \A c \in Own(x) : c.vault = x[1] /\ c.path = x[2] /\ c.text = x[3]
  BY DEF Own, DocumentOf
<1>3. Own(x) # {}
  BY DEF Own, Collected
<1>4. /\ BestScore(x) \in {k.score : k \in Own(x)}
      /\ \A s \in {k.score : k \in Own(x)} : BestScore(x) >= s
  <2> DEFINE f == [c \in Own(x) |-> c.score]
             S == {k.score : k \in Own(x)}
  <2>1. IsFiniteSet(S)
    <3>1. IsFiniteSet({f[c] : c \in Own(x)})
      BY <1>1, ImageFinite
    <3>2. {f[c] : c \in Own(x)} = S
      OBVIOUS
    <3> QED BY <3>1, <3>2
  <2>2. S \subseteq Nat /\ S # {}
    BY <1>1, <1>3 DEF Comparable
  <2> HIDE DEF S
  <2>3. Max(S) \in S /\ \A m \in S : Max(S) >= m
    BY <2>1, <2>2, LargestOf
  <2> QED BY <2>3 DEF S, BestScore
<1>5. \A c \in Own(x) : c.score \in Nat
  BY <1>1 DEF Comparable
<1>6. BestScore(x) \in Nat /\ \A c \in Own(x) : c.score <= BestScore(x)
  <2>1. BestScore(x) \in Nat
    BY <1>4, <1>5
  <2>2. \A c \in Own(x) : BestScore(x) >= c.score
    BY <1>4
  <2> QED BY <1>5, <2>1, <2>2
<1>7. DocAt(x).vault \in Nat /\ DocAt(x).path \in Nat /\ DocAt(x).text \in Nat
      /\ DocAt(x).score = BestScore(x)
  <2>1. x[1] \in Nat /\ x[2] \in Nat /\ x[3] \in Nat
    BY <1>1, <1>2, <1>3 DEF Comparable
  <2> QED BY <2>1 DEF DocAt
<1>8. BestScore(x) = Score[x[3]] /\ \A c \in Own(x) : c.score = BestScore(x)
  <2>1. \A c \in Own(x) : c.score = Score[x[3]]
    BY <1>1, <1>2 DEF Comparable
  <2>2. \E c \in Own(x) : c.score = BestScore(x)
    BY <1>4
  <2> QED BY <2>1, <2>2
<1> QED BY <1>1, <1>2, <1>3, <1>4, <1>5, <1>6, <1>7, <1>8

\* The documents are shown from the best on, each once.
LEMMA DocumentsShown ==
  ASSUME SearchInv, Finds, IsDocument(req)
  PROVE  /\ Shown \subseteq {DocAt(x) : x \in Collected}
         /\ Len(answer.results) <= req.limit
         /\ ~answer.acc.truncated => ~acc.truncated /\ Shown = {DocAt(x) : x \in Collected}
         /\ \A k \in Shown, x \in Collected : DocAt(x) \notin Shown => BestScore(x) <= k.score
<1> DEFINE D == Documents(req, pool)
           s == DocumentSorted(D)
           n == req.limit
           O == DocumentOrder(D)
<1>1. D = {DocAt(x) : x \in Collected} /\ IsFiniteSet(D)
  BY DocumentsOfPool
<1>2. /\ \A x \in Collected : /\ DocAt(x).vault \in Nat /\ DocAt(x).path \in Nat
                              /\ DocAt(x).text \in Nat /\ DocAt(x).score \in Nat
                              /\ DocAt(x).score = BestScore(x)
      /\ \A x, y \in Collected :
            /\ DocAt(x).vault = DocAt(y).vault /\ DocAt(x).path = DocAt(y).path
            /\ DocAt(x).text = DocAt(y).text
            => x = y
  <2>1. \A x \in Collected : x = <<DocAt(x).vault, DocAt(x).path, DocAt(x).text>>
    BY DocumentsOfPool DEF DocumentOf
  <2>2. IsSemantic(req)
    BY DEF IsDocument
  <2> QED BY <2>1, <2>2, DocIs
<1>3. Merged(req, pool) = s
  BY DEF Merged, Finds, DocumentSorted, Sorted
<1>4. /\ answer.results = Cut(s, n) /\ n \in Nat
      /\ answer.acc.truncated <=> acc.truncated \/ Len(s) > Len(answer.results)
  BY <1>3, ResponseIs
<1> HIDE DEF D, n
<1>5. Lists(s, D, O)
  <2>1. /\ \A k \in D : k.path \in Nat /\ k.vault \in Nat /\ k.score \in Nat /\ k.text \in Nat
        /\ \A a, b \in D : a.path = b.path /\ a.vault = b.vault /\ a.text = b.text => a = b
    BY <1>1, <1>2
  <2> QED BY <1>1, <2>1, ListedByDocument
<1> HIDE DEF s, O
<1>6. /\ Len(Cut(s, n)) <= n
      /\ ToSet(Cut(s, n)) \subseteq D
      /\ ~ (Len(s) > Len(Cut(s, n))) => ToSet(Cut(s, n)) = D
      /\ \A a \in ToSet(Cut(s, n)), b \in D \ ToSet(Cut(s, n)) : <<a, b>> \in O
  BY <1>1, <1>4, <1>5, CutLists
<1>7. Shown = ToSet(Cut(s, n))
  BY <1>4 DEF Shown
<1>8. ASSUME NEW k \in Shown, NEW x \in Collected, DocAt(x) \notin Shown
      PROVE  BestScore(x) <= k.score
  <2>1. <<k, DocAt(x)>> \in O /\ k \in D
    BY <1>1, <1>6, <1>7, <1>8
  <2>2. k.score \in Nat /\ DocAt(x).score \in Nat /\ DocAt(x).score = BestScore(x)
    BY <1>1, <1>2, <2>1
  <2> QED BY <2>1, <2>2 DEF O, DocumentOrder, ByDocument
<1> QED BY <1>1, <1>4, <1>6, <1>7, <1>8 DEF n

\* A chunk that matches and was not collected.
LEMMA ChunkLeftOut ==
  ASSUME SearchInv, Finds, IsSemantic(req), NEW v \in Vaults, seen[v] # Unread,
         NEW m \in Hits(req, v, seen[v][1]), m \notin pool
  PROVE  /\ \A c \in RowsOf(v) : m.score <= c.score
         /\ Cardinality(ChunkRows(v, seen[v][1])) > CandidateLimit(req)
<1>1. Serves(req, v, seen[v][1], Part(v)) /\ Part(v).rows = RowsOf(v) /\ m \notin RowsOf(v)
  BY PartsAre DEF Part, RowsOf
<1>2. \A c \in RowsOf(v) : Better(req, c, m)
  BY <1>1 DEF Serves
<1>3. \A c \in RowsOf(v) : m.score <= c.score
  BY <1>2 DEF Better
<1>4. Cardinality(ChunkRows(v, seen[v][1])) > CandidateLimit(req)
  <2>1. Part(v).rows # Hits(req, v, seen[v][1])
    BY <1>1
  <2> QED BY <1>1, <2>1 DEF Serves
<1> QED BY <1>3, <1>4

LEMMA NoDocumentOmitted ==
  ASSUME SearchInv, Ranked, IsDocument(req)
  PROVE  NothingBetterOmitted
<1>1. Finds /\ ~Prefixed(req) /\ IsSemantic(req)
  BY RankedFinds DEF IsDocument
<1>2. /\ Shown \subseteq {DocAt(x) : x \in Collected}
      /\ Len(answer.results) <= req.limit
      /\ ~answer.acc.truncated => ~acc.truncated /\ Shown = {DocAt(x) : x \in Collected}
      /\ \A k \in Shown, x \in Collected : DocAt(x) \notin Shown => BestScore(x) <= k.score
  BY <1>1, DocumentsShown
<1>3. Given = {DocumentOf(k) : k \in Shown} /\ Expected = {DocumentOf(k) : k \in Matching}
  BY DEF Given, Expected
<1>4. \A x \in Collected : DocumentOf(DocAt(x)) = x
  BY <1>1, DocumentsOfPool
<1>5. Given \subseteq Expected
  <2> SUFFICES ASSUME NEW x \in Collected, DocAt(x) \in Shown
               PROVE  x \in Expected
    BY <1>2, <1>3, <1>4
  <2>1. PICK c \in pool : DocumentOf(c) = x
    BY DEF Collected
  <2>2. c \in Matching
    <3>1. c.vault \in Vaults /\ seen[c.vault] # Unread /\ c \in RowsOf(c.vault)
      BY <1>1, PoolIs
    <3> QED BY <1>1, <3>1, PartsAre, MatchingIs
  <2> QED BY <1>3, <2>1, <2>2
<1>6. ASSUME ~answer.acc.truncated
      PROVE  Expected \subseteq Given
  <2> SUFFICES ASSUME NEW m \in Matching PROVE DocumentOf(m) \in Given
    BY <1>3
  <2>1. PICK v \in Vaults : seen[v] # Unread /\ m \in Hits(req, v, seen[v][1])
    BY <1>1, MatchingIs
  <2>2. Part(v).rows = RowsOf(v) /\ ~Part(v).truncated
    BY <1>2, <1>6 DEF Part
  <2>3. RowsOf(v) = Hits(req, v, seen[v][1])
    BY <1>1, <2>1, <2>2, PartsAre DEF Serves
  <2>4. m \in pool
    BY <2>1, <2>3 DEF RowsOf
  <2>5. DocumentOf(m) \in Collected
    BY <2>4 DEF Collected
  <2> QED BY <1>2, <1>3, <1>4, <1>6, <2>5
<1>7. ASSUME NEW k \in Shown, NEW m \in Matching, DocumentOf(m) \notin Given
      PROVE  m.score <= k.score \/ Crowded(k, m)
  <2>1. PICK v \in Vaults : seen[v] # Unread /\ m \in Hits(req, v, seen[v][1])
    BY <1>1, MatchingIs
  <2>2. m.vault = v /\ m.score \in Nat
    BY <1>1, <2>1, MatchComparable
  <2>3. PICK y \in Collected : k = DocAt(y)
    BY <1>2
  <2>4. k.score = BestScore(y) /\ BestScore(y) \in Nat /\ k.vault = y[1]
    BY <1>1, <2>3, DocIs DEF DocAt
  <2>5. CASE DocumentOf(m) \in Collected
    <3> DEFINE x == DocumentOf(m)
    <3>1. DocAt(x) \notin Shown
      BY <1>3, <1>4, <1>7, <2>5
    <3>2. BestScore(x) <= k.score
      BY <1>2, <2>5, <3>1
    <3>3. PICK c \in Own(x) : TRUE
      BY <1>1, <2>5, DocIs
    <3>4. c \in RowsOf(v) /\ c \in pool
      BY <2>2, <3>3 DEF Own, DocumentOf, RowsOf
    <3>5. m.score <= BestScore(x)
      <4>1. CASE m \in pool
        <5>1. m \in Own(x)
          BY <4>1 DEF Own
        <5> QED BY <1>1, <2>5, <5>1, DocIs
      <4>2. CASE m \notin pool
        <5>1. m.score <= c.score
          BY <1>1, <2>1, <3>4, <4>2, ChunkLeftOut
        <5>2. c.score <= BestScore(x) /\ c.score \in Nat /\ BestScore(x) \in Nat
          BY <1>1, <2>5, <3>3, DocIs
        <5> HIDE DEF x
        <5> QED BY <2>2, <5>1, <5>2
      <4> QED BY <4>1, <4>2
    <3>6. BestScore(x) \in Nat
      BY <1>1, <2>5, DocIs
    <3> HIDE DEF x
    <3> QED BY <2>2, <2>4, <3>2, <3>5, <3>6
  <2>6. CASE DocumentOf(m) \notin Collected
    <3>1. m \notin pool
      BY <2>6 DEF Collected
    <3>2. /\ \A c \in RowsOf(v) : m.score <= c.score
          /\ Cardinality(ChunkRows(v, seen[v][1])) > CandidateLimit(req)
      BY <1>1, <2>1, <3>1, ChunkLeftOut
    <3>3. CASE k.vault = v
      <4>1. PICK c \in Own(y) : c.score = BestScore(y)
        BY <1>1, DocIs
      <4>2. c \in RowsOf(v)
        <5>1. c.vault = y[1] /\ c \in pool
          BY <1>1, DocIs DEF Own
        <5> QED BY <2>4, <3>3, <5>1 DEF RowsOf
      <4> QED BY <2>4, <3>2, <4>1, <4>2
    <3>4. CASE k.vault # v
      BY <2>2, <3>2, <3>4 DEF Crowded, Cramped
    <3> QED BY <3>3, <3>4
  <2> QED BY <2>5, <2>6
<1> QED BY <1>1, <1>2, <1>5, <1>6, <1>7 DEF NothingBetterOmitted

\* Nothing that was left out is better than what is shown.
THEOREM TopOfTheMerge == Spec => []NothingBetterOmitted
<1>1. SearchInv => NothingBetterOmitted
  <2>1. ~Ranked => NothingBetterOmitted
    BY DEF NothingBetterOmitted
  <2> QED BY <2>1, NoRowOmitted, NoDocumentOmitted
<1> QED BY <1>1, InvHolds, PTL

LEMMA DocumentsAsked ==
  ASSUME SearchInv, Done, IsDocument(req)
  PROVE  Finds /\ req.perDocument \in Nat /\ req.perDocument >= 1
<1>1. req.op = "semantic" /\ Validated(req) = NoError /\ req \in Requests
  BY DEF SearchInv, BaseInv, RequestInv, RepliedInv, Done, IsDocument, IsSemantic
<1>2. SemanticError(req) = NoError
  BY <1>1 DEF Validated, NoError
<1>3. req.perDocument \in 1..MaxChunks /\ MaxChunks \in Nat
  BY <1>2, DepthAssumption DEF SemanticError, NoError
<1> QED BY <1>1, <1>3 DEF Finds, Searched

\* The chunks of the text in the file as it was searched.
Chunks(x) == {c \in ChunkRows(x[1], seen[x[1]][1]) : DocumentOf(c) = x}

\* A chunk of a document that was not collected gave way to others of its vault.
LEMMA ChunksCollected ==
  ASSUME SearchInv, Finds, IsSemantic(req), NEW x \in Collected
  PROVE  /\ Own(x) \subseteq Chunks(x)
         /\ \A c \in Chunks(x) \ Own(x) : Cramped(x[1])
<1>1. PICK b \in Own(x) : b.score = BestScore(x)
  BY DocIs
<1>2. b \in pool /\ b.vault = x[1] /\ b.path = x[2] /\ b.score = Score[x[3]]
  BY <1>1, DocIs DEF Own
<1>3. PICK v \in Vaults : v = x[1] /\ seen[v] # Unread
  BY <1>2, PoolIs
<1> DEFINE ix == seen[v][1]
<1>4. /\ ix \in Indexes /\ req \in Requests
      /\ RowsOf(v) \subseteq Hits(req, v, ix)
  BY <1>3, PartsAre, ResponseIs
<1>5. ChunkRows(v, ix) = Source(req, v, ix)
  BY DEF Source
<1> HIDE DEF ix
<1>6. \A c \in ChunkRows(v, ix) : c.vault = v /\ c.score = Score[c.text]
  BY <1>4, <1>5, SourceIs DEF Comparable
<1>7. Own(x) \subseteq Chunks(x)
  <2> SUFFICES ASSUME NEW c \in Own(x) PROVE c \in Chunks(x)
    OBVIOUS
  <2>1. c \in pool /\ DocumentOf(c) = x /\ c.vault = v
    BY <1>3, DocIs DEF Own
  <2>2. c \in ChunkRows(v, ix)
    BY <1>5, <2>1, PoolIs DEF ix
  <2> QED BY <1>3, <2>1, <2>2 DEF Chunks, ix
<1>8. ASSUME NEW c \in Chunks(x) \ Own(x)
      PROVE  Cramped(x[1])
  <2>1. c \in ChunkRows(v, ix) /\ DocumentOf(c) = x
    BY <1>3 DEF Chunks, ix
  <2>2. c \notin pool
    BY <1>8, <2>1 DEF Own
  <2>3. c.path = b.path /\ c.score = b.score
    BY <1>2, <1>6, <2>1 DEF DocumentOf
  <2>4. b \in Hits(req, v, ix)
    BY <1>2, <1>3, <1>4 DEF RowsOf
  <2>5. c \in Hits(req, v, ix)
    BY <1>5, <2>1, <2>3, <2>4, HitsAre
  <2>6. Cardinality(ChunkRows(v, ix)) > CandidateLimit(req)
    BY <1>3, <2>2, <2>5, ChunkLeftOut DEF ix
  <2> QED BY <1>3, <2>6 DEF Cramped, ix
<1> QED BY <1>7, <1>8

\* The first chunks of one text.
LEMMA FirstChunks ==
  ASSUME NEW S, IsFiniteSet(S), S # {}, NEW R, NEW s, Lists(s, S, R),
         \A a, b \in S : <<a, b>> \in R => a.chunk < b.chunk,
         NEW n \in Nat, n >= 1, NEW c, c = Cut(s, n)
  PROVE  /\ c # <<>> /\ Len(c) <= n /\ ToSet(c) \subseteq S
         /\ \A i, j \in DOMAIN c : i < j => c[i].chunk < c[j].chunk
         /\ \A k \in S \ ToSet(c) : Len(c) = n /\ \A i \in DOMAIN c : c[i].chunk < k.chunk
<1>1. /\ c \in Seq(S) /\ Len(c) \in Nat /\ Len(c) <= n /\ ToSet(c) \subseteq S
      /\ \A i, j \in 1..Len(c) : i < j => <<c[i], c[j]>> \in R /\ c[i] # c[j]
      /\ ToSet(c) # S => Len(c) = n
      /\ \A a \in ToSet(c), b \in S \ ToSet(c) : <<a, b>> \in R
  <2>1. /\ Len(Cut(s, n)) \in Nat /\ Len(Cut(s, n)) <= n
        /\ ToSet(Cut(s, n)) \subseteq S
        /\ ToSet(Cut(s, n)) # S => Len(Cut(s, n)) = n
        /\ \A a \in ToSet(Cut(s, n)), b \in S \ ToSet(Cut(s, n)) : <<a, b>> \in R
    BY CutLists, SMTT(30)
  <2>2. /\ c \in Seq(S) /\ Len(c) \in Nat
        /\ Len(c) = IF n <= Len(s) THEN n ELSE Len(s)
        /\ \A i \in 1..Len(c) : c[i] = s[i]
    <3>1. s \in Seq(S)
      BY ListsAre
    <3>2. /\ Cut(s, n) \in Seq(S) /\ Len(Cut(s, n)) \in Nat
          /\ Len(Cut(s, n)) = IF n <= Len(s) THEN n ELSE Len(s)
          /\ \A i \in 1..Len(Cut(s, n)) : Cut(s, n)[i] = s[i]
      BY <3>1, CutIs
    <3> QED BY <3>2
  <2>3. \A i \in 1..Len(c) : i \in 1..Len(s)
    BY <2>2, ListsAre
  <2>4. \A i, j \in 1..Len(c) : i < j => <<c[i], c[j]>> \in R /\ c[i] # c[j]
    BY <2>2, <2>3 DEF Lists
  <2> QED BY <2>1, <2>2, <2>4, ZenonT(60)
<1>2. DOMAIN c = 1..Len(c) /\ \A i \in DOMAIN c : c[i] \in S /\ c[i] \in ToSet(c)
  BY <1>1 DEF ToSet
<1>3. c # <<>>
  <2> SUFFICES ASSUME c = <<>> PROVE FALSE
    OBVIOUS
  <2>1. Len(c) = 0
    OBVIOUS
  <2>2. ToSet(c) = {}
    BY <1>2, <2>1 DEF ToSet
  <2> QED BY <1>1, <2>1, <2>2
<1>4. \A i, j \in DOMAIN c : i < j => c[i].chunk < c[j].chunk
  BY <1>1, <1>2
<1>5. ASSUME NEW k \in S \ ToSet(c)
      PROVE  Len(c) = n /\ \A i \in DOMAIN c : c[i].chunk < k.chunk
  BY <1>1, <1>2, <1>5
<1> QED BY <1>1, <1>3, <1>4, <1>5

\* The evidence of a document is the first of its collected chunks.
LEMMA ChunksOfDocument ==
  ASSUME SearchInv, Finds, IsSemantic(req), NEW x \in Collected,
         req.perDocument \in Nat, req.perDocument >= 1, NEW given, given = DocAt(x).chunks
  PROVE  /\ given # <<>> /\ Len(given) <= req.perDocument /\ ToSet(given) \subseteq Own(x)
         /\ \A i, j \in DOMAIN given : i < j => given[i].chunk < given[j].chunk
         /\ \A c \in Own(x) \ ToSet(given) :
              /\ Len(given) = req.perDocument
              /\ \A i \in DOMAIN given : given[i].chunk < c.chunk
<1> DEFINE own == Own(x)
           s == ScoreSorted(own)
           O == ScoreOrder(own)
<1>1. given = Cut(s, req.perDocument)
  BY DEF DocAt
<1>2. /\ IsFiniteSet(own) /\ own # {} /\ Comparable(req, own)
      /\ \A k \in own : /\ k.vault = x[1] /\ k.path = x[2] /\ k.score = BestScore(x)
                        /\ k.vault \in Nat /\ k.path \in Nat /\ k.score \in Nat /\ k.chunk \in Nat
  BY DocIs DEF Comparable
<1> HIDE DEF own
<1>3. Lists(s, own, O)
  BY <1>2, ListedByScore DEF Comparable
<1>4. \A a, b \in own : <<a, b>> \in O => a.chunk < b.chunk
  BY <1>2 DEF ScoreOrder, ByScore
<1> HIDE DEF s, O
<1>5. /\ given # <<>> /\ Len(given) <= req.perDocument /\ ToSet(given) \subseteq own
      /\ \A i, j \in DOMAIN given : i < j => given[i].chunk < given[j].chunk
      /\ \A k \in own \ ToSet(given) : /\ Len(given) = req.perDocument
                                       /\ \A i \in DOMAIN given : given[i].chunk < k.chunk
  BY <1>1, <1>2, <1>3, <1>4, FirstChunks
<1> QED BY <1>5 DEF own

LEMMA ShownDocumentsWhole == SearchInv => DocumentsWhole
<1> DEFINE own(k) == {c \in ChunkRows(k.vault, seen[k.vault][1]) : DocumentOf(c) = DocumentOf(k)}
<1> SUFFICES ASSUME SearchInv, Done, IsDocument(req), NEW k \in Shown
             PROVE  /\ Cardinality({d \in Shown : DocumentOf(d) = DocumentOf(k)}) = 1
                    /\ k.score = Score[k.text]
                    /\ k.chunks # <<>> /\ Len(k.chunks) <= req.perDocument
                    /\ ToSet(k.chunks) \subseteq own(k)
                    /\ \A i, j \in DOMAIN k.chunks : i < j => k.chunks[i].chunk < k.chunks[j].chunk
                    /\ \A c \in own(k) \ ToSet(k.chunks) :
                         \/ Cramped(k.vault)
                         \/ /\ Len(k.chunks) = req.perDocument
                            /\ \A i \in DOMAIN k.chunks : k.chunks[i].chunk < c.chunk
  BY DEF DocumentsWhole
<1>1. Finds /\ IsSemantic(req) /\ req.perDocument \in Nat /\ req.perDocument >= 1
  BY DocumentsAsked DEF IsDocument
<1>2. PICK x \in Collected : k = DocAt(x)
  BY <1>1, DocumentsShown
<1>3. /\ \A d \in Shown : \E y \in Collected : d = DocAt(y)
      /\ \A y \in Collected : DocumentOf(DocAt(y)) = y
  BY <1>1, DocumentsShown, DocumentsOfPool
<1>4. {d \in Shown : DocumentOf(d) = DocumentOf(k)} = {k}
  BY <1>2, <1>3
<1>5. Cardinality({d \in Shown : DocumentOf(d) = DocumentOf(k)}) = 1
  BY <1>4, FS_Singleton
<1>6. k.vault = x[1] /\ k.text = x[3] /\ k.score = BestScore(x) /\ DocumentOf(k) = x
  BY <1>2, <1>3 DEF DocAt
<1>7. k.score = Score[k.text]
  BY <1>1, <1>6, DocIs
<1>8. own(k) = Chunks(x)
  BY <1>6 DEF Chunks
<1> HIDE DEF own
<1> DEFINE given == k.chunks
<1>9. /\ given # <<>> /\ Len(given) <= req.perDocument /\ ToSet(given) \subseteq Own(x)
      /\ \A i, j \in DOMAIN given : i < j => given[i].chunk < given[j].chunk
      /\ \A c \in Own(x) \ ToSet(given) : /\ Len(given) = req.perDocument
                                          /\ \A i \in DOMAIN given : given[i].chunk < c.chunk
  BY <1>1, <1>2, ChunksOfDocument
<1>10. Own(x) \subseteq Chunks(x) /\ \A c \in Chunks(x) \ Own(x) : Cramped(x[1])
  BY <1>1, ChunksCollected
<1> QED BY <1>5, <1>6, <1>7, <1>8, <1>9, <1>10

\* A document, one text of one file, is shown once, with as many of the chunks of this
\* text as were asked for, from the first on, unless the vault had more than candidates.
THEOREM DocumentsAreWhole == Spec => []DocumentsWhole
BY InvHolds, ShownDocumentsWhole, PTL

----------------------------------------------------------------------------
(* A get answers for every path.                                           *)

Items == [vault : Nat, path : Nat, chunk : Nat, score : Nat]

\* The path that the i-th one of the request is looked up as.
PathAt(r, i) == LET s == Normalize(r.paths[i]) IN IF Valid(s) THEN s.path ELSE 0

ItemAt(r, k, i) == k \in Items /\ k.chunk = i /\ k.path = PathAt(r, i)

\* The searched vaults have one item for each path, and the one at the head
\* of todo has those that were read.
GetInv ==
  req.op = "get" =>
    /\ reading \in Seq(Items)
    /\ pc = "search" => /\ Len(reading) < Len(req.paths)
                        /\ \A i \in 1..Len(reading) : /\ ItemAt(req, reading[i], i)
                                                      /\ reading[i].vault = Head1
    /\ IsFiniteSet(pool)
    /\ \A k \in pool : /\ k.vault \in Vaults /\ seen[k.vault] # Unread
                       /\ k.chunk \in 1..Len(req.paths) /\ ItemAt(req, k, k.chunk)
    /\ \A a, b \in pool : a.vault = b.vault /\ a.chunk = b.chunk => a = b
    /\ \A v \in Vaults : seen[v] # Unread =>
         \A i \in 1..Len(req.paths) : \E k \in pool : k.vault = v /\ k.chunk = i

LEMMA PathsAsked ==
  ASSUME req \in Requests, req.op = "get"
  PROVE  /\ req.paths \in Seq(Spellings) /\ Len(req.paths) \in Nat
         /\ DOMAIN req.paths = 1..Len(req.paths)
         /\ Validated(req) = NoError => Len(req.paths) > 0
         /\ \A i \in 1..Len(req.paths) : PathAt(req, i) \in Nat
<1>1. req.paths \in Seq(Spellings) /\ Len(req.paths) \in Nat /\ DOMAIN req.paths = 1..Len(req.paths)
  BY RequestIs
<1>2. Validated(req) = NoError => Len(req.paths) > 0
  <2>1. Validated(req) = NoError => req.paths # <<>>
    BY DEF Validated, GetError, NoError
  <2> QED BY <1>1, <2>1
<1>3. ASSUME NEW i \in 1..Len(req.paths)
      PROVE  PathAt(req, i) \in Nat
  <2>1. req.paths[i] \in Spellings
    BY <1>1
  <2>2. Normalize(req.paths[i]).path \in Paths
    BY <2>1 DEF Normalize, Spellings
  <2> QED BY <2>2, IdsAssumption DEF PathAt
<1> QED BY <1>1, <1>2, <1>3

LEMMA ItemIs ==
  ASSUME req \in Requests, req.op = "get", NEW i \in 1..Len(req.paths), NEW v \in Vaults, NEW ix
  PROVE  ItemAt(req, Item(req, v, ix, i), i) /\ Item(req, v, ix, i).vault = v
<1>1. /\ Item(req, v, ix, i) = Row(v, PathAt(req, i), i, IF PathAt(req, i) \in DOMAIN ix THEN 1 ELSE 0)
      /\ PathAt(req, i) \in Nat /\ v \in Nat /\ i \in Nat
  BY PathsAsked, IdsAssumption DEF Item, PathAt
<1> QED BY <1>1 DEF Row, ItemAt, Items

LEMMA GetKept ==
  ASSUME GetInv, UNCHANGED <<req, pool, seen>>,
         \/ UNCHANGED <<reading, todo, pc>>
         \/ pc' # "search" /\ reading' = reading
         \/ reading' = <<>> /\ (req.op = "get" => Len(req.paths) > 0)
  PROVE  GetInv'
<1> SUFFICES ASSUME req.op = "get" PROVE GetInv'
  BY DEF GetInv
<1>1. /\ IsFiniteSet(pool)'
      /\ (\A k \in pool : /\ k.vault \in Vaults /\ seen[k.vault] # Unread
                          /\ k.chunk \in 1..Len(req.paths) /\ ItemAt(req, k, k.chunk))'
      /\ (\A a, b \in pool : a.vault = b.vault /\ a.chunk = b.chunk => a = b)'
      /\ (\A v \in Vaults : seen[v] # Unread =>
           \A i \in 1..Len(req.paths) : \E k \in pool : k.vault = v /\ k.chunk = i)'
  BY DEF GetInv
<1>2. reading' \in Seq(Items)
  <2>1. reading' = reading \/ reading' = <<>>
    OBVIOUS
  <2>2. reading \in Seq(Items)
    BY DEF GetInv
  <2>3. \A s : s = <<>> => s \in Seq(Items)
    OBVIOUS
  <2> QED BY <2>1, <2>2, <2>3
<1>3. (pc = "search" => /\ Len(reading) < Len(req.paths)
                        /\ \A i \in 1..Len(reading) : /\ ItemAt(req, reading[i], i)
                                                      /\ reading[i].vault = Head1)'
  <2>1. CASE UNCHANGED <<reading, todo, pc>>
    BY <2>1 DEF GetInv, Head1
  <2>2. CASE pc' # "search"
    BY <2>2
  <2>3. CASE reading' = <<>> /\ Len(req.paths) > 0
    <3>1. Len(reading') = 0
      BY <2>3
    <3> QED BY <2>3, <3>1
  <2> QED BY <2>1, <2>2, <2>3
<1> QED BY <1>1, <1>2, <1>3 DEF GetInv

LEMMA PathGot ==
  ASSUME BaseInv, OutcomeInv, GetInv, GetPath
  PROVE  GetInv'
<1>1. /\ req.op = "get" /\ req' = req /\ req \in Requests /\ Asking /\ pc = "search" /\ pc' = pc
      /\ Head1 \in Vaults /\ Validated(req) = NoError
  BY HeadIs DEF GetPath, BaseInv, RequestInv, StartInv, Asking
<1> PICK h \in Vaults : h = Head1
  BY <1>1
<1> DEFINE n == Len(reading) + 1
           item == Item(req, h, index[h], n)
<1>2. /\ reading \in Seq(Items) /\ Len(reading) \in Nat /\ n <= Len(req.paths)
      /\ \A i \in 1..Len(reading) : ItemAt(req, reading[i], i) /\ reading[i].vault = h
      /\ Len(req.paths) \in Nat /\ Len(req.paths) > 0
  BY <1>1, PathsAsked DEF GetInv
<1>3. n \in 1..Len(req.paths)
  BY <1>2
<1>4. ItemAt(req, item, n) /\ item.vault = h
  BY <1>1, <1>3, ItemIs
<1> HIDE DEF item
<1>5. item \in Items
  BY <1>4 DEF ItemAt
<1>6. CASE n # Len(req.paths)
  <2>1. reading' = Append(reading, item) /\ UNCHANGED <<todo, pool, seen>>
    BY <1>6 DEF GetPath, item
  <2>2. /\ reading' \in Seq(Items) /\ Len(reading') = n
        /\ \A i \in 1..n : reading'[i] = IF i = n THEN item ELSE reading[i]
    BY <1>2, <1>5, <2>1, AppendProperties
  <2>3. \A i \in 1..n : ItemAt(req, reading'[i], i) /\ reading'[i].vault = h
    BY <1>2, <1>4, <2>2
  <2>4. Head1' = Head1
    BY <2>1 DEF Head1
  <2>5. n < Len(req.paths)
    BY <1>2, <1>6
  <2>6. (pc = "search" => /\ Len(reading) < Len(req.paths)
                          /\ \A i \in 1..Len(reading) : /\ ItemAt(req, reading[i], i)
                                                        /\ reading[i].vault = Head1)'
    BY <1>1, <2>2, <2>3, <2>4, <2>5
  <2> HIDE DEF n
  <2> QED BY <1>1, <2>1, <2>2, <2>6 DEF GetInv
<1>7. CASE n = Len(req.paths)
  <2>1. /\ reading' = <<>> /\ pool' = pool \cup ToSet(reading) \cup {item}
        /\ seen' = [seen EXCEPT ![h] = <<index[h]>>]
    BY <1>7 DEF GetPath, Step, item
  <2> DEFINE new == ToSet(reading) \cup {item}
  <2>2. /\ \A k : k \in ToSet(reading) <=> \E i \in 1..Len(reading) : k = reading[i]
        /\ IsFiniteSet(ToSet(reading))
    <3>1. DOMAIN reading = 1..Len(reading)
      BY <1>2
    <3>2. ToSet(reading) = {reading[i] : i \in 1..Len(reading)}
      BY <3>1 DEF ToSet
    <3>3. IsFiniteSet(1..Len(reading))
      BY <1>2, FS_Interval
    <3>4. IsFiniteSet({reading[i] : i \in 1..Len(reading)})
      <4> DEFINE D == 1..Len(reading)
      <4>1. DOMAIN reading = D /\ reading = [x \in D |-> reading[x]] /\ IsFiniteSet(D)
        BY <1>2, <3>1, <3>3
      <4>2. IsFiniteSet({reading[x] : x \in D})
        <5> HIDE DEF D
        <5> QED BY <4>1, ImageFinite
      <4> QED BY <4>2
    <3> QED BY <3>2, <3>4
  <2>3. /\ \A k \in new : k.vault = h /\ k.chunk \in 1..n /\ ItemAt(req, k, k.chunk)
        /\ \A a, b \in new : a.chunk = b.chunk => a = b
        /\ \A i \in 1..n : \E k \in new : k.vault = h /\ k.chunk = i
    <3>1. \A k \in ToSet(reading) : /\ k.vault = h /\ k.chunk \in 1..Len(reading)
                                    /\ ItemAt(req, k, k.chunk) /\ k = reading[k.chunk]
      BY <1>2, <2>2 DEF ItemAt
    <3>2. item.vault = h /\ item.chunk = n /\ ItemAt(req, item, item.chunk)
      BY <1>4 DEF ItemAt
    <3>3. \A a, b \in new : a.chunk = b.chunk => a = b
      BY <1>2, <3>1, <3>2
    <3>4. ASSUME NEW i \in 1..n
          PROVE  \E k \in new : k.vault = h /\ k.chunk = i
      <4>1. CASE i = n
        BY <3>2, <4>1
      <4>2. CASE i # n
        <5>1. i \in 1..Len(reading)
          BY <1>2, <4>2
        <5>2. reading[i] \in ToSet(reading) /\ reading[i].vault = h /\ reading[i].chunk = i
          BY <1>2, <2>2, <5>1 DEF ItemAt
        <5> QED BY <5>2
      <4> QED BY <4>1, <4>2
    <3>5. \A k \in new : k.vault = h /\ k.chunk \in 1..n /\ ItemAt(req, k, k.chunk)
      BY <1>2, <3>1, <3>2
    <3> QED BY <3>3, <3>4, <3>5
  <2>4. IsFiniteSet(new)
    BY <2>2, FS_AddElement
  <2>5. seen[h] = Unread
    <3>1. Queued(h)
      BY <1>1, HeadIs DEF Queued
    <3> QED BY <1>1, <3>1 DEF OutcomeInv, Searching, OutcomeOf
  <2>6. /\ IsFiniteSet(pool)
        /\ \A k \in pool : /\ k.vault \in Vaults /\ seen[k.vault] # Unread
                           /\ k.chunk \in 1..Len(req.paths) /\ ItemAt(req, k, k.chunk)
        /\ \A a, b \in pool : a.vault = b.vault /\ a.chunk = b.chunk => a = b
        /\ \A v \in Vaults : seen[v] # Unread =>
             \A i \in 1..Len(req.paths) : \E k \in pool : k.vault = v /\ k.chunk = i
    BY <1>1 DEF GetInv
  <2>7. seen'[h] = <<index[h]>> /\ \A v \in Vaults : v # h => seen'[v] = seen[v]
    BY <2>1 DEF BaseInv, RequestInv
  <2>8. pool' = pool \cup new
    BY <2>1
  <2> HIDE DEF new
  <2>9. IsFiniteSet(pool')
    BY <2>4, <2>6, <2>8, FS_Union
  <2>10. \A k \in pool' : /\ k.vault \in Vaults /\ seen'[k.vault] # Unread
                          /\ k.chunk \in 1..Len(req.paths) /\ ItemAt(req, k, k.chunk)
    <3>1. \A k \in pool : k.vault # h /\ seen'[k.vault] = seen[k.vault]
      BY <2>5, <2>6, <2>7
    <3>2. seen'[h] # Unread
      BY <2>7 DEF Unread
    <3> QED BY <1>7, <2>3, <2>6, <2>8, <3>1, <3>2
  <2>11. \A a, b \in pool' : a.vault = b.vault /\ a.chunk = b.chunk => a = b
    <3>1. \A k \in pool : k.vault # h
      BY <2>5, <2>6
    <3> QED BY <2>3, <2>6, <2>8, <3>1
  <2>12. \A v \in Vaults : seen'[v] # Unread =>
           \A i \in 1..Len(req.paths) : \E k \in pool' : k.vault = v /\ k.chunk = i
    BY <1>7, <2>3, <2>6, <2>7, <2>8
  <2>13. reading' \in Seq(Items) /\ Len(reading') = 0
    BY <2>1
  <2>14. (pc = "search" => /\ Len(reading) < Len(req.paths)
                           /\ \A i \in 1..Len(reading) : /\ ItemAt(req, reading[i], i)
                                                         /\ reading[i].vault = Head1)'
    BY <1>1, <1>2, <2>13
  <2> QED BY <1>1, <2>9, <2>10, <2>11, <2>12, <2>13, <2>14 DEF GetInv
<1> QED BY <1>6, <1>7

LEMMA GetStep == BaseInv /\ OutcomeInv /\ GetInv /\ [Next]_vars => GetInv'
<1> SUFFICES ASSUME BaseInv, OutcomeInv, GetInv, [Next]_vars
             PROVE  GetInv'
  OBVIOUS
<1>1. ASSUME pc = "search" \/ pc = "listed", req.op = "get"
      PROVE  Len(req.paths) > 0
  BY <1>1, PathsAsked DEF BaseInv, RequestInv, StartInv
<1>2. CASE ListRows \/ ListFails
  <2>1. pc' # "search" /\ UNCHANGED <<req, pool, seen, reading>>
    BY <1>2 DEF ListRows, ListFails, Refuse, Reply
  <2> QED BY <2>1, GetKept
<1>3. CASE TakeEntries
  <2>1. reading' = <<>> /\ UNCHANGED <<req, pool, seen>> /\ pc = "listed"
    BY <1>3 DEF TakeEntries, BaseInv, StartInv
  <2> QED BY <1>1, <2>1, GetKept
<1>4. CASE PassVault \/ VaultFails
  <2>1. reading' = <<>> /\ UNCHANGED <<req, pool, seen>> /\ pc = "search"
    BY <1>4 DEF PassVault, VaultFails, Faulty, Asking, SkipVault, FailVault, Step
  <2> QED BY <1>1, <2>1, GetKept
<1>5. CASE SearchVault \/ DebugCandidates \/ DebugFile \/ DebugChunks \/ DebugFails \/ DebugAnswer
           \/ EmbedderDown
  BY <1>5 DEF SearchVault, DebugCandidates, DebugFile, DebugChunks, DebugFails, DebugAnswer,
              EmbedderDown, IsSemantic, GetInv
<1>6. CASE GetPath
  BY <1>6, PathGot
<1>7. CASE Merge
  BY <1>7, GetKept DEF Merge, Reply
<1>8. CASE (\E v \in Vaults : RowChanges(v) \/ EntryChanges(v) \/ Reindexed(v)) \/ UNCHANGED vars
  <2>1. UNCHANGED <<req, pool, seen, reading, todo, pc>>
    BY <1>8, VaultsMeanwhile DEF Meanwhile, BaseInv
  <2> QED BY <2>1, GetKept
<1> QED BY <1>2, <1>3, <1>4, <1>5, <1>6, <1>7, <1>8 DEF Next

----------------------------------------------------------------------------
(* The debug handler finds the vaults that have the path.                  *)

Had(v) == seen[v] # Unread /\ Wanted \in DOMAIN seen[v][1]

\* A vault that has the path is collected, or at the head of todo with its chunks unread.
DebugInv ==
  req.op = "debug" =>
    /\ pc = "search" => \A i \in 1..Len(todo) : todo[i].entry # NoEntry
    /\ pc = "search" => \A f \in pool : ~Queued(f.vault)
    /\ \A f \in pool : f.vault \in Vaults
    /\ IsFiniteSet(pool)
    /\ reading # <<>> => pc # "search" \/ todo # <<>>
    /\ pc = "search" => \A v \in Vaults :
         Had(v) <=> (\E f \in pool : f.vault = v) \/ (reading # <<>> /\ v = Head1)

FoundInv ==
  pc = "done" /\ req.op = "debug" =>
    LET having == {v \in Answered : Wanted \in DOMAIN seen[v][1]} IN
    /\ answer.error = NoError => having = {answer.results[1].vault}
    /\ answer.error = "path_not_found" => having = {}

LEMMA DebugKept ==
  ASSUME DebugInv, UNCHANGED <<req, pool, seen, todo, reading, pc>>
  PROVE  DebugInv'
BY DEF DebugInv, Queued, Had, Wanted, Head1

LEMMA DebugEntered ==
  ASSUME BaseInv, DebugInv, DebugCandidates
  PROVE  DebugInv'
<1>1. /\ pc = "listed" /\ req.op = "debug" /\ UNCHANGED <<req, reading, pool, seen, listed, live>>
      /\ reading = <<>> /\ pool = {} /\ \A v \in Vaults : seen[v] = Unread
  BY DEF DebugCandidates, BaseInv, StartInv, envVars
<1>2. CASE Candidates = {}
  <2>1. pc' = "done"
    BY <1>2 DEF DebugCandidates, Refuse, Reply
  <2> QED BY <1>1, <2>1 DEF DebugInv
<1>3. CASE Candidates # {}
  <2> DEFINE s == IdSorted(Candidates)
             n == Cardinality(Candidates)
  <2>1. IsFiniteSet(Candidates) /\ Candidates \subseteq Nat
    BY IdsAssumption, FS_Subset DEF Candidates
  <2>2. n \in Nat /\ \A i \in 1..n : s[i] \in Candidates
    <3>1. Lists(s, Candidates, IdOrder(Candidates)) /\ n \in Nat
      BY <2>1, ListedById, FS_CardinalityType
    <3> HIDE DEF s
    <3>2. Len(s) = n
      BY <3>1 DEF Lists
    <3>3. \A i \in 1..Len(s) : s[i] \in Candidates
      BY <3>1, ListsAre
    <3> QED BY <3>1, <3>2, <3>3
  <2>3. todo' = [i \in 1..n |-> [vault |-> s[i], status |-> "active", entry |-> live[s[i]]]]
    BY <1>3 DEF DebugCandidates, IdSorted, Sorted
  <2> HIDE DEF s, n
  <2>4. Len(todo') = n /\ \A i \in 1..n : todo'[i].entry = live[s[i]]
    BY <2>2, <2>3
  <2>5. \A i \in 1..Len(todo') : todo'[i].entry # NoEntry
    BY <2>2, <2>4 DEF Candidates
  <2> QED BY <1>1, <2>5, FS_EmptySet DEF DebugInv, Had
<1> QED BY <1>2, <1>3

LEMMA FileLookedUp ==
  ASSUME BaseInv, DebugInv, DebugFile
  PROVE  DebugInv'
<1>1. /\ Asking /\ pc = "search" /\ req.op = "debug" /\ reading = <<>>
      /\ UNCHANGED <<req, pc, pool>> /\ Wanted' = Wanted /\ todo # <<>>
  BY DEF DebugFile, Asking, Wanted
<1> PICK h \in Vaults : h = Head1
  BY <1>1, HeadIs
<1>2. seen'[h] = <<index[h]>> /\ \A v \in Vaults : v # h => seen'[v] = seen[v]
  BY DEF DebugFile, BaseInv, RequestInv
<1>3. /\ \A i \in 1..Len(todo) : todo[i].entry # NoEntry
      /\ \A f \in pool : ~Queued(f.vault) /\ f.vault \in Vaults
      /\ IsFiniteSet(pool)
      /\ \A v \in Vaults : Had(v) <=> \E f \in pool : f.vault = v
  BY <1>1 DEF DebugInv
<1>4. Queued(h)
  BY <1>1, HeadIs DEF Queued
<1>5. /\ \A v \in Vaults : v # h => (Had(v)' <=> Had(v))
      /\ Had(h)' <=> Wanted \in DOMAIN index[h]
  <2>1. Had(h)' <=> Wanted \in DOMAIN index[h]
    BY <1>1, <1>2 DEF Had, Unread
  <2>2. \A v \in Vaults : v # h => (Had(v)' <=> Had(v))
    BY <1>1, <1>2 DEF Had
  <2> QED BY <2>1, <2>2
<1>6. \A f \in pool : f.vault # h
  BY <1>3, <1>4
<1>7. CASE Wanted \in DOMAIN index[h]
  <2>1. reading' = <<index[h][Wanted]>> /\ todo' = todo
    BY <1>7 DEF DebugFile
  <2>2. reading' # <<>> /\ Head1' = h
    BY <2>1 DEF Head1
  <2>3. \A v \in Vaults : Had(v)' <=> (\E f \in pool : f.vault = v) \/ v = h
    BY <1>3, <1>5, <1>7
  <2> QED BY <1>1, <1>3, <2>1, <2>2, <2>3 DEF DebugInv, Queued
<1>8. CASE Wanted \notin DOMAIN index[h]
  <2>1. reading' = <<>> /\ todo' = Tail(todo)
    BY <1>8 DEF DebugFile, Step
  <2>2. /\ \A v : Queued(v)' => Queued(v)
        /\ \A i \in 1..Len(todo') : \E j \in 1..Len(todo) : todo'[i] = todo[j]
    <3>1. \A i \in 1..Len(todo') : i + 1 \in 1..Len(todo) /\ todo'[i] = todo[i + 1]
      BY <1>1, <2>1, HeadTailProperties DEF BaseInv, RequestInv
    <3> QED BY <3>1 DEF Queued
  <2>3. \A v \in Vaults : Had(v)' <=> \E f \in pool : f.vault = v
    BY <1>3, <1>5, <1>6, <1>8
  <2> QED BY <1>1, <1>3, <2>1, <2>2, <2>3 DEF DebugInv
<1> QED BY <1>7, <1>8

LEMMA ChunksLookedUp ==
  ASSUME BaseInv, DebugInv, DebugChunks
  PROVE  DebugInv'
<1>1. /\ Asking /\ pc = "search" /\ req.op = "debug" /\ reading # <<>> /\ todo # <<>>
      /\ UNCHANGED <<req, pc, seen>> /\ Wanted' = Wanted
      /\ reading' = <<>> /\ todo' = Tail(todo)
  BY DEF DebugChunks, Asking, Wanted, Step
<1> PICK h \in Vaults : h = Head1
  BY <1>1, HeadIs
<1>2. PICK f : f.vault = h /\ pool' = pool \cup {f}
  <2> DEFINE f == [vault |-> h, path |-> Wanted, text |-> reading[1],
                   chunks |-> IF Wanted \in DOMAIN index[h] THEN index[h][Wanted] ELSE <<>>]
  <2>1. f.vault = h /\ pool' = pool \cup {f}
    BY DEF DebugChunks
  <2> QED BY <2>1
<1>3. /\ \A i \in 1..Len(todo) : todo[i].entry # NoEntry
      /\ \A g \in pool : ~Queued(g.vault) /\ g.vault \in Vaults
      /\ IsFiniteSet(pool)
      /\ \A v \in Vaults : Had(v) <=> (\E g \in pool : g.vault = v) \/ v = h
  BY <1>1 DEF DebugInv
<1>4. \A i \in 1..Len(todo') : i + 1 \in 1..Len(todo) /\ todo'[i] = todo[i + 1]
  BY <1>1, HeadTailProperties DEF BaseInv, RequestInv
<1>5. \A v : Queued(v)' <=> Queued(v) /\ v # h
  BY <1>1, TailOfTodo DEF Queued, BaseInv, RequestInv
<1>6. \A v \in Vaults : Had(v)' <=> Had(v)
  BY <1>1 DEF Had
<1>7. \A g \in pool' : ~Queued(g.vault)' /\ g.vault \in Vaults
  BY <1>2, <1>3, <1>5
<1>8. IsFiniteSet(pool')
  BY <1>2, <1>3, FS_AddElement
<1>9. \A v \in Vaults : Had(v)' <=> \E g \in pool' : g.vault = v
  BY <1>2, <1>3, <1>6
<1>10. \A i \in 1..Len(todo') : todo'[i].entry # NoEntry
  BY <1>3, <1>4
<1> QED BY <1>1, <1>7, <1>8, <1>9, <1>10 DEF DebugInv

LEMMA DebugStep == BaseInv /\ DebugInv /\ [Next]_vars => DebugInv'
<1> SUFFICES ASSUME BaseInv, DebugInv, [Next]_vars
             PROVE  DebugInv'
  OBVIOUS
<1>1. ASSUME UNCHANGED <<req, pool, todo, reading>>, pc' # "search"
      PROVE  DebugInv'
  BY <1>1 DEF DebugInv
<1>2. CASE ListRows \/ ListFails
  <2>1. UNCHANGED <<req, pool, todo, reading>> /\ pc' # "search"
    BY <1>2 DEF ListRows, ListFails, Refuse, Reply
  <2> QED BY <1>1, <2>1
<1>3. CASE TakeEntries \/ SearchVault \/ GetPath \/ VaultFails \/ EmbedderDown \/ Merge
  BY <1>3 DEF TakeEntries, SearchVault, GetPath, VaultFails, EmbedderDown, Merge, IsSemantic, DebugInv
<1>4. CASE PassVault
  <2>1. /\ todo # <<>> /\ pc = "search" /\ req' = req /\ Head(todo).entry = NoEntry
        /\ Len(todo) \in Nat /\ Len(todo) > 0 /\ Head(todo) = todo[1]
    BY <1>4, HeadTailProperties DEF PassVault, Asking, BaseInv, RequestInv
  <2>2. 1 \in 1..Len(todo)
    BY <2>1
  <2>3. req.op # "debug"
    BY <2>1, <2>2 DEF DebugInv
  <2> QED BY <2>1, <2>3 DEF DebugInv
<1>5. CASE DebugCandidates
  BY <1>5, DebugEntered
<1>6. CASE DebugFile
  BY <1>6, FileLookedUp
<1>7. CASE DebugChunks
  BY <1>7, ChunksLookedUp
<1>8. CASE DebugFails \/ DebugAnswer
  <2>1. UNCHANGED <<req, pool, todo, reading>> /\ pc' # "search"
    BY <1>8 DEF DebugFails, DebugAnswer, Refuse, Reply
  <2> QED BY <1>1, <2>1
<1>9. CASE (\E v \in Vaults : RowChanges(v) \/ EntryChanges(v) \/ Reindexed(v)) \/ UNCHANGED vars
  BY <1>9, VaultsMeanwhile, DebugKept DEF Meanwhile, BaseInv
<1> QED BY <1>2, <1>3, <1>4, <1>5, <1>6, <1>7, <1>8, <1>9 DEF Next

LEMMA FileAnswered ==
  ASSUME BaseInv, DebugInv, DebugAnswer
  PROVE  FoundInv'
<1>1. /\ pc = "search" /\ todo = <<>> /\ req.op = "debug" /\ UNCHANGED <<req, seen, pool>>
      /\ Wanted' = Wanted
  BY DEF DebugAnswer, Wanted
<1> DEFINE having == {v \in Answered : Wanted \in DOMAIN seen[v][1]}
<1>2. having' = having
  BY <1>1 DEF Answered
<1>3. \A v \in Vaults : v \in having <=> \E f \in pool : f.vault = v
  BY <1>1 DEF DebugInv, Answered, Had
<1>4. having \subseteq Vaults /\ (\A f \in pool : f.vault \in Vaults) /\ IsFiniteSet(pool)
  BY <1>1 DEF Answered, DebugInv
<1> HIDE DEF having
<1>5. /\ answer'.error = NoError => having = {answer'.results[1].vault}
      /\ answer'.error = "path_not_found" => having = {}
  <2>1. CASE pool = {}
    <3>1. answer'.error = "path_not_found"
      BY <2>1, RefusalIs DEF DebugAnswer
    <3> QED BY <1>3, <1>4, <2>1, <3>1 DEF NoError
  <2>2. CASE pool # {} /\ Cardinality(pool) > 1
    <3>1. answer'.error = "invalid_request"
      BY <2>2, RefusalIs DEF DebugAnswer
    <3> QED BY <3>1 DEF NoError
  <2>3. CASE pool # {} /\ ~ (Cardinality(pool) > 1)
    <3> DEFINE f == CHOOSE g \in pool : TRUE
    <3>1. /\ answer' = [NoAnswer EXCEPT !.error = NoError, !.results = <<Explain(req, f)>>]
      BY <2>3 DEF DebugAnswer, Reply
    <3>2. f \in pool
      BY <2>3
    <3> HIDE DEF f
    <3>3. answer'.error = NoError /\ answer'.results = <<Explain(req, f)>>
      BY <3>1 DEF NoAnswer
    <3>4. Explain(req, f).vault = f.vault
      BY DEF Explain
    <3>5. answer'.results[1].vault = f.vault
      BY <3>3, <3>4
    <3>6. pool = {f}
      <4>1. Cardinality(pool) \in Nat /\ Cardinality(pool) <= 1
        BY <1>4, <2>3, FS_CardinalityType
      <4>2. IsFiniteSet({f}) /\ Cardinality({f}) = 1 /\ {f} \subseteq pool
        BY <3>2, FS_Singleton
      <4>3. Cardinality({f}) <= Cardinality(pool) /\ (Cardinality({f}) = Cardinality(pool) => {f} = pool)
        BY <1>4, <4>2, FS_Subset
      <4> QED BY <4>1, <4>2, <4>3
    <3>7. having = {f.vault}
      BY <1>3, <1>4, <3>6
    <3> QED BY <3>3, <3>5, <3>7 DEF NoError
  <2> QED BY <2>1, <2>2, <2>3
<1> QED BY <1>1, <1>2, <1>5 DEF FoundInv, having

LEMMA DebugErrors ==
  ASSUME req.op = "debug"
  PROVE  Validated(req) # "path_not_found"
BY DEF Validated, DebugError, NoError

LEMMA FoundStep ==
  ASSUME BaseInv, DebugInv, FoundInv, [Next]_vars
  PROVE  FoundInv'
<1>1. CASE pc = "done"
  <2>1. Meanwhile
    BY <1>1, DoneStays
  <2>2. Answered' = Answered /\ Wanted' = Wanted
    BY <2>1 DEF Meanwhile, Answered, Wanted
  <2> QED BY <2>1, <2>2 DEF Meanwhile, FoundInv
<1>2. CASE pc' # "done" \/ req'.op # "debug"
  BY <1>2 DEF FoundInv
<1>3. CASE pc # "done" /\ pc' = "done" /\ req'.op = "debug"
  <2>1. ASSUME NEW e, Refuse(e), e # NoError, e # "path_not_found"
        PROVE  FoundInv'
    <3>1. answer'.error = e
      BY <2>1, RefusalIs
    <3> QED BY <2>1, <3>1 DEF FoundInv
  <2>2. CASE ListRows
    <3>1. Validated(req) # "none" /\ Refuse(Validated(req)) /\ req' = req
      BY <1>3, <2>2 DEF ListRows
    <3> QED BY <1>3, <2>1, <3>1, DebugErrors DEF NoError
  <2>3. CASE TakeEntries \/ PassVault \/ GetPath \/ VaultFails \/ DebugFile \/ DebugChunks
             \/ SearchVault \/ EmbedderDown \/ Merge
    BY <1>3, <2>3 DEF TakeEntries, PassVault, GetPath, VaultFails, DebugFile, DebugChunks,
                      SearchVault, EmbedderDown, Merge, IsSemantic
  <2>4. CASE DebugCandidates
    <3>1. Refuse("vault_not_found")
      BY <1>3, <2>4 DEF DebugCandidates
    <3> QED BY <2>1, <3>1 DEF NoError
  <2>5. CASE DebugFails
    <3>1. Refuse("debug_chunks_failed")
      BY <2>5 DEF DebugFails
    <3> QED BY <2>1, <3>1 DEF NoError
  <2>6. CASE DebugAnswer
    BY <2>6, FileAnswered
  <2>7. CASE (\E v \in Vaults : RowChanges(v) \/ EntryChanges(v) \/ Reindexed(v)) \/ UNCHANGED vars
    <3>1. pc' = pc
      BY <2>7, VaultsMeanwhile DEF Meanwhile, BaseInv
    <3> QED BY <1>3, <3>1
  <2>8. CASE ListFails
    <3>1. Refuse("registry_corrupt")
      BY <2>8 DEF ListFails
    <3> QED BY <2>1, <3>1 DEF NoError
  <2> QED BY <2>2, <2>3, <2>4, <2>5, <2>6, <2>7, <2>8 DEF Next
<1> QED BY <1>1, <1>2, <1>3

LEMMA AllPathsAnswered ==
  ASSUME SearchInv, GetInv, FoundInv
  PROVE  EveryPathAnswered
<1>1. ASSUME Searched, req.op = "get"
      PROVE  /\ {<<k.vault, k.chunk>> : k \in Shown} = Answered \X DOMAIN req.paths
             /\ \A i, j \in DOMAIN answer.results :
                  LET a == answer.results[i]  b == answer.results[j]
                  IN  i < j => a.path <= b.path /\ (a.path = b.path => a.vault <= b.vault)
  <2>1. answer = Respond(req, pool, acc) /\ req \in Requests
    BY <1>1 DEF SearchInv, RepliedInv, BaseInv, RequestInv
  <2>2. answer.results = ItemSorted(pool)
    BY <1>1, <2>1 DEF Respond, Merged, ItemSorted, Sorted
  <2>3. /\ IsFiniteSet(pool)
        /\ \A k \in pool : /\ k.vault \in Vaults /\ seen[k.vault] # Unread
                           /\ k.chunk \in 1..Len(req.paths) /\ ItemAt(req, k, k.chunk)
        /\ \A a, b \in pool : a.vault = b.vault /\ a.chunk = b.chunk => a = b
        /\ \A v \in Vaults : seen[v] # Unread =>
             \A i \in 1..Len(req.paths) : \E k \in pool : k.vault = v /\ k.chunk = i
    BY <1>1 DEF GetInv
  <2>4. Lists(ItemSorted(pool), pool, ItemOrder(pool))
    <3>1. /\ \A k \in pool : k.path \in Nat /\ k.vault \in Nat /\ k.chunk \in Nat
          /\ \A a, b \in pool : a.chunk = b.chunk /\ a.vault = b.vault => a = b
      BY <2>3 DEF ItemAt, Items
    <3> QED BY <2>3, <3>1, ListedByItem
  <2> DEFINE s == answer.results
             O == ItemOrder(pool)
  <2>5. /\ Lists(s, pool, O)
    BY <2>2, <2>4
  <2> HIDE DEF s
  <2>6. ToSet(s) = pool /\ s \in Seq(pool) /\ Len(s) \in Nat /\ \A i \in 1..Len(s) : s[i] \in pool
    <3> HIDE DEF O
    <3> QED BY <2>5, ListsAre
  <2>7. Shown = pool
    BY <2>6 DEF Shown, s
  <2>8. DOMAIN req.paths = 1..Len(req.paths)
    BY <1>1, <2>1, PathsAsked
  <2>9. {<<k.vault, k.chunk>> : k \in Shown} = Answered \X DOMAIN req.paths
    BY <2>3, <2>7, <2>8 DEF Answered
  <2>10. ASSUME NEW i \in DOMAIN s, NEW j \in DOMAIN s, i < j
         PROVE  s[i].path <= s[j].path /\ (s[i].path = s[j].path => s[i].vault <= s[j].vault)
    <3>1. i \in 1..Len(s) /\ j \in 1..Len(s)
      BY <2>6
    <3>2. <<s[i], s[j]>> \in O
      <4> HIDE DEF O
      <4> QED BY <2>5, <2>10, <3>1 DEF Lists
    <3>3. ByItem(s[i], s[j])
      BY <3>2 DEF ItemOrder
    <3>4. /\ s[i].path \in Nat /\ s[i].vault \in Nat /\ s[j].path \in Nat /\ s[j].vault \in Nat
      BY <2>3, <2>6, <3>1 DEF ItemAt, Items
    <3> QED BY <3>3, <3>4 DEF ByItem, ByPath
  <2> QED BY <2>9, <2>10 DEF s
<1> QED BY <1>1 DEF FoundInv, EveryPathAnswered

\* A get answers once for every path and searched vault, and the debug
\* handler for the one vault that has the path.
THEOREM PathsAnswered == Spec => []EveryPathAnswered
<1> DEFINE All == SearchInv /\ GetInv /\ DebugInv /\ FoundInv
<1>1. Init => GetInv /\ DebugInv /\ FoundInv
  <2> SUFFICES ASSUME Init PROVE GetInv /\ DebugInv /\ FoundInv
    OBVIOUS
  <2>1. \A s : s = <<>> => s \in Seq(Items)
    OBVIOUS
  <2> QED BY <2>1, FS_EmptySet DEF Init, GetInv, DebugInv, FoundInv
<1>2. SearchInv /\ GetInv /\ DebugInv /\ FoundInv /\ [Next]_vars => GetInv' /\ DebugInv' /\ FoundInv'
  BY GetStep, DebugStep, FoundStep DEF SearchInv
<1>3. SearchInv /\ GetInv /\ DebugInv /\ FoundInv => EveryPathAnswered
  BY AllPathsAnswered
<1> QED BY <1>1, <1>2, <1>3, InvHolds, PTL DEF Spec
=============================================================================

------------------------------ MODULE EmbedBatch ------------------------------
(***************************************************************************)
(* The client of the embedding service (embedding.rs).  Several tasks use  *)
(* it at the same time: the indexers of all vaults through embed_many, the *)
(* searches and the health probe through embed.  What they share is        *)
(* max_batch, the largest request the client still sends.  It is lowered   *)
(* when the service turns out to reject requests of that size.             *)
(*                                                                         *)
(* A text stands for itself and for its vector.  The service accepts at    *)
(* most Limit inputs in a request and rejects every request that holds a   *)
(* text of Bad.  It may also fail in any other way, and its answers may    *)
(* break the contract of the /v1/embeddings endpoint.                      *)
(***************************************************************************)
EXTENDS Integers, Sequences, FiniteSets

CONSTANTS Calls,       \* the calls made of the client
          Texts,       \* the texts to embed
          Bad,         \* texts the service rejects in a request of any size
          Inputs,      \* the sequences of texts embed_many is called with
          Queries,     \* the texts embed is called with
          Limits,      \* what the service may accept at most, one of these
          BatchSize,   \* embedding.batch_size
          MaxRetries   \* embedding.max_retries

ASSUME TextsAssumption   == Bad \cup Queries \subseteq Texts /\ Inputs \subseteq Seq(Texts)
ASSUME LimitsAssumption  == Limits \subseteq Nat \ {0}
ASSUME BatchAssumption   == BatchSize \in Nat \ {0}
ASSUME RetriesAssumption == MaxRetries \in Nat

VARIABLES limit,    \* what the service accepts, unknown to the client
          ceiling,  \* max_batch
          call,     \* the locals of each call
          fault     \* history: the service failed this call other than by rejecting it

vars == <<limit, ceiling, call, fault>>

----------------------------------------------------------------------------
(* Errors: EmbeddingError, with the classes of status codes the client     *)
(* tells apart.                                                            *)

Retryable == {"transport", "status5xx"}
Shrinks   == {"rejected"}                       \* 400, 413, 422
Final     == {"status4xx", "parse", "dimension", "count", "shape"}
Errors    == Retryable \cup Shrinks \cup Final

\* Mutant: a rejected batch is an error like any other
ShouldShrinkNever(e) == e \in Shrinks /\ FALSE

\* is_retryable and should_shrink
IsRetryable(e)  == e \in Retryable
ShouldShrink(e) == e \in Shrinks

Failure(e)  == [err |-> e, vecs |-> <<>>]
Vectors(vs) == [err |-> "none", vecs |-> vs]

----------------------------------------------------------------------------
(* Answers.  A body is the sequence of the index fields of its items, NoIdx *)
(* where the field is missing.  An item carries the vector of the input    *)
(* its index names or, without an index, of the input at its own place.    *)

NoIdx == -1
Idx(n) == {NoIdx} \cup 0..n
Plain(n)   == [p \in 1..n |-> NoIdx]
Ordered(n) == [p \in 1..n |-> p - 1]

ItemVector(texts, body, p) ==
  IF body[p] \in 0..(Len(texts) - 1) THEN texts[body[p] + 1]
  ELSE IF p <= Len(texts) THEN texts[p] ELSE texts[1]

\* Every item has an index, and sorted they are 0, 1, 2, ...
Contiguous(body) == {body[p] : p \in DOMAIN body} = 0..(Len(body) - 1)

\* The answers the contract allows to n inputs, and answers that break it in
\* one place: an index changed, missing, doubled or out of range, an item too
\* few or too many
Faithful == [n \in 1..BatchSize |->
  {Plain(n)} \cup {body \in [1..n -> 0..(n - 1)] : Contiguous(body)}]

Broken == [n \in 1..BatchSize |->
  LET Changed(b) == {[b EXCEPT ![p] = x] : p \in 1..n, x \in Idx(n)}
      Resized(b) == {SubSeq(b, 1, n - 1), Append(b, n), Append(b, NoIdx)}
  IN  UNION {Changed(b) \cup Resized(b) : b \in {Plain(n), Ordered(n)}} \ Faithful[n]]

\* Mutant: the items are taken in the order of the array
ParseBatchUnsorted(texts, body) ==
  IF Len(body) # Len(texts) THEN Failure("count")
  ELSE Vectors([p \in DOMAIN texts |-> ItemVector(texts, body, p)])

\* send_batch, from the parsed body to the vectors it returns
ParseBatch(texts, body) ==
  IF Len(body) # Len(texts) THEN Failure("count")
  ELSE IF \A p \in DOMAIN body : body[p] = NoIdx
       THEN Vectors([p \in DOMAIN texts |-> ItemVector(texts, body, p)])
  ELSE IF Contiguous(body)
       THEN Vectors([k \in DOMAIN texts |->
                       ItemVector(texts, body, CHOOSE p \in DOMAIN body : body[p] = k - 1)])
  ELSE Failure("shape")

\* send_one takes the first item, whatever its index; without one the
\* vector is empty and has the wrong dimension
ParseOne(texts, body) ==
  IF body = <<>> THEN Failure("dimension") ELSE Vectors(<<ItemVector(texts, body, 1)>>)

\* What the service does to a request it can serve
Rejects(texts) == Len(texts) > limit \/ \E p \in DOMAIN texts : texts[p] \in Bad

----------------------------------------------------------------------------
(* Calls.                                                                  *)

Idle == [pc |-> "idle", kind |-> "many", texts |-> <<>>, i |-> 0, size |-> 1,
         attempt |-> 0, out |-> <<>>, err |-> "none"]

Least(a, b) == IF a < b THEN a ELSE b
End(k)  == Least(k.i + k.size, Len(k.texts))
Span(k) == End(k) - k.i
Batch(k) == SubSeq(k.texts, k.i + 1, End(k))

Init ==
  /\ limit \in Limits
  /\ ceiling = BatchSize
  /\ call = [c \in Calls |-> Idle]
  /\ fault = [c \in Calls |-> FALSE]

\* embed_many: the size is loaded once, and then local to the call
EmbedMany(c, texts) ==
  /\ call[c].pc = "idle"
  /\ call' = [call EXCEPT ![c] =
       [Idle EXCEPT !.pc = IF texts = <<>> THEN "done" ELSE "send",
                    !.texts = texts, !.size = ceiling]]
  /\ UNCHANGED <<limit, ceiling, fault>>

\* embed: one text, for a search or the health probe
Embed(c, text) ==
  /\ call[c].pc = "idle"
  /\ call' = [call EXCEPT ![c] =
       [Idle EXCEPT !.pc = "send", !.kind = "one", !.texts = <<text>>]]
  /\ UNCHANGED <<limit, ceiling, fault>>

\* Mutant: a single input counts as evidence for a batch size
SucceededAnySpan(c, vecs) ==
  LET k == call[c] IN
  /\ ceiling' = IF k.kind = "many" THEN Least(ceiling, k.size) ELSE ceiling
  /\ call' = [call EXCEPT ![c] =
       [k EXCEPT !.i = End(k), !.attempt = 0, !.out = k.out \o vecs,
                 !.pc = IF End(k) = Len(k.texts) THEN "done" ELSE "send"]]

\* A batch arrived: more than one input is evidence for this size
Succeeded(c, vecs) ==
  LET k == call[c] IN
  /\ ceiling' = IF k.kind = "many" /\ Span(k) > 1 THEN Least(ceiling, k.size) ELSE ceiling
  /\ call' = [call EXCEPT ![c] =
       [k EXCEPT !.i = End(k), !.attempt = 0, !.out = k.out \o vecs,
                 !.pc = IF End(k) = Len(k.texts) THEN "done" ELSE "send"]]

\* send_batch_with_retry and the loop of embed: the same request again
Retried(c) == call' = [call EXCEPT ![c].attempt = @ + 1]

\* Mutant: a batch that cannot be halved starts again from the shared ceiling
ShrunkReloading(c) ==
  LET half == call[c].size \div 2 IN
  call' = [call EXCEPT ![c].size = IF half > 1 THEN half ELSE ceiling, ![c].attempt = 0]

\* A rejected batch is sent again in halves
Shrunk(c) ==
  LET half == call[c].size \div 2 IN
  call' = [call EXCEPT ![c].size = IF half > 1 THEN half ELSE 1, ![c].attempt = 0]

Gave(c, e) == call' = [call EXCEPT ![c].pc = "failed", ![c].err = e]

\* What the client makes of the result of one request
Handle(c, r) ==
  /\ IF r.err = "none" THEN Succeeded(c, r.vecs)
     ELSE /\ UNCHANGED ceiling
          /\ IF IsRetryable(r.err) /\ call[c].attempt < MaxRetries THEN Retried(c)
             ELSE IF call[c].kind = "many" /\ Span(call[c]) > 1 /\ ShouldShrink(r.err)
                  THEN Shrunk(c)
             ELSE Gave(c, r.err)
  /\ UNCHANGED limit

Parse(c, body) ==
  IF call[c].kind = "one" THEN ParseOne(call[c].texts, body)
  ELSE ParseBatch(Batch(call[c]), body)

\* The service rejects what it does not take
Rejected(c) ==
  /\ call[c].pc = "send"
  /\ Rejects(Batch(call[c]))
  /\ Handle(c, Failure("rejected"))
  /\ UNCHANGED fault

\* The service answers as its contract says: in array order or, with
\* indexes, in any order
Answered(c) ==
  /\ call[c].pc = "send"
  /\ ~Rejects(Batch(call[c]))
  /\ \E body \in Faithful[Span(call[c])] : Handle(c, Parse(c, body))
  /\ UNCHANGED fault

\* The service breaks its contract
Misanswered(c) ==
  /\ call[c].pc = "send"
  /\ ~Rejects(Batch(call[c]))
  /\ \E body \in Broken[Span(call[c])] : Handle(c, Parse(c, body))
  /\ fault' = [fault EXCEPT ![c] = TRUE]

\* The request fails: no connection, a timeout, a server error, another
\* status, an unreadable body, vectors of another model
Failed(c) ==
  /\ call[c].pc = "send"
  /\ \E e \in Errors \ (Shrinks \cup {"count", "shape"}) : Handle(c, Failure(e))
  /\ fault' = [fault EXCEPT ![c] = TRUE]

Reply(c) == Rejected(c) \/ Answered(c) \/ Misanswered(c) \/ Failed(c)

Next ==
  \E c \in Calls :
    \/ \E texts \in Inputs : EmbedMany(c, texts)
    \/ \E text \in Queries : Embed(c, text)
    \/ Reply(c)

Spec == Init /\ [][Next]_vars

\* The HTTP client has a timeout: every request ends, as an answer or an error
FairSpec == Spec /\ \A c \in Calls : WF_vars(Reply(c))

----------------------------------------------------------------------------
(* Properties.                                                             *)

\* Whatever the service answers, in however many requests, what a call has
\* collected are the vectors of its first inputs, in their order and each
\* once; a call that ends well has them all.  (A vector stored with the chunk
\* of another text would be found by the wrong searches for ever.)
Aligned ==
  \A c \in Calls :
    /\ call[c].out = SubSeq(call[c].texts, 1, call[c].i)
    /\ call[c].pc = "done" => call[c].out = call[c].texts

\* A call whose own texts are acceptable and whose requests meet no other
\* failure does not fail: batches larger than the service takes, the bad
\* texts and the failures of other calls are no reason
NoSpuriousFailure ==
  \A c \in Calls :
    call[c].pc = "failed" =>
      fault[c] \/ \E p \in DOMAIN call[c].texts : call[c].texts[p] \in Bad

\* The ceiling all files share stays fit for what the service takes.  A single
\* text that no batch size helps never switches batching off for the others
\* (the comment in embed_many); as long as nobody embeds a bad text, no
\* interleaving of calls that shrink at the same time brings the ceiling
\* below half of what the service takes
BatchingSurvives ==
  /\ ceiling >= Least(BatchSize, 2)
  /\ (\A c \in Calls : \A p \in DOMAIN call[c].texts : call[c].texts[p] \notin Bad)
       => ceiling >= Least(BatchSize, (limit + 1) \div 2)

\* Every call ends, however the service behaves
CallsEnd == \A c \in Calls : call[c].pc = "send" ~> call[c].pc \in {"done", "failed"}

----------------------------------------------------------------------------
(* Further claims that TLC refutes.                                        *)

\* "The learned ceiling is sticky, so the cost is at most a few wasted requests
\* once per daemon lifetime rather than per file" (embed_many): a call that
\* begins after another ended well is not rejected for its size at once
LearnsOnce ==
  [][\A c, d \in Calls :
       call[d].pc = "done" /\ Len(call[d].texts) >= BatchSize /\ Rejected(c)
         => call[c].i > 0 \/ call[c].size < BatchSize
            \/ \E p \in DOMAIN call[c].texts : call[c].texts[p] \in Bad]_vars

=============================================================================

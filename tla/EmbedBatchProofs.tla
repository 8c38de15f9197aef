--------------------------- MODULE EmbedBatchProofs ---------------------------
(***************************************************************************)
(* Theorems about EmbedBatch, for any number of calls, any texts and       *)
(* inputs, any limit of the service, batch size and number of retries:     *)
(*   TypeAlways           the state is well-formed;                        *)
(*   VectorsStayAligned   whatever the service answers, a call collects    *)
(*                        the vectors of its own texts, in order;          *)
(*   FailuresHaveCauses   a call fails for its own texts or a fault of its *)
(*                        own requests only;                               *)
(*   CeilingStaysFit      interleaved calls that shrink leave the shared   *)
(*                        ceiling above half of what the service takes.    *)
(***************************************************************************)
EXTENDS EmbedBatch, TLAPS

-----------------------------------------------------------------------------
(* Types.                                                                  *)

Pcs   == {"idle", "send", "done", "failed"}
Kinds == {"many", "one"}

\* What a call keeps in its locals.
Locals == [pc : Pcs, kind : Kinds, texts : Seq(Texts), i : Nat, size : 1..BatchSize,
           attempt : Nat, out : Seq(Texts), err : {"none"} \cup Errors]

\* A request is sent only while there are texts left; embed has just one.
Sound(k) ==
  /\ k.i <= Len(k.texts)
  /\ k.pc = "idle" => k = Idle
  /\ k.pc = "send" => k.i < Len(k.texts)
  /\ k.pc = "done" => k.i = Len(k.texts)
  /\ k.kind = "one" => Len(k.texts) <= 1

TypeInv ==
  /\ limit \in Nat \ {0}
  /\ ceiling \in 1..BatchSize
  /\ call \in [Calls -> Locals]
  /\ fault \in [Calls -> BOOLEAN]
  /\ \A c \in Calls : Sound(call[c])

\* A window of a sequence.
LEMMA Slices ==
  ASSUME NEW S, NEW s \in Seq(S), NEW m \in Nat, NEW n \in Nat, m <= n, n <= Len(s)
  PROVE  /\ SubSeq(s, m + 1, n) \in Seq(S) /\ Len(SubSeq(s, m + 1, n)) = n - m
         /\ \A p \in 1..(n - m) : SubSeq(s, m + 1, n)[p] = s[m + p]
OBVIOUS

\* The part of a call's texts a request carries: a window of at least one and at most
\* BatchSize texts, behind those already done.
LEMMA Windows ==
  ASSUME NEW k \in Locals, Sound(k), k.pc = "send"
  PROVE  /\ End(k) \in Nat /\ Span(k) \in 1..BatchSize
         /\ End(k) = k.i + Span(k) /\ End(k) <= Len(k.texts)
         /\ Span(k) <= k.size
         /\ Batch(k) \in Seq(Texts) /\ Len(Batch(k)) = Span(k)
         /\ \A p \in 1..Span(k) : Batch(k)[p] = k.texts[k.i + p]
<1>1. /\ k.i \in Nat /\ k.size \in 1..BatchSize /\ k.texts \in Seq(Texts)
      /\ Len(k.texts) \in Nat /\ k.i < Len(k.texts)
  BY DEF Locals, Sound
<1>2. /\ End(k) \in Nat /\ Span(k) \in 1..BatchSize
      /\ End(k) = k.i + Span(k) /\ End(k) <= Len(k.texts) /\ Span(k) <= k.size
  BY <1>1, BatchAssumption DEF End, Span, Least
<1>3. /\ Batch(k) \in Seq(Texts) /\ Len(Batch(k)) = End(k) - k.i
      /\ \A p \in 1..(End(k) - k.i) : Batch(k)[p] = k.texts[k.i + p]
  <2>1. PICK s \in Seq(Texts), m \in Nat, n \in Nat : s = k.texts /\ m = k.i /\ n = End(k)
    BY <1>1, <1>2
  <2>2. m <= n /\ n <= Len(s)
    BY <1>1, <1>2, <2>1
  <2>3. /\ SubSeq(s, m + 1, n) \in Seq(Texts) /\ Len(SubSeq(s, m + 1, n)) = n - m
        /\ \A p \in 1..(n - m) : SubSeq(s, m + 1, n)[p] = s[m + p]
    BY <2>2, Slices
  <2> QED BY <2>1, <2>3 DEF Batch
<1> QED BY <1>1, <1>2, <1>3

\* Windows are put together in order.
LEMMA Joined ==
  ASSUME NEW S, NEW s \in Seq(S), NEW m \in Nat, NEW n \in Nat, m <= n, n <= Len(s)
  PROVE  SubSeq(s, 1, m) \o SubSeq(s, m + 1, n) = SubSeq(s, 1, n)
OBVIOUS

LEMMA WholeAndEmpty ==
  ASSUME NEW S, NEW s \in Seq(S)
  PROVE  SubSeq(s, 1, 0) = <<>> /\ SubSeq(s, 1, Len(s)) = s
OBVIOUS

\* The one request of embed carries its one text.
LEMMA Single ==
  ASSUME NEW k \in Locals, Sound(k), k.pc = "send", k.kind = "one"
  PROVE  k.texts \in Seq(Texts) /\ Len(k.texts) = 1 /\ Batch(k) = k.texts
<1>1. /\ k.texts \in Seq(Texts) /\ k.i \in Nat
      /\ k.i < Len(k.texts) /\ Len(k.texts) <= 1
  BY DEF Locals, Sound
<1>2. Len(k.texts) \in Nat
  BY <1>1
<1>3. Len(k.texts) = 1 /\ k.i = 0
  <2>1. \A m, n \in Nat : m < n /\ n <= 1 => n = 1 /\ m = 0
    OBVIOUS
  <2> QED BY <1>1, <1>2, <2>1
<1>4. End(k) = 1
  BY <1>3, Windows, BatchAssumption
<1> QED BY <1>1, <1>3, <1>4, WholeAndEmpty DEF Batch

-----------------------------------------------------------------------------
(* Answers.                                                                *)

\* An answer is a sequence of indexes; one that keeps the contract has an item for
\* every input and has all indexes or none.
LEMMA FaithfulAnswers ==
  ASSUME NEW n \in 1..BatchSize, NEW body \in Faithful[n]
  PROVE  /\ body \in Seq(Int) /\ Len(body) = n
         /\ (\A p \in DOMAIN body : body[p] = NoIdx) \/ Contiguous(body)
<1>1. CASE body = Plain(n)
  <2>1. body \in Seq(Int) /\ Len(body) = n /\ DOMAIN body = 1..n
    BY <1>1, BatchAssumption DEF Plain, NoIdx
  <2> QED BY <1>1, <2>1 DEF Plain
<1>2. CASE body \in [1..n -> 0..(n - 1)] /\ Contiguous(body)
  <2>1. body \in Seq(Int) /\ Len(body) = n
    BY <1>2, BatchAssumption
  <2> QED BY <1>2, <2>1
<1> QED BY <1>1, <1>2 DEF Faithful

LEMMA BrokenAnswers ==
  ASSUME NEW n \in 1..BatchSize, NEW body \in Broken[n]
  PROVE  body \in Seq(Int)
<1>1. PICK b \in {Plain(n), Ordered(n)} :
        \/ \E p \in 1..n, x \in Idx(n) : body = [b EXCEPT ![p] = x]
        \/ body = SubSeq(b, 1, n - 1)
        \/ \E x \in {n, NoIdx} : body = Append(b, x)
  BY DEF Broken
<1>2. b \in [1..n -> Int] /\ n \in Nat
  BY BatchAssumption DEF Plain, Ordered, NoIdx
<1>3. b \in Seq(Int) /\ Len(b) = n
  BY <1>2
<1>4. CASE \E p \in 1..n, x \in Idx(n) : body = [b EXCEPT ![p] = x]
  <2>1. PICK p \in 1..n, x \in Idx(n) : body = [b EXCEPT ![p] = x]
    BY <1>4
  <2>2. x \in Int
    BY <1>2 DEF Idx, NoIdx
  <2>3. body \in [1..n -> Int]
    BY <1>2, <2>1, <2>2
  <2> QED BY <1>2, <2>3
<1>5. CASE body = SubSeq(b, 1, n - 1)
  BY <1>2, <1>3, <1>5
<1>6. CASE \E x \in {n, NoIdx} : body = Append(b, x)
  BY <1>2, <1>3, <1>6 DEF NoIdx
<1> QED BY <1>1, <1>4, <1>5, <1>6

\* What send_batch takes as a success are the vectors of its inputs, in their order.
LEMMA BatchParsed ==
  ASSUME NEW texts \in Seq(Texts), NEW body \in Seq(Int),
         ParseBatch(texts, body).err = "none"
  PROVE  ParseBatch(texts, body) = Vectors(texts)
<1>1. /\ Len(body) = Len(texts)
      /\ (\A p \in DOMAIN body : body[p] = NoIdx) \/ Contiguous(body)
  BY DEF ParseBatch, Failure
<1>2. /\ Len(texts) \in Nat /\ DOMAIN texts = 1..Len(texts)
      /\ DOMAIN body = 1..Len(texts) /\ texts \in [1..Len(texts) -> Texts]
  BY <1>1
<1>3. CASE \A p \in DOMAIN body : body[p] = NoIdx
  <2>1. \A p \in DOMAIN texts : ItemVector(texts, body, p) = texts[p]
    BY <1>2, <1>3 DEF ItemVector, NoIdx
  <2>2. [p \in DOMAIN texts |-> ItemVector(texts, body, p)] = texts
    BY <1>2, <2>1
  <2> QED BY <1>1, <1>3, <2>2 DEF ParseBatch
<1>4. CASE ~(\A p \in DOMAIN body : body[p] = NoIdx) /\ Contiguous(body)
  <2> DEFINE At(k) == CHOOSE p \in DOMAIN body : body[p] = k - 1
  <2>1. ASSUME NEW k \in DOMAIN texts
        PROVE  ItemVector(texts, body, At(k)) = texts[k]
    <3>1. k \in Nat /\ k - 1 \in 0..(Len(texts) - 1)
      BY <1>2
    <3>2. k - 1 \in {body[p] : p \in DOMAIN body}
      BY <1>1, <1>4, <3>1 DEF Contiguous
    <3>3. \E p \in DOMAIN body : body[p] = k - 1
      BY <3>2
    <3>4. At(k) \in DOMAIN body /\ body[At(k)] = k - 1
      BY <3>3
    <3> HIDE DEF At
    <3> QED BY <3>1, <3>4 DEF ItemVector
  <2>2. [k \in DOMAIN texts |-> ItemVector(texts, body, At(k))] = texts
    BY <1>2, <2>1
  <2> QED BY <1>1, <1>4, <2>2 DEF ParseBatch
<1> QED BY <1>1, <1>3, <1>4

\* A batch whose answer keeps the contract succeeds.
LEMMA BatchAnswered ==
  ASSUME NEW texts \in Seq(Texts), Len(texts) \in 1..BatchSize,
         NEW body \in Faithful[Len(texts)]
  PROVE  ParseBatch(texts, body).err = "none"
<1>1. /\ Len(body) = Len(texts)
      /\ (\A p \in DOMAIN body : body[p] = NoIdx) \/ Contiguous(body)
  BY FaithfulAnswers
<1> QED BY <1>1 DEF ParseBatch, Vectors

\* The single vector embed takes is that of its text.
LEMMA OneParsed ==
  ASSUME NEW texts \in Seq(Texts), Len(texts) = 1, NEW body \in Seq(Int)
  PROVE  /\ body = <<>> => ParseOne(texts, body).err = "dimension"
         /\ body # <<>> => ParseOne(texts, body) = Vectors(texts)
<1>1. DOMAIN texts = 1..1 /\ texts = <<texts[1]>>
  OBVIOUS
<1>2. ItemVector(texts, body, 1) = texts[1]
  <2>1. CASE body[1] \in 0..(Len(texts) - 1)
    <3>1. body[1] = 0
      BY <2>1
    <3> QED BY <2>1, <3>1 DEF ItemVector
  <2>2. CASE body[1] \notin 0..(Len(texts) - 1)
    BY <2>2 DEF ItemVector
  <2> QED BY <2>1, <2>2
<1> QED BY <1>1, <1>2 DEF ParseOne, Failure
-----------------------------------------------------------------------------
(* Steps.                                                                  *)

\* What becomes of a call by the result of one request.  Only a rejection halves
\* batches, and a rejection ends a call only when the request holds a single text;
\* every other failure is recorded in fault.
Outcome(c) ==
  LET k == call[c] IN
  /\ k.pc = "send"
  /\ \/ Succeeded(c, Batch(k))
     \/ UNCHANGED ceiling /\ Retried(c)
     \/ UNCHANGED ceiling /\ Shrunk(c) /\ Span(k) > 1 /\ Rejects(Batch(k))
     \/ /\ UNCHANGED ceiling
        /\ \E e \in Errors : Gave(c, e)
        /\ fault'[c] \/ (Span(k) = 1 /\ Rejects(Batch(k)))
  /\ limit' = limit
  /\ fault' \in [Calls -> BOOLEAN]
  /\ \A d \in Calls : fault[d] => fault'[d]

\* Handle, given an error or the vectors of the request.
LEMMA Handled ==
  ASSUME TypeInv, NEW c \in Calls, call[c].pc = "send",
         NEW r, r.err \in {"none"} \cup Errors,
         r.err = "none" => r.vecs = Batch(call[c]),
         Handle(c, r)
  PROVE  \/ Succeeded(c, Batch(call[c]))
         \/ UNCHANGED ceiling /\ Retried(c)
         \/ /\ UNCHANGED ceiling /\ Shrunk(c)
            /\ Span(call[c]) > 1 /\ r.err \in Shrinks
         \/ /\ UNCHANGED ceiling /\ r.err \in Errors /\ Gave(c, r.err)
            /\ r.err \in Shrinks => Span(call[c]) = 1
<1>1. CASE r.err = "none"
  BY <1>1 DEF Handle
<1>2. CASE r.err \in Errors
  <2>1. r.err # "none" /\ (r.err \in Shrinks => ~IsRetryable(r.err))
    BY <1>2 DEF Errors, Retryable, Shrinks, Final, IsRetryable
  <2>2. /\ call[c] \in Locals /\ Sound(call[c])
        /\ Span(call[c]) \in 1..BatchSize /\ End(call[c]) = call[c].i + Span(call[c])
        /\ End(call[c]) <= Len(call[c].texts)
    BY Windows DEF TypeInv
  <2>3. call[c].kind \in Kinds /\ call[c].i \in Nat /\ Len(call[c].texts) \in Nat
    BY <2>2 DEF Locals
  <2>4. call[c].kind = "one" => Span(call[c]) = 1
    BY <2>2, <2>3, BatchAssumption DEF Sound
  <2>5. ~(call[c].kind = "many" /\ Span(call[c]) > 1) => Span(call[c]) = 1
    BY <2>2, <2>3, <2>4, BatchAssumption DEF Kinds
  <2> QED BY <1>2, <2>1, <2>5 DEF Handle, ShouldShrink
<1> QED BY <1>1, <1>2

\* What the client parses from any answer: a failure or the vectors of the request.
LEMMA ParsedRight ==
  ASSUME TypeInv, NEW c \in Calls, call[c].pc = "send", NEW body \in Seq(Int)
  PROVE  /\ Parse(c, body).err \in {"none", "count", "shape", "dimension"}
         /\ Parse(c, body).err = "none" => Parse(c, body).vecs = Batch(call[c])
<1>1. /\ call[c] \in Locals /\ Sound(call[c])
      /\ Batch(call[c]) \in Seq(Texts) /\ Len(Batch(call[c])) = Span(call[c])
      /\ Span(call[c]) \in 1..BatchSize /\ End(call[c]) = call[c].i + Span(call[c])
      /\ End(call[c]) <= Len(call[c].texts)
  BY Windows DEF TypeInv
<1>2. CASE call[c].kind = "one"
  <2>1. /\ call[c].texts \in Seq(Texts) /\ Len(call[c].texts) = 1
        /\ Batch(call[c]) = call[c].texts
    BY <1>1, <1>2, Single
  <2> QED BY <1>2, <2>1, OneParsed DEF Parse, Vectors, ParseOne, Failure
<1>3. CASE call[c].kind # "one"
  <2>1. ParseBatch(Batch(call[c]), body).err \in {"none", "count", "shape"}
    BY DEF ParseBatch, Failure, Vectors
  <2>2. ParseBatch(Batch(call[c]), body).err = "none"
          => ParseBatch(Batch(call[c]), body) = Vectors(Batch(call[c]))
    BY <1>1, BatchParsed
  <2> QED BY <1>3, <2>1, <2>2 DEF Parse, Vectors
<1> QED BY <1>2, <1>3

LEMMA ReplyIs ==
  ASSUME TypeInv, NEW c \in Calls, Reply(c)
  PROVE  Outcome(c)
<1> DEFINE k == call[c]
<1>1. /\ k \in Locals /\ Sound(k) /\ k.pc = "send"
      /\ Span(k) \in 1..BatchSize /\ Len(Batch(k)) = Span(k)
      /\ limit' = limit
  BY Windows DEF TypeInv, Reply, Rejected, Answered, Misanswered, Failed, Handle
<1>2. CASE Rejected(c)
  <2>1. Failure("rejected").err = "rejected" /\ "rejected" \in Errors
        /\ "rejected" # "none" /\ "rejected" \in Shrinks
    BY DEF Failure, Errors, Shrinks
  <2>2. Handle(c, Failure("rejected")) /\ Rejects(Batch(k)) /\ fault' = fault
    BY <1>2 DEF Rejected
  <2>3. \/ Succeeded(c, Batch(k))
        \/ UNCHANGED ceiling /\ Retried(c)
        \/ UNCHANGED ceiling /\ Shrunk(c) /\ Span(k) > 1
        \/ UNCHANGED ceiling /\ Gave(c, "rejected") /\ Span(k) = 1
    BY <1>1, <2>1, <2>2, Handled
  <2> QED BY <1>1, <2>1, <2>2, <2>3 DEF Outcome, TypeInv
<1>3. CASE Answered(c)
  <2>1. PICK body \in Faithful[Span(k)] : Handle(c, Parse(c, body))
    BY <1>3 DEF Answered
  <2>2. body \in Seq(Int) /\ Len(body) = Span(k)
    BY <1>1, <2>1, FaithfulAnswers
  <2>3. Parse(c, body).err = "none"
    <3>1. CASE k.kind = "one"
      <4>1. k.texts \in Seq(Texts) /\ Len(k.texts) = 1
        BY <1>1, <3>1, Single
      <4>2. body # <<>>
        BY <1>1, <2>2
      <4> QED BY <3>1, <4>1, <4>2, <2>2, OneParsed DEF Parse, Vectors
    <3>2. CASE k.kind # "one"
      <4>1. Batch(k) \in Seq(Texts)
        BY <1>1, Windows
      <4> QED BY <1>1, <2>1, <3>2, <4>1, BatchAnswered DEF Parse
    <3> QED BY <3>1, <3>2
  <2>4. Parse(c, body).vecs = Batch(k)
    BY <1>1, <2>2, <2>3, ParsedRight
  <2>5. Succeeded(c, Batch(k))
    BY <2>1, <2>3, <2>4 DEF Handle
  <2> QED BY <1>1, <1>3, <2>5 DEF Answered, Outcome, TypeInv
<1>4. CASE Misanswered(c)
  <2>1. PICK body \in Broken[Span(k)] : Handle(c, Parse(c, body))
    BY <1>4 DEF Misanswered
  <2>2. body \in Seq(Int)
    BY <1>1, <2>1, BrokenAnswers
  <2> DEFINE r == Parse(c, body)
  <2>3. /\ r.err \in {"none", "count", "shape", "dimension"}
        /\ r.err = "none" => r.vecs = Batch(k)
    BY <1>1, <2>2, ParsedRight
  <2>4. r.err \in {"none"} \cup Errors /\ r.err \notin Shrinks
    BY <2>3 DEF Errors, Final, Shrinks
  <2>5. Handle(c, r)
    BY <2>1
  <2> HIDE DEF r
  <2>6. \/ Succeeded(c, Batch(k))
        \/ UNCHANGED ceiling /\ Retried(c)
        \/ UNCHANGED ceiling /\ r.err \in Errors /\ Gave(c, r.err)
    BY <1>1, <2>3, <2>4, <2>5, Handled
  <2>7. /\ fault' \in [Calls -> BOOLEAN] /\ fault'[c]
        /\ \A d \in Calls : fault[d] => fault'[d]
    BY <1>4 DEF Misanswered, TypeInv
  <2> QED BY <1>1, <2>6, <2>7 DEF Outcome
<1>5. CASE Failed(c)
  <2>1. PICK e \in Errors \ (Shrinks \cup {"count", "shape"}) : Handle(c, Failure(e))
    BY <1>5 DEF Failed
  <2>2. Failure(e).err = e /\ e # "none"
    BY <2>1 DEF Failure, Errors, Retryable, Shrinks, Final
  <2>3. \/ Succeeded(c, Batch(k))
        \/ UNCHANGED ceiling /\ Retried(c)
        \/ UNCHANGED ceiling /\ Gave(c, e)
    BY <1>1, <2>1, <2>2, Handled
  <2>4. /\ fault' \in [Calls -> BOOLEAN] /\ fault'[c]
        /\ \A d \in Calls : fault[d] => fault'[d]
    BY <1>5 DEF Failed, TypeInv
  <2> QED BY <1>1, <2>1, <2>3, <2>4 DEF Outcome
<1> QED BY <1>2, <1>3, <1>4, <1>5 DEF Reply

LEMMA IdleIsSound == Idle \in Locals /\ Sound(Idle)
BY BatchAssumption DEF Idle, Locals, Sound, Pcs, Kinds

LEMMA TypeInit == Init => TypeInv
<1> SUFFICES ASSUME Init
             PROVE  TypeInv
  OBVIOUS
<1>1. limit \in Nat \ {0} /\ ceiling \in 1..BatchSize
  BY LimitsAssumption, BatchAssumption DEF Init
<1> QED BY <1>1, IdleIsSound DEF Init, TypeInv

\* A call that changes on its own leaves the others well-formed.
LEMMA OneCall ==
  ASSUME TypeInv, NEW c \in Calls, NEW k \in Locals, Sound(k),
         call' = [call EXCEPT ![c] = k], limit' = limit,
         ceiling' \in 1..BatchSize, fault' \in [Calls -> BOOLEAN]
  PROVE  TypeInv'
BY DEF TypeInv

\* What a delivered batch makes of a call.
LEMMA SucceededIs ==
  ASSUME TypeInv, NEW c \in Calls, call[c].pc = "send", Succeeded(c, Batch(call[c]))
  PROVE  \E k \in Locals :
           /\ Sound(k) /\ call' = [call EXCEPT ![c] = k]
           /\ k.kind = call[c].kind /\ k.texts = call[c].texts /\ k.size = call[c].size
           /\ k.i = End(call[c]) /\ k.out = call[c].out \o Batch(call[c])
           /\ k.pc = IF End(call[c]) = Len(call[c].texts) THEN "done" ELSE "send"
<1> DEFINE k == call[c]
           n == [k EXCEPT !.i = End(k), !.attempt = 0, !.out = k.out \o Batch(k),
                          !.pc = IF End(k) = Len(k.texts) THEN "done" ELSE "send"]
<1>1. /\ k \in Locals /\ Sound(k) /\ End(k) \in Nat /\ End(k) <= Len(k.texts)
      /\ Batch(k) \in Seq(Texts)
  BY Windows DEF TypeInv
<1>2. k.out \o Batch(k) \in Seq(Texts) /\ Len(k.texts) \in Nat
  BY <1>1 DEF Locals
<1>3. n \in Locals
  BY <1>1, <1>2 DEF Locals, Pcs
<1>4. /\ n.kind = k.kind /\ n.texts = k.texts /\ n.size = k.size /\ n.i = End(k)
      /\ n.out = k.out \o Batch(k)
      /\ n.pc = IF End(k) = Len(k.texts) THEN "done" ELSE "send"
  BY <1>1 DEF Locals
<1>5. call' = [call EXCEPT ![c] = n]
  BY DEF Succeeded
<1> HIDE DEF n
<1>6. Sound(n)
  <2>1. \A x, y \in Nat : x <= y /\ x # y => x < y
    OBVIOUS
  <2> QED BY <1>1, <1>2, <1>4, <2>1 DEF Sound
<1> QED BY <1>3, <1>4, <1>5, <1>6

\* What the other results make of it: only the size and the attempt change, or the
\* call ends.
LEMMA OthersAre ==
  ASSUME TypeInv, NEW c \in Calls, call[c].pc = "send",
         \/ Retried(c)
         \/ Shrunk(c)
         \/ \E e \in Errors : Gave(c, e)
  PROVE  \E k \in Locals :
           /\ Sound(k) /\ call' = [call EXCEPT ![c] = k]
           /\ k.kind = call[c].kind /\ k.texts = call[c].texts
           /\ k.i = call[c].i /\ k.out = call[c].out
           /\ \/ Retried(c) /\ k.pc = "send" /\ k.size = call[c].size
              \/ /\ Shrunk(c) /\ k.pc = "send"
                 /\ k.size = IF call[c].size \div 2 > 1 THEN call[c].size \div 2 ELSE 1
              \/ \E e \in Errors : Gave(c, e) /\ k.pc = "failed" /\ k.size = call[c].size
<1> DEFINE k == call[c]
<1>1. k \in Locals /\ Sound(k) /\ call \in [Calls -> Locals]
  BY DEF TypeInv
<1>2. CASE Retried(c)
  <2> DEFINE a == k.attempt + 1
             n == [k EXCEPT !.attempt = a]
  <2>1. call' = [call EXCEPT ![c] = n]
    BY <1>1, <1>2 DEF Retried
  <2>2. n \in Locals
    <3>1. k.attempt \in Nat
      BY <1>1 DEF Locals
    <3>2. a \in Nat
      BY <3>1
    <3> HIDE DEF a
    <3> QED BY <1>1, <3>2 DEF Locals
  <2>3. /\ n.kind = k.kind /\ n.texts = k.texts /\ n.i = k.i /\ n.out = k.out
        /\ n.pc = "send" /\ n.size = k.size
    BY <1>1 DEF Locals
  <2> HIDE DEF n
  <2>4. Sound(n)
    BY <1>1, <2>3 DEF Sound
  <2> QED BY <1>2, <2>1, <2>2, <2>3, <2>4
<1>3. CASE Shrunk(c)
  <2> DEFINE s == IF k.size \div 2 > 1 THEN k.size \div 2 ELSE 1
             n == [k EXCEPT !.size = s, !.attempt = 0]
  <2>1. call' = [call EXCEPT ![c] = n]
    BY <1>1, <1>3 DEF Shrunk
  <2>2. s \in 1..BatchSize
    <3>1. k.size \in 1..BatchSize
      BY <1>1 DEF Locals
    <3> QED BY <3>1, BatchAssumption
  <2> HIDE DEF s
  <2>3. n \in Locals
    BY <1>1, <2>2 DEF Locals
  <2>4. /\ n.kind = k.kind /\ n.texts = k.texts /\ n.i = k.i /\ n.out = k.out
        /\ n.pc = "send" /\ n.size = s
    BY <1>1 DEF Locals
  <2> HIDE DEF n
  <2>5. Sound(n)
    BY <1>1, <2>4 DEF Sound
  <2> QED BY <1>3, <2>1, <2>3, <2>4, <2>5 DEF s
<1>4. CASE \E e \in Errors : Gave(c, e)
  <2>1. PICK e \in Errors : Gave(c, e)
    BY <1>4
  <2> DEFINE n == [k EXCEPT !.pc = "failed", !.err = e]
  <2>2. call' = [call EXCEPT ![c] = n]
    BY <1>1, <2>1 DEF Gave
  <2>3. n \in Locals
    BY <1>1 DEF Locals, Pcs
  <2>4. /\ n.kind = k.kind /\ n.texts = k.texts /\ n.i = k.i /\ n.out = k.out
        /\ n.pc = "failed" /\ n.size = k.size
    BY <1>1 DEF Locals
  <2> HIDE DEF n
  <2>5. Sound(n)
    BY <1>1, <2>4 DEF Sound
  <2> QED BY <2>1, <2>2, <2>3, <2>4, <2>5
<1> QED BY <1>2, <1>3, <1>4

\* How a call begins: with all of its texts ahead of it and, for files, the ceiling
\* of the moment.
Begins(c) ==
  /\ call[c].pc = "idle"
  /\ \E k \in Locals :
       /\ Sound(k) /\ call' = [call EXCEPT ![c] = k]
       /\ k.pc \in {"send", "done"} /\ k.i = 0 /\ k.out = <<>>
       /\ k.kind = "many" => k.size = ceiling
  /\ UNCHANGED <<limit, ceiling, fault>>

LEMMA BeginsAre ==
  ASSUME TypeInv, NEW c \in Calls,
         \/ \E texts \in Inputs : EmbedMany(c, texts)
         \/ \E text \in Queries : Embed(c, text)
  PROVE  Begins(c)
<1>1. CASE \E texts \in Inputs : EmbedMany(c, texts)
  <2>1. PICK texts \in Inputs : EmbedMany(c, texts)
    BY <1>1
  <2> DEFINE k == [Idle EXCEPT !.pc = IF texts = <<>> THEN "done" ELSE "send",
                               !.texts = texts, !.size = ceiling]
  <2>2. texts \in Seq(Texts) /\ ceiling \in 1..BatchSize
    BY TextsAssumption DEF TypeInv
  <2>3. k \in Locals
    BY <2>2, IdleIsSound DEF Locals, Pcs
  <2>4. /\ k.pc = IF texts = <<>> THEN "done" ELSE "send"
        /\ k.texts = texts /\ k.i = 0 /\ k.out = <<>> /\ k.size = ceiling
        /\ k.kind = "many"
    BY DEF Idle
  <2>5. call' = [call EXCEPT ![c] = k]
    BY <2>1 DEF EmbedMany
  <2> HIDE DEF k
  <2>6. Sound(k)
    <3>1. Len(texts) \in Nat /\ (texts # <<>> => 0 < Len(texts))
          /\ (texts = <<>> => Len(texts) = 0)
      BY <2>2
    <3> QED BY <2>4, <3>1 DEF Sound
  <2> QED BY <2>1, <2>3, <2>4, <2>5, <2>6 DEF Begins, EmbedMany
<1>2. CASE \E text \in Queries : Embed(c, text)
  <2>1. PICK text \in Queries : Embed(c, text)
    BY <1>2
  <2> DEFINE k == [Idle EXCEPT !.pc = "send", !.kind = "one", !.texts = <<text>>]
  <2>2. <<text>> \in Seq(Texts) /\ Len(<<text>>) = 1
    BY TextsAssumption
  <2>3. k \in Locals
    BY <2>2, IdleIsSound DEF Locals, Pcs, Kinds
  <2>4. /\ k.pc = "send" /\ k.texts = <<text>> /\ k.i = 0 /\ k.out = <<>>
        /\ k.kind = "one"
    BY DEF Idle
  <2>5. call' = [call EXCEPT ![c] = k]
    BY <2>1 DEF Embed
  <2> HIDE DEF k
  <2>6. Sound(k)
    BY <2>2, <2>4 DEF Sound
  <2> QED BY <2>1, <2>3, <2>4, <2>5, <2>6 DEF Begins, Embed
<1> QED BY <1>1, <1>2

\* Every step is the beginning of a call or the result of one of its requests.
LEMMA NextIs ==
  ASSUME TypeInv, [Next]_vars
  PROVE  UNCHANGED vars \/ \E c \in Calls : Begins(c) \/ Outcome(c)
<1>1. ASSUME Next
      PROVE  \E c \in Calls : Begins(c) \/ Outcome(c)
  <2>1. PICK c \in Calls :
          \/ \E texts \in Inputs : EmbedMany(c, texts)
          \/ \E text \in Queries : Embed(c, text)
          \/ Reply(c)
    BY <1>1 DEF Next
  <2> QED BY <2>1, BeginsAre, ReplyIs
<1> QED BY <1>1

LEMMA TypeStep ==
  ASSUME TypeInv, [Next]_vars
  PROVE  TypeInv'
<1>1. CASE UNCHANGED vars
  BY <1>1 DEF vars, TypeInv
<1>2. ASSUME NEW c \in Calls, Begins(c)
      PROVE  TypeInv'
  <2>1. ceiling' \in 1..BatchSize /\ limit' = limit /\ fault' \in [Calls -> BOOLEAN]
    BY <1>2 DEF Begins, TypeInv
  <2>2. PICK k \in Locals : Sound(k) /\ call' = [call EXCEPT ![c] = k]
    BY <1>2 DEF Begins
  <2> QED BY <2>1, <2>2, OneCall
<1>3. ASSUME NEW c \in Calls, Outcome(c)
      PROVE  TypeInv'
  <2>1. call[c].pc = "send" /\ limit' = limit /\ fault' \in [Calls -> BOOLEAN]
    BY <1>3 DEF Outcome
  <2>2. CASE Succeeded(c, Batch(call[c]))
    <3>1. PICK k \in Locals : Sound(k) /\ call' = [call EXCEPT ![c] = k]
      BY <2>1, <2>2, SucceededIs
    <3>2. ceiling \in 1..BatchSize /\ call[c].size \in 1..BatchSize
      BY DEF TypeInv, Locals
    <3>3. ceiling' \in 1..BatchSize
      BY <2>2, <3>2 DEF Succeeded, Least
    <3> QED BY <2>1, <3>1, <3>3, OneCall
  <2>3. CASE /\ UNCHANGED ceiling
             /\ \/ Retried(c) \/ Shrunk(c) \/ \E e \in Errors : Gave(c, e)
    <3>1. PICK k \in Locals : Sound(k) /\ call' = [call EXCEPT ![c] = k]
      BY <2>1, <2>3, OthersAre
    <3>2. ceiling' \in 1..BatchSize
      BY <2>3 DEF TypeInv
    <3> QED BY <2>1, <3>1, <3>2, OneCall
  <2> QED BY <1>3, <2>2, <2>3 DEF Outcome
<1> QED BY <1>1, <1>2, <1>3, NextIs

\* The state is well-formed: a request always carries texts, within its call's.
LEMMA TypeAlways == Spec => []TypeInv
<1>1. TypeInv /\ [Next]_vars => TypeInv'
  BY TypeStep
<1> QED BY <1>1, TypeInit, PTL DEF Spec

-----------------------------------------------------------------------------
(* Vectors and texts.                                                      *)

\* What a call has collected belongs to the texts it is done with.
Collected(k) == k.out = SubSeq(k.texts, 1, k.i)
AlignInv == \A c \in Calls : Collected(call[c])

LEMMA AlignStep ==
  ASSUME TypeInv, AlignInv, [Next]_vars
  PROVE  AlignInv'
<1>1. CASE UNCHANGED vars
  BY <1>1 DEF vars, AlignInv
<1>2. ASSUME NEW c \in Calls, NEW k \in Locals, call' = [call EXCEPT ![c] = k],
             Collected(k)
      PROVE  AlignInv'
  BY <1>2 DEF AlignInv, TypeInv
<1>3. ASSUME NEW c \in Calls, Begins(c)
      PROVE  AlignInv'
  <2>1. PICK k \in Locals : /\ call' = [call EXCEPT ![c] = k]
                            /\ k.i = 0 /\ k.out = <<>>
    BY <1>3 DEF Begins
  <2>2. k.texts \in Seq(Texts)
    BY DEF Locals
  <2>3. Collected(k)
    BY <2>1, <2>2, WholeAndEmpty DEF Collected
  <2> QED BY <1>2, <2>1, <2>3
<1>4. ASSUME NEW c \in Calls, Outcome(c)
      PROVE  AlignInv'
  <2>1. /\ call[c].pc = "send" /\ call[c] \in Locals /\ Sound(call[c])
        /\ Collected(call[c])
    BY <1>4 DEF Outcome, TypeInv, AlignInv
  <2>2. CASE Succeeded(c, Batch(call[c]))
    <3>1. PICK k \in Locals :
            /\ call' = [call EXCEPT ![c] = k] /\ k.texts = call[c].texts
            /\ k.i = End(call[c]) /\ k.out = call[c].out \o Batch(call[c])
      BY <2>1, <2>2, SucceededIs
    <3>2. /\ call[c].i \in Nat /\ End(call[c]) \in Nat /\ call[c].i <= End(call[c])
          /\ End(call[c]) <= Len(call[c].texts) /\ call[c].texts \in Seq(Texts)
      <4>1. /\ End(call[c]) \in Nat /\ Span(call[c]) \in 1..BatchSize
            /\ End(call[c]) = call[c].i + Span(call[c])
            /\ End(call[c]) <= Len(call[c].texts)
        BY <2>1, Windows
      <4>2. call[c].i \in Nat /\ call[c].texts \in Seq(Texts)
        BY <2>1 DEF Locals
      <4>3. \A x, y, z \in Nat : x = y + z => y <= x
        OBVIOUS
      <4>4. Span(call[c]) \in Nat
        BY <4>1
      <4> QED BY <4>1, <4>2, <4>3, <4>4
    <3>3. SubSeq(call[c].texts, 1, call[c].i) \o Batch(call[c])
            = SubSeq(call[c].texts, 1, End(call[c]))
      BY <3>2, Joined DEF Batch
    <3>4. Collected(k)
      BY <2>1, <3>1, <3>3 DEF Collected
    <3> QED BY <1>2, <3>1, <3>4
  <2>3. CASE \/ Retried(c) \/ Shrunk(c) \/ \E e \in Errors : Gave(c, e)
    <3>1. PICK k \in Locals :
            /\ call' = [call EXCEPT ![c] = k] /\ k.texts = call[c].texts
            /\ k.i = call[c].i /\ k.out = call[c].out
      BY <2>1, <2>3, OthersAre
    <3>2. Collected(k)
      BY <2>1, <3>1 DEF Collected
    <3> QED BY <1>2, <3>1, <3>2
  <2> QED BY <1>4, <2>2, <2>3 DEF Outcome
<1> QED BY <1>1, <1>3, <1>4, NextIs

\* Whatever the service answers, in however many requests and with whatever indexes,
\* the vectors a call has collected are those of its first texts, and a call that ends
\* well has one for each (embed_many, send_batch).
THEOREM VectorsStayAligned == Spec => []Aligned
<1>1. Init => AlignInv
  <2>1. SubSeq(<<>>, 1, 0) = <<>>
    OBVIOUS
  <2>2. Idle.out = <<>> /\ Idle.texts = <<>> /\ Idle.i = 0
    BY DEF Idle
  <2>3. Collected(Idle)
    BY <2>1, <2>2 DEF Collected
  <2> QED BY <2>3 DEF Init, AlignInv
<1>2. TypeInv /\ AlignInv /\ [Next]_vars => AlignInv'
  BY AlignStep
<1>3. TypeInv /\ AlignInv => Aligned
  <2> SUFFICES ASSUME TypeInv, AlignInv, NEW c \in Calls
               PROVE  /\ call[c].out = SubSeq(call[c].texts, 1, call[c].i)
                      /\ call[c].pc = "done" => call[c].out = call[c].texts
    BY DEF Aligned
  <2>1. Collected(call[c]) /\ Sound(call[c]) /\ call[c].texts \in Seq(Texts)
    BY DEF AlignInv, TypeInv, Locals
  <2> QED BY <2>1, WholeAndEmpty DEF Collected, Sound
<1> QED BY <1>1, <1>2, <1>3, TypeAlways, PTL DEF Spec

-----------------------------------------------------------------------------
(* Failures.                                                               *)

\* One of the call's own texts is unacceptable to the service.
HasBad(k) == \E p \in DOMAIN k.texts : k.texts[p] \in Bad

CauseInv == \A c \in Calls : call[c].pc = "failed" => fault[c] \/ HasBad(call[c])

\* A request is rejected for its size or for a text of its call.
LEMMA RejectedWhy ==
  ASSUME TypeInv, NEW c \in Calls, call[c].pc = "send", Rejects(Batch(call[c]))
  PROVE  Span(call[c]) > limit \/ HasBad(call[c])
<1> DEFINE k == call[c]
<1>1. k \in Locals /\ Sound(k)
  BY DEF TypeInv
<1>2. k.texts \in Seq(Texts) /\ k.i \in Nat /\ Len(k.texts) \in Nat
  BY <1>1 DEF Locals
<1>3. /\ Len(Batch(k)) = Span(k) /\ Batch(k) \in Seq(Texts) /\ Span(k) \in Nat
      /\ End(k) = k.i + Span(k) /\ End(k) <= Len(k.texts)
      /\ \A p \in 1..Span(k) : Batch(k)[p] = k.texts[k.i + p]
  BY <1>1, Windows
<1>4. CASE ~(Len(Batch(k)) > limit)
  <2>1. PICK p \in DOMAIN Batch(k) : Batch(k)[p] \in Bad
    BY <1>4 DEF Rejects
  <2>2. p \in 1..Span(k)
    BY <1>3, <2>1
  <2>3. k.i + p \in DOMAIN k.texts
    <3>1. \A m, n, s \in Nat : m + s <= n => \A q \in 1..s : m + q \in 1..n
      OBVIOUS
    <3>2. DOMAIN k.texts = 1..Len(k.texts)
      BY <1>2
    <3>3. k.i + Span(k) <= Len(k.texts)
      BY <1>3
    <3> QED BY <1>2, <1>3, <2>2, <3>1, <3>2, <3>3
  <2> QED BY <1>3, <2>1, <2>2, <2>3 DEF HasBad
<1> QED BY <1>3, <1>4

LEMMA CauseStep ==
  ASSUME TypeInv, CauseInv, [Next]_vars
  PROVE  CauseInv'
<1>1. CASE UNCHANGED vars
  BY <1>1 DEF vars, CauseInv, HasBad
<1>2. ASSUME NEW c \in Calls, NEW k \in Locals, call' = [call EXCEPT ![c] = k],
             \A d \in Calls : fault[d] => fault'[d],
             k.pc = "failed" => fault'[c] \/ HasBad(k)
      PROVE  CauseInv'
  <2>1. SUFFICES ASSUME NEW d \in Calls
                 PROVE  (call[d].pc = "failed" => fault[d] \/ HasBad(call[d]))'
    BY DEF CauseInv
  <2>2. CASE d = c
    <3>1. call'[d] = k
      BY <1>2, <2>2 DEF TypeInv
    <3> QED BY <1>2, <2>2, <3>1 DEF HasBad
  <2>3. CASE d # c
    <3>1. call'[d] = call[d]
      BY <1>2, <2>3 DEF TypeInv
    <3> QED BY <1>2, <3>1 DEF HasBad, CauseInv
  <2> QED BY <2>2, <2>3
<1>3. ASSUME NEW c \in Calls, Begins(c)
      PROVE  CauseInv'
  <2>1. PICK k \in Locals : call' = [call EXCEPT ![c] = k] /\ k.pc \in {"send", "done"}
    BY <1>3 DEF Begins
  <2>2. \A d \in Calls : fault[d] => fault'[d]
    BY <1>3 DEF Begins
  <2> QED BY <1>2, <2>1, <2>2
<1>4. ASSUME NEW c \in Calls, Outcome(c)
      PROVE  CauseInv'
  <2>1. call[c].pc = "send" /\ \A d \in Calls : fault[d] => fault'[d]
    BY <1>4 DEF Outcome
  <2>2. CASE Succeeded(c, Batch(call[c]))
    <3>1. PICK k \in Locals :
            /\ call' = [call EXCEPT ![c] = k]
            /\ k.pc = IF End(call[c]) = Len(call[c].texts) THEN "done" ELSE "send"
      BY <2>1, <2>2, SucceededIs
    <3>2. k.pc # "failed"
      BY <3>1
    <3> QED BY <1>2, <2>1, <3>1, <3>2
  <2>3. CASE Retried(c) \/ Shrunk(c)
    <3>1. PICK k \in Locals :
            /\ call' = [call EXCEPT ![c] = k]
            /\ k.pc = "send" \/ \E e \in Errors : Gave(c, e) /\ k.pc = "failed"
      BY <2>1, <2>3, OthersAre
    <3>2. call'[c].pc = "send"
      BY <2>1, <2>3 DEF Retried, Shrunk, TypeInv, Locals
    <3>3. k.pc = "send"
      BY <3>1, <3>2 DEF TypeInv
    <3> QED BY <1>2, <2>1, <3>1, <3>3
  <2>4. CASE /\ \E e \in Errors : Gave(c, e)
             /\ fault'[c] \/ (Span(call[c]) = 1 /\ Rejects(Batch(call[c])))
    <3>1. PICK k \in Locals :
            call' = [call EXCEPT ![c] = k] /\ k.texts = call[c].texts
      BY <2>1, <2>4, OthersAre
    <3>2. fault'[c] \/ HasBad(call[c])
      <4>1. ~(1 > limit)
        BY DEF TypeInv
      <4> QED BY <2>1, <2>4, <4>1, RejectedWhy
    <3>3. fault'[c] \/ HasBad(k)
      BY <3>1, <3>2 DEF HasBad
    <3> QED BY <1>2, <2>1, <3>1, <3>3
  <2> QED BY <1>4, <2>2, <2>3, <2>4 DEF Outcome
<1> QED BY <1>1, <1>3, <1>4, NextIs

\* A call fails only for a text of its own that the service takes in no request, or
\* because the service failed one of its own requests other than by rejecting it:
\* batches above the limit are halved until they fit (embed_many).
THEOREM FailuresHaveCauses == Spec => []NoSpuriousFailure
<1>1. Init => CauseInv
  BY DEF Init, CauseInv, Idle
<1>2. TypeInv /\ CauseInv /\ [Next]_vars => CauseInv'
  BY CauseStep
<1>3. CauseInv => NoSpuriousFailure
  BY DEF CauseInv, NoSpuriousFailure, HasBad
<1> QED BY <1>1, <1>2, <1>3, TypeAlways, PTL DEF Spec

-----------------------------------------------------------------------------
(* The shared ceiling.                                                     *)

\* Half of what the service takes, or the configured size if that is less.
Floor == Least(BatchSize, (limit + 1) \div 2)

\* The ceiling never forbids pairs.  While no call has a bad text, the ceiling and the
\* size each call of embed_many has on its own stay above Floor; the sizes belong to
\* the invariant because a call that succeeds writes its size to the ceiling.
Roomy(k) == k.pc # "idle" /\ k.kind = "many" => k.size >= Floor
NoneBad  == \A c \in Calls : ~HasBad(call[c])
FitInv ==
  /\ ceiling >= Least(BatchSize, 2)
  /\ NoneBad => ceiling >= Floor /\ \A c \in Calls : Roomy(call[c])

\* Halving a size that is above the limit leads above half of the limit.
LEMMA Halving ==
  ASSUME NEW s \in 1..BatchSize, limit \in Nat \ {0}, s > limit
  PROVE  (IF s \div 2 > 1 THEN s \div 2 ELSE 1) >= Floor
BY BatchAssumption DEF Floor, Least

LEMMA FloorIs ==
  ASSUME limit \in Nat \ {0}
  PROVE  Floor \in Nat /\ Floor <= BatchSize
BY BatchAssumption DEF Floor, Least

\* One call changes, with the same texts or from the beginning.
LEMMA FitFrame ==
  ASSUME TypeInv, FitInv, NEW c \in Calls, NEW k \in Locals,
         call' = [call EXCEPT ![c] = k], limit' = limit,
         k.texts = call[c].texts \/ call[c] = Idle,
         ceiling' >= Least(BatchSize, 2),
         NoneBad /\ ~HasBad(k) => ceiling' >= Floor /\ Roomy(k)
  PROVE  FitInv'
<1>1. ASSUME NoneBad'
      PROVE  NoneBad /\ ~HasBad(k)
  <2>1. call'[c] = k /\ \A d \in Calls : d # c => call'[d] = call[d]
    BY DEF TypeInv
  <2>2. ~HasBad(k)
    BY <1>1, <2>1 DEF NoneBad, HasBad
  <2>3. \A d \in Calls : d # c => ~HasBad(call[d])
    BY <1>1, <2>1 DEF NoneBad, HasBad
  <2>4. ~HasBad(Idle)
    <3>1. Idle.texts = <<>> /\ DOMAIN <<>> = {}
      BY DEF Idle
    <3> QED BY <3>1 DEF HasBad
  <2>5. ~HasBad(call[c])
    BY <2>2, <2>4 DEF HasBad
  <2> QED BY <2>2, <2>3, <2>5 DEF NoneBad
<1>2. Floor' = Floor
  BY DEF Floor
<1>3. ASSUME NoneBad'
      PROVE  (ceiling >= Floor)' /\ \A d \in Calls : Roomy(call[d])'
  <2>1. NoneBad /\ ceiling' >= Floor /\ Roomy(k) /\ \A d \in Calls : Roomy(call[d])
    BY <1>1, <1>3 DEF FitInv
  <2>2. \A d \in Calls : call'[d] = IF d = c THEN k ELSE call[d]
    BY DEF TypeInv
  <2> QED BY <1>2, <2>1, <2>2 DEF Roomy
<1> QED BY <1>3 DEF FitInv

LEMMA FitStep ==
  ASSUME TypeInv, FitInv, [Next]_vars
  PROVE  FitInv'
<1>1. CASE UNCHANGED vars
  BY <1>1 DEF vars, FitInv, NoneBad, HasBad, Roomy, Floor
<1>2. ASSUME NEW c \in Calls, Begins(c)
      PROVE  FitInv'
  <2>1. PICK k \in Locals :
          /\ call' = [call EXCEPT ![c] = k]
          /\ k.kind = "many" => k.size = ceiling
    BY <1>2 DEF Begins
  <2>2. call[c] = Idle /\ limit' = limit /\ ceiling' = ceiling
    BY <1>2 DEF Begins, TypeInv, Sound
  <2>3. ceiling' >= Least(BatchSize, 2)
    BY <2>2 DEF FitInv
  <2>4. NoneBad => ceiling' >= Floor /\ Roomy(k)
    BY <2>1, <2>2 DEF FitInv, Roomy
  <2> QED BY <2>1, <2>2, <2>3, <2>4, FitFrame
<1>3. ASSUME NEW c \in Calls, Outcome(c)
      PROVE  FitInv'
  <2>1. /\ call[c].pc = "send" /\ call[c] \in Locals /\ Sound(call[c]) /\ limit' = limit
        /\ limit \in Nat \ {0} /\ ceiling \in 1..BatchSize
    BY <1>3 DEF Outcome, TypeInv
  <2>2. /\ call[c].size \in 1..BatchSize /\ Span(call[c]) \in 1..BatchSize
        /\ Span(call[c]) <= call[c].size
    BY <2>1, Windows DEF Locals
  <2>3. ceiling >= Least(BatchSize, 2)
    BY DEF FitInv
  <2>4. CASE Succeeded(c, Batch(call[c]))
    <3>1. PICK k \in Locals :
            /\ call' = [call EXCEPT ![c] = k] /\ k.texts = call[c].texts
            /\ k.size = call[c].size /\ k.kind = call[c].kind
      BY <2>1, <2>4, SucceededIs
    <3>2. ceiling' = IF call[c].kind = "many" /\ Span(call[c]) > 1
                     THEN Least(ceiling, call[c].size) ELSE ceiling
      BY <2>4 DEF Succeeded
    <3>3. ceiling' >= Least(BatchSize, 2)
      BY <2>1, <2>2, <2>3, <3>2, BatchAssumption DEF Least
    <3>4. ASSUME NoneBad
          PROVE  ceiling' >= Floor /\ Roomy(k)
      <4>1. ceiling >= Floor /\ (call[c].kind = "many" => call[c].size >= Floor)
        BY <2>1, <3>4 DEF FitInv, Roomy
      <4> QED BY <2>1, <2>2, <3>1, <3>2, <4>1 DEF Least, Roomy
    <3> QED BY <2>1, <3>1, <3>3, <3>4, FitFrame
  <2>5. CASE UNCHANGED ceiling /\ Shrunk(c) /\ Rejects(Batch(call[c]))
    <3>1. PICK k \in Locals :
            /\ call' = [call EXCEPT ![c] = k] /\ k.texts = call[c].texts
      BY <2>1, <2>5, OthersAre
    <3>2. k.size = IF call[c].size \div 2 > 1 THEN call[c].size \div 2 ELSE 1
      <4>1. call'[c].size = IF call[c].size \div 2 > 1 THEN call[c].size \div 2 ELSE 1
        BY <2>1, <2>5 DEF Shrunk, TypeInv, Locals
      <4> QED BY <3>1, <4>1 DEF TypeInv
    <3>3. ASSUME NoneBad
          PROVE  ceiling' >= Floor /\ Roomy(k)
      <4>1. Span(call[c]) > limit
        BY <2>1, <2>5, <3>3, RejectedWhy DEF NoneBad
      <4>2. call[c].size > limit
        BY <2>1, <2>2, <4>1
      <4>3. k.size >= Floor
        BY <2>1, <2>2, <3>2, <4>2, Halving
      <4> QED BY <2>5, <3>3, <4>3 DEF FitInv, Roomy
    <3> QED BY <2>1, <2>3, <2>5, <3>1, <3>3, FitFrame
  <2>6. CASE UNCHANGED ceiling /\ (Retried(c) \/ \E e \in Errors : Gave(c, e))
    <3>1. PICK k \in Locals :
            /\ call' = [call EXCEPT ![c] = k] /\ k.texts = call[c].texts
            /\ k.kind = call[c].kind
      BY <2>1, <2>6, OthersAre
    <3>2. k.size = call[c].size
      <4>1. call'[c].size = call[c].size
        BY <2>1, <2>6 DEF Retried, Gave, TypeInv, Locals
      <4> QED BY <3>1, <4>1 DEF TypeInv
    <3>3. ASSUME NoneBad
          PROVE  ceiling' >= Floor /\ Roomy(k)
      BY <2>1, <2>6, <3>1, <3>2, <3>3 DEF FitInv, Roomy
    <3> QED BY <2>1, <2>3, <2>6, <3>1, <3>3, FitFrame
  <2> QED BY <1>3, <2>4, <2>5, <2>6 DEF Outcome
<1> QED BY <1>1, <1>2, <1>3, NextIs

\* However many calls shrink at the same time, the ceiling they share never switches
\* batching off, and without bad texts it stays above half of what the service takes
\* (the fetch_min and the comment in embed_many).
THEOREM CeilingStaysFit == Spec => []BatchingSurvives
<1>1. Init => FitInv
  <2> SUFFICES ASSUME Init
               PROVE  FitInv
    OBVIOUS
  <2>1. ceiling = BatchSize /\ limit \in Nat \ {0}
    BY LimitsAssumption DEF Init
  <2>2. ceiling >= Least(BatchSize, 2) /\ ceiling >= Floor
    BY <2>1, BatchAssumption DEF Floor, Least
  <2>3. \A c \in Calls : call[c].pc = "idle"
    BY DEF Init, Idle
  <2> QED BY <2>2, <2>3 DEF FitInv, Roomy
<1>2. TypeInv /\ FitInv /\ [Next]_vars => FitInv'
  BY FitStep
<1>3. FitInv => BatchingSurvives
  BY DEF FitInv, BatchingSurvives, NoneBad, HasBad, Floor
<1> QED BY <1>1, <1>2, <1>3, TypeAlways, PTL DEF Spec
=============================================================================

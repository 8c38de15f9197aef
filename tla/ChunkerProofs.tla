----------------------------- MODULE ChunkerProofs -----------------------------
(***************************************************************************)
(* Theorems about Chunker, for every parsed file and every target size.    *)
(***************************************************************************)
EXTENDS Chunker, FiniteSetTheorems, SequenceTheorems, TLAPS

----------------------------------------------------------------------------
(* Types.                                                                  *)

Events == [kind : Kinds, from : Nat, to : Nat, level : 1..6, text : Texts]
Chunks == [index : Nat, path : Seq(Texts), start : Nat, end : Nat,
           first : Boundaries, last : Boundaries]

TypeInv ==
    /\ doc \in Documents
    /\ at \in 0..Len(doc.events)
    /\ stack \in [1..3 -> Texts]
    /\ open \in OpenChunks \cup {Nothing}
    /\ depth \in Nat
    /\ buf \in Texts \cup {Nothing}
    /\ pending \in SizeBreaks \cup {"thematic_break", Nothing}
    /\ chunks \in Seq(Chunks)
    /\ done \in BOOLEAN
    /\ done => at = Len(doc.events) /\ open = Nothing

\* The event with the index i
E(i) == doc.events[i]
N    == Len(doc.events)

LEMMA EventsAre ==
    ASSUME doc \in Documents
    PROVE  /\ N \in Nat /\ DOMAIN doc.events = 1..N /\ EventIndices = 1..N
           /\ doc.offset \in Nat /\ doc.length \in Nat
           /\ \A i \in 1..N : /\ E(i) \in Events
                              /\ E(i).from \in Nat /\ E(i).to \in Nat
                              /\ E(i).from <= E(i).to /\ E(i).to <= doc.length
                              /\ E(i).kind = "text" => E(i).from < E(i).to
<1>1. Parsed(doc)
  BY DocumentsAssumption
<1>2. doc.events \in Seq(Events) /\ DOMAIN doc.events = 1..N /\ N \in Nat
  BY <1>1 DEF Parsed, Events, N
<1>3. \A i \in 1..N : E(i) \in Events /\ E(i).from \in Nat /\ E(i).to \in Nat
  <2>1. \A i \in 1..N : E(i) \in Events
    BY <1>2 DEF E, N
  <2> QED BY <2>1 DEF Events
<1>4. \A i \in 1..N : /\ E(i).from <= E(i).to /\ E(i).to <= doc.length
                      /\ E(i).kind = "text" => E(i).from < E(i).to
  BY <1>1, <1>2 DEF Parsed, E
<1>5. EventIndices = 1..N /\ doc.offset \in Nat /\ doc.length \in Nat
  BY <1>1 DEF EventIndices, N, Parsed
<1> QED BY <1>2, <1>3, <1>4, <1>5

LEMMA EventsInOrder ==
    ASSUME doc \in Documents, NEW i \in 1..N, NEW j \in 1..N, i < j
    PROVE  /\ E(i).from <= E(j).to
           /\ E(i).kind \in Passed => E(i).to <= E(j).to
           /\ E(j).kind \in Beginning => E(i).from <= E(j).from
           /\ E(j).kind \in Beginning /\ E(i).kind \in Passed => E(i).to <= E(j).from
           /\ j = i + 1 /\ E(i).kind \in Ending /\ E(j).kind # "blockEnd" => E(i).to <= E(j).from
<1>1. Ordered(doc.events) /\ DOMAIN doc.events = 1..N
  BY DocumentsAssumption, EventsAre DEF Parsed
<1> QED BY <1>1 DEF Ordered, E

LEMMA PathIs ==
    ASSUME NEW s \in [1..3 -> Texts]
    PROVE  Path(s) \in Seq(Texts)
<1> DEFINE filled == {i \in 1..3 : s[i] # NoText}
           n == IF filled = {} THEN 0 ELSE CHOOSE i \in filled : \A j \in filled : j <= i
<1>1. s \in Seq(Texts) /\ Len(s) = 3
  <2>1. 3 \in Nat
    OBVIOUS
  <2>2. s \in UNION {[1..m -> Texts] : m \in Nat}
    BY <2>1
  <2>3. s \in Seq(Texts)
    BY <2>2, SeqDef
  <2>4. DOMAIN s = 1..Len(s) /\ Len(s) \in Nat
    BY <2>3, LenProperties
  <2>5. 1..3 = 1..Len(s)
    BY <2>4
  <2>6. Len(s) = 3
    BY <2>4, <2>5
  <2> QED BY <2>3, <2>6
<1>2. n \in 0..3
  <2>1. CASE filled = {}
    BY <2>1
  <2>2. CASE filled # {}
    <3>1. \E i \in filled : \A j \in filled : j <= i
      BY <2>2
    <3>2. n \in filled
      BY <2>2, <3>1
    <3> QED BY <3>2
  <2> QED BY <2>1, <2>2
<1> HIDE DEF n
<1>3. SubSeq(s, 1, n) \in Seq(Texts)
  BY <1>1, <1>2
<1> QED BY <1>3 DEF Path, n

LEMMA OpenIsSomething ==
    ASSUME NEW start \in Nat, NEW path \in Seq(Texts), NEW boundary \in Boundaries
    PROVE  /\ OpenChunk(start, path, boundary) \in OpenChunks
           /\ OpenChunk(start, path, boundary) # Nothing
           /\ OpenChunk(start, path, boundary).start = start
           /\ OpenChunk(start, path, boundary).path = path
           /\ OpenChunk(start, path, boundary).boundary = boundary
<1>1. OpenChunk(start, path, boundary) \in OpenChunks
  BY DEF OpenChunk, OpenChunks
<1> QED BY <1>1, TextsAssumption DEF OpenChunk

\* What ensure_open leaves open.
LEMMA EnsuredIs ==
    ASSUME TypeInv, NEW start \in Nat
    PROVE  /\ Ensured(start) \in OpenChunks /\ Ensured(start) # Nothing
           /\ open # Nothing => Ensured(start) = open
           /\ open = Nothing => /\ Ensured(start).start = start
                                /\ Ensured(start).path = Path(stack)
                                /\ Ensured(start).boundary =
                                     IF pending = Nothing THEN "document_start" ELSE pending
           /\ PendingAfterEnsure \in SizeBreaks \cup {"thematic_break", Nothing}
<1> DEFINE b == IF pending = Nothing THEN "document_start" ELSE pending
<1>1. b \in Boundaries /\ Path(stack) \in Seq(Texts)
  BY PathIs DEF TypeInv, Boundaries
<1>2. CASE open = Nothing
  <2>1. Ensured(start) = OpenChunk(start, Path(stack), b)
    BY <1>2 DEF Ensured
  <2> HIDE DEF b
  <2>2. /\ Ensured(start) \in OpenChunks /\ Ensured(start) # Nothing
        /\ Ensured(start).start = start /\ Ensured(start).path = Path(stack)
        /\ Ensured(start).boundary = b
    BY <1>1, <2>1, OpenIsSomething
  <2> QED BY <1>2, <2>2 DEF b, TypeInv, PendingAfterEnsure
<1>3. CASE open # Nothing
  BY <1>3 DEF TypeInv, Ensured, PendingAfterEnsure
<1> QED BY <1>2, <1>3

\* What emit adds.
ChunkOf(o, end, why) == [index |-> Len(chunks), path |-> o.path,
                         start |-> doc.offset + o.start, end |-> doc.offset + end,
                         first |-> o.boundary, last |-> why]

LEMMA EmittedIs ==
    ASSUME TypeInv, NEW o \in OpenChunks, NEW end \in Nat, NEW why \in Boundaries
    PROVE  /\ end <= o.start => Emitted(o, end, why) = <<>> /\ chunks \o Emitted(o, end, why) = chunks
           /\ o.start < end => chunks \o Emitted(o, end, why) = Append(chunks, ChunkOf(o, end, why))
           /\ ChunkOf(o, end, why) \in Chunks
           /\ chunks \o Emitted(o, end, why) \in Seq(Chunks)
<1>1. ChunkOf(o, end, why) \in Chunks
  <2>1. Len(chunks) \in Nat /\ doc.offset \in Nat
    BY EventsAre DEF TypeInv
  <2> QED BY <2>1 DEF ChunkOf, Chunks, OpenChunks
<1>2. CASE end <= o.start
  <2>1. Emitted(o, end, why) = <<>> /\ ~(o.start < end)
    BY <1>2 DEF Emitted, OpenChunks
  <2>2. chunks \o <<>> = chunks
    BY DEF TypeInv
  <2> QED BY <1>1, <1>2, <2>1, <2>2 DEF TypeInv
<1>3. CASE ~(end <= o.start)
  <2>1. Emitted(o, end, why) = <<ChunkOf(o, end, why)>> /\ o.start < end
    BY <1>3 DEF Emitted, ChunkOf, OpenChunks
  <2>2. ASSUME NEW k \in Chunks
        PROVE  chunks \o <<k>> = Append(chunks, k) /\ Append(chunks, k) \in Seq(Chunks)
    BY DEF TypeInv
  <2> QED BY <1>1, <1>3, <2>1, <2>2
<1> QED BY <1>2, <1>3

----------------------------------------------------------------------------
(* Headings.  The text of a heading is collected while the chunker is in   *)
(* it, and nothing but texts comes before its end.                         *)

InHeading(i) == /\ i \in 1..at /\ E(i).kind = "headingStart"
                /\ \A k \in (i + 1)..at : E(k).kind \in {"text", "other"}

HeadInv ==
    /\ buf # Nothing <=> \E i \in 1..at : InHeading(i)
    /\ buf # Nothing /\ E(at).kind = "text" => buf = E(at).text

LEMMA InsideHeading ==
    ASSUME TypeInv, NEW i \in 1..at, InHeading(i)
    PROVE  /\ at < N /\ E(at + 1).kind \in {"text", "other", "headingEnd"}
           /\ E(at + 1).kind = "headingEnd" => E(at + 1).level = E(i).level
<1>1. Nested(doc.events) /\ DOMAIN doc.events = 1..N /\ N \in Nat
  BY DocumentsAssumption, EventsAre DEF Parsed, TypeInv
<1>2. at \in 0..N /\ i \in 1..N
  BY <1>1 DEF TypeInv, N
<1>3. EndsBy(doc.events, i, {"text", "other"}, "headingEnd")
  BY <1>1, <1>2 DEF Nested, InHeading, E
<1>4. PICK n \in 1..N : /\ i < n /\ E(n).kind = "headingEnd" /\ E(n).level = E(i).level
                        /\ \A k \in (i + 1)..(n - 1) : E(k).kind \in {"text", "other"}
  BY <1>1, <1>3 DEF EndsBy, E
<1>5. ~(n <= at)
  <2> SUFFICES ASSUME n <= at PROVE FALSE
    OBVIOUS
  <2>1. n \in (i + 1)..at
    BY <1>2, <1>4
  <2> QED BY <1>4, <2>1 DEF InHeading
<1>6. CASE n = at + 1
  BY <1>1, <1>2, <1>4, <1>6
<1>7. CASE n # at + 1
  <2>1. at + 1 \in (i + 1)..(n - 1)
    BY <1>1, <1>2, <1>5, <1>7
  <2> QED BY <1>1, <1>2, <1>4, <1>5, <2>1
<1> QED BY <1>6, <1>7

LEMMA HeadingEnds ==
    ASSUME TypeInv, at < N, E(at + 1).kind = "headingEnd"
    PROVE  /\ at \in 1..N /\ E(at).kind = "text"
           /\ \E i \in 1..at : InHeading(i) /\ E(at + 1).level = E(i).level
<1>1. Nested(doc.events) /\ DOMAIN doc.events = 1..N /\ N \in Nat
  BY DocumentsAssumption, EventsAre DEF Parsed, TypeInv
<1>2. at \in 0..N /\ at + 1 \in 1..N
  BY <1>1 DEF TypeInv, N
<1>3. /\ BeginsBy(doc.events, at + 1, {"text", "other"}, "headingStart")
      /\ doc.events[(at + 1) - 1].kind = "text"
  BY <1>1, <1>2 DEF Nested, E
<1>4. PICK i \in 1..N : /\ i < at + 1 /\ E(i).kind = "headingStart" /\ E(at + 1).level = E(i).level
                        /\ \A k \in (i + 1)..((at + 1) - 1) : E(k).kind \in {"text", "other"}
  BY <1>1, <1>3 DEF BeginsBy, E
<1>5. i \in 1..at /\ at \in 1..N /\ (at + 1) - 1 = at
  BY <1>2, <1>4
<1>6. InHeading(i)
  BY <1>4, <1>5 DEF InHeading
<1> QED BY <1>3, <1>4, <1>5, <1>6 DEF E

----------------------------------------------------------------------------
(* The five kinds of step.  Most of the invariants below look at the open  *)
(* chunk and the emitted ones only, and for these the ten actions differ   *)
(* in five ways.                                                           *)

Ev    == E(at + 1)
Takes == at < N /\ at' = at + 1 /\ doc' = doc /\ done' = done

Emits(o, end, why) ==
    IF o # Nothing /\ o.start < end THEN chunks' = Append(chunks, ChunkOf(o, end, why))
    ELSE chunks' = chunks

\* The chunk goes on, or one is opened.
GoesOn ==
    /\ Takes /\ Ev.kind # "rule" /\ chunks' = chunks
    /\ open' \in OpenChunks /\ open' # Nothing /\ pending' = PendingAfterEnsure
    /\ open'.start = Ensured(Ev.from).start /\ open'.boundary = Ensured(Ev.from).boundary
    /\ Ev.kind \in {"blockEnd", "codeEnd"} => depth' # 0 \/ ~(Ev.to - open'.start > Target)
\* A heading ends the chunk and opens the next.
Enters ==
    /\ Takes /\ Ev.kind = "headingStart" /\ Emits(open, Ev.from, Label(Ev.level))
    /\ open' \in OpenChunks /\ open' # Nothing /\ pending' = Nothing
    /\ open'.start = Ev.from /\ open'.boundary = Label(Ev.level)
\* A thematic break ends the chunk.
Parts ==
    /\ Takes /\ Ev.kind = "rule" /\ Emits(open, Ev.from, "thematic_break")
    /\ open' = Nothing /\ pending' = "thematic_break"
\* The size ends it.
Breaks ==
    /\ Takes /\ Ev.kind \in {"blockEnd", "codeEnd"} /\ depth' = 0
    /\ Ev.to - Ensured(Ev.from).start > Target
    /\ open' = Nothing /\ pending' \in SizeBreaks /\ Emits(Ensured(Ev.from), Ev.to, pending')
\* The end of the file ends it.
Ends ==
    /\ at = N /\ at' = at /\ doc' = doc /\ ~done /\ done'
    /\ open' = Nothing /\ pending' = pending /\ Emits(open, doc.length, "document_end")

LEMMA LabelIs == \A l : Label(l) \in Headings /\ Label(l) \in Boundaries
BY DEF Label, Headings, Boundaries

LEMMA CloseEmits ==
    ASSUME TypeInv, NEW end \in Nat, NEW why \in Boundaries, chunks' = Close(end, why)
    PROVE  Emits(open, end, why) /\ chunks' \in Seq(Chunks)
<1>1. CASE open = Nothing
  BY <1>1 DEF Close, Emits, TypeInv
<1>2. CASE open # Nothing
  <2>1. open \in OpenChunks /\ open.start \in Nat
    BY <1>2 DEF TypeInv, OpenChunks
  <2>2. chunks' = chunks \o Emitted(open, end, why)
    BY <1>2 DEF Close
  <2>3. end <= open.start \/ open.start < end
    BY <2>1
  <2> QED BY <1>2, <2>1, <2>2, <2>3, EmittedIs DEF Emits
<1> QED BY <1>1, <1>2

LEMMA EventIs ==
    ASSUME TypeInv, at < N
    PROVE  /\ Event = Ev /\ at + 1 \in 1..N /\ Ev \in Events
           /\ Ev.from \in Nat /\ Ev.to \in Nat /\ Ev.level \in 1..6 /\ Ev.text \in Texts
<1>1. at + 1 \in 1..N
  BY EventsAre DEF TypeInv, N
<1>2. Ev \in Events /\ Event = Ev
  BY <1>1, EventsAre DEF TypeInv, Ev, E, Event
<1> QED BY <1>1, <1>2 DEF Events

LEMMA HandlesTakes ==
    ASSUME TypeInv, NEW kind, Handles(kind), UNCHANGED <<doc, done>>
    PROVE  Takes /\ Ev.kind = kind /\ Event = Ev
BY EventIs DEF Handles, Takes, N

LEMMA SizeBreakIs ==
    ASSUME TypeInv, Takes, Ev.kind \in {"blockEnd", "codeEnd"}, NEW why \in SizeBreaks,
           Event = Ev, depth' \in Nat, SizeBreak(Ev.to, why)
    PROVE  GoesOn \/ Breaks
<1> DEFINE o == Ensured(Ev.from)
<1>1. Ev.from \in Nat /\ Ev.to \in Nat
  BY EventIs DEF Takes
<1>2. o \in OpenChunks /\ o # Nothing /\ o.start \in Nat
  BY <1>1, EnsuredIs DEF OpenChunks
<1>3. CASE depth' = 0 /\ Ev.to - o.start > Target
  <2>1. chunks' = chunks \o Emitted(o, Ev.to, why) /\ open' = Nothing /\ pending' = why
    BY <1>3 DEF SizeBreak
  <2>2. o.start < Ev.to
    BY <1>1, <1>2, <1>3, TargetAssumption
  <2>3. why \in Boundaries
    BY DEF Boundaries
  <2> HIDE DEF o
  <2>4. chunks' = Append(chunks, ChunkOf(o, Ev.to, why))
    BY <1>1, <1>2, <2>1, <2>2, <2>3, EmittedIs
  <2> QED BY <1>2, <1>3, <2>1, <2>2, <2>4 DEF o, Breaks, Emits
<1>4. CASE ~(depth' = 0 /\ Ev.to - o.start > Target)
  <2>1. open' = o /\ pending' = PendingAfterEnsure /\ chunks' = chunks
    BY <1>4 DEF SizeBreak
  <2> QED BY <1>2, <1>4, <2>1 DEF GoesOn
<1> QED BY <1>3, <1>4

LEMMA StepIsOne ==
    ASSUME TypeInv, HeadInv, Next
    PROVE  GoesOn \/ Enters \/ Parts \/ Breaks \/ Ends
<1>1. CASE HeadingStart
  <2>1. Takes /\ Ev.kind = "headingStart" /\ Event = Ev /\ Ev.from \in Nat /\ <<>> \in Seq(Texts)
    BY <1>1, HandlesTakes, EventIs DEF HeadingStart, Takes
  <2>2. Label(Ev.level) \in Boundaries
    BY LabelIs
  <2>3. Emits(open, Ev.from, Label(Ev.level))
    BY <1>1, <2>1, <2>2, CloseEmits DEF HeadingStart
  <2>4. open' = OpenChunk(Ev.from, <<>>, Label(Ev.level)) /\ pending' = Nothing
    BY <1>1, <2>1 DEF HeadingStart
  <2>5. /\ open' \in OpenChunks /\ open' # Nothing /\ open'.start = Ev.from
        /\ open'.boundary = Label(Ev.level)
    <3>1. PICK p \in Seq(Texts) : p = <<>>
      BY <2>1
    <3>2. open' = OpenChunk(Ev.from, p, Label(Ev.level))
      BY <2>4, <3>1
    <3> QED BY <2>1, <2>2, <3>2, OpenIsSomething
  <2> QED BY <2>1, <2>3, <2>4, <2>5 DEF Enters
<1>2. CASE SubheadingStart \/ CodeStart \/ Text \/ Other
  <2>1. /\ Takes /\ Event = Ev /\ Ev.kind \in {"headingStart", "codeStart", "text", "other"}
        /\ chunks' = chunks /\ open' = Ensured(Ev.from) /\ pending' = PendingAfterEnsure
    BY <1>2, HandlesTakes DEF SubheadingStart, CodeStart, Text, Other
  <2>2. Ev.from \in Nat
    BY <2>1, EventIs DEF Takes
  <2> QED BY <2>1, <2>2, EnsuredIs DEF GoesOn
<1>3. CASE HeadingEnd
  <2>1. Takes /\ Event = Ev /\ Ev.kind = "headingEnd" /\ chunks' = chunks /\ pending' = PendingAfterEnsure
    BY <1>3, HandlesTakes DEF HeadingEnd
  <2>2. Ev.from \in Nat /\ Ev.level \in 1..6 /\ Ev.text \in Texts
    BY <2>1, EventIs DEF Takes
  <2>3. Ensured(Ev.from) \in OpenChunks /\ Ensured(Ev.from) # Nothing
    BY <2>2, EnsuredIs
  <2>4. CASE Ev.level <= 3
    <3>1. open' = [Ensured(Ev.from) EXCEPT !.path = Path(stack')]
      BY <1>3, <2>1, <2>4 DEF HeadingEnd
    <3>2. open' = OpenChunk(Ensured(Ev.from).start, Path(stack'), Ensured(Ev.from).boundary)
      BY <2>3, <3>1 DEF OpenChunk, OpenChunks
    <3>3. Path(stack') \in Seq(Texts)
      <4>1. stack' = Raised(Ev.level, buf)
        BY <1>3, <2>1, <2>4 DEF HeadingEnd
      <4>2. buf \in Texts
        BY <2>1, HeadingEnds DEF HeadInv, TypeInv, Takes, Ev
      <4> QED BY <4>1, <4>2, PathIs, TextsAssumption DEF Raised, TypeInv
    <3>4. Ensured(Ev.from).start \in Nat /\ Ensured(Ev.from).boundary \in Boundaries
      BY <2>3 DEF OpenChunks
    <3> QED BY <2>1, <2>3, <3>2, <3>3, <3>4, OpenIsSomething DEF GoesOn
  <2>5. CASE ~(Ev.level <= 3)
    <3>1. open' = Ensured(Ev.from)
      BY <1>3, <2>1, <2>5 DEF HeadingEnd
    <3> QED BY <2>1, <2>3, <3>1 DEF GoesOn
  <2> QED BY <2>4, <2>5
<1>4. CASE Rule
  <2>1. Takes /\ Ev.kind = "rule" /\ Event = Ev /\ open' = Nothing /\ pending' = "thematic_break"
    BY <1>4, HandlesTakes DEF Rule
  <2>2. Ev.from \in Nat /\ "thematic_break" \in Boundaries
    BY <2>1, EventIs DEF Takes, Boundaries
  <2> QED BY <1>4, <2>1, <2>2, CloseEmits DEF Rule, Parts
<1>5. CASE CodeEnd
  <2>1. Takes /\ Ev.kind = "codeEnd" /\ Event = Ev
    BY <1>5, HandlesTakes DEF CodeEnd
  <2>2. depth' \in Nat /\ SizeBreak(Ev.to, "size_after_code_block")
    BY <1>5, <2>1 DEF CodeEnd, TypeInv
  <2> QED BY <2>1, <2>2, SizeBreakIs DEF SizeBreaks
<1>6. CASE BlockEnd
  <2>1. Takes /\ Ev.kind = "blockEnd" /\ Event = Ev
    BY <1>6, HandlesTakes DEF BlockEnd
  <2>2. depth' \in Nat /\ SizeBreak(Ev.to, "size_after_block")
    BY <1>6, <2>1 DEF BlockEnd, TypeInv
  <2> QED BY <2>1, <2>2, SizeBreakIs DEF SizeBreaks
<1>7. CASE Finish
  <2>1. doc.length \in Nat /\ "document_end" \in Boundaries
    BY EventsAre DEF TypeInv, Boundaries
  <2> QED BY <1>7, <2>1, CloseEmits DEF Finish, Ends, N
<1> QED BY <1>1, <1>2, <1>3, <1>4, <1>5, <1>6, <1>7 DEF Next

LEMMA EmitsTyped ==
    ASSUME TypeInv, NEW o \in OpenChunks \cup {Nothing}, NEW end \in Nat, NEW why \in Boundaries,
           Emits(o, end, why)
    PROVE  chunks' \in Seq(Chunks)
<1>1. CASE o # Nothing /\ o.start < end
  <2>1. ChunkOf(o, end, why) \in Chunks
    BY <1>1, EmittedIs
  <2> QED BY <1>1, <2>1 DEF Emits, TypeInv
<1>2. CASE ~(o # Nothing /\ o.start < end)
  BY <1>2 DEF Emits, TypeInv
<1> QED BY <1>1, <1>2

BaseInv == TypeInv /\ HeadInv

\* The type of what the five kinds of step change.
LEMMA ChunksTyped ==
    ASSUME TypeInv, GoesOn \/ Enters \/ Parts \/ Breaks \/ Ends
    PROVE  /\ doc' = doc /\ at' \in 0..N /\ chunks' \in Seq(Chunks)
           /\ open' \in OpenChunks \cup {Nothing}
           /\ pending' \in SizeBreaks \cup {"thematic_break", Nothing}
           /\ done' \in BOOLEAN /\ (done' => at' = N /\ open' = Nothing)
<1>1. at \in 0..N /\ N \in Nat /\ open \in OpenChunks \cup {Nothing} /\ done \in BOOLEAN
      /\ (done => at = N) /\ doc.length \in Nat
  BY EventsAre DEF TypeInv, N
<1>2. ASSUME Takes
      PROVE  at' \in 0..N /\ done' \in BOOLEAN /\ ~done' /\ doc' = doc
             /\ Ev.from \in Nat /\ Ev.to \in Nat
  BY <1>1, <1>2, EventIs DEF Takes
<1>3. CASE GoesOn
  <2>1. Takes /\ Ev.from \in Nat
    BY <1>2, <1>3 DEF GoesOn
  <2>2. PendingAfterEnsure \in SizeBreaks \cup {"thematic_break", Nothing}
    BY <2>1, EnsuredIs
  <2> QED BY <1>2, <1>3, <2>1, <2>2 DEF GoesOn, TypeInv
<1>4. CASE Enters
  <2>1. chunks' \in Seq(Chunks)
    BY <1>1, <1>2, <1>4, LabelIs, EmitsTyped DEF Enters
  <2> QED BY <1>2, <1>4, <2>1 DEF Enters
<1>5. CASE Parts
  <2>1. chunks' \in Seq(Chunks)
    BY <1>1, <1>2, <1>5, EmitsTyped DEF Parts, Boundaries
  <2> QED BY <1>2, <1>5, <2>1 DEF Parts
<1>6. CASE Breaks
  <2>1. Ensured(Ev.from) \in OpenChunks
    BY <1>2, <1>6, EnsuredIs DEF Breaks
  <2>2. chunks' \in Seq(Chunks)
    BY <1>1, <1>2, <1>6, <2>1, EmitsTyped DEF Breaks, Boundaries
  <2> QED BY <1>2, <1>6, <2>2 DEF Breaks
<1>7. CASE Ends
  <2>1. chunks' \in Seq(Chunks)
    BY <1>1, <1>7, EmitsTyped DEF Ends, Boundaries
  <2> QED BY <1>1, <1>7, <2>1 DEF Ends, TypeInv
<1> QED BY <1>3, <1>4, <1>5, <1>6, <1>7

LEMMA RaisedIs ==
    ASSUME TypeInv, NEW l \in 1..3, NEW t \in Texts
    PROVE  Raised(l, t) \in [1..3 -> Texts]
BY TextsAssumption DEF Raised, TypeInv

LEMMA RestTyped ==
    ASSUME TypeInv, HeadInv, Next
    PROVE  stack' \in [1..3 -> Texts] /\ depth' \in Nat /\ buf' \in Texts \cup {Nothing}
<1>1. CASE HeadingStart \/ SubheadingStart
  BY <1>1, TextsAssumption DEF HeadingStart, SubheadingStart, TypeInv
<1>2. CASE HeadingEnd
  <2>1. Takes /\ Ev.kind = "headingEnd" /\ Event = Ev
    BY <1>2, HandlesTakes DEF HeadingEnd
  <2>2. Ev.level \in 1..6 /\ buf \in Texts
    <3>1. Ev.level \in 1..6
      BY <2>1, EventIs DEF Takes
    <3>2. buf # Nothing
      BY <2>1, HeadingEnds DEF HeadInv, Takes, Ev
    <3> QED BY <3>1, <3>2 DEF TypeInv
  <2>3. stack' \in [1..3 -> Texts]
    <3>1. CASE Ev.level <= 3
      <4>1. stack' = Raised(Ev.level, buf) /\ Ev.level \in 1..3
        BY <1>2, <2>1, <2>2, <3>1 DEF HeadingEnd
      <4> QED BY <2>2, <4>1, RaisedIs
    <3>2. CASE ~(Ev.level <= 3)
      BY <1>2, <2>1, <3>2 DEF HeadingEnd, TypeInv
    <3> QED BY <3>1, <3>2
  <2> QED BY <1>2, <2>3 DEF HeadingEnd, TypeInv
<1>3. CASE Rule \/ CodeStart \/ Other \/ BlockEnd \/ Finish
  BY <1>3 DEF Rule, CodeStart, Other, BlockEnd, Finish, TypeInv
<1>4. CASE CodeEnd
  BY <1>4 DEF CodeEnd, TypeInv
<1>5. CASE Text
  <2>1. Takes /\ Event = Ev
    BY <1>5, HandlesTakes DEF Text
  <2>2. Ev.text \in Texts
    BY <2>1, EventIs DEF Takes
  <2> QED BY <1>5, <2>1, <2>2 DEF Text, TypeInv
<1> QED BY <1>1, <1>2, <1>3, <1>4, <1>5 DEF Next

LEMMA TypeStep ==
    ASSUME TypeInv, HeadInv, Next
    PROVE  TypeInv'
<1>1. GoesOn \/ Enters \/ Parts \/ Breaks \/ Ends
  BY StepIsOne
<1> QED BY <1>1, ChunksTyped, RestTyped DEF TypeInv, N

\* What begins and ends headings.
LEMMA HeadStep ==
    ASSUME TypeInv, HeadInv, Next
    PROVE  HeadInv'
<1>0. at \in 0..N /\ N \in Nat
  BY EventsAre DEF TypeInv, N
<1> DEFINE In(i, n) == /\ E(i).kind = "headingStart"
                       /\ \A k \in (i + 1)..n : E(k).kind \in {"text", "other"}
<1>1. /\ buf # Nothing <=> \E i \in 1..at : In(i, at)
      /\ buf # Nothing /\ E(at).kind = "text" => buf = E(at).text
  BY DEF HeadInv, InHeading
<1>2. SUFFICES /\ doc' = doc
               /\ buf' # Nothing <=> \E i \in 1..at' : In(i, at')
               /\ buf' # Nothing /\ E(at').kind = "text" => buf' = E(at').text
  <2> SUFFICES ASSUME /\ doc' = doc
                      /\ buf' # Nothing <=> \E i \in 1..at' : In(i, at')
                      /\ buf' # Nothing /\ E(at').kind = "text" => buf' = E(at').text
               PROVE  HeadInv'
    OBVIOUS
  <2> QED BY DEF HeadInv, InHeading, E
<1>3. ASSUME Takes
      PROVE  /\ at' = at + 1 /\ Ev = E(at + 1) /\ doc' = doc /\ at + 1 \in 1..N
             /\ Ev.kind \in {"text", "other"} =>
                   ((\E i \in 1..(at + 1) : In(i, at + 1)) <=> \E i \in 1..at : In(i, at))
             /\ Ev.kind \notin {"text", "other", "headingStart"} => ~\E i \in 1..(at + 1) : In(i, at + 1)
             /\ Ev.kind \notin {"text", "other", "headingEnd"} => ~\E i \in 1..at : In(i, at)
  <2>1. at' = at + 1 /\ Ev = E(at + 1) /\ doc' = doc /\ at + 1 \in 1..N
    BY <1>0, <1>3 DEF Takes, Ev
  <2>2. ASSUME Ev.kind \in {"text", "other"}
        PROVE  (\E i \in 1..(at + 1) : In(i, at + 1)) <=> \E i \in 1..at : In(i, at)
    <3>1. ASSUME NEW i \in 1..(at + 1), In(i, at + 1)
          PROVE  i \in 1..at /\ In(i, at)
      BY <1>0, <2>1, <2>2, <3>1
    <3>2. ASSUME NEW i \in 1..at, In(i, at)
          PROVE  i \in 1..(at + 1) /\ In(i, at + 1)
      <4>1. \A k \in (i + 1)..(at + 1) : k \in (i + 1)..at \/ k = at + 1
        BY <1>0
      <4> QED BY <1>0, <2>1, <2>2, <3>2, <4>1
    <3> QED BY <3>1, <3>2
  <2>3. ASSUME Ev.kind \notin {"text", "other", "headingStart"}, NEW i \in 1..(at + 1), In(i, at + 1)
        PROVE  FALSE
    <3>1. CASE i = at + 1
      BY <2>1, <2>3, <3>1
    <3>2. CASE i # at + 1
      <4>1. at + 1 \in (i + 1)..(at + 1)
        BY <1>0, <3>2
      <4> QED BY <2>1, <2>3, <4>1
    <3> QED BY <3>1, <3>2
  <2>4. ASSUME Ev.kind \notin {"text", "other", "headingEnd"}, NEW i \in 1..at, In(i, at)
        PROVE  FALSE
    <3>1. InHeading(i)
      BY <2>4 DEF InHeading
    <3> QED BY <2>1, <2>4, <3>1, InsideHeading
  <2> QED BY <2>1, <2>2, <2>3, <2>4
<1> HIDE DEF In
<1>4. CASE HeadingStart \/ SubheadingStart
  <2>1. Takes /\ Ev.kind = "headingStart" /\ buf' = NoText
    BY <1>4, HandlesTakes DEF HeadingStart, SubheadingStart
  <2>2. In(at + 1, at + 1)
    <3>1. (at + 1 + 1)..(at + 1) = {}
      BY <1>0
    <3> QED BY <2>1, <3>1 DEF In, Ev
  <2> QED BY <1>0, <1>3, <2>1, <2>2, TextsAssumption
<1>5. CASE HeadingEnd
  <2>1. Takes /\ Ev.kind = "headingEnd" /\ buf' = Nothing
    BY <1>5, HandlesTakes DEF HeadingEnd
  <2> QED BY <1>3, <2>1
<1>6. CASE Rule \/ CodeStart \/ CodeEnd \/ BlockEnd
  <2>1. Takes /\ Ev.kind \in {"rule", "codeStart", "codeEnd", "blockEnd"} /\ buf' = buf
    BY <1>6, HandlesTakes DEF Rule, CodeStart, CodeEnd, BlockEnd
  <2> QED BY <1>1, <1>3, <2>1
<1>7. CASE Text
  <2>1. Takes /\ Ev.kind = "text" /\ Event = Ev /\ buf' = IF buf = Nothing THEN Nothing ELSE Ev.text
    BY <1>7, HandlesTakes DEF Text
  <2>2. Ev.text \in Texts
    BY <2>1, EventIs DEF Takes
  <2> QED BY <1>1, <1>3, <2>1, <2>2, TextsAssumption
<1>8. CASE Other
  <2>1. Takes /\ Ev.kind = "other" /\ buf' = buf
    BY <1>8, HandlesTakes DEF Other
  <2> QED BY <1>1, <1>3, <2>1
<1>9. CASE Finish
  BY <1>1, <1>9 DEF Finish
<1> QED BY <1>4, <1>5, <1>6, <1>7, <1>8, <1>9 DEF Next

LEMMA BaseInit == Init => BaseInv
<1> SUFFICES ASSUME Init PROVE BaseInv
  OBVIOUS
<1>1. Len(doc.events) \in Nat /\ 0 \in 0..Len(doc.events)
  BY EventsAre DEF Init, N
<1>2. TypeInv
  <2>1. stack \in [1..3 -> Texts]
    BY TextsAssumption DEF Init
  <2>2. chunks \in Seq(Chunks) /\ depth \in Nat
    BY DEF Init
  <2> QED BY <1>1, <2>1, <2>2 DEF Init, TypeInv
<1>3. HeadInv
  BY DEF Init, HeadInv
<1> QED BY <1>2, <1>3 DEF BaseInv

LEMMA BaseStep == BaseInv /\ [Next]_vars => BaseInv'
<1> SUFFICES ASSUME BaseInv, [Next]_vars PROVE BaseInv'
  OBVIOUS
<1>1. CASE Next
  BY <1>1, TypeStep, HeadStep DEF BaseInv
<1>2. CASE UNCHANGED vars
  BY <1>2 DEF vars, BaseInv, TypeInv, HeadInv, InHeading, E
<1> QED BY <1>1, <1>2

----------------------------------------------------------------------------
(* Boundaries.                                                             *)

\* The reason b for a chunk to begin at start is the true one.
Rightly(b, start) ==
    IF b \in Headings
    THEN \E i \in 1..N : /\ E(i).kind = "headingStart" /\ Label(E(i).level) = b
                         /\ E(i).from = start
    ELSE Len(chunks) > 0 => b \in {chunks[Len(chunks)].last, "thematic_break"}

BoundInv ==
    /\ open # Nothing => pending = Nothing /\ Rightly(open.boundary, open.start)
    /\ pending \in SizeBreaks => Len(chunks) > 0 /\ chunks[Len(chunks)].last = pending
    /\ open = Nothing /\ pending = Nothing /\ ~done => Len(chunks) = 0

Met(cs, c) ==
    IF cs[c].first \in Headings
    THEN \E i \in 1..N : /\ E(i).kind = "headingStart" /\ Label(E(i).level) = cs[c].first
                         /\ doc.offset + E(i).from = cs[c].start
    ELSE c > 1 => cs[c].first \in {cs[c - 1].last, "thematic_break"}

LEMMA MetIs == TypeInv => (BoundariesMeet <=> \A c \in 1..Len(chunks) : Met(chunks, c))
<1> SUFFICES ASSUME TypeInv
             PROVE  BoundariesMeet <=> \A c \in 1..Len(chunks) : Met(chunks, c)
  OBVIOUS
<1>1. DOMAIN chunks = 1..Len(chunks) /\ EventIndices = 1..N
  BY EventsAre DEF TypeInv
<1> QED BY <1>1 DEF BoundariesMeet, Met, InFile, E

\* What emit does to the chunks, seen from an index.
LEMMA Appended ==
    ASSUME TypeInv, NEW o \in OpenChunks, NEW end \in Nat, NEW why \in Boundaries,
           Emits(o, end, why)
    PROVE  \/ chunks' = chunks /\ end <= o.start
           \/ /\ o.start < end
              /\ Len(chunks) \in Nat /\ Len(chunks') = Len(chunks) + 1
              /\ chunks'[Len(chunks) + 1] = ChunkOf(o, end, why)
              /\ \A c \in 1..Len(chunks) : chunks'[c] = chunks[c]
<1>1. o # Nothing /\ o.start \in Nat
  BY TextsAssumption DEF OpenChunks
<1>2. CASE o.start < end
  <2>1. chunks' = Append(chunks, ChunkOf(o, end, why)) /\ chunks \in Seq(Chunks)
    BY <1>1, <1>2 DEF Emits, TypeInv
  <2>2. ChunkOf(o, end, why) \in Chunks
    BY EmittedIs
  <2> HIDE DEF ChunkOf
  <2> QED BY <1>2, <2>1, <2>2
<1>3. CASE ~(o.start < end)
  BY <1>1, <1>3 DEF Emits
<1> QED BY <1>2, <1>3

LEMMA EmitsMet ==
    ASSUME TypeInv, NEW o \in OpenChunks, NEW end \in Nat, NEW why \in Boundaries,
           Emits(o, end, why), doc' = doc,
           \A c \in 1..Len(chunks) : Met(chunks, c), Rightly(o.boundary, o.start)
    PROVE  \A c \in 1..Len(chunks') : Met(chunks', c)
<1>1. CASE chunks' = chunks
  BY <1>1
<1>2. CASE chunks' # chunks
  <2>1. /\ Len(chunks) \in Nat /\ Len(chunks') = Len(chunks) + 1
        /\ chunks'[Len(chunks) + 1] = ChunkOf(o, end, why)
        /\ \A c \in 1..Len(chunks) : chunks'[c] = chunks[c]
    BY <1>2, Appended
  <2>2. ASSUME NEW c \in 1..Len(chunks)
        PROVE  Met(chunks', c)
    <3>1. Met(chunks, c) /\ chunks'[c] = chunks[c]
      BY <2>1
    <3>2. c > 1 => chunks'[c - 1] = chunks[c - 1]
      BY <2>1
    <3> QED BY <3>1, <3>2 DEF Met
  <2>3. Met(chunks', Len(chunks) + 1)
    <3> DEFINE n == Len(chunks) + 1
               k == chunks'[n]
    <3>1. k.first = o.boundary /\ k.start = doc.offset + o.start
      BY <2>1 DEF ChunkOf
    <3>2. CASE o.boundary \in Headings
      <4>1. PICK i \in 1..N : /\ E(i).kind = "headingStart" /\ Label(E(i).level) = o.boundary
                              /\ E(i).from = o.start
        BY <3>2 DEF Rightly
      <4> QED BY <3>1, <3>2, <4>1 DEF Met
    <3>3. CASE o.boundary \notin Headings
      <4>1. n > 1 => Len(chunks) > 0 /\ chunks'[n - 1] = chunks[Len(chunks)]
        BY <2>1
      <4>2. Len(chunks) > 0 => o.boundary \in {chunks[Len(chunks)].last, "thematic_break"}
        BY <3>3 DEF Rightly
      <4> QED BY <3>1, <3>3, <4>1, <4>2 DEF Met
    <3> QED BY <3>2, <3>3
  <2>4. \A c \in 1..Len(chunks') : c \in 1..Len(chunks) \/ c = Len(chunks) + 1
    BY <2>1
  <2> QED BY <2>2, <2>3, <2>4
<1> QED BY <1>1, <1>2

LEMMA EnsuredRightly ==
    ASSUME TypeInv, BoundInv, ~done, NEW start \in Nat
    PROVE  Rightly(Ensured(start).boundary, Ensured(start).start)
<1>1. CASE open # Nothing
  BY <1>1, EnsuredIs DEF BoundInv
<1>2. CASE open = Nothing
  <2>1. Ensured(start).boundary = IF pending = Nothing THEN "document_start" ELSE pending
    BY <1>2, EnsuredIs
  <2>2. Ensured(start).boundary \notin Headings
    BY <2>1 DEF TypeInv, Headings, SizeBreaks
  <2>3. CASE pending = Nothing
    BY <1>2, <2>2, <2>3 DEF BoundInv, Rightly
  <2>4. CASE pending # Nothing
    BY <2>1, <2>2, <2>4 DEF BoundInv, Rightly, TypeInv
  <2> QED BY <2>3, <2>4
<1> QED BY <1>1, <1>2

LEMMA BoundStep ==
    ASSUME BaseInv, BoundInv, BoundariesMeet, [Next]_vars
    PROVE  BoundInv' /\ BoundariesMeet'
<1>1. TypeInv /\ TypeInv' /\ \A c \in 1..Len(chunks) : Met(chunks, c)
  BY BaseStep, MetIs DEF BaseInv
<1>2. SUFFICES BoundInv' /\ doc' = doc /\ \A c \in 1..Len(chunks') : Met(chunks', c)
  <2> SUFFICES ASSUME BoundInv', doc' = doc, \A c \in 1..Len(chunks') : Met(chunks', c)
               PROVE  BoundariesMeet'
    OBVIOUS
  <2>1. (\A c \in 1..Len(chunks) : Met(chunks, c))'
    BY DEF Met, E, N
  <2>2. (BoundariesMeet <=> \A c \in 1..Len(chunks) : Met(chunks, c))'
    BY <1>1, MetIs, PTL
  <2> QED BY <2>1, <2>2
<1>3. ASSUME Takes
      PROVE  Ev.from \in Nat /\ Ev.to \in Nat /\ ~done /\ ~done' /\ doc' = doc /\ at + 1 \in 1..N
  BY <1>1, <1>3, EventIs DEF Takes, TypeInv, N
<1>4. ASSUME NEW o \in OpenChunks \cup {Nothing}, NEW end \in Nat, NEW why \in Boundaries,
             Emits(o, end, why), doc' = doc, o # Nothing => Rightly(o.boundary, o.start)
      PROVE  \A c \in 1..Len(chunks') : Met(chunks', c)
  <2>1. CASE o = Nothing
    BY <1>1, <1>4, <2>1 DEF Emits
  <2>2. CASE o # Nothing
    BY <1>1, <1>4, <2>2, EmitsMet
  <2> QED BY <2>1, <2>2
<1>5. CASE GoesOn
  <2>1. Takes /\ chunks' = chunks /\ open' # Nothing
    BY <1>5 DEF GoesOn
  <2>2. Rightly(open'.boundary, open'.start)
    BY <1>1, <1>3, <1>5, <2>1, EnsuredRightly DEF GoesOn
  <2>3. Rightly(open.boundary, open.start)'
    BY <1>3, <2>1, <2>2 DEF Rightly, E, N
  <2>4. pending' = Nothing
    BY <1>5 DEF GoesOn, PendingAfterEnsure, BoundInv
  <2>5. Nothing \notin SizeBreaks
    BY TextsAssumption DEF Boundaries
  <2> QED BY <1>1, <1>3, <2>1, <2>3, <2>4, <2>5 DEF BoundInv
<1>6. CASE Enters
  <2>1. Takes /\ Emits(open, Ev.from, Label(Ev.level)) /\ open' # Nothing /\ pending' = Nothing
    BY <1>6 DEF Enters
  <2>2. \A c \in 1..Len(chunks') : Met(chunks', c)
    BY <1>1, <1>3, <1>4, <2>1, LabelIs DEF TypeInv, BoundInv
  <2>3. Rightly(open.boundary, open.start)'
    <3>1. open'.boundary \in Headings /\ open'.boundary = Label(Ev.level) /\ open'.start = Ev.from
      BY <1>6, LabelIs DEF Enters
    <3>2. Ev.kind = "headingStart" /\ Ev = E(at + 1)
      BY <1>6 DEF Enters, Ev
    <3> QED BY <1>3, <2>1, <3>1, <3>2 DEF Rightly, E, N
  <2>4. Nothing \notin SizeBreaks
    BY TextsAssumption DEF Boundaries
  <2> QED BY <1>3, <2>1, <2>2, <2>3, <2>4 DEF BoundInv
<1>7. CASE Parts
  <2>1. Takes /\ Emits(open, Ev.from, "thematic_break") /\ open' = Nothing /\ pending' = "thematic_break"
    BY <1>7 DEF Parts
  <2>2. \A c \in 1..Len(chunks') : Met(chunks', c)
    BY <1>1, <1>3, <1>4, <2>1 DEF TypeInv, BoundInv, Boundaries
  <2>3. "thematic_break" \notin SizeBreaks /\ "thematic_break" # Nothing
    BY TextsAssumption DEF Boundaries, SizeBreaks
  <2> QED BY <1>3, <2>1, <2>2, <2>3 DEF BoundInv
<1>8. CASE Breaks
  <2> DEFINE o == Ensured(Ev.from)
  <2>1. Takes /\ open' = Nothing /\ pending' \in SizeBreaks /\ Emits(o, Ev.to, pending')
    BY <1>8 DEF Breaks
  <2>2. o \in OpenChunks /\ o # Nothing /\ Rightly(o.boundary, o.start)
    BY <1>1, <1>3, <2>1, EnsuredIs, EnsuredRightly
  <2>3. o.start < Ev.to
    BY <1>3, <1>8, <2>2, TargetAssumption DEF Breaks, OpenChunks
  <2>4. pending' \in Boundaries /\ pending' # Nothing
    BY <2>1, TextsAssumption DEF Boundaries
  <2> HIDE DEF o
  <2>5. \A c \in 1..Len(chunks') : Met(chunks', c)
    BY <1>3, <1>4, <2>1, <2>2, <2>4
  <2>6. Len(chunks') > 0 /\ chunks'[Len(chunks')].last = pending'
    <3>1. /\ Len(chunks) \in Nat /\ Len(chunks') = Len(chunks) + 1
          /\ chunks'[Len(chunks) + 1] = ChunkOf(o, Ev.to, pending')
      BY <1>1, <1>3, <2>1, <2>2, <2>3, <2>4, Appended DEF OpenChunks
    <3> QED BY <3>1 DEF ChunkOf
  <2> QED BY <1>3, <2>1, <2>4, <2>5, <2>6 DEF BoundInv
<1>9. CASE Ends
  <2>1. /\ Emits(open, doc.length, "document_end") /\ open' = Nothing /\ done' /\ doc' = doc
        /\ pending' = pending
    BY <1>9 DEF Ends
  <2>2. doc.length \in Nat
    BY <1>1, EventsAre DEF TypeInv
  <2>3. \A c \in 1..Len(chunks') : Met(chunks', c)
    BY <1>1, <1>4, <2>1, <2>2 DEF TypeInv, BoundInv, Boundaries
  <2>4. pending \in SizeBreaks => chunks' = chunks
    <3>1. Nothing \notin SizeBreaks
      BY TextsAssumption DEF Boundaries
    <3> QED BY <2>1, <3>1 DEF BoundInv, Emits
  <2> QED BY <2>1, <2>3, <2>4 DEF BoundInv
<1>10. CASE UNCHANGED vars
  <2>1. doc' = doc /\ open' = open /\ pending' = pending /\ chunks' = chunks /\ done' = done
    BY <1>10 DEF vars
  <2> QED BY <1>1, <2>1 DEF BoundInv, Rightly, E, N
<1> QED BY <1>5, <1>6, <1>7, <1>8, <1>9, <1>10, StepIsOne DEF BaseInv

\* A chunk begins at the boundary the one before it ended at, or at a heading or
\* thematic break that is there.
THEOREM BoundariesAlwaysMeet == Spec => []BoundariesMeet
<1>1. Init => BaseInv /\ BoundInv /\ BoundariesMeet
  <2>1. Init => BoundInv /\ BoundariesMeet
    BY TextsAssumption DEF Init, BoundInv, BoundariesMeet, Boundaries
  <2> QED BY <2>1, BaseInit
<1>2. BaseInv /\ BoundInv /\ BoundariesMeet /\ [Next]_vars => (BaseInv /\ BoundInv /\ BoundariesMeet)'
  BY BaseStep, BoundStep
<1> QED BY <1>1, <1>2, PTL DEF Spec

----------------------------------------------------------------------------
(* Sizes.  In code, the size is not looked at; but blocks do not end there.*)

InCode(i) == /\ i \in 1..at /\ E(i).kind = "codeStart"
             /\ \A k \in (i + 1)..at : E(k).kind = "text"

CodeInv == depth \in {0, 1} /\ (depth = 1 => \E i \in 1..at : InCode(i))

LEMMA InsideCode ==
    ASSUME TypeInv, NEW i \in 1..at, InCode(i)
    PROVE  at < N /\ E(at + 1).kind \in {"text", "codeEnd"}
<1>1. Nested(doc.events) /\ DOMAIN doc.events = 1..N /\ N \in Nat
  BY DocumentsAssumption, EventsAre DEF Parsed, TypeInv
<1>2. at \in 0..N /\ i \in 1..N
  BY <1>1 DEF TypeInv, N
<1>3. EndsBy(doc.events, i, {"text"}, "codeEnd")
  BY <1>1, <1>2 DEF Nested, InCode, E
<1>4. PICK n \in 1..N : /\ i < n /\ E(n).kind = "codeEnd"
                        /\ \A k \in (i + 1)..(n - 1) : E(k).kind = "text"
  BY <1>1, <1>3 DEF EndsBy, E
<1>5. ~(n <= at)
  <2> SUFFICES ASSUME n <= at PROVE FALSE
    OBVIOUS
  <2>1. n \in (i + 1)..at
    BY <1>1, <1>2, <1>4
  <2> QED BY <1>4, <2>1 DEF InCode
<1>6. CASE n = at + 1
  BY <1>1, <1>2, <1>4, <1>6
<1>7. CASE n # at + 1
  <2>1. at + 1 \in (i + 1)..(n - 1)
    BY <1>1, <1>2, <1>5, <1>7
  <2> QED BY <1>1, <1>2, <1>4, <1>5, <2>1
<1> QED BY <1>6, <1>7

LEMMA CodeStep ==
    ASSUME TypeInv, CodeInv, Next
    PROVE  /\ CodeInv'
           /\ at < N /\ Ev.kind \in {"blockEnd", "codeEnd"} => depth' = 0
<1>0. at \in 0..N /\ N \in Nat
  BY EventsAre DEF TypeInv, N
<1>1. ASSUME Takes, depth = 1
      PROVE  Ev.kind \in {"text", "codeEnd"}
  BY <1>1, InsideCode DEF CodeInv, Ev
<1>2. CASE HeadingStart \/ SubheadingStart \/ HeadingEnd \/ Rule \/ BlockEnd \/ Other
  <2>1. /\ Takes /\ Ev.kind \in {"headingStart", "headingEnd", "rule", "blockEnd", "other"}
        /\ depth' = depth
    BY <1>2, HandlesTakes DEF HeadingStart, SubheadingStart, HeadingEnd, Rule, BlockEnd, Other
  <2> QED BY <1>1, <2>1 DEF CodeInv
<1>3. CASE CodeStart
  <2>1. Takes /\ Ev.kind = "codeStart" /\ depth' = depth + 1
    BY <1>3, HandlesTakes DEF CodeStart
  <2>2. depth' = 1
    BY <1>1, <2>1 DEF CodeInv
  <2>3. PICK n \in 1..N : n = at + 1
    BY <1>0, <2>1 DEF Takes
  <2>4. n \in 1..at' /\ at' = n /\ doc' = doc /\ (n + 1)..at' = {} /\ E(n).kind = "codeStart"
    BY <1>0, <2>1, <2>3 DEF Takes, Ev
  <2>5. InCode(n)'
    BY <2>4 DEF InCode, E
  <2>6. (\E i \in 1..at : InCode(i))'
    BY <2>4, <2>5
  <2> QED BY <2>1, <2>2, <2>6 DEF CodeInv
<1>4. CASE CodeEnd
  <2>1. depth' = 0
    BY <1>4 DEF CodeEnd, CodeInv
  <2> QED BY <2>1 DEF CodeInv
<1>5. CASE Text
  <2>1. Takes /\ Ev.kind = "text" /\ depth' = depth
    BY <1>5, HandlesTakes DEF Text
  <2>2. ASSUME NEW i \in 1..at, InCode(i)
        PROVE  i \in 1..at' /\ InCode(i)'
    <3>1. at' = at + 1 /\ doc' = doc
      BY <2>1 DEF Takes
    <3>2. \A k \in (i + 1)..(at + 1) : k \in (i + 1)..at \/ k = at + 1
      BY <1>0
    <3> QED BY <1>0, <2>1, <2>2, <3>1, <3>2 DEF InCode, E, Ev
  <2> QED BY <2>1, <2>2 DEF CodeInv
<1>6. CASE Finish
  BY <1>0, <1>6 DEF Finish, CodeInv, InCode, E, N
<1> QED BY <1>2, <1>3, <1>4, <1>5, <1>6 DEF Next

IsCut(i) == E(i).kind \in {"blockEnd", "codeEnd"}

\* The open chunk has not outgrown the target at the end of any block.
SpanInv == open # Nothing => \A i \in 1..at : IsCut(i) => E(i).to - open.start <= Target

InTime(k) == \A i \in 1..N : IsCut(i) /\ (doc.offset + E(i).to) - k.start > Target
                                => k.end <= doc.offset + E(i).to

LEMMA InTimeIs ==
    ASSUME TypeInv
    PROVE  BreaksInTime <=> (Flat => \A c \in 1..Len(chunks) : InTime(chunks[c]))
<1>1. DOMAIN chunks = 1..Len(chunks) /\ EventIndices = 1..N
  BY EventsAre DEF TypeInv
<1>2. ASSUME NEW c \in 1..Len(chunks)
      PROVE  InTime(chunks[c]) <=> \A i \in Cuts(chunks[c].start) : chunks[c].end <= InFile(i).to
  <2>1. ASSUME NEW b, NEW i \in 1..N
        PROVE  i \in Cuts(b) <=> IsCut(i) /\ (doc.offset + E(i).to) - b > Target
    <3>1. InFile(i).to = doc.offset + E(i).to
      BY DEF InFile, E
    <3>2. i \in Cuts(b) <=> IsCut(i) /\ InFile(i).to - b > Target
      BY <1>1 DEF Cuts, E, IsCut
    <3> QED BY <3>1, <3>2
  <2>3. \A b : \A i \in Cuts(b) : i \in 1..N
    BY <1>1 DEF Cuts
  <2>2. \A i : InFile(i).to = doc.offset + E(i).to
    BY DEF InFile, E
  <2> QED BY <2>1, <2>2, <2>3 DEF InTime
<1>3. (\A c \in DOMAIN chunks : \A i \in Cuts(chunks[c].start) : chunks[c].end <= InFile(i).to)
        <=> \A c \in 1..Len(chunks) : InTime(chunks[c])
  BY <1>1, <1>2
<1> QED BY <1>3 DEF BreaksInTime

LEMMA FlatIs ==
    ASSUME TypeInv, Flat, NEW i \in 1..N, NEW j \in 1..N, i < j, IsCut(i)
    PROVE  E(i).to <= E(j).from
<1>1. EventIndices = 1..N /\ doc.offset \in Nat
      /\ E(i).to \in Nat /\ E(j).from \in Nat
  BY EventsAre DEF TypeInv
<1>2. doc.offset + E(i).to <= doc.offset + E(j).from
  BY <1>1 DEF Flat, IsCut, InFile, E
<1> QED BY <1>1, <1>2

LEMMA EmitsInTime ==
    ASSUME TypeInv, NEW o \in OpenChunks, NEW end \in Nat, NEW why \in Boundaries,
           Emits(o, end, why),
           \A i \in 1..at : IsCut(i) => E(i).to - o.start <= Target,
           \A i \in (at + 1)..N : IsCut(i) => end <= E(i).to,
           \A c \in 1..Len(chunks) : InTime(chunks[c])
    PROVE  \A c \in 1..Len(chunks') : InTime(chunks'[c])
<1>1. CASE chunks' = chunks
  BY <1>1
<1>2. CASE chunks' # chunks
  <2>1. /\ Len(chunks) \in Nat /\ Len(chunks') = Len(chunks) + 1
        /\ chunks'[Len(chunks) + 1] = ChunkOf(o, end, why)
        /\ \A c \in 1..Len(chunks) : chunks'[c] = chunks[c]
    BY <1>2, Appended
  <2>2. InTime(ChunkOf(o, end, why))
    <3> SUFFICES ASSUME NEW i \in 1..N, IsCut(i),
                        (doc.offset + E(i).to) - (doc.offset + o.start) > Target
                 PROVE  doc.offset + end <= doc.offset + E(i).to
      BY DEF InTime, ChunkOf
    <3>1. E(i).to \in Nat /\ doc.offset \in Nat /\ o.start \in Nat /\ Target \in Nat
          /\ N \in Nat /\ at \in 0..N
      BY EventsAre, TargetAssumption DEF OpenChunks, TypeInv, N
    <3>2. ~(E(i).to - o.start <= Target)
      BY <3>1
    <3>3. i \in (at + 1)..N
      BY <3>1, <3>2
    <3> QED BY <3>1, <3>3
  <2>3. \A c \in 1..Len(chunks') : c \in 1..Len(chunks) \/ c = Len(chunks) + 1
    BY <2>1
  <2> QED BY <2>1, <2>2, <2>3
<1> QED BY <1>1, <1>2

TimeInv == CodeInv /\ (Flat => SpanInv /\ \A c \in 1..Len(chunks) : InTime(chunks[c]))

LEMMA TimeStep ==
    ASSUME BaseInv, TimeInv, Next
    PROVE  TimeInv'
<1>1. TypeInv /\ CodeInv /\ at \in 0..N /\ N \in Nat /\ Target \in Nat
  BY EventsAre, TargetAssumption DEF BaseInv, TimeInv, TypeInv, N
<1>2. GoesOn \/ Enters \/ Parts \/ Breaks \/ Ends
  BY StepIsOne DEF BaseInv
<1>3. doc' = doc /\ CodeInv'
  BY <1>1, <1>2, CodeStep, ChunksTyped
<1>4. SUFFICES ASSUME Flat
               PROVE  /\ SpanInv' /\ \A c \in 1..Len(chunks') : InTime(chunks'[c])
  <2>1. Flat' => Flat
    BY <1>3 DEF Flat, EventIndices, InFile
  <2>2. (\A c \in 1..Len(chunks') : InTime(chunks'[c])) => (\A c \in 1..Len(chunks) : InTime(chunks[c]))'
    BY <1>3 DEF InTime, E, N, IsCut
  <2> QED BY <1>3, <1>4, <2>1, <2>2 DEF TimeInv
<1>5. SpanInv /\ \A c \in 1..Len(chunks) : InTime(chunks[c])
  BY <1>4 DEF TimeInv
<1>6. ASSUME Takes
      PROVE  /\ at' = at + 1 /\ at + 1 \in 1..N /\ Ev = E(at + 1)
             /\ Ev.from \in Nat /\ Ev.to \in Nat
             /\ \A i \in 1..at : IsCut(i) => E(i).to <= Ev.from
             /\ \A i \in 1..N : E(i).to \in Nat /\ E(i).from \in Nat /\ E(i).from <= E(i).to
  <2>1. /\ at' = at + 1 /\ at + 1 \in 1..N /\ Ev = E(at + 1)
        /\ Ev.from \in Nat /\ Ev.to \in Nat
    BY <1>1, <1>6, EventIs DEF Takes, Ev
  <2>2. \A i \in 1..at : i \in 1..N /\ i < at + 1
    BY <1>1
  <2>3. \A i \in 1..at : IsCut(i) => E(i).to <= Ev.from
    BY <1>1, <1>4, <2>1, <2>2, FlatIs
  <2> QED BY <1>1, <2>1, <2>3, EventsAre DEF TypeInv
\* No chunk that is ended where a heading or a thematic break begins is too long.
<1>7. ASSUME Takes, Ev.kind \in {"headingStart", "rule"}, NEW why \in Boundaries,
             Emits(open, Ev.from, why)
      PROVE  \A c \in 1..Len(chunks') : InTime(chunks'[c])
  <2>1. CASE open = Nothing
    BY <1>5, <1>7, <2>1 DEF Emits
  <2>2. CASE open # Nothing
    <3>1. \A i \in (at + 1)..N : IsCut(i) => Ev.from <= E(i).to
      <4> SUFFICES ASSUME NEW i \in (at + 1)..N, IsCut(i) PROVE Ev.from <= E(i).to
        OBVIOUS
      <4>1. i # at + 1
        BY <1>6, <1>7 DEF IsCut
      <4>2. i \in 1..N /\ at + 1 < i
        BY <1>1, <1>6, <1>7, <4>1
      <4> QED BY <1>1, <1>6, <1>7, <4>2, EventsInOrder DEF TypeInv
    <3>2. \A i \in 1..at : IsCut(i) => E(i).to - open.start <= Target
      BY <1>5, <2>2 DEF SpanInv
    <3>3. open \in OpenChunks
      BY <1>1, <2>2 DEF TypeInv
    <3> QED BY <1>1, <1>5, <1>6, <1>7, <3>1, <3>2, <3>3, EmitsInTime
  <2> QED BY <2>1, <2>2
<1>8. CASE GoesOn
  <2>1. Takes /\ chunks' = chunks /\ open' \in OpenChunks /\ open'.start \in Nat
        /\ open'.start = Ensured(Ev.from).start
    BY <1>8 DEF GoesOn, OpenChunks
  <2>2. ASSUME NEW i \in 1..at, IsCut(i)
        PROVE  E(i).to - open'.start <= Target
    <3>1. CASE open # Nothing
      <4>1. open'.start = open.start
        BY <1>1, <1>6, <2>1, <3>1, EnsuredIs
      <4> QED BY <1>5, <2>2, <3>1, <4>1 DEF SpanInv
    <3>2. CASE open = Nothing
      <4>1. open'.start = Ev.from
        BY <1>1, <1>6, <2>1, <3>2, EnsuredIs
      <4>2. E(i).to <= Ev.from /\ E(i).to \in Nat
        BY <1>1, <1>6, <2>1, <2>2
      <4> QED BY <1>1, <1>6, <2>1, <4>1, <4>2
    <3> QED BY <3>1, <3>2
  <2>3. IsCut(at + 1) => E(at + 1).to - open'.start <= Target
    <3> SUFFICES ASSUME IsCut(at + 1) PROVE E(at + 1).to - open'.start <= Target
      OBVIOUS
    <3>1. depth' = 0
      BY <1>1, <2>1, CodeStep DEF Takes, IsCut, Ev
    <3>2. ~(Ev.to - open'.start > Target)
      BY <1>6, <1>8, <2>1, <3>1 DEF GoesOn, IsCut
    <3> QED BY <1>1, <1>6, <2>1, <3>2
  <2>4. \A i \in 1..(at + 1) : i \in 1..at \/ i = at + 1
    BY <1>1
  <2>5. SpanInv'
    BY <1>3, <1>6, <2>1, <2>2, <2>3, <2>4 DEF SpanInv, E, IsCut
  <2> QED BY <1>5, <2>1, <2>5
<1>9. CASE Enters
  <2>1. /\ Takes /\ Ev.kind = "headingStart" /\ Emits(open, Ev.from, Label(Ev.level))
        /\ open'.start = Ev.from
    BY <1>9 DEF Enters
  <2>2. \A i \in 1..(at + 1) : IsCut(i) => E(i).to - open'.start <= Target
    <3> SUFFICES ASSUME NEW i \in 1..(at + 1), IsCut(i) PROVE E(i).to - open'.start <= Target
      OBVIOUS
    <3>1. i # at + 1
      BY <1>6, <2>1 DEF IsCut
    <3>2. i \in 1..at /\ i \in 1..N
      BY <1>1, <3>1
    <3> QED BY <1>1, <1>6, <2>1, <3>2
  <2>3. SpanInv'
    BY <1>3, <1>6, <2>1, <2>2 DEF SpanInv, E, IsCut
  <2> QED BY <1>7, <2>1, <2>3, LabelIs
<1>10. CASE Parts
  BY <1>7, <1>10 DEF Parts, SpanInv, Boundaries
<1>11. CASE Breaks
  <2> DEFINE o == Ensured(Ev.from)
  <2>1. /\ Takes /\ open' = Nothing /\ pending' \in Boundaries /\ Emits(o, Ev.to, pending')
        /\ IsCut(at + 1)
    BY <1>11 DEF Breaks, Boundaries, IsCut, Ev
  <2>2. o \in OpenChunks /\ o.start \in Nat /\ (open # Nothing => o = open)
        /\ (open = Nothing => o.start = Ev.from)
    BY <1>1, <1>6, <2>1, EnsuredIs DEF OpenChunks
  <2> HIDE DEF o
  <2>3. \A i \in 1..at : IsCut(i) => E(i).to - o.start <= Target
    <3>1. CASE open # Nothing
      BY <1>5, <2>2, <3>1 DEF SpanInv
    <3>2. CASE open = Nothing
      <4> SUFFICES ASSUME NEW i \in 1..at, IsCut(i) PROVE E(i).to - o.start <= Target
        OBVIOUS
      <4>1. E(i).to <= Ev.from /\ E(i).to \in Nat /\ Ev.from \in Nat
        BY <1>1, <1>6, <2>1
      <4> QED BY <1>1, <2>2, <3>2, <4>1
    <3> QED BY <3>1, <3>2
  <2>4. \A i \in (at + 1)..N : IsCut(i) => Ev.to <= E(i).to
    <3> SUFFICES ASSUME NEW i \in (at + 1)..N, i # at + 1 PROVE Ev.to <= E(i).to
      BY <1>6, <2>1
    <3>1. i \in 1..N /\ at + 1 < i
      BY <1>1
    <3>2. Ev.to <= E(i).from
      BY <1>1, <1>4, <1>6, <2>1, <3>1, FlatIs
    <3> QED BY <1>6, <2>1, <3>1, <3>2
  <2>5. \A c \in 1..Len(chunks') : InTime(chunks'[c])
    BY <1>1, <1>5, <1>6, <2>1, <2>2, <2>3, <2>4, EmitsInTime
  <2> QED BY <2>1, <2>5 DEF SpanInv
<1>12. CASE Ends
  <2>1. at = N /\ open' = Nothing /\ Emits(open, doc.length, "document_end") /\ doc.length \in Nat
    BY <1>1, <1>12, EventsAre DEF Ends, TypeInv
  <2>2. (at + 1)..N = {}
    BY <1>1, <2>1
  <2>3. \A c \in 1..Len(chunks') : InTime(chunks'[c])
    <3>1. CASE open = Nothing
      BY <1>5, <2>1, <3>1 DEF Emits
    <3>2. CASE open # Nothing
      <4>1. open \in OpenChunks /\ "document_end" \in Boundaries
        BY <1>1, <3>2 DEF TypeInv, Boundaries
      <4>2. \A i \in 1..at : IsCut(i) => E(i).to - open.start <= Target
        BY <1>5, <3>2 DEF SpanInv
      <4>3. \A i \in (at + 1)..N : IsCut(i) => doc.length <= E(i).to
        BY <2>2
      <4> QED BY <1>1, <1>5, <2>1, <4>1, <4>2, <4>3, EmitsInTime
    <3> QED BY <3>1, <3>2
  <2> QED BY <2>1, <2>3 DEF SpanInv
<1> QED BY <1>2, <1>8, <1>9, <1>10, <1>11, <1>12

\* In a file without lists and quotes, a chunk ends with the first block that ends
\* beyond the target, if no heading, break or end of the file ends it before.
THEOREM ChunksBreakInTime == Spec => []BreaksInTime
<1>1. Init => BaseInv /\ TimeInv
  <2>1. Init => TimeInv
    BY DEF Init, TimeInv, CodeInv, SpanInv
  <2> QED BY <2>1, BaseInit
<1>2. BaseInv /\ TimeInv /\ [Next]_vars => (BaseInv /\ TimeInv)'
  <2> SUFFICES ASSUME BaseInv, TimeInv, [Next]_vars PROVE BaseInv' /\ TimeInv'
    OBVIOUS
  <2>1. CASE UNCHANGED vars
    BY <2>1, BaseStep DEF vars, TimeInv, CodeInv, InCode, SpanInv, InTime, Flat, EventIndices, InFile,
                          E, N, IsCut
  <2> QED BY <2>1, BaseStep, TimeStep
<1>3. BaseInv /\ TimeInv => BreaksInTime
  BY InTimeIs DEF BaseInv, TimeInv
<1> QED BY <1>1, <1>2, <1>3, PTL DEF Spec

----------------------------------------------------------------------------
(* Paths.  heading_stack holds the last heading of each level among the    *)
(* events handled, and where a chunk ends these are the headings before    *)
(* that byte.                                                              *)

LastOf(S)    == CHOOSE i \in S : \A j \in S : j <= i
SlotOf(l, S) == IF S = {} \/ doc.events[LastOf(S)].level # l THEN NoText
                ELSE doc.events[LastOf(S) - 1].text
Heads(l, n)  == {i \in 1..n : E(i).kind = "headingEnd" /\ E(i).level <= l}

StackInv == stack = [l \in 1..3 |-> SlotOf(l, Heads(l, at))]

\* The path of the open chunk is that of the stack, but for the time the text of its
\* own heading is collected.
PathInv == open # Nothing =>
              \/ open.path = Path(stack)
              \/ \E i \in 1..at : InHeading(i) /\ E(i).level <= 3

LEMMA LastIs ==
    ASSUME NEW S \in SUBSET Nat, NEW n \in S, \A j \in S : j <= n
    PROVE  S # {} /\ LastOf(S) = n
<1>1. LastOf(S) \in S /\ \A j \in S : j <= LastOf(S)
  BY DEF LastOf
<1>2. LastOf(S) <= n /\ n <= LastOf(S) /\ LastOf(S) \in Nat /\ n \in Nat
  BY <1>1
<1> QED BY <1>2

LEMMA HeadsStep ==
    ASSUME TypeInv, Takes, NEW l \in 1..3
    PROVE  /\ (Ev.kind # "headingEnd" \/ Ev.level > l) => Heads(l, at + 1) = Heads(l, at)
           /\ Ev.kind = "headingEnd" /\ Ev.level <= l =>
                 Heads(l, at + 1) # {} /\ LastOf(Heads(l, at + 1)) = at + 1
<1>1. at \in Nat /\ Ev = E(at + 1) /\ Ev.level \in 1..6
  BY EventIs, EventsAre DEF TypeInv, Takes, Ev, N
<1>2. \A i : i \in 1..(at + 1) <=> i \in 1..at \/ i = at + 1
  BY <1>1
<1>3. ASSUME Ev.kind # "headingEnd" \/ Ev.level > l
      PROVE  Heads(l, at + 1) = Heads(l, at)
  <2>1. ~(Ev.kind = "headingEnd" /\ Ev.level <= l)
    BY <1>1, <1>3
  <2> QED BY <1>1, <1>2, <2>1 DEF Heads
<1>4. ASSUME Ev.kind = "headingEnd" /\ Ev.level <= l
      PROVE  Heads(l, at + 1) # {} /\ LastOf(Heads(l, at + 1)) = at + 1
  <2> DEFINE S == Heads(l, at + 1)
  <2>1. at + 1 \in S /\ \A j \in S : j \in 1..(at + 1) /\ j <= at + 1
    BY <1>1, <1>4 DEF Heads
  <2>2. S \in SUBSET Nat
    BY <2>1
  <2> QED BY <2>1, <2>2, LastIs
<1> QED BY <1>3, <1>4

LEMMA StackStep ==
    ASSUME BaseInv, StackInv, Next
    PROVE  StackInv'
<1>1. TypeInv /\ at \in 0..N /\ N \in Nat
  BY EventsAre DEF BaseInv, TypeInv, N
<1>2. SUFFICES doc' = doc /\ stack' = [l \in 1..3 |-> SlotOf(l, Heads(l, at'))]
  BY DEF StackInv, SlotOf, Heads, E
<1>3. CASE HeadingEnd
  <2>1. Takes /\ Event = Ev /\ Ev.kind = "headingEnd" /\ at' = at + 1 /\ doc' = doc
    BY <1>1, <1>3, HandlesTakes DEF HeadingEnd, Takes
  <2>2. at \in 1..N /\ E(at).kind = "text" /\ buf = E(at).text /\ Ev.level \in 1..6
    <3>1. at < N /\ E(at + 1).kind = "headingEnd" /\ Ev.level \in 1..6
      BY <1>1, <2>1, EventIs DEF Takes, Ev
    <3> QED BY <1>1, <3>1, HeadingEnds DEF BaseInv, HeadInv
  <2>3. CASE Ev.level <= 3
    <3>1. stack' = Raised(Ev.level, buf)
      BY <1>3, <2>1, <2>3 DEF HeadingEnd
    <3>2. ASSUME NEW l \in 1..3
          PROVE  Raised(Ev.level, buf)[l] = SlotOf(l, Heads(l, at + 1))
      <4>1. CASE l < Ev.level
        <5>1. Raised(Ev.level, buf)[l] = stack[l]
          BY <2>2, <4>1 DEF Raised
        <5>2. Heads(l, at + 1) = Heads(l, at)
          BY <1>1, <2>1, <2>2, <4>1, HeadsStep
        <5> QED BY <5>1, <5>2 DEF StackInv
      <4>2. CASE l >= Ev.level
        <5>1. Heads(l, at + 1) # {} /\ LastOf(Heads(l, at + 1)) = at + 1
          BY <1>1, <2>1, <2>2, <4>2, HeadsStep
        <5>2. SlotOf(l, Heads(l, at + 1)) = IF Ev.level # l THEN NoText ELSE doc.events[(at + 1) - 1].text
          BY <5>1 DEF SlotOf, Ev, E
        <5>3. doc.events[(at + 1) - 1].text = buf
          BY <2>2 DEF E
        <5>4. Raised(Ev.level, buf)[l] = IF l = Ev.level THEN buf ELSE NoText
          BY <2>2, <4>2 DEF Raised
        <5> QED BY <5>2, <5>3, <5>4
      <4> QED BY <2>2, <4>1, <4>2
    <3>3. stack' = [l \in 1..3 |-> Raised(Ev.level, buf)[l]]
      BY <3>1 DEF Raised
    <3> QED BY <2>1, <3>2, <3>3
  <2>4. CASE ~(Ev.level <= 3)
    <3>1. stack' = stack
      BY <1>3, <2>1, <2>4 DEF HeadingEnd
    <3>2. \A l \in 1..3 : Heads(l, at + 1) = Heads(l, at)
      <4> SUFFICES ASSUME NEW l \in 1..3 PROVE Heads(l, at + 1) = Heads(l, at)
        OBVIOUS
      <4>1. Ev.level > l
        BY <2>2, <2>4
      <4> QED BY <1>1, <2>1, <4>1, HeadsStep
    <3> QED BY <2>1, <3>1, <3>2 DEF StackInv
  <2> QED BY <2>3, <2>4
<1>4. CASE HeadingStart \/ SubheadingStart \/ Rule \/ CodeStart \/ CodeEnd \/ BlockEnd \/ Text \/ Other
  <2>1. /\ Takes /\ Ev.kind # "headingEnd" /\ at' = at + 1 /\ doc' = doc /\ stack' = stack
    BY <1>1, <1>4, HandlesTakes
       DEF HeadingStart, SubheadingStart, Rule, CodeStart, CodeEnd, BlockEnd, Text, Other, Takes
  <2>2. \A l \in 1..3 : Heads(l, at + 1) = Heads(l, at)
    BY <1>1, <2>1, HeadsStep
  <2> QED BY <2>1, <2>2 DEF StackInv
<1>5. CASE Finish
  BY <1>5 DEF Finish, StackInv
<1> QED BY <1>3, <1>4, <1>5 DEF Next

\* Where a chunk that is closed now ends.
ClosesAt(end) ==
    \/ at < N /\ Ev.kind \in {"headingStart", "rule"} /\ end = Ev.from
    \/ at < N /\ Ev.kind \in {"blockEnd", "codeEnd"} /\ end = Ev.to
    \/ at = N /\ end = doc.length

LEMMA HeadingsBefore ==
    ASSUME TypeInv, NEW end, ClosesAt(end), NEW i \in 1..N, E(i).kind = "headingEnd"
    PROVE  end \in Nat /\ (E(i).to <= end <=> i <= at)
<1>1. at \in 0..N /\ N \in Nat /\ end \in Nat /\ E(i).to \in Nat
  <2>1. at \in 0..N /\ N \in Nat /\ E(i).to \in Nat /\ doc.length \in Nat
    BY EventsAre DEF TypeInv, N
  <2>2. at < N => Ev.from \in Nat /\ Ev.to \in Nat
    BY EventIs
  <2> QED BY <2>1, <2>2 DEF ClosesAt
<1>2. ASSUME i <= at
      PROVE  E(i).to <= end
  <2>1. CASE at = N
    BY <2>1, EventsAre DEF ClosesAt, TypeInv
  <2>2. CASE at < N
    <3>1. at + 1 \in 1..N /\ i < at + 1
      BY <1>1, <1>2, <2>2
    <3> QED BY <2>2, <3>1, EventsInOrder DEF ClosesAt, TypeInv, Ev, Passed, Beginning
  <2> QED BY <1>1, <2>1, <2>2
<1>3. ASSUME i > at
      PROVE  end < E(i).to
  <2>1. at < N /\ at + 1 \in 1..N
    BY <1>1, <1>3
  <2>2. i - 1 \in 1..N /\ E(i - 1).kind = "text"
    <3>1. /\ \E k \in 1..N : k < i
          /\ doc.events[i - 1].kind = "text"
      <4>1. DOMAIN doc.events = 1..N /\ Nested(doc.events)
        BY DocumentsAssumption, EventsAre DEF Parsed, TypeInv
      <4> QED BY <4>1 DEF Nested, BeginsBy, E
    <3> QED BY <1>1, <3>1 DEF E
  <2>3. PICK p \in 1..N : p = i - 1 /\ p < i /\ E(p).kind = "text"
    BY <1>1, <2>2
  <2>4. i # at + 1 /\ p # at + 1
    <3>1. Ev.kind \in {"headingStart", "rule", "blockEnd", "codeEnd"}
      BY <1>1, <2>1 DEF ClosesAt
    <3> QED BY <2>3, <3>1 DEF Ev
  <2>5. at + 1 < p
    BY <1>1, <1>3, <2>3, <2>4
  <2>6. end <= E(p).from
    BY <2>1, <2>3, <2>5, EventsInOrder DEF ClosesAt, TypeInv, Ev, Passed, Beginning
  <2>7. E(p).from < E(p).to /\ E(p).to <= E(i).to /\ E(p).from \in Nat /\ E(p).to \in Nat
    BY <2>3, EventsAre, EventsInOrder DEF TypeInv, Passed
  <2> QED BY <1>1, <2>6, <2>7
<1> QED BY <1>1, <1>2, <1>3

LEMMA PathAtIs ==
    ASSUME TypeInv, StackInv, NEW end \in Nat, ClosesAt(end)
    PROVE  PathAt(doc.offset + end) = Path(stack)
<1> DEFINE b == doc.offset + end
           Before(l) == {i \in EventIndices : /\ doc.events[i].kind = "headingEnd"
                                              /\ doc.events[i].level <= l /\ InFile(i).to <= b}
<1>1. ASSUME NEW l \in 1..3
      PROVE  Before(l) = Heads(l, at)
  <2>1. EventIndices = 1..N /\ N \in Nat /\ at \in 0..N /\ doc.offset \in Nat
    BY EventsAre DEF TypeInv, N
  <2>2. ASSUME NEW i \in 1..N, E(i).kind = "headingEnd"
        PROVE  InFile(i).to <= b <=> i \in 1..at
    <3>1. E(i).to \in Nat /\ InFile(i).to = doc.offset + E(i).to
      BY EventsAre DEF TypeInv, InFile, E
    <3>2. E(i).to <= end <=> i <= at
      BY <2>2, HeadingsBefore
    <3> QED BY <2>1, <3>1, <3>2
  <2>3. 1..at \subseteq 1..N
    BY <2>1
  <2> HIDE DEF b
  <2>4. \A i : i \in Before(l) <=> i \in 1..N /\ E(i).kind = "headingEnd" /\ E(i).level <= l
                                   /\ InFile(i).to <= b
    BY <2>1 DEF E
  <2>5. \A i : i \in Heads(l, at) <=> i \in 1..at /\ E(i).kind = "headingEnd" /\ E(i).level <= l
    BY DEF Heads
  <2> QED BY <2>2, <2>3, <2>4, <2>5
<1>2. ASSUME NEW l \in 1..3
      PROVE  LastHeading(l, b) = SlotOf(l, Heads(l, at))
  <2>1. LastHeading(l, b) = SlotOf(l, Before(l))
    BY DEF LastHeading, SlotOf, LastOf
  <2> QED BY <1>1, <2>1
<1>3. [l \in 1..3 |-> LastHeading(l, b)] = stack
  <2> HIDE DEF b
  <2> QED BY <1>2 DEF StackInv
<1> QED BY <1>3 DEF PathAt

LEMMA EmitsTrue ==
    ASSUME TypeInv, StackInv, NEW o \in OpenChunks, NEW end \in Nat, NEW why \in Boundaries,
           Emits(o, end, why), ClosesAt(end), o.path = Path(stack), PathsTrue
    PROVE  \A c \in 1..Len(chunks') : chunks'[c].path = PathAt(chunks'[c].end)
<1>0. \A c \in 1..Len(chunks) : chunks[c].path = PathAt(chunks[c].end)
  BY DEF PathsTrue, TypeInv
<1>1. CASE chunks' = chunks
  BY <1>0, <1>1
<1>2. CASE chunks' # chunks
  <2>1. /\ Len(chunks) \in Nat /\ Len(chunks') = Len(chunks) + 1
        /\ chunks'[Len(chunks) + 1] = ChunkOf(o, end, why)
        /\ \A c \in 1..Len(chunks) : chunks'[c] = chunks[c]
    BY <1>2, Appended
  <2>2. ChunkOf(o, end, why).path = PathAt(ChunkOf(o, end, why).end)
    BY PathAtIs DEF ChunkOf
  <2>3. \A c \in 1..Len(chunks') : c \in 1..Len(chunks) \/ c = Len(chunks) + 1
    BY <2>1
  <2> QED BY <1>0, <2>1, <2>2, <2>3
<1> QED BY <1>1, <1>2

\* The path at a byte is a matter of the file alone.
PathIn(d, b) ==
    LET Before(l) == {i \in 1..Len(d.events) : /\ d.events[i].kind = "headingEnd"
                                               /\ d.events[i].level <= l
                                               /\ d.offset + d.events[i].to <= b}
        Last(l)   == CHOOSE i \in Before(l) : \A j \in Before(l) : j <= i
    IN Path([l \in 1..3 |-> IF Before(l) = {} \/ d.events[Last(l)].level # l THEN NoText
                            ELSE d.events[Last(l) - 1].text])

LEMMA PathsIn == doc' = doc => \A b : PathAt(b) = PathIn(doc, b) /\ PathAt(b)' = PathIn(doc, b)
<1>1. \A b : PathAt(b) = PathIn(doc, b)
  BY DEF PathAt, PathIn, LastHeading, EventIndices, InFile
<1>2. \A b : PathAt(b)' = PathIn(doc', b)
  BY DEF PathAt, PathIn, LastHeading, EventIndices, InFile
<1> QED BY <1>1, <1>2

LEMMA PathStep ==
    ASSUME BaseInv, StackInv, PathInv, Next
    PROVE  PathInv'
<1>1. TypeInv /\ at \in 0..N /\ N \in Nat
  BY EventsAre DEF BaseInv, TypeInv, N
<1>2. ASSUME Takes, open # Nothing, open.path # Path(stack)
      PROVE  \E i \in 1..at : /\ InHeading(i) /\ E(i).level <= 3
                              /\ Ev.kind \in {"text", "other", "headingEnd"}
                              /\ Ev.kind = "headingEnd" => Ev.level <= 3
  BY <1>1, <1>2, InsideHeading DEF PathInv, Ev
<1>3. ASSUME Takes, Ev.kind \notin {"text", "other"}, stack' = stack,
             Ev.kind = "headingEnd" => Ev.level > 3,
             open' \in {Ensured(Ev.from), Nothing}
      PROVE  PathInv'
  <2>1. Ev.from \in Nat /\ Ev.level \in 1..6
    BY <1>1, <1>3, EventIs DEF Takes
  <2>2. open # Nothing => open.path = Path(stack)
    BY <1>2, <1>3, <2>1
  <2>3. Ensured(Ev.from).path = Path(stack)
    BY <1>1, <2>1, <2>2, EnsuredIs
  <2> QED BY <1>3, <2>3 DEF PathInv
<1>4. CASE HeadingStart
  <2>1. Takes /\ Ev.kind = "headingStart" /\ Event = Ev /\ Ev.level <= 3
    BY <1>1, <1>4, HandlesTakes DEF HeadingStart
  <2>2. PICK n \in 1..N : n = at + 1
    BY <1>1, <2>1 DEF Takes
  <2>3. n \in 1..at' /\ at' = n /\ doc' = doc /\ (n + 1)..at' = {} /\ E(n) = Ev
    BY <1>1, <2>1, <2>2 DEF Takes, Ev
  <2>4. InHeading(n)' /\ (E(n).level <= 3)'
    BY <2>1, <2>3 DEF InHeading, E
  <2>5. (\E i \in 1..at : InHeading(i) /\ E(i).level <= 3)'
    BY <2>3, <2>4
  <2> QED BY <2>5 DEF PathInv
<1>5. CASE SubheadingStart \/ CodeStart
  <2>1. /\ Takes /\ Ev.kind \in {"headingStart", "codeStart"} /\ stack' = stack
        /\ open' = Ensured(Ev.from)
    BY <1>1, <1>5, HandlesTakes DEF SubheadingStart, CodeStart
  <2> QED BY <1>3, <2>1
<1>6. CASE HeadingEnd
  <2>1. Takes /\ Ev.kind = "headingEnd" /\ Event = Ev
    BY <1>1, <1>6, HandlesTakes DEF HeadingEnd
  <2>2. Ev.from \in Nat /\ Ev.level \in 1..6
    BY <1>1, <2>1, EventIs DEF Takes
  <2>3. CASE Ev.level <= 3
    <3>1. open' = [Ensured(Ev.from) EXCEPT !.path = Path(stack')]
      BY <1>6, <2>1, <2>3 DEF HeadingEnd
    <3>2. Ensured(Ev.from) \in OpenChunks
      BY <1>1, <2>2, EnsuredIs
    <3>3. open'.path = Path(stack')
      BY <3>1, <3>2 DEF OpenChunks
    <3> QED BY <3>3 DEF PathInv
  <2>4. CASE ~(Ev.level <= 3)
    <3>1. open' = Ensured(Ev.from) /\ stack' = stack /\ Ev.level > 3
      BY <1>6, <2>1, <2>2, <2>4 DEF HeadingEnd
    <3> QED BY <1>3, <2>1, <3>1
  <2> QED BY <2>3, <2>4
<1>7. CASE CodeEnd \/ BlockEnd
  <2>1. /\ Takes /\ Event = Ev /\ Ev.kind \in {"codeEnd", "blockEnd"} /\ stack' = stack
    BY <1>1, <1>7, HandlesTakes DEF CodeEnd, BlockEnd
  <2>2. open' \in {Ensured(Ev.from), Nothing}
    BY <1>7, <2>1 DEF CodeEnd, BlockEnd, SizeBreak
  <2> QED BY <1>3, <2>1, <2>2
<1>8. CASE Text \/ Other
  <2>1. Takes /\ Event = Ev /\ Ev.kind \in {"text", "other"} /\ stack' = stack /\ open' = Ensured(Ev.from)
    BY <1>1, <1>8, HandlesTakes DEF Text, Other
  <2>2. Ev.from \in Nat
    BY <1>1, <2>1, EventIs DEF Takes
  <2>3. CASE open # Nothing /\ open.path # Path(stack)
    <3>1. PICK i \in 1..at : InHeading(i) /\ E(i).level <= 3
      BY <1>2, <2>1, <2>3
    <3>2. at' = at + 1 /\ doc' = doc /\ i \in 1..at' /\ Ev = E(at + 1)
      BY <1>1, <2>1 DEF Takes, Ev
    <3>3. \A k \in (i + 1)..(at + 1) : k \in (i + 1)..at \/ k = at + 1
      BY <1>1
    <3>4. InHeading(i)' /\ (E(i).level <= 3)'
      BY <2>1, <3>1, <3>2, <3>3 DEF InHeading, E, Ev
    <3>5. (\E j \in 1..at : InHeading(j) /\ E(j).level <= 3)'
      BY <3>2, <3>4
    <3> QED BY <3>5 DEF PathInv
  <2>4. CASE ~(open # Nothing /\ open.path # Path(stack))
    <3>1. Ensured(Ev.from).path = Path(stack)
      BY <1>1, <2>2, <2>4, EnsuredIs
    <3> QED BY <2>1, <3>1 DEF PathInv
  <2> QED BY <2>3, <2>4
<1>9. CASE Rule \/ Finish
  BY <1>9 DEF Rule, Finish, PathInv
<1> QED BY <1>4, <1>5, <1>6, <1>7, <1>8, <1>9 DEF Next

LEMMA TrueStep ==
    ASSUME BaseInv, StackInv, PathInv, PathsTrue, Next
    PROVE  PathsTrue'
<1>1. TypeInv /\ at \in 0..N /\ N \in Nat
  BY EventsAre DEF BaseInv, TypeInv, N
<1>2. GoesOn \/ Enters \/ Parts \/ Breaks \/ Ends
  BY StepIsOne DEF BaseInv
<1>3. SUFFICES \A c \in 1..Len(chunks') : chunks'[c].path = PathAt(chunks'[c].end)
  <2>1. doc' = doc /\ chunks' \in Seq(Chunks)
    BY <1>1, <1>2, ChunksTyped
  <2>2. DOMAIN chunks' = 1..Len(chunks')
    BY <2>1
  <2> QED BY <1>3, <2>1, <2>2, PathsIn DEF PathsTrue
\* Not inside a heading, the open chunk has the path of the stack.
<1>4. ASSUME at = N \/ (at < N /\ Ev.kind \notin {"text", "other", "headingEnd"}), open # Nothing
      PROVE  open.path = Path(stack)
  BY <1>1, <1>4, InsideHeading DEF PathInv, Ev
<1>5. ASSUME NEW end \in Nat, NEW why \in Boundaries, Emits(open, end, why), ClosesAt(end)
      PROVE  \A c \in 1..Len(chunks') : chunks'[c].path = PathAt(chunks'[c].end)
  <2>1. CASE open = Nothing
    BY <1>1, <1>5, <2>1 DEF Emits, PathsTrue, TypeInv
  <2>2. CASE open # Nothing
    <3>1. open \in OpenChunks /\ open.path = Path(stack)
      BY <1>1, <1>4, <1>5, <2>2 DEF ClosesAt, TypeInv
    <3> QED BY <1>1, <1>5, <3>1, EmitsTrue
  <2> QED BY <2>1, <2>2
<1>6. CASE GoesOn
  BY <1>1, <1>6 DEF GoesOn, PathsTrue, TypeInv
<1>7. CASE Enters \/ Parts
  <2>1. at < N /\ Ev.kind \in {"headingStart", "rule"} /\ Ev.from \in Nat
    BY <1>1, <1>7, EventIs DEF Enters, Parts, Takes
  <2>2. ClosesAt(Ev.from)
    BY <2>1 DEF ClosesAt
  <2> QED BY <1>5, <1>7, <2>1, <2>2, LabelIs DEF Enters, Parts, Boundaries
<1>8. CASE Breaks
  <2> DEFINE o == Ensured(Ev.from)
  <2>1. /\ at < N /\ Ev.kind \in {"blockEnd", "codeEnd"} /\ Ev.from \in Nat /\ Ev.to \in Nat
        /\ pending' \in Boundaries /\ Emits(o, Ev.to, pending')
    BY <1>1, <1>8, EventIs DEF Breaks, Takes, Boundaries
  <2>2. ClosesAt(Ev.to)
    BY <2>1 DEF ClosesAt
  <2>3. o \in OpenChunks /\ o.path = Path(stack)
    BY <1>1, <1>4, <2>1, EnsuredIs
  <2> HIDE DEF o
  <2> QED BY <1>1, <2>1, <2>2, <2>3, EmitsTrue
<1>9. CASE Ends
  <2>1. at = N /\ doc.length \in Nat /\ Emits(open, doc.length, "document_end")
    BY <1>1, <1>9, EventsAre DEF Ends, TypeInv
  <2>2. ClosesAt(doc.length)
    BY <2>1 DEF ClosesAt
  <2> QED BY <1>5, <2>1, <2>2 DEF Boundaries
<1> QED BY <1>2, <1>6, <1>7, <1>8, <1>9

\* The heading path of every chunk is the one of the headings in force where it ends.
THEOREM PathsAreTrue == Spec => []PathsTrue
<1> DEFINE IInv == BaseInv /\ StackInv /\ PathInv /\ PathsTrue
<1>1. Init => IInv
  <2> SUFFICES ASSUME Init PROVE StackInv /\ PathInv /\ PathsTrue
    BY BaseInit
  <2>1. \A l \in 1..3 : Heads(l, at) = {}
    BY DEF Init, Heads
  <2> QED BY <2>1 DEF Init, StackInv, SlotOf, PathInv, PathsTrue
<1>2. IInv /\ [Next]_vars => IInv'
  <2> SUFFICES ASSUME IInv, [Next]_vars PROVE IInv'
    OBVIOUS
  <2>1. CASE UNCHANGED vars
    <3>1. BaseInv'
      BY BaseStep
    <3>2. StackInv'
      BY <2>1 DEF vars, StackInv, SlotOf, Heads, E
    <3>3. PathInv'
      BY <2>1 DEF vars, PathInv, InHeading, E
    <3>4. PathsTrue'
      BY <2>1, PathsIn DEF vars, PathsTrue
    <3> QED BY <3>1, <3>2, <3>3, <3>4
  <2> QED BY <2>1, BaseStep, StackStep, PathStep, TrueStep
<1>3. IInv => PathsTrue
  OBVIOUS
<1> QED BY <1>1, <1>2, <1>3, PTL DEF Spec

----------------------------------------------------------------------------
(* Texts.  A text is in the open chunk or in an emitted one from the       *)
(* moment it is read, and it gets into another only where a container that *)
(* was cut inside ends.                                                    *)

Covers(o, i)    == o # Nothing /\ o.start <= E(i).from
CopiesIn(cs, i) == {c \in 1..Len(cs) : /\ cs[c].start <= doc.offset + E(i).from
                                       /\ doc.offset + E(i).to <= cs[c].end}
Passing(n, i)   == {j \in 1..n : j > i + 1 /\ E(j).kind = "blockEnd" /\ E(j).from <= E(i).from}

Kept(cs, o, i)       == Covers(o, i) \/ CopiesIn(cs, i) # {}
Counted(cs, o, n, i) == Cardinality(CopiesIn(cs, i)) + (IF Covers(o, i) THEN 1 ELSE 0)
                          <= 1 + Cardinality(Passing(n, i))

KeptInv == \A i \in 1..at : E(i).kind = "text" => /\ Kept(chunks, open, i)
                                                  /\ Counted(chunks, open, at, i)

\* Where the chunks are among the events: the open one begins with an event that was
\* handled, the emitted ones end before what is to begin, and after a chunk was cut the
\* next event opens one.
PlaceInv ==
    /\ open # Nothing => \E k \in 1..at : open.start = E(k).from
    /\ \A c \in 1..Len(chunks) : \A j \in 1..N :
          j > at /\ E(j).kind \in Beginning => chunks[c].end <= doc.offset + E(j).from
    /\ open = Nothing /\ at > 0 /\ ~done => E(at).kind \in Ending

LEMMA EndsBefore ==
    ASSUME TypeInv, NEW end \in Nat, ClosesAt(end), NEW o \in OpenChunks, NEW why \in Boundaries,
           Emits(o, end, why),
           \A c \in 1..Len(chunks) : \A j \in 1..N :
              j > at /\ E(j).kind \in Beginning => chunks[c].end <= doc.offset + E(j).from
    PROVE  \A c \in 1..Len(chunks') : \A j \in 1..N :
              j > at + 1 /\ E(j).kind \in Beginning => chunks'[c].end <= doc.offset + E(j).from
<1>0. at \in 0..N /\ N \in Nat /\ doc.offset \in Nat
  BY EventsAre DEF TypeInv, N
<1>1. CASE chunks' = chunks
  BY <1>0, <1>1
<1>2. CASE chunks' # chunks
  <2>1. /\ Len(chunks) \in Nat /\ Len(chunks') = Len(chunks) + 1
        /\ chunks'[Len(chunks) + 1] = ChunkOf(o, end, why)
        /\ \A c \in 1..Len(chunks) : chunks'[c] = chunks[c]
    BY <1>2, Appended
  <2>2. ASSUME NEW j \in 1..N, j > at + 1, E(j).kind \in Beginning
        PROVE  ChunkOf(o, end, why).end <= doc.offset + E(j).from
    <3>1. at < N /\ at + 1 \in 1..N /\ at + 1 < j /\ E(j).from \in Nat
      BY <1>0, <2>2, EventsAre DEF TypeInv
    <3>2. end <= E(j).from
      BY <1>0, <2>2, <3>1, EventsInOrder DEF ClosesAt, TypeInv, Ev, Passed
    <3> QED BY <1>0, <3>1, <3>2 DEF ChunkOf
  <2>3. \A c \in 1..Len(chunks') : c \in 1..Len(chunks) \/ c = Len(chunks) + 1
    BY <2>1
  <2>4. \A j \in 1..N : j > at + 1 => j > at
    BY <1>0
  <2> QED BY <2>1, <2>2, <2>3, <2>4
<1> QED BY <1>1, <1>2

LEMMA PlaceStep ==
    ASSUME BaseInv, PlaceInv, Next
    PROVE  PlaceInv'
<1>1. TypeInv /\ at \in 0..N /\ N \in Nat
  BY EventsAre DEF BaseInv, TypeInv, N
<1>2. GoesOn \/ Enters \/ Parts \/ Breaks \/ Ends
  BY StepIsOne DEF BaseInv
<1>3. doc' = doc
  BY <1>1, <1>2, ChunksTyped
<1>4. SUFFICES /\ open' # Nothing => \E k \in 1..at' : open'.start = E(k).from
               /\ \A c \in 1..Len(chunks') : \A j \in 1..N :
                     j > at' /\ E(j).kind \in Beginning => chunks'[c].end <= doc.offset + E(j).from
               /\ open' = Nothing /\ at' > 0 /\ ~done' => E(at').kind \in Ending
  BY <1>3 DEF PlaceInv, E, N
<1>5. ASSUME Takes
      PROVE  at' = at + 1 /\ at + 1 \in 1..N /\ Ev = E(at + 1) /\ Ev.from \in Nat /\ Ev.to \in Nat
  BY <1>1, <1>5, EventIs DEF Takes, Ev
<1>6. ASSUME Takes, NEW o \in OpenChunks \cup {Nothing}, NEW end \in Nat, NEW why \in Boundaries,
             Emits(o, end, why), ClosesAt(end)
      PROVE  \A c \in 1..Len(chunks') : \A j \in 1..N :
                j > at' /\ E(j).kind \in Beginning => chunks'[c].end <= doc.offset + E(j).from
  <2>1. CASE o = Nothing
    <3>1. chunks' = chunks
      BY <1>6, <2>1 DEF Emits
    <3> QED BY <1>1, <1>5, <1>6, <3>1 DEF PlaceInv
  <2>2. CASE o # Nothing
    BY <1>1, <1>5, <1>6, <2>2, EndsBefore DEF PlaceInv
  <2> QED BY <2>1, <2>2
<1>7. CASE GoesOn
  <2>1. Takes /\ chunks' = chunks /\ open' # Nothing /\ open'.start = Ensured(Ev.from).start
    BY <1>7 DEF GoesOn
  <2>2. \E k \in 1..(at + 1) : open'.start = E(k).from
    <3>1. CASE open = Nothing
      BY <1>1, <1>5, <2>1, <3>1, EnsuredIs
    <3>2. CASE open # Nothing
      <4>1. PICK k \in 1..at : open.start = E(k).from
        BY <3>2 DEF PlaceInv
      <4>2. open'.start = E(k).from /\ k \in 1..(at + 1)
        BY <1>1, <1>5, <2>1, <3>2, <4>1, EnsuredIs
      <4> QED BY <4>2
    <3> QED BY <3>1, <3>2
  <2>3. \A j \in 1..N : j > at + 1 => j > at
    BY <1>1
  <2> QED BY <1>5, <2>1, <2>2, <2>3 DEF PlaceInv
<1>8. CASE Enters
  <2>1. /\ Takes /\ Emits(open, Ev.from, Label(Ev.level)) /\ open' # Nothing /\ open'.start = Ev.from
        /\ ClosesAt(Ev.from) /\ Label(Ev.level) \in Boundaries
    BY <1>8, LabelIs DEF Enters, ClosesAt, Takes
  <2>2. \E k \in 1..(at + 1) : open'.start = E(k).from
    BY <1>5, <2>1
  <2> QED BY <1>1, <1>5, <1>6, <2>1, <2>2 DEF TypeInv
<1>9. CASE Parts
  <2>1. /\ Takes /\ Emits(open, Ev.from, "thematic_break") /\ open' = Nothing /\ Ev.kind \in Ending
        /\ ClosesAt(Ev.from) /\ "thematic_break" \in Boundaries
    BY <1>9 DEF Parts, ClosesAt, Takes, Boundaries, Ending
  <2> QED BY <1>1, <1>5, <1>6, <2>1 DEF TypeInv
<1>10. CASE Breaks
  <2>1. /\ Takes /\ Emits(Ensured(Ev.from), Ev.to, pending') /\ open' = Nothing /\ Ev.kind \in Ending
        /\ ClosesAt(Ev.to) /\ pending' \in Boundaries
    BY <1>10 DEF Breaks, ClosesAt, Takes, Boundaries, Ending
  <2>2. Ensured(Ev.from) \in OpenChunks
    BY <1>1, <1>5, <2>1, EnsuredIs
  <2> QED BY <1>5, <1>6, <2>1, <2>2
<1>11. CASE Ends
  <2>1. at' = N /\ open' = Nothing /\ done'
    BY <1>11 DEF Ends
  <2> QED BY <1>1, <2>1
<1> QED BY <1>2, <1>7, <1>8, <1>9, <1>10, <1>11

LEMMA CopiesFinite ==
    ASSUME TypeInv, NEW i
    PROVE  IsFiniteSet(CopiesIn(chunks, i)) /\ Cardinality(CopiesIn(chunks, i)) \in Nat
<1>1. Len(chunks) \in Nat /\ CopiesIn(chunks, i) \subseteq 1..Len(chunks)
  BY DEF CopiesIn, TypeInv
<1>2. IsFiniteSet(1..Len(chunks))
  BY <1>1, FS_Interval
<1>3. IsFiniteSet(CopiesIn(chunks, i))
  BY <1>1, <1>2, FS_Subset
<1> QED BY <1>3, FS_CardinalityType

\* What emit adds to the copies of a text.
LEMMA CopiesStep ==
    ASSUME TypeInv, NEW o \in OpenChunks, NEW end \in Nat, NEW why \in Boundaries,
           Emits(o, end, why), NEW i \in 1..N, E(i).kind = "text"
    PROVE  /\ IsFiniteSet(CopiesIn(chunks, i)) /\ Cardinality(CopiesIn(chunks, i)) \in Nat
           /\ o.start <= E(i).from /\ E(i).to <= end =>
                 /\ CopiesIn(chunks', i) # {}
                 /\ Cardinality(CopiesIn(chunks', i)) = Cardinality(CopiesIn(chunks, i)) + 1
           /\ ~(o.start <= E(i).from /\ E(i).to <= end) => CopiesIn(chunks', i) = CopiesIn(chunks, i)
<1> DEFINE S == CopiesIn(chunks, i)
           n == Len(chunks) + 1
<1>1. /\ Len(chunks) \in Nat /\ E(i).from \in Nat /\ E(i).to \in Nat /\ E(i).from < E(i).to
      /\ doc.offset \in Nat /\ o.start \in Nat
  BY EventsAre DEF TypeInv, OpenChunks
<1>2. S \subseteq 1..Len(chunks)
  BY DEF CopiesIn
<1>3. IsFiniteSet(S) /\ Cardinality(S) \in Nat
  BY CopiesFinite
<1>4. CASE chunks' = chunks
  <2>1. ~(o.start < end)
    <3>1. o.start < end => chunks' = Append(chunks, ChunkOf(o, end, why))
      BY Appended, TextsAssumption DEF Emits, OpenChunks
    <3>2. o.start < end => Len(chunks') = Len(chunks) + 1
      BY <3>1 DEF TypeInv
    <3> QED BY <1>1, <1>4, <3>2
  <2> QED BY <1>1, <1>3, <1>4, <2>1
<1>5. CASE chunks' # chunks
  <2>1. /\ Len(chunks') = n /\ chunks'[n] = ChunkOf(o, end, why)
        /\ \A c \in 1..Len(chunks) : chunks'[c] = chunks[c]
    BY <1>5, Appended
  <2>2. n \in CopiesIn(chunks', i) <=> o.start <= E(i).from /\ E(i).to <= end
    <3>1. n \in 1..Len(chunks')
      BY <1>1, <2>1
    <3>2. chunks'[n].start = doc.offset + o.start /\ chunks'[n].end = doc.offset + end
      BY <2>1 DEF ChunkOf
    <3> HIDE DEF n
    <3> QED BY <1>1, <3>1, <3>2, SMTT(30) DEF CopiesIn
  <2>3. \A c : c \in 1..Len(chunks') <=> c \in 1..Len(chunks) \/ c = n
    BY <1>1, <2>1
  <2>4. n \notin 1..Len(chunks)
    BY <1>1
  <2> HIDE DEF n
  <2>5. \A c : c # n => (c \in CopiesIn(chunks', i) <=> c \in S)
    BY <2>1, <2>3, <2>4 DEF CopiesIn
  <2>6. n \notin S
    BY <1>2, <2>4
  <2> HIDE DEF S
  <2>7. CASE o.start <= E(i).from /\ E(i).to <= end
    <3>1. CopiesIn(chunks', i) = S \cup {n}
      BY <2>2, <2>5, <2>7
    <3> QED BY <1>3, <2>6, <2>7, <3>1, FS_AddElement DEF S
  <2>8. CASE ~(o.start <= E(i).from /\ E(i).to <= end)
    <3>1. CopiesIn(chunks', i) = S
      BY <2>2, <2>5, <2>6, <2>8
    <3> QED BY <1>3, <2>8, <3>1 DEF S
  <2> QED BY <2>7, <2>8
<1> QED BY <1>4, <1>5

LEMMA PassingStep ==
    ASSUME TypeInv, NEW i \in 1..N, NEW n \in Nat
    PROVE  /\ Cardinality(Passing(n, i)) \in Nat
           /\ Cardinality(Passing(n + 1, i)) >= Cardinality(Passing(n, i))
           /\ (n > i /\ E(n + 1).kind = "blockEnd" /\ E(n + 1).from <= E(i).from) =>
                 Cardinality(Passing(n + 1, i)) = Cardinality(Passing(n, i)) + 1
<1>1. IsFiniteSet(Passing(n, i)) /\ IsFiniteSet(Passing(n + 1, i))
  <2>1. \A m \in Nat : IsFiniteSet(1..m) /\ Passing(m, i) \subseteq 1..m
    BY FS_Interval DEF Passing
  <2> QED BY <2>1, FS_Subset
<1>2. Cardinality(Passing(n, i)) \in Nat
  BY <1>1, FS_CardinalityType
<1>3. \A j : j \in 1..(n + 1) <=> j \in 1..n \/ j = n + 1
  OBVIOUS
<1>4. Passing(n, i) \subseteq Passing(n + 1, i)
  BY <1>3 DEF Passing
<1>5. Cardinality(Passing(n + 1, i)) >= Cardinality(Passing(n, i))
  BY <1>1, <1>4, FS_Subset
<1>6. ASSUME n > i, E(n + 1).kind = "blockEnd", E(n + 1).from <= E(i).from
      PROVE  Cardinality(Passing(n + 1, i)) = Cardinality(Passing(n, i)) + 1
  <2>1. i \in Nat /\ n + 1 > i + 1
    BY <1>6, EventsAre DEF TypeInv
  <2>2. Passing(n + 1, i) = Passing(n, i) \cup {n + 1}
    BY <1>3, <1>6, <2>1 DEF Passing
  <2>3. n + 1 \notin Passing(n, i)
    BY DEF Passing
  <2> QED BY <1>1, <2>2, <2>3, FS_AddElement
<1> QED BY <1>2, <1>5, <1>6

LEMMA TextsBefore ==
    ASSUME TypeInv, NEW end \in Nat, ClosesAt(end), NEW i \in 1..at, E(i).kind = "text"
    PROVE  E(i).to <= end
<1>1. at \in 0..N /\ N \in Nat
  BY EventsAre DEF TypeInv, N
<1>2. CASE at = N
  BY <1>1, <1>2, EventsAre DEF ClosesAt, TypeInv
<1>3. CASE at < N
  <2>1. at + 1 \in 1..N /\ i \in 1..N /\ i < at + 1
    BY <1>1, <1>3
  <2> QED BY <1>1, <1>3, <2>1, EventsInOrder DEF ClosesAt, TypeInv, Ev, Passed, Beginning
<1> QED BY <1>1, <1>2, <1>3

\* Only the end of a container opens a chunk before a text that is behind.
LEMMA Reopens ==
    ASSUME TypeInv, PlaceInv, Takes, open = Nothing, ~done,
           NEW i \in 1..at, E(i).kind = "text", Ev.from <= E(i).from
    PROVE  at > i /\ Ev.kind = "blockEnd"
<1>1. at \in 1..N /\ N \in Nat /\ i \in 1..N /\ at + 1 \in 1..N
  BY EventsAre, EventIs DEF TypeInv, N, Takes
<1>2. E(at).kind \in Ending
  BY <1>1 DEF PlaceInv
<1>3. i # at
  BY <1>2 DEF Ending
<1>4. i < at
  BY <1>1, <1>3
<1>5. /\ E(i).from < E(i).to /\ E(i).from \in Nat /\ E(i).to \in Nat
      /\ E(at).to \in Nat /\ Ev.from \in Nat
  BY <1>1, EventsAre DEF TypeInv, Ev
<1>6. E(i).to <= E(at).to
  BY <1>1, <1>4, EventsInOrder DEF TypeInv, Passed
<1>7. Ev.kind # "blockEnd" => E(at).to <= Ev.from
  <2>1. at < at + 1
    BY <1>1
  <2>2. PICK n \in 1..N : n = at + 1
    BY <1>1
  <2> QED BY <1>1, <1>2, <2>1, <2>2, EventsInOrder DEF TypeInv, Ev
<1> QED BY <1>4, <1>5, <1>6, <1>7

\* One text that was read before.
LEMMA KeptOne ==
    ASSUME BaseInv, PlaceInv, Next, NEW i \in 1..at, E(i).kind = "text",
           Kept(chunks, open, i), Counted(chunks, open, at, i)
    PROVE  Kept(chunks', open', i) /\ Counted(chunks', open', at', i)
<1>1. TypeInv /\ at \in 0..N /\ N \in Nat /\ i \in 1..N /\ i \in Nat /\ at \in Nat
  BY EventsAre DEF BaseInv, TypeInv, N
<1>2. GoesOn \/ Enters \/ Parts \/ Breaks \/ Ends
  BY StepIsOne DEF BaseInv
<1>3. E(i).from \in Nat /\ E(i).to \in Nat /\ E(i).from < E(i).to
  BY <1>1, EventsAre DEF TypeInv
<1>4. /\ Cardinality(Passing(at, i)) \in Nat
      /\ Cardinality(Passing(at + 1, i)) >= Cardinality(Passing(at, i))
      /\ Cardinality(Passing(at + 1, i)) \in Nat
      /\ (at > i /\ E(at + 1).kind = "blockEnd" /\ E(at + 1).from <= E(i).from) =>
            Cardinality(Passing(at + 1, i)) = Cardinality(Passing(at, i)) + 1
  <2>1. at + 1 \in Nat
    BY <1>1
  <2> QED BY <1>1, <2>1, PassingStep
<1>5. Cardinality(CopiesIn(chunks, i)) \in Nat
  BY <1>1, CopiesFinite
<1>6. ASSUME Takes
      PROVE  /\ at' = at + 1 /\ ~done /\ Ev = E(at + 1) /\ Ev.from \in Nat /\ Ev.to \in Nat
             /\ open = Nothing /\ Ev.from <= E(i).from =>
                   Cardinality(Passing(at + 1, i)) = Cardinality(Passing(at, i)) + 1
  <2>1. at' = at + 1 /\ ~done /\ Ev = E(at + 1) /\ Ev.from \in Nat /\ Ev.to \in Nat
    BY <1>1, <1>6, EventIs DEF Takes, Ev, TypeInv, N
  <2> QED BY <1>1, <1>4, <1>6, <2>1, Reopens
\* A chunk is ended with no other one begun, or one that is not before the text.
<1>7. ASSUME NEW o \in OpenChunks \cup {Nothing}, NEW end \in Nat, NEW why \in Boundaries,
             Emits(o, end, why), ClosesAt(end), ~Covers(open', i),
             open # Nothing => o = open, at' \in {at, at + 1},
             open = Nothing /\ Covers(o, i) =>
                at' = at + 1 /\ Cardinality(Passing(at + 1, i)) = Cardinality(Passing(at, i)) + 1
      PROVE  Kept(chunks', open', i) /\ Counted(chunks', open', at', i)
  <2>1. CASE o = Nothing
    <3>1. open = Nothing /\ chunks' = chunks
      BY <1>7, <2>1 DEF Emits
    <3> QED BY <1>4, <1>5, <1>7, <3>1 DEF Kept, Counted, Covers
  <2>2. CASE o # Nothing
    <3>1. E(i).to <= end
      BY <1>1, <1>7, TextsBefore
    <3>2. o \in OpenChunks
      BY <1>7, <2>2
    <3>3. CASE Covers(o, i)
      <4>1. /\ CopiesIn(chunks', i) # {}
            /\ Cardinality(CopiesIn(chunks', i)) = Cardinality(CopiesIn(chunks, i)) + 1
        BY <1>1, <1>7, <3>1, <3>2, <3>3, CopiesStep DEF Covers
      <4>2. CASE open = Nothing
        <5>1. ~Covers(open, i)
          BY <4>2 DEF Covers
        <5> QED BY <1>4, <1>5, <1>7, <3>3, <4>1, <4>2, <5>1 DEF Kept, Counted
      <4>3. CASE open # Nothing
        BY <1>4, <1>5, <1>7, <3>3, <4>1, <4>3 DEF Kept, Counted
      <4> QED BY <4>2, <4>3
    <3>4. CASE ~Covers(o, i)
      <4>1. CopiesIn(chunks', i) = CopiesIn(chunks, i)
        BY <1>1, <1>7, <2>2, <3>2, <3>4, CopiesStep DEF Covers
      <4>2. ~Covers(open, i)
        BY <1>7, <3>4 DEF Covers
      <4> QED BY <1>4, <1>5, <1>7, <4>1, <4>2 DEF Kept, Counted
    <3> QED BY <3>3, <3>4
  <2> QED BY <2>1, <2>2
<1>8. CASE GoesOn
  <2>1. /\ Takes /\ chunks' = chunks /\ open' # Nothing
        /\ open'.start = Ensured(Ev.from).start
    BY <1>8 DEF GoesOn
  <2>2. CASE open # Nothing
    <3>1. Covers(open', i) <=> Covers(open, i)
      BY <1>1, <1>6, <2>1, <2>2, EnsuredIs DEF Covers
    <3> QED BY <1>4, <1>5, <1>6, <2>1, <3>1 DEF Kept, Counted
  <2>3. CASE open = Nothing
    <3>1. ~Covers(open, i) /\ (Covers(open', i) <=> Ev.from <= E(i).from)
      BY <1>1, <1>6, <2>1, <2>3, EnsuredIs DEF Covers
    <3> QED BY <1>4, <1>5, <1>6, <2>1, <2>3, <3>1 DEF Kept, Counted
  <2> QED BY <2>2, <2>3
<1>9. CASE Enters
  <2>1. /\ Takes /\ Emits(open, Ev.from, Label(Ev.level)) /\ open'.start = Ev.from
        /\ ClosesAt(Ev.from) /\ Label(Ev.level) \in Boundaries
    BY <1>9, LabelIs DEF Enters, ClosesAt, Takes
  <2>2. ~Covers(open', i)
    <3>1. E(i).to <= Ev.from
      BY <1>1, <1>6, <2>1, TextsBefore
    <3> QED BY <1>3, <1>6, <2>1, <3>1 DEF Covers
  <2> QED BY <1>1, <1>6, <1>7, <2>1, <2>2 DEF TypeInv, Covers
<1>10. CASE Parts
  <2>1. /\ Takes /\ Emits(open, Ev.from, "thematic_break") /\ open' = Nothing
        /\ ClosesAt(Ev.from) /\ "thematic_break" \in Boundaries
    BY <1>10 DEF Parts, ClosesAt, Takes, Boundaries
  <2> QED BY <1>1, <1>6, <1>7, <2>1 DEF TypeInv, Covers
<1>11. CASE Breaks
  <2> DEFINE o == Ensured(Ev.from)
  <2>1. /\ Takes /\ Emits(o, Ev.to, pending') /\ open' = Nothing
        /\ ClosesAt(Ev.to) /\ pending' \in Boundaries
    BY <1>11 DEF Breaks, ClosesAt, Takes, Boundaries
  <2>2. o \in OpenChunks /\ (open # Nothing => o = open) /\ (open = Nothing => o.start = Ev.from)
    BY <1>1, <1>6, <2>1, EnsuredIs
  <2> HIDE DEF o
  <2>3. ~Covers(open', i)
    BY <2>1 DEF Covers
  <2>4. open = Nothing /\ Covers(o, i) =>
           at' = at + 1 /\ Cardinality(Passing(at + 1, i)) = Cardinality(Passing(at, i)) + 1
    BY <1>6, <2>1, <2>2 DEF Covers
  <2> QED BY <1>6, <1>7, <2>1, <2>2, <2>3, <2>4
<1>12. CASE Ends
  <2>1. /\ at' = at /\ Emits(open, doc.length, "document_end") /\ open' = Nothing
        /\ ClosesAt(doc.length) /\ "document_end" \in Boundaries /\ doc.length \in Nat
    BY <1>1, <1>12, EventsAre DEF Ends, ClosesAt, Boundaries, TypeInv
  <2> QED BY <1>1, <1>7, <2>1 DEF TypeInv, Covers
<1> QED BY <1>2, <1>8, <1>9, <1>10, <1>11, <1>12

LEMMA KeptStep ==
    ASSUME BaseInv, PlaceInv, KeptInv, Next
    PROVE  KeptInv'
<1>1. TypeInv /\ at \in 0..N /\ N \in Nat
  BY EventsAre DEF BaseInv, TypeInv, N
<1>2. GoesOn \/ Enters \/ Parts \/ Breaks \/ Ends
  BY StepIsOne DEF BaseInv
<1>3. doc' = doc
  BY <1>1, <1>2, ChunksTyped
<1>4. SUFFICES ASSUME NEW i \in 1..at', E(i).kind = "text"
               PROVE  Kept(chunks', open', i) /\ Counted(chunks', open', at', i)
  BY <1>3 DEF KeptInv, Kept, Counted, Covers, CopiesIn, Passing, E
<1>5. CASE i \in 1..at
  BY <1>4, <1>5, KeptOne DEF KeptInv
<1>6. CASE i \notin 1..at
  <2>1. at' = at + 1 /\ i = at + 1 /\ Ev = E(i) /\ at + 1 \in 1..N /\ Takes
    BY <1>1, <1>2, <1>4, <1>6 DEF GoesOn, Enters, Parts, Breaks, Ends, Takes, Ev
  <2>2. GoesOn
    BY <1>2, <1>4, <2>1 DEF Enters, Parts, Breaks, Ends
  <2>3. /\ E(i).from \in Nat /\ E(i).to \in Nat /\ E(i).from < E(i).to /\ i \in 1..N
        /\ doc.offset \in Nat
    BY <1>1, <1>4, <2>1, EventsAre DEF TypeInv
  <2>4. Covers(open', i)
    <3>1. open' # Nothing /\ open'.start = Ensured(E(i).from).start
      BY <2>1, <2>2 DEF GoesOn
    <3>2. CASE open = Nothing
      BY <1>1, <2>3, <3>1, <3>2, EnsuredIs DEF Covers
    <3>3. CASE open # Nothing
      <4>1. PICK k \in 1..at : open.start = E(k).from
        BY <3>3 DEF PlaceInv
      <4>2. k \in 1..N /\ k < i
        BY <1>1, <2>1
      <4>3. E(k).from <= E(i).from
        BY <1>1, <1>4, <2>3, <4>2, EventsInOrder DEF TypeInv, Beginning
      <4> QED BY <1>1, <2>3, <3>1, <3>3, <4>1, <4>3, EnsuredIs DEF Covers
    <3> QED BY <3>2, <3>3
  <2>5. CopiesIn(chunks', i) = {}
    <3>1. chunks' = chunks
      BY <2>2 DEF GoesOn
    <3>2. \A c \in 1..Len(chunks) : chunks[c].end <= doc.offset + E(i).from /\ chunks[c].end \in Nat
      <4>1. \A c \in 1..Len(chunks) : chunks[c].end \in Nat
        <5>1. \A c \in 1..Len(chunks) : chunks[c] \in Chunks
          BY <1>1 DEF TypeInv
        <5> QED BY <5>1 DEF Chunks
      <4>2. i > at /\ E(i).kind \in Beginning
        BY <1>1, <1>4, <2>1 DEF Beginning
      <4> QED BY <2>3, <4>1, <4>2 DEF PlaceInv
    <3>3. \A c \in 1..Len(chunks) : ~(doc.offset + E(i).to <= chunks[c].end)
      BY <2>3, <3>2
    <3> QED BY <3>1, <3>3 DEF CopiesIn
  <2>6. Cardinality(Passing(at', i)) \in Nat
    BY <1>1, <2>1, <2>3, PassingStep
  <2> QED BY <2>4, <2>5, <2>6, FS_EmptySet DEF Kept, Counted
<1> QED BY <1>5, <1>6

\* Every text of the file is whole in a chunk, and in more than one only for the
\* containers it lies in.
THEOREM NothingIsLost == Spec => []NothingLost
<1> DEFINE IInv == BaseInv /\ PlaceInv /\ KeptInv
<1>1. Init => IInv
  <2>1. Init => PlaceInv /\ KeptInv
    BY DEF Init, PlaceInv, KeptInv
  <2> QED BY <2>1, BaseInit
<1>2. IInv /\ [Next]_vars => IInv'
  <2> SUFFICES ASSUME IInv, [Next]_vars PROVE IInv'
    OBVIOUS
  <2>1. CASE UNCHANGED vars
    BY <2>1, BaseStep DEF vars, PlaceInv, KeptInv, Kept, Counted, Covers, CopiesIn, Passing, E, N
  <2> QED BY <2>1, BaseStep, PlaceStep, KeptStep
<1>3. IInv => NothingLost
  <2> SUFFICES ASSUME IInv, done, NEW i \in EventIndices, doc.events[i].kind = "text"
               PROVE  Cardinality(Copies(i)) \in 1..(1 + Cardinality(Containers(i)))
    BY DEF NothingLost
  <2>1. /\ at = N /\ N \in Nat /\ open = Nothing /\ i \in 1..N /\ i \in Nat /\ E(i).kind = "text"
        /\ EventIndices = 1..N /\ chunks \in Seq(Chunks) /\ TypeInv
    BY EventsAre DEF BaseInv, TypeInv, N, E
  <2>2. CopiesIn(chunks, i) # {} /\ Cardinality(CopiesIn(chunks, i)) <= 1 + Cardinality(Passing(N, i))
    <3>1. Kept(chunks, open, i) /\ Counted(chunks, open, N, i)
      BY <2>1 DEF KeptInv
    <3>2. Cardinality(CopiesIn(chunks, i)) \in Nat
      BY <2>1, CopiesFinite
    <3> QED BY <2>1, <3>1, <3>2 DEF Kept, Counted, Covers
  <2>3. Copies(i) = CopiesIn(chunks, i)
    BY <2>1 DEF Copies, CopiesIn, InFile, E
  <2>4. Containers(i) = Passing(N, i)
    BY <2>1 DEF Containers, Passing, E
  <2>5. Cardinality(Copies(i)) \in Nat /\ Cardinality(Copies(i)) # 0 /\ Cardinality(Containers(i)) \in Nat
    <3>1. IsFiniteSet(CopiesIn(chunks, i)) /\ Cardinality(CopiesIn(chunks, i)) \in Nat
      BY <2>1, CopiesFinite
    <3>2. Cardinality(CopiesIn(chunks, i)) # 0
      BY <2>2, <3>1, FS_EmptySet
    <3>3. Cardinality(Passing(N, i)) \in Nat
      BY <2>1, PassingStep
    <3> QED BY <2>3, <2>4, <3>1, <3>2, <3>3
  <2> QED BY <2>2, <2>3, <2>4, <2>5
<1> QED BY <1>1, <1>2, <1>3, PTL DEF Spec
=============================================================================

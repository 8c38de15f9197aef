-------------------------------- MODULE Chunker --------------------------------
(***************************************************************************)
(* Cutting one Markdown file into chunks (chunk.rs).  The chunker consumes *)
(* the events of the parser in order, each with the byte range of its      *)
(* element: the end of an element comes with the range of the whole        *)
(* element, not only with its last byte.  A chunk ends at a heading of     *)
(* level 1 to 3, at a thematic break, at the end of the document, or, once *)
(* it is longer than Target, at the end of a block.                        *)
(*                                                                         *)
(* A text stands for itself; a chunk's content is the byte range it was    *)
(* cut from.                                                               *)
(***************************************************************************)
EXTENDS Integers, Sequences, FiniteSets

CONSTANTS Documents,  \* parsed files: offset of the body, its length, its events
          Texts,      \* heading texts
          NoText,     \* the empty string
          Nothing,    \* None
          Target      \* CHUNK_TARGET_BYTES

Kinds   == {"headingStart", "headingEnd", "codeStart", "codeEnd",
            "blockEnd", "rule", "text", "other"}
Headings == {"h1", "h2", "h3"}
SizeBreaks == {"size_after_block", "size_after_code_block"}
Boundaries == Headings \cup SizeBreaks \cup {"document_start", "document_end", "thematic_break"}
OpenChunks == [start : Nat, path : Seq(Texts), boundary : Boundaries]

\* What the chunker knows of the parser.  Events whose range begins where the parser
\* stands, and events after which it stands at the end of their range; the others begin
\* or end an element around them.  The end of a block that holds blocks comes later than
\* what is after its beginning.
Beginning == {"headingStart", "codeStart", "rule", "text"}
Passed    == {"headingEnd", "codeEnd", "blockEnd", "rule", "text"}
Ending    == {"blockEnd", "codeEnd", "rule"}

Ordered(events) ==
    /\ \A i, j \in DOMAIN events : i < j => events[i].from <= events[j].to
    /\ \A i, j \in DOMAIN events :
          i < j /\ events[i].kind \in Passed => events[i].to <= events[j].to
    /\ \A i, j \in DOMAIN events :
          i < j /\ events[j].kind \in Beginning =>
             /\ events[i].from <= events[j].from
             /\ events[i].kind \in Passed => events[i].to <= events[j].from
    /\ \A i, j \in DOMAIN events :
          j = i + 1 /\ events[i].kind \in Ending /\ events[j].kind # "blockEnd" =>
             events[i].to <= events[j].from

\* The event that ends what the event i begins, with nothing but events of these kinds
\* in between
EndsBy(events, i, kinds, kind) ==
    \E n \in DOMAIN events : /\ i < n /\ events[n].kind = kind /\ events[n].level = events[i].level
                             /\ \A k \in (i + 1)..(n - 1) : events[k].kind \in kinds
BeginsBy(events, n, kinds, kind) ==
    \E i \in DOMAIN events : /\ i < n /\ events[i].kind = kind /\ events[n].level = events[i].level
                             /\ \A k \in (i + 1)..(n - 1) : events[k].kind \in kinds

\* A heading has one text, its last event before the end (several are taken as one, and
\* none as an empty one); a code block holds texts
Nested(events) ==
    \A i \in DOMAIN events :
        CASE events[i].kind = "headingStart" -> EndsBy(events, i, {"text", "other"}, "headingEnd")
          [] events[i].kind = "headingEnd"   -> /\ BeginsBy(events, i, {"text", "other"}, "headingStart")
                                                /\ events[i - 1].kind = "text"
          [] events[i].kind = "codeStart"    -> EndsBy(events, i, {"text"}, "codeEnd")
          [] events[i].kind = "codeEnd"      -> BeginsBy(events, i, {"text"}, "codeStart")
          [] OTHER                           -> TRUE

Parsed(d) ==
    /\ d.offset \in Nat /\ d.length \in Nat
    /\ d.events \in Seq([kind : Kinds, from : Nat, to : Nat, level : 1..6, text : Texts])
    /\ \A i \in DOMAIN d.events : /\ d.events[i].from <= d.events[i].to
                                  /\ d.events[i].to <= d.length
                                  /\ d.events[i].kind = "text" => d.events[i].from < d.events[i].to
    /\ Ordered(d.events)
    /\ Nested(d.events)

ASSUME TargetAssumption    == Target \in Nat
ASSUME TextsAssumption     == NoText \in Texts /\ Nothing \notin Texts \cup Boundaries \cup OpenChunks
ASSUME DocumentsAssumption == \A d \in Documents : Parsed(d)

VARIABLES doc,       \* the file
          at,        \* events handled so far
          stack,     \* heading_stack
          open,      \* open_chunk
          depth,     \* code_block_depth
          buf,       \* heading_text_buf while capturing_heading, else Nothing
          pending,   \* pending_boundary_start
          chunks,    \* the chunks emitted
          done       \* walk has returned

vars == <<doc, at, stack, open, depth, buf, pending, chunks, done>>

Event   == doc.events[at + 1]
Label(l) == CASE l = 1 -> "h1" [] l = 2 -> "h2" [] OTHER -> "h3"
OpenChunk(start, path, boundary) ==
    [start |-> start, path |-> path, boundary |-> boundary]

\* render_path: up to the last slot that holds a text
Path(s) == LET filled == {i \in 1..3 : s[i] # NoText}
           IN SubSeq(s, 1, IF filled = {} THEN 0
                           ELSE CHOOSE i \in filled : \A j \in filled : j <= i)

\* emit: what one open chunk adds to the chunks, in positions of the file
Emitted(o, end, why) ==
    IF end <= o.start THEN <<>>
    ELSE << [index |-> Len(chunks), path |-> o.path,
             start |-> doc.offset + o.start, end |-> doc.offset + end,
             first |-> o.boundary, last |-> why] >>

Close(end, why) == IF open = Nothing THEN chunks
                   ELSE chunks \o Emitted(open, end, why)

\* ensure_open: the chunk that an event which opens none of its own goes to
Ensured(start) ==
    IF open # Nothing THEN open
    ELSE OpenChunk(start, Path(stack),
                   IF pending = Nothing THEN "document_start" ELSE pending)
PendingAfterEnsure == IF open = Nothing THEN Nothing ELSE pending

Init ==
    /\ doc \in Documents
    /\ at = 0
    /\ stack = [i \in 1..3 |-> NoText]
    /\ open = Nothing
    /\ depth = 0
    /\ buf = Nothing
    /\ pending = Nothing
    /\ chunks = <<>>
    /\ done = FALSE

Handles(kind) == at < Len(doc.events) /\ Event.kind = kind /\ at' = at + 1

----------------------------------------------------------------------------
(* handle_event *)

HeadingStart ==
    /\ Handles("headingStart") /\ Event.level <= 3
    /\ chunks' = Close(Event.from, Label(Event.level))
    /\ open' = OpenChunk(Event.from, <<>>, Label(Event.level))
    /\ pending' = Nothing
    /\ buf' = NoText
    /\ UNCHANGED <<doc, stack, depth, done>>

SubheadingStart ==
    /\ Handles("headingStart") /\ Event.level > 3
    /\ open' = Ensured(Event.from) /\ pending' = PendingAfterEnsure
    /\ buf' = NoText
    /\ UNCHANGED <<doc, stack, depth, chunks, done>>

\* Mutant: the deeper headings of the section before stay on the stack
RaisedKeeping(l, t) == [stack EXCEPT ![l] = t]

Raised(l, t) == [i \in 1..3 |-> IF i = l THEN t ELSE IF i > l THEN NoText ELSE stack[i]]

HeadingEnd ==
    /\ Handles("headingEnd")
    /\ IF Event.level <= 3
       THEN /\ stack' = Raised(Event.level, buf)
            /\ open' = [Ensured(Event.from) EXCEPT !.path = Path(stack')]
       ELSE open' = Ensured(Event.from) /\ UNCHANGED stack
    /\ pending' = PendingAfterEnsure
    /\ buf' = Nothing
    /\ UNCHANGED <<doc, depth, chunks, done>>

\* Mutant: a thematic break drops the text before it
RuleDropping ==
    /\ Handles("rule")
    /\ UNCHANGED chunks
    /\ open' = Nothing
    /\ pending' = "thematic_break"
    /\ UNCHANGED <<doc, stack, depth, buf, done>>

Rule ==
    /\ Handles("rule")
    /\ chunks' = Close(Event.from, "thematic_break")
    /\ open' = Nothing
    /\ pending' = "thematic_break"
    /\ UNCHANGED <<doc, stack, depth, buf, done>>

CodeStart ==
    /\ Handles("codeStart")
    /\ open' = Ensured(Event.from) /\ pending' = PendingAfterEnsure
    /\ depth' = depth + 1
    /\ UNCHANGED <<doc, stack, buf, chunks, done>>

\* Mutant: the reason of the break is not carried to the next chunk
SizeBreakForgetting(end, why) ==
    LET o == Ensured(Event.from)
    IN IF depth' = 0 /\ end - o.start > Target
       THEN /\ chunks' = chunks \o Emitted(o, end, why)
            /\ open' = Nothing /\ pending' = Nothing
       ELSE /\ open' = o /\ pending' = PendingAfterEnsure
            /\ UNCHANGED chunks

\* maybe_size_break, with the chunk ensure_open has left open
SizeBreak(end, why) ==
    LET o == Ensured(Event.from)
    IN IF depth' = 0 /\ end - o.start > Target
       THEN /\ chunks' = chunks \o Emitted(o, end, why)
            /\ open' = Nothing /\ pending' = why
       ELSE /\ open' = o /\ pending' = PendingAfterEnsure
            /\ UNCHANGED chunks

CodeEnd ==
    /\ Handles("codeEnd")
    /\ depth' = IF depth > 0 THEN depth - 1 ELSE 0
    /\ SizeBreak(Event.to, "size_after_code_block")
    /\ UNCHANGED <<doc, stack, buf, done>>

\* Mutant: the size is looked at where a block starts
BlockEndUnbroken ==
    /\ Handles("blockEnd")
    /\ depth' = depth
    /\ open' = Ensured(Event.from) /\ pending' = PendingAfterEnsure
    /\ UNCHANGED <<doc, stack, buf, chunks, done>>

\* The end of a paragraph, an item, a list or a block quote
BlockEnd ==
    /\ Handles("blockEnd")
    /\ depth' = depth
    /\ SizeBreak(Event.to, "size_after_block")
    /\ UNCHANGED <<doc, stack, buf, done>>

Text ==
    /\ Handles("text")
    /\ open' = Ensured(Event.from) /\ pending' = PendingAfterEnsure
    /\ buf' = IF buf = Nothing THEN Nothing ELSE Event.text
    /\ UNCHANGED <<doc, stack, depth, chunks, done>>

Other ==
    /\ Handles("other")
    /\ open' = Ensured(Event.from) /\ pending' = PendingAfterEnsure
    /\ UNCHANGED <<doc, stack, depth, buf, chunks, done>>

\* walk, after the last event
Finish ==
    /\ at = Len(doc.events) /\ ~done
    /\ chunks' = Close(doc.length, "document_end")
    /\ open' = Nothing
    /\ done' = TRUE
    /\ UNCHANGED <<doc, at, stack, depth, buf, pending>>

Next == \/ HeadingStart \/ SubheadingStart \/ HeadingEnd \/ Rule \/ CodeStart \/ CodeEnd
        \/ BlockEnd \/ Text \/ Other \/ Finish

Spec == Init /\ [][Next]_vars

----------------------------------------------------------------------------
(* References: what the document says, independent of the chunker          *)

EventIndices == 1..Len(doc.events)
InFile(i)    == [from |-> doc.offset + doc.events[i].from, to |-> doc.offset + doc.events[i].to]

\* The heading of level l in force at byte b: the last one before b, unless a
\* heading of a higher rank came after it
LastHeading(l, b) ==
    LET before == {i \in EventIndices : /\ doc.events[i].kind = "headingEnd"
                                        /\ doc.events[i].level <= l /\ InFile(i).to <= b}
        last   == CHOOSE i \in before : \A j \in before : j <= i
    IN IF before = {} \/ doc.events[last].level # l THEN NoText
       ELSE doc.events[last - 1].text

PathAt(b) == Path([l \in 1..3 |-> LastHeading(l, b)])

\* The elements that are still open after event i and begin no later, apart from
\* the one that ends right after it
Containers(i) == {j \in EventIndices : /\ j > i + 1 /\ doc.events[j].kind = "blockEnd"
                                       /\ doc.events[j].from <= doc.events[i].from}

\* Where a chunk that begins at b may be cut for its size
Cuts(b) == {i \in EventIndices :
              /\ doc.events[i].kind \in {"blockEnd", "codeEnd"}
              /\ InFile(i).to - b > Target}

----------------------------------------------------------------------------
\* The chunks a text is whole in
Copies(i)   == {c \in DOMAIN chunks : /\ chunks[c].start <= InFile(i).from
                                      /\ InFile(i).to <= chunks[c].end}

\* Every text of the body is whole in some chunk, at the chunk's position in
\* the file: no break falls into a block, no text is lost with a heading, a
\* thematic break or the end, and code is not split.  It is embedded at most
\* once more for each container it lies in: after a cut at the end of an inner
\* block, the end of the container opens a chunk at its start again.
NothingLost ==
    done => \A i \in EventIndices :
                doc.events[i].kind = "text" =>
                    Cardinality(Copies(i)) \in 1..(1 + Cardinality(Containers(i)))

\* The heading path a search result shows for a chunk is that of the headings in
\* force where the chunk ends, which no chunk reaches across.
PathsTrue == \A c \in DOMAIN chunks : chunks[c].path = PathAt(chunks[c].end)

\* A chunk begins at the boundary the chunk before it ended at, or at a thematic
\* break, unless a heading began it; and it says so only then.
BoundariesMeet ==
    \A c \in DOMAIN chunks :
        IF chunks[c].first \in Headings
        THEN \E i \in EventIndices : /\ doc.events[i].kind = "headingStart"
                                     /\ Label(doc.events[i].level) = chunks[c].first
                                     /\ InFile(i).from = chunks[c].start
        ELSE c > 1 => chunks[c].first \in {chunks[c - 1].last, "thematic_break"}

\* A chunk longer than the target ends with the first block that ends beyond the
\* target, so it is at most one block too long: in a file without lists and quotes,
\* where all that follows the end of a block comes after it.
Flat == \A i, j \in EventIndices :
            i < j /\ doc.events[i].kind \in {"blockEnd", "codeEnd"} => InFile(i).to <= InFile(j).from
BreaksInTime ==
    Flat => \A c \in DOMAIN chunks : \A i \in Cuts(chunks[c].start) :
                    chunks[c].end <= InFile(i).to

----------------------------------------------------------------------------
(* What the comments say beyond that, and the code does not keep *)

\* "splits it into chunks": no text is in two of them
EmbeddedOnce == \A i \in EventIndices : doc.events[i].kind = "text" =>
                    Cardinality(Copies(i)) <= 1

\* "After a chunk crosses this length, the chunker breaks at the next paragraph
\* (or other block-level) end."
BreaksAtNextBlockEnd == \A c \in DOMAIN chunks : \A i \in Cuts(chunks[c].start) :
                            chunks[c].end <= InFile(i).to
=============================================================================

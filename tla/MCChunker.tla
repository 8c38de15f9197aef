------------------------------- MODULE MCChunker -------------------------------
(* Documents of a few blocks.  A block is the sequence of its events at      *)
(* positions from 0, the last of which has the range of the whole block.     *)
EXTENDS Chunker, SequencesExt

E(kind, to, level, text) ==
    [kind |-> kind, from |-> 0, to |-> to, level |-> level, text |-> text]
Plain(kind, to) == E(kind, to, 1, NoText)

Shift(b, k) == [i \in DOMAIN b |-> [b[i] EXCEPT !.from = @ + k, !.to = @ + k]]
Size(b)     == IF b = <<>> THEN 0 ELSE b[Len(b)].to
Then(b, c)  == b \o Shift(c, Size(b))
Joined(bs)  == FoldLeft(Then, <<>>, bs)

Para(n)   == <<Plain("other", n), Plain("text", n), Plain("blockEnd", n)>>
Code(n)   == <<Plain("codeStart", n), Plain("text", n), Plain("codeEnd", n)>>
Break     == <<Plain("rule", 1)>>
Title(l, t) == <<E("headingStart", 1, l, NoText), E("text", 1, l, t),
                 E("headingEnd", 1, l, t)>>
Box(bs)   == LET inner == Joined(bs)
             IN <<Plain("other", Size(inner))>> \o inner \o <<Plain("blockEnd", Size(inner))>>

Blocks == {Para(1), Para(3), Code(3), Break, Title(4, "d"),
           Title(1, "a"), Title(2, "b"), Title(2, NoText), Title(3, "c"),
           Box(<<Para(1), Para(3)>>), Box(<<Para(1), Code(2), Para(1)>>),
           Box(<<Box(<<Para(3)>>), Para(1)>>), Box(<<Para(1), Break>>),
           Box(<<Para(1), Title(2, "e"), Para(3)>>)}

DocTexts  == {NoText, "a", "b", "c", "d", "e"}
DocOf(bs, k) == [offset |-> k, length |-> Size(Joined(bs)), events |-> Joined(bs)]
Docs      == {DocOf(bs, 0) : bs \in UNION {[1..n -> Blocks] : n \in 0..4}}
                 \cup {DocOf(bs, 7) : bs \in [1..2 -> Blocks]}
=============================================================================

-------------------------- MODULE EventStreamProofs -------------------------
(***************************************************************************)
(* Theorems about EventStream, for every set of vaults and of watch        *)
(* requests, every capacity of the bus and any number of events: what a    *)
(* subscriber may conclude from the lines it has read.                     *)
(***************************************************************************)
EXTENDS EventStream, SequenceTheorems, WellFoundedInduction, TLAPS

-----------------------------------------------------------------------------
(* The order of the naturals.  The library's induction theorems take an    *)
(* operator; that < is well-founded says the same of sets.                 *)

LEMMA LeastNatural ==
    ASSUME NEW S, S \subseteq Nat, S # {}
    PROVE  \E n \in S : \A m \in S : n <= m
<1> DEFINE R == OpToRel(<, Nat)
<1>1. IsWellFoundedOn(R, Nat)
  BY NatLessThanWellFounded
<1>2. PICK n \in S : \A m \in S : ~ (<<m, n>> \in R)
  <2> HIDE DEF R
  <2> QED BY <1>1, WFMin
<1>3. \A m \in S : ~ (m < n)
  BY <1>2 DEF OpToRel
<1> QED BY <1>3

LEMMA GreatestBelow ==
    ASSUME NEW b \in Nat, NEW S, S \subseteq 0 .. b, S # {}
    PROVE  \E n \in S : \A m \in S : m <= n
<1> DEFINE T == {b - m : m \in S}
<1>1. T \subseteq Nat
  <2>1. ASSUME NEW m \in S
        PROVE  b - m \in Nat
    <3>1. m \in 0 .. b
      OBVIOUS
    <3> QED BY <3>1
  <2> QED BY <2>1
<1>2. T # {}
  OBVIOUS
<1>3. PICK k \in T : \A m \in T : k <= m
  <2> HIDE DEF T
  <2> QED BY <1>1, <1>2, LeastNatural
<1>4. PICK n \in S : k = b - n
  OBVIOUS
<1>5. \A m \in S : k <= b - m
  BY <1>3
<1> QED BY <1>4, <1>5

-----------------------------------------------------------------------------
(* The lines of a stream.                                                  *)

LEMMA EventIsLine ==
    ASSUME NEW e \in Nat
    PROVE  Event(e) \in Lines /\ Event(e).kind = "event" /\ Event(e).at = e
<1> QED BY DEF Event, Lines

LEMMA LagIsLine ==
    ASSUME NEW n \in Nat, NEW b \in BOOLEAN
    PROVE  Lag(n, b) \in Lines /\ Lag(n, b).kind = "lag"
<1> QED BY DEF Lag, Lines

\* LastAt is the event of a line that holds one, or the start of the stream.
LEMMA LastAtIsLine ==
    ASSUME NEW x, x.lines \in Seq(Lines), NEW n \in 0 .. Len(x.lines)
    PROVE  \/ /\ \A m \in 1 .. n : x.lines[m].kind # "event"
              /\ LastAt(x, n) = x.start
           \/ \E m \in 1 .. n : /\ x.lines[m].kind = "event"
                                /\ \A k \in m + 1 .. n : x.lines[k].kind # "event"
                                /\ LastAt(x, n) = x.lines[m].at
<1> DEFINE seen == {m \in 1 .. n : x.lines[m].kind = "event"}
           last == CHOOSE m \in seen : \A k \in seen : k <= m
<1>1. LastAt(x, n) = IF seen = {} THEN x.start ELSE x.lines[last].at
  BY DEF LastAt
<1>2. CASE seen = {}
  BY <1>1, <1>2
<1>3. CASE seen # {}
  <2>1. n \in Nat /\ seen \subseteq 0 .. n
    OBVIOUS
  <2>2. \E m \in seen : \A k \in seen : k <= m
    <3> HIDE DEF seen
    <3> QED BY <1>3, <2>1, GreatestBelow
  <2>3. last \in seen /\ \A k \in seen : k <= last
    <3> HIDE DEF seen
    <3> QED BY <2>2
  <2>4. \A k \in last + 1 .. n : x.lines[k].kind # "event"
    <3> HIDE DEF last
    <3> QED BY <2>3
  <2> QED BY <1>1, <1>3, <2>3, <2>4
<1> QED BY <1>2, <1>3

\* What a stream has accounted for before one of its lines depends on the lines
\* before it only.
LEMMA AccountIsLocal ==
    ASSUME NEW x, NEW y, NEW n \in Nat, y.start = x.start,
           \A m \in 1 .. n : y.lines[m] = x.lines[m]
    PROVE  LastAt(y, n) = LastAt(x, n) /\ (LaggedSince(x, n) => LaggedSince(y, n))
<1> DEFINE events(z) == {m \in 1 .. n : z.lines[m].kind = "event"}
           greatest(S) == CHOOSE m \in S : \A k \in S : k <= m
           seen == events(x)
           last == greatest(seen)
<1>2. events(y) = seen
  OBVIOUS
<1>3. /\ LastAt(x, n) = IF seen = {} THEN x.start ELSE x.lines[last].at
      /\ LastAt(y, n) = IF seen = {} THEN y.start ELSE y.lines[last].at
  <2>1. /\ LastAt(x, n) = IF events(x) = {} THEN x.start
                          ELSE x.lines[greatest(events(x))].at
        /\ LastAt(y, n) = IF events(y) = {} THEN y.start
                          ELSE y.lines[greatest(events(y))].at
    BY DEF LastAt
  <2> HIDE DEF greatest, events
  <2> QED BY <1>2, <2>1
<1>4. seen # {} => last \in 1 .. n
  <2>1. seen \subseteq 0 .. n /\ seen \subseteq 1 .. n
    OBVIOUS
  <2>2. seen # {} => \E m \in seen : \A k \in seen : k <= m
    <3> HIDE DEF seen
    <3> QED BY <2>1, GreatestBelow
  <2> HIDE DEF seen
  <2> QED BY <2>1, <2>2
<1>5. LaggedSince(x, n) => LaggedSince(y, n)
  BY DEF LaggedSince
<1> HIDE DEF seen, last
<1> QED BY <1>3, <1>4, <1>5

\* A new line accounts for the event it holds, or for a lag.
LEMMA AppendAccounts ==
    ASSUME NEW x, NEW y, NEW l \in Lines, x.lines \in Seq(Lines),
           y.lines = Append(x.lines, l), y.start = x.start
    PROVE  /\ l.kind = "event" => LastAt(y, Len(y.lines)) = l.at
           /\ l.kind = "lag" => LaggedSince(y, Len(y.lines))
<1> DEFINE n == Len(x.lines)
           seen == {m \in 1 .. n + 1 : y.lines[m].kind = "event"}
           last == CHOOSE m \in seen : \A k \in seen : k <= m
<1>1. n \in Nat /\ Len(y.lines) = n + 1 /\ y.lines[n + 1] = l
  BY AppendProperties
<1>2. ASSUME l.kind = "event"
      PROVE  LastAt(y, Len(y.lines)) = l.at
  <2>1. n + 1 \in seen /\ \A k \in seen : k <= n + 1 /\ k \in Nat
    BY <1>1, <1>2
  <2>2. last = n + 1
    <3> HIDE DEF seen, n
    <3>1. last \in seen /\ \A k \in seen : k <= last
      BY <2>1
    <3> QED BY <1>1, <2>1, <3>1
  <2>3. LastAt(y, n + 1) = y.lines[last].at
    BY <2>1 DEF LastAt
  <2> HIDE DEF last
  <2> QED BY <1>1, <2>2, <2>3
<1>3. ASSUME l.kind = "lag"
      PROVE  LaggedSince(y, Len(y.lines))
  BY <1>1, <1>3 DEF LaggedSince
<1> QED BY <1>2, <1>3

-----------------------------------------------------------------------------
(* The invariant, of one stream x of a bus with history h.                 *)

\* The cursor is inside the history; a stream that has not subscribed is empty;
\* a delivered event is one that the cursor has passed, of a vault in scope.
Sound(h, x) ==
    /\ x \in StreamValues
    /\ x.start <= x.next /\ x.next <= Len(h)
    /\ x.state \in {"idle", "checked"}
          => x.lines = <<>> /\ x.start = 0 /\ x.next = 0
    /\ \A n \in 1 .. Len(x.lines) : x.lines[n].kind = "event" =>
          x.lines[n].at \in 1 .. x.next /\ h[x.lines[n].at] \in x.scope

\* NoSilentGap of one stream.
Due(h, x, lo, hi) == {e \in lo + 1 .. hi : h[e] \in x.scope}

Gapless(h, x) ==
    /\ \A n \in 1 .. Len(x.lines) : x.lines[n].kind = "event" =>
          /\ LastAt(x, n - 1) < x.lines[n].at
          /\ \/ LaggedSince(x, n - 1)
             \/ Due(h, x, LastAt(x, n - 1), x.lines[n].at - 1) = {}
    /\ \/ LaggedSince(x, Len(x.lines))
       \/ Due(h, x, LastAt(x, Len(x.lines)), x.next) = {}

LEMMA LastAtBelowCursor ==
    ASSUME NEW h \in Seq(Vaults), NEW x, Sound(h, x), NEW n \in 0 .. Len(x.lines)
    PROVE  LastAt(x, n) \in 0 .. x.next
<1>1. x.lines \in Seq(Lines) /\ x.start \in Nat /\ x.next \in Nat
  BY DEF Sound, StreamValues
<1>2. CASE LastAt(x, n) = x.start
  BY <1>1, <1>2 DEF Sound
<1>3. CASE \E m \in 1 .. n : /\ x.lines[m].kind = "event"
                             /\ LastAt(x, n) = x.lines[m].at
  BY <1>1, <1>3 DEF Sound
<1> QED BY <1>1, <1>2, <1>3, LastAtIsLine

\* The bus goes on: nothing a stream has accounted for changes.
LEMMA PublishKeeps ==
    ASSUME NEW h \in Seq(Vaults), NEW v \in Vaults, NEW x, Sound(h, x)
    PROVE  Sound(Append(h, v), x) /\ (Gapless(h, x) => Gapless(Append(h, v), x))
<1> DEFINE g == Append(h, v)
<1>1. /\ Len(g) = Len(h) + 1 /\ Len(h) \in Nat
      /\ \A e \in 1 .. Len(h) : g[e] = h[e]
  BY AppendProperties
<1>2. /\ x.lines \in Seq(Lines) /\ Len(x.lines) \in Nat
      /\ x.next \in Nat /\ x.next <= Len(h)
  BY DEF Sound, StreamValues
<1> HIDE DEF g
<1>3. Sound(g, x)
  BY <1>1, <1>2 DEF Sound
<1>4. ASSUME NEW lo \in 0 .. x.next, NEW hi \in 0 .. x.next
      PROVE  Due(g, x, lo, hi) = Due(h, x, lo, hi)
  BY <1>1, <1>2 DEF Due
<1>5. Gapless(h, x) => Gapless(g, x)
  <2>1. \A n \in 0 .. Len(x.lines) : LastAt(x, n) \in 0 .. x.next
    BY LastAtBelowCursor
  <2>2. \A n \in 1 .. Len(x.lines) : x.lines[n].kind = "event" =>
            x.lines[n].at \in 1 .. x.next
    BY DEF Sound
  <2>3. \A n \in 1 .. Len(x.lines) : n - 1 \in 0 .. Len(x.lines)
    BY <1>2
  <2>4. ASSUME NEW n \in 1 .. Len(x.lines), x.lines[n].kind = "event"
        PROVE  Due(g, x, LastAt(x, n - 1), x.lines[n].at - 1)
                  = Due(h, x, LastAt(x, n - 1), x.lines[n].at - 1)
    <3>1. x.lines[n].at - 1 \in 0 .. x.next
      BY <1>2, <2>2, <2>4
    <3> QED BY <1>4, <2>1, <2>3, <3>1
  <2>5. Due(g, x, LastAt(x, Len(x.lines)), x.next)
           = Due(h, x, LastAt(x, Len(x.lines)), x.next)
    BY <1>2, <1>4, <2>1
  <2> QED BY <2>4, <2>5 DEF Gapless
<1> QED BY <1>3, <1>5 DEF g

\* A line is added at the end: what stood before it stays accounted for.
LEMMA AppendKeepsGapless ==
    ASSUME NEW h, NEW x, NEW y, NEW l \in Lines, x.lines \in Seq(Lines),
           y.lines = Append(x.lines, l), y.start = x.start, y.scope = x.scope,
           Gapless(h, x),
           l.kind = "event" =>
              /\ LastAt(x, Len(x.lines)) < l.at
              /\ \/ LaggedSince(x, Len(x.lines))
                 \/ Due(h, x, LastAt(x, Len(x.lines)), l.at - 1) = {}
    PROVE  \A n \in 1 .. Len(y.lines) : y.lines[n].kind = "event" =>
              /\ LastAt(y, n - 1) < y.lines[n].at
              /\ \/ LaggedSince(y, n - 1)
                 \/ Due(h, y, LastAt(y, n - 1), y.lines[n].at - 1) = {}
<1>1. /\ Len(x.lines) \in Nat /\ Len(y.lines) = Len(x.lines) + 1
      /\ \A n \in 1 .. Len(x.lines) : y.lines[n] = x.lines[n]
      /\ y.lines[Len(x.lines) + 1] = l
  BY AppendProperties
<1>2. SUFFICES ASSUME NEW n \in 1 .. Len(y.lines), y.lines[n].kind = "event"
               PROVE  /\ LastAt(y, n - 1) < y.lines[n].at
                      /\ \/ LaggedSince(y, n - 1)
                         \/ Due(h, y, LastAt(y, n - 1), y.lines[n].at - 1) = {}
  OBVIOUS
<1>3. n - 1 \in Nat /\ \A m \in 1 .. n - 1 : y.lines[m] = x.lines[m]
  BY <1>1
<1>4. /\ LastAt(y, n - 1) = LastAt(x, n - 1)
      /\ LaggedSince(x, n - 1) => LaggedSince(y, n - 1)
  BY <1>3, AccountIsLocal
<1>5. ASSUME NEW lo, NEW hi
      PROVE  Due(h, y, lo, hi) = Due(h, x, lo, hi)
  BY DEF Due
<1>6. CASE n \in 1 .. Len(x.lines)
  <2>1. y.lines[n] = x.lines[n] /\ x.lines[n].kind = "event"
    BY <1>1, <1>2, <1>6
  <2>2. /\ LastAt(x, n - 1) < x.lines[n].at
        /\ \/ LaggedSince(x, n - 1)
           \/ Due(h, x, LastAt(x, n - 1), x.lines[n].at - 1) = {}
    BY <1>6, <2>1 DEF Gapless
  <2> QED BY <1>4, <1>5, <2>1, <2>2
<1>7. CASE n = Len(x.lines) + 1
  <2>1. y.lines[n] = l /\ n - 1 = Len(x.lines)
    BY <1>1, <1>7
  <2> QED BY <1>2, <1>4, <1>5, <2>1
<1>8. n \in 1 .. Len(x.lines) \/ n = Len(x.lines) + 1
  BY <1>1
<1> QED BY <1>6, <1>7, <1>8

\* Ok(event), in scope: the new line holds the event.
LEMMA WriteEventKeeps ==
    ASSUME NEW h \in Seq(Vaults), NEW x, Sound(h, x), Gapless(h, x),
           NEW e, e = x.next + 1, e <= Len(h), h[e] \in x.scope,
           NEW y \in StreamValues, y.state = "open", y.next = e,
           y.start = x.start, y.scope = x.scope,
           y.lines = Append(x.lines, Event(e))
    PROVE  Sound(h, y) /\ Gapless(h, y)
<1>1. /\ x.lines \in Seq(Lines) /\ Len(x.lines) \in Nat /\ x.next \in Nat
      /\ x.start \in Nat /\ Len(h) \in Nat /\ e \in Nat /\ e \in 1 .. Len(h)
  BY DEF Sound, StreamValues
<1>2. Event(e) \in Lines /\ Event(e).kind = "event" /\ Event(e).at = e
  BY <1>1, EventIsLine
<1>3. /\ Len(y.lines) = Len(x.lines) + 1
      /\ \A n \in 1 .. Len(x.lines) : y.lines[n] = x.lines[n]
      /\ y.lines[Len(x.lines) + 1] = Event(e)
  BY <1>1, <1>2, AppendProperties
<1>4. Sound(h, y)
  <2>1. y.start <= y.next /\ y.next <= Len(h)
    BY <1>1 DEF Sound
  <2>2. ASSUME NEW n \in 1 .. Len(y.lines), y.lines[n].kind = "event"
        PROVE  y.lines[n].at \in 1 .. y.next /\ h[y.lines[n].at] \in y.scope
    <3>1. CASE n \in 1 .. Len(x.lines)
      <4>1. x.lines[n].at \in 1 .. x.next /\ h[x.lines[n].at] \in x.scope
        BY <1>3, <2>2, <3>1 DEF Sound
      <4> QED BY <1>1, <1>3, <3>1, <4>1
    <3>2. CASE n = Len(x.lines) + 1
      BY <1>1, <1>2, <1>3, <3>2
    <3> QED BY <1>1, <1>3, <3>1, <3>2
  <2> QED BY <2>1, <2>2 DEF Sound
<1>5. LastAt(x, Len(x.lines)) \in 0 .. x.next
  BY <1>1, LastAtBelowCursor
<1>6. /\ LastAt(x, Len(x.lines)) < e
      /\ \/ LaggedSince(x, Len(x.lines))
         \/ Due(h, x, LastAt(x, Len(x.lines)), e - 1) = {}
  <2>1. e - 1 = x.next /\ LastAt(x, Len(x.lines)) < e
    BY <1>1, <1>5
  <2> QED BY <2>1 DEF Gapless
<1>7. \A n \in 1 .. Len(y.lines) : y.lines[n].kind = "event" =>
         /\ LastAt(y, n - 1) < y.lines[n].at
         /\ \/ LaggedSince(y, n - 1)
            \/ Due(h, y, LastAt(y, n - 1), y.lines[n].at - 1) = {}
  BY <1>1, <1>2, <1>6, AppendKeepsGapless
<1>8. LastAt(y, Len(y.lines)) = e
  BY <1>1, <1>2, AppendAccounts
<1>9. Due(h, y, e, e) = {}
  BY <1>1 DEF Due
<1> QED BY <1>4, <1>7, <1>8, <1>9 DEF Gapless

\* Ok(event), not in scope: nothing is due for it.
LEMMA PassOverKeeps ==
    ASSUME NEW h \in Seq(Vaults), NEW x, Sound(h, x), Gapless(h, x),
           NEW e, e = x.next + 1, e <= Len(h), h[e] \notin x.scope,
           NEW y \in StreamValues, y.state = "open", y.next = e,
           y.start = x.start, y.scope = x.scope, y.lines = x.lines
    PROVE  Sound(h, y) /\ Gapless(h, y)
<1>1. /\ x.lines \in Seq(Lines) /\ Len(x.lines) \in Nat /\ x.next \in Nat
      /\ x.start \in Nat /\ Len(h) \in Nat /\ e \in Nat
  BY DEF Sound, StreamValues
<1>2. Sound(h, y)
  <2>1. \A n \in 1 .. Len(y.lines) : y.lines[n].kind = "event" =>
           y.lines[n].at \in 1 .. y.next /\ h[y.lines[n].at] \in y.scope
    BY <1>1 DEF Sound
  <2> QED BY <1>1, <2>1 DEF Sound
<1>3. \A n \in Nat : /\ LastAt(y, n) = LastAt(x, n)
                     /\ LaggedSince(x, n) => LaggedSince(y, n)
  BY AccountIsLocal
<1>4. ASSUME NEW lo, NEW hi
      PROVE  Due(h, y, lo, hi) = Due(h, x, lo, hi)
  BY DEF Due
<1>5. ASSUME NEW n \in 1 .. Len(y.lines), y.lines[n].kind = "event"
      PROVE  /\ LastAt(y, n - 1) < y.lines[n].at
             /\ \/ LaggedSince(y, n - 1)
                \/ Due(h, y, LastAt(y, n - 1), y.lines[n].at - 1) = {}
  <2>1. n - 1 \in Nat
    BY <1>1
  <2> QED BY <1>3, <1>4, <1>5, <2>1 DEF Gapless
<1>6. LastAt(x, Len(x.lines)) \in 0 .. x.next
  BY <1>1, LastAtBelowCursor
<1>7. Due(h, x, LastAt(x, Len(x.lines)), x.next) = {}
         => Due(h, y, LastAt(x, Len(x.lines)), e) = {}
  BY <1>1, <1>6 DEF Due
<1>8. \/ LaggedSince(y, Len(y.lines))
      \/ Due(h, y, LastAt(y, Len(y.lines)), y.next) = {}
  BY <1>1, <1>3, <1>7 DEF Gapless
<1> QED BY <1>2, <1>5, <1>8 DEF Gapless

\* Err(Lagged(n)): whatever was overwritten is accounted for by the new line.
LEMMA LagKeeps ==
    ASSUME NEW h \in Seq(Vaults), NEW x, Sound(h, x), Gapless(h, x),
           NEW o \in 0 .. Len(h), x.next < o,
           NEW l \in Lines, l.kind = "lag",
           NEW y \in StreamValues, y.state = "open", y.next = o,
           y.start = x.start, y.scope = x.scope, y.lines = Append(x.lines, l)
    PROVE  Sound(h, y) /\ Gapless(h, y)
<1>1. /\ x.lines \in Seq(Lines) /\ Len(x.lines) \in Nat /\ x.next \in Nat
      /\ x.start \in Nat /\ Len(h) \in Nat /\ o \in Nat
  BY DEF Sound, StreamValues
<1>2. /\ Len(y.lines) = Len(x.lines) + 1
      /\ \A n \in 1 .. Len(x.lines) : y.lines[n] = x.lines[n]
      /\ y.lines[Len(x.lines) + 1] = l
  BY <1>1, AppendProperties
<1>3. l.kind # "event"
  OBVIOUS
<1>4. Sound(h, y)
  <2>1. y.start <= y.next /\ y.next <= Len(h)
    BY <1>1 DEF Sound
  <2>2. ASSUME NEW n \in 1 .. Len(y.lines), y.lines[n].kind = "event"
        PROVE  y.lines[n].at \in 1 .. y.next /\ h[y.lines[n].at] \in y.scope
    <3>1. n \in 1 .. Len(x.lines)
      BY <1>1, <1>2, <1>3, <2>2
    <3>2. x.lines[n].at \in 1 .. x.next /\ h[x.lines[n].at] \in x.scope
      BY <1>2, <2>2, <3>1 DEF Sound
    <3> QED BY <1>1, <1>2, <3>1, <3>2
  <2> QED BY <2>1, <2>2 DEF Sound
<1>5. LaggedSince(y, Len(y.lines))
  BY <1>1, AppendAccounts
<1>6. \A n \in 1 .. Len(y.lines) : y.lines[n].kind = "event" =>
         /\ LastAt(y, n - 1) < y.lines[n].at
         /\ \/ LaggedSince(y, n - 1)
            \/ Due(h, y, LastAt(y, n - 1), y.lines[n].at - 1) = {}
  BY <1>1, <1>3, AppendKeepsGapless
<1> QED BY <1>4, <1>5, <1>6 DEF Gapless

\* A stream without lines has missed nothing since it began.
LEMMA EmptyIsGapless ==
    ASSUME NEW h \in Seq(Vaults), NEW y \in StreamValues, y.lines = <<>>,
           y.start = y.next, y.next <= Len(h),
           y.state \in {"idle", "checked"} => y.next = 0
    PROVE  Sound(h, y) /\ Gapless(h, y)
<1>1. y.start \in Nat /\ y.next \in Nat /\ Len(y.lines) = 0
  BY DEF StreamValues
<1>2. Sound(h, y)
  BY <1>1 DEF Sound
<1>3. LastAt(y, 0) = y.start
  BY DEF LastAt
<1>4. Due(h, y, y.start, y.next) = {}
  BY <1>1 DEF Due
<1> QED BY <1>1, <1>2, <1>3, <1>4 DEF Gapless

\* A stream that closes keeps what it has delivered.
LEMMA CloseKeeps ==
    ASSUME NEW h \in Seq(Vaults), NEW x, Sound(h, x), Gapless(h, x),
           NEW y, y = [x EXCEPT !.state = "closed"]
    PROVE  Sound(h, y) /\ Gapless(h, y)
<1>1. /\ x \in StreamValues /\ x.lines \in Seq(Lines) /\ Len(x.lines) \in Nat
  BY DEF Sound, StreamValues
<1>2. /\ y \in StreamValues /\ y.state = "closed" /\ y.next = x.next
      /\ y.start = x.start /\ y.scope = x.scope /\ y.lines = x.lines
  BY <1>1 DEF StreamValues
<1>3. Sound(h, y)
  BY <1>2 DEF Sound
<1>4. \A n \in Nat : /\ LastAt(y, n) = LastAt(x, n)
                     /\ LaggedSince(x, n) => LaggedSince(y, n)
  BY <1>2, AccountIsLocal
<1>5. ASSUME NEW lo, NEW hi
      PROVE  Due(h, y, lo, hi) = Due(h, x, lo, hi)
  BY <1>2 DEF Due
<1>6. ASSUME NEW n \in 1 .. Len(y.lines), y.lines[n].kind = "event"
      PROVE  /\ LastAt(y, n - 1) < y.lines[n].at
             /\ \/ LaggedSince(y, n - 1)
                \/ Due(h, y, LastAt(y, n - 1), y.lines[n].at - 1) = {}
  <2>1. n - 1 \in Nat /\ n \in 1 .. Len(x.lines) /\ x.lines[n].kind = "event"
    BY <1>1, <1>2, <1>6
  <2>2. /\ LastAt(x, n - 1) < x.lines[n].at
        /\ \/ LaggedSince(x, n - 1)
           \/ Due(h, x, LastAt(x, n - 1), x.lines[n].at - 1) = {}
    BY <2>1 DEF Gapless
  <2> QED BY <1>2, <1>4, <1>5, <2>1, <2>2
<1>7. \/ LaggedSince(y, Len(y.lines))
      \/ Due(h, y, LastAt(y, Len(y.lines)), y.next) = {}
  <2>1. \/ LaggedSince(x, Len(x.lines))
        \/ Due(h, x, LastAt(x, Len(x.lines)), x.next) = {}
    BY DEF Gapless
  <2> QED BY <1>1, <1>2, <1>4, <1>5, <2>1
<1> QED BY <1>3, <1>6, <1>7 DEF Gapless

-----------------------------------------------------------------------------
(* The invariant of the specification.                                     *)

BusInv == /\ sent \in Seq(Vaults)
          /\ mode \in [Vaults -> Modes]
          /\ daemon \in {"up", "stopping", "exited"}
          /\ ops \in Nat

Intact(h, x) == Sound(h, x) /\ Gapless(h, x)

StreamInv == /\ stream \in [Streams -> StreamValues]
             /\ \A s \in Streams : Intact(sent, stream[s])

Inv == BusInv /\ StreamInv

LEMMA NoStreamIsStream == NoStream \in StreamValues
<1>1. <<>> \in Seq(Lines)
  BY EmptySeq
<1> QED BY <1>1 DEF NoStream, StreamValues

LEMMA InvInit == Init => Inv
<1> SUFFICES ASSUME Init PROVE Inv
  OBVIOUS
<1>1. BusInv
  BY EmptySeq DEF Init, BusInv, Modes
<1>2. NoStream \in StreamValues
  BY NoStreamIsStream
<1>3. sent = <<>> /\ Len(sent) = 0 /\ sent \in Seq(Vaults)
  BY EmptySeq DEF Init
<1>4. Sound(sent, NoStream) /\ Gapless(sent, NoStream)
  <2>1. /\ NoStream.lines = <<>> /\ NoStream.start = NoStream.next
        /\ NoStream.next = 0 /\ NoStream.next <= Len(sent)
    BY <1>3 DEF NoStream
  <2> QED BY <1>2, <1>3, <2>1, EmptyIsGapless, Zenon
<1> QED BY <1>1, <1>2, <1>4 DEF Init, Inv, StreamInv, Intact

\* A step of one stream.
LEMMA SetKeeps ==
    ASSUME Inv, NEW s \in Streams, NEW y, Set(s, y), y \in StreamValues,
           Intact(sent, y)
    PROVE  Inv'
<1>1. BusInv'
  BY DEF Inv, Set, BusInv
<1>2. /\ stream' \in [Streams -> StreamValues] /\ sent' = sent
      /\ \A t \in Streams : stream'[t] = IF t = s THEN y ELSE stream[t]
  BY DEF Inv, Set, StreamInv
<1>3. \A t \in Streams : Intact(sent', stream'[t])
  BY <1>2 DEF Inv, StreamInv
<1> QED BY <1>1, <1>2, <1>3 DEF Inv, StreamInv

LEMMA StreamStep ==
    ASSUME Inv, NEW s \in Streams,
           \/ \E v \in Vaults : CheckVault(s, v)
           \/ PinVaults(s) \/ Subscribe(s)
           \/ Deliver(s) \/ ReportLag(s) \/ Hangup(s)
    PROVE  Inv'
<1> DEFINE x == stream[s]
<1>1. x \in StreamValues /\ Sound(sent, x) /\ Gapless(sent, x)
  BY DEF Inv, StreamInv, Intact
<1>2. sent \in Seq(Vaults) /\ Len(sent) \in Nat
  BY DEF Inv, BusInv
<1>3. x.next \in Nat /\ x.next <= Len(sent)
  BY <1>1 DEF Sound, StreamValues
<1>4. ASSUME NEW y \in StreamValues, y.lines = <<>>, y.start = 0, y.next = 0,
             Set(s, y)
      PROVE  Inv'
  <2>1. Intact(sent, y)
    BY <1>2, <1>4, EmptyIsGapless DEF Intact
  <2> QED BY <1>4, <2>1, SetKeeps
<1>5. ASSUME NEW v \in Vaults, CheckVault(s, v)
      PROVE  Inv'
  <2> DEFINE y == [NoStream EXCEPT !.state = "checked", !.single = TRUE,
                                   !.scope = {v}]
  <2>1. /\ y \in StreamValues
        /\ y.lines = <<>> /\ y.start = 0 /\ y.next = 0
    BY NoStreamIsStream DEF NoStream, StreamValues
  <2>2. Set(s, y)
    BY <1>5 DEF CheckVault
  <2> HIDE DEF y
  <2> QED BY <1>4, <2>1, <2>2
<1>6. CASE PinVaults(s)
  <2> DEFINE y == [NoStream EXCEPT !.state = "checked", !.scope = Active]
  <2>1. Active \in SUBSET Vaults
    BY DEF Active
  <2>2. /\ y \in StreamValues
        /\ y.lines = <<>> /\ y.start = 0 /\ y.next = 0
    BY <2>1, NoStreamIsStream DEF NoStream, StreamValues
  <2>3. Set(s, y)
    BY <1>6 DEF PinVaults
  <2> HIDE DEF y
  <2> QED BY <1>4, <2>2, <2>3
<1>7. CASE Subscribe(s)
  <2> DEFINE y == [x EXCEPT !.state = "open", !.start = Len(sent),
                            !.next = Len(sent)]
  <2>1. Set(s, y) /\ x.lines = <<>>
    BY <1>1, <1>7 DEF Subscribe, Sound
  <2>2. /\ y \in StreamValues /\ y.lines = <<>> /\ y.start = y.next
        /\ y.next = Len(sent) /\ y.state = "open"
    BY <1>1, <1>2, <2>1 DEF StreamValues
  <2> HIDE DEF y
  <2>3. Intact(sent, y)
    BY <1>2, <2>2, EmptyIsGapless DEF Intact
  <2> QED BY <2>1, <2>2, <2>3, SetKeeps
<1>8. CASE Deliver(s)
  <2> DEFINE e == x.next + 1
             y == [x EXCEPT !.next = e,
                            !.lines = IF sent[e] \in x.scope
                                      THEN Append(x.lines, Event(e)) ELSE x.lines]
  <2>1. Set(s, y) /\ x.state = "open" /\ e <= Len(sent)
    BY <1>1, <1>2, <1>3, <1>8 DEF Deliver, Readable, Passes
  <2>2. e \in Nat /\ x.lines \in Seq(Lines)
    BY <1>1, <1>3 DEF StreamValues
  <2>3. /\ y \in StreamValues /\ y.state = "open" /\ y.next = e
        /\ y.start = x.start /\ y.scope = x.scope
        /\ y.lines = IF sent[e] \in x.scope
                     THEN Append(x.lines, Event(e)) ELSE x.lines
    <3>1. Append(x.lines, Event(e)) \in Seq(Lines)
      BY <2>2, EventIsLine, AppendProperties
    <3> HIDE DEF e
    <3> QED BY <1>1, <2>1, <2>2, <3>1 DEF StreamValues
  <2>4. e = x.next + 1
    OBVIOUS
  <2> HIDE DEF y, e
  <2>5. Intact(sent, y)
    <3> HIDE DEF x
    <3>1. CASE sent[e] \in x.scope
      BY <1>1, <1>2, <2>1, <2>3, <2>4, <3>1, WriteEventKeeps DEF Intact
    <3>2. CASE sent[e] \notin x.scope
      BY <1>1, <1>2, <2>1, <2>3, <2>4, <3>2, PassOverKeeps DEF Intact
    <3> QED BY <3>1, <3>2
  <2> QED BY <2>1, <2>3, <2>5, SetKeeps
<1>9. CASE ReportLag(s)
  <2> DEFINE o == Overwritten
             l == Lag(o - x.next, x.single)
             y == [x EXCEPT !.next = o, !.lines = Append(x.lines, l)]
  <2>1. Set(s, y) /\ x.state = "open" /\ x.next < o
    BY <1>9 DEF ReportLag, Readable
  <2>2. o \in 0 .. Len(sent)
    BY <1>2, CapacityAssumption DEF Overwritten
  <2>3. l \in Lines /\ l.kind = "lag"
    <3>1. o - x.next \in Nat /\ x.single \in BOOLEAN
      BY <1>1, <1>3, <2>1, <2>2 DEF StreamValues
    <3> QED BY <3>1, LagIsLine
  <2> HIDE DEF o, l
  <2>4. /\ y \in StreamValues /\ y.state = "open" /\ y.next = o
        /\ y.start = x.start /\ y.scope = x.scope
        /\ y.lines = Append(x.lines, l)
    <3>1. x.lines \in Seq(Lines) /\ o \in Nat
      BY <1>1, <2>2 DEF StreamValues
    <3>2. Append(x.lines, l) \in Seq(Lines)
      BY <2>3, <3>1, AppendProperties
    <3> QED BY <1>1, <2>1, <3>1, <3>2 DEF StreamValues
  <2> HIDE DEF y
  <2>5. Intact(sent, y)
    <3> HIDE DEF x
    <3> QED BY <1>1, <1>2, <2>1, <2>2, <2>3, <2>4, LagKeeps DEF Intact
  <2> QED BY <2>1, <2>4, <2>5, SetKeeps
<1>10. CASE Hangup(s)
  <2> DEFINE y == [x EXCEPT !.state = "closed"]
  <2>1. Set(s, y)
    BY <1>10 DEF Hangup
  <2>2. y \in StreamValues
    BY <1>1 DEF StreamValues
  <2>3. Intact(sent, y)
    BY <1>1, <1>2, CloseKeeps DEF Intact
  <2> HIDE DEF y
  <2> QED BY <2>1, <2>2, <2>3, SetKeeps
<1> QED BY <1>5, <1>6, <1>7, <1>8, <1>9, <1>10

LEMMA VaultStep ==
    ASSUME Inv, NEW v \in Vaults, Publish(v) \/ Operate(v) \/ Drained(v)
    PROVE  Inv'
<1>1. CASE Publish(v)
  <2>1. /\ sent' = Append(sent, v) /\ sent \in Seq(Vaults)
        /\ stream' = stream /\ UNCHANGED <<mode, daemon, ops>>
    BY <1>1 DEF Publish, Inv, BusInv
  <2>2. BusInv'
    BY <2>1, AppendProperties DEF Inv, BusInv
  <2>3. \A s \in Streams : Intact(Append(sent, v), stream[s])
    BY <2>1, PublishKeeps DEF Inv, StreamInv, Intact
  <2> QED BY <2>1, <2>2, <2>3 DEF Inv, StreamInv
<1>2. CASE Operate(v)
  BY <1>2 DEF Operate, Inv, BusInv, StreamInv
<1>3. CASE Drained(v)
  BY <1>3 DEF Drained, Inv, BusInv, StreamInv, Modes
<1> QED BY <1>1, <1>2, <1>3

LEMMA ShutdownStep ==
    ASSUME Inv, Stop \/ ExitCleanly \/ ExitForced
    PROVE  Inv'
<1>1. CASE Stop
  BY <1>1 DEF Stop, Inv, BusInv, StreamInv
<1>2. CASE Exit
  <2> DEFINE y(s) == [stream[s] EXCEPT !.state = IF @ = "idle" THEN @ ELSE "closed"]
  <2>1. BusInv' /\ sent' = sent /\ stream' = [s \in Streams |-> y(s)]
    BY <1>2 DEF Exit, Inv, BusInv
  <2>2. ASSUME NEW s \in Streams
        PROVE  y(s) \in StreamValues /\ Intact(sent, y(s))
    <3>1. stream[s] \in StreamValues /\ Intact(sent, stream[s])
      BY DEF Inv, StreamInv
    <3>2. CASE stream[s].state = "idle"
      <4>1. y(s) = stream[s]
        BY <3>1, <3>2 DEF StreamValues
      <4> QED BY <3>1, <4>1
    <3>3. CASE stream[s].state # "idle"
      <4>1. y(s) = [stream[s] EXCEPT !.state = "closed"]
        BY <3>3
      <4>2. y(s) \in StreamValues
        BY <3>1, <4>1 DEF StreamValues
      <4>3. sent \in Seq(Vaults)
        BY DEF Inv, BusInv
      <4> QED BY <3>1, <4>1, <4>2, <4>3, CloseKeeps DEF Intact
    <3> QED BY <3>2, <3>3
  <2> HIDE DEF y
  <2> QED BY <2>1, <2>2 DEF Inv, StreamInv
<1> QED BY <1>1, <1>2 DEF ExitCleanly, ExitForced

LEMMA InvStep ==
    ASSUME Inv, [Next]_vars
    PROVE  Inv'
<1>1. CASE UNCHANGED vars
  BY <1>1 DEF vars, Inv, BusInv, StreamInv
<1> QED BY <1>1, VaultStep, StreamStep, ShutdownStep DEF Next

LEMMA InvAlways == Spec => []Inv
<1>1. Inv /\ [Next]_vars => Inv'
  BY InvStep
<1> QED BY <1>1, InvInit, PTL DEF Spec

-----------------------------------------------------------------------------
\* The history, the cursors and the lines are well-formed, and no cursor leaves
\* the history, whatever the ring has overwritten.
THEOREM TypeCorrect == Spec => []TypeOK
<1>1. Inv => TypeOK
  BY DEF Inv, BusInv, StreamInv, Intact, Sound, TypeOK
<1> QED BY <1>1, InvAlways, PTL

\* A stream carries events of the vaults it was opened for only, whatever vaults
\* are created, resumed or published to afterwards.
THEOREM StreamsStayPinned == Spec => []OnlyPinned
<1>1. Inv => OnlyPinned
  BY DEF Inv, StreamInv, Intact, Sound, OnlyPinned
<1> QED BY <1>1, InvAlways, PTL

\* For every capacity of the bus and every backlog: the events of the vaults in
\* scope arrive in order and none twice, and wherever some are missing there is a
\* stream_lagged line in their place.
THEOREM GapsAreReported == Spec => []NoSilentGap
<1>1. Inv => NoSilentGap
  BY DEF Inv, StreamInv, Intact, Gapless, Due, NoSilentGap, Between
<1> QED BY <1>1, InvAlways, PTL
=============================================================================

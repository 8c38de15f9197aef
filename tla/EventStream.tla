---------------------------- MODULE EventStream ----------------------------
(***************************************************************************)
(* Live change events: the broadcast bus all vaults publish to, and the    *)
(* NDJSON streams that subscribers read from it, while vaults are created, *)
(* paused, resumed and terminated and the daemon shuts down.               *)
(*                                                                         *)
(* Source: src/src/events.rs, src/src/api/watch.rs, and the shutdown path  *)
(* of src/src/bin/hmnd.rs.  The bus is tokio::sync::broadcast: a ring of   *)
(* Capacity slots, a cursor per receiver, and Lagged(n) with the cursor    *)
(* moved to the oldest slot when n events were overwritten unread.         *)
(*                                                                         *)
(* Abstractions.  An event is its place in `sent`, the history of the bus; *)
(* what it says of its vault is the subject of VaultIndex.  The steps of   *)
(* pause, resume and terminate are those of ControlPlane as far as a       *)
(* subscriber can tell them apart.                                         *)
(***************************************************************************)
EXTENDS Naturals, Sequences, FiniteSets

CONSTANTS
    Vaults,      \* vault ids
    Streams,     \* watch requests, each made once
    Capacity,    \* slots of the bus (BUS_CAPACITY)
    MaxEvents,   \* bound: events published
    MaxOps       \* bound: vault operations

ASSUME CapacityAssumption == Capacity \in Nat \ {0}
ASSUME BoundAssumption    == MaxEvents \in Nat /\ MaxOps \in Nat
ASSUME VaultsAssumption   == IsFiniteSet(Vaults)

VARIABLES
    sent,     \* the vault of each event published so far
    mode,     \* what a vault is doing
    stream,   \* the watch requests
    daemon,   \* up, stopping (shutdown signalled) or exited
    ops       \* vault operations so far

vars == <<sent, mode, stream, daemon, ops>>

\* pausing: the consumer drains, the entry is still Active.  leaving: out of the
\* runner map, the consumer drains.
Modes      == {"unborn", "active", "pausing", "paused", "leaving", "gone"}
Mapped     == {v \in Vaults : mode[v] \in {"active", "pausing", "paused"}}
Active     == {v \in Vaults : mode[v] \in {"active", "pausing"}}
Publishing == {v \in Vaults : mode[v] \in {"active", "pausing", "leaving"}}

\* A line of a stream: an event, or stream_lagged with the vault it names (none
\* for watch_all) and the number of events it says were missed.
Event(e)  == [kind |-> "event", at |-> e, named |-> FALSE, missed |-> 0]
Lag(n, b) == [kind |-> "lag", at |-> 0, named |-> b, missed |-> n]

Lines == [kind : {"event", "lag"}, at : Nat, named : BOOLEAN, missed : Nat]
StreamValues ==
    [state : {"idle", "checked", "open", "closed"}, single : BOOLEAN,
     scope : SUBSET Vaults, start : Nat, next : Nat, lines : Seq(Lines)]

NoStream == [state |-> "idle", single |-> FALSE, scope |-> {},
             start |-> 0, next |-> 0, lines |-> <<>>]

Init ==
    /\ sent = <<>>
    /\ mode \in [Vaults -> {"unborn", "active", "paused"}]
    /\ stream = [s \in Streams |-> NoStream]
    /\ daemon = "up"
    /\ ops = 0

-----------------------------------------------------------------------------
(* Vaults.                                                                 *)

\* EventBus::publish neither waits nor fails.
Publish(v) ==
    /\ daemon # "exited"
    /\ v \in Publishing
    /\ Len(sent) < MaxEvents
    /\ sent' = Append(sent, v)
    /\ UNCHANGED <<mode, stream, daemon, ops>>

Transitions == {<<"unborn", "active">>, <<"paused", "active">>,
                <<"active", "pausing">>, <<"active", "leaving">>,
                <<"paused", "leaving">>}

\* create, resume, pause, terminate.
Operate(v) ==
    /\ daemon = "up"
    /\ ops < MaxOps
    /\ ops' = ops + 1
    /\ \E m \in Modes : /\ <<mode[v], m>> \in Transitions
                        /\ mode' = [mode EXCEPT ![v] = m]
    /\ UNCHANGED <<sent, stream, daemon>>

\* The consumer has drained.
Drained(v) ==
    /\ daemon # "exited"
    /\ \/ mode[v] = "pausing" /\ mode' = [mode EXCEPT ![v] = "paused"]
       \/ mode[v] = "leaving" /\ mode' = [mode EXCEPT ![v] = "gone"]
    /\ UNCHANGED <<sent, stream, daemon, ops>>

-----------------------------------------------------------------------------
(* Streams.                                                                *)

Set(s, x) == /\ stream' = [stream EXCEPT ![s] = x]
             /\ UNCHANGED <<sent, mode, daemon, ops>>

\* watch_vault resolves the vault, then wants it in active_vaults.
CheckVault(s, v) ==
    /\ daemon = "up" /\ stream[s].state = "idle"
    /\ v \in Mapped \cap Active
    /\ Set(s, [NoStream EXCEPT !.state = "checked", !.single = TRUE,
                               !.scope = {v}])

\* watch_all pins the vaults that are active now.
PinVaults(s) ==
    /\ daemon = "up" /\ stream[s].state = "idle"
    /\ Set(s, [NoStream EXCEPT !.state = "checked", !.scope = Active])

\* The receiver sees what is published from now on.
Subscribe(s) ==
    /\ daemon # "exited" /\ stream[s].state = "checked"
    /\ Set(s, [stream[s] EXCEPT !.state = "open",
                                !.start = Len(sent), !.next = Len(sent)])

\* The oldest event the ring still holds comes after this many.
Overwritten == IF Len(sent) > Capacity THEN Len(sent) - Capacity ELSE 0

Readable(s) == daemon # "exited" /\ stream[s].state = "open"

\* event_vault_matches, event_in_set.
Passes(v, x) == v \in x.scope

\* Mutant: no filter on the vault.
DeliverUnfiltered(s) ==
    LET x == stream[s] IN
    /\ Readable(s)
    /\ Overwritten <= x.next /\ x.next < Len(sent)
    /\ Set(s, [x EXCEPT !.next = @ + 1, !.lines = Append(@, Event(x.next + 1))])

\* Ok(event): written when its vault is in scope, passed over otherwise.
Deliver(s) ==
    LET x == stream[s] IN
    /\ Readable(s)
    /\ Overwritten <= x.next /\ x.next < Len(sent)
    /\ Set(s, [x EXCEPT !.next = @ + 1,
                        !.lines = IF Passes(sent[x.next + 1], x)
                                  THEN Append(@, Event(x.next + 1)) ELSE @])

\* Mutant: Lagged is skipped like an event of another vault.
LagSilently(s) ==
    LET x == stream[s] IN
    /\ Readable(s)
    /\ x.next < Overwritten
    /\ Set(s, [x EXCEPT !.next = Overwritten])

\* Mutant: Lagged is reported and the receiver stays where it was.
LagInPlace(s) ==
    LET x == stream[s] IN
    /\ Readable(s)
    /\ x.next < Overwritten
    /\ \A n \in 1 .. Len(x.lines) : n = Len(x.lines) => x.lines[n].kind = "event"
    /\ Set(s, [x EXCEPT !.lines = Append(@, Lag(Overwritten - x.next, x.single))])

\* Mutant: the receiver moves to one past the newest event.
LagTooFar(s) ==
    LET x == stream[s] IN
    /\ Readable(s)
    /\ x.next < Overwritten
    /\ Set(s, [x EXCEPT !.next = Len(sent) + 1,
                        !.lines = Append(@, Lag(Overwritten - x.next, x.single))])

\* Err(Lagged(n)): a stream_lagged line, and the stream goes on with the oldest
\* event that is left.
ReportLag(s) ==
    LET x == stream[s] IN
    /\ Readable(s)
    /\ x.next < Overwritten
    /\ Set(s, [x EXCEPT !.next = Overwritten,
                        !.lines = Append(@, Lag(Overwritten - x.next, x.single))])

\* The client goes away.
Hangup(s) ==
    /\ stream[s].state \in {"checked", "open"}
    /\ Set(s, [stream[s] EXCEPT !.state = "closed"])

-----------------------------------------------------------------------------
(* Shutdown.                                                               *)

Stop ==
    /\ daemon = "up"
    /\ daemon' = "stopping"
    /\ UNCHANGED <<sent, mode, stream, ops>>

Exit == /\ daemon' = "exited"
        /\ stream' = [s \in Streams |-> [stream[s] EXCEPT !.state =
                         IF @ = "idle" THEN @ ELSE "closed"]]
        /\ UNCHANGED <<sent, mode, ops>>

\* run_daemon awaits the HTTP server, which awaits its open responses; only then
\* is the manager dropped, and with it the bus.
ExitCleanly ==
    /\ daemon = "stopping"
    /\ \A s \in Streams : stream[s].state \notin {"checked", "open"}
    /\ Exit

\* A second signal, or the process is killed.
ExitForced == daemon # "exited" /\ Exit

Next ==
    \/ \E v \in Vaults : Publish(v) \/ Operate(v) \/ Drained(v)
    \/ \E s \in Streams :
          \/ \E v \in Vaults : CheckVault(s, v)
          \/ PinVaults(s) \/ Subscribe(s)
          \/ Deliver(s) \/ ReportLag(s) \/ Hangup(s)
    \/ Stop \/ ExitCleanly \/ ExitForced

Spec == Init /\ [][Next]_vars

-----------------------------------------------------------------------------
\* Cursors stay inside the history and every line is an event or a lag report.
TypeOK ==
    /\ sent \in Seq(Vaults)
    /\ mode \in [Vaults -> Modes]
    /\ stream \in [Streams -> StreamValues]
    /\ \A s \in Streams : /\ stream[s].start <= stream[s].next
                          /\ stream[s].next <= Len(sent)
    /\ daemon \in {"up", "stopping", "exited"}
    /\ ops \in Nat

\* The events before line n that the stream has accounted for: delivered ones, and
\* those a lag report before line n covers.
LastAt(x, n) ==
    LET seen == {m \in 1 .. n : x.lines[m].kind = "event"}
    IN  IF seen = {} THEN x.start
        ELSE x.lines[CHOOSE m \in seen : \A k \in seen : k <= m].at

Between(x, lo, hi) == {e \in lo + 1 .. hi : sent[e] \in x.scope}

LaggedSince(x, n) ==
    \E m \in 1 .. n : /\ x.lines[m].kind = "lag"
                      /\ \A k \in m .. n : x.lines[k].kind = "lag"

\* A subscriber can trust its stream: the events of its vaults arrive in the order
\* in which they were published, none twice, and wherever one is missing a
\* stream_lagged line stands in its place, however far the reader fell behind.
NoSilentGap ==
    \A s \in Streams :
        LET x == stream[s] IN
        /\ \A n \in 1 .. Len(x.lines) : x.lines[n].kind = "event" =>
              /\ LastAt(x, n - 1) < x.lines[n].at
              /\ \/ LaggedSince(x, n - 1)
                 \/ Between(x, LastAt(x, n - 1), x.lines[n].at - 1) = {}
        /\ \/ LaggedSince(x, Len(x.lines))
           \/ Between(x, LastAt(x, Len(x.lines)), x.next) = {}

\* Whatever is created, resumed or published later, a stream carries events of the
\* vaults it was opened for only.
OnlyPinned ==
    \A s \in Streams : \A n \in 1 .. Len(stream[s].lines) :
        LET l == stream[s].lines[n] IN
        l.kind = "event" => sent[l.at] \in stream[s].scope

-----------------------------------------------------------------------------
(* Liveness.                                                               *)

\* A client that reads: hyper polls its body.  The daemon makes progress.
Fairness ==
    /\ \A s \in Streams : WF_vars(Deliver(s) \/ ReportLag(s))
                          /\ WF_vars(Subscribe(s))
    /\ \A v \in Vaults : WF_vars(Drained(v))
    /\ WF_vars(ExitCleanly)

FairSpec == Spec /\ Fairness

\* A subscriber that keeps reading catches up, also after it lagged, unless it
\* hangs up or the daemon is gone.
ReadersCatchUp ==
    \A s \in Streams :
        stream[s].state = "open" ~> \/ stream[s].state = "closed"
                                    \/ stream[s].next = Len(sent)

-----------------------------------------------------------------------------
(* What the documentation says.                                            *)

\* docs/specs/change-events.md:178: "A subscriber watching a terminated vault
\* receives stream closure or a terminal control event".
TerminationCloses ==
    \A s \in Streams, v \in Vaults :
        (stream[s].state = "open" /\ stream[s].scope = {v} /\ mode[v] = "gone")
            ~> stream[s].state = "closed"

\* docs/specs/vault-management.md:190: a watch streams "until disconnect, daemon
\* shutdown, vault termination, or stream error".
ShutdownEndsStreams ==
    \A s \in Streams :
        (stream[s].state = "open" /\ daemon = "stopping")
            ~> stream[s].state = "closed"

\* docs/specs/change-events.md:141, the vault of stream_lagged: "Present when lag is
\* known to affect one vault".
NamedLagIsReal ==
    \A s \in Streams :
        LET x == stream[s] IN
        \A n \in 1 .. Len(x.lines) :
            x.lines[n].kind = "lag" /\ x.lines[n].named =>
                \E e \in x.start + 1 .. x.next :
                    /\ sent[e] \in x.scope
                    /\ \A m \in 1 .. Len(x.lines) : x.lines[m] # Event(e)
=============================================================================

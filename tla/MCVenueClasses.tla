--------------------------- MODULE MCVenueClasses ---------------------------
(***************************************************************************)
(* SourceRuntime for every venue class.  The class is drawn once, at the   *)
(* start, and fixes the constants of the runtime.                          *)
(***************************************************************************)
EXTENDS Integers, Sequences, FiniteSets

CONSTANTS k1, k2, btc

VARIABLES class, version, history, published, pending, snapped, tracked,
          subscribed, events, open, fetch, shut, outOpen, emitted, pc, outcome,
          events_done, in_flight, abandoned, replay, book, phase, buf, seeding,
          reseeds, live_orders, feed

Pairs == {btc}

Venue(model, predicate, source, keys, buffered, top) ==
    [model |-> model, predicate |-> predicate, source |-> source,
     keys |-> keys, buffered |-> buffered, top |-> top]

\* Binance, KuCoin; HTX; Bybit, OKX, Bitget, Poloniex; Kraken; Upbit,
\* Gate.io, Hyperliquid; Bitso.
Class ==
    [rest     |-> Venue("SeqDelta", "RangeInclusive", "RestSnapshot", {k1}, 2, 2),
     in_band  |-> Venue("SeqDelta", "ExactPrev", "ReqOnSocket", {k1, k2}, 2, 2),
     self     |-> Venue("SeqDelta", "RangeInclusive", "WssSelfSeed", {k1, k2}, 2, 2),
     checksum |-> Venue("ChecksumDelta", "ExactPrev", "WssSelfSeed", {k1, k2}, 2, 2),
     refresh  |-> Venue("FullRefresh", "ExactPrev", "WssSelfSeed", {k1, k2}, 2, 2),
     orders   |-> Venue("L3", "Monotonic", "RestSnapshot", {k1}, 1, 3)]

R(c) == INSTANCE SourceRuntime WITH
            Model <- Class[c].model, Predicate <- Class[c].predicate,
            Source <- Class[c].source, Keys <- Class[c].keys,
            HasSeeder <- Class[c].source = "RestSnapshot",
            MaxBuffered <- Class[c].buffered, MaxVersion <- Class[c].top,
            MaxReseeds <- 1, MaxQueue <- 2, Faults <- TRUE

vars == <<class, version, history, published, pending, snapped, tracked,
          subscribed, events, open, fetch, shut, outOpen, emitted, pc, outcome,
          events_done, in_flight, abandoned, replay, book, phase, buf, seeding,
          reseeds, live_orders, feed>>

Init == \E c \in DOMAIN Class : class = c /\ R(c)!Init

Next == \E c \in DOMAIN Class : class = c /\ R(c)!Next /\ UNCHANGED class

RuntimeStep ==
    \E c \in DOMAIN Class : class = c /\ R(c)!RuntimeStep /\ UNCHANGED class

FetchDone ==
    \E c \in DOMAIN Class : class = c /\ R(c)!FetchDone(btc) /\ UNCHANGED class

Spec == Init /\ [][Next]_vars /\ WF_vars(RuntimeStep) /\ WF_vars(FetchDone)

-----------------------------------------------------------------------------

Checked == DOMAIN Class \ {"orders"}

\* Every class whose books carry a continuity check implements the stream its
\* consumer relies on.
ImplementsStream ==
    /\ \A c \in Checked : class = c => R(c)!Service!Begin
    /\ [][\A c \in Checked :
            class = c => [R(c)!Service!Step]_(R(c)!Service!svars)]_vars

\* A shutdown request ends the task, whatever it is doing.
ShutdownEnds == shut ~> pc = "done"

\* A closed event channel ends the task: once drained, with its seeds settled.
ClosedStreamEnds == ~open ~> pc = "done"

\* A pair waiting for its seed gets its book or hands the socket back.
BufferingResolves == phase[btc] = "Buffering" ~> (phase[btc] = "Passthrough" \/ pc = "done")

=============================================================================

---------------------------- MODULE SourceRuntime ----------------------------
(***************************************************************************)
(* SourceRuntime::run (aetelier-connect/src/framework/runtime.rs): one     *)
(* task that turns the adapter's event stream and the REST seed fetches    *)
(* into reconstructed books, for every pair of one socket.                 *)
(*                                                                         *)
(* The task is the select loop (pc = "select"), the replay loop inside     *)
(* apply_seed, which awaits the output channel at every emission           *)
(* (pc = "replay"), or has returned (pc = "done").  Around it: the venue,  *)
(* whose frames may be lost, malformed or never subscribed to; the         *)
(* detached seed fetches; the shutdown signal; the output receiver.        *)
(***************************************************************************)
EXTENDS SourcedBook, Feed, Sequences, FiniteSets

CONSTANTS
    Pairs,          \* the pairs of this socket
    HasSeeder,      \* whether run() is given a RestSnapshot seeder
    MaxBuffered,    \* MAX_BUFFERED_DELTAS
    MaxReseeds,     \* MAX_RESEEDS
    Faults,         \* whether frames may be lost, malformed or over a cap
    MaxVersion,     \* bound: changes the venue makes to one book
    MaxQueue        \* bound: events waiting in the adapter channel

ASSUME RuntimeAssumption ==
    /\ IsFiniteSet(Pairs)
    /\ HasSeeder \in BOOLEAN /\ Faults \in BOOLEAN
    /\ HasSeeder => needs_rest  \* the worker builds one for REST venues only
    /\ MaxBuffered \in Nat \ {0}
    /\ MaxReseeds \in Nat
    /\ MaxVersion \in Nat
    /\ MaxQueue \in Nat

VARIABLES
    \* the venue, per pair
    version,    \* how many changes its book has seen
    history,    \* the book at every version so far
    published,  \* last version a frame covered
    pending,    \* changes since then
    snapped,    \* whether the in-band snapshot went out
    tracked,    \* the adapter's sequence sentinel: "none", "ok" or "hole"
    subscribed, \* whether the socket receives frames yet
    \* channels
    events,     \* adapter -> runtime
    open,       \* whether the adapter still holds its sender
    fetch,      \* per pair: "idle", "flying", or the result awaiting recv
    shut,       \* the shutdown watch
    outOpen,    \* whether the output receiver is alive
    emitted,    \* last book sent per pair: its id and content
    \* the runtime task
    pc, outcome, events_done, in_flight, abandoned, replay,
    book, phase, buf, seeding, reseeds, live_orders, feed

venueVars   == <<version, history, published, pending, snapped,
                 tracked, subscribed>>
channelVars == <<open, shut, outOpen>>
pairVars    == <<book, phase, buf>>
seedVars    == <<fetch, seeding, reseeds, in_flight>>
feedVars    == <<live_orders, feed>>
loopVars    == <<pc, outcome, events_done, abandoned, replay>>
vars == <<venueVars, channelVars, events, emitted, pairVars, seedVars,
          feedVars, loopVars>>

can_reseed == HasSeeder

NoReplay == [rest |-> <<>>]

awaits_in_band_seed == seeds_out_of_band /\ ~needs_rest

-----------------------------------------------------------------------------
(* The venue (external).                                                   *)

Truth(p) == history[p][version[p]]

VenueBooks(p) == {history[p][v] : v \in DOMAIN history[p]}

SnapshotFrame(p, v, bad) ==
    [is_snapshot |-> TRUE, sequence |-> v,
     update_id |-> IF Model = "L3" THEN 0 ELSE v,
     levels |-> history[p][v], checksum |-> NoSum, bad |-> bad]

DeltaFrame(p, sum, bad) ==
    [is_snapshot |-> FALSE,
     sequence |-> CASE Predicate = "RangeInclusive" -> published[p] + 1
                    [] Predicate = "ExactPrev"      -> published[p]
                    [] Predicate = "Monotonic"      -> version[p],
     update_id |-> version[p],
     levels |-> IF Model = "FullRefresh" THEN Truth(p) ELSE pending[p],
     checksum |-> sum, bad |-> bad]

Checksums(p) == IF Model = "ChecksumDelta" THEN {Truth(p), NoSum} ELSE {NoSum}

Faulty == IF Faults THEN BOOLEAN ELSE {FALSE}

\* The versions the snapshot endpoint may serve: it can lag behind the book.
Served(p) == IF Faults THEN 0..version[p] ELSE {version[p]}

BookEvent(p, f) == [kind |-> "Book", pair |-> p, delta |-> f]
GapEvent == [kind |-> "ConnectionGap"]

\* One level (or order) of the venue's book changes.
VenueChange(p, k) ==
    /\ version[p] < MaxVersion
    /\ LET v == version[p] + 1 IN
         /\ version' = [version EXCEPT ![p] = v]
         /\ history' = [history EXCEPT ![p] =
                [u \in 0..v |-> IF u < v THEN history[p][u]
                                ELSE [Truth(p) EXCEPT ![k] = v]]]
         /\ pending' = [pending EXCEPT ![p][k] = v]
    /\ UNCHANGED <<published, snapped, tracked, subscribed, channelVars,
                   events, emitted, pairVars, seedVars, feedVars, loopVars>>

\* A venue with a sequence sentinel in its adapter (Bitso per book; Coinbase
\* per connection, where confirmation is debounced to some later frame).
Sentinel == Model = "L3" \/ (Model = "SeqDelta" /\ Predicate = "Monotonic")

\* The changes since the last frame go out as one frame: not sent when the
\* socket is not subscribed yet, lost on the way, or delivered, in which case
\* a sentinel that sees a hole puts a ConnectionGap ahead of it.
VenuePublish(p) ==
    /\ published[p] < version[p]
    /\ (subscribed /\ ~seeds_out_of_band /\ Model # "FullRefresh") => snapped[p]
    /\ \/ ~subscribed /\ UNCHANGED <<events, tracked>>
       \/ /\ subscribed /\ open /\ Faults
          /\ tracked' = IF tracked[p] = "ok"
                        THEN [tracked EXCEPT ![p] = "hole"] ELSE tracked
          /\ UNCHANGED events
       \/ /\ subscribed /\ open
          /\ Len(events) < MaxQueue
          /\ \E bad \in Faulty, confirmed \in BOOLEAN, sum \in Checksums(p) :
               /\ confirmed => tracked[p] = "hole"
               /\ (tracked[p] = "hole" /\ Model = "L3") => confirmed
               /\ events' = events
                    \o (IF confirmed THEN <<GapEvent>> ELSE <<>>)
                    \o <<BookEvent(p, DeltaFrame(p, sum, bad))>>
               /\ tracked' = [tracked EXCEPT ![p] =
                    IF ~Sentinel THEN "none"
                    ELSE IF tracked[p] = "hole" /\ ~confirmed THEN "hole"
                    ELSE "ok"]
    /\ published' = [published EXCEPT ![p] = version[p]]
    /\ pending' = [pending EXCEPT ![p] = Empty]
    /\ UNCHANGED <<version, history, snapped, subscribed, channelVars, emitted,
                   pairVars, seedVars, feedVars, loopVars>>

\* The in-band snapshot: first frame of a self-seeding stream, or the answer to
\* the request an adapter such as HTX sends after subscribing.
VenueSnapshot(p) ==
    /\ subscribed /\ open /\ ~needs_rest
    /\ snapped[p] => ~seeds_out_of_band
    /\ Model # "FullRefresh"
    /\ snapped' = [snapped EXCEPT ![p] = TRUE]
    /\ \/ Faults /\ UNCHANGED events
       \/ /\ Len(events) < MaxQueue
          /\ \E bad \in Faulty,
                v \in IF seeds_out_of_band THEN Served(p) ELSE {published[p]} :
               events' = Append(events, BookEvent(p, SnapshotFrame(p, v, bad)))
    /\ UNCHANGED <<version, history, published, pending, tracked, subscribed,
                   channelVars, emitted, pairVars, seedVars, feedVars, loopVars>>

Subscribe ==
    /\ ~subscribed /\ open
    /\ subscribed' = TRUE
    /\ UNCHANGED <<version, history, published, pending, snapped, tracked,
                   channelVars, events, emitted, pairVars, seedVars, feedVars,
                   loopVars>>

\* The adapter task ends and drops its sender.
AdapterExit ==
    /\ open /\ open' = FALSE
    /\ UNCHANGED <<shut, outOpen, venueVars, events, emitted, pairVars,
                   seedVars, feedVars, loopVars>>

Shutdown ==
    /\ ~shut /\ shut' = TRUE
    /\ UNCHANGED <<open, outOpen, venueVars, events, emitted, pairVars,
                   seedVars, feedVars, loopVars>>

\* The worker leaves its receive loop.
DropReceiver ==
    /\ outOpen /\ outOpen' = FALSE
    /\ UNCHANGED <<open, shut, venueVars, events, emitted, pairVars, seedVars,
                   feedVars, loopVars>>

\* spawn_seed's task: the GET answers with what the endpoint serves, or fails.
FetchDone(p) ==
    /\ fetch[p].status = "flying"
    /\ \/ Faults /\ fetch' = [fetch EXCEPT ![p] = [status |-> "failed"]]
       \/ \E bad \in Faulty, v \in Served(p) :
            fetch' = [fetch EXCEPT ![p] =
                [status |-> "ready", seed |-> SnapshotFrame(p, v, bad)]]
    /\ UNCHANGED <<seeding, reseeds, in_flight, venueVars, channelVars, events,
                   emitted, pairVars, feedVars, loopVars>>

\* Nothing around a task that has returned matters to it any more.
Environment ==
  /\ pc # "done"
  /\ \/ \E p \in Pairs : \/ \E k \in Keys : VenueChange(p, k)
                          \/ VenuePublish(p)
                          \/ VenueSnapshot(p)
                          \/ FetchDone(p)
     \/ Subscribe
     \/ AdapterExit
     \/ Shutdown
     \/ DropReceiver

-----------------------------------------------------------------------------
(* Pieces of the handlers.                                                 *)

\* Leaving the loop by `break`: fetches still in flight are abandoned and
\* counted.  A failed send returns at once and counts nothing.
Break(out) ==
    /\ pc' = "done" /\ outcome' = out /\ abandoned' = in_flight'
    /\ UNCHANGED <<events_done, replay>>

SendFailed ==
    /\ ~outOpen
    /\ pc' = "done" /\ outcome' = "Finished"
    /\ UNCHANGED <<events_done, abandoned, replay>>

Continue == UNCHANGED loopVars

emit_book(p, b) ==
    /\ outOpen
    /\ emitted' = [emitted EXCEPT ![p] = [id |-> b.last, content |-> b.content]]

\* The feed set is touched only on the first data since the pair left live_orders.
note_live(p) ==
    /\ live_orders' = live_orders \cup {p}
    /\ feed' = IF p \in live_orders THEN feed
               ELSE [feed EXCEPT ![p] = mark_live(@)]

\* Mutant: a gap is not recorded on the feed set.
note_resubscribing_silent(p) == UNCHANGED feedVars

note_resubscribing(p) ==
    /\ live_orders' = live_orders \ {p}
    /\ feed' = [feed EXCEPT ![p] = mark_resubscribing(@)]

\* Mutant: a spawned fetch is not counted.
request_reseed_uncounted(p, s, f, n) ==
    IF HasSeeder /\ ~s[p] /\ reseeds[p] < MaxReseeds
    THEN /\ seeding'   = [s EXCEPT ![p] = TRUE]
         /\ fetch'     = [f EXCEPT ![p] = [status |-> "flying"]]
         /\ reseeds'   = [reseeds EXCEPT ![p] = @ + 1]
         /\ in_flight' = n
    ELSE seeding' = s /\ fetch' = f /\ in_flight' = n /\ UNCHANGED reseeds

\* request_reseed, on top of the seeding flags `s`, fetches `f` and count `n`
\* the handler has reached.
request_reseed(p, s, f, n) ==
    IF HasSeeder /\ ~s[p] /\ reseeds[p] < MaxReseeds
    THEN /\ seeding'   = [s EXCEPT ![p] = TRUE]
         /\ fetch'     = [f EXCEPT ![p] = [status |-> "flying"]]
         /\ reseeds'   = [reseeds EXCEPT ![p] = @ + 1]
         /\ in_flight' = n + 1
    ELSE seeding' = s /\ fetch' = f /\ in_flight' = n /\ UNCHANGED reseeds

no_reseed(s, f, n) ==
    seeding' = s /\ fetch' = f /\ in_flight' = n /\ UNCHANGED reseeds

may_reseed(p) == can_reseed /\ reseeds[p] < MaxReseeds

SetBook(p, b) == book' = [book EXCEPT ![p] = b]

\* apply_seed up to its replay loop, for a seed that came with the seeding
\* state s, f, n.  The snapshot is applied; if that fails the buffer is kept
\* and another seed requested while the budget lasts; otherwise the book is
\* emitted, the pair passes through, and what it buffered is to be replayed.
apply_seed(p, seed, s, f, n) ==
    \E r \in apply(book[p], seed, VenueBooks(p)) :
        /\ SetBook(p, r.book)
        /\ \/ /\ ~r.ok /\ may_reseed(p)
              /\ request_reseed(p, s, f, n)
              /\ note_resubscribing(p)
              /\ Continue
              /\ UNCHANGED <<phase, buf, emitted>>
           \/ /\ ~r.ok /\ ~may_reseed(p)
              /\ no_reseed(s, f, n)
              /\ Break("ResyncRequired")
              /\ UNCHANGED <<phase, buf, emitted, feedVars>>
           \/ /\ r.ok /\ emit_book(p, r.book)
              /\ phase' = [phase EXCEPT ![p] = "Passthrough"]
              /\ buf' = [buf EXCEPT ![p] = <<>>]
              /\ replay' = [pair |-> p, snap_id |-> seed.update_id,
                            rest |-> buf[p]]
              /\ pc' = "replay"
              /\ no_reseed(s, f, n)
              /\ UNCHANGED <<outcome, events_done, abandoned, feedVars>>
           \/ /\ r.ok /\ SendFailed
              /\ no_reseed(s, f, n)
              /\ UNCHANGED <<phase, buf, emitted, feedVars>>

\* Mutant: the cap on the seed buffer is forgotten.
newest_uncapped(q) == q

\* At most MaxBuffered of the newest deltas.
newest(q) == IF Len(q) > MaxBuffered
             THEN SubSeq(q, Len(q) - MaxBuffered + 1, Len(q)) ELSE q

-----------------------------------------------------------------------------
(* The select loop.  It is biased: shutdown, then events, then seed        *)
(* results, then the in-band seed deadline.                                *)

Selecting == pc = "select" /\ ~shut /\ ~(events_done /\ in_flight = 0)

\* events.recv() would answer at once: with an event, or with the end of the
\* stream.
EventsReady == ~events_done /\ (events # <<>> \/ ~open)

\* Mutant: shutdown waits for the fetches in flight, which it no longer polls.
HandleShutdown_settled ==
    /\ pc = "select" /\ shut /\ ~(events_done /\ in_flight = 0)
    /\ UNCHANGED <<venueVars, channelVars, events, emitted, pairVars, seedVars,
                   feedVars>>
    /\ IF in_flight = 0 THEN Break("Finished") ELSE UNCHANGED loopVars

HandleShutdown ==
    /\ pc = "select" /\ shut /\ ~(events_done /\ in_flight = 0)
    /\ UNCHANGED <<venueVars, channelVars, events, emitted, pairVars, seedVars,
                   feedVars>>
    /\ Break("Finished")

\* The loop's own exit test.
LoopEnds ==
    /\ pc = "select" /\ events_done /\ in_flight = 0
    /\ UNCHANGED <<venueVars, channelVars, events, emitted, pairVars, seedVars,
                   feedVars>>
    /\ Break("Finished")

\* Mutant: the end of the event channel is ignored.
EventsClosed_ignored ==
    /\ Selecting /\ ~events_done /\ ~open /\ events = <<>>
    /\ UNCHANGED vars

EventsClosed ==
    /\ Selecting /\ ~events_done /\ ~open /\ events = <<>>
    /\ events_done' = TRUE
    /\ UNCHANGED <<venueVars, channelVars, events, emitted, pairVars, seedVars,
                   feedVars, pc, outcome, abandoned, replay>>

\* The next event is a frame of pair p.
RecvBook(p) ==
    /\ Selecting /\ ~events_done /\ events # <<>>
    /\ Head(events).kind = "Book" /\ Head(events).pair = p
    /\ events' = Tail(events)
    /\ UNCHANGED <<venueVars, channelVars>>

delta == Head(events).delta

\* A snapshot on the stream seeds a pair that is still buffering.
RecvSeed(p) ==
    /\ RecvBook(p)
    /\ delta.is_snapshot /\ phase[p] = "Buffering"
    /\ apply_seed(p, delta, seeding, fetch, in_flight)

BufferDelta(p) ==
    /\ RecvBook(p)
    /\ ~delta.is_snapshot /\ phase[p] = "Buffering"
    /\ buf' = [buf EXCEPT ![p] = newest(Append(@, delta))]
    /\ UNCHANGED <<emitted, book, phase, seedVars, feedVars, loopVars>>

\* A frame for a pair that passes through: applied and emitted; or it gaps the
\* book, which is re-seeded from REST while the budget lasts and otherwise
\* hands the socket back to the caller.
ApplyDelta(p) ==
    /\ RecvBook(p)
    /\ phase[p] = "Passthrough"
    /\ \E r \in apply(book[p], delta, VenueBooks(p)) :
         /\ SetBook(p, r.book)
         /\ \/ /\ r.ok /\ emit_book(p, r.book)
               /\ note_live(p) /\ Continue
               /\ UNCHANGED <<phase, buf, seedVars>>
            \/ /\ r.ok /\ SendFailed
               /\ UNCHANGED <<phase, buf, seedVars, emitted, feedVars>>
            \/ /\ ~r.ok /\ may_reseed(p)
               /\ phase' = [phase EXCEPT ![p] = "Buffering"]
               /\ buf' = [buf EXCEPT ![p] = <<delta>>]
               /\ note_resubscribing(p)
               /\ request_reseed(p, seeding, fetch, in_flight)
               /\ Continue /\ UNCHANGED emitted
            \/ /\ ~r.ok /\ ~may_reseed(p)
               /\ UNCHANGED <<phase, buf, seedVars, emitted, feedVars>>
               /\ Break("ResyncRequired")

\* The adapter proved that messages were dropped: every book is suspect.
RecvConnectionGap ==
    /\ Selecting /\ ~events_done /\ events # <<>>
    /\ Head(events).kind = "ConnectionGap"
    /\ events' = Tail(events)
    /\ book' = [p \in Pairs |-> force_gap(book[p])]
    /\ phase' = [p \in Pairs |-> "Passthrough"]
    /\ buf' = [p \in Pairs |-> <<>>]
    /\ UNCHANGED <<venueVars, channelVars, emitted, seedVars, feedVars>>
    /\ Break("ResyncRequired")

\* A seed fetch reports.  Events are polled first, so only with none waiting.
RecvSeedResult(p) ==
    /\ Selecting /\ ~EventsReady
    /\ fetch[p].status \in {"ready", "failed"}
    /\ UNCHANGED <<venueVars, channelVars, events>>

SeedReady(p) ==
    /\ RecvSeedResult(p) /\ fetch[p].status = "ready"
    /\ apply_seed(p, fetch[p].seed, [seeding EXCEPT ![p] = FALSE],
                  [fetch EXCEPT ![p] = [status |-> "idle"]], in_flight - 1)

\* Mutant: after a failed fetch recovery waits for the next delta.
SeedFailed_waits(p) ==
    /\ RecvSeedResult(p) /\ fetch[p].status = "failed"
    /\ no_reseed([seeding EXCEPT ![p] = FALSE],
                 [fetch EXCEPT ![p] = [status |-> "idle"]], in_flight - 1)
    /\ Continue
    /\ UNCHANGED <<emitted, pairVars, feedVars>>

\* A failed fetch keeps the buffer and is retried on a delay while the budget
\* lasts; then the socket goes back to the caller.
SeedFailed(p) ==
    /\ RecvSeedResult(p) /\ fetch[p].status = "failed"
    /\ LET s == [seeding EXCEPT ![p] = FALSE]
           f == [fetch EXCEPT ![p] = [status |-> "idle"]]
       IN  \/ /\ reseeds[p] < MaxReseeds
              /\ request_reseed(p, s, f, in_flight - 1)
              /\ Continue
           \/ /\ ~(reseeds[p] < MaxReseeds)
              /\ no_reseed(s, f, in_flight - 1)
              /\ Break("ResyncRequired")
    /\ UNCHANGED <<emitted, pairVars, feedVars>>

\* Mutant: no deadline on the in-band snapshot.
InBandSeedExpired_never == FALSE /\ UNCHANGED vars

\* The tick that finds a pair still waiting for its in-band snapshot past
\* IN_BAND_SEED_DEADLINE.
InBandSeedExpired ==
    /\ Selecting /\ ~EventsReady /\ awaits_in_band_seed
    /\ \E p \in Pairs : phase[p] = "Buffering"
    /\ UNCHANGED <<venueVars, channelVars, events, emitted, pairVars, seedVars,
                   feedVars>>
    /\ Break("ResyncRequired")

-----------------------------------------------------------------------------
(* The replay loop of apply_seed, one buffered delta a step.               *)

Replaying(p) ==
    /\ pc = "replay" /\ replay.pair = p
    /\ UNCHANGED <<venueVars, channelVars, events>>

next == Head(replay.rest)

ReplayNext == replay' = [replay EXCEPT !.rest = Tail(@)]

\* Covered by the snapshot.
ReplaySkip(p) ==
    /\ Replaying(p) /\ replay.rest # <<>>
    /\ next.update_id <= replay.snap_id
    /\ ReplayNext
    /\ UNCHANGED <<emitted, pairVars, seedVars, feedVars, pc, outcome,
                   events_done, abandoned>>

\* Applied and emitted; or it gaps the book, and the delta with the un-replayed
\* tail waits for another seed while the budget lasts.  Either way the pair was
\* seeded, so it is noted live before it is noted resubscribing.
ReplayApply(p) ==
    /\ Replaying(p) /\ replay.rest # <<>>
    /\ next.update_id > replay.snap_id
    /\ \E r \in apply(book[p], next, VenueBooks(p)) :
         /\ SetBook(p, r.book)
         /\ \/ /\ r.ok /\ emit_book(p, r.book)
               /\ ReplayNext
               /\ UNCHANGED <<phase, buf, seedVars, feedVars, pc, outcome,
                              events_done, abandoned>>
            \/ /\ r.ok /\ SendFailed
               /\ UNCHANGED <<phase, buf, seedVars, emitted, feedVars>>
            \/ /\ ~r.ok /\ may_reseed(p)
               /\ phase' = [phase EXCEPT ![p] = "Buffering"]
               /\ buf' = [buf EXCEPT ![p] = newest(replay.rest)]
               /\ live_orders' = live_orders \ {p}
               /\ feed' = [feed EXCEPT ![p] = mark_resubscribing(
                            IF p \in live_orders THEN @ ELSE mark_live(@))]
               /\ request_reseed(p, seeding, fetch, in_flight)
               /\ pc' = "select" /\ replay' = NoReplay
               /\ UNCHANGED <<emitted, outcome, events_done, abandoned>>
            \/ /\ ~r.ok /\ ~may_reseed(p)
               /\ UNCHANGED <<phase, buf, seedVars, emitted>>
               /\ note_live(p)
               /\ Break("ResyncRequired")

\* The buffer is exhausted: a clean reconcile, which refills the budget.
ReplayDone(p) ==
    /\ Replaying(p) /\ replay.rest = <<>>
    /\ reseeds' = [reseeds EXCEPT ![p] = 0]
    /\ note_live(p)
    /\ pc' = "select" /\ replay' = NoReplay
    /\ UNCHANGED <<emitted, pairVars, fetch, seeding, in_flight, outcome,
                   events_done, abandoned>>

-----------------------------------------------------------------------------

\* One turn of the task, which takes none once it has returned.
RuntimeStep ==
    /\ pc # "done"
    /\ \/ HandleShutdown
       \/ LoopEnds
       \/ EventsClosed
       \/ RecvConnectionGap
       \/ InBandSeedExpired
       \/ \E p \in Pairs : \/ RecvSeed(p)
                          \/ BufferDelta(p)
                          \/ ApplyDelta(p)
                          \/ SeedReady(p)
                          \/ SeedFailed(p)
                          \/ ReplaySkip(p)
                          \/ ReplayApply(p)
                          \/ ReplayDone(p)

Returned == pc = "done" /\ UNCHANGED vars

Init ==
    /\ version = [p \in Pairs |-> 0]
    /\ history = [p \in Pairs |-> [v \in 0..0 |-> Empty]]
    /\ published = [p \in Pairs |-> 0]
    /\ pending = [p \in Pairs |-> Empty]
    /\ snapped = [p \in Pairs |-> FALSE]
    /\ tracked = [p \in Pairs |-> "none"]
    /\ subscribed = FALSE
    /\ events = <<>> /\ open = TRUE /\ shut = FALSE /\ outOpen = TRUE
    /\ emitted = [p \in Pairs |-> [id |-> NoId, content |-> Empty]]
    /\ pc = "select" /\ outcome = "none" /\ events_done = FALSE
    /\ abandoned = 0 /\ replay = NoReplay
    /\ book = [p \in Pairs |-> NewBook]
    /\ phase = [p \in Pairs |-> IF seeds_out_of_band /\ (needs_rest => HasSeeder)
                                THEN "Buffering" ELSE "Passthrough"]
    /\ buf = [p \in Pairs |-> <<>>]
    /\ seeding = [p \in Pairs |-> needs_rest /\ HasSeeder]
    /\ fetch = [p \in Pairs |-> [status |-> IF needs_rest /\ HasSeeder
                                            THEN "flying" ELSE "idle"]]
    /\ in_flight = IF needs_rest /\ HasSeeder THEN Cardinality(Pairs) ELSE 0
    /\ reseeds = [p \in Pairs |-> 0]
    /\ live_orders = {}
    /\ feed = [p \in Pairs |-> "Subscribing"]

Next == Environment \/ RuntimeStep \/ Returned

\* The runtime task is polled while it can run, and a fetch has an HTTP timeout.
Fairness == WF_vars(RuntimeStep) /\ \A p \in Pairs : WF_vars(FetchDone(p))

Spec == Init /\ [][Next]_vars /\ Fairness

-----------------------------------------------------------------------------
(* Properties.                                                             *)

Fetches == [status : {"idle", "flying", "failed"}]
           \cup [status : {"ready"}, seed : Frames]

Events == [kind : {"Book"}, pair : Pairs, delta : Frames]
          \cup [kind : {"ConnectionGap"}]

\* Every field of the runtime keeps its type; the buffer keeps its cap and the
\* re-seed counter its budget.
TypeOK ==
    /\ version \in [Pairs -> Nat] /\ published \in [Pairs -> Nat]
    /\ pending \in [Pairs -> Contents]
    /\ \A p \in Pairs : history[p] \in [0..version[p] -> Contents]
    /\ events \in Seq(Events)
    /\ fetch \in [Pairs -> Fetches]
    /\ emitted \in [Pairs -> [id : Nat \cup {NoId}, content : Contents]]
    /\ pc \in {"select", "replay", "done"}
    /\ outcome \in {"none", "Finished", "ResyncRequired"}
    /\ in_flight \in Nat /\ abandoned \in Nat
    /\ events_done \in BOOLEAN
    /\ pc = "replay" => replay \in [pair : Pairs, snap_id : Nat, rest : Seq(Frames)]
    /\ book \in [Pairs -> Books]
    /\ phase \in [Pairs -> {"Buffering", "Passthrough"}]
    /\ buf \in [Pairs -> Seq(Frames)]
    /\ \A p \in Pairs : Len(buf[p]) <= MaxBuffered
    /\ seeding \in [Pairs -> BOOLEAN]
    /\ reseeds \in [Pairs -> 0..MaxReseeds]
    /\ live_orders \subseteq Pairs
    /\ feed \in [Pairs -> FeedStates]

\* `in_flight`, whose zero ends the loop and whose rest is reported abandoned,
\* counts exactly the pairs flagged `seeding`, and each of those has one fetch
\* running or waiting to be received: never two, never none.
SeedAccounting ==
    /\ in_flight = Cardinality({p \in Pairs : seeding[p]})
    /\ \A p \in Pairs : seeding[p] <=> fetch[p].status # "idle"

\* "A quiet stream must not strand an unseeded book": on a REST-seeded venue a
\* pair buffers exactly while a seed for it is on the way, so no seed can reach
\* a book that already passes through and rewind it.
NeverStranded ==
    (pc = "select" /\ needs_rest /\ HasSeeder) =>
        \A p \in Pairs : phase[p] = "Buffering" <=> seeding[p]

\* Between two turns of the loop a pair shows Live exactly when its book is
\* continuous and deltas go straight to it.
LiveFeedSynced ==
    pc = "select" => \A p \in Pairs :
        feed[p] = "Live" <=> phase[p] = "Passthrough" /\ book[p].state = "Synced"

\* Every book the runtime emitted is the venue's own book at the id it carries,
\* whatever was lost, duplicated by the seed overlap, malformed or late.
EmittedExact ==
    \A p \in Pairs : emitted[p].id # NoId =>
        /\ emitted[p].id \in DOMAIN history[p]
        /\ emitted[p].content = history[p][emitted[p].id]

\* Whatever a Bitso pair emits is a book the venue had at some moment: "we
\* subscribe before fetching, so buffered diffs are post-snapshot".
L3EmitsVenueBook ==
    \A p \in Pairs : emitted[p].content \in VenueBooks(p)

\* The feed state machine only takes edges of its published graph: the marks
\* never trip the debug_assert of Feed::transition.
FeedEdgesLegal ==
    [][\A p \in Pairs : feed'[p] # feed[p] =>
            can_transition_to(feed[p], feed'[p])]_vars

\* The runtime implements the stream its consumer relies on.
BookIsLive == [p \in Pairs |-> phase[p] = "Passthrough" /\ book[p].state = "Synced"]

Service == INSTANCE BookStream WITH served <- emitted, live <- BookIsLive,
                                    over <- (pc = "done")

=============================================================================

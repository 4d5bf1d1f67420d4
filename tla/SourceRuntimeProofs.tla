------------------------- MODULE SourceRuntimeProofs -------------------------
(***************************************************************************)
(* The steps of SourceRuntime keep the types, the seed accounting and the  *)
(* recovery of each pair, for any pairs, keys, bounds and budgets.  The    *)
(* theorems drawn from these lemmas are in SourceRuntimeExact.             *)
(***************************************************************************)
EXTENDS SourceRuntime, TLAPS

USE SMTT(20), ZenonT(20)

-----------------------------------------------------------------------------
(* Types and the accounting of seed fetches.  TypeOK is not inductive on   *)
(* its own: that in_flight never drops below zero needs SeedAccounting.    *)

\* The venue's past, as a function.
HistoryOK ==
    /\ history \in [Pairs -> UNION {[0..n -> Contents] : n \in Nat}]
    /\ \A p \in Pairs : published[p] <= version[p]

TypeInv == TypeOK /\ HistoryOK /\ SeedAccounting

\* TypeOK by the part of the handler that touches it.
SeedOK(s, f, n) ==
    /\ s \in [Pairs -> BOOLEAN] /\ f \in [Pairs -> Fetches] /\ n \in Nat
    /\ n = Cardinality({q \in Pairs : s[q]})
    /\ \A q \in Pairs : s[q] <=> f[q].status # "idle"

SeedInv == SeedOK(seeding, fetch, in_flight) /\ reseeds \in [Pairs -> 0..MaxReseeds]

PairInv ==
    /\ book \in [Pairs -> Books]
    /\ phase \in [Pairs -> {"Buffering", "Passthrough"}]
    /\ buf \in [Pairs -> Seq(Frames)]
    /\ \A p \in Pairs : Len(buf[p]) <= MaxBuffered

FeedInv == live_orders \subseteq Pairs /\ feed \in [Pairs -> FeedStates]

EmitInv == emitted \in [Pairs -> [id : Nat \cup {NoId}, content : Contents]]

LoopInv ==
    /\ pc \in {"select", "replay", "done"}
    /\ outcome \in {"none", "Finished", "ResyncRequired"}
    /\ abandoned \in Nat /\ events_done \in BOOLEAN
    /\ pc = "replay" => replay \in [pair : Pairs, snap_id : Nat, rest : Seq(Frames)]

VenueInv ==
    /\ version \in [Pairs -> Nat] /\ published \in [Pairs -> Nat]
    /\ pending \in [Pairs -> Contents]
    /\ \A p \in Pairs : history[p] \in [0..version[p] -> Contents]
    /\ HistoryOK

EventInv == events \in Seq(Events)

Parts == /\ VenueInv /\ EventInv /\ SeedInv /\ PairInv /\ FeedInv /\ EmitInv
         /\ LoopInv

LEMMA TypeParts == (TypeInv <=> Parts) /\ (TypeInv' <=> Parts')
BY Zenon DEF Parts, TypeInv, TypeOK, HistoryOK, SeedAccounting, SeedOK, SeedInv, PairInv,
       FeedInv, EmitInv, LoopInv, VenueInv, EventInv

LEMMA SeqGrows ==
    ASSUME NEW S, NEW q \in Seq(S), NEW e \in S
    PROVE  Append(q, e) \in Seq(S) /\ Len(Append(q, e)) = Len(q) + 1
OBVIOUS

LEMMA SeqHead ==
    ASSUME NEW S, NEW q \in Seq(S), q # <<>>
    PROVE  Head(q) \in S /\ Tail(q) \in Seq(S)
OBVIOUS

\* Flagging a pair adds one to the number of flagged pairs, and clearing one takes one
\* off.  A hypothesis of the lemmas that need it, which Counted (SourceRuntimeExact)
\* proves from the library of finite sets.
Flagged(s) == Cardinality({q \in Pairs : s[q]})

Counting ==
    /\ \A s \in [Pairs -> BOOLEAN], p \in Pairs :
         ~s[p] => Flagged([s EXCEPT ![p] = TRUE]) = Flagged(s) + 1
    /\ \A s \in [Pairs -> BOOLEAN], p \in Pairs :
         s[p] => Flagged([s EXCEPT ![p] = FALSE]) = Flagged(s) - 1 /\ Flagged(s) \in Nat \ {0}
    /\ Cardinality(Pairs) \in Nat /\ Cardinality({}) = 0

\* Receiving a fetch result settles that pair's flag, fetch and count together.
LEMMA Settled ==
    ASSUME Counting, SeedInv, NEW p \in Pairs, fetch[p].status \in {"ready", "failed"}
    PROVE  SeedOK([seeding EXCEPT ![p] = FALSE],
                  [fetch EXCEPT ![p] = [status |-> "idle"]], in_flight - 1)
<1>1. seeding[p]
  BY DEF SeedInv, SeedOK
<1>2. [status |-> "idle"] \in Fetches
  BY DEF Fetches
<1>3. Flagged([seeding EXCEPT ![p] = FALSE]) = in_flight - 1 /\ in_flight \in Nat \ {0}
  <2>1. seeding \in [Pairs -> BOOLEAN] /\ in_flight = Flagged(seeding)
    BY Zenon DEF SeedInv, SeedOK, Flagged
  <2> QED BY <1>1, <2>1, Zenon DEF Counting
<1>4. in_flight - 1 \in Nat
  BY <1>3
<1>5. in_flight - 1 = Cardinality({q \in Pairs : [seeding EXCEPT ![p] = FALSE][q]})
  BY <1>3 DEF Flagged
<1> QED BY <1>2, <1>4, <1>5 DEF SeedInv, SeedOK

\* request_reseed starts at most one fetch per pair and counts it.
LEMMA Requested ==
    ASSUME Counting, NEW s, NEW f, NEW n, SeedOK(s, f, n), NEW p \in Pairs,
           reseeds \in [Pairs -> 0..MaxReseeds],
           request_reseed(p, s, f, n)
    PROVE  SeedInv'
<1>1. CASE HasSeeder /\ ~s[p] /\ reseeds[p] < MaxReseeds
  <2>1. [status |-> "flying"] \in Fetches
    BY DEF Fetches
  <2>2. Cardinality({q \in Pairs : [s EXCEPT ![p] = TRUE][q]}) = n + 1
    BY <1>1 DEF SeedOK, Counting, Flagged
  <2>3. reseeds' \in [Pairs -> 0..MaxReseeds]
    BY <1>1, RuntimeAssumption DEF request_reseed, RuntimeAssumption
  <2>4. /\ seeding' = [s EXCEPT ![p] = TRUE]
        /\ fetch' = [f EXCEPT ![p] = [status |-> "flying"]]
        /\ in_flight' = n + 1
    BY <1>1 DEF request_reseed
  <2>5. /\ seeding' \in [Pairs -> BOOLEAN] /\ fetch' \in [Pairs -> Fetches]
        /\ in_flight' \in Nat
    BY <2>1, <2>4 DEF SeedOK
  <2>6. in_flight' = Cardinality({q \in Pairs : seeding'[q]})
    BY <2>2, <2>4
  <2>7. ASSUME NEW q \in Pairs
        PROVE  seeding'[q] <=> fetch'[q].status # "idle"
    <3>1. CASE q = p
      BY <2>4, <3>1 DEF SeedOK
    <3>2. CASE q # p
      BY <2>4, <3>2 DEF SeedOK
    <3> QED BY <3>1, <3>2
  <2> QED BY <2>3, <2>5, <2>6, <2>7 DEF SeedInv, SeedOK
<1>2. CASE ~(HasSeeder /\ ~s[p] /\ reseeds[p] < MaxReseeds)
  BY <1>2 DEF request_reseed, SeedInv, SeedOK
<1> QED BY <1>1, <1>2

LEMMA NotRequested ==
    ASSUME NEW s, NEW f, NEW n, SeedOK(s, f, n),
           reseeds \in [Pairs -> 0..MaxReseeds], no_reseed(s, f, n)
    PROVE  SeedInv'
BY DEF no_reseed, SeedInv, SeedOK

-----------------------------------------------------------------------------
(* What applying a frame returns.                                          *)

\* An Ok result is a Synced book at the frame's id, an Err a Gapped one.
Outcome(r, d) ==
    /\ r.book \in Books /\ r.ok \in BOOLEAN
    /\ r.ok => r.book.state = "Synced" /\ r.book.last = d.update_id
    /\ ~r.ok => r.book.state = "Gapped"

LEMMA ContentTypes ==
    /\ Empty \in Contents /\ Torn \in Contents /\ NoSum \in Contents
    /\ \A c \in Contents, lv \in Contents : Overlay(c, lv) \in Contents
BY DEF Contents, Empty, Torn, NoSum, Overlay

LEMMA ProcessType ==
    ASSUME NEW b \in Books, NEW d \in Frames
    PROVE  /\ process(b, d).book \in Books /\ process(b, d).ok \in BOOLEAN
           /\ gap(process(b, d).book) \in Books
           /\ process(b, d).book.last = b.last
BY ContentTypes, Zenon DEF process, Ok, Err, Books, Frames, gap

LEMMA GapOutcome ==
    ASSUME NEW b \in Books, NEW d \in Frames
    PROVE  Outcome(Err(gap(b)), d)
BY DEF Outcome, Err, gap, Books

LEMMA SyncedOutcome ==
    ASSUME NEW b \in Books, NEW d \in Frames
    PROVE  Outcome(Ok(synced(b, d)), d)
BY Zenon DEF Outcome, Ok, synced, Books, Frames

LEMMA ProcessedOutcome ==
    ASSUME NEW b \in Books, NEW d \in Frames
    PROVE  Outcome(processed(b, d), d)
<1> DEFINE r == process(b, d)
<1>1. r.book \in Books /\ r.ok \in BOOLEAN
  BY ProcessType
<1>2. processed(b, d) \in {Ok(synced(r.book, d)), Err(gap(r.book))}
  BY DEF processed
<1> HIDE DEF r
<1> QED BY <1>1, <1>2, GapOutcome, SyncedOutcome

LEMMA AppliedOutcome ==
    ASSUME NEW b \in Books, NEW d \in Frames
    PROVE  Outcome(applied(b, d), d)
<1>1. CASE Model = "FullRefresh"
  <2> DEFINE e == [d EXCEPT !.is_snapshot = TRUE]
  <2>1. e \in Frames /\ e.update_id = d.update_id
    BY Zenon DEF Frames
  <2>2. Outcome(processed(b, e), e)
    BY <2>1, ProcessedOutcome
  <2>3. applied(b, d) = processed(b, e)
    BY <1>1 DEF applied, apply_full_refresh
  <2> QED BY <2>1, <2>2, <2>3 DEF Outcome
<1>2. CASE Model = "SeqDelta"
  <2>1. applied(b, d) = apply_seq_delta(b, d)
    BY <1>2 DEF applied
  <2>2. Outcome(processed(b, d), d)
    BY ProcessedOutcome
  <2> QED BY <2>1, <2>2, GapOutcome DEF apply_seq_delta
<1>3. CASE Model = "ChecksumDelta"
  <2> DEFINE r == process(b, d)
  <2>1. applied(b, d) = apply_checksummed(b, d)
    BY <1>3 DEF applied
  <2>2. r.book \in Books /\ r.ok \in BOOLEAN
    BY ProcessType
  <2> DEFINE c == [r.book EXCEPT !.last = d.update_id]
  <2> HIDE DEF r
  <2>3. c \in Books
    BY <2>2 DEF Books, Frames
  <2>4. applied(b, d) \in {Err(gap(r.book)), Err(gap(c)), Ok(synced(c, d))}
    BY <2>1 DEF apply_checksummed, r
  <2> HIDE DEF c
  <2> QED BY <2>2, <2>3, <2>4, GapOutcome, SyncedOutcome
<1>4. CASE Model = "L3"
  <2> DEFINE base   == IF d.is_snapshot THEN Empty ELSE b.content
             orders == [k \in Keys |-> IF d.bad /\ d.levels[k] # 0
                                       THEN Torn[k] ELSE d.levels[k]]
             c      == Overlay(base, orders)
  <2>1. base \in Contents /\ orders \in Contents
    BY ContentTypes DEF Books, Frames, Contents, Torn
  <2>2. c \in Contents
    BY <2>1, ContentTypes
  <2>3. applied(b, d) = IF ~d.is_snapshot /\ ~b.initialized THEN Err(gap(b))
            ELSE Ok(synced([b EXCEPT !.initialized = TRUE, !.content = c], d))
    BY <1>4 DEF applied, apply_l3
  <2> DEFINE n == [b EXCEPT !.initialized = TRUE, !.content = c]
  <2> HIDE DEF c
  <2>4. n \in Books
    BY <2>2, Zenon DEF Books
  <2>5. applied(b, d) \in {Err(gap(b)), Ok(synced(n, d))}
    BY <2>3
  <2> HIDE DEF n
  <2> QED BY <2>4, <2>5, GapOutcome, SyncedOutcome
<1> QED BY <1>1, <1>2, <1>3, <1>4, ModelAssumption DEF ModelAssumption

LEMMA ApplyOutcome ==
    ASSUME NEW b \in Books, NEW d \in Frames, NEW V, NEW r \in apply(b, d, V)
    PROVE  Outcome(r, d)
<1> DEFINE a == applied(b, d)
<1>1. Outcome(a, d)
  BY AppliedOutcome
<1>2. Outcome(Err(gap(b)), d)
  BY GapOutcome
<1> HIDE DEF a
<1>3. Outcome(Err(gap(a.book)), d)
  BY <1>1, GapOutcome DEF Outcome
<1>4. r = a \/ r = Err(gap(a.book)) \/ r = Err(gap(b))
  BY DEF apply, a
<1> QED BY <1>1, <1>2, <1>3, <1>4

-----------------------------------------------------------------------------
(* TypeInv is inductive, one lemma per action.                             *)

USE DEF venueVars, channelVars, pairVars, seedVars, feedVars, loopVars

LEMMA NewestType ==
    ASSUME NEW S, NEW q \in Seq(S)
    PROVE  newest(q) \in Seq(S) /\ Len(newest(q)) <= MaxBuffered
<1>1. Len(q) \in Nat /\ MaxBuffered \in Nat \ {0}
  BY RuntimeAssumption DEF RuntimeAssumption
<1>2. CASE Len(q) > MaxBuffered
  <2>1. \A i \in (Len(q) - MaxBuffered + 1)..Len(q) : q[i] \in S
    BY <1>1, <1>2
  <2> QED BY <1>1, <1>2, <2>1 DEF newest
<1>3. CASE ~(Len(q) > MaxBuffered)
  BY <1>1, <1>3 DEF newest
<1> QED BY <1>2, <1>3

LEMMA FrameTypes ==
    ASSUME VenueInv, NEW p \in Pairs, NEW bad \in BOOLEAN
    PROVE  /\ \A v \in 0..version[p] : SnapshotFrame(p, v, bad) \in Frames
           /\ \A sum \in Checksums(p) : DeltaFrame(p, sum, bad) \in Frames
<1>1. Truth(p) \in Contents /\ Checksums(p) \subseteq Contents
  BY ContentTypes DEF VenueInv, Truth, Checksums
<1>2. ASSUME NEW v \in 0..version[p]
      PROVE  SnapshotFrame(p, v, bad) \in Frames
  <2>1. history[p][v] \in Contents
    BY DEF VenueInv
  <2> QED BY <2>1, ContentTypes DEF SnapshotFrame, Frames
<1>3. ASSUME NEW sum \in Checksums(p)
      PROVE  DeltaFrame(p, sum, bad) \in Frames
  <2> DEFINE lv == IF Model = "FullRefresh" THEN Truth(p) ELSE pending[p]
             sq == CASE Predicate = "RangeInclusive" -> published[p] + 1
                     [] Predicate = "ExactPrev"      -> published[p]
                     [] Predicate = "Monotonic"      -> version[p]
  <2>1. lv \in Contents
    BY <1>1 DEF VenueInv
  <2>2. sq \in Nat /\ version[p] \in Nat
    BY ModelAssumption DEF VenueInv, ModelAssumption
  <2>3. DeltaFrame(p, sum, bad) = [is_snapshot |-> FALSE, sequence |-> sq,
            update_id |-> version[p], levels |-> lv, checksum |-> sum, bad |-> bad]
    BY DEF DeltaFrame
  <2> HIDE DEF lv, sq
  <2> QED BY <1>1, <2>1, <2>2, <2>3 DEF Frames
<1> QED BY <1>2, <1>3

LEMMA ChangeType ==
    ASSUME TypeInv, NEW p \in Pairs, NEW k \in Keys, VenueChange(p, k)
    PROVE  TypeInv'
<1>0. Parts
  BY TypeParts
<1> USE <1>0 DEF Parts
<1>1. VenueInv
  OBVIOUS
<1> DEFINE v == version[p] + 1
           h == [u \in 0..v |-> IF u < v THEN history[p][u]
                                ELSE [Truth(p) EXCEPT ![k] = v]]
<1>2. v \in Nat /\ [Truth(p) EXCEPT ![k] = v] \in Contents
  BY <1>1 DEF VenueInv, Truth, Contents
<1>3. h \in [0..v -> Contents]
  BY <1>1, <1>2 DEF VenueInv
<1>4. history' = [history EXCEPT ![p] = h] /\ version' = [version EXCEPT ![p] = v]
      /\ pending' = [pending EXCEPT ![p][k] = v] /\ published' = published
  BY DEF VenueChange
<1> HIDE DEF h
<1>5. version' \in [Pairs -> Nat] /\ published' \in [Pairs -> Nat]
      /\ \A q \in Pairs : published'[q] <= version'[q]
  BY <1>1, <1>2, <1>4 DEF VenueInv, HistoryOK
<1>6. pending' \in [Pairs -> Contents]
  BY <1>1, <1>2, <1>4 DEF VenueInv, Contents
<1>7. history' \in [Pairs -> UNION {[0..n -> Contents] : n \in Nat}]
      /\ \A q \in Pairs : history'[q] \in [0..version'[q] -> Contents]
  BY <1>1, <1>2, <1>3, <1>4, Zenon DEF VenueInv, HistoryOK
<1>8. VenueInv'
  BY <1>5, <1>6, <1>7 DEF VenueInv, HistoryOK
<1>9. (EventInv /\ SeedInv /\ PairInv /\ FeedInv /\ EmitInv /\ LoopInv)'
  BY DEF VenueChange, EventInv, SeedInv, SeedOK, PairInv, FeedInv, EmitInv, LoopInv
<1> QED BY <1>8, <1>9, TypeParts

LEMMA PublishType ==
    ASSUME TypeInv, NEW p \in Pairs, VenuePublish(p)
    PROVE  TypeInv'
<1>0. Parts
  BY TypeParts
<1> USE <1>0 DEF Parts
<1>1. VenueInv'
  BY ContentTypes DEF VenuePublish, VenueInv, HistoryOK
<1>2. (SeedInv /\ PairInv /\ FeedInv /\ EmitInv /\ LoopInv)'
  BY DEF VenuePublish, SeedInv, SeedOK, PairInv, FeedInv, EmitInv, LoopInv
<1>3. EventInv'
  <2>1. CASE events' = events
    BY <2>1 DEF EventInv
  <2>2. ASSUME NEW bad \in Faulty, NEW confirmed \in BOOLEAN, NEW sum \in Checksums(p),
               events' = events \o (IF confirmed THEN <<GapEvent>> ELSE <<>>)
                               \o <<BookEvent(p, DeltaFrame(p, sum, bad))>>
        PROVE  EventInv'
    <3> DEFINE g == IF confirmed THEN <<GapEvent>> ELSE <<>>
               e == BookEvent(p, DeltaFrame(p, sum, bad))
    <3>1. bad \in BOOLEAN
      BY Zenon DEF Faulty
    <3>2. e \in Events
      BY <3>1, FrameTypes DEF BookEvent, Events
    <3>3. GapEvent \in Events
      BY DEF GapEvent, Events
    <3>4. g \in Seq(Events) /\ <<e>> \in Seq(Events)
      BY <3>2, <3>3
    <3>5. events \in Seq(Events)
      BY DEF EventInv
    <3> HIDE DEF g, e
    <3>6. events \o g \in Seq(Events)
      BY <3>4, <3>5
    <3>7. (events \o g) \o <<e>> \in Seq(Events)
      BY <3>4, <3>6
    <3> QED BY <2>2, <3>7 DEF g, e, EventInv
  <2> QED BY <2>1, <2>2, Zenon DEF VenuePublish
<1> QED BY <1>1, <1>2, <1>3, TypeParts

LEMMA SnapshotType ==
    ASSUME TypeInv, NEW p \in Pairs, VenueSnapshot(p)
    PROVE  TypeInv'
<1>0. Parts
  BY TypeParts
<1> USE <1>0 DEF Parts
<1>1. (VenueInv /\ SeedInv /\ PairInv /\ FeedInv /\ EmitInv /\ LoopInv)'
  BY Zenon DEF VenueSnapshot, VenueInv, HistoryOK, SeedInv, SeedOK, PairInv, FeedInv,
         EmitInv, LoopInv
<1>2. EventInv'
  <2>1. CASE events' = events
    BY <2>1 DEF EventInv
  <2>2. ASSUME NEW bad \in Faulty,
               NEW v \in IF seeds_out_of_band THEN Served(p) ELSE {published[p]},
               events' = Append(events, BookEvent(p, SnapshotFrame(p, v, bad)))
        PROVE  EventInv'
    <3>1. bad \in BOOLEAN
      BY Zenon DEF Faulty
    <3>2. v \in 0..version[p]
      BY DEF Served, VenueInv, HistoryOK
    <3>3. BookEvent(p, SnapshotFrame(p, v, bad)) \in Events
      BY <3>1, <3>2, FrameTypes DEF BookEvent, Events
    <3> QED BY <2>2, <3>3 DEF EventInv
  <2> QED BY <2>1, <2>2 DEF VenueSnapshot
<1> QED BY <1>1, <1>2, TypeParts

LEMMA FetchType ==
    ASSUME TypeInv, NEW p \in Pairs, FetchDone(p)
    PROVE  TypeInv'
<1>0. Parts
  BY TypeParts
<1> USE <1>0 DEF Parts
<1>1. (VenueInv /\ EventInv /\ PairInv /\ FeedInv /\ EmitInv /\ LoopInv)'
  BY DEF FetchDone, VenueInv, HistoryOK, EventInv, PairInv, FeedInv, EmitInv, LoopInv
<1>2. PICK f \in Fetches : fetch' = [fetch EXCEPT ![p] = f] /\ f.status # "idle"
  <2>1. CASE fetch' = [fetch EXCEPT ![p] = [status |-> "failed"]]
    <3>1. [status |-> "failed"] \in Fetches
      BY DEF Fetches
    <3> QED BY <2>1, <3>1, Zenon
  <2>2. ASSUME NEW bad \in Faulty, NEW v \in Served(p),
               fetch' = [fetch EXCEPT ![p] = [status |-> "ready",
                            seed |-> SnapshotFrame(p, v, bad)]]
        PROVE  \E f \in Fetches : fetch' = [fetch EXCEPT ![p] = f] /\ f.status # "idle"
    <3>1. bad \in BOOLEAN
      BY Zenon DEF Faulty
    <3>2. v \in 0..version[p]
      BY DEF Served, VenueInv
    <3>3. [status |-> "ready", seed |-> SnapshotFrame(p, v, bad)] \in Fetches
      BY <3>1, <3>2, FrameTypes DEF Fetches
    <3> QED BY <2>2, <3>3, Zenon
  <2> QED BY <2>1, <2>2 DEF FetchDone
<1>3. SeedInv'
  BY <1>2 DEF FetchDone, SeedInv, SeedOK
<1> QED BY <1>1, <1>3, TypeParts

LEMMA FeedMarks ==
    ASSUME FeedInv, NEW p \in Pairs, note_live(p) \/ note_resubscribing(p)
    PROVE  FeedInv'
BY DEF FeedInv, note_live, note_resubscribing, mark_live, mark_resubscribing,
       mark_each_live, FeedStates

LEMMA EmptyIn == \A S : <<>> \in Seq(S)
OBVIOUS

LEMMA ServedRange ==
    ASSUME NEW p \in Pairs, version[p] \in Nat, NEW v \in Served(p)
    PROVE  v \in 0..version[p]
BY DEF Served

LEMMA Singleton == \A n \in Nat : n \in 0..n /\ n..n = {n}
OBVIOUS

LEMMA BreakType ==
    ASSUME LoopInv, in_flight' \in Nat,
           Break("Finished") \/ Break("ResyncRequired") \/ SendFailed
    PROVE  LoopInv'
BY DEF LoopInv, Break, SendFailed

LEMMA EmitType ==
    ASSUME EmitInv, NEW p \in Pairs, NEW b \in Books, emit_book(p, b)
    PROVE  EmitInv'
BY DEF EmitInv, emit_book, Books

LEMMA ApplySeedType ==
    ASSUME Counting, Parts, NEW p \in Pairs, NEW d \in Frames, NEW s, NEW f, NEW n,
           SeedOK(s, f, n), apply_seed(p, d, s, f, n)
    PROVE  (SeedInv /\ PairInv /\ FeedInv /\ EmitInv /\ LoopInv)'
<1> USE DEF Parts
<1>1. book[p] \in Books /\ buf[p] \in Seq(Frames) /\ d.update_id \in Nat
  BY Zenon DEF PairInv, Frames
<1>2. reseeds \in [Pairs -> 0..MaxReseeds]
  BY DEF SeedInv
<1>3. PICK r \in apply(book[p], d, VenueBooks(p)) :
        /\ SetBook(p, r.book)
        /\ \/ /\ ~r.ok /\ may_reseed(p)
              /\ request_reseed(p, s, f, n)
              /\ note_resubscribing(p)
              /\ Continue
              /\ UNCHANGED <<phase, buf, emitted>>
           \/ /\ ~r.ok /\ ~may_reseed(p)
              /\ no_reseed(s, f, n)
              /\ Break("ResyncRequired")
              /\ UNCHANGED <<phase, buf, emitted, feedVars>>
           \/ /\ r.ok /\ emit_book(p, r.book)
              /\ phase' = [phase EXCEPT ![p] = "Passthrough"]
              /\ buf' = [buf EXCEPT ![p] = <<>>]
              /\ replay' = [pair |-> p, snap_id |-> d.update_id, rest |-> buf[p]]
              /\ pc' = "replay"
              /\ no_reseed(s, f, n)
              /\ UNCHANGED <<outcome, events_done, abandoned, feedVars>>
           \/ /\ r.ok /\ SendFailed
              /\ no_reseed(s, f, n)
              /\ UNCHANGED <<phase, buf, emitted, feedVars>>
  BY Zenon DEF apply_seed
<1>4. r.book \in Books
  BY <1>1, ApplyOutcome DEF Outcome
<1>5. book' \in [Pairs -> Books]
  BY <1>3, <1>4 DEF SetBook, PairInv
<1>6. SeedInv'
  BY <1>2, <1>3, Requested, NotRequested
<1>7. in_flight' \in Nat
  BY <1>6 DEF SeedInv, SeedOK
<1>8. CASE UNCHANGED <<phase, buf>>
  <2>1. PairInv'
    BY <1>5, <1>8 DEF PairInv
  <2>2. CASE note_resubscribing(p) /\ Continue /\ emitted' = emitted
    BY <1>6, <2>1, <2>2, FeedMarks DEF Continue, LoopInv, EmitInv
  <2>3. CASE (Break("ResyncRequired") \/ SendFailed) /\ UNCHANGED <<emitted, feedVars>>
    BY <1>6, <1>7, <2>1, <2>3, BreakType DEF EmitInv, FeedInv
  <2>4. CASE pc' = "replay" /\ emit_book(p, r.book)
             /\ UNCHANGED <<outcome, events_done, abandoned, feedVars>>
             /\ replay' = [pair |-> p, snap_id |-> d.update_id, rest |-> buf[p]]
    BY <1>1, <1>4, <1>6, <2>1, <2>4, EmitType, Zenon DEF LoopInv, FeedInv
  <2> QED BY <1>3, <2>2, <2>3, <2>4
<1>9. CASE /\ emit_book(p, r.book)
           /\ phase' = [phase EXCEPT ![p] = "Passthrough"]
           /\ buf' = [buf EXCEPT ![p] = <<>>]
           /\ replay' = [pair |-> p, snap_id |-> d.update_id, rest |-> buf[p]]
           /\ pc' = "replay"
           /\ UNCHANGED <<outcome, events_done, abandoned, feedVars>>
  <2>1. buf' \in [Pairs -> Seq(Frames)] /\ \A q \in Pairs : Len(buf'[q]) <= MaxBuffered
    BY <1>9, RuntimeAssumption DEF PairInv, RuntimeAssumption
  <2>2. PairInv'
    BY <1>5, <1>9, <2>1, Zenon DEF PairInv
  <2>3. LoopInv' /\ FeedInv'
    BY <1>1, <1>9 DEF LoopInv, FeedInv
  <2> QED BY <1>4, <1>6, <1>9, <2>2, <2>3, EmitType
<1> QED BY <1>3, <1>8, <1>9

LEMMA RecvBookFacts ==
    ASSUME Parts, NEW p \in Pairs, RecvBook(p)
    PROVE  delta \in Frames /\ EventInv' /\ VenueInv' /\ book[p] \in Books
<1>1. Head(events) \in Events /\ Tail(events) \in Seq(Events)
  BY DEF Parts, EventInv, RecvBook
<1>2. delta \in Frames
  BY <1>1 DEF RecvBook, delta, Events
<1> QED BY <1>1, <1>2
        DEF Parts, RecvBook, EventInv, VenueInv, HistoryOK, PairInv

LEMMA RecvSeedType ==
    ASSUME Counting, TypeInv, NEW p \in Pairs, RecvSeed(p)
    PROVE  TypeInv'
<1>1. Parts /\ RecvBook(p) /\ apply_seed(p, delta, seeding, fetch, in_flight)
  BY TypeParts DEF RecvSeed
<1>2. delta \in Frames /\ EventInv' /\ VenueInv'
  BY <1>1, RecvBookFacts
<1>3. SeedOK(seeding, fetch, in_flight)
  BY <1>1 DEF Parts, SeedInv
<1>4. (SeedInv /\ PairInv /\ FeedInv /\ EmitInv /\ LoopInv)'
  BY <1>1, <1>2, <1>3, ApplySeedType
<1> QED BY <1>2, <1>4, TypeParts DEF Parts

LEMMA SeedReadyType ==
    ASSUME Counting, TypeInv, NEW p \in Pairs, SeedReady(p)
    PROVE  TypeInv'
<1> DEFINE s == [seeding EXCEPT ![p] = FALSE]
           f == [fetch EXCEPT ![p] = [status |-> "idle"]]
<1>1. Parts /\ RecvSeedResult(p) /\ fetch[p].status = "ready"
      /\ apply_seed(p, fetch[p].seed, s, f, in_flight - 1)
  BY TypeParts DEF SeedReady
<1>2. fetch[p].seed \in Frames
  BY <1>1 DEF Parts, SeedInv, SeedOK, Fetches
<1>3. SeedOK(s, f, in_flight - 1)
  BY <1>1, Settled DEF Parts
<1> HIDE DEF s, f
<1>4. (SeedInv /\ PairInv /\ FeedInv /\ EmitInv /\ LoopInv)'
  BY <1>1, <1>2, <1>3, ApplySeedType
<1>5. VenueInv' /\ EventInv'
  BY <1>1 DEF RecvSeedResult, Parts, VenueInv, HistoryOK, EventInv
<1> QED BY <1>4, <1>5, TypeParts DEF Parts

LEMMA SeedFailedType ==
    ASSUME Counting, TypeInv, NEW p \in Pairs, SeedFailed(p)
    PROVE  TypeInv'
<1> DEFINE s == [seeding EXCEPT ![p] = FALSE]
           f == [fetch EXCEPT ![p] = [status |-> "idle"]]
<1>1. Parts /\ RecvSeedResult(p) /\ fetch[p].status = "failed"
  BY TypeParts DEF SeedFailed
<1>2. SeedOK(s, f, in_flight - 1) /\ reseeds \in [Pairs -> 0..MaxReseeds]
  BY <1>1, Settled DEF Parts, SeedInv
<1>3. \/ request_reseed(p, s, f, in_flight - 1) /\ Continue
      \/ no_reseed(s, f, in_flight - 1) /\ Break("ResyncRequired")
  BY DEF SeedFailed
<1> HIDE DEF s, f
<1>4. SeedInv'
  BY <1>2, <1>3, Requested, NotRequested, Zenon
<1>5. LoopInv'
  BY <1>1, <1>3, <1>4, BreakType DEF Parts, SeedInv, SeedOK, Continue, LoopInv
<1>6. (VenueInv /\ EventInv /\ PairInv /\ FeedInv /\ EmitInv)'
  BY <1>1, Zenon DEF SeedFailed, RecvSeedResult, Parts, VenueInv, HistoryOK, EventInv,
              PairInv, FeedInv, EmitInv
<1> QED BY <1>4, <1>5, <1>6, TypeParts DEF Parts

LEMMA BufferType ==
    ASSUME TypeInv, NEW p \in Pairs, BufferDelta(p)
    PROVE  TypeInv'
<1>1. Parts /\ RecvBook(p)
  BY TypeParts DEF BufferDelta
<1>2. delta \in Frames /\ EventInv' /\ VenueInv'
  BY <1>1, RecvBookFacts
<1> DEFINE q == newest(Append(buf[p], delta))
<1>3. q \in Seq(Frames) /\ Len(q) <= MaxBuffered
  <2>1. buf[p] \in Seq(Frames) /\ Len(buf[p]) <= MaxBuffered
    BY <1>1 DEF Parts, PairInv
  <2> QED BY <1>2, <2>1, SeqGrows, NewestType, Zenon
<1>4. buf' = [buf EXCEPT ![p] = q]
  BY DEF BufferDelta
<1> HIDE DEF q
<1>5. PairInv'
  BY <1>1, <1>3, <1>4 DEF Parts, PairInv, BufferDelta
<1>6. (SeedInv /\ FeedInv /\ EmitInv /\ LoopInv)'
  BY <1>1 DEF BufferDelta, Parts, SeedInv, SeedOK, FeedInv, EmitInv, LoopInv
<1> QED BY <1>2, <1>5, <1>6, TypeParts DEF Parts

LEMMA ApplyDeltaType ==
    ASSUME Counting, TypeInv, NEW p \in Pairs, ApplyDelta(p)
    PROVE  TypeInv'
<1>1. Parts /\ RecvBook(p)
  BY TypeParts DEF ApplyDelta
<1>2. delta \in Frames /\ EventInv' /\ VenueInv' /\ book[p] \in Books
  BY <1>1, RecvBookFacts
<1>3. PICK r \in apply(book[p], delta, VenueBooks(p)) :
         /\ SetBook(p, r.book)
         /\ \/ /\ r.ok /\ emit_book(p, r.book)
               /\ note_live(p) /\ Continue
               /\ UNCHANGED <<phase, buf, seedVars>>
            \/ /\ r.ok /\ SendFailed
               /\ UNCHANGED <<phase, buf, seedVars, emitted, feedVars>>
            \/ /\ ~r.ok /\ may_reseed(p)
               /\ phase' = [phase EXCEPT ![p] = "Buffering"]
               /\ buf' = [buf EXCEPT ![p] = <<delta>>]
               /\ note_resubscribing(p)
               /\ request_reseed(p, seeding, fetch, in_flight)
               /\ Continue /\ UNCHANGED emitted
            \/ /\ ~r.ok /\ ~may_reseed(p)
               /\ UNCHANGED <<phase, buf, seedVars, emitted, feedVars>>
               /\ Break("ResyncRequired")
  BY Zenon DEF ApplyDelta
<1>4. r.book \in Books
  BY <1>2, ApplyOutcome DEF Outcome
<1>5. book' \in [Pairs -> Books]
  BY <1>1, <1>3, <1>4 DEF SetBook, Parts, PairInv
<1>6. SeedInv'
  <2>1. CASE UNCHANGED seedVars
    BY <1>1, <2>1 DEF Parts, SeedInv, SeedOK
  <2>2. CASE request_reseed(p, seeding, fetch, in_flight)
    BY <1>1, <2>2, Requested DEF Parts, SeedInv
  <2> QED BY <1>3, <2>1, <2>2
<1>7. LoopInv'
  <2>1. in_flight' \in Nat
    BY <1>6 DEF SeedInv, SeedOK
  <2>2. CASE Continue
    BY <1>1, <2>2 DEF Continue, Parts, LoopInv
  <2> QED BY <1>1, <1>3, <2>1, <2>2, BreakType DEF Parts
<1>8. FeedInv' /\ EmitInv'
  <2>1. CASE UNCHANGED feedVars
    BY <1>1, <1>3, <1>4, <2>1, EmitType, Zenon DEF Parts, FeedInv, EmitInv
  <2>2. CASE note_live(p) \/ note_resubscribing(p)
    BY <1>1, <1>3, <1>4, <2>2, EmitType, FeedMarks DEF Parts, EmitInv
  <2> QED BY <1>3, <2>1, <2>2
<1>9. PairInv'
  <2>1. CASE UNCHANGED <<phase, buf>>
    BY <1>1, <1>5, <2>1 DEF Parts, PairInv
  <2>2. CASE phase' = [phase EXCEPT ![p] = "Buffering"]
             /\ buf' = [buf EXCEPT ![p] = <<delta>>]
    <3>1. <<delta>> \in Seq(Frames) /\ Len(<<delta>>) = 1
      BY <1>2
    <3>2. 1 <= MaxBuffered
      BY RuntimeAssumption DEF RuntimeAssumption
    <3> QED BY <1>1, <1>5, <2>2, <3>1, <3>2 DEF Parts, PairInv
  <2> QED BY <1>3, <2>1, <2>2
<1> QED BY <1>2, <1>6, <1>7, <1>8, <1>9, TypeParts DEF Parts

LEMMA ReplayFacts ==
    ASSUME Parts, NEW p \in Pairs, Replaying(p), replay.rest # <<>>
    PROVE  /\ next \in Frames /\ replay.rest \in Seq(Frames)
           /\ Tail(replay.rest) \in Seq(Frames) /\ book[p] \in Books
           /\ EventInv' /\ VenueInv'
<1>1. replay.rest \in Seq(Frames)
  BY DEF Replaying, Parts, LoopInv
<1> QED BY <1>1
        DEF Replaying, next, Parts, PairInv, EventInv, VenueInv, HistoryOK

LEMMA ReplaySkipType ==
    ASSUME TypeInv, NEW p \in Pairs, ReplaySkip(p)
    PROVE  TypeInv'
<1>1. Parts /\ Replaying(p) /\ replay.rest # <<>>
  BY TypeParts DEF ReplaySkip
<1>2. Tail(replay.rest) \in Seq(Frames) /\ EventInv' /\ VenueInv'
  BY <1>1, ReplayFacts
<1>3. LoopInv'
  BY <1>1, <1>2, Zenon DEF ReplaySkip, ReplayNext, Replaying, Parts, LoopInv
<1>4. (SeedInv /\ PairInv /\ FeedInv /\ EmitInv)'
  BY <1>1, Zenon DEF ReplaySkip, Parts, SeedInv, SeedOK, PairInv, FeedInv, EmitInv
<1> QED BY <1>2, <1>3, <1>4, TypeParts DEF Parts

LEMMA ReplayApplyType ==
    ASSUME Counting, TypeInv, NEW p \in Pairs, ReplayApply(p)
    PROVE  TypeInv'
<1>1. Parts /\ Replaying(p) /\ replay.rest # <<>>
  BY TypeParts, Zenon DEF ReplayApply
<1>2. /\ next \in Frames /\ replay.rest \in Seq(Frames)
      /\ Tail(replay.rest) \in Seq(Frames) /\ book[p] \in Books
      /\ EventInv' /\ VenueInv'
  BY <1>1, ReplayFacts
<1>3. PICK r \in apply(book[p], next, VenueBooks(p)) :
         /\ SetBook(p, r.book)
         /\ \/ /\ r.ok /\ emit_book(p, r.book)
               /\ ReplayNext
               /\ UNCHANGED <<phase, buf, seedVars, feedVars, pc, outcome,
                              events_done, abandoned>>
            \/ /\ r.ok /\ SendFailed
               /\ UNCHANGED <<phase, buf, seedVars, emitted, feedVars>>
            \/ /\ ~r.ok /\ may_reseed(p)
               /\ phase' = [phase EXCEPT ![p] = "Buffering"]
               /\ buf' = [buf EXCEPT ![p] = newest(replay.rest)]
               /\ live_orders' = live_orders \ {p}
               /\ feed' = [feed EXCEPT ![p] = mark_resubscribing(
                            IF p \in live_orders THEN @ ELSE mark_live(@))]
               /\ request_reseed(p, seeding, fetch, in_flight)
               /\ pc' = "select" /\ replay' = NoReplay
               /\ UNCHANGED <<emitted, outcome, events_done, abandoned>>
            \/ /\ ~r.ok /\ ~may_reseed(p)
               /\ UNCHANGED <<phase, buf, seedVars, emitted>>
               /\ note_live(p)
               /\ Break("ResyncRequired")
  BY Zenon DEF ReplayApply
<1>4. r.book \in Books
  BY <1>2, ApplyOutcome, Zenon DEF Outcome
<1>5. book' \in [Pairs -> Books]
  BY <1>1, <1>3, <1>4, Zenon DEF SetBook, Parts, PairInv
<1>6. SeedInv'
  <2>1. CASE UNCHANGED seedVars
    BY <1>1, <2>1, Zenon DEF Parts, SeedInv, SeedOK
  <2>2. CASE request_reseed(p, seeding, fetch, in_flight)
    BY <1>1, <2>2, Requested, Zenon DEF Parts, SeedInv
  <2> QED BY <1>3, <2>1, <2>2
<1>7. LoopInv'
  <2>1. in_flight' \in Nat
    BY <1>6 DEF SeedInv, SeedOK
  <2>2. CASE ReplayNext /\ UNCHANGED <<pc, outcome, events_done, abandoned>>
    BY <1>1, <1>2, <2>2 DEF ReplayNext, Replaying, Parts, LoopInv
  <2>3. CASE pc' = "select" /\ UNCHANGED <<outcome, events_done, abandoned>>
    BY <1>1, <2>3 DEF Parts, LoopInv
  <2> QED BY <1>1, <1>3, <2>1, <2>2, <2>3, BreakType, Zenon DEF Parts
<1>8. FeedInv' /\ EmitInv'
  <2>1. CASE UNCHANGED feedVars
    BY <1>1, <1>3, <1>4, <2>1, EmitType, Zenon DEF Parts, FeedInv, EmitInv
  <2>2. CASE note_live(p)
    BY <1>1, <1>3, <1>4, <2>2, EmitType, FeedMarks, Zenon DEF Parts, EmitInv
  <2>3. CASE /\ live_orders' = live_orders \ {p} /\ emitted' = emitted
             /\ feed' = [feed EXCEPT ![p] = mark_resubscribing(
                            IF p \in live_orders THEN @ ELSE mark_live(@))]
    BY <1>1, <2>3, Zenon DEF Parts, FeedInv, EmitInv, mark_resubscribing, mark_live,
                      mark_each_live, FeedStates
  <2> QED BY <1>3, <2>1, <2>2, <2>3
<1>9. PairInv'
  <2>1. CASE UNCHANGED <<phase, buf>>
    BY <1>1, <1>5, <2>1, Zenon DEF Parts, PairInv
  <2>2. CASE phase' = [phase EXCEPT ![p] = "Buffering"]
             /\ buf' = [buf EXCEPT ![p] = newest(replay.rest)]
    BY <1>1, <1>2, <1>5, <2>2, NewestType, Zenon DEF Parts, PairInv
  <2> QED BY <1>3, <2>1, <2>2
<1> QED BY <1>2, <1>6, <1>7, <1>8, <1>9, TypeParts DEF Parts

LEMMA ReplayDoneType ==
    ASSUME TypeInv, NEW p \in Pairs, ReplayDone(p)
    PROVE  TypeInv'
<1>1. Parts
  BY TypeParts
<1>2. (VenueInv /\ EventInv /\ PairInv /\ EmitInv)'
  BY <1>1, Zenon DEF ReplayDone, Replaying, Parts, VenueInv, HistoryOK, EventInv,
              PairInv, EmitInv
<1>3. SeedInv'
  <2>1. SeedOK(seeding, fetch, in_flight)' /\ reseeds \in [Pairs -> 0..MaxReseeds]
    BY <1>1, Zenon DEF ReplayDone, Parts, SeedInv, SeedOK
  <2>2. reseeds' = [reseeds EXCEPT ![p] = 0] /\ 0 \in 0..MaxReseeds
    BY RuntimeAssumption DEF ReplayDone, RuntimeAssumption
  <2>3. reseeds' \in [Pairs -> 0..MaxReseeds]
    BY <2>1, <2>2, Zenon
  <2> QED BY <2>1, <2>3, Zenon DEF SeedInv
<1>4. FeedInv'
  BY <1>1, FeedMarks, Zenon DEF ReplayDone, Parts
<1>5. LoopInv'
  BY <1>1 DEF ReplayDone, Parts, LoopInv
<1> QED BY <1>2, <1>3, <1>4, <1>5, TypeParts, Zenon DEF Parts

LEMMA ConnectionGapType ==
    ASSUME TypeInv, RecvConnectionGap
    PROVE  TypeInv'
<1>1. Parts
  BY TypeParts
<1>2. (VenueInv /\ SeedInv /\ FeedInv /\ EmitInv)'
  BY <1>1, Zenon DEF RecvConnectionGap, Parts, VenueInv, HistoryOK, SeedInv, SeedOK,
              FeedInv, EmitInv
<1>3. EventInv'
  BY <1>1 DEF RecvConnectionGap, Parts, EventInv
<1>4. LoopInv'
  BY <1>1, <1>2, BreakType DEF RecvConnectionGap, Parts, SeedInv, SeedOK
<1>5. PairInv'
  <2>1. ASSUME NEW q \in Pairs PROVE force_gap(book[q]) \in Books
    BY <1>1, ContentTypes, Zenon DEF Parts, PairInv, Books, force_gap
  <2>2. book' \in [Pairs -> Books] /\ phase' \in [Pairs -> {"Buffering", "Passthrough"}]
    BY <2>1 DEF RecvConnectionGap
  <2>3. buf' \in [Pairs -> Seq(Frames)] /\ \A q \in Pairs : Len(buf'[q]) <= MaxBuffered
    BY RuntimeAssumption DEF RecvConnectionGap, RuntimeAssumption
  <2> QED BY <2>2, <2>3 DEF PairInv
<1> QED BY <1>2, <1>3, <1>4, <1>5, TypeParts DEF Parts

\* The steps that touch neither books nor fetches.
LEMMA PlainType ==
    ASSUME TypeInv,
           \/ HandleShutdown \/ LoopEnds \/ EventsClosed \/ InBandSeedExpired
           \/ Subscribe \/ AdapterExit \/ Shutdown \/ DropReceiver
           \/ UNCHANGED vars
    PROVE  TypeInv'
<1>1. Parts
  BY TypeParts
<1>2. (VenueInv /\ EventInv /\ SeedInv /\ PairInv /\ FeedInv /\ EmitInv)'
  BY <1>1, Zenon DEF HandleShutdown, LoopEnds, EventsClosed, InBandSeedExpired, Subscribe,
       AdapterExit, Shutdown, DropReceiver, vars, Parts, VenueInv, HistoryOK,
       EventInv, SeedInv, SeedOK, PairInv, FeedInv, EmitInv
<1>3. in_flight' \in Nat
  BY <1>2 DEF SeedInv, SeedOK
<1>4. CASE HandleShutdown \/ LoopEnds \/ InBandSeedExpired
  BY <1>1, <1>2, <1>3, <1>4, BreakType, TypeParts, Zenon
     DEF HandleShutdown, LoopEnds, InBandSeedExpired, Parts
<1>5. CASE EventsClosed \/ Subscribe \/ AdapterExit \/ Shutdown \/ DropReceiver
           \/ UNCHANGED vars
  <2>1. LoopInv'
    BY <1>1, <1>5, Zenon DEF EventsClosed, Subscribe, AdapterExit, Shutdown, DropReceiver,
                      vars, Parts, LoopInv
  <2> QED BY <1>2, <2>1, TypeParts DEF Parts
<1> QED BY <1>4, <1>5

LEMMA InitType ==
    ASSUME Counting, Init
    PROVE  TypeInv
<1> SUFFICES Parts
  BY TypeParts
<1>1. VenueInv
  <2>1. [v \in 0..0 |-> Empty] \in [0..0 -> Contents]
    BY ContentTypes
  <2>2. version = [p \in Pairs |-> 0] /\ published = [p \in Pairs |-> 0]
        /\ pending = [p \in Pairs |-> Empty]
        /\ history = [p \in Pairs |-> [v \in 0..0 |-> Empty]]
    BY DEF Init
  <2>3. HistoryOK
    <3>1. \A p \in Pairs : history[p] \in [0..0 -> Contents]
      BY <2>1, <2>2
    <3>2. history \in [Pairs -> UNION {[0..n -> Contents] : n \in Nat}]
      BY <2>2, <3>1
    <3> QED BY <2>2, <3>2 DEF HistoryOK
  <2> QED BY <2>1, <2>2, <2>3, ContentTypes DEF VenueInv
<1>2. EventInv
  BY DEF Init, EventInv
<1>3. SeedInv
  <2>1. Cardinality(Pairs) \in Nat /\ Cardinality({}) = 0
    BY Zenon DEF Counting
  <2>2. reseeds \in [Pairs -> 0..MaxReseeds]
    BY RuntimeAssumption DEF Init, RuntimeAssumption
  <2>3. CASE needs_rest /\ HasSeeder
    <3>1. {q \in Pairs : seeding[q]} = Pairs
      BY <2>3, Zenon DEF Init
    <3>2. seeding \in [Pairs -> BOOLEAN] /\ fetch \in [Pairs -> Fetches]
      BY <2>3, Zenon DEF Init, Fetches
    <3> QED BY <2>1, <2>2, <2>3, <3>1, <3>2, Zenon DEF Init, SeedInv, SeedOK
  <2>4. CASE ~(needs_rest /\ HasSeeder)
    <3>1. {q \in Pairs : seeding[q]} = {}
      BY <2>4, Zenon DEF Init
    <3>2. seeding \in [Pairs -> BOOLEAN] /\ fetch \in [Pairs -> Fetches]
      BY <2>4, Zenon DEF Init, Fetches
    <3> QED BY <2>1, <2>2, <2>4, <3>1, <3>2, Zenon DEF Init, SeedInv, SeedOK
  <2> QED BY <2>3, <2>4
<1>4. PairInv
  <2>1. NewBook \in Books
    BY ContentTypes DEF NewBook, Books
  <2>2. Len(<<>>) <= MaxBuffered
    BY RuntimeAssumption DEF RuntimeAssumption
  <2> QED BY <2>1, <2>2 DEF Init, PairInv
<1>5. FeedInv /\ EmitInv /\ LoopInv
  BY ContentTypes, Zenon DEF Init, FeedInv, FeedStates, EmitInv, LoopInv
<1> QED BY <1>1, <1>2, <1>3, <1>4, <1>5 DEF Parts

LEMMA NextType ==
    ASSUME Counting, TypeInv, [Next]_vars
    PROVE  TypeInv'
<1>1. CASE Environment
  BY <1>1, ChangeType, PublishType, SnapshotType, FetchType, PlainType
     DEF Environment
<1>2. CASE RuntimeStep
  BY <1>2, RecvSeedType, BufferType, ApplyDeltaType, SeedReadyType, SeedFailedType,
     ReplaySkipType, ReplayApplyType, ReplayDoneType, ConnectionGapType, PlainType
     DEF RuntimeStep
<1>3. CASE Returned \/ UNCHANGED vars
  BY <1>3, PlainType DEF Returned
<1> QED BY <1>1, <1>2, <1>3 DEF Next

-----------------------------------------------------------------------------
(* Recovery.  A pair is in one of three situations: live (passing through, *)
(* Synced, feed Live), waiting for a seed (buffering, with a fetch if      *)
(* there is a seeder), or replaying what it buffered.                      *)

\* What the adapter puts on the stream: a REST venue has no in-band snapshot.
Streamed == {e \in Events : (needs_rest /\ e.kind = "Book") => ~e.delta.is_snapshot}

PairRecovery(p) ==
    /\ phase[p] = "Passthrough" => book[p].state # "Gapped"
    /\ seeding[p] <=> (phase[p] = "Buffering" /\ HasSeeder)
    /\ feed[p] \in {"Subscribing", "Live", "Resubscribing"}
    /\ p \in live_orders <=> feed[p] = "Live"
    /\ (pc = "replay" /\ replay.pair = p) =>
            phase[p] = "Passthrough" /\ book[p].state = "Synced" /\ p \notin live_orders
    /\ ~(pc = "replay" /\ replay.pair = p) =>
            (p \in live_orders <=> phase[p] = "Passthrough" /\ book[p].state = "Synced")

RecoveryInv ==
    /\ events \in Seq(Streamed)
    /\ pc # "done" => \A p \in Pairs : PairRecovery(p)

\* Pairs a step does not touch keep their situation.
LEMMA RecoveryFrame ==
    ASSUME NEW q \in Pairs, PairRecovery(q),
           book'[q] = book[q], phase'[q] = phase[q], seeding'[q] = seeding[q],
           feed'[q] = feed[q], q \in live_orders' <=> q \in live_orders,
           (pc' = "replay" /\ replay'.pair = q) <=> (pc = "replay" /\ replay.pair = q)
    PROVE  PairRecovery(q)'
BY DEF PairRecovery

LEMMA ApplySeedRecovery ==
    ASSUME TypeInv, pc = "select", \A q \in Pairs : PairRecovery(q),
           NEW p \in Pairs, phase[p] = "Buffering", NEW d \in Frames,
           NEW s \in [Pairs -> BOOLEAN], ~s[p],
           \A q \in Pairs \ {p} : s[q] = seeding[q],
           NEW f, NEW n, apply_seed(p, d, s, f, n)
    PROVE  pc' # "done" => \A q \in Pairs : PairRecovery(q)'
<1>1. Parts
  BY TypeParts
<1>2. PICK r \in apply(book[p], d, VenueBooks(p)) :
        /\ SetBook(p, r.book)
        /\ \/ /\ ~r.ok /\ may_reseed(p)
              /\ request_reseed(p, s, f, n)
              /\ note_resubscribing(p)
              /\ Continue
              /\ UNCHANGED <<phase, buf, emitted>>
           \/ pc' = "done"
           \/ /\ r.ok
              /\ phase' = [phase EXCEPT ![p] = "Passthrough"]
              /\ replay' = [pair |-> p, snap_id |-> d.update_id, rest |-> buf[p]]
              /\ pc' = "replay"
              /\ no_reseed(s, f, n)
              /\ UNCHANGED feedVars
  BY Zenon DEF apply_seed, Break, SendFailed
<1>3. Outcome(r, d)
  BY <1>1, ApplyOutcome DEF Parts, PairInv
<1>4. book' = [book EXCEPT ![p] = r.book]
  BY <1>2, Zenon DEF SetBook
<1>5. p \notin live_orders /\ feed[p] \in {"Subscribing", "Resubscribing"}
  BY Zenon DEF PairRecovery
<1>6. CASE /\ ~r.ok /\ may_reseed(p) /\ request_reseed(p, s, f, n)
           /\ note_resubscribing(p) /\ Continue /\ UNCHANGED <<phase, buf, emitted>>
  <2>1. seeding' = [s EXCEPT ![p] = TRUE] /\ HasSeeder
    BY <1>6, Zenon DEF request_reseed, may_reseed, can_reseed
  <2>2. /\ live_orders' = live_orders \ {p}
        /\ feed' = [feed EXCEPT ![p] = "Resubscribing"]
    BY <1>5, <1>6, Zenon DEF note_resubscribing, mark_resubscribing, mark_each_live, is_terminal
  <2>3. PairRecovery(p)'
    BY <1>1, <1>4, <1>6, <2>1, <2>2, Zenon DEF Parts, FeedInv, Continue, PairRecovery
  <2>4. ASSUME NEW q \in Pairs \ {p} PROVE PairRecovery(q)'
    <3>1. /\ book'[q] = book[q] /\ phase'[q] = phase[q] /\ seeding'[q] = seeding[q]
          /\ feed'[q] = feed[q] /\ (q \in live_orders' <=> q \in live_orders)
          /\ pc' = pc
      BY <1>1, <1>4, <1>6, <2>1, <2>2 DEF Parts, PairInv, FeedInv, Continue
    <3> QED BY <3>1, RecoveryFrame, Zenon
  <2> QED BY <2>3, <2>4, Zenon
<1>7. CASE /\ r.ok /\ phase' = [phase EXCEPT ![p] = "Passthrough"]
           /\ replay' = [pair |-> p, snap_id |-> d.update_id, rest |-> buf[p]]
           /\ pc' = "replay" /\ no_reseed(s, f, n) /\ UNCHANGED feedVars
  <2>1. PairRecovery(p)'
    BY <1>1, <1>3, <1>4, <1>5, <1>7, Zenon
       DEF Parts, PairInv, no_reseed, PairRecovery, Outcome
  <2>2. ASSUME NEW q \in Pairs \ {p} PROVE PairRecovery(q)'
    <3>1. /\ book'[q] = book[q] /\ phase'[q] = phase[q] /\ seeding'[q] = seeding[q]
          /\ feed'[q] = feed[q] /\ (q \in live_orders' <=> q \in live_orders)
          /\ replay'.pair # q
      BY <1>1, <1>4, <1>7 DEF Parts, PairInv, FeedInv, no_reseed
    <3> QED BY <3>1, RecoveryFrame, Zenon
  <2> QED BY <2>1, <2>2, Zenon
<1> QED BY <1>2, <1>6, <1>7, Zenon

LEMMA RecvSeedRecovery ==
    ASSUME TypeInv, RecoveryInv, NEW p \in Pairs, RecvSeed(p)
    PROVE  RecoveryInv'
<1>1. Parts /\ RecvBook(p) /\ pc = "select" /\ phase[p] = "Buffering" /\ delta.is_snapshot
      /\ apply_seed(p, delta, seeding, fetch, in_flight)
  BY TypeParts, Zenon DEF RecvSeed, RecvBook, Selecting
<1>2. delta \in Frames
  BY <1>1, RecvBookFacts
<1>3. Head(events) \in Streamed /\ Tail(events) \in Seq(Streamed)
  BY <1>1, SeqHead, Zenon DEF RecvBook, RecoveryInv
<1>4. ~needs_rest
  BY <1>1, <1>3, Zenon DEF RecvBook, Streamed, delta
<1>5. seeding \in [Pairs -> BOOLEAN] /\ ~seeding[p]
  BY <1>1, <1>4, RuntimeAssumption, Zenon
     DEF RecoveryInv, PairRecovery, Parts, SeedInv, SeedOK, RuntimeAssumption
<1>6. pc' # "done" => \A q \in Pairs : PairRecovery(q)'
  BY <1>1, <1>2, <1>5, ApplySeedRecovery DEF RecoveryInv
<1> QED BY <1>1, <1>3, <1>6, Zenon DEF RecvBook, RecoveryInv

LEMMA SeedReadyRecovery ==
    ASSUME TypeInv, RecoveryInv, NEW p \in Pairs, SeedReady(p)
    PROVE  RecoveryInv'
<1> DEFINE s == [seeding EXCEPT ![p] = FALSE]
           f == [fetch EXCEPT ![p] = [status |-> "idle"]]
<1>1. Parts /\ RecvSeedResult(p) /\ fetch[p].status = "ready" /\ pc = "select"
      /\ apply_seed(p, fetch[p].seed, s, f, in_flight - 1)
  BY TypeParts DEF SeedReady, RecvSeedResult, Selecting
<1>2. fetch[p].seed \in Frames /\ seeding \in [Pairs -> BOOLEAN] /\ seeding[p]
  BY <1>1, Zenon DEF Parts, SeedInv, SeedOK, Fetches
<1>3. phase[p] = "Buffering"
  BY <1>1, <1>2 DEF RecoveryInv, PairRecovery
<1>4. s \in [Pairs -> BOOLEAN] /\ ~s[p] /\ \A q \in Pairs \ {p} : s[q] = seeding[q]
  BY <1>2
<1> HIDE DEF s, f
<1>5. pc' # "done" => \A q \in Pairs : PairRecovery(q)'
  BY <1>1, <1>2, <1>3, <1>4, ApplySeedRecovery, Zenon DEF RecoveryInv
<1> QED BY <1>1, <1>5, Zenon DEF RecvSeedResult, RecoveryInv

LEMMA SeedFailedRecovery ==
    ASSUME TypeInv, RecoveryInv, NEW p \in Pairs, SeedFailed(p)
    PROVE  RecoveryInv'
<1> DEFINE s == [seeding EXCEPT ![p] = FALSE]
           f == [fetch EXCEPT ![p] = [status |-> "idle"]]
<1>1. Parts /\ RecvSeedResult(p) /\ fetch[p].status = "failed" /\ pc = "select"
  BY TypeParts, Zenon DEF SeedFailed, RecvSeedResult, Selecting
<1>2. seeding \in [Pairs -> BOOLEAN] /\ seeding[p] /\ HasSeeder
  BY <1>1, Zenon DEF Parts, SeedInv, SeedOK, RecoveryInv, PairRecovery
<1>3. \/ reseeds[p] < MaxReseeds /\ request_reseed(p, s, f, in_flight - 1) /\ Continue
      \/ pc' = "done"
  BY DEF SeedFailed, Break
<1>4. CASE reseeds[p] < MaxReseeds /\ request_reseed(p, s, f, in_flight - 1) /\ Continue
  <2>1. seeding' = [s EXCEPT ![p] = TRUE]
    BY <1>2, <1>4 DEF request_reseed
  <2>2. seeding' = seeding
    BY <1>2, <2>1
  <2>3. \A q \in Pairs : PairRecovery(q)'
    BY <1>1, <1>4, <2>2, RecoveryFrame, Zenon DEF SeedFailed, Continue, RecoveryInv
  <2> QED BY <1>1, <2>3, Zenon DEF RecvSeedResult, RecoveryInv
<1>5. CASE pc' = "done"
  BY <1>1, <1>5, Zenon DEF RecvSeedResult, RecoveryInv
<1> QED BY <1>3, <1>4, <1>5

LEMMA ApplyDeltaRecovery ==
    ASSUME TypeInv, RecoveryInv, NEW p \in Pairs, ApplyDelta(p)
    PROVE  RecoveryInv'
<1>1. Parts /\ RecvBook(p) /\ pc = "select" /\ phase[p] = "Passthrough"
  BY TypeParts, Zenon DEF ApplyDelta, RecvBook, Selecting
<1>2. delta \in Frames /\ book[p] \in Books
  BY <1>1, RecvBookFacts
<1>3. events' \in Seq(Streamed)
  BY <1>1, SeqHead, Zenon DEF RecvBook, RecoveryInv
<1>4. PICK r \in apply(book[p], delta, VenueBooks(p)) :
         /\ SetBook(p, r.book)
         /\ \/ /\ r.ok /\ note_live(p) /\ Continue
               /\ UNCHANGED <<phase, buf, seedVars>>
            \/ /\ ~r.ok /\ may_reseed(p)
               /\ phase' = [phase EXCEPT ![p] = "Buffering"]
               /\ note_resubscribing(p)
               /\ request_reseed(p, seeding, fetch, in_flight)
               /\ Continue
            \/ pc' = "done"
  BY DEF ApplyDelta, Break, SendFailed
<1>5. Outcome(r, delta) /\ book' = [book EXCEPT ![p] = r.book]
  BY <1>2, <1>4, ApplyOutcome, Zenon DEF SetBook
<1>6. PairRecovery(p) /\ \A q \in Pairs : PairRecovery(q)
  BY <1>1, Zenon DEF RecoveryInv
<1>7. CASE r.ok /\ note_live(p) /\ Continue /\ UNCHANGED <<phase, buf, seedVars>>
  <2>1. live_orders' = live_orders \cup {p} /\ feed' = [feed EXCEPT ![p] = "Live"]
    BY <1>1, <1>6, <1>7, Zenon DEF note_live, mark_live, mark_each_live, is_terminal,
                            PairRecovery, Parts, FeedInv
  <2>2. PairRecovery(p)'
    BY <1>1, <1>5, <1>6, <1>7, <2>1, Zenon
       DEF Parts, PairInv, FeedInv, Continue, Outcome, PairRecovery
  <2>3. ASSUME NEW q \in Pairs \ {p} PROVE PairRecovery(q)'
    <3>1. /\ book'[q] = book[q] /\ phase'[q] = phase[q] /\ seeding'[q] = seeding[q]
          /\ feed'[q] = feed[q] /\ (q \in live_orders' <=> q \in live_orders)
          /\ pc' = pc
      BY <1>1, <1>5, <1>7, <2>1 DEF Parts, PairInv, FeedInv, Continue
    <3> QED BY <1>1, <1>6, <3>1, RecoveryFrame, Zenon
  <2> QED BY <1>3, <2>2, <2>3 DEF RecoveryInv
<1>8. CASE /\ ~r.ok /\ may_reseed(p)
           /\ phase' = [phase EXCEPT ![p] = "Buffering"]
           /\ note_resubscribing(p)
           /\ request_reseed(p, seeding, fetch, in_flight) /\ Continue
  <2>1. ~seeding[p] /\ HasSeeder
    BY <1>1, <1>6, <1>8, Zenon DEF PairRecovery, may_reseed, can_reseed
  <2>2. seeding' = [seeding EXCEPT ![p] = TRUE] /\ seeding \in [Pairs -> BOOLEAN]
    BY <1>1, <1>8, <2>1 DEF request_reseed, may_reseed, Parts, SeedInv, SeedOK
  <2>3. /\ live_orders' = live_orders \ {p}
        /\ feed' = [feed EXCEPT ![p] = "Resubscribing"]
    BY <1>6, <1>8, Zenon DEF note_resubscribing, mark_resubscribing, mark_each_live,
                      is_terminal, PairRecovery
  <2>4. PairRecovery(p)'
    BY <1>1, <1>5, <1>8, <2>1, <2>2, <2>3, Zenon DEF Parts, PairInv, FeedInv, Continue, PairRecovery
  <2>5. ASSUME NEW q \in Pairs \ {p} PROVE PairRecovery(q)'
    <3>1. /\ book'[q] = book[q] /\ phase'[q] = phase[q] /\ seeding'[q] = seeding[q]
          /\ feed'[q] = feed[q] /\ (q \in live_orders' <=> q \in live_orders)
          /\ pc' = pc
      BY <1>1, <1>5, <1>8, <2>2, <2>3 DEF Parts, PairInv, FeedInv, Continue
    <3> QED BY <1>1, <1>6, <3>1, RecoveryFrame, Zenon
  <2> QED BY <1>3, <2>4, <2>5 DEF RecoveryInv
<1>9. CASE pc' = "done"
  BY <1>3, <1>9, Zenon DEF RecoveryInv
<1> QED BY <1>4, <1>7, <1>8, <1>9

LEMMA ReplayApplyRecovery ==
    ASSUME TypeInv, RecoveryInv, NEW p \in Pairs, ReplayApply(p)
    PROVE  RecoveryInv'
<1>1. Parts /\ Replaying(p) /\ pc = "replay" /\ replay.pair = p /\ replay.rest # <<>>
  BY TypeParts, Zenon DEF ReplayApply, Replaying
<1>2. next \in Frames /\ book[p] \in Books
  BY <1>1, ReplayFacts, Zenon
<1>3. events' \in Seq(Streamed)
  BY <1>1 DEF Replaying, RecoveryInv
<1>4. PICK r \in apply(book[p], next, VenueBooks(p)) :
         /\ SetBook(p, r.book)
         /\ \/ /\ r.ok /\ ReplayNext
               /\ UNCHANGED <<phase, buf, seedVars, feedVars, pc>>
            \/ /\ ~r.ok /\ may_reseed(p)
               /\ phase' = [phase EXCEPT ![p] = "Buffering"]
               /\ live_orders' = live_orders \ {p}
               /\ feed' = [feed EXCEPT ![p] = mark_resubscribing(
                            IF p \in live_orders THEN @ ELSE mark_live(@))]
               /\ request_reseed(p, seeding, fetch, in_flight)
               /\ pc' = "select"
            \/ pc' = "done"
  BY Zenon DEF ReplayApply, Break, SendFailed
<1>5. Outcome(r, next) /\ book' = [book EXCEPT ![p] = r.book]
  BY <1>2, <1>4, ApplyOutcome, Zenon DEF SetBook
<1>6. PairRecovery(p) /\ \A q \in Pairs : PairRecovery(q)
  BY <1>1, Zenon DEF RecoveryInv
<1>7. CASE r.ok /\ ReplayNext /\ UNCHANGED <<phase, buf, seedVars, feedVars, pc>>
  <2>1. replay'.pair = p
    BY <1>1, <1>7 DEF ReplayNext, Parts, LoopInv
  <2>2. PairRecovery(p)'
    BY <1>1, <1>5, <1>6, <1>7, <2>1, Zenon DEF Parts, PairInv, Outcome, PairRecovery
  <2>3. ASSUME NEW q \in Pairs \ {p} PROVE PairRecovery(q)'
    BY <1>1, <1>5, <1>6, <1>7, <2>1, RecoveryFrame, Zenon DEF Parts, PairInv
  <2> QED BY <1>3, <2>2, <2>3 DEF RecoveryInv
<1>8. CASE /\ ~r.ok /\ may_reseed(p)
           /\ phase' = [phase EXCEPT ![p] = "Buffering"]
           /\ live_orders' = live_orders \ {p}
           /\ feed' = [feed EXCEPT ![p] = mark_resubscribing(
                            IF p \in live_orders THEN @ ELSE mark_live(@))]
           /\ request_reseed(p, seeding, fetch, in_flight)
           /\ pc' = "select"
  <2>1. ~seeding[p] /\ HasSeeder
    BY <1>1, <1>6, <1>8, Zenon DEF PairRecovery, may_reseed, can_reseed
  <2>2. seeding' = [seeding EXCEPT ![p] = TRUE] /\ seeding \in [Pairs -> BOOLEAN]
    BY <1>1, <1>8, <2>1, Zenon DEF request_reseed, may_reseed, Parts, SeedInv, SeedOK
  <2>3. feed' = [feed EXCEPT ![p] = "Resubscribing"]
    BY <1>6, <1>8, Zenon DEF mark_resubscribing, mark_live, mark_each_live, is_terminal,
                      PairRecovery
  <2>4. PairRecovery(p)'
    BY <1>1, <1>5, <1>8, <2>1, <2>2, <2>3, Zenon DEF Parts, PairInv, FeedInv, PairRecovery
  <2>5. ASSUME NEW q \in Pairs \ {p} PROVE PairRecovery(q)'
    <3>1. /\ book'[q] = book[q] /\ phase'[q] = phase[q] /\ seeding'[q] = seeding[q]
          /\ feed'[q] = feed[q] /\ (q \in live_orders' <=> q \in live_orders)
      BY <1>1, <1>5, <1>8, <2>2, <2>3, Zenon DEF Parts, PairInv, FeedInv
    <3> QED BY <1>1, <1>6, <1>8, <3>1, RecoveryFrame, Zenon
  <2> QED BY <1>3, <2>4, <2>5 DEF RecoveryInv
<1>9. CASE pc' = "done"
  BY <1>3, <1>9 DEF RecoveryInv
<1> QED BY <1>4, <1>7, <1>8, <1>9

LEMMA ReplayDoneRecovery ==
    ASSUME TypeInv, RecoveryInv, NEW p \in Pairs, ReplayDone(p)
    PROVE  RecoveryInv'
<1>1. Parts /\ Replaying(p) /\ pc = "replay" /\ replay.pair = p /\ note_live(p)
      /\ pc' = "select" /\ UNCHANGED <<pairVars, seeding, events>>
  BY TypeParts DEF ReplayDone, Replaying
<1>2. \A q \in Pairs : PairRecovery(q)
  BY <1>1 DEF RecoveryInv
<1>3. live_orders' = live_orders \cup {p} /\ feed' = [feed EXCEPT ![p] = "Live"]
  BY <1>1, <1>2, Zenon DEF note_live, mark_live, mark_each_live, is_terminal, PairRecovery
<1>4. PairRecovery(p)'
  BY <1>1, <1>2, <1>3, Zenon DEF Parts, FeedInv, PairRecovery
<1>5. ASSUME NEW q \in Pairs \ {p} PROVE PairRecovery(q)'
  BY <1>1, <1>2, <1>3, RecoveryFrame, Zenon DEF Parts, FeedInv
<1> QED BY <1>1, <1>4, <1>5, Zenon DEF RecoveryInv

\* The steps that leave books, seeding flags and feeds alone.
LEMMA PlainRecovery ==
    ASSUME TypeInv, RecoveryInv, events' \in Seq(Streamed),
           \/ pc' = "done"
           \/ /\ UNCHANGED <<book, phase, seeding, feedVars, pc>>
              /\ pc = "replay" => replay'.pair = replay.pair
    PROVE  RecoveryInv'
<1>1. CASE pc' = "done"
  BY <1>1 DEF RecoveryInv
<1>2. CASE /\ UNCHANGED <<book, phase, seeding, feedVars, pc>>
           /\ pc = "replay" => replay'.pair = replay.pair
  BY <1>2, RecoveryFrame, Zenon DEF RecoveryInv
<1> QED BY <1>1, <1>2, Zenon

LEMMA StreamedRecovery ==
    ASSUME TypeInv, RecoveryInv, NEW p \in Pairs, VenuePublish(p) \/ VenueSnapshot(p)
    PROVE  RecoveryInv'
<1>1. Parts /\ events \in Seq(Streamed)
  BY TypeParts DEF RecoveryInv
<1>2. CASE events' = events
  BY <1>1, <1>2, PlainRecovery, Zenon DEF VenuePublish, VenueSnapshot
<1>3. ASSUME NEW bad \in Faulty, NEW confirmed \in BOOLEAN, NEW sum \in Checksums(p),
             events' = events \o (IF confirmed THEN <<GapEvent>> ELSE <<>>)
                             \o <<BookEvent(p, DeltaFrame(p, sum, bad))>>
      PROVE  events' \in Seq(Streamed)
  <2> DEFINE g == IF confirmed THEN <<GapEvent>> ELSE <<>>
             e == BookEvent(p, DeltaFrame(p, sum, bad))
  <2>1. bad \in BOOLEAN
    BY Zenon DEF Faulty
  <2>2. DeltaFrame(p, sum, bad) \in Frames
    BY <1>1, <2>1, FrameTypes DEF Parts
  <2>3. e \in Events
    BY <2>2, Zenon DEF BookEvent, Events
  <2>4. ~e.delta.is_snapshot
    BY DEF BookEvent, DeltaFrame
  <2>5. GapEvent \in Streamed
    BY Zenon DEF GapEvent, Events, Streamed
  <2>6. e \in Streamed
    BY <2>3, <2>4 DEF Streamed
  <2>7. g \in Seq(Streamed) /\ <<e>> \in Seq(Streamed)
    BY <2>5, <2>6
  <2> HIDE DEF g, e
  <2>8. events \o g \in Seq(Streamed)
    BY <1>1, <2>7
  <2>9. (events \o g) \o <<e>> \in Seq(Streamed)
    BY <2>7, <2>8
  <2> QED BY <1>3, <2>9 DEF g, e
<1>4. ASSUME NEW bad \in Faulty, ~needs_rest,
             NEW v \in IF seeds_out_of_band THEN Served(p) ELSE {published[p]},
             events' = Append(events, BookEvent(p, SnapshotFrame(p, v, bad)))
      PROVE  events' \in Seq(Streamed)
  <2>1. bad \in BOOLEAN
    BY Zenon DEF Faulty
  <2>2. v \in 0..version[p]
    <3>0. VenueInv
      BY <1>1, Zenon DEF Parts
    <3>1. version[p] \in Nat /\ published[p] \in 0..version[p]
      BY <3>0 DEF VenueInv, HistoryOK
    <3> QED BY <3>1, ServedRange, Zenon
  <2>3. BookEvent(p, SnapshotFrame(p, v, bad)) \in Events
    BY <1>1, <2>1, <2>2, FrameTypes DEF BookEvent, Events, Parts
  <2>4. BookEvent(p, SnapshotFrame(p, v, bad)) \in Streamed
    BY <1>4, <2>3 DEF Streamed
  <2> QED BY <1>1, <1>4, <2>4
<1>5. events' \in Seq(Streamed)
  BY <1>1, <1>3, <1>4, Zenon DEF VenuePublish, VenueSnapshot
<1> QED BY <1>5, PlainRecovery, Zenon DEF VenuePublish, VenueSnapshot

LEMMA InitRecovery == Init => RecoveryInv
<1> SUFFICES ASSUME Init PROVE RecoveryInv
  OBVIOUS
<1>1. events \in Seq(Streamed)
  BY EmptyIn, Zenon DEF Init
<1>2. ASSUME NEW p \in Pairs PROVE PairRecovery(p)
  BY RuntimeAssumption DEF Init, PairRecovery, NewBook, RuntimeAssumption, needs_rest,
     seeds_out_of_band
<1> QED BY <1>1, <1>2 DEF RecoveryInv

LEMMA NextRecovery == TypeInv /\ RecoveryInv /\ [Next]_vars => RecoveryInv'
<1> SUFFICES ASSUME TypeInv, RecoveryInv, [Next]_vars PROVE RecoveryInv'
  OBVIOUS
<1>1. events \in Seq(Streamed) /\ (events # <<>> => Tail(events) \in Seq(Streamed))
  BY DEF RecoveryInv
<1>2. CASE Environment
  <2>1. ASSUME NEW p \in Pairs, NEW k \in Keys, VenueChange(p, k) PROVE RecoveryInv'
    BY <1>1, <2>1, PlainRecovery DEF VenueChange
  <2>2. ASSUME NEW p \in Pairs, FetchDone(p) PROVE RecoveryInv'
    BY <1>1, <2>2, PlainRecovery, Zenon DEF FetchDone
  <2>3. CASE Subscribe \/ AdapterExit \/ Shutdown \/ DropReceiver
    BY <1>1, <2>3, PlainRecovery, Zenon DEF Subscribe, AdapterExit, Shutdown, DropReceiver
  <2> QED BY <1>2, <2>1, <2>2, <2>3, StreamedRecovery DEF Environment
<1>3. CASE HandleShutdown \/ LoopEnds \/ EventsClosed \/ InBandSeedExpired
           \/ RecvConnectionGap
  BY <1>1, <1>3, PlainRecovery, Zenon DEF HandleShutdown, LoopEnds, EventsClosed,
     InBandSeedExpired, RecvConnectionGap, Break, Selecting
<1>4. ASSUME NEW p \in Pairs, BufferDelta(p) PROVE RecoveryInv'
  BY <1>1, <1>4, PlainRecovery, Zenon DEF BufferDelta, RecvBook
<1>5. ASSUME NEW p \in Pairs, ReplaySkip(p) PROVE RecoveryInv'
  <2>1. replay'.pair = replay.pair
    BY <1>5, TypeParts DEF ReplaySkip, ReplayNext, Replaying, Parts, LoopInv
  <2> QED BY <1>1, <1>5, <2>1, PlainRecovery, Zenon DEF ReplaySkip, Replaying
<1>6. CASE RuntimeStep
  BY <1>3, <1>4, <1>5, <1>6, RecvSeedRecovery, ApplyDeltaRecovery, SeedReadyRecovery,
     SeedFailedRecovery, ReplayApplyRecovery, ReplayDoneRecovery DEF RuntimeStep
<1>7. CASE Returned \/ UNCHANGED vars
  BY <1>1, <1>7, PlainRecovery DEF Returned, vars
<1> QED BY <1>2, <1>6, <1>7 DEF Next

-----------------------------------------------------------------------------
(* How the task ends.                                                      *)

\* What a task that finishes on its own leaves behind: a drained stream, no fetch
\* outstanding or given up, and no pair that waits for one or is known to be broken.
Drained ==
    /\ ~open /\ events = <<>> /\ abandoned = 0
    /\ \A p \in Pairs : /\ fetch[p].status = "idle"
                        /\ HasSeeder => phase[p] = "Passthrough"
                        /\ phase[p] = "Passthrough" => book[p].state # "Gapped"

\* Finished, with nobody asking for it, means drained: any other trouble is
\* handed to the caller as ResyncRequired.
FinishedIsClean ==
    pc = "done" /\ outcome = "Finished" /\ ~shut /\ outOpen => Drained

\* turns the task may still take before it reads the shutdown watch and returns
Left == IF pc = "done" THEN 0 ELSE IF pc = "select" THEN 1 ELSE 2 + Len(replay.rest)

\* Once shutdown is signalled each turn brings the return nearer, and nothing
\* around the task puts it off.
ShutdownGoesForward ==
    [][shut => /\ shut'
               /\ RuntimeStep => Left' < Left
               /\ ~RuntimeStep => Left' = Left]_vars

EndInv ==
    /\ events_done => ~open /\ events = <<>>
    /\ pc = "replay" => Len(replay.rest) <= MaxBuffered
    /\ FinishedIsClean

\* The surroundings leave the loop alone, and nothing follows a closed stream.
LEMMA Surroundings ==
    ASSUME Environment
    PROVE  /\ UNCHANGED loopVars /\ pc # "done"
           /\ shut => shut'
           /\ ~open /\ events = <<>> => ~open' /\ events' = <<>>
<1>1. ASSUME NEW p \in Pairs, VenuePublish(p) \/ VenueSnapshot(p)
      PROVE  /\ UNCHANGED <<loopVars, channelVars>> /\ (~open => UNCHANGED events)
  BY <1>1, Zenon DEF VenuePublish, VenueSnapshot
<1>2. ASSUME NEW p \in Pairs, (\E k \in Keys : VenueChange(p, k)) \/ FetchDone(p)
      PROVE  UNCHANGED <<loopVars, channelVars, events>>
  BY <1>2, Zenon DEF VenueChange, FetchDone
<1>3. CASE Subscribe \/ AdapterExit \/ Shutdown \/ DropReceiver
  <2>1. /\ UNCHANGED <<loopVars, events>>
        /\ UNCHANGED shut \/ shut' = TRUE
        /\ UNCHANGED open \/ open' = FALSE
    BY <1>3, Zenon DEF Subscribe, AdapterExit, Shutdown, DropReceiver, channelVars
  <2>2. pc # "done"
    BY Zenon DEF Environment
  <2> QED BY ONLY <2>1, <2>2
<1> QED BY <1>1, <1>2, <1>3, Zenon DEF Environment, channelVars

\* One turn: where it may go, and on what account it may return.
Turn ==
    /\ UNCHANGED channelVars
    /\ EventsClosed \/ UNCHANGED events_done
    /\ events_done => UNCHANGED events
    /\ pc' = "done" => LoopEnds \/ shut \/ ~outOpen \/ outcome' = "ResyncRequired"
    /\ pc' = "select" => pc = "replay" \/ ~shut
    /\ pc' = "replay" => \/ pc = "select" /\ ~shut /\ \E p \in Pairs : replay'.rest = buf[p]
                         \/ pc = "replay" /\ replay.rest # <<>>
                            /\ replay' = [replay EXCEPT !.rest = Tail(@)]

LEMMA SeedTurn ==
    ASSUME NEW p \in Pairs, NEW d, NEW s, NEW f, NEW n, apply_seed(p, d, s, f, n),
           pc = "select", ~shut
    PROVE  /\ UNCHANGED events_done
           /\ pc' = "done" => ~outOpen \/ outcome' = "ResyncRequired"
           /\ pc' = "replay" => replay'.rest = buf[p]
<1>1. \/ Continue \/ Break("ResyncRequired") \/ SendFailed
      \/ /\ replay' = [pair |-> p, snap_id |-> d.update_id, rest |-> buf[p]]
         /\ pc' = "replay" /\ UNCHANGED events_done
  BY Zenon DEF apply_seed
<1> QED BY <1>1 DEF Continue, Break, SendFailed, loopVars

LEMMA TurnOf == RuntimeStep => Turn
<1> SUFFICES ASSUME RuntimeStep PROVE Turn
  OBVIOUS
<1>1. CASE HandleShutdown \/ LoopEnds \/ RecvConnectionGap \/ InBandSeedExpired
  BY <1>1, Zenon DEF HandleShutdown, LoopEnds, RecvConnectionGap, InBandSeedExpired, Selecting,
     Break, Turn
<1>2. CASE EventsClosed
  BY <1>2, Zenon DEF EventsClosed, Selecting, Turn
<1>3. ASSUME NEW p \in Pairs, RecvSeed(p) PROVE Turn
  BY <1>3, SeedTurn, Zenon DEF RecvSeed, RecvBook, Selecting, Turn
<1>4. ASSUME NEW p \in Pairs, SeedReady(p) PROVE Turn
  BY <1>4, SeedTurn, Zenon DEF SeedReady, RecvSeedResult, Selecting, Turn
<1>5. ASSUME NEW p \in Pairs, BufferDelta(p) \/ SeedFailed(p) PROVE Turn
  BY <1>5 DEF BufferDelta, RecvBook, SeedFailed, RecvSeedResult, Selecting, Continue, Break,
     loopVars, Turn
<1>6. ASSUME NEW p \in Pairs, ApplyDelta(p) PROVE Turn
  <2>1. /\ UNCHANGED channelVars /\ ~events_done /\ pc = "select" /\ ~shut
        /\ Continue \/ SendFailed \/ Break("ResyncRequired")
    BY <1>6, Zenon DEF ApplyDelta, RecvBook, Selecting
  <2> QED BY <2>1 DEF Continue, Break, SendFailed, loopVars, Turn
<1>7. ASSUME NEW p \in Pairs, ReplaySkip(p) \/ ReplayDone(p) PROVE Turn
  BY <1>7 DEF ReplaySkip, ReplayDone, Replaying, ReplayNext, Turn
<1>8. ASSUME NEW p \in Pairs, ReplayApply(p) PROVE Turn
  <2>1. /\ UNCHANGED <<channelVars, events>> /\ pc = "replay" /\ replay.rest # <<>>
        /\ \/ ReplayNext /\ UNCHANGED <<pc, events_done>>
           \/ SendFailed \/ Break("ResyncRequired")
           \/ pc' = "select" /\ UNCHANGED events_done
    BY <1>8, Zenon DEF ReplayApply, Replaying
  <2> QED BY <2>1 DEF ReplayNext, Break, SendFailed, Turn
<1> QED BY <1>1, <1>2, <1>3, <1>4, <1>5, <1>6, <1>7, <1>8, Zenon DEF RuntimeStep

\* The first delta of a replay goes, the rest stays.
LEMMA ShorterTail ==
    ASSUME NEW q \in Seq(Frames), q # <<>>
    PROVE  Len(Tail(q)) \in Nat /\ Len(Tail(q)) = Len(q) - 1 /\ Len(q) \in Nat
OBVIOUS

LEMMA EndStep ==
    ASSUME Counting, TypeInv, RecoveryInv, EndInv, [Next]_vars PROVE EndInv'
<1>1. Parts
  BY TypeParts
<1>2. CASE Environment
  BY <1>2, Surroundings DEF loopVars, EndInv, FinishedIsClean
<1>3. CASE Returned \/ UNCHANGED vars
  <2>1. UNCHANGED <<open, shut, outOpen, events, fetch, phase, book, pc, outcome, events_done,
                    abandoned, replay>>
    BY <1>3, Zenon DEF Returned, vars, channelVars, pairVars, seedVars, loopVars
  <2> QED BY <2>1, Zenon DEF EndInv, FinishedIsClean, Drained
<1>4. CASE RuntimeStep
  <2>1. Turn
    BY <1>4, TurnOf
  <2>2. (events_done => ~open /\ events = <<>>)'
    <3>1. CASE EventsClosed
      BY <3>1 DEF EventsClosed, channelVars
    <3>2. CASE UNCHANGED events_done
      BY <2>1, <3>2 DEF Turn, EndInv, channelVars
    <3> QED BY <2>1, <3>1, <3>2, Zenon DEF Turn
  <2>3. (pc = "replay" => Len(replay.rest) <= MaxBuffered)'
    <3>1. CASE pc = "select" /\ \E p \in Pairs : replay'.rest = buf[p]
      BY <1>1, <3>1, Zenon DEF Parts, PairInv
    <3>2. CASE /\ pc = "replay" /\ replay.rest # <<>>
               /\ replay' = [replay EXCEPT !.rest = Tail(@)]
      <4>1. replay.rest \in Seq(Frames) /\ replay'.rest = Tail(replay.rest)
        BY <1>1, <3>2 DEF Parts, LoopInv
      <4>2. Len(replay.rest) <= MaxBuffered /\ MaxBuffered \in Nat
        BY <3>2, RuntimeAssumption DEF EndInv, RuntimeAssumption
      <4> QED BY <3>2, <4>1, <4>2, ShorterTail
    <3> QED BY <2>1, <3>1, <3>2, Zenon DEF Turn
  <2>4. ASSUME pc' = "done", outcome' = "Finished", ~shut', outOpen' PROVE Drained'
    <3>1. LoopEnds
      BY <2>1, <2>4 DEF Turn, channelVars
    <3>2. /\ pc = "select" /\ events_done /\ in_flight = 0 /\ abandoned' = 0
          /\ UNCHANGED <<open, events, fetch, phase, book>>
      BY <3>1 DEF LoopEnds, Break, channelVars, seedVars, pairVars
    <3>3. ~open /\ events = <<>>
      BY <3>2 DEF EndInv
    <3>4. \A p \in Pairs : ~seeding[p]
      <4>1. seeding \in [Pairs -> BOOLEAN] /\ Flagged(seeding) = 0
        BY <1>1, <3>2, Zenon DEF Parts, SeedInv, SeedOK, Flagged
      <4>2. \A p \in Pairs : seeding[p] => 0 \in Nat \ {0}
        BY <4>1, Zenon DEF Counting
      <4> QED BY <4>2
    <3>5. \A p \in Pairs : PairRecovery(p)
      BY <3>2 DEF RecoveryInv
    <3>6. \A p \in Pairs : fetch[p].status = "idle" /\ phase[p] \in {"Buffering", "Passthrough"}
      BY <1>1, <3>4 DEF Parts, SeedInv, SeedOK, PairInv
    <3> QED BY <3>2, <3>3, <3>4, <3>5, <3>6 DEF Drained, PairRecovery
  <2> QED BY <2>2, <2>3, <2>4 DEF EndInv, FinishedIsClean
<1> QED BY <1>2, <1>3, <1>4 DEF Next

\* The measure, from what a turn and the surroundings may do.
LEMMA LeftStep ==
    ASSUME TypeInv, TypeInv', [Next]_vars, shut
    PROVE  shut' /\ (RuntimeStep => Left' < Left) /\ (~RuntimeStep => Left' = Left)
<1>1. Parts /\ Parts'
  BY TypeParts
<1>2. pc \in {"select", "replay", "done"} /\ pc' \in {"select", "replay", "done"}
  BY <1>1 DEF Parts, LoopInv
<1>3. CASE RuntimeStep
  <2>1. Turn /\ pc # "done"
    BY <1>3, TurnOf, Zenon DEF RuntimeStep
  <2>2. shut'
    BY <2>1 DEF Turn, channelVars
  <2>3. pc = "replay" => Len(replay.rest) \in Nat
    BY <1>1 DEF Parts, LoopInv
  <2>. SUFFICES Left' < Left
    BY <1>3, <2>2
  <2>4. CASE pc' = "done"
    BY <1>2, <2>1, <2>3, <2>4 DEF Left
  <2>5. CASE pc' = "select"
    BY <1>2, <2>1, <2>3, <2>5 DEF Left, Turn
  <2>6. CASE pc' = "replay"
    <3>1. /\ pc = "replay" /\ replay.rest # <<>>
          /\ replay' = [replay EXCEPT !.rest = Tail(@)]
      BY <2>1, <2>6 DEF Turn
    <3>2. replay.rest \in Seq(Frames) /\ replay'.rest = Tail(replay.rest)
      BY <1>1, <3>1 DEF Parts, LoopInv
    <3> QED BY <2>6, <3>1, <3>2, ShorterTail DEF Left
  <2> QED BY <1>2, <2>4, <2>5, <2>6
<1>4. CASE ~RuntimeStep
  <2>1. Environment \/ Returned \/ UNCHANGED vars
    BY <1>4 DEF Next
  <2>2. UNCHANGED <<pc, replay>> /\ shut'
    BY <2>1, Surroundings, Zenon DEF Returned, vars, loopVars, channelVars
  <2> QED BY <1>4, <2>2 DEF Left
<1> QED BY <1>3, <1>4

=============================================================================

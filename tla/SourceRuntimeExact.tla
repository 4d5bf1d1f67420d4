-------------------------- MODULE SourceRuntimeExact --------------------------
(***************************************************************************)
(* The theorems about SourceRuntime.  For every venue class whose frames   *)
(* can be checked, each book emitted is the venue's own at the id it       *)
(* carries and the runtime implements BookStream.  For every class, types  *)
(* and seed accounting hold, no pair is stranded, a live feed has a synced *)
(* book, and feeds move along the edges of feed.rs.                        *)
(*                                                                         *)
(* The step lemmas take the facts they need about finite sets as the       *)
(* hypothesis Counting, which Counted proves once from the library.        *)
(***************************************************************************)
EXTENDS SourceRuntimeProofs

USE SMTT(20), ZenonT(20)
USE DEF venueVars, channelVars, pairVars, seedVars, feedVars, loopVars

\* The venue classes with a continuity check on every frame: all but the L3
\* books and the Monotonic predicate, which accepts any later frame.
Checked == Model # "L3" /\ (Model = "SeqDelta" => Predicate # "Monotonic")

\* The levels lv take each of the books a..b to the book b.
Bridge(p, a, b, lv) == \A v \in a..b : Overlay(history[p][v], lv) = history[p][b]

\* The oldest book a delta may be applied to.
First(d) == IF Predicate = "RangeInclusive" THEN d.sequence - 1 ELSE d.sequence

FrameExact(p, d) ==
    /\ d.update_id \in 0..version[p]
    /\ d.checksum \in {NoSum, history[p][d.update_id]}
    /\ (d.is_snapshot \/ Model = "FullRefresh") => d.levels = history[p][d.update_id]
    /\ (~d.is_snapshot /\ Model = "SeqDelta") =>
            First(d) \in 0..d.update_id /\ Bridge(p, First(d), d.update_id, d.levels)

ExactFrames(p) == {d \in Frames : FrameExact(p, d)}

ExactEvents == {e \in Events : e.kind = "Book" => FrameExact(e.pair, e.delta)}

BookExact(p, b) ==
    /\ b.state = "Synced" => b.last \in 0..version[p] /\ b.content = history[p][b.last]
    /\ b.state = "Empty" => b.last = NoId

Supply ==
    /\ \A p \in Pairs : Bridge(p, published[p], version[p], pending[p])
    /\ events \in Seq(ExactEvents)

Held ==
    /\ \A p \in Pairs : buf[p] \in Seq(ExactFrames(p))
    /\ \A p \in Pairs : (pc = "replay" /\ replay.pair = p) =>
            replay.rest \in Seq(ExactFrames(p))

Seeds == \A p \in Pairs, d \in Frames :
            (fetch[p].status = "ready" /\ fetch[p].seed = d) =>
                d.is_snapshot /\ FrameExact(p, d)

BooksExact == \A p \in Pairs, b \in Books : book[p] = b => BookExact(p, b)

ExactInv == Supply /\ Held /\ Seeds /\ BooksExact /\ EmittedExact

-----------------------------------------------------------------------------
(* Applying an exact frame to an exact book yields an exact book.          *)

LEMMA ProcessExact ==
    ASSUME Checked, Parts, NEW p \in Pairs, NEW b \in Books, NEW d \in Frames,
           FrameExact(p, d), d.is_snapshot, process(b, d).ok
    PROVE  process(b, d).book.content = history[p][d.update_id]
BY DEF process, Ok, Err, FrameExact, Books, Frames

LEMMA SyncedContent ==
    ASSUME NEW b \in Books, NEW d
    PROVE  Ok(synced(b, d)).book.content = b.content
BY Zenon DEF Ok, synced, Books

LEMMA ContinuousBridge ==
    ASSUME Checked, Model = "SeqDelta", NEW d \in Frames, NEW last \in Nat,
           continuous(last, d), First(d) <= d.update_id
    PROVE  last \in First(d)..d.update_id
<1>1. d.sequence \in Nat /\ d.update_id \in Nat
  BY DEF Frames
<1>2. CASE Predicate = "RangeInclusive"
  BY <1>1, <1>2 DEF continuous, First
<1>3. CASE Predicate = "ExactPrev"
  BY <1>1, <1>3 DEF continuous, First
<1> QED BY <1>2, <1>3, ModelAssumption DEF Checked, ModelAssumption

LEMMA AppliedExact ==
    ASSUME Checked, Parts, NEW p \in Pairs, NEW b \in Books, NEW d \in Frames,
           FrameExact(p, d), BookExact(p, b), d.is_snapshot \/ b.state # "Gapped",
           applied(b, d).ok
    PROVE  applied(b, d).book.content = history[p][d.update_id]
<1>1. CASE Model = "FullRefresh"
  <2> DEFINE e == [d EXCEPT !.is_snapshot = TRUE]
  <2>1. e \in Frames /\ e.is_snapshot /\ e.update_id = d.update_id
        /\ e.levels = d.levels /\ e.checksum = d.checksum /\ e.sequence = d.sequence
    BY Zenon DEF Frames
  <2>2. FrameExact(p, e)
    BY <1>1, <2>1 DEF FrameExact
  <2>3. applied(b, d) = processed(b, e)
    BY <1>1 DEF applied, apply_full_refresh
  <2> HIDE DEF e
  <2>4. process(b, e).ok /\ applied(b, d) = Ok(synced(process(b, e).book, e))
    BY <2>3 DEF processed, Err
  <2>5. process(b, e).book.content = history[p][d.update_id]
    BY <2>1, <2>2, <2>4, ProcessExact
  <2>6. process(b, e).book \in Books
    BY <2>1, ProcessType
  <2> QED BY <2>4, <2>5, <2>6, SyncedContent
<1>2. CASE Model = "SeqDelta"
  <2>1. /\ d.is_snapshot \/ (b.last # NoId /\ continuous(b.last, d))
        /\ process(b, d).ok /\ applied(b, d) = Ok(synced(process(b, d).book, d))
    BY <1>2 DEF applied, apply_seq_delta, processed, Err
  <2>2. process(b, d).book \in Books
    BY ProcessType
  <2>3. process(b, d).book.content = history[p][d.update_id]
    <3>1. CASE d.is_snapshot
      BY <2>1, <3>1, ProcessExact
    <3>2. CASE ~d.is_snapshot
      <4>1. b.last \in 0..version[p] /\ b.content = history[p][b.last]
        BY <2>1, <3>2 DEF BookExact, Books
      <4>2. b.last \in First(d)..d.update_id
        <5>1. b.last \in Nat
          BY <2>1, <3>2 DEF Books
        <5>2. First(d) <= d.update_id
          BY <1>2, <3>2 DEF FrameExact, Frames
        <5> QED BY <1>2, <2>1, <3>2, <5>1, <5>2, ContinuousBridge
      <4>3. Overlay(b.content, d.levels) = history[p][d.update_id]
        BY <1>2, <3>2, <4>1, <4>2 DEF FrameExact, Bridge
      <4>4. process(b, d) = Ok([b EXCEPT !.content = Overlay(b.content, d.levels)])
        BY <2>1, <3>2 DEF process, Err
      <4> QED BY <4>3, <4>4 DEF Ok, Books
    <3> QED BY <3>1, <3>2
  <2> QED BY <2>1, <2>2, <2>3, SyncedContent
<1>3. CASE Model = "ChecksumDelta"
  <2> DEFINE r == process(b, d)
             c == [r.book EXCEPT !.last = d.update_id]
  <2>1. r.book \in Books
    BY ProcessType
  <2>2. /\ r.ok /\ applied(b, d) = Ok(synced(c, d))
        /\ d.checksum # NoSum => c.content = d.checksum
        /\ d.checksum = NoSum => d.is_snapshot
    BY <1>3 DEF applied, apply_checksummed, Err
  <2>3. c.content = r.book.content /\ synced(c, d).content = c.content
    BY <2>1 DEF Books, synced
  <2>4. CASE d.checksum # NoSum
    BY <2>2, <2>3, <2>4 DEF FrameExact, Ok
  <2>5. CASE d.checksum = NoSum
    BY <2>2, <2>3, <2>5, ProcessExact DEF Ok
  <2> QED BY <2>4, <2>5
<1> QED BY <1>1, <1>2, <1>3, ModelAssumption DEF ModelAssumption, Checked

LEMMA ApplyExact ==
    ASSUME Checked, Parts, NEW p \in Pairs, NEW b \in Books, NEW d \in Frames,
           FrameExact(p, d), BookExact(p, b), d.is_snapshot \/ b.state # "Gapped",
           NEW r \in apply(b, d, VenueBooks(p))
    PROVE  /\ BookExact(p, r.book)
           /\ r.ok => /\ r.book.last \in 0..version[p]
                      /\ r.book.content = history[p][r.book.last]
<1>1. Outcome(r, d)
  BY ApplyOutcome
<1>2. CASE ~r.ok
  BY <1>1, <1>2 DEF Outcome, BookExact
<1>3. CASE r.ok
  <2>1. r = applied(b, d)
    BY <1>3 DEF apply, Err
  <2>2. r.book.content = history[p][d.update_id]
    BY <1>3, <2>1, AppliedExact
  <2> QED BY <1>1, <1>3, <2>2 DEF Outcome, BookExact, FrameExact
<1> QED BY <1>1, <1>2, <1>3 DEF Outcome

-----------------------------------------------------------------------------
(* Frames stay exact: the venue's past does not change.                    *)

LEMMA SameVenue ==
    ASSUME UNCHANGED <<version, history>>
    PROVE  /\ \A p \in Pairs : ExactFrames(p)' = ExactFrames(p)
           /\ ExactEvents' = ExactEvents
           /\ \A p, d : FrameExact(p, d)' <=> FrameExact(p, d)
           /\ \A p, b : BookExact(p, b)' <=> BookExact(p, b)
BY DEF ExactFrames, ExactEvents, FrameExact, Bridge, BookExact

LEMMA GrownFrame ==
    ASSUME TypeInv, NEW p \in Pairs, NEW k \in Keys, VenueChange(p, k), NEW q \in Pairs
    PROVE  /\ version[q] \in Nat /\ version'[q] \in Nat /\ version'[q] >= version[q]
           /\ \A v \in 0..version[q] : history'[q][v] = history[q][v]
<1>1. VenueInv
  BY TypeParts DEF Parts
<1>2. CASE q = p
  BY <1>1, <1>2 DEF VenueInv, HistoryOK, VenueChange
<1>3. CASE q # p
  BY <1>1, <1>3 DEF VenueInv, HistoryOK, VenueChange
<1> QED BY <1>2, <1>3

LEMMA GrownVenue ==
    ASSUME TypeInv, NEW p \in Pairs, NEW k \in Keys, VenueChange(p, k), NEW q \in Pairs
    PROVE  /\ \A d \in Frames : FrameExact(q, d) => FrameExact(q, d)'
           /\ \A b \in Books : BookExact(q, b) => BookExact(q, b)'
<1>1. /\ version[q] \in Nat /\ version'[q] \in Nat /\ version'[q] >= version[q]
      /\ \A v \in 0..version[q] : history'[q][v] = history[q][v]
  BY GrownFrame
<1>2. ASSUME NEW d \in Frames, FrameExact(q, d) PROVE FrameExact(q, d)'
  <2>1. d.update_id \in 0..version'[q]
        /\ history'[q][d.update_id] = history[q][d.update_id]
    BY <1>1, <1>2 DEF FrameExact
  <2>2. ASSUME ~d.is_snapshot, Model = "SeqDelta", Bridge(q, First(d), d.update_id, d.levels)
        PROVE  Bridge(q, First(d), d.update_id, d.levels)'
    <3> SUFFICES ASSUME NEW v \in First(d)..d.update_id
                 PROVE  Overlay(history'[q][v], d.levels) = history'[q][d.update_id]
      BY DEF Bridge
    <3>1. v \in 0..version[q]
      BY <1>1, <1>2, <2>2 DEF FrameExact, Frames
    <3> QED BY <1>1, <2>1, <2>2, <3>1 DEF Bridge
  <2> QED BY <1>2, <2>1, <2>2 DEF FrameExact
<1>3. ASSUME NEW b \in Books, BookExact(q, b) PROVE BookExact(q, b)'
  BY <1>1, <1>3 DEF BookExact, Books
<1> QED BY <1>2, <1>3

-----------------------------------------------------------------------------
(* ExactInv is inductive.                                                  *)

\* A sequence over a set is one over any larger set.
LEMMA SeqWiden ==
    ASSUME NEW S, NEW T, S \subseteq T, NEW q \in Seq(S)
    PROVE  q \in Seq(T)
OBVIOUS

\* A change of the venue's book extends what the pending levels bridge.
LEMMA ChangeExact ==
    ASSUME TypeInv, ExactInv, NEW p \in Pairs, NEW k \in Keys, VenueChange(p, k)
    PROVE  ExactInv'
<1>1. Parts
  BY TypeParts
<1>2. \A q \in Pairs : ExactFrames(q) \subseteq ExactFrames(q)'
  BY GrownVenue DEF ExactFrames
<1>3. ExactEvents \subseteq ExactEvents'
  <2> SUFFICES ASSUME NEW e \in ExactEvents PROVE e \in ExactEvents'
    OBVIOUS
  <2>1. CASE e.kind = "Book"
    BY <2>1, GrownVenue DEF ExactEvents, Events
  <2>2. CASE e.kind # "Book"
    BY <2>2 DEF ExactEvents
  <2> QED BY <2>1, <2>2
<1>4. Supply'
  <2>1. events' \in Seq(ExactEvents')
    BY <1>3, SeqWiden DEF VenueChange, ExactInv, Supply
  <2>2. ASSUME NEW q \in Pairs PROVE Bridge(q, published[q], version[q], pending[q])'
    <3>1. /\ version[q] \in Nat /\ version'[q] \in Nat /\ version'[q] >= version[q]
          /\ \A v \in 0..version[q] : history'[q][v] = history[q][v]
      BY GrownFrame
    <3>2. published'[q] = published[q] /\ published[q] \in 0..version[q]
      BY <1>1, <3>1 DEF VenueChange, Parts, VenueInv, HistoryOK
    <3>3. Bridge(q, published[q], version[q], pending[q])
      BY DEF ExactInv, Supply
    <3>4. CASE q # p
      <4>1. version'[q] = version[q] /\ pending'[q] = pending[q]
        BY <1>1, <3>4 DEF VenueChange, Parts, VenueInv
      <4> QED BY <3>1, <3>2, <3>3, <4>1 DEF Bridge
    <3>5. CASE q = p
      <4> DEFINE n == version[p] + 1
      <4>1. /\ version'[p] = n
            /\ history'[p][n] = [history[p][version[p]] EXCEPT ![k] = n]
            /\ pending'[p] = [pending[p] EXCEPT ![k] = n]
        BY <1>1, <3>1, <3>5 DEF VenueChange, Truth, Parts, VenueInv, HistoryOK
      <4>2. pending[p] \in Contents /\ n # 0
            /\ \A v \in 0..version[p] : history[p][v] \in Contents
        BY <1>1, <3>1, <3>5 DEF Parts, VenueInv
      <4>3. ASSUME NEW v \in published[p]..version[p]
            PROVE  Overlay(history'[p][v], pending'[p]) = history'[p][n]
        <5>1. Overlay(history[p][v], pending[p]) = history[p][version[p]]
          BY <3>3, <3>5 DEF Bridge
        <5>2. history'[p][v] = history[p][v] /\ history[p][v] \in Contents
          BY <3>1, <3>2, <3>5, <4>2
        <5>3. history[p][version[p]] \in Contents
          BY <3>1, <3>5, <4>2
        <5> QED BY <4>1, <4>2, <5>1, <5>2, <5>3 DEF Overlay, Contents
      <4>4. Overlay(history'[p][n], pending'[p]) = history'[p][n]
        <5>1. Overlay(history[p][version[p]], pending[p]) = history[p][version[p]]
          BY <3>1, <3>2, <3>3, <3>5 DEF Bridge
        <5>2. history[p][version[p]] \in Contents
          BY <3>1, <3>5, <4>2
        <5> QED BY <4>1, <4>2, <5>1, <5>2 DEF Overlay, Contents
      <4>5. \A v \in published[p]..n : v \in published[p]..version[p] \/ v = n
        BY <3>1, <3>2, <3>5
      <4> QED BY <3>2, <3>5, <4>1, <4>3, <4>4, <4>5 DEF Bridge
    <3> QED BY <3>4, <3>5
  <2> QED BY <2>1, <2>2 DEF Supply
<1>5. ASSUME NEW q \in Pairs
      PROVE  /\ \A d \in Frames : FrameExact(q, d) => FrameExact(q, d)'
             /\ \A b \in Books : BookExact(q, b) => BookExact(q, b)'
  BY GrownVenue
<1>6. UNCHANGED <<buf, pc, replay, fetch, book>>
  BY DEF VenueChange
<1>7. Held'
  <2>1. \A q \in Pairs : Seq(ExactFrames(q)) \subseteq Seq(ExactFrames(q)')
    BY <1>2, SeqWiden
  <2> QED BY <1>6, <2>1 DEF ExactInv, Held
<1>8. Seeds'
  BY <1>5, <1>6 DEF ExactInv, Seeds
<1>9. BooksExact'
  BY <1>5, <1>6 DEF ExactInv, BooksExact
<1>10. EmittedExact'
  <2> SUFFICES ASSUME NEW q \in Pairs, emitted[q].id # NoId
               PROVE  /\ emitted[q].id \in DOMAIN history'[q]
                      /\ emitted[q].content = history'[q][emitted[q].id]
    BY Zenon DEF EmittedExact, VenueChange
  <2>1. /\ version[q] \in Nat /\ version'[q] \in Nat /\ version'[q] >= version[q]
        /\ \A v \in 0..version[q] : history'[q][v] = history[q][v]
    BY GrownFrame
  <2>2. DOMAIN history[q] = 0..version[q] /\ DOMAIN history'[q] = 0..version'[q]
    BY <1>1, ChangeType, TypeParts DEF Parts, VenueInv
  <2> QED BY <2>1, <2>2 DEF ExactInv, EmittedExact
<1> QED BY <1>4, <1>7, <1>8, <1>9, <1>10 DEF ExactInv

\* What every other step keeps, by what it leaves alone.
LEMMA KeepsExact ==
    ASSUME ExactInv, UNCHANGED <<version, history>>
    PROVE  /\ UNCHANGED <<published, pending, events>> => Supply'
           /\ UNCHANGED <<published, pending>> /\ events # <<>> /\ events' = Tail(events)
                => Supply'
           /\ UNCHANGED buf /\ (pc' # "replay" \/ UNCHANGED <<pc, replay>>) => Held'
           /\ UNCHANGED fetch => Seeds'
           /\ UNCHANGED book => BooksExact'
           /\ UNCHANGED emitted => EmittedExact'
<1>1. /\ \A p \in Pairs : ExactFrames(p)' = ExactFrames(p)
      /\ ExactEvents' = ExactEvents
      /\ \A p, d : FrameExact(p, d)' <=> FrameExact(p, d)
      /\ \A p, b : BookExact(p, b)' <=> BookExact(p, b)
  BY SameVenue
<1>2. events # <<>> => Tail(events) \in Seq(ExactEvents)
  BY DEF ExactInv, Supply
<1>3. UNCHANGED <<published, pending>> =>
        \A p \in Pairs : Bridge(p, published[p], version[p], pending[p])'
  BY DEF ExactInv, Supply, Bridge
<1>4. UNCHANGED <<published, pending, events>> => Supply'
  BY <1>1, <1>3 DEF ExactInv, Supply
<1>5. UNCHANGED <<published, pending>> /\ events # <<>> /\ events' = Tail(events)
        => Supply'
  BY <1>1, <1>2, <1>3 DEF Supply
<1>6. UNCHANGED buf /\ (pc' # "replay" \/ UNCHANGED <<pc, replay>>) => Held'
  BY <1>1 DEF ExactInv, Held
<1>7. UNCHANGED fetch => Seeds'
  BY <1>1 DEF ExactInv, Seeds
<1>8. UNCHANGED book => BooksExact'
  BY <1>1 DEF ExactInv, BooksExact
<1>9. UNCHANGED emitted => EmittedExact'
  BY DEF ExactInv, EmittedExact
<1> QED BY <1>4, <1>5, <1>6, <1>7, <1>8, <1>9

LEMMA PublishExact ==
    ASSUME TypeInv, ExactInv, NEW p \in Pairs, VenuePublish(p)
    PROVE  ExactInv'
<1>1. Parts /\ UNCHANGED <<version, history, buf, pc, replay, fetch, book, emitted>>
      /\ published' = [published EXCEPT ![p] = version[p]]
      /\ pending' = [pending EXCEPT ![p] = Empty]
  BY TypeParts DEF VenuePublish
<1>2. Held' /\ Seeds' /\ BooksExact' /\ EmittedExact'
  BY <1>1, KeepsExact
<1>3. ASSUME NEW q \in Pairs PROVE Bridge(q, published[q], version[q], pending[q])'
  <2>1. CASE q # p
    BY <1>1, <2>1 DEF ExactInv, Supply, Bridge, Parts, VenueInv
  <2>2. CASE q = p
    <3>1. version[p] \in Nat /\ history[p][version[p]] \in Contents
      BY <1>1 DEF Parts, VenueInv
    <3>2. Overlay(history[p][version[p]], Empty) = history[p][version[p]]
      BY <3>1 DEF Overlay, Empty, Contents
    <3>3. published'[p] = version[p] /\ pending'[p] = Empty /\ version' = version
          /\ history' = history
      BY <1>1 DEF Parts, VenueInv
    <3> QED BY <2>2, <3>1, <3>2, <3>3, Singleton, Zenon DEF Bridge
  <2> QED BY <2>1, <2>2
<1>4. CASE events' = events
  <2>1. events' \in Seq(ExactEvents')
    BY <1>1, <1>4, SameVenue, Zenon DEF ExactInv, Supply
  <2> QED BY <1>2, <1>3, <2>1 DEF ExactInv, Supply
<1>5. ASSUME NEW bad \in Faulty, NEW confirmed \in BOOLEAN, NEW sum \in Checksums(p),
             events' = events \o (IF confirmed THEN <<GapEvent>> ELSE <<>>)
                             \o <<BookEvent(p, DeltaFrame(p, sum, bad))>>
      PROVE  ExactInv'
  <2> DEFINE g == IF confirmed THEN <<GapEvent>> ELSE <<>>
             d == DeltaFrame(p, sum, bad)
             e == BookEvent(p, d)
  <2>1. bad \in BOOLEAN
    BY Zenon DEF Faulty
  <2>2. d \in Frames
    BY <1>1, <2>1, FrameTypes, Zenon DEF Parts
  <2>3. FrameExact(p, d)
    <3>1. d.update_id = version[p] /\ ~d.is_snapshot /\ d.checksum = sum
          /\ d.update_id \in 0..version[p]
      BY <1>1 DEF DeltaFrame, Parts, VenueInv
    <3>2. sum \in {NoSum, history[p][version[p]]}
      BY DEF Checksums, Truth
    <3>3. Model = "FullRefresh" => d.levels = history[p][version[p]]
      BY Zenon DEF DeltaFrame, Truth
    <3>4. CASE Model = "SeqDelta"
      <4>1. d.levels = pending[p] /\ published[p] \in 0..version[p]
        BY <1>1, <3>4 DEF DeltaFrame, Parts, VenueInv, HistoryOK
      <4>2. First(d) = published[p] \/ First(d) = version[p]
        <5>1. published[p] \in Nat
          BY <1>1 DEF Parts, VenueInv
        <5>2. CASE Predicate = "RangeInclusive"
          BY <5>1, <5>2 DEF First, DeltaFrame
        <5>3. CASE Predicate = "ExactPrev"
          BY <5>3 DEF First, DeltaFrame
        <5>4. CASE Predicate = "Monotonic"
          BY <5>4 DEF First, DeltaFrame
        <5> QED BY <5>2, <5>3, <5>4, ModelAssumption DEF ModelAssumption
      <4>3. Bridge(p, published[p], version[p], pending[p])
        BY DEF ExactInv, Supply
      <4>4. First(d) \in 0..version[p] /\ Bridge(p, First(d), version[p], pending[p])
        <5>1. version[p] \in Nat
          BY <1>1 DEF Parts, VenueInv
        <5>2. Bridge(p, version[p], version[p], pending[p])
          BY <4>1, <4>3, <5>1 DEF Bridge
        <5> HIDE DEF d
        <5> QED BY <4>1, <4>2, <4>3, <5>1, <5>2
      <4> QED BY <3>1, <3>2, <3>4, <4>1, <4>4 DEF FrameExact
    <3> QED BY <3>1, <3>2, <3>3, <3>4 DEF FrameExact
  <2>4. e \in Events /\ e.pair = p /\ e.delta = d
    BY <2>2 DEF BookEvent, Events
  <2>5. GapEvent \in ExactEvents /\ e \in ExactEvents
    BY <2>3, <2>4 DEF GapEvent, Events, ExactEvents
  <2>6. g \in Seq(ExactEvents) /\ <<e>> \in Seq(ExactEvents) /\ events \in Seq(ExactEvents)
    BY <2>5 DEF ExactInv, Supply
  <2> HIDE DEF g, e, d
  <2>7. events \o g \in Seq(ExactEvents)
    BY <2>6
  <2>8. (events \o g) \o <<e>> \in Seq(ExactEvents)
    BY <2>6, <2>7
  <2>9. events' \in Seq(ExactEvents')
    BY <1>1, <1>5, <2>8, SameVenue DEF g, e, d
  <2> QED BY <1>2, <1>3, <2>9 DEF ExactInv, Supply
<1> QED BY <1>4, <1>5, Zenon DEF VenuePublish

LEMMA SnapshotFrameExact ==
    ASSUME Checked, Parts, NEW p \in Pairs, NEW v \in 0..version[p], NEW bad \in BOOLEAN
    PROVE  /\ SnapshotFrame(p, v, bad) \in Frames
           /\ SnapshotFrame(p, v, bad).is_snapshot
           /\ FrameExact(p, SnapshotFrame(p, v, bad))
BY FrameTypes, Zenon DEF Parts, SnapshotFrame, FrameExact, Checked

LEMMA SnapshotExact ==
    ASSUME Checked, TypeInv, ExactInv, NEW p \in Pairs, VenueSnapshot(p)
    PROVE  ExactInv'
<1>1. Parts /\ UNCHANGED <<version, history, published, pending, buf, pc, replay, fetch,
                           book, emitted>>
  BY TypeParts, Zenon DEF VenueSnapshot
<1>2. Held' /\ Seeds' /\ BooksExact' /\ EmittedExact'
  BY <1>1, KeepsExact
<1>3. CASE events' = events
  BY <1>1, <1>2, <1>3, KeepsExact DEF ExactInv
<1>4. ASSUME NEW bad \in Faulty,
             NEW v \in IF seeds_out_of_band THEN Served(p) ELSE {published[p]},
             events' = Append(events, BookEvent(p, SnapshotFrame(p, v, bad)))
      PROVE  ExactInv'
  <2> DEFINE d == SnapshotFrame(p, v, bad)
  <2>1. bad \in BOOLEAN
    BY Zenon DEF Faulty
  <2>2. v \in 0..version[p]
    BY <1>1 DEF Served, Parts, VenueInv, HistoryOK
  <2>3. d \in Frames /\ FrameExact(p, d)
    BY <1>1, <2>1, <2>2, SnapshotFrameExact
  <2> HIDE DEF d
  <2>4. BookEvent(p, d) \in ExactEvents
    BY <2>3 DEF BookEvent, Events, ExactEvents
  <2>5. Append(events, BookEvent(p, d)) \in Seq(ExactEvents)
    BY <2>4 DEF ExactInv, Supply
  <2>6. events' \in Seq(ExactEvents')
    BY <1>1, <1>4, <2>5, SameVenue, Zenon DEF d
  <2>7. \A q \in Pairs : Bridge(q, published[q], version[q], pending[q])'
    BY <1>1 DEF ExactInv, Supply, Bridge
  <2> QED BY <1>2, <2>6, <2>7 DEF ExactInv, Supply
<1> QED BY <1>3, <1>4, Zenon DEF VenueSnapshot

LEMMA FetchExact ==
    ASSUME Checked, TypeInv, ExactInv, NEW p \in Pairs, FetchDone(p)
    PROVE  ExactInv'
<1>1. Parts /\ UNCHANGED <<version, history, published, pending, events, buf, pc, replay,
                           book, emitted>>
  BY TypeParts, Zenon DEF FetchDone
<1>2. Supply' /\ Held' /\ BooksExact' /\ EmittedExact'
  BY <1>1, KeepsExact
<1>3. fetch \in [Pairs -> Fetches]
  BY <1>1 DEF Parts, SeedInv, SeedOK
<1>4. \A q, d : FrameExact(q, d)' <=> FrameExact(q, d)
  BY <1>1, SameVenue
<1>5. CASE fetch' = [fetch EXCEPT ![p] = [status |-> "failed"]]
  <2>1. Seeds'
    BY <1>3, <1>4, <1>5 DEF ExactInv, Seeds
  <2> QED BY <1>2, <2>1 DEF ExactInv
<1>6. ASSUME NEW bad \in Faulty, NEW v \in Served(p),
             fetch' = [fetch EXCEPT ![p] =
                        [status |-> "ready", seed |-> SnapshotFrame(p, v, bad)]]
      PROVE  ExactInv'
  <2>1. bad \in BOOLEAN
    BY Zenon DEF Faulty
  <2>2. v \in 0..version[p]
    <3>1. version[p] \in Nat
      BY <1>1, Zenon DEF Parts, VenueInv
    <3> QED BY <3>1, ServedRange, Zenon
  <2>3. SnapshotFrame(p, v, bad).is_snapshot /\ FrameExact(p, SnapshotFrame(p, v, bad))
    BY <1>1, <2>1, <2>2, SnapshotFrameExact
  <2>4. Seeds'
    BY <1>3, <1>4, <1>6, <2>3, Zenon DEF ExactInv, Seeds
  <2> QED BY <1>2, <2>4 DEF ExactInv
<1> QED BY <1>5, <1>6, Zenon DEF FetchDone

\* A book that stays exact, and the one that is sent.
LEMMA SetExact ==
    ASSUME Parts, ExactInv, UNCHANGED <<version, history>>, NEW p \in Pairs,
           NEW b \in Books, SetBook(p, b), BookExact(p, b)
    PROVE  /\ BooksExact'
           /\ (emit_book(p, b) /\ b.last \in 0..version[p]
                  /\ b.content = history[p][b.last]) => EmittedExact'
<1>1. \A q, c : BookExact(q, c)' <=> BookExact(q, c)
  BY SameVenue
<1>2. book' = [book EXCEPT ![p] = b] /\ book \in [Pairs -> Books]
  BY DEF SetBook, Parts, PairInv
<1>3. BooksExact'
  BY <1>1, <1>2 DEF ExactInv, BooksExact
<1>4. ASSUME emit_book(p, b), b.last \in 0..version[p], b.content = history[p][b.last]
      PROVE  EmittedExact'
  <2>1. DOMAIN history[p] = 0..version[p]
    BY DEF Parts, VenueInv
  <2> QED BY <1>4, <2>1, Zenon DEF ExactInv, EmittedExact, emit_book, Parts, EmitInv
<1> QED BY <1>3, <1>4

LEMMA SettledSeeds ==
    ASSUME Parts, Seeds, UNCHANGED <<version, history>>, NEW p \in Pairs,
           NEW s, NEW f, NEW n, f \in [Pairs -> Fetches],
           \A q \in Pairs : f[q] = fetch[q] \/ f[q].status # "ready",
           request_reseed(p, s, f, n) \/ no_reseed(s, f, n)
    PROVE  Seeds'
<1>1. \A q, d : FrameExact(q, d)' <=> FrameExact(q, d)
  BY SameVenue, Zenon
<1>2. CASE fetch' = f
  BY <1>1, <1>2, Zenon DEF Seeds
<1>3. CASE fetch' = [f EXCEPT ![p] = [status |-> "flying"]]
  BY <1>1, <1>3 DEF Seeds
<1> QED BY <1>2, <1>3, Zenon DEF request_reseed, no_reseed

LEMMA ApplySeedExact ==
    ASSUME Checked, Parts, ExactInv, UNCHANGED <<version, history>>, pc = "select",
           NEW p \in Pairs, NEW d \in Frames, FrameExact(p, d), d.is_snapshot,
           NEW s, NEW f, NEW n, f \in [Pairs -> Fetches],
           \A q \in Pairs : f[q] = fetch[q] \/ f[q].status # "ready",
           apply_seed(p, d, s, f, n)
    PROVE  Held' /\ Seeds' /\ BooksExact' /\ EmittedExact'
<1>1. PICK r \in apply(book[p], d, VenueBooks(p)) :
        /\ SetBook(p, r.book)
        /\ \/ /\ request_reseed(p, s, f, n) \/ no_reseed(s, f, n)
              /\ pc' # "replay"
              /\ UNCHANGED <<buf, emitted>>
           \/ /\ r.ok /\ emit_book(p, r.book)
              /\ buf' = [buf EXCEPT ![p] = <<>>]
              /\ replay' = [pair |-> p, snap_id |-> d.update_id, rest |-> buf[p]]
              /\ no_reseed(s, f, n)
  BY Zenon DEF apply_seed, Break, SendFailed, Continue
<1>2. book[p] \in Books /\ BookExact(p, book[p])
  BY Zenon DEF Parts, PairInv, ExactInv, BooksExact
<1>3. r.book \in Books
  BY <1>2, ApplyOutcome, Zenon DEF Outcome
<1>4. /\ BookExact(p, r.book)
      /\ r.ok => /\ r.book.last \in 0..version[p]
                 /\ r.book.content = history[p][r.book.last]
  BY <1>2, ApplyExact
<1>5. BooksExact' /\ (r.ok /\ emit_book(p, r.book) => EmittedExact')
  BY <1>1, <1>3, <1>4, SetExact, Zenon
<1>6. Seeds'
  BY <1>1, SettledSeeds, Zenon DEF ExactInv
<1>7. CASE pc' # "replay" /\ UNCHANGED <<buf, emitted>>
  BY <1>5, <1>6, <1>7, KeepsExact, Zenon
<1>8. CASE /\ r.ok /\ emit_book(p, r.book)
           /\ buf' = [buf EXCEPT ![p] = <<>>]
           /\ replay' = [pair |-> p, snap_id |-> d.update_id, rest |-> buf[p]]
  <2>1. \A q \in Pairs : ExactFrames(q)' = ExactFrames(q)
    BY SameVenue, Zenon
  <2>2. buf[p] \in Seq(ExactFrames(p)) /\ replay'.pair = p /\ replay'.rest = buf[p]
    BY <1>8, Zenon DEF ExactInv, Held
  <2>3. ASSUME NEW q \in Pairs PROVE buf'[q] \in Seq(ExactFrames(q))
    <3>1. buf'[q] = IF q = p THEN <<>> ELSE buf[q]
      BY <1>8, Zenon DEF Parts, PairInv
    <3>2. buf[q] \in Seq(ExactFrames(q))
      BY Zenon DEF ExactInv, Held
    <3> QED BY <3>1, <3>2, EmptyIn, Zenon
  <2>4. Held'
    BY <2>1, <2>2, <2>3, Zenon DEF Held
  <2> QED BY <1>5, <1>6, <1>8, <2>4, Zenon
<1> QED BY <1>1, <1>7, <1>8, Zenon

LEMMA RecvBookExact ==
    ASSUME Parts, ExactInv, NEW p \in Pairs, RecvBook(p)
    PROVE  /\ UNCHANGED <<version, history>> /\ Supply'
           /\ delta \in Frames /\ FrameExact(p, delta) /\ pc = "select"
<1>1. events # <<>> /\ Head(events).kind = "Book" /\ Head(events).pair = p
      /\ events' = Tail(events) /\ pc = "select"
      /\ UNCHANGED <<version, history, published, pending>>
  BY Zenon DEF RecvBook, Selecting
<1>2. Head(events) \in ExactEvents
  BY <1>1 DEF ExactInv, Supply
<1>3. delta \in Frames /\ FrameExact(p, delta)
  BY <1>1, <1>2 DEF ExactEvents, Events, delta
<1> QED BY <1>1, <1>3, KeepsExact

LEMMA RecvSeedExact ==
    ASSUME Checked, TypeInv, ExactInv, NEW p \in Pairs, RecvSeed(p)
    PROVE  ExactInv'
<1>1. Parts /\ RecvBook(p) /\ delta.is_snapshot
      /\ apply_seed(p, delta, seeding, fetch, in_flight)
  BY TypeParts DEF RecvSeed
<1>2. /\ UNCHANGED <<version, history>> /\ Supply'
      /\ delta \in Frames /\ FrameExact(p, delta) /\ pc = "select"
  BY <1>1, RecvBookExact
<1>3. fetch \in [Pairs -> Fetches]
  BY <1>1 DEF Parts, SeedInv, SeedOK
<1>4. Held' /\ Seeds' /\ BooksExact' /\ EmittedExact'
  BY <1>1, <1>2, <1>3, ApplySeedExact
<1> QED BY <1>2, <1>4 DEF ExactInv

\* The result of a fetch: the pair's flag is cleared before anything else.
LEMMA ResultExact ==
    ASSUME Parts, ExactInv, NEW p \in Pairs, RecvSeedResult(p)
    PROVE  /\ UNCHANGED <<version, history>> /\ Supply' /\ pc = "select"
           /\ [fetch EXCEPT ![p] = [status |-> "idle"]] \in [Pairs -> Fetches]
           /\ \A q \in Pairs : \/ [fetch EXCEPT ![p] = [status |-> "idle"]][q] = fetch[q]
                               \/ [fetch EXCEPT ![p] = [status |-> "idle"]][q].status # "ready"
<1>1. UNCHANGED <<version, history, published, pending, events>> /\ pc = "select"
  BY DEF RecvSeedResult, Selecting
<1>2. fetch \in [Pairs -> Fetches]
  BY DEF Parts, SeedInv, SeedOK
<1>3. [status |-> "idle"] \in Fetches
  BY DEF Fetches
<1> QED BY <1>1, <1>2, <1>3, KeepsExact

LEMMA SeedReadyExact ==
    ASSUME Checked, TypeInv, ExactInv, NEW p \in Pairs, SeedReady(p)
    PROVE  ExactInv'
<1> DEFINE f == [fetch EXCEPT ![p] = [status |-> "idle"]]
           s == [seeding EXCEPT ![p] = FALSE]
<1>1. Parts /\ RecvSeedResult(p) /\ fetch[p].status = "ready"
  BY TypeParts DEF SeedReady
<1>2. /\ UNCHANGED <<version, history>> /\ Supply' /\ pc = "select"
      /\ f \in [Pairs -> Fetches]
      /\ \A q \in Pairs : f[q] = fetch[q] \/ f[q].status # "ready"
  BY <1>1, ResultExact
<1>3. fetch[p].seed \in Frames
  BY <1>1 DEF Parts, SeedInv, SeedOK, Fetches
<1>4. PICK d \in Frames : fetch[p].seed = d
  BY <1>3
<1>5. d.is_snapshot /\ FrameExact(p, d)
  BY <1>1, <1>4 DEF ExactInv, Seeds
<1>6. apply_seed(p, d, s, f, in_flight - 1)
  BY <1>4, Zenon DEF SeedReady
<1> HIDE DEF f, s
<1>7. Held' /\ Seeds' /\ BooksExact' /\ EmittedExact'
  BY <1>1, <1>2, <1>5, <1>6, ApplySeedExact
<1> QED BY <1>2, <1>7 DEF ExactInv

LEMMA SeedFailedExact ==
    ASSUME TypeInv, ExactInv, NEW p \in Pairs, SeedFailed(p)
    PROVE  ExactInv'
<1> DEFINE f == [fetch EXCEPT ![p] = [status |-> "idle"]]
           s == [seeding EXCEPT ![p] = FALSE]
<1>1. Parts /\ RecvSeedResult(p)
  BY TypeParts DEF SeedFailed
<1>2. /\ UNCHANGED <<version, history>> /\ Supply' /\ pc = "select"
      /\ f \in [Pairs -> Fetches]
      /\ \A q \in Pairs : f[q] = fetch[q] \/ f[q].status # "ready"
  BY <1>1, ResultExact
<1>3. /\ request_reseed(p, s, f, in_flight - 1) \/ no_reseed(s, f, in_flight - 1)
      /\ UNCHANGED <<buf, book, emitted>> /\ pc' # "replay"
  BY <1>2, Zenon DEF SeedFailed, Continue, Break
<1> HIDE DEF f, s
<1>4. Seeds'
  BY <1>1, <1>2, <1>3, SettledSeeds, Zenon DEF ExactInv
<1> QED BY <1>2, <1>3, <1>4, KeepsExact DEF ExactInv

LEMMA BufferExact ==
    ASSUME TypeInv, ExactInv, NEW p \in Pairs, BufferDelta(p)
    PROVE  ExactInv'
<1>1. Parts /\ RecvBook(p) /\ UNCHANGED <<fetch, book, emitted, pc, replay>>
      /\ buf' = [buf EXCEPT ![p] = newest(Append(buf[p], delta))]
  BY TypeParts DEF BufferDelta
<1>2. /\ UNCHANGED <<version, history>> /\ Supply'
      /\ delta \in Frames /\ FrameExact(p, delta) /\ pc = "select"
  BY <1>1, RecvBookExact
<1>3. \A q \in Pairs : ExactFrames(q)' = ExactFrames(q)
  BY <1>2, SameVenue
<1>4. newest(Append(buf[p], delta)) \in Seq(ExactFrames(p))
  <2>1. delta \in ExactFrames(p)
    BY <1>2 DEF ExactFrames
  <2>2. Append(buf[p], delta) \in Seq(ExactFrames(p))
    BY <2>1 DEF ExactInv, Held
  <2> QED BY <2>2, NewestType, Zenon
<1>5. Held'
  BY <1>1, <1>2, <1>3, <1>4 DEF ExactInv, Held, Parts, PairInv
<1> QED BY <1>1, <1>2, <1>5, KeepsExact DEF ExactInv

LEMMA ApplyDeltaExact ==
    ASSUME Checked, TypeInv, RecoveryInv, ExactInv, NEW p \in Pairs, ApplyDelta(p)
    PROVE  ExactInv'
<1>1. Parts /\ RecvBook(p) /\ phase[p] = "Passthrough"
  BY TypeParts DEF ApplyDelta
<1>2. /\ UNCHANGED <<version, history>> /\ Supply'
      /\ delta \in Frames /\ FrameExact(p, delta) /\ pc = "select"
  BY <1>1, RecvBookExact, Zenon
<1>3. PICK r \in apply(book[p], delta, VenueBooks(p)) :
        /\ SetBook(p, r.book) /\ pc' # "replay"
        /\ \/ r.ok /\ emit_book(p, r.book) /\ UNCHANGED buf
           \/ UNCHANGED <<buf, emitted>>
           \/ buf' = [buf EXCEPT ![p] = <<delta>>] /\ UNCHANGED emitted
        /\ \/ UNCHANGED fetch
           \/ request_reseed(p, seeding, fetch, in_flight)
  BY <1>2 DEF ApplyDelta, Continue, SendFailed, Break
<1>4. book[p] \in Books /\ BookExact(p, book[p]) /\ fetch \in [Pairs -> Fetches]
  BY <1>1, Zenon DEF Parts, PairInv, SeedInv, SeedOK, ExactInv, BooksExact
<1>5. book[p].state # "Gapped"
  BY <1>1, <1>2, Zenon DEF RecoveryInv, PairRecovery
<1>6. r.book \in Books
  BY <1>2, <1>4, ApplyOutcome, Zenon DEF Outcome
<1>7. /\ BookExact(p, r.book)
      /\ r.ok => /\ r.book.last \in 0..version[p]
                 /\ r.book.content = history[p][r.book.last]
  BY <1>1, <1>2, <1>4, <1>5, ApplyExact, Zenon
<1>8. BooksExact' /\ (r.ok /\ emit_book(p, r.book) => EmittedExact')
  BY <1>1, <1>2, <1>3, <1>6, <1>7, SetExact, Zenon
<1>9. EmittedExact'
  BY <1>2, <1>3, <1>8, KeepsExact
<1>10. Seeds'
  BY <1>1, <1>2, <1>3, <1>4, SettledSeeds, KeepsExact, Zenon DEF ExactInv
<1>11. Held'
  <2>1. CASE UNCHANGED buf
    BY <1>2, <1>3, <2>1, KeepsExact
  <2>2. CASE buf' = [buf EXCEPT ![p] = <<delta>>]
    <3>1. \A q \in Pairs : ExactFrames(q)' = ExactFrames(q)
      BY <1>2, SameVenue
    <3>2. <<delta>> \in Seq(ExactFrames(p))
      BY <1>2 DEF ExactFrames
    <3> QED BY <1>1, <1>3, <2>2, <3>1, <3>2, Zenon DEF ExactInv, Held, Parts, PairInv
  <2> QED BY <1>3, <2>1, <2>2
<1> QED BY <1>2, <1>8, <1>9, <1>10, <1>11 DEF ExactInv

LEMMA ReplayExact ==
    ASSUME Parts, ExactInv, NEW p \in Pairs, Replaying(p), replay.rest # <<>>
    PROVE  /\ UNCHANGED <<version, history>> /\ Supply' /\ pc = "replay" /\ replay.pair = p
           /\ next \in Frames /\ FrameExact(p, next)
           /\ replay.rest \in Seq(ExactFrames(p))
           /\ Tail(replay.rest) \in Seq(ExactFrames(p))
<1>1. UNCHANGED <<version, history, published, pending, events>> /\ pc = "replay"
      /\ replay.pair = p
  BY Zenon DEF Replaying
<1>2. replay.rest \in Seq(ExactFrames(p))
  BY <1>1 DEF ExactInv, Held
<1>3. next \in ExactFrames(p) /\ Tail(replay.rest) \in Seq(ExactFrames(p))
  BY <1>2 DEF next
<1> QED BY <1>1, <1>2, <1>3, KeepsExact, Zenon DEF ExactFrames

\* What is left to replay is still exact.
LEMMA NextHeld ==
    ASSUME Parts, ExactInv, NEW p \in Pairs, Replaying(p), replay.rest # <<>>,
           ReplayNext, UNCHANGED buf
    PROVE  Held'
<1>1. /\ UNCHANGED <<version, history>> /\ pc = "replay" /\ replay.pair = p
      /\ Tail(replay.rest) \in Seq(ExactFrames(p))
  BY ReplayExact
<1>2. \A q \in Pairs : ExactFrames(q)' = ExactFrames(q)
  BY <1>1, SameVenue
<1>3. replay' = [replay EXCEPT !.rest = Tail(replay.rest)]
  BY DEF ReplayNext
<1>4. replay \in [pair : Pairs, snap_id : Nat, rest : Seq(Frames)]
  BY <1>1 DEF Parts, LoopInv
<1>5. replay'.pair = p /\ replay'.rest = Tail(replay.rest)
  BY <1>1, <1>3, <1>4
<1> QED BY <1>1, <1>2, <1>5 DEF ExactInv, Held

LEMMA ReplaySkipExact ==
    ASSUME TypeInv, ExactInv, NEW p \in Pairs, ReplaySkip(p)
    PROVE  ExactInv'
<1>1. Parts /\ Replaying(p) /\ replay.rest # <<>> /\ ReplayNext
      /\ UNCHANGED <<buf, book, fetch, emitted>>
  BY TypeParts DEF ReplaySkip
<1>2. UNCHANGED <<version, history>> /\ Supply'
  BY <1>1, ReplayExact
<1>3. Held'
  BY <1>1, NextHeld
<1> QED BY <1>1, <1>2, <1>3, KeepsExact DEF ExactInv

LEMMA ReplayApplyExact ==
    ASSUME Checked, TypeInv, RecoveryInv, ExactInv, NEW p \in Pairs, ReplayApply(p)
    PROVE  ExactInv'
<1>1. Parts /\ Replaying(p) /\ replay.rest # <<>>
  BY TypeParts, Zenon DEF ReplayApply
<1>2. /\ UNCHANGED <<version, history>> /\ Supply' /\ pc = "replay" /\ replay.pair = p
      /\ next \in Frames /\ FrameExact(p, next)
      /\ replay.rest \in Seq(ExactFrames(p))
  BY <1>1, ReplayExact
<1>3. PICK r \in apply(book[p], next, VenueBooks(p)) :
        /\ SetBook(p, r.book)
        /\ \/ r.ok /\ emit_book(p, r.book) /\ UNCHANGED <<buf, fetch>> /\ ReplayNext
           \/ pc' # "replay" /\ UNCHANGED <<buf, fetch, emitted>>
           \/ /\ buf' = [buf EXCEPT ![p] = newest(replay.rest)]
              /\ request_reseed(p, seeding, fetch, in_flight)
              /\ pc' # "replay" /\ UNCHANGED emitted
  BY Zenon DEF ReplayApply, SendFailed, Break
<1>4. book[p] \in Books /\ BookExact(p, book[p]) /\ fetch \in [Pairs -> Fetches]
  BY <1>1, Zenon DEF Parts, PairInv, SeedInv, SeedOK, ExactInv, BooksExact
<1>5. book[p].state # "Gapped"
  BY <1>2 DEF RecoveryInv, PairRecovery
<1>6. r.book \in Books
  BY <1>2, <1>4, ApplyOutcome, Zenon DEF Outcome
<1>7. /\ BookExact(p, r.book)
      /\ r.ok => /\ r.book.last \in 0..version[p]
                 /\ r.book.content = history[p][r.book.last]
  BY <1>1, <1>2, <1>4, <1>5, ApplyExact, Zenon
<1>8. BooksExact' /\ (r.ok /\ emit_book(p, r.book) => EmittedExact')
  BY <1>1, <1>2, <1>3, <1>6, <1>7, SetExact, Zenon
<1>9. EmittedExact'
  BY <1>2, <1>3, <1>8, KeepsExact, Zenon
<1>10. Seeds'
  BY <1>1, <1>2, <1>3, <1>4, SettledSeeds, KeepsExact, Zenon DEF ExactInv
<1>11. Held'
  <2>1. CASE UNCHANGED buf /\ ReplayNext
    BY <1>1, <2>1, NextHeld
  <2>2. CASE UNCHANGED buf /\ pc' # "replay"
    BY <1>2, <2>2, KeepsExact
  <2>3. CASE buf' = [buf EXCEPT ![p] = newest(replay.rest)] /\ pc' # "replay"
    <3>1. \A q \in Pairs : ExactFrames(q)' = ExactFrames(q)
      BY <1>2, SameVenue, Zenon
    <3>2. newest(replay.rest) \in Seq(ExactFrames(p))
      BY <1>2, NewestType
    <3> QED BY <1>1, <2>3, <3>1, <3>2, Zenon DEF ExactInv, Held, Parts, PairInv
  <2> QED BY <1>3, <2>1, <2>2, <2>3
<1> QED BY <1>2, <1>8, <1>9, <1>10, <1>11 DEF ExactInv

LEMMA ReplayDoneExact ==
    ASSUME ExactInv, NEW p \in Pairs, ReplayDone(p)
    PROVE  ExactInv'
<1>1. UNCHANGED <<version, history, published, pending, events, buf, fetch, book, emitted>>
      /\ pc' # "replay"
  BY Zenon DEF ReplayDone, Replaying
<1> QED BY <1>1, KeepsExact DEF ExactInv

LEMMA ConnectionGapExact ==
    ASSUME TypeInv, ExactInv, RecvConnectionGap
    PROVE  ExactInv'
<1>1. /\ UNCHANGED <<version, history, published, pending, fetch, emitted>>
      /\ events # <<>> /\ events' = Tail(events) /\ pc' # "replay"
      /\ book' = [p \in Pairs |-> force_gap(book[p])]
      /\ buf' = [p \in Pairs |-> <<>>]
  BY DEF RecvConnectionGap, Break
<1>2. Parts
  BY TypeParts
<1>3. Held'
  <2>1. \A q \in Pairs : buf'[q] = <<>>
    BY <1>1
  <2> QED BY <1>1, <2>1, EmptyIn, Zenon DEF Held
<1>4. BooksExact'
  <2> SUFFICES ASSUME NEW q \in Pairs, NEW b \in Books, book'[q] = b
               PROVE  BookExact(q, b)'
    BY DEF BooksExact
  <2>1. b.state = "Gapped"
    BY <1>1, <1>2, Zenon DEF Parts, PairInv, force_gap, Books
  <2> QED BY <2>1, Zenon DEF BookExact
<1> QED BY <1>1, <1>3, <1>4, KeepsExact DEF ExactInv

LEMMA PlainExact ==
    ASSUME ExactInv,
           \/ Subscribe \/ AdapterExit \/ Shutdown \/ DropReceiver
           \/ HandleShutdown \/ LoopEnds \/ EventsClosed \/ InBandSeedExpired
           \/ UNCHANGED vars
    PROVE  ExactInv'
<1>1. /\ UNCHANGED <<version, history, published, pending, events, buf, fetch, book,
                     emitted>>
      /\ pc' # "replay" \/ UNCHANGED <<pc, replay>>
  BY Zenon DEF Subscribe, AdapterExit, Shutdown, DropReceiver, HandleShutdown, LoopEnds,
         EventsClosed, InBandSeedExpired, Break, vars
<1> QED BY <1>1, KeepsExact DEF ExactInv

LEMMA InitExact == Init => ExactInv
<1> SUFFICES ASSUME Init PROVE ExactInv
  OBVIOUS
<1>1. Supply
  <2>1. \A p \in Pairs : Bridge(p, published[p], version[p], pending[p])
    <3> SUFFICES ASSUME NEW p \in Pairs
                 PROVE  Bridge(p, published[p], version[p], pending[p])
      OBVIOUS
    <3>1. published[p] = 0 /\ version[p] = 0 /\ pending[p] = Empty
          /\ history[p][0] = Empty
      BY DEF Init
    <3>2. Overlay(Empty, Empty) = Empty
      BY DEF Overlay, Empty
    <3> QED BY <3>1, <3>2, Singleton, Zenon DEF Bridge
  <2> QED BY <2>1, EmptyIn, Zenon DEF Init, Supply
<1>2. Held
  <2>1. pc # "replay" /\ \A q \in Pairs : buf[q] = <<>>
    BY DEF Init
  <2> QED BY <2>1, EmptyIn, Zenon DEF Held
<1>3. Seeds
  BY DEF Init, Seeds
<1>4. BooksExact
  <2>1. \A q \in Pairs : book[q].state = "Empty" /\ book[q].last = NoId
    BY DEF Init, NewBook
  <2> QED BY <2>1 DEF BooksExact, BookExact
<1>5. EmittedExact
  BY DEF Init, EmittedExact
<1> QED BY <1>1, <1>2, <1>3, <1>4, <1>5 DEF ExactInv

LEMMA NextExact ==
    ASSUME Checked
    PROVE  TypeInv /\ RecoveryInv /\ ExactInv /\ [Next]_vars => ExactInv'
<1> SUFFICES ASSUME TypeInv, RecoveryInv, ExactInv, [Next]_vars PROVE ExactInv'
  OBVIOUS
<1>1. CASE Environment
  BY <1>1, ChangeExact, PublishExact, SnapshotExact, FetchExact, PlainExact
     DEF Environment
<1>2. CASE RuntimeStep
  BY <1>2, RecvSeedExact, BufferExact, ApplyDeltaExact, SeedReadyExact,
     SeedFailedExact, ReplaySkipExact, ReplayApplyExact, ReplayDoneExact,
     ConnectionGapExact, PlainExact
     DEF RuntimeStep
<1>3. CASE Returned \/ UNCHANGED vars
  BY <1>3, PlainExact DEF Returned
<1> QED BY <1>1, <1>2, <1>3 DEF Next

-----------------------------------------------------------------------------
(* The feed set moves along the published graph.                           *)

LEMMA MarkEdges ==
    \A s \in {"Subscribing", "Live", "Resubscribing"} :
        /\ mark_live(s) # s => can_transition_to(s, mark_live(s))
        /\ mark_resubscribing(s) # s => can_transition_to(s, mark_resubscribing(s))
        /\ s # "Live" => /\ mark_resubscribing(mark_live(s)) # s =>
                            can_transition_to(s, mark_resubscribing(mark_live(s)))
BY DEF mark_live, mark_resubscribing, mark_each_live, can_transition_to, successors,
       is_terminal

\* What one step of the loop or its surroundings does to the feed of a pair.
FeedMove(q) ==
    \/ feed'[q] = feed[q]
    \/ feed'[q] = mark_live(feed[q])
    \/ feed'[q] = mark_resubscribing(feed[q])
    \/ q \notin live_orders /\ feed'[q] = mark_resubscribing(mark_live(feed[q]))

LEMMA NoteMoves ==
    ASSUME FeedInv, NEW p \in Pairs, NEW q \in Pairs
    PROVE  /\ note_live(p) => FeedMove(q)
           /\ note_resubscribing(p) => FeedMove(q)
           /\ UNCHANGED feed => FeedMove(q)
BY DEF note_live, note_resubscribing, FeedMove, FeedInv

LEMMA StepMoves ==
    ASSUME TypeInv, [Next]_vars, NEW q \in Pairs
    PROVE  FeedMove(q)
<1>1. FeedInv
  BY TypeParts DEF Parts
<1>2. CASE Environment
  <2>1. UNCHANGED feed
    BY <1>2, Zenon DEF Environment, VenueChange, VenuePublish, VenueSnapshot, FetchDone,
               Subscribe, AdapterExit, Shutdown, DropReceiver
  <2> QED BY <1>1, <2>1, NoteMoves
<1>3. ASSUME NEW p \in Pairs, NEW d, NEW s, NEW f, NEW n, apply_seed(p, d, s, f, n)
      PROVE  FeedMove(q)
  <2>1. note_resubscribing(p) \/ UNCHANGED feed
    BY <1>3 DEF apply_seed
  <2> QED BY <1>1, <2>1, NoteMoves
<1>4. ASSUME NEW p \in Pairs, RecvSeed(p) \/ SeedReady(p) PROVE FeedMove(q)
  BY <1>3, <1>4, Zenon DEF RecvSeed, SeedReady
<1>5. ASSUME NEW p \in Pairs, ApplyDelta(p) \/ ReplayDone(p) PROVE FeedMove(q)
  <2>1. note_live(p) \/ note_resubscribing(p) \/ UNCHANGED feed
    BY <1>5, Zenon DEF ApplyDelta, ReplayDone
  <2> QED BY <1>1, <2>1, NoteMoves
<1>6. ASSUME NEW p \in Pairs, ReplayApply(p) PROVE FeedMove(q)
  <2>1. \/ note_live(p) \/ UNCHANGED feed
        \/ feed' = [feed EXCEPT ![p] = mark_resubscribing(
                        IF p \in live_orders THEN feed[p] ELSE mark_live(feed[p]))]
    BY <1>6, Zenon DEF ReplayApply
  <2>2. CASE feed' = [feed EXCEPT ![p] = mark_resubscribing(
                        IF p \in live_orders THEN feed[p] ELSE mark_live(feed[p]))]
    BY <1>1, <2>2 DEF FeedMove, FeedInv
  <2> QED BY <1>1, <2>1, <2>2, NoteMoves
<1>7. ASSUME NEW p \in Pairs, BufferDelta(p) \/ SeedFailed(p) \/ ReplaySkip(p)
      PROVE  FeedMove(q)
  BY <1>1, <1>7, NoteMoves, Zenon DEF BufferDelta, SeedFailed, ReplaySkip
<1>8. CASE HandleShutdown \/ LoopEnds \/ EventsClosed \/ RecvConnectionGap
           \/ InBandSeedExpired \/ Returned \/ UNCHANGED vars
  BY <1>1, <1>8, NoteMoves, Zenon DEF HandleShutdown, LoopEnds, EventsClosed,
     RecvConnectionGap, InBandSeedExpired, Returned, vars
<1> QED BY <1>2, <1>4, <1>5, <1>6, <1>7, <1>8 DEF Next, RuntimeStep

\* No step of a returned task touches the feed set.
LEMMA DoneKeepsFeed ==
    ASSUME [Next]_vars, pc = "done"
    PROVE  UNCHANGED feed
BY Zenon DEF Next, Environment, RuntimeStep, Returned, vars, HandleShutdown, LoopEnds,
       EventsClosed, RecvConnectionGap, InBandSeedExpired, Selecting, RecvSeed,
       BufferDelta, ApplyDelta, RecvBook, SeedReady, SeedFailed, RecvSeedResult,
       ReplaySkip, ReplayApply, ReplayDone, Replaying

LEMMA FeedEdge ==
    ASSUME TypeInv, RecoveryInv, [Next]_vars, NEW p \in Pairs,
           NEW s, NEW t, s = feed[p], t = feed'[p], t # s
    PROVE  can_transition_to(s, t)
<1>1. FeedMove(p) /\ pc # "done"
  BY StepMoves, DoneKeepsFeed
<1>2. s \in {"Subscribing", "Live", "Resubscribing"}
      /\ (p \notin live_orders => s # "Live")
  BY <1>1 DEF RecoveryInv, PairRecovery
<1>3. \/ t = mark_live(s) \/ t = mark_resubscribing(s)
      \/ s # "Live" /\ t = mark_resubscribing(mark_live(s))
  BY <1>1, <1>2, Zenon DEF FeedMove
<1>4. CASE t = mark_live(s)
  BY <1>2, <1>4, MarkEdges, Zenon
<1>5. CASE t = mark_resubscribing(s)
  BY <1>2, <1>5, MarkEdges, Zenon
<1>6. CASE s # "Live" /\ t = mark_resubscribing(mark_live(s))
  BY <1>2, <1>6, MarkEdges, Zenon
<1> QED BY <1>3, <1>4, <1>5, <1>6, Zenon

-----------------------------------------------------------------------------
(* The runtime implements BookStream.                                      *)

IsBookOf(p, e) == e.kind = "Book" /\ e.pair = p

\* the frames of p in q come in the order of their ids, from lo on and up to hi
Ordered(p, q, lo, hi) ==
    /\ lo <= hi
    /\ \A i \in DOMAIN q : IsBookOf(p, q[i]) =>
            lo <= q[i].delta.update_id /\ q[i].delta.update_id <= hi
    /\ \A i, j \in DOMAIN q : (i < j /\ IsBookOf(p, q[i]) /\ IsBookOf(p, q[j])) =>
            q[i].delta.update_id <= q[j].delta.update_id

SeedOf(p, e) == IsBookOf(p, e) /\ e.delta.is_snapshot

\* A venue that seeds in band answers one request per pair.
OneSeed(p, q, none) ==
    /\ none => \A i \in DOMAIN q : ~SeedOf(p, q[i])
    /\ \A i, j \in DOMAIN q : SeedOf(p, q[i]) /\ SeedOf(p, q[j]) => i = j

Deltas == {d \in Frames : ~d.is_snapshot}

\* A stream that seeds itself passes through, its frames in order.
InOrder(p) ==
    ~seeds_out_of_band => /\ phase[p] = "Passthrough" /\ pc # "replay"
                          /\ Ordered(p, events, emitted[p].id, published[p])

\* A pair that passes through has had its in-band snapshot, and gets no other.
InBand(p) ==
    awaits_in_band_seed =>
        /\ phase[p] = "Passthrough" => snapped[p]
        /\ OneSeed(p, events, ~snapped[p] \/ phase[p] = "Passthrough")

\* What waits for a seed is deltas.
Waiting(p) ==
    /\ buf[p] \in Seq(Deltas)
    /\ (pc = "replay" /\ replay.pair = p) => replay.rest \in Seq(Deltas)

\* A live book is the one that was sent last.
Current(p) == BookIsLive[p] => emitted[p].id = book[p].last

PairStream(p) == InOrder(p) /\ InBand(p) /\ Waiting(p) /\ Current(p)

StreamInv ==
    /\ snapped \in [Pairs -> BOOLEAN]
    /\ pc # "done" => \A p \in Pairs : PairStream(p)

\* A step of the runtime is a step of the stream it promises, or none of it.
StreamStep == [Service!Step]_(Service!svars)

LEMMA LiveType ==
    /\ BookIsLive \in [Pairs -> BOOLEAN] /\ BookIsLive' \in [Pairs -> BOOLEAN]
    /\ \A p \in Pairs :
        /\ BookIsLive[p] <=> phase[p] = "Passthrough" /\ book[p].state = "Synced"
        /\ BookIsLive'[p] <=> phase'[p] = "Passthrough" /\ book'[p].state = "Synced"
BY Zenon DEF BookIsLive

LEMMA SameFlag ==
    ASSUME NEW f \in [Pairs -> BOOLEAN], NEW p \in Pairs
    PROVE  /\ f[p] => [f EXCEPT ![p] = TRUE] = f
           /\ ~f[p] => [f EXCEPT ![p] = FALSE] = f
OBVIOUS

\* Steps that leave what was sent and what is live alone.
LEMMA KeepsStream ==
    ASSUME UNCHANGED <<history, emitted, phase, book>>, pc = "done" <=> pc' = "done"
    PROVE  StreamStep
<1>1. UNCHANGED BookIsLive
  BY Zenon DEF BookIsLive
<1>2. (pc = "done")' = (pc = "done")
  OBVIOUS
<1> QED BY <1>1, <1>2, Zenon DEF StreamStep, Service!svars

\* The task returns.
LEMMA EndsStream ==
    ASSUME pc # "done", pc' = "done", UNCHANGED <<history, emitted>>
    PROVE  StreamStep
BY LiveType, Zenon DEF StreamStep, Service!Step, Service!End

\* A book is sent: on from the last one while live, any other when seeded.
LEMMA SendsStream ==
    ASSUME Parts, pc # "done", pc' # "done", UNCHANGED history, NEW p \in Pairs,
           NEW b \in Books, b.state = "Synced", SetBook(p, b), emit_book(p, b),
           \A q \in Pairs : phase'[q] = IF q = p THEN "Passthrough" ELSE phase[q],
           b.last \in 0..version[p], b.content = history[p][b.last],
           BookIsLive[p] => b.last >= emitted[p].id
    PROVE  StreamStep
<1>1. book' = [book EXCEPT ![p] = b] /\ book \in [Pairs -> Books]
  BY Zenon DEF SetBook, Parts, PairInv
<1>2. \A q \in Pairs : book'[q] = IF q = p THEN b ELSE book[q]
  BY <1>1
<1>3. \A q \in Pairs : BookIsLive'[q] = IF q = p THEN TRUE ELSE BookIsLive[q]
  <2> SUFFICES ASSUME NEW q \in Pairs
               PROVE  BookIsLive'[q] = IF q = p THEN TRUE ELSE BookIsLive[q]
    OBVIOUS
  <2>1. CASE q = p
    <3>1. book'[p].state = "Synced" /\ phase'[p] = "Passthrough"
      BY <1>2
    <3> QED BY <2>1, <3>1, LiveType, Zenon
  <2>2. CASE q # p
    BY <1>2, <2>2, LiveType
  <2> QED BY <2>1, <2>2, Zenon
<1>4. BookIsLive' = [BookIsLive EXCEPT ![p] = TRUE]
  BY <1>3, LiveType, Zenon
<1>5. b.last \in DOMAIN history[p]
  BY Zenon DEF Parts, VenueInv
<1>6. Service!Sends(p, b.last)
  BY Zenon DEF emit_book, Service!Sends
<1>7. (pc = "done")' = (pc = "done")
  OBVIOUS
<1>8. CASE BookIsLive[p]
  <2>1. UNCHANGED BookIsLive
    BY <1>4, <1>8, LiveType, SameFlag, Zenon
  <2>2. Service!Advance(p)
    BY <1>5, <1>6, <1>7, <1>8, <2>1, Zenon DEF Service!Advance
  <2> QED BY <2>2, Zenon DEF StreamStep, Service!Step
<1>9. CASE ~BookIsLive[p]
  <2>1. Service!Seed(p)
    BY <1>4, <1>5, <1>6, <1>7, <1>9, Zenon DEF Service!Seed
  <2> QED BY <2>1, Zenon DEF StreamStep, Service!Step
<1> QED BY <1>8, <1>9

\* Continuity is lost, or a seed of a pair that was not live fails.
LEMMA LosesStream ==
    ASSUME Parts, pc # "done", pc' # "done", UNCHANGED <<history, emitted>>,
           NEW p \in Pairs, NEW b \in Books, b.state = "Gapped", SetBook(p, b),
           \A q \in Pairs : q # p => phase'[q] = phase[q]
    PROVE  StreamStep
<1>1. book' = [book EXCEPT ![p] = b] /\ book \in [Pairs -> Books]
  BY Zenon DEF SetBook, Parts, PairInv
<1>2. \A q \in Pairs : book'[q] = IF q = p THEN b ELSE book[q]
  BY <1>1
<1>3. \A q \in Pairs : BookIsLive'[q] = IF q = p THEN FALSE ELSE BookIsLive[q]
  <2> SUFFICES ASSUME NEW q \in Pairs
               PROVE  BookIsLive'[q] = IF q = p THEN FALSE ELSE BookIsLive[q]
    OBVIOUS
  <2>1. CASE q = p
    <3>1. book'[p].state # "Synced"
      BY <1>2
    <3> QED BY <2>1, <3>1, LiveType, Zenon
  <2>2. CASE q # p
    BY <1>2, <2>2, LiveType
  <2> QED BY <2>1, <2>2, Zenon
<1>4. BookIsLive' = [BookIsLive EXCEPT ![p] = FALSE]
  BY <1>3, LiveType, Zenon
<1>5. (pc = "done")' = (pc = "done")
  OBVIOUS
<1>6. CASE BookIsLive[p]
  <2>1. Service!Lose(p)
    BY <1>4, <1>5, <1>6, Zenon DEF Service!Lose
  <2> QED BY <2>1, Zenon DEF StreamStep, Service!Step
<1>7. CASE ~BookIsLive[p]
  <2>1. UNCHANGED BookIsLive
    BY <1>4, <1>7, LiveType, SameFlag, Zenon
  <2> QED BY <1>5, <2>1, Zenon DEF StreamStep, Service!svars
<1> QED BY <1>6, <1>7
-----------------------------------------------------------------------------
(* The order of the frames in the adapter channel.                         *)

LEMMA TailAt ==
    ASSUME NEW q \in Seq(Events), q # <<>>
    PROVE  /\ 1 \in DOMAIN q /\ q[1] = Head(q)
           /\ \A i \in DOMAIN Tail(q) : i + 1 \in DOMAIN q /\ Tail(q)[i] = q[i + 1]
           /\ \A i \in DOMAIN Tail(q) : i \in Nat /\ 1 < i + 1
OBVIOUS

LEMMA AppendAt ==
    ASSUME NEW q \in Seq(Events), NEW e \in Events
    PROVE  \A i \in DOMAIN Append(q, e) :
                \/ i \in DOMAIN q /\ Append(q, e)[i] = q[i]
                \/ /\ i \notin DOMAIN q /\ Append(q, e)[i] = e
                   /\ \A j \in DOMAIN q : j < i
OBVIOUS

\* Every frame of p in a queue carries an id.
LEMMA IdAt ==
    ASSUME NEW q \in Seq(Events), NEW i \in DOMAIN q, NEW p, IsBookOf(p, q[i])
    PROVE  q[i].delta.update_id \in Nat
<1>1. q[i] \in Events
  OBVIOUS
<1> QED BY <1>1 DEF Events, IsBookOf, Frames

LEMMA OrderedTail ==
    ASSUME NEW p, NEW q \in Seq(Events), q # <<>>, NEW lo, NEW hi, Ordered(p, q, lo, hi)
    PROVE  /\ Ordered(p, Tail(q), lo, hi)
           /\ IsBookOf(p, Head(q)) => /\ lo <= Head(q).delta.update_id
                                      /\ Ordered(p, Tail(q), Head(q).delta.update_id, hi)
<1>1. /\ 1 \in DOMAIN q /\ q[1] = Head(q)
      /\ \A i \in DOMAIN Tail(q) : i + 1 \in DOMAIN q /\ Tail(q)[i] = q[i + 1]
      /\ \A i \in DOMAIN Tail(q) : i \in Nat /\ 1 < i + 1
  BY TailAt
<1>2. \A i, j \in DOMAIN Tail(q) : i < j => i + 1 < j + 1
  BY <1>1
<1> DEFINE t == Tail(q)
<1> HIDE DEF t
<1>3. Ordered(p, t, lo, hi)
  BY <1>1, <1>2, Zenon DEF Ordered, t
<1>4. ASSUME IsBookOf(p, Head(q))
      PROVE  lo <= Head(q).delta.update_id /\ Ordered(p, t, Head(q).delta.update_id, hi)
  <2>1. lo <= Head(q).delta.update_id /\ Head(q).delta.update_id <= hi
    BY <1>1, <1>4, Zenon DEF Ordered
  <2>2. \A i \in DOMAIN t : IsBookOf(p, t[i]) =>
            /\ Head(q).delta.update_id <= t[i].delta.update_id
            /\ t[i].delta.update_id <= hi
    BY <1>1, <1>4, Zenon DEF Ordered, t
  <2> QED BY <1>3, <2>1, <2>2, Zenon DEF Ordered
<1> QED BY <1>3, <1>4, Zenon DEF t

LEMMA OrderedGrows ==
    ASSUME NEW p, NEW q \in Seq(Events), NEW lo \in Int, NEW hi \in Nat, NEW top \in Nat,
           hi <= top, Ordered(p, q, lo, hi)
    PROVE  Ordered(p, q, lo, top)
<1>1. ASSUME NEW i \in DOMAIN q, IsBookOf(p, q[i]) PROVE q[i].delta.update_id <= top
  <2>1. q[i].delta.update_id \in Nat
    BY <1>1, IdAt
  <2>2. q[i].delta.update_id <= hi
    BY <1>1, Zenon DEF Ordered
  <2> QED BY <2>1, <2>2
<1>2. lo <= top
  BY DEF Ordered
<1> QED BY <1>1, <1>2, Zenon DEF Ordered

LEMMA OrderedAppend ==
    ASSUME NEW p, NEW q \in Seq(Events), NEW e \in Events, NEW lo, NEW hi,
           Ordered(p, q, lo, hi), IsBookOf(p, e) => e.delta.update_id = hi
    PROVE  Ordered(p, Append(q, e), lo, hi)
<1> DEFINE t == Append(q, e)
<1>1. \A i \in DOMAIN t : \/ i \in DOMAIN q /\ t[i] = q[i]
                          \/ i \notin DOMAIN q /\ t[i] = e /\ \A j \in DOMAIN q : j < i
  BY AppendAt
<1>2. \A i, j \in DOMAIN t : i < j => i \in DOMAIN q
  <2>1. DOMAIN t = 1..(Len(q) + 1) /\ DOMAIN q = 1..Len(q) /\ Len(q) \in Nat
    OBVIOUS
  <2> HIDE DEF t
  <2> QED BY <2>1
<1>3. lo <= hi
  BY DEF Ordered
<1>4. IsBookOf(p, e) => e.delta.update_id \in Nat
  BY DEF IsBookOf, Events, Frames
<1>5. IsBookOf(p, e) => e.delta.update_id <= hi
  BY <1>4
<1> HIDE DEF t
<1>6. \A i \in DOMAIN t : IsBookOf(p, t[i]) =>
            lo <= t[i].delta.update_id /\ t[i].delta.update_id <= hi
  BY <1>1, <1>3, <1>5, Zenon DEF Ordered
<1>7. \A i, j \in DOMAIN t : (i < j /\ IsBookOf(p, t[i]) /\ IsBookOf(p, t[j])) =>
            t[i].delta.update_id <= t[j].delta.update_id
  <2> SUFFICES ASSUME NEW i \in DOMAIN t, NEW j \in DOMAIN t,
                      i < j, IsBookOf(p, t[i]), IsBookOf(p, t[j])
               PROVE  t[i].delta.update_id <= t[j].delta.update_id
    BY Zenon
  <2>1. i \in DOMAIN q /\ t[i] = q[i]
    BY <1>1, <1>2
  <2> QED BY <1>1, <2>1, Zenon DEF Ordered
<1> QED BY <1>3, <1>6, <1>7, Zenon DEF Ordered, t

LEMMA OneSeedTail ==
    ASSUME NEW p, NEW q \in Seq(Events), q # <<>>, NEW none, OneSeed(p, q, none)
    PROVE  /\ OneSeed(p, Tail(q), none)
           /\ none => ~SeedOf(p, Head(q))
           /\ SeedOf(p, Head(q)) => OneSeed(p, Tail(q), TRUE)
<1> DEFINE t == Tail(q)
<1>1. /\ 1 \in DOMAIN q /\ q[1] = Head(q)
      /\ \A i \in DOMAIN t : i + 1 \in DOMAIN q /\ t[i] = q[i + 1]
      /\ \A i \in DOMAIN t : i \in Nat /\ 1 < i + 1
  BY TailAt
<1>2. \A i, j \in DOMAIN t : i + 1 = j + 1 => i = j
  BY <1>1
<1>3. \A i \in DOMAIN t : i + 1 # 1
  BY <1>1
<1> HIDE DEF t
<1>4. OneSeed(p, t, none) /\ (none => ~SeedOf(p, Head(q)))
  BY <1>1, <1>2, Zenon DEF OneSeed
<1>5. SeedOf(p, Head(q)) => \A i \in DOMAIN t : ~SeedOf(p, t[i])
  BY <1>1, <1>3, Zenon DEF OneSeed
<1> QED BY <1>4, <1>5, Zenon DEF OneSeed, t

\* An event that is no snapshot of p changes nothing; the first snapshot is one.
LEMMA OneSeedAppend ==
    ASSUME NEW p, NEW q \in Seq(Events), NEW e \in Events, NEW none, OneSeed(p, q, none)
    PROVE  /\ ~SeedOf(p, e) => OneSeed(p, Append(q, e), none)
           /\ none => OneSeed(p, Append(q, e), FALSE)
<1> DEFINE t == Append(q, e)
<1>1. \A i \in DOMAIN t : \/ i \in DOMAIN q /\ t[i] = q[i]
                          \/ i \notin DOMAIN q /\ t[i] = e
  BY AppendAt
<1>2. \A i, j \in DOMAIN t : i \notin DOMAIN q /\ j \notin DOMAIN q => i = j
  <2>1. DOMAIN t = 1..(Len(q) + 1) /\ DOMAIN q = 1..Len(q) /\ Len(q) \in Nat
    OBVIOUS
  <2> HIDE DEF t
  <2> QED BY <2>1
<1> HIDE DEF t
<1> QED BY <1>1, <1>2, Zenon DEF OneSeed, t
LEMMA OneSeedWeakens ==
    ASSUME NEW p, NEW q, NEW a, NEW b, OneSeed(p, q, a), b => a
    PROVE  OneSeed(p, q, b)
BY Zenon DEF OneSeed

-----------------------------------------------------------------------------
(* StreamInv is inductive, and every step is one of the stream.            *)

\* A pair that a turn of the loop is not about.
LEMMA OtherStream ==
    ASSUME EventInv, NEW q \in Pairs, PairStream(q),
           phase'[q] = phase[q], book'[q] = book[q], emitted'[q] = emitted[q],
           buf'[q] = buf[q], published'[q] = published[q], snapped'[q] = snapped[q],
           events' = events \/ (events # <<>> /\ events' = Tail(events)),
           pc' = "replay" => seeds_out_of_band,
           (pc' = "replay" /\ replay'.pair = q) =>
                pc = "replay" /\ replay.pair = q /\ replay'.rest = replay.rest
    PROVE  PairStream(q)'
<1>1. ASSUME NEW lo, NEW hi, Ordered(q, events, lo, hi) PROVE Ordered(q, events', lo, hi)
  BY <1>1, OrderedTail, Zenon DEF EventInv
<1>2. ASSUME NEW none, OneSeed(q, events, none) PROVE OneSeed(q, events', none)
  BY <1>2, OneSeedTail, Zenon DEF EventInv
<1>3. InOrder(q)'
  <2>1. ASSUME ~seeds_out_of_band
        PROVE  Ordered(q, events', emitted'[q].id, published'[q])
    <3>1. Ordered(q, events, emitted[q].id, published[q])
      BY <2>1, Zenon DEF PairStream, InOrder
    <3>2. Ordered(q, events', emitted[q].id, published[q])
      BY <3>1, <1>1, Zenon
    <3> QED BY <3>2, Zenon
  <2> QED BY <2>1, Zenon DEF PairStream, InOrder, Ordered, IsBookOf
<1>4. InBand(q)'
  <2>1. ASSUME awaits_in_band_seed
        PROVE  OneSeed(q, events', ~snapped'[q] \/ phase'[q] = "Passthrough")
    <3>1. OneSeed(q, events, ~snapped[q] \/ phase[q] = "Passthrough")
      BY <2>1, Zenon DEF PairStream, InBand
    <3>2. OneSeed(q, events', ~snapped[q] \/ phase[q] = "Passthrough")
      BY <3>1, <1>2, Zenon
    <3> QED BY <3>2, OneSeedWeakens
  <2> QED BY <2>1, Zenon DEF PairStream, InBand, OneSeed, SeedOf, IsBookOf
<1>5. Waiting(q)'
  BY Zenon DEF PairStream, Waiting, Deltas, Frames
<1>6. Current(q)'
  BY LiveType, Zenon DEF PairStream, Current
<1> QED BY <1>3, <1>4, <1>5, <1>6, Zenon DEF PairStream

\* Steps that touch neither the books nor the channel.
LEMMA QuietStream ==
    ASSUME EventInv, StreamInv,
           UNCHANGED <<events, emitted, published, snapped, phase, book, buf>>,
           pc = "done" => pc' = "done", pc' # "replay" \/ UNCHANGED <<pc, replay>>
    PROVE  StreamInv'
<1> SUFFICES ASSUME pc # "done", NEW q \in Pairs PROVE PairStream(q)'
  BY Zenon DEF StreamInv
<1>1. PairStream(q)
  BY Zenon DEF StreamInv
<1>2. pc' = "replay" => seeds_out_of_band
  BY <1>1, Zenon DEF PairStream, InOrder
<1> QED BY <1>1, <1>2, OtherStream, Zenon

LEMMA ChangeStream ==
    ASSUME TypeInv, pc # "done", NEW p \in Pairs, NEW k \in Keys, VenueChange(p, k)
    PROVE  StreamStep
<1>1. Parts /\ Parts'
  BY ChangeType, TypeParts
<1>2. \A q \in Pairs : /\ version[q] \in Nat /\ version'[q] \in Nat /\ version'[q] >= version[q]
                       /\ \A v \in 0..version[q] : history'[q][v] = history[q][v]
  BY GrownFrame
<1>3. \A v \in DOMAIN history[p] : v \in DOMAIN history'[p] /\ history'[p][v] = history[p][v]
  <2>1. DOMAIN history[p] = 0..version[p] /\ DOMAIN history'[p] = 0..version'[p]
    BY <1>1, Zenon DEF Parts, VenueInv
  <2>2. \A v \in 0..version[p] : v \in 0..version'[p]
    BY <1>2
  <2> QED BY <1>2, <2>1, <2>2, Zenon
<1>4. \A q \in Pairs \ {p} : history'[q] = history[q]
  <2>1. history \in [Pairs -> UNION {[0..n -> Contents] : n \in Nat}]
    BY <1>1, Zenon DEF Parts, VenueInv, HistoryOK
  <2> QED BY <2>1 DEF VenueChange
<1>5. UNCHANGED <<emitted, phase, book, pc>>
  BY Zenon DEF VenueChange
<1>6. UNCHANGED BookIsLive
  BY <1>5, Zenon DEF BookIsLive
<1>7. (pc = "done")' = (pc = "done")
  BY <1>5
<1>8. Service!Trade(p)
  BY <1>3, <1>4, <1>5, <1>6, <1>7, Zenon DEF Service!Trade
<1> QED BY <1>8, Zenon DEF StreamStep, Service!Step

LEMMA EventKinds ==
    ASSUME NEW p \in Pairs, NEW q \in Pairs, NEW d \in Frames
    PROVE  /\ GapEvent \in Events /\ ~IsBookOf(q, GapEvent)
           /\ BookEvent(p, d) \in Events
           /\ BookEvent(p, d).delta = d
           /\ IsBookOf(q, BookEvent(p, d)) <=> q = p
BY Zenon DEF GapEvent, BookEvent, Events, IsBookOf

\* What publishing puts into the channel: nothing, or a delta up to the venue's
\* last change, with the sentinel's gap ahead of it when it confirmed one.
LEMMA PublishShape ==
    ASSUME Parts, NEW p \in Pairs, VenuePublish(p)
    PROVE  \/ events' = events
           \/ \E m \in {events, Append(events, GapEvent)}, d \in Frames :
                /\ d.update_id = version[p] /\ ~d.is_snapshot
                /\ events' = Append(m, BookEvent(p, d))
<1>1. ASSUME NEW bad \in Faulty, NEW confirmed \in BOOLEAN, NEW sum \in Checksums(p),
             events' = events \o (IF confirmed THEN <<GapEvent>> ELSE <<>>)
                             \o <<BookEvent(p, DeltaFrame(p, sum, bad))>>
      PROVE  \E m \in {events, Append(events, GapEvent)}, d \in Frames :
                /\ d.update_id = version[p] /\ ~d.is_snapshot
                /\ events' = Append(m, BookEvent(p, d))
  <2> DEFINE g == IF confirmed THEN <<GapEvent>> ELSE <<>>
             d == DeltaFrame(p, sum, bad)
             m == events \o g
  <2>1. bad \in BOOLEAN
    BY Zenon DEF Faulty
  <2>2. d \in Frames
    BY <2>1, FrameTypes, Zenon DEF Parts
  <2>3. d.update_id = version[p] /\ ~d.is_snapshot
    BY DEF DeltaFrame
  <2> HIDE DEF d
  <2>4. GapEvent \in Events /\ BookEvent(p, d) \in Events /\ events \in Seq(Events)
    BY <2>2, EventKinds, Zenon DEF Parts, EventInv
  <2>5. m \in {events, Append(events, GapEvent)} /\ m \in Seq(Events)
    BY <2>4
  <2> HIDE DEF m
  <2>6. m \o <<BookEvent(p, d)>> = Append(m, BookEvent(p, d))
    BY <2>4, <2>5
  <2> QED BY <1>1, <2>2, <2>3, <2>5, <2>6, Zenon DEF m, d
<1> QED BY <1>1, Zenon DEF VenuePublish

LEMMA PublishStream ==
    ASSUME TypeInv, StreamInv, pc # "done", NEW p \in Pairs, VenuePublish(p)
    PROVE  StreamInv'
<1>1. Parts /\ UNCHANGED <<snapped, emitted, book, phase, buf, pc, replay>>
      /\ published' = [published EXCEPT ![p] = version[p]]
  BY TypeParts, Zenon DEF VenuePublish
<1>2. /\ published \in [Pairs -> Nat] /\ version \in [Pairs -> Nat]
      /\ published[p] <= version[p] /\ events \in Seq(Events)
  BY <1>1, Zenon DEF Parts, VenueInv, HistoryOK, EventInv
<1>3. \A q \in Pairs : /\ published[q] \in Nat /\ published'[q] \in Nat
                       /\ published[q] <= published'[q]
  BY <1>1, <1>2
<1>4. published'[p] = version[p]
  BY <1>1, <1>2
<1> SUFFICES ASSUME NEW q \in Pairs PROVE PairStream(q)'
  BY <1>1, Zenon DEF StreamInv
<1>5. PairStream(q) /\ emitted[q].id \in Int
  BY <1>1 DEF StreamInv, Parts, EmitInv, NoId
<1>6. ASSUME NEW lo \in Int, Ordered(q, events, lo, published[q])
      PROVE  Ordered(q, events', lo, published'[q])
  <2>1. Ordered(q, events, lo, published'[q])
    BY <1>2, <1>3, <1>6, OrderedGrows
  <2>2. ASSUME NEW m \in {events, Append(events, GapEvent)}, NEW d \in Frames,
               d.update_id = version[p]
        PROVE  Ordered(q, Append(m, BookEvent(p, d)), lo, published'[q])
    <3>1. m \in Seq(Events) /\ Ordered(q, m, lo, published'[q])
      <4>1. GapEvent \in Events /\ ~IsBookOf(q, GapEvent)
        BY EventKinds, Zenon
      <4>2. Append(events, GapEvent) \in Seq(Events)
        BY <1>2, <4>1
      <4>3. Ordered(q, Append(events, GapEvent), lo, published'[q])
        BY <1>2, <2>1, <4>1, OrderedAppend, Zenon
      <4> QED BY <1>2, <2>1, <4>2, <4>3, Zenon
    <3>2. IsBookOf(q, BookEvent(p, d)) =>
                BookEvent(p, d).delta.update_id = published'[q]
      BY <1>4, <2>2, EventKinds, Zenon
    <3>3. BookEvent(p, d) \in Events
      BY EventKinds, Zenon
    <3> QED BY <3>1, <3>2, <3>3, OrderedAppend, Zenon
  <2> QED BY <1>1, <2>1, <2>2, PublishShape, Zenon
<1>7. ASSUME NEW none, OneSeed(q, events, none) PROVE OneSeed(q, events', none)
  <2>1. ASSUME NEW m \in {events, Append(events, GapEvent)}, NEW d \in Frames,
               ~d.is_snapshot
        PROVE  OneSeed(q, Append(m, BookEvent(p, d)), none)
    <3>1. /\ GapEvent \in Events /\ ~SeedOf(q, GapEvent)
          /\ BookEvent(p, d) \in Events /\ ~SeedOf(q, BookEvent(p, d))
      BY <2>1, EventKinds, Zenon DEF SeedOf
    <3>2. Append(events, GapEvent) \in Seq(Events)
      BY <1>2, <3>1
    <3>3. m \in Seq(Events) /\ OneSeed(q, m, none)
      BY <1>2, <1>7, <3>1, <3>2, OneSeedAppend, Zenon
    <3> QED BY <3>1, <3>3, OneSeedAppend, Zenon
  <2> QED BY <1>1, <1>7, <2>1, PublishShape, Zenon
<1>8. InOrder(q)'
  <2>1. ASSUME ~seeds_out_of_band
        PROVE  Ordered(q, events', emitted[q].id, published'[q])
    BY <1>5, <1>6, <2>1, Zenon DEF PairStream, InOrder
  <2> QED BY <1>1, <1>5, <2>1, Zenon DEF PairStream, InOrder, Ordered, IsBookOf
<1>9. InBand(q)'
  <2>1. ASSUME awaits_in_band_seed
        PROVE  OneSeed(q, events', ~snapped[q] \/ phase[q] = "Passthrough")
    <3>1. OneSeed(q, events, ~snapped[q] \/ phase[q] = "Passthrough")
      BY <1>5, <2>1, Zenon DEF PairStream, InBand
    <3> QED BY <1>7, <3>1, Zenon
  <2> QED BY <1>1, <1>5, <2>1, Zenon DEF PairStream, InBand, OneSeed, SeedOf, IsBookOf
<1>10. Waiting(q)' /\ Current(q)'
  BY <1>1, <1>5, Zenon DEF PairStream, Waiting, Current, BookIsLive, Deltas, Frames
<1> QED BY <1>8, <1>9, <1>10, Zenon DEF PairStream

LEMMA SnapshotStream ==
    ASSUME Checked, TypeInv, StreamInv, pc # "done", NEW p \in Pairs, VenueSnapshot(p)
    PROVE  StreamInv'
<1>1. Parts /\ UNCHANGED <<published, emitted, book, phase, buf, pc, replay>>
      /\ snapped' = [snapped EXCEPT ![p] = TRUE]
      /\ (snapped[p] => ~seeds_out_of_band)
  BY TypeParts, Zenon DEF VenueSnapshot
<1>2. events \in Seq(Events) /\ snapped \in [Pairs -> BOOLEAN]
  BY <1>1, Zenon DEF Parts, EventInv, StreamInv
<1>3. snapped' \in [Pairs -> BOOLEAN] /\ snapped'[p]
      /\ \A q \in Pairs : q # p => snapped'[q] = snapped[q]
  BY <1>1, <1>2
<1>4. \/ events' = events
      \/ \E d \in Frames : /\ ~seeds_out_of_band => d.update_id = published[p]
                           /\ events' = Append(events, BookEvent(p, d))
  <2>1. ASSUME NEW bad \in Faulty,
               NEW v \in IF seeds_out_of_band THEN Served(p) ELSE {published[p]}
        PROVE  /\ SnapshotFrame(p, v, bad) \in Frames
               /\ ~seeds_out_of_band => SnapshotFrame(p, v, bad).update_id = published[p]
    <3>1. bad \in BOOLEAN
      BY Zenon DEF Faulty
    <3>2. v \in 0..version[p]
      BY <1>1 DEF Served, Parts, VenueInv, HistoryOK
    <3>3. SnapshotFrame(p, v, bad) \in Frames
      BY <1>1, <3>1, <3>2, SnapshotFrameExact
    <3> QED BY <3>3 DEF SnapshotFrame, Checked
  <2> QED BY <2>1, Zenon DEF VenueSnapshot
<1> SUFFICES ASSUME NEW q \in Pairs PROVE PairStream(q)'
  BY <1>3, Zenon DEF StreamInv
<1>5. PairStream(q)
  BY Zenon DEF StreamInv
<1>6. InOrder(q)'
  <2>1. ASSUME ~seeds_out_of_band
        PROVE  Ordered(q, events', emitted[q].id, published[q])
    <3>1. Ordered(q, events, emitted[q].id, published[q])
      BY <1>5, <2>1, Zenon DEF PairStream, InOrder
    <3>2. ASSUME NEW d \in Frames, d.update_id = published[p]
          PROVE  Ordered(q, Append(events, BookEvent(p, d)), emitted[q].id, published[q])
      <4>1. BookEvent(p, d) \in Events
            /\ (IsBookOf(q, BookEvent(p, d)) =>
                    BookEvent(p, d).delta.update_id = published[q])
        BY <3>2, EventKinds, Zenon
      <4> QED BY <1>2, <3>1, <4>1, OrderedAppend, Zenon
    <3> QED BY <1>4, <2>1, <3>1, <3>2, Zenon
  <2> QED BY <1>1, <1>5, <2>1, Zenon DEF PairStream, InOrder, Ordered, IsBookOf
<1>7. InBand(q)'
  <2> SUFFICES ASSUME awaits_in_band_seed
               PROVE  /\ phase[q] = "Passthrough" => snapped'[q]
                      /\ OneSeed(q, events', ~snapped'[q] \/ phase[q] = "Passthrough")
    BY <1>1, Zenon DEF InBand, OneSeed, SeedOf, IsBookOf
  <2>1. OneSeed(q, events, ~snapped[q] \/ phase[q] = "Passthrough")
        /\ (phase[q] = "Passthrough" => snapped[q])
    BY <1>5, Zenon DEF PairStream, InBand
  <2>2. CASE q = p
    <3>1. ~snapped[p] /\ phase[p] # "Passthrough"
      BY <1>1, <2>1, <2>2, Zenon DEF awaits_in_band_seed
    <3>2. OneSeed(p, events, TRUE)
      BY <2>1, <2>2, <3>1, OneSeedWeakens, Zenon
    <3>3. OneSeed(p, events, FALSE)
      BY <3>2, OneSeedWeakens, Zenon
    <3>4. OneSeed(p, events', FALSE)
      <4>1. ASSUME NEW d \in Frames PROVE OneSeed(p, Append(events, BookEvent(p, d)), FALSE)
        <5>1. BookEvent(p, d) \in Events
          BY EventKinds, Zenon
        <5> QED BY <1>2, <3>2, <5>1, OneSeedAppend, Zenon
      <4> QED BY <1>4, <3>3, <4>1, Zenon
    <3>5. ~(~snapped'[p] \/ phase[p] = "Passthrough")
      BY <1>3, <3>1, Zenon
    <3>6. OneSeed(p, events', ~snapped'[p] \/ phase[p] = "Passthrough")
      BY <3>4, <3>5, OneSeedWeakens, Zenon
    <3> QED BY <2>2, <3>1, <3>6, Zenon
  <2>3. CASE q # p
    <3>1. \A d \in Frames : BookEvent(p, d) \in Events /\ ~SeedOf(q, BookEvent(p, d))
      BY <2>3, EventKinds, Zenon DEF SeedOf
    <3>2. OneSeed(q, events', ~snapped[q] \/ phase[q] = "Passthrough")
      BY <1>2, <1>4, <2>1, <3>1, OneSeedAppend, Zenon
    <3> QED BY <1>3, <2>1, <2>3, <3>2, OneSeedWeakens
  <2> QED BY <2>2, <2>3, Zenon
<1>8. Waiting(q)' /\ Current(q)'
  BY <1>1, <1>5, Zenon DEF PairStream, Waiting, Current, BookIsLive, Deltas, Frames
<1> QED BY <1>6, <1>7, <1>8, Zenon DEF PairStream

LEMMA TailTyped ==
    ASSUME NEW S, NEW q \in Seq(S), q # <<>>
    PROVE  Tail(q) \in Seq(S)
OBVIOUS

LEMMA IdTypes ==
    /\ \A b \in Books : b.last \in Int /\ (b.last # NoId => b.last \in Nat)
    /\ \A d \in Frames : d.update_id \in Nat
<1>1. \A b \in Books : b.last \in Nat \cup {NoId}
  BY DEF Books
<1>2. \A d \in Frames : d.update_id \in Nat
  BY DEF Frames
<1> QED BY <1>1, <1>2 DEF NoId

\* A delta that a checked out-of-band venue's book takes goes on from it.
LEMMA DeltaAdvances ==
    ASSUME Checked, seeds_out_of_band, NEW p \in Pairs, NEW b \in Books, NEW d \in Frames,
           FrameExact(p, d), ~d.is_snapshot, NEW r \in apply(b, d, VenueBooks(p)), r.ok
    PROVE  b.last \in Nat /\ b.last <= d.update_id
<1>1. Model = "SeqDelta"
  BY DEF Checked, seeds_out_of_band, has_snapshot_source
<1>2. r = applied(b, d)
  BY DEF apply, Err
<1>3. b.last # NoId /\ continuous(b.last, d)
  BY <1>1, <1>2 DEF applied, apply_seq_delta, Err
<1>4. b.last \in Nat /\ d.update_id \in Nat
  BY <1>3, IdTypes, Zenon
<1>5. First(d) <= d.update_id /\ First(d) \in Nat
  <2>1. First(d) \in 0..d.update_id
    BY <1>1, Zenon DEF FrameExact
  <2> QED BY <1>4, <2>1
<1>6. b.last \in First(d)..d.update_id
  BY <1>1, <1>3, <1>4, <1>5, ContinuousBridge, Zenon
<1> QED BY <1>4, <1>5, <1>6

LEMMA SeederMeans == /\ HasSeeder => seeds_out_of_band /\ needs_rest /\ ~awaits_in_band_seed
BY RuntimeAssumption DEF RuntimeAssumption, seeds_out_of_band, needs_rest, awaits_in_band_seed

\* A book that was just sent is current, one that was gapped is not live.
LEMMA SetCurrent ==
    ASSUME Parts, NEW p \in Pairs, NEW b \in Books, SetBook(p, b)
    PROVE  /\ \A q \in Pairs : q # p => book'[q] = book[q]
           /\ emit_book(p, b) => /\ Current(p)' /\ emitted'[p].id = b.last
                                 /\ \A q \in Pairs : q # p => emitted'[q] = emitted[q]
           /\ b.state # "Synced" => Current(p)'
<1>1. book \in [Pairs -> Books] /\ book' = [book EXCEPT ![p] = b]
      /\ emitted \in [Pairs -> [id : Nat \cup {NoId}, content : Contents]]
  BY Zenon DEF Parts, PairInv, EmitInv, SetBook
<1>2. book'[p] = b /\ \A q \in Pairs : q # p => book'[q] = book[q]
  BY <1>1
<1>3. ASSUME emit_book(p, b)
      PROVE  emitted'[p].id = b.last /\ \A q \in Pairs : q # p => emitted'[q] = emitted[q]
  BY <1>1, <1>3, Zenon DEF emit_book
<1> QED BY <1>2, <1>3, LiveType, Zenon DEF Current

\* apply_seed on a pair that is waiting for its seed.
LEMMA ApplySeedStream ==
    ASSUME Checked, Parts, ExactInv, StreamInv, pc = "select", UNCHANGED venueVars,
           events' = events \/ (events # <<>> /\ events' = Tail(events)),
           NEW p \in Pairs, phase[p] = "Buffering",
           NEW d \in Frames, FrameExact(p, d), d.is_snapshot,
           awaits_in_band_seed => snapped[p] /\ OneSeed(p, events', TRUE),
           NEW s, NEW f, NEW n, apply_seed(p, d, s, f, n)
    PROVE  StreamInv' /\ StreamStep
<1>1. PICK r \in apply(book[p], d, VenueBooks(p)) :
        /\ SetBook(p, r.book)
        /\ \/ ~r.ok /\ may_reseed(p) /\ UNCHANGED <<phase, buf, emitted, pc, replay>>
           \/ pc' = "done" /\ UNCHANGED emitted
           \/ /\ r.ok /\ emit_book(p, r.book)
              /\ phase' = [phase EXCEPT ![p] = "Passthrough"]
              /\ buf' = [buf EXCEPT ![p] = <<>>]
              /\ replay' = [pair |-> p, snap_id |-> d.update_id, rest |-> buf[p]]
              /\ pc' = "replay"
  BY Zenon DEF apply_seed, Break, SendFailed, Continue
<1>2. book[p] \in Books /\ BookExact(p, book[p]) /\ EventInv
      /\ phase \in [Pairs -> {"Buffering", "Passthrough"}] /\ buf \in [Pairs -> Seq(Frames)]
  BY Zenon DEF Parts, PairInv, ExactInv, BooksExact
<1>3. Outcome(r, d) /\ r.book \in Books
  BY <1>2, ApplyOutcome, Zenon DEF Outcome
<1>4. r.ok => r.book.last \in 0..version[p] /\ r.book.content = history[p][r.book.last]
  BY <1>2, ApplyExact, Zenon
<1>5. \A q \in Pairs : PairStream(q)
  BY Zenon DEF StreamInv
<1>6. seeds_out_of_band
  BY <1>5, Zenon DEF PairStream, InOrder
<1>7. /\ \A q \in Pairs : q # p => book'[q] = book[q]
      /\ emit_book(p, r.book) => /\ Current(p)' /\ emitted'[p].id = r.book.last
                                 /\ \A q \in Pairs : q # p => emitted'[q] = emitted[q]
      /\ r.book.state # "Synced" => Current(p)'
  BY <1>1, <1>3, SetCurrent, Zenon
<1>8. UNCHANGED <<snapped, published, history>> /\ snapped' \in [Pairs -> BOOLEAN]
  BY Zenon DEF StreamInv
<1>9. InOrder(p)'
  BY <1>6, Zenon DEF InOrder
<1>10. CASE pc' = "done" /\ UNCHANGED emitted
  BY <1>8, <1>10, EndsStream, Zenon DEF StreamInv
<1>11. CASE ~r.ok /\ may_reseed(p) /\ UNCHANGED <<phase, buf, emitted, pc, replay>>
  <2>1. r.book.state = "Gapped" /\ r.book.state # "Synced"
    BY <1>3, <1>11, Zenon DEF Outcome
  <2>2. StreamStep
    BY <1>1, <1>3, <1>8, <1>11, <2>1, LosesStream, Zenon
  <2>3. ~awaits_in_band_seed
    BY <1>11, SeederMeans, Zenon DEF may_reseed, can_reseed
  <2>4. InBand(p)' /\ Current(p)'
    BY <1>7, <2>1, <2>3, Zenon DEF InBand
  <2>5. Waiting(p)'
    BY <1>5, <1>11, Zenon DEF PairStream, Waiting, Deltas, Frames
  <2>6. ASSUME NEW q \in Pairs, q # p PROVE PairStream(q)'
    BY <1>2, <1>5, <1>6, <1>7, <1>8, <1>11, <2>6, OtherStream, Zenon
  <2>7. PairStream(p)'
    BY <1>9, <2>4, <2>5, Zenon DEF PairStream
  <2> QED BY <1>8, <2>2, <2>6, <2>7, Zenon DEF StreamInv
<1>12. CASE /\ r.ok /\ emit_book(p, r.book)
            /\ phase' = [phase EXCEPT ![p] = "Passthrough"]
            /\ buf' = [buf EXCEPT ![p] = <<>>]
            /\ replay' = [pair |-> p, snap_id |-> d.update_id, rest |-> buf[p]]
            /\ pc' = "replay"
  <2>1. r.book.state = "Synced"
    BY <1>3, <1>12, Zenon DEF Outcome
  <2>2. /\ \A q \in Pairs : phase'[q] = IF q = p THEN "Passthrough" ELSE phase[q]
        /\ \A q \in Pairs : buf'[q] = IF q = p THEN <<>> ELSE buf[q]
        /\ replay'.pair = p /\ replay'.rest = buf[p]
    BY <1>2, <1>12, Zenon
  <2>3. ~BookIsLive[p] /\ pc # "done" /\ pc' # "done"
    BY <1>12, LiveType, Zenon
  <2>4. StreamStep
    BY <1>1, <1>3, <1>4, <1>8, <1>12, <2>1, <2>2, <2>3, SendsStream, Zenon
  <2>5. InBand(p)'
    <3>1. awaits_in_band_seed =>
            OneSeed(p, events', ~snapped'[p] \/ phase'[p] = "Passthrough")
      BY OneSeedWeakens, Zenon
    <3> QED BY <1>8, <3>1, Zenon DEF InBand, OneSeed, SeedOf, IsBookOf
  <2>6. Waiting(p)'
    <3>1. buf[p] \in Seq(Deltas) /\ <<>> \in Seq(Deltas)
      BY <1>5, EmptyIn, Zenon DEF PairStream, Waiting
    <3>2. buf'[p] = <<>> /\ replay'.rest = buf[p] /\ Deltas' = Deltas
      BY <2>2, Zenon DEF Deltas, Frames
    <3> QED BY <3>1, <3>2, Zenon DEF Waiting
  <2>7. ASSUME NEW q \in Pairs, q # p PROVE PairStream(q)'
    <3>1. phase'[q] = phase[q] /\ buf'[q] = buf[q] /\ replay'.pair # q
      BY <2>2, <2>7, Zenon
    <3> QED BY <1>2, <1>5, <1>6, <1>7, <1>8, <1>12, <2>7, <3>1, OtherStream, Zenon
  <2>8. PairStream(p)'
    BY <1>7, <1>9, <1>12, <2>5, <2>6, Zenon DEF PairStream
  <2> QED BY <1>8, <2>4, <2>7, <2>8, Zenon DEF StreamInv
<1> QED BY <1>1, <1>10, <1>11, <1>12, Zenon

LEMMA RecvSeedStream ==
    ASSUME Checked, TypeInv, ExactInv, StreamInv, NEW p \in Pairs, RecvSeed(p)
    PROVE  StreamInv' /\ StreamStep
<1>1. Parts /\ RecvBook(p) /\ delta.is_snapshot /\ phase[p] = "Buffering"
      /\ apply_seed(p, delta, seeding, fetch, in_flight)
  BY TypeParts DEF RecvSeed
<1>2. delta \in Frames /\ FrameExact(p, delta) /\ pc = "select"
  BY <1>1, RecvBookExact
<1>3. /\ events # <<>> /\ events' = Tail(events) /\ UNCHANGED venueVars
      /\ SeedOf(p, Head(events)) /\ events \in Seq(Events)
  BY <1>1, Zenon DEF RecvBook, SeedOf, IsBookOf, delta, Parts, EventInv
<1>4. ASSUME awaits_in_band_seed PROVE snapped[p] /\ OneSeed(p, events', TRUE)
  <2>1. OneSeed(p, events, ~snapped[p] \/ phase[p] = "Passthrough")
    BY <1>2, <1>4 DEF StreamInv, PairStream, InBand
  <2> QED BY <1>3, <2>1, OneSeedTail, Zenon
<1> QED BY <1>1, <1>2, <1>3, <1>4, ApplySeedStream, Zenon

LEMMA SeedReadyStream ==
    ASSUME Checked, TypeInv, RecoveryInv, ExactInv, StreamInv, NEW p \in Pairs, SeedReady(p)
    PROVE  StreamInv' /\ StreamStep
<1> DEFINE f == [fetch EXCEPT ![p] = [status |-> "idle"]]
           s == [seeding EXCEPT ![p] = FALSE]
<1>1. Parts /\ RecvSeedResult(p) /\ fetch[p].status = "ready"
  BY TypeParts DEF SeedReady
<1>2. pc = "select" /\ UNCHANGED <<venueVars, events>>
  BY <1>1, Zenon DEF RecvSeedResult, Selecting
<1>3. PICK d \in Frames : fetch[p].seed = d
  BY <1>1 DEF Parts, SeedInv, SeedOK, Fetches
<1>4. d.is_snapshot /\ FrameExact(p, d)
  BY <1>1, <1>3, Zenon DEF ExactInv, Seeds
<1>5. seeding[p]
  BY <1>1 DEF Parts, SeedInv, SeedOK
<1>6. phase[p] = "Buffering" /\ HasSeeder
  BY <1>2, <1>5 DEF RecoveryInv, PairRecovery
<1>7. apply_seed(p, d, s, f, in_flight - 1)
  BY <1>3, Zenon DEF SeedReady
<1> HIDE DEF f, s
<1>8. ~awaits_in_band_seed
  BY <1>6, SeederMeans
<1> QED BY <1>1, <1>2, <1>4, <1>6, <1>7, <1>8, ApplySeedStream, Zenon

LEMMA BufferStream ==
    ASSUME TypeInv, StreamInv, NEW p \in Pairs, BufferDelta(p)
    PROVE  StreamInv' /\ StreamStep
<1>1. Parts /\ RecvBook(p) /\ ~delta.is_snapshot
      /\ UNCHANGED <<emitted, book, phase, pc, replay, published, snapped, history>>
      /\ buf' = [buf EXCEPT ![p] = newest(Append(buf[p], delta))]
  BY TypeParts, Zenon DEF BufferDelta, RecvBook
<1>2. /\ events # <<>> /\ events' = Tail(events) /\ pc = "select" /\ EventInv
      /\ delta \in Frames /\ buf \in [Pairs -> Seq(Frames)]
  BY <1>1, RecvBookFacts, Zenon DEF RecvBook, Selecting, Parts, PairInv
<1>3. \A q \in Pairs : PairStream(q)
  BY <1>2 DEF StreamInv
<1>4. StreamStep
  BY <1>1, KeepsStream, Zenon
<1>5. newest(Append(buf[p], delta)) \in Seq(Deltas)
  <2>1. buf[p] \in Seq(Deltas) /\ delta \in Deltas
    BY <1>1, <1>2, <1>3, Zenon DEF PairStream, Waiting, Deltas
  <2>2. Append(buf[p], delta) \in Seq(Deltas)
    BY <2>1
  <2> QED BY <2>2, NewestType, Zenon
<1>6. \A q \in Pairs : buf'[q] = IF q = p THEN newest(Append(buf[p], delta)) ELSE buf[q]
  BY <1>1, <1>2, Zenon
<1>7. ASSUME NEW q \in Pairs PROVE PairStream(q)'
  <2>1. InOrder(q)'
    <3>1. ASSUME ~seeds_out_of_band
          PROVE  Ordered(q, events', emitted[q].id, published[q])
      <4>1. Ordered(q, events, emitted[q].id, published[q])
        BY <1>3, <3>1, Zenon DEF PairStream, InOrder
      <4> QED BY <1>2, <4>1, OrderedTail, Zenon DEF EventInv
    <3> QED BY <1>1, <1>3, <3>1, Zenon DEF PairStream, InOrder, Ordered, IsBookOf
  <2>2. InBand(q)'
    <3>1. ASSUME awaits_in_band_seed
          PROVE  OneSeed(q, events', ~snapped[q] \/ phase[q] = "Passthrough")
      <4>1. OneSeed(q, events, ~snapped[q] \/ phase[q] = "Passthrough")
        BY <1>3, <3>1, Zenon DEF PairStream, InBand
      <4> QED BY <1>2, <4>1, OneSeedTail, Zenon DEF EventInv
    <3> QED BY <1>1, <1>3, <3>1, Zenon DEF PairStream, InBand, OneSeed, SeedOf, IsBookOf
  <2>3. Waiting(q)'
    <3>1. buf'[q] \in Seq(Deltas) /\ Deltas' = Deltas
      BY <1>3, <1>5, <1>6, Zenon DEF PairStream, Waiting, Deltas, Frames
    <3>2. pc' # "replay"
      BY <1>1, <1>2
    <3> QED BY <3>1, <3>2, Zenon DEF Waiting
  <2>4. Current(q)'
    BY <1>1, <1>3, LiveType, Zenon DEF PairStream, Current
  <2> QED BY <2>1, <2>2, <2>3, <2>4, Zenon DEF PairStream
<1> QED BY <1>1, <1>4, <1>7, Zenon DEF StreamInv

LEMMA ApplyDeltaStream ==
    ASSUME Checked, TypeInv, RecoveryInv, ExactInv, StreamInv, NEW p \in Pairs,
           ApplyDelta(p)
    PROVE  StreamInv' /\ StreamStep
<1>1. Parts /\ RecvBook(p) /\ phase[p] = "Passthrough"
  BY TypeParts DEF ApplyDelta
<1>2. /\ delta \in Frames /\ FrameExact(p, delta) /\ pc = "select"
      /\ events # <<>> /\ events' = Tail(events) /\ UNCHANGED <<published, snapped, history>>
      /\ IsBookOf(p, Head(events)) /\ EventInv
  BY <1>1, RecvBookExact, Zenon DEF RecvBook, IsBookOf, Parts
<1>3. PICK r \in apply(book[p], delta, VenueBooks(p)) :
        /\ SetBook(p, r.book)
        /\ \/ r.ok /\ emit_book(p, r.book) /\ UNCHANGED <<phase, buf, pc, replay>>
           \/ pc' = "done" /\ UNCHANGED emitted
           \/ /\ ~r.ok /\ may_reseed(p)
              /\ phase' = [phase EXCEPT ![p] = "Buffering"]
              /\ buf' = [buf EXCEPT ![p] = <<delta>>]
              /\ UNCHANGED <<emitted, pc, replay>>
  BY Zenon DEF ApplyDelta, Continue, SendFailed, Break
<1>4. book[p] \in Books /\ BookExact(p, book[p])
      /\ phase \in [Pairs -> {"Buffering", "Passthrough"}] /\ buf \in [Pairs -> Seq(Frames)]
  BY <1>1, Zenon DEF Parts, PairInv, ExactInv, BooksExact
<1>5. book[p].state # "Gapped"
  BY <1>1, <1>2, Zenon DEF RecoveryInv, PairRecovery
<1>6. Outcome(r, delta) /\ r.book \in Books
  BY <1>2, <1>4, ApplyOutcome, Zenon DEF Outcome
<1>7. r.ok => r.book.last \in 0..version[p] /\ r.book.content = history[p][r.book.last]
  BY <1>1, <1>2, <1>4, <1>5, ApplyExact, Zenon
<1>8. /\ \A q \in Pairs : q # p => book'[q] = book[q]
      /\ emit_book(p, r.book) => /\ Current(p)' /\ emitted'[p].id = r.book.last
                                 /\ \A q \in Pairs : q # p => emitted'[q] = emitted[q]
      /\ r.book.state # "Synced" => Current(p)'
  BY <1>1, <1>3, <1>6, SetCurrent, Zenon
<1>9. (\A q \in Pairs : PairStream(q)) /\ snapped' \in [Pairs -> BOOLEAN] /\ pc # "done"
  BY <1>2 DEF StreamInv
<1>10. CASE pc' = "done" /\ UNCHANGED emitted
  BY <1>2, <1>9, <1>10, EndsStream, Zenon DEF StreamInv
<1>11. CASE r.ok /\ emit_book(p, r.book) /\ UNCHANGED <<phase, buf, pc, replay>>
  <2>1. r.book.state = "Synced" /\ r.book.last = delta.update_id
    BY <1>6, <1>11, Zenon DEF Outcome
  <2>2. ~seeds_out_of_band => /\ emitted[p].id <= delta.update_id
                              /\ Ordered(p, events', delta.update_id, published[p])
    <3>1. ~seeds_out_of_band => Ordered(p, events, emitted[p].id, published[p])
      BY <1>9, Zenon DEF PairStream, InOrder
    <3> QED BY <1>2, <3>1, OrderedTail, Zenon DEF EventInv, delta
  <2>3. awaits_in_band_seed =>
            /\ ~delta.is_snapshot
            /\ OneSeed(p, events', ~snapped[p] \/ phase[p] = "Passthrough")
    <3>1. awaits_in_band_seed => OneSeed(p, events, ~snapped[p] \/ phase[p] = "Passthrough")
      BY <1>9, Zenon DEF PairStream, InBand
    <3> QED BY <1>1, <1>2, <3>1, OneSeedTail, Zenon DEF EventInv, delta, SeedOf
  <2>4. seeds_out_of_band => ~delta.is_snapshot
    <3>1. Head(events) \in Streamed
      BY <1>2 DEF RecoveryInv
    <3>2. needs_rest => ~delta.is_snapshot
      BY <1>2, <3>1, Zenon DEF Streamed, IsBookOf, delta
    <3> QED BY <2>3, <3>2, Zenon DEF awaits_in_band_seed
  <2>5. BookIsLive[p] => r.book.last >= emitted[p].id
    <3>1. CASE seeds_out_of_band
      <4>1. book[p].last <= delta.update_id
        BY <1>2, <1>3, <1>4, <1>11, <2>4, <3>1, DeltaAdvances, Zenon
      <4>2. BookIsLive[p] => emitted[p].id = book[p].last
        BY <1>9, Zenon DEF PairStream, Current
      <4>3. book[p].last \in Int /\ delta.update_id \in Int
        <5>1. book[p].last \in Int /\ delta.update_id \in Nat
          BY <1>2, <1>4, IdTypes, Zenon
        <5> QED BY <5>1
      <4> QED BY <2>1, <4>1, <4>2, <4>3
    <3>2. CASE ~seeds_out_of_band
      <4>1. emitted[p].id \in Int /\ delta.update_id \in Int
        <5>1. emitted[p].id \in Int
          <6>1. emitted \in [Pairs -> [id : Nat \cup {NoId}, content : Contents]]
            BY <1>1, Zenon DEF Parts, EmitInv
          <6> QED BY <6>1 DEF NoId
        <5>2. delta.update_id \in Nat
          BY <1>2, IdTypes, Zenon
        <5> QED BY <5>1, <5>2
      <4> QED BY <2>1, <2>2, <3>2, <4>1
    <3> QED BY <3>1, <3>2
  <2>6. StreamStep
    <3>1. \A q \in Pairs : phase'[q] = IF q = p THEN "Passthrough" ELSE phase[q]
      BY <1>1, <1>11, Zenon
    <3>2. pc' # "done"
      BY <1>9, <1>11
    <3> QED BY <1>1, <1>2, <1>3, <1>6, <1>7, <1>9, <1>11, <2>1, <2>5, <3>1, <3>2,
               SendsStream, Zenon
  <2>7. InOrder(p)'
    <3>1. emitted'[p].id = delta.update_id
      BY <1>8, <1>11, <2>1, Zenon
    <3>2. ~seeds_out_of_band => Ordered(p, events', emitted'[p].id, published'[p])
      BY <1>2, <2>2, <3>1, Zenon
    <3> QED BY <1>9, <1>11, <3>2, Zenon DEF PairStream, InOrder, Ordered, IsBookOf
  <2>8. InBand(p)'
    BY <1>2, <1>9, <1>11, <2>3, Zenon DEF PairStream, InBand, OneSeed, SeedOf, IsBookOf
  <2>9. Waiting(p)'
    BY <1>9, <1>11, Zenon DEF PairStream, Waiting, Deltas, Frames
  <2>10. ASSUME NEW q \in Pairs, q # p PROVE PairStream(q)'
    <3>1. pc' # "replay"
      BY <1>2, <1>11
    <3> QED BY <1>2, <1>8, <1>9, <1>11, <2>10, <3>1, OtherStream, Zenon
  <2>11. PairStream(p)'
    BY <1>8, <1>11, <2>7, <2>8, <2>9, Zenon DEF PairStream
  <2> QED BY <1>9, <2>6, <2>10, <2>11, Zenon DEF StreamInv
<1>12. CASE /\ ~r.ok /\ may_reseed(p)
            /\ phase' = [phase EXCEPT ![p] = "Buffering"]
            /\ buf' = [buf EXCEPT ![p] = <<delta>>]
            /\ UNCHANGED <<emitted, pc, replay>>
  <2>1. r.book.state = "Gapped" /\ r.book.state # "Synced"
    BY <1>6, <1>12 DEF Outcome
  <2>2. \A q \in Pairs : q # p => phase'[q] = phase[q] /\ buf'[q] = buf[q]
    BY <1>4, <1>12
  <2>3. pc' # "done" /\ pc' # "replay"
    BY <1>2, <1>12
  <2>4. StreamStep
    BY <1>1, <1>2, <1>3, <1>6, <1>9, <1>12, <2>1, <2>2, <2>3, LosesStream, Zenon
  <2>5. seeds_out_of_band /\ needs_rest /\ ~awaits_in_band_seed
    BY <1>12, SeederMeans, Zenon DEF may_reseed, can_reseed
  <2>6. Waiting(p)'
    <3>1. Head(events) \in Streamed
      BY <1>2 DEF RecoveryInv
    <3>2. delta \in Deltas
      BY <1>2, <2>5, <3>1, Zenon DEF Streamed, IsBookOf, delta, Deltas
    <3>3. buf'[p] \in Seq(Deltas) /\ Deltas' = Deltas
      BY <1>4, <1>12, <3>2
    <3> QED BY <2>3, <3>3, Zenon DEF Waiting
  <2>7. PairStream(p)'
    BY <1>8, <2>1, <2>5, <2>6, Zenon DEF PairStream, InOrder, InBand
  <2>8. ASSUME NEW q \in Pairs, q # p PROVE PairStream(q)'
    BY <1>2, <1>8, <1>9, <1>12, <2>2, <2>3, <2>8, OtherStream, Zenon
  <2> QED BY <1>9, <2>4, <2>7, <2>8, Zenon DEF StreamInv
<1> QED BY <1>3, <1>10, <1>11, <1>12, Zenon

\* What a turn of the replay loop starts from.
LEMMA ReplayStream ==
    ASSUME Parts, StreamInv, NEW p \in Pairs, Replaying(p)
    PROVE  /\ pc = "replay" /\ pc # "done" /\ replay.pair = p /\ seeds_out_of_band
           /\ UNCHANGED <<published, snapped, history, events>> /\ EventInv
           /\ \A q \in Pairs : PairStream(q)
           /\ snapped' \in [Pairs -> BOOLEAN] /\ replay.rest \in Seq(Deltas)
<1>1. pc = "replay" /\ pc # "done" /\ replay.pair = p
  BY DEF Replaying
<1>2. UNCHANGED <<published, snapped, history, events>> /\ EventInv
  BY Zenon DEF Replaying, Parts
<1>3. (\A q \in Pairs : PairStream(q)) /\ snapped' \in [Pairs -> BOOLEAN]
  BY <1>1, <1>2, Zenon DEF StreamInv
<1> QED BY <1>1, <1>2, <1>3, Zenon DEF PairStream, InOrder, Waiting

\* One delta less to replay.
LEMMA NextStream ==
    ASSUME Parts, StreamInv, NEW p \in Pairs, Replaying(p), replay.rest # <<>>, ReplayNext,
           UNCHANGED <<phase, buf, pc>>, Current(p)',
           \A q \in Pairs : q # p => book'[q] = book[q] /\ emitted'[q] = emitted[q]
    PROVE  StreamInv'
<1>1. /\ pc = "replay" /\ pc # "done" /\ replay.pair = p /\ seeds_out_of_band
      /\ UNCHANGED <<published, snapped, history, events>> /\ EventInv
      /\ \A q \in Pairs : PairStream(q)
      /\ snapped' \in [Pairs -> BOOLEAN] /\ replay.rest \in Seq(Deltas)
  BY ReplayStream
<1>2. replay \in [pair : Pairs, snap_id : Nat, rest : Seq(Frames)]
  BY <1>1, Zenon DEF Parts, LoopInv
<1>3. replay'.pair = p /\ replay'.rest = Tail(replay.rest)
  BY <1>1, <1>2 DEF ReplayNext
<1>4. Tail(replay.rest) \in Seq(Deltas)
  <2>1. replay.rest \in Seq(Deltas)
    BY <1>1, Zenon
  <2> QED BY <2>1, TailTyped, Zenon
<1>5. Waiting(p)'
  BY <1>1, <1>3, <1>4, Zenon DEF PairStream, Waiting, Deltas, Frames
<1>6. InOrder(p)' /\ InBand(p)'
  <2>1. InOrder(p)'
    BY <1>1, Zenon DEF InOrder
  <2>2. InBand(p)
    BY <1>1, Zenon DEF PairStream
  <2>3. InBand(p)'
    BY <1>1, <2>2, Zenon DEF InBand, OneSeed, SeedOf, IsBookOf
  <2> QED BY <2>1, <2>3
<1>7. ASSUME NEW q \in Pairs, q # p PROVE PairStream(q)'
  BY <1>1, <1>3, <1>7, OtherStream, Zenon
<1>8. PairStream(p)'
  BY <1>5, <1>6, Zenon DEF PairStream
<1> QED BY <1>1, <1>7, <1>8, Zenon DEF StreamInv

LEMMA ReplaySkipStream ==
    ASSUME TypeInv, StreamInv, NEW p \in Pairs, ReplaySkip(p)
    PROVE  StreamInv' /\ StreamStep
<1>1. Parts /\ Replaying(p) /\ replay.rest # <<>> /\ ReplayNext
      /\ UNCHANGED <<buf, book, phase, emitted, pc, history>>
  BY TypeParts, Zenon DEF ReplaySkip, Replaying
<1>2. Current(p)'
  <2>1. Current(p)
    BY <1>1, ReplayStream, Zenon DEF PairStream
  <2> QED BY <1>1, <2>1, LiveType, Zenon DEF Current
<1>3. StreamInv'
  BY <1>1, <1>2, NextStream, Zenon
<1> QED BY <1>1, <1>3, KeepsStream, Zenon

LEMMA ReplayApplyStream ==
    ASSUME Checked, TypeInv, RecoveryInv, ExactInv, StreamInv, NEW p \in Pairs,
           ReplayApply(p)
    PROVE  StreamInv' /\ StreamStep
<1>1. Parts /\ Replaying(p) /\ replay.rest # <<>>
  BY TypeParts, Zenon DEF ReplayApply
<1>2. /\ pc = "replay" /\ pc # "done" /\ replay.pair = p /\ seeds_out_of_band
      /\ UNCHANGED <<published, snapped, history, events>> /\ EventInv
      /\ \A q \in Pairs : PairStream(q)
      /\ snapped' \in [Pairs -> BOOLEAN] /\ replay.rest \in Seq(Deltas)
  BY <1>1, ReplayStream
<1>3. next \in Frames /\ FrameExact(p, next)
  BY <1>1, ReplayExact
<1>4. ~next.is_snapshot
  BY <1>1, <1>2 DEF next, Deltas
<1>5. PICK r \in apply(book[p], next, VenueBooks(p)) :
        /\ SetBook(p, r.book)
        /\ \/ r.ok /\ emit_book(p, r.book) /\ ReplayNext /\ UNCHANGED <<phase, buf, pc>>
           \/ pc' = "done" /\ UNCHANGED emitted
           \/ /\ ~r.ok /\ may_reseed(p)
              /\ phase' = [phase EXCEPT ![p] = "Buffering"]
              /\ buf' = [buf EXCEPT ![p] = newest(replay.rest)]
              /\ pc' = "select" /\ UNCHANGED emitted
  BY Zenon DEF ReplayApply, SendFailed, Break
<1>6. book[p] \in Books /\ BookExact(p, book[p])
      /\ phase \in [Pairs -> {"Buffering", "Passthrough"}] /\ buf \in [Pairs -> Seq(Frames)]
  BY <1>1, Zenon DEF Parts, PairInv, ExactInv, BooksExact
<1>7. book[p].state = "Synced" /\ phase[p] = "Passthrough" /\ book[p].state # "Gapped"
  BY <1>2 DEF RecoveryInv, PairRecovery
<1>8. Outcome(r, next) /\ r.book \in Books
  BY <1>3, <1>6, ApplyOutcome, Zenon DEF Outcome
<1>9. r.ok => r.book.last \in 0..version[p] /\ r.book.content = history[p][r.book.last]
  BY <1>1, <1>3, <1>6, <1>7, ApplyExact, Zenon
<1>10. /\ \A q \in Pairs : q # p => book'[q] = book[q]
       /\ emit_book(p, r.book) => /\ Current(p)' /\ emitted'[p].id = r.book.last
                                  /\ \A q \in Pairs : q # p => emitted'[q] = emitted[q]
       /\ r.book.state # "Synced" => Current(p)'
  BY <1>1, <1>5, <1>8, SetCurrent, Zenon
<1>11. CASE pc' = "done" /\ UNCHANGED emitted
  BY <1>2, <1>11, EndsStream, Zenon DEF StreamInv
<1>12. CASE r.ok /\ emit_book(p, r.book) /\ ReplayNext /\ UNCHANGED <<phase, buf, pc>>
  <2>1. r.book.state = "Synced" /\ r.book.last = next.update_id
    BY <1>8, <1>12, Zenon DEF Outcome
  <2>2. BookIsLive[p] => r.book.last >= emitted[p].id
    <3>1. book[p].last \in Nat /\ book[p].last <= next.update_id
      BY <1>2, <1>3, <1>4, <1>5, <1>6, <1>12, DeltaAdvances, Zenon
    <3>2. BookIsLive[p] => emitted[p].id = book[p].last
      BY <1>2, Zenon DEF PairStream, Current
    <3>3. next.update_id \in Nat
      BY <1>3 DEF Frames
    <3> QED BY <2>1, <3>1, <3>2, <3>3
  <2>3. StreamStep
    <3>1. \A q \in Pairs : phase'[q] = IF q = p THEN "Passthrough" ELSE phase[q]
      BY <1>7, <1>12, Zenon
    <3>2. pc' # "done"
      BY <1>2, <1>12
    <3> QED BY <1>1, <1>2, <1>5, <1>8, <1>9, <1>12, <2>1, <2>2, <3>1, <3>2, SendsStream,
               Zenon
  <2>4. StreamInv'
    BY <1>1, <1>10, <1>12, NextStream, Zenon
  <2> QED BY <2>3, <2>4
<1>13. CASE /\ ~r.ok /\ may_reseed(p)
            /\ phase' = [phase EXCEPT ![p] = "Buffering"]
            /\ buf' = [buf EXCEPT ![p] = newest(replay.rest)]
            /\ pc' = "select" /\ UNCHANGED emitted
  <2>1. r.book.state = "Gapped" /\ r.book.state # "Synced"
    BY <1>8, <1>13 DEF Outcome
  <2>2. \A q \in Pairs : q # p => phase'[q] = phase[q] /\ buf'[q] = buf[q]
    BY <1>6, <1>13
  <2>3. pc' # "done" /\ pc' # "replay"
    BY <1>13
  <2>4. StreamStep
    BY <1>1, <1>2, <1>5, <1>8, <1>13, <2>1, <2>2, <2>3, LosesStream, Zenon
  <2>5. ~awaits_in_band_seed
    BY <1>13, SeederMeans, Zenon DEF may_reseed, can_reseed
  <2>6. Waiting(p)'
    <3>1. newest(replay.rest) \in Seq(Deltas)
      BY <1>2, NewestType, Zenon
    <3>2. buf'[p] = newest(replay.rest) /\ Deltas' = Deltas
      BY <1>6, <1>13, Zenon DEF Deltas, Frames
    <3> QED BY <2>3, <3>1, <3>2, Zenon DEF Waiting
  <2>7. PairStream(p)'
    BY <1>2, <1>10, <2>1, <2>5, <2>6, Zenon DEF PairStream, InOrder, InBand
  <2>8. ASSUME NEW q \in Pairs, q # p PROVE PairStream(q)'
    BY <1>2, <1>10, <1>13, <2>2, <2>3, <2>8, OtherStream, Zenon
  <2> QED BY <1>2, <2>4, <2>7, <2>8, Zenon DEF StreamInv
<1> QED BY <1>5, <1>11, <1>12, <1>13, Zenon

\* Steps that send nothing and gap nothing.
LEMMA PlainStream ==
    ASSUME TypeInv, StreamInv, pc # "done",
           \/ Subscribe \/ AdapterExit \/ Shutdown \/ DropReceiver \/ EventsClosed
           \/ \E p \in Pairs : FetchDone(p) \/ ReplayDone(p) \/ SeedFailed(p)
           \/ HandleShutdown \/ LoopEnds \/ InBandSeedExpired
    PROVE  StreamInv' /\ StreamStep
<1>1. EventInv
  BY TypeParts, Zenon DEF Parts
<1>2. /\ UNCHANGED <<events, emitted, published, snapped, phase, book, buf, history>>
      /\ pc' = "done" \/ UNCHANGED <<pc, replay>> \/ (pc' = "select" /\ pc # "done")
  BY Zenon DEF Subscribe, AdapterExit, Shutdown, DropReceiver, EventsClosed, FetchDone,
         ReplayDone, Replaying, SeedFailed, RecvSeedResult, Continue, HandleShutdown,
         LoopEnds, InBandSeedExpired, Break
<1>3. pc' # "replay" \/ UNCHANGED <<pc, replay>>
  BY <1>2
<1>4. StreamInv'
  BY <1>1, <1>2, <1>3, QuietStream, Zenon
<1>5. CASE pc' = "done"
  BY <1>2, <1>4, <1>5, EndsStream, Zenon
<1>6. CASE pc' # "done"
  BY <1>2, <1>4, <1>6, KeepsStream, Zenon
<1> QED BY <1>5, <1>6

LEMMA GapStream ==
    ASSUME StreamInv, pc # "done", RecvConnectionGap
    PROVE  StreamInv' /\ StreamStep
<1>1. pc' = "done" /\ UNCHANGED <<history, emitted, snapped>>
  BY Zenon DEF RecvConnectionGap, Break
<1> QED BY <1>1, EndsStream, Zenon DEF StreamInv

LEMMA InitStream ==
    ASSUME Init
    PROVE  StreamInv /\ Service!Begin
<1>1. /\ events = <<>> /\ pc = "select" /\ pc # "replay" /\ DOMAIN events = {}
      /\ snapped \in [Pairs -> BOOLEAN]
  BY DEF Init
<1>2. ASSUME NEW p \in Pairs PROVE PairStream(p)
  <2>1. /\ emitted[p].id = -1 /\ published[p] = 0 /\ buf[p] = <<>>
        /\ book[p].state = "Empty" /\ ~snapped[p]
    BY DEF Init, NewBook, NoId
  <2>2. phase[p] = IF seeds_out_of_band /\ (needs_rest => HasSeeder)
                   THEN "Buffering" ELSE "Passthrough"
    BY Zenon DEF Init
  <2>3. InOrder(p)
    <3>1. Ordered(p, events, emitted[p].id, published[p])
      BY <1>1, <2>1 DEF Ordered
    <3> QED BY <1>1, <2>2, <3>1 DEF InOrder
  <2>4. InBand(p)
    <3>1. awaits_in_band_seed => phase[p] = "Buffering"
      BY <2>2 DEF awaits_in_band_seed
    <3> QED BY <1>1, <3>1 DEF InBand, OneSeed
  <2>5. Waiting(p)
    BY <1>1, <2>1, EmptyIn, Zenon DEF Waiting
  <2>6. ~BookIsLive[p]
    BY <2>1, LiveType
  <2> QED BY <2>3, <2>4, <2>5, <2>6, Zenon DEF PairStream, Current
<1>3. BookIsLive = [p \in Pairs |-> FALSE]
  <2>1. \A p \in Pairs : BookIsLive[p] = FALSE
    <3> SUFFICES ASSUME NEW p \in Pairs PROVE ~BookIsLive[p]
      BY LiveType
    <3>1. book[p].state # "Synced"
      BY DEF Init, NewBook
    <3> QED BY <3>1, LiveType
  <2> QED BY <2>1, LiveType
<1>4. (pc = "done") = FALSE
  BY <1>1
<1>5. Service!Begin
  BY <1>3, <1>4, Zenon DEF Init, Service!Begin, NoId
<1> QED BY <1>1, <1>2, <1>5, Zenon DEF StreamInv

LEMMA StepStream ==
    ASSUME Checked, TypeInv, RecoveryInv, ExactInv, StreamInv, [Next]_vars
    PROVE  StreamInv' /\ StreamStep
<1>1. CASE Environment
  <2>1. pc # "done"
    BY <1>1, Zenon DEF Environment
  <2>2. ASSUME NEW p \in Pairs, NEW k \in Keys, VenueChange(p, k)
        PROVE  StreamInv' /\ StreamStep
    <3>1. UNCHANGED <<events, emitted, published, snapped, phase, book, buf, pc, replay>>
      BY <2>2, Zenon DEF VenueChange
    <3>2. StreamInv'
      BY <3>1, TypeParts, QuietStream, Zenon DEF Parts
    <3> QED BY <2>1, <2>2, <3>2, ChangeStream, Zenon
  <2>3. ASSUME NEW p \in Pairs, VenuePublish(p) \/ VenueSnapshot(p)
        PROVE  StreamInv' /\ StreamStep
    <3>1. UNCHANGED <<history, emitted, phase, book, pc>>
      BY <2>3, Zenon DEF VenuePublish, VenueSnapshot
    <3> QED BY <2>1, <2>3, <3>1, KeepsStream, PublishStream, SnapshotStream, Zenon
  <2> QED BY <1>1, <2>1, <2>2, <2>3, PlainStream, Zenon DEF Environment
<1>2. CASE RuntimeStep
  BY <1>2, RecvSeedStream, BufferStream, ApplyDeltaStream, SeedReadyStream,
     ReplaySkipStream, ReplayApplyStream, GapStream, PlainStream, Zenon
     DEF RuntimeStep
<1>3. CASE Returned \/ UNCHANGED vars
  <2>1. UNCHANGED <<events, emitted, published, snapped, phase, book, buf, pc, replay,
                    history>>
    BY <1>3, Zenon DEF Returned, vars
  <2>2. StreamInv'
    BY <2>1, TypeParts, QuietStream, Zenon DEF Parts
  <2> QED BY <2>1, <2>2, KeepsStream, Zenon
<1> QED BY <1>1, <1>2, <1>3, Zenon DEF Next

-----------------------------------------------------------------------------
(* The theorems.                                                           *)

INSTANCE FiniteSetTheorems

LEMMA CountOn ==
    ASSUME NEW s \in [Pairs -> BOOLEAN], NEW p \in Pairs, ~s[p]
    PROVE  Cardinality({q \in Pairs : [s EXCEPT ![p] = TRUE][q]})
             = Cardinality({q \in Pairs : s[q]}) + 1
<1>1. {q \in Pairs : [s EXCEPT ![p] = TRUE][q]} = {q \in Pairs : s[q]} \cup {p}
  OBVIOUS
<1>2. IsFiniteSet({q \in Pairs : s[q]})
  BY FS_Subset, RuntimeAssumption DEF RuntimeAssumption
<1> QED BY <1>1, <1>2, FS_AddElement

LEMMA CountOff ==
    ASSUME NEW s \in [Pairs -> BOOLEAN], NEW p \in Pairs, s[p]
    PROVE  /\ Cardinality({q \in Pairs : [s EXCEPT ![p] = FALSE][q]})
                = Cardinality({q \in Pairs : s[q]}) - 1
           /\ Cardinality({q \in Pairs : s[q]}) \in Nat \ {0}
<1>1. {q \in Pairs : [s EXCEPT ![p] = FALSE][q]} = {q \in Pairs : s[q]} \ {p}
  OBVIOUS
<1>2. IsFiniteSet({q \in Pairs : s[q]})
  BY FS_Subset, RuntimeAssumption DEF RuntimeAssumption
<1>3. Cardinality({q \in Pairs : s[q]}) \in Nat
  BY <1>2, FS_CardinalityType
<1>4. Cardinality({q \in Pairs : s[q]}) # 0
  BY <1>2, FS_EmptySet
<1> QED BY <1>1, <1>2, <1>3, <1>4, FS_RemoveElement

LEMMA Counted == Counting
<1>1. Cardinality(Pairs) \in Nat /\ Cardinality({}) = 0
  BY RuntimeAssumption, FS_CardinalityType, FS_EmptySet DEF RuntimeAssumption
<1> QED BY <1>1, CountOn, CountOff, Zenon DEF Counting, Flagged

LEMMA TypesHold == Spec => []TypeInv
<1>1. Init => TypeInv
  BY InitType, Counted
<1>2. TypeInv /\ [Next]_vars => TypeInv'
  BY NextType, Counted
<1> QED BY <1>1, <1>2, PTL DEF Spec

\* Every field keeps its type, the seed buffer its cap and the re-seed counter
\* its budget, for any number of pairs and any interleaving (SourceRuntime::run).
THEOREM TypeCorrect == Spec => []TypeOK
<1>1. TypeInv => TypeOK
  BY DEF TypeInv
<1> QED BY <1>1, TypesHold, PTL

\* in_flight counts exactly the pairs with a seed fetch running or waiting, so
\* the loop never exits early on a miscount nor waits for a fetch that is gone.
THEOREM SeedsAccounted == Spec => []SeedAccounting
<1>1. TypeInv => SeedAccounting
  BY DEF TypeInv
<1> QED BY <1>1, TypesHold, PTL

LEMMA RecoveryHolds == Spec => [](TypeInv /\ RecoveryInv)
BY TypesHold, InitRecovery, NextRecovery, PTL DEF Spec

\* On a REST-seeded venue a pair buffers exactly while a fetch for it is on the
\* way: no quiet stream strands an unseeded book, and no late seed rewinds a
\* live one (the retry ladder of SourceRuntime::run and request_reseed).
THEOREM NoPairStranded == Spec => []NeverStranded
<1>1. TypeInv /\ RecoveryInv => NeverStranded
  BY DEF RecoveryInv, PairRecovery, NeverStranded
<1> QED BY <1>1, RecoveryHolds, PTL

\* Between two turns of the loop the feed set shows a pair Live exactly when
\* its book is continuous and passes through (note_live, note_resubscribing).
THEOREM LiveMeansSynced == Spec => []LiveFeedSynced
<1>1. TypeInv /\ RecoveryInv => LiveFeedSynced
  BY DEF RecoveryInv, PairRecovery, LiveFeedSynced
<1> QED BY <1>1, RecoveryHolds, PTL

\* Every book a checked venue's runtime emits (emit_book) is the venue's own
\* book at the id it carries, for any number of pairs, levels, losses,
\* malformed frames, stale or failed seeds and re-seeds.
THEOREM EmissionsExact ==
    ASSUME Checked
    PROVE  Spec => []EmittedExact
<1>1. Init => ExactInv
  BY InitExact
<1>2. TypeInv /\ RecoveryInv /\ ExactInv /\ [Next]_vars => ExactInv'
  BY NextExact
<1>3. ExactInv => EmittedExact
  BY DEF ExactInv
<1> QED BY <1>1, <1>2, <1>3, RecoveryHolds, PTL DEF Spec

\* The marks the runtime makes never take an edge the graph of feed.rs lacks,
\* so Feed::transition's debug_assert cannot fire under this task.
THEOREM FeedMovesLegal == Spec => FeedEdgesLegal
<1>1. TypeInv /\ RecoveryInv /\ [Next]_vars =>
        [\A p \in Pairs : feed'[p] # feed[p] => can_transition_to(feed[p], feed'[p])]_vars
  BY FeedEdge, Zenon
<1> QED BY <1>1, RecoveryHolds, PTL DEF Spec, FeedEdgesLegal

LEMMA EndHolds == Spec => [](TypeInv /\ RecoveryInv /\ EndInv)
<1>1. Init => EndInv
  BY DEF Init, EndInv, FinishedIsClean
<1>2. TypeInv /\ RecoveryInv /\ EndInv /\ [Next]_vars => EndInv'
  BY EndStep, Counted
<1> QED BY <1>1, <1>2, RecoveryHolds, PTL DEF Spec

\* A runtime that returns Finished though nobody asked it to has drained its
\* stream, settled every seed fetch and leaves no pair waiting or gapped: the loop's
\* exit test never lets a broken book pass for an orderly end.
THEOREM FinishedMeansDrained == Spec => []FinishedIsClean
<1>1. EndInv => FinishedIsClean
  BY DEF EndInv
<1> QED BY <1>1, EndHolds, PTL

\* After the shutdown watch is set the runtime returns within MAX_BUFFERED_DELTAS + 2
\* turns: it finishes the replay it is in, which only shrinks, and takes up nothing
\* else (the biased select of SourceRuntime::run).
THEOREM ShutdownIsForward == Spec => [](Left <= MaxBuffered + 2) /\ ShutdownGoesForward
<1>1. TypeInv /\ RecoveryInv /\ EndInv => Left <= MaxBuffered + 2
  <2> SUFFICES ASSUME TypeInv, EndInv PROVE Left <= MaxBuffered + 2
    OBVIOUS
  <2>1. pc = "replay" => Len(replay.rest) \in Nat /\ Len(replay.rest) <= MaxBuffered
    BY TypeParts DEF Parts, LoopInv, EndInv
  <2>2. pc \in {"select", "replay", "done"} /\ MaxBuffered \in Nat
    BY TypeParts, RuntimeAssumption DEF Parts, LoopInv, RuntimeAssumption
  <2> QED BY <2>1, <2>2 DEF Left
<1>2. TypeInv /\ TypeInv' /\ [Next]_vars =>
        [shut => /\ shut'
                 /\ RuntimeStep => Left' < Left
                 /\ ~RuntimeStep => Left' = Left]_vars
  BY LeftStep
<1>3. Spec => [](Left <= MaxBuffered + 2)
  BY <1>1, EndHolds, PTL
<1>4. Spec => ShutdownGoesForward
  BY <1>2, TypesHold, PTL DEF Spec, ShutdownGoesForward
<1> QED BY <1>3, <1>4

\* The runtime of a checked venue implements BookStream: each book it sends is
\* one the venue had, never older than the last while the pair is live, and a
\* pair that lost continuity sends nothing until it is seeded again.
THEOREM ImplementsBookStream ==
    ASSUME Checked
    PROVE  Spec => Service!Stream
<1>1. Init => ExactInv /\ StreamInv /\ Service!Begin
  BY InitExact, InitStream
<1>2. TypeInv /\ RecoveryInv /\ ExactInv /\ [Next]_vars => ExactInv'
  BY NextExact
<1>3. TypeInv /\ RecoveryInv /\ ExactInv /\ StreamInv /\ [Next]_vars =>
        StreamInv' /\ [Service!Step]_(Service!svars)
  BY StepStream DEF StreamStep
<1> QED BY <1>1, <1>2, <1>3, RecoveryHolds, PTL DEF Spec, Service!Stream

=============================================================================

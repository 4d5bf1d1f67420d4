----------------------------- MODULE SourcedBook -----------------------------
(***************************************************************************)
(* SourcedOrderbook (aetelier-connect/src/framework/model.rs) over the L2  *)
(* engine OrderbookDelta (aetelier-types/src/orderbooks/delta.rs).         *)
(*                                                                         *)
(* Data abstraction.  A key is a price level, or an order id for an L3     *)
(* book.  The venue numbers its changes 1, 2, 3, ...; the content of a     *)
(* book maps each key to the number of the change that last set it (0 when *)
(* none did).  A frame carries absolute values, so applying one overlays   *)
(* the keys it names and leaves the others alone.                          *)
(***************************************************************************)
EXTENDS Integers

CONSTANTS
    Keys,       \* price levels / order ids of one book
    Model,      \* ReconstructionModel
    Predicate,  \* SeqPredicate, for SeqDelta
    Source      \* SnapshotSource, for SeqDelta and L3

ASSUME ModelAssumption ==
    /\ Model \in {"FullRefresh", "SeqDelta", "ChecksumDelta", "L3"}
    /\ Predicate \in {"RangeInclusive", "ExactPrev", "Monotonic"}
    /\ Source \in {"RestSnapshot", "ReqOnSocket", "WssSelfSeed"}

-----------------------------------------------------------------------------
(* The seeding taxonomy.                                                   *)

has_snapshot_source == Model \in {"SeqDelta", "L3"}

needs_rest == has_snapshot_source /\ Source = "RestSnapshot"

seeds_out_of_band ==
    has_snapshot_source /\ Source \in {"RestSnapshot", "ReqOnSocket"}

-----------------------------------------------------------------------------
(* Contents and frames.                                                    *)

Contents == [Keys -> Int]

Empty == [k \in Keys |-> 0]

\* What a parse failure part-way through a frame leaves: a mixture that is no
\* book the venue ever had.
Torn == [k \in Keys |-> -1]

Overlay(c, chg) == [k \in Keys |-> IF chg[k] = 0 THEN c[k] ELSE chg[k]]

NoId == -1      \* Option::None for `last`

\* A checksum-venue frame that carries no checksum.
NoSum == [k \in Keys |-> -2]

\* NormalizedDelta.  `sequence` is the first id of the frame (RangeInclusive),
\* its predecessor pointer (ExactPrev) or the id itself (Monotonic);
\* `levels` is the whole book of a snapshot, the changed keys of a delta;
\* `checksum` stands for the CRC of the venue's book at update_id (no
\* collisions); `bad` marks a frame some value of which fails to parse.
Frames == [is_snapshot : BOOLEAN, sequence : Nat, update_id : Nat,
           levels : Contents, checksum : Contents, bad : BOOLEAN]

Books == [state : {"Empty", "Synced", "Gapped"}, last : Nat \cup {NoId},
          initialized : BOOLEAN, content : Contents]

NewBook == [state |-> "Empty", last |-> NoId, initialized |-> FALSE,
            content |-> Empty]

-----------------------------------------------------------------------------
(* Applying a frame.  A result is the book it leaves and whether it is Ok. *)

Ok(b)  == [ok |-> TRUE,  book |-> b]
Err(b) == [ok |-> FALSE, book |-> b]

\* Mutant: the levels that did parse are kept and the frame counts as applied.
process_lenient(b, d) ==
    IF d.bad THEN Ok([b EXCEPT !.content = Torn, !.initialized = TRUE])
    ELSE IF d.is_snapshot
         THEN Ok([b EXCEPT !.content = d.levels, !.initialized = TRUE])
         ELSE IF b.initialized
              THEN Ok([b EXCEPT !.content = Overlay(b.content, d.levels)])
              ELSE Err(b)

\* OrderbookDelta::process: a snapshot resets the levels, a delta needs an
\* initialized book, and a parse error returns with the levels half written.
process(b, d) ==
    IF ~d.is_snapshot /\ ~b.initialized THEN Err(b)
    ELSE IF d.bad THEN Err([b EXCEPT !.content = Torn])
    ELSE IF d.is_snapshot
         THEN Ok([b EXCEPT !.content = d.levels, !.initialized = TRUE])
         ELSE Ok([b EXCEPT !.content = Overlay(b.content, d.levels)])

gap(b) == [b EXCEPT !.state = "Gapped"]

synced(b, d) == [b EXCEPT !.last = d.update_id, !.state = "Synced"]

\* Mutant: any later frame is taken for the next one.
continuous_loose(last, d) == d.update_id > last

continuous(last, d) ==
    CASE Predicate = "RangeInclusive" ->
            d.sequence <= last + 1 /\ d.update_id > last
      [] Predicate = "ExactPrev" -> d.sequence = last
      [] Predicate = "Monotonic" -> d.update_id > last

\* process, then Synced at the frame's id; a fault gaps the book.
processed(b, d) ==
    LET r == process(b, d)
    IN  IF r.ok THEN Ok(synced(r.book, d)) ELSE Err(gap(r.book))

apply_seq_delta(b, d) ==
    IF ~d.is_snapshot /\ (b.last = NoId \/ ~continuous(b.last, d))
    THEN Err(gap(b))
    ELSE processed(b, d)

apply_full_refresh(b, d) == processed(b, [d EXCEPT !.is_snapshot = TRUE])

\* Mutant: the checksum is not compared.
apply_checksummed_unchecked(b, d) == processed(b, d)

\* The checksum is compared after the levels and `last` have changed.
apply_checksummed(b, d) ==
    LET r == process(b, d)
        c == [r.book EXCEPT !.last = d.update_id]
    IN  IF ~r.ok THEN Err(gap(r.book))
        ELSE IF \/ d.checksum # NoSum /\ c.content # d.checksum
                \/ d.checksum = NoSum /\ ~d.is_snapshot
             THEN Err(gap(c))
             ELSE Ok(synced(c, d))

\* An L3 frame upserts orders by id, with no continuity check.  An order whose
\* price or size does not parse is dropped from the book and the rest applied.
apply_l3(b, d) ==
    LET base   == IF d.is_snapshot THEN Empty ELSE b.content
        orders == [k \in Keys |-> IF d.bad /\ d.levels[k] # 0
                                  THEN Torn[k] ELSE d.levels[k]]
    IN  IF ~d.is_snapshot /\ ~b.initialized THEN Err(gap(b))
        ELSE Ok(synced([b EXCEPT !.initialized = TRUE,
                                 !.content = Overlay(base, orders)], d))

applied(b, d) ==
    CASE Model = "FullRefresh"   -> apply_full_refresh(b, d)
      [] Model = "SeqDelta"      -> apply_seq_delta(b, d)
      [] Model = "ChecksumDelta" -> apply_checksummed(b, d)
      [] Model = "L3"            -> apply_l3(b, d)

\* SourcedOrderbook::apply: the model's own apply, then the crossed-book
\* check, as the set of possible results.  A book the venue itself had is never
\* crossed; any other content may be.  An L3 order map may also be over its cap
\* (L3_MAX_ORDERS), which gaps the book before its levels change.
apply(b, d, venueBooks) ==
    LET r == applied(b, d)
    IN  {r} \cup (IF r.ok /\ r.book.content \notin venueBooks
                  THEN {Err(gap(r.book))} ELSE {})
            \cup (IF Model = "L3" THEN {Err(gap(b))} ELSE {})

force_gap(b) == [b EXCEPT !.state = "Gapped", !.last = NoId, !.content = Empty]

=============================================================================

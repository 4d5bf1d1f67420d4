----------------------------- MODULE MarketSync -----------------------------
(***************************************************************************)
(* MarketSynchronizer: aligns market events to a grid of rows.  The row    *)
(* labelled p closes the content period [(p-1)*Period, p*Period).  A       *)
(* driving clock (one feed, or on_time) makes rows ripe; every other event *)
(* waits in a buffer until the row its own timestamp falls in is emitted.  *)
(*                                                                         *)
(* One symbol, which is what a worker feeds it.  An input is one call of   *)
(* an on_* method; it carries a number, its timestamp and, as history, the *)
(* driving timestamp the clock had seen when it was made.                  *)
(***************************************************************************)
EXTENDS Integers, Sequences, FiniteSets

CONSTANTS
  Modes,          \* the clock modes a run constructs the synchronizer with
  Kinds,          \* the on_* methods a run calls
  Stamps,         \* timestamps, in no order: feeds are late and disordered
  Period,         \* period_us
  Delay,          \* emission_delay_us
  MaxGapFill,     \* MAX_GAP_FILL
  MaxCalls,       \* bound on the number of calls
  None            \* Option::None

VARIABLES
  clock_mode,     \* fixed at construction
  clock,          \* clock_period, or last_period of the symbol; None at first
  books,          \* the last book of each grid period, pruned
  current,        \* the five current_* vectors
  buffer,         \* rows ready to be drained
  total_captured,
  late_events_dropped,
  finalized,
  \* history
  calls,          \* number of calls made
  arrived,        \* every event handed to on_trade .. on_open_interest
  dropped,        \* every input counted in late_events_dropped
  delivered,      \* rows drained
  seen,           \* books, never pruned
  anchor,         \* the first value of clock
  reached         \* the highest timestamp that drove the clock

vars == <<clock_mode, clock, books, current, buffer, total_captured,
          late_events_dropped, finalized, calls, arrived, dropped, delivered,
          seen, anchor, reached>>

ClockModes == {"OrderbookDriven", "TradeDriven", "LiquidationDriven",
               "ExternalClock"}

EventKinds == {"Trade", "Liquidation", "FundingRate", "OpenInterest",
               "FundingSettlement"}

\* The kind of input that drives the clock of each mode.
Driver == [OrderbookDriven |-> "Book", TradeDriven |-> "Trade",
           LiquidationDriven |-> "Liquidation", ExternalClock |-> "Time"]

ASSUME SyncAssumption ==
  /\ Modes \subseteq ClockModes
  /\ Kinds \subseteq EventKinds \cup {"Book", "Time"}
  /\ Stamps \subseteq Nat
  /\ Period \in Nat \ {0} /\ Delay \in Nat /\ MaxGapFill \in Nat \ {0}
  /\ MaxCalls \in Nat
  /\ None \notin Nat

\* No gap is longer than the fill cap.
NoCap == \A t \in Stamps : t \div Period <= MaxGapFill

Inputs == [id : Nat, kind : EventKinds \cup {"Book", "Time"}, ts : Nat,
           reached : Nat \cup {None}, closed : BOOLEAN]

Events == {e \in Inputs : e.kind \in EventKinds}

-----------------------------------------------------------------------------
\* Rows and attribution

Grid(ts) == ts \div Period

\* Mutants: the subtraction goes below zero; the delay is forgotten.
RipeUnsaturated(ts) == Grid(ts - Delay)
RipeAtBoundary(ts) == Grid(ts)

\* The clock is held back by the emission delay (saturating_sub).
Ripe(ts) == Grid(IF ts > Delay THEN ts - Delay ELSE 0)

\* Mutant: a row is labelled by the start of its period.
RowByStart(e) == Grid(e.ts)

RowOf(e) == Grid(e.ts) + 1

IsSettlement(e) == e.kind = "FundingSettlement"

\* Mutant: settlements are late like anything else.
HomeRowPlain(e, prev) == RowOf(e)

\* drain_events: a settlement whose row is gone rides the next one.
HomeRow(e, prev) ==
  IF IsSettlement(e) /\ RowOf(e) <= prev THEN prev + 1 ELSE RowOf(e)

Late(evs, prev) == {e \in evs : HomeRow(e, prev) <= prev}

Members(evs, prev, row) == {e \in evs : HomeRow(e, prev) = row}

\* Mutant: the last emitted row's events are also kept.
KeptInclusive(evs, prev, last) == {e \in evs : HomeRow(e, prev) >= last}

Kept(evs, prev, last) == {e \in evs : HomeRow(e, prev) > last}

AsOfPeriods(bks, row) == {k \in DOMAIN bks : k < row}

\* k is the last of the periods before `row` that have a book.
IsAsOf(bks, row, k) ==
  /\ k \in AsOfPeriods(bks, row)
  /\ \A j \in AsOfPeriods(bks, row) : j <= k

as_of_book(bks, row) ==
  IF AsOfPeriods(bks, row) = {} THEN None
  ELSE bks[CHOOSE k \in AsOfPeriods(bks, row) : IsAsOf(bks, row, k)]

record_book(bks, b) ==
  [k \in DOMAIN bks \cup {Grid(b.ts)} |-> IF k = Grid(b.ts) THEN b ELSE bks[k]]

\* Mutant: the as-of entry of the last row is pruned too.
PruneAsOf(bks, last) == [k \in {k \in DOMAIN bks : k >= last} |-> bks[k]]

prune_books(bks, last) ==
  [k \in {k \in DOMAIN bks :
            \A j \in AsOfPeriods(bks, last) :
               IsAsOf(bks, last, j) => k >= j} |-> bks[k]]

Row(p, book, evs, final) ==
  [row |-> p, book |-> book, events |-> evs, final |-> final]

\* Mutant: a gap is always filled to the cap.
FillToCap(prev, cur) == prev + MaxGapFill

LastEmitted(prev, cur) ==
  IF cur - prev > MaxGapFill THEN prev + MaxGapFill ELSE cur

EmittedRows(prev, last, evs, bks) ==
  [i \in 1 .. last - prev |->
     Row(prev + i, as_of_book(bks, prev + i), Members(evs, prev, prev + i),
         FALSE)]

\* What driving the clock with `ts` does: advance_grid, and the same text in
\* on_orderbook.
advance_grid(ts, evs) ==
  LET cur  == Ripe(ts)
      last == LastEmitted(clock, cur)
  IN  IF clock = None
      THEN [clock |-> cur, current |-> evs, books |-> books,
            rows |-> <<>>, late |-> {}]
      ELSE IF cur <= clock
      THEN [clock |-> clock, current |-> evs, books |-> books,
            rows |-> <<>>, late |-> {}]
      ELSE [clock   |-> cur,
            current |-> Kept(evs, clock, last),
            books   |-> prune_books(books, last),
            rows    |-> EmittedRows(clock, last, evs, books),
            late    |-> Late(evs, clock)]

-----------------------------------------------------------------------------
\* Calls

Input(kind, ts) == [id |-> calls + 1, kind |-> kind, ts |-> ts,
                    reached |-> reached, closed |-> finalized]

\* A call of the given kind on an open stream.
Open(kind) == kind \in Kinds /\ calls < MaxCalls /\ ~finalized

Drives(kind) == Driver[clock_mode] = kind

Reach(ts) == IF reached = None \/ ts > reached THEN ts ELSE reached

\* The state takes the result g of driving the clock with ts; `bks` are its books,
\* with the crossing book of on_orderbook.
Drive(g, ts, bks) ==
  /\ clock' = g.clock
  /\ current' = g.current
  /\ books' = bks
  /\ buffer' = buffer \o g.rows
  /\ total_captured' = total_captured + Len(g.rows)
  /\ late_events_dropped' = late_events_dropped + Cardinality(g.late)
  /\ dropped' = dropped \cup g.late
  /\ anchor' = IF clock = None THEN g.clock ELSE anchor
  /\ reached' = Reach(ts)

\* on_trade and on_liquidation, and the feeds that never drive the clock.
OnEvent(kind, ts) ==
  LET e == Input(kind, ts)
      g == advance_grid(ts, current \cup {e})
  IN  /\ Open(kind)
      /\ arrived' = arrived \cup {e}
      /\ \/ /\ Drives(kind)
            /\ Drive(g, ts, g.books)
         \/ /\ ~Drives(kind)
            /\ current' = current \cup {e}
            /\ UNCHANGED <<clock, books, buffer, total_captured,
                           late_events_dropped, dropped, anchor, reached>>
      /\ calls' = calls + 1
      /\ UNCHANGED <<clock_mode, finalized, delivered, seen>>

on_trade(ts) == OnEvent("Trade", ts)
on_liquidation(ts) == OnEvent("Liquidation", ts)
on_funding(ts) == OnEvent("FundingRate", ts)
on_open_interest(ts) == OnEvent("OpenInterest", ts)
on_funding_settlement(ts) == OnEvent("FundingSettlement", ts)

on_orderbook(ts) ==
  LET b == Input("Book", ts)
      g == advance_grid(ts, current)
  IN  /\ Open("Book")
      /\ \/ /\ Drives("Book")
            /\ Drive(g, ts, record_book(g.books, b))
         \/ /\ ~Drives("Book")
            /\ books' = record_book(books, b)
            /\ UNCHANGED <<clock, current, buffer, total_captured,
                           late_events_dropped, dropped, anchor, reached>>
      /\ seen' = record_book(seen, b)
      /\ calls' = calls + 1
      /\ UNCHANGED <<clock_mode, finalized, arrived, delivered>>

\* A no-op in every mode but ExternalClock.
on_time(ts) ==
  /\ Open("Time")
  /\ Drives("Time")
  /\ LET g == advance_grid(ts, current) IN Drive(g, ts, g.books)
  /\ calls' = calls + 1
  /\ UNCHANGED <<clock_mode, finalized, arrived, delivered, seen>>

\* Any on_* call after finalize.
drop_post_finalize(kind, ts) ==
  LET x == Input(kind, ts)
  IN  /\ finalized /\ kind \in Kinds /\ calls < MaxCalls
      /\ late_events_dropped' = late_events_dropped + 1
      /\ dropped' = dropped \cup {x}
      /\ arrived' = IF kind \in EventKinds THEN arrived \cup {x} ELSE arrived
      /\ calls' = calls + 1
      /\ UNCHANGED <<clock_mode, clock, books, current, buffer,
                     total_captured, finalized, delivered, seen, anchor,
                     reached>>

\* The last row takes everything still buffered and the latest book.  Without
\* a clock there is no row: the global-clock modes leave the events where they
\* are, OrderbookDriven takes them and has no symbol to give them to.
finalize ==
  /\ ~finalized
  /\ finalized' = TRUE
  /\ \/ /\ clock # None
        /\ LET k == {j \in DOMAIN books : \A i \in DOMAIN books : i <= j}
               latest == IF k = {} THEN None ELSE books[CHOOSE j \in k : TRUE]
           IN  buffer' = Append(buffer, Row(clock + 1, latest, current, TRUE))
        /\ total_captured' = total_captured + 1
        /\ current' = {}
     \/ /\ clock = None
        /\ current' = IF clock_mode = "OrderbookDriven" THEN {} ELSE current
        /\ UNCHANGED <<buffer, total_captured>>
  /\ UNCHANGED <<clock_mode, clock, books, late_events_dropped, calls, arrived,
                 dropped, delivered, seen, anchor, reached>>

\* drain, and market_aggregate, which takes the buffer the same way.
drain ==
  /\ buffer # <<>>
  /\ delivered' = delivered \o buffer
  /\ buffer' = <<>>
  /\ UNCHANGED <<clock_mode, clock, books, current, total_captured,
                 late_events_dropped, finalized, calls, arrived, dropped, seen,
                 anchor, reached>>

Init ==
  /\ clock_mode \in Modes
  /\ clock = None /\ anchor = None /\ reached = None
  /\ books = <<>> /\ seen = <<>>
  /\ current = {} /\ arrived = {} /\ dropped = {}
  /\ buffer = <<>> /\ delivered = <<>>
  /\ total_captured = 0 /\ late_events_dropped = 0 /\ calls = 0
  /\ finalized = FALSE

Next ==
  \/ \E ts \in Stamps :
       \/ on_trade(ts) \/ on_liquidation(ts)
       \/ on_funding(ts) \/ on_open_interest(ts) \/ on_funding_settlement(ts)
       \/ on_orderbook(ts) \/ on_time(ts)
       \/ \E kind \in Kinds : drop_post_finalize(kind, ts)
  \/ finalize
  \/ drain

Spec == Init /\ [][Next]_vars

-----------------------------------------------------------------------------
\* Properties

Rows == delivered \o buffer

RowSet == {Rows[i] : i \in DOMAIN Rows}

InRows == UNION {r.events : r \in RowSet}

\* A stream that is closed before its first clock-driving call has no row.
Unanchored == finalized /\ clock = None

TypeOK ==
  /\ clock_mode \in ClockModes
  /\ clock \in Nat \cup {None} /\ anchor \in Nat \cup {None}
  /\ reached \in Nat \cup {None}
  /\ \A bks \in {books, seen} : \A k \in DOMAIN bks :
       k \in Nat /\ bks[k] \in Inputs
  /\ current \subseteq Events /\ arrived \subseteq Events
  /\ dropped \subseteq Inputs
  /\ \A r \in RowSet : r.row \in Nat /\ r.events \subseteq Events
  /\ {total_captured, late_events_dropped, calls} \subseteq Nat
  /\ finalized \in BOOLEAN

\* Every event handed to the synchronizer is in exactly one place: waiting, in
\* one row, or dropped; and late_events_dropped counts the drops.  drain_events
\* takes the buffers apart and puts them back, and finalize takes them whole:
\* neither may lose or copy an event.
EventsAccounted ==
  /\ ~Unanchored => arrived = current \cup InRows \cup (dropped \cap Events)
  /\ current \cap InRows = {}
  /\ dropped \cap (current \cup InRows) = {}
  /\ \A i, j \in DOMAIN Rows :
       Rows[i].events \cap Rows[j].events # {} => i = j
  /\ late_events_dropped = Cardinality(dropped)
  /\ total_captured = Len(Rows)

\* The rows leave in the order of the grid, none twice, and none is skipped
\* while no gap exceeds the fill cap.  The row of finalize is the last.
RowsInGridOrder ==
  \A i \in DOMAIN Rows : i > 1 =>
    /\ Rows[i].row > Rows[i-1].row
    /\ NoCap => Rows[i].row = Rows[i-1].row + 1
    /\ ~Rows[i-1].final

\* Timestamp membership: what an emitted row holds happened in the period it
\* closes; only settlements may ride a later row.  (The row of finalize is
\* excepted: finalize takes what is buffered.)
TrueRow ==
  \A r \in RowSet : ~r.final =>
    \A e \in r.events :
      /\ e.ts < r.row * Period
      /\ ~IsSettlement(e) => (r.row - 1) * Period <= e.ts

\* Hold-back: a row is emitted once the clock is the emission delay past its
\* closing boundary, and its book is not from after that boundary.
RowsHeldBack ==
  \A r \in RowSet : ~r.final =>
    /\ reached # None /\ reached >= r.row * Period + Delay
    /\ r.book # None => r.book.ts < r.row * Period

\* What the hold-back is for: an event that comes before the clock is the delay
\* past its row's boundary is not lost, and no settlement ever is, except after
\* finalize.  Events from before the anchor are backlog.  With longer gaps
\* than the cap this fails: the clock passes rows that were never emitted.
InTimeNeverLost ==
  NoCap =>
    \A e \in dropped : ~e.closed =>
      /\ ~IsSettlement(e)
      /\ \/ RowOf(e) <= anchor
         \/ e.reached # None /\ e.reached >= RowOf(e) * Period + Delay

\* Pruning never changes a row: every row gets the book that the whole history
\* of books gives it.
PruningInvisible ==
  [][\A i \in DOMAIN buffer' : i > Len(buffer) /\ ~buffer'[i].final =>
       buffer'[i].book = as_of_book(seen, buffer'[i].row)]_vars
====

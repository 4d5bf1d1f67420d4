----------------------------- MODULE TradesRest -----------------------------
(***************************************************************************)
(* What a venue's REST trades endpoint returns to fetch_after              *)
(* (aetelier-connect/src/framework/reconcile.rs), and the ledger of the    *)
(* live trade stream (SourcedTradebook of framework/model.rs).             *)
(*                                                                         *)
(* A print is its rank in the venue's id order.  Prices, sizes and sides   *)
(* are not modelled.  One call of fetch_after is one evaluation of the     *)
(* endpoint: a walk whose pages see the head move returns what one taken   *)
(* at its last page would.                                                 *)
(***************************************************************************)
EXTENDS Naturals, FiniteSets

CONSTANTS
  PageSize,      \* prints in one page: 1000, 100, 100
  MAX_PAGES,     \* pages of one fetch_after
  PerSecond      \* prints in one second of venue time

ASSUME TradesRestAssumption ==
  PageSize \in Nat \ {0} /\ MAX_PAGES \in Nat \ {0} /\ PerSecond \in Nat \ {0}

\* The venues with a fetcher walk by id or by time; the others have none.
Walks == {"ids", "time", "none"}

\* The n smallest and the n largest members of S.
Oldest(S, n) == {p \in S : Cardinality({q \in S : q < p}) < n}
Newest(S, n) == {p \in S : Cardinality({q \in S : q > p}) < n}
-----------------------------------------------------------------------------
WalkIds_newest(served, pos) == Newest({p \in served : p > pos.id}, PageSize * MAX_PAGES)

\* Binance and Bitso: ascending pages of the prints after the anchor.
WalkIds(served, pos) == Oldest({p \in served : p > pos.id}, PageSize * MAX_PAGES)

\* The second a print carries, and the position a fetch resumes after.
Second(p) == (p + PerSecond - 1) \div PerSecond
TradePos(p) == [id |-> p, ts |-> Second(p)]

(* Coinbase: every page holds the newest prints of [start, now], and start  *)
(* moves to the newest second seen.                                         *)
WalkTime(served, pos, now) ==
  LET Take(w, page) ==
        LET fresh == {p \in page : p > pos.id}
            top == CHOOSE s \in {w.start} \union {Second(p) : p \in fresh} :
                     \A t \in {w.start} \union {Second(p) : p \in fresh} : t <= s
        IN  [start |-> top, out |-> w.out \union fresh,
             done |-> Cardinality(page) < PageSize \/ top <= w.start]
      Walk[n \in 0..MAX_PAGES] ==
        IF n = 0
        THEN [start |-> IF pos.ts = 0 THEN 0 ELSE pos.ts - 1,
              out |-> {}, done |-> FALSE]
        ELSE IF Walk[n - 1].done \/ Walk[n - 1].start >= now
             THEN Walk[n - 1]
             ELSE Take(Walk[n - 1],
                       Newest({p \in served : Second(p) \in Walk[n - 1].start..now},
                              PageSize))
  IN  Walk[MAX_PAGES].out

\* The prints after pos that one call of a venue's fetcher returns.
fetch_after(walk, served, pos, now) ==
  IF walk = "ids" THEN WalkIds(served, pos) ELSE WalkTime(served, pos, now)
-----------------------------------------------------------------------------
Tradebook_fresh(seed) == [last_seq |-> 0, trades_lost |-> 0]

\* The ledger of one connection, seeded from the last sequence of the one before.
Tradebook(seed) == [last_seq |-> seed, trades_lost |-> 0]

(* A print with a venue sequence: one at or below the last is a duplicate,  *)
(* a jump counts the prints between.                                        *)
apply(b, seq) ==
  IF b.last_seq = 0 THEN [b EXCEPT !.last_seq = seq]
  ELSE IF seq <= b.last_seq THEN b
  ELSE [last_seq |-> seq, trades_lost |-> b.trades_lost + (seq - b.last_seq - 1)]
=============================================================================

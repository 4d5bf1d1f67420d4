-------------------------- MODULE MarketSyncProofs --------------------------
(***************************************************************************)
(* Proofs about MarketSync, for every period, delay, fill cap and set of   *)
(* timestamps: what becomes of each event, in what order rows leave, what  *)
(* they hold, and that pruning the books never changes one.                *)
(***************************************************************************)
EXTENDS MarketSync, FiniteSetTheorems, TLAPS

USE SMTT(20), ZenonT(20)

-----------------------------------------------------------------------------
\* Arithmetic of the grid

\* A timestamp lies in its grid period.
LEMMA GridBound ==
  ASSUME NEW t \in Nat
  PROVE  /\ Grid(t) \in Nat
         /\ Grid(t) * Period <= t
         /\ t < (Grid(t) + 1) * Period
<1>1. Period \in Nat /\ Period > 0  BY SyncAssumption
<1>2. t = Period * (t \div Period) + (t % Period) /\ t % Period < Period /\ t % Period >= 0
  BY <1>1
<1>. QED  BY <1>1, <1>2 DEF Grid

\* Products are monotone in the period number.
LEMMA ProductMonotone ==
  ASSUME NEW a \in Nat, NEW b \in Nat, a <= b
  PROVE  /\ a * Period \in Nat /\ b * Period \in Nat
         /\ a * Period <= b * Period
BY SyncAssumption

\* A period number is at least p exactly when the timestamp is past p's start.
LEMMA GridAtLeast ==
  ASSUME NEW t \in Nat, NEW p \in Nat
  PROVE  Grid(t) >= p <=> t >= p * Period
<1>1. Grid(t) \in Nat /\ Grid(t) * Period <= t /\ t < (Grid(t) + 1) * Period
  BY GridBound
<1>2. CASE Grid(t) >= p
  <2>1. p * Period <= Grid(t) * Period  BY <1>1, <1>2, ProductMonotone
  <2>2. p * Period \in Nat /\ Grid(t) * Period \in Nat
    BY <1>1, SyncAssumption
  <2>. QED  BY <1>1, <1>2, <2>1, <2>2
<1>3. CASE ~(Grid(t) >= p)
  <2>1. Grid(t) + 1 <= p /\ Grid(t) + 1 \in Nat  BY <1>1, <1>3
  <2>2. (Grid(t) + 1) * Period <= p * Period  BY <2>1, ProductMonotone
  <2>3. p * Period \in Nat /\ (Grid(t) + 1) * Period \in Nat
    BY <1>1, SyncAssumption
  <2>. QED  BY <1>1, <1>3, <2>2, <2>3
<1>. QED  BY <1>2, <1>3

\* The delayed clock reaches p exactly when the timestamp is the delay past p's
\* boundary.
LEMMA RipeAtLeast ==
  ASSUME NEW t \in Nat, NEW p \in Nat
  PROVE  /\ Ripe(t) \in Nat
         /\ p > 0 => (Ripe(t) >= p <=> t >= p * Period + Delay)
         /\ Ripe(t) <= Grid(t)
<1>. DEFINE d == IF t > Delay THEN t - Delay ELSE 0
<1>1. d \in Nat /\ d <= t  BY SyncAssumption
<1>2. Ripe(t) = Grid(d)  BY DEF Ripe
<1>3. Grid(d) \in Nat /\ Grid(t) \in Nat  BY <1>1, GridBound
<1>4. p > 0 => p * Period \in Nat \ {0}  BY SyncAssumption
<1>5. p * Period \in Nat /\ Delay \in Nat  BY SyncAssumption
<1>6. Grid(d) >= p <=> d >= p * Period  BY <1>1, GridAtLeast
<1>7. p > 0 => (d >= p * Period <=> t >= p * Period + Delay)
  <2>. DEFINE q == p * Period
  <2>1. q \in Nat /\ (p > 0 => q > 0)  BY <1>4, <1>5
  <2>. HIDE DEF q
  <2>2. p > 0 => (d >= q <=> t >= q + Delay)  BY <2>1, <1>5
  <2>. QED  BY <2>2 DEF q
<1>8. Grid(d) <= Grid(t)
  <2>1. Grid(d) * Period <= d  BY <1>1, GridBound
  <2>2. Grid(d) * Period \in Nat  BY <1>3, SyncAssumption
  <2>3. Grid(d) * Period <= t  BY <1>1, <2>1, <2>2
  <2>4. Grid(t) >= Grid(d)  BY <1>3, <2>3, GridAtLeast
  <2>. QED  BY <1>3, <2>4
<1>. QED  BY <1>2, <1>3, <1>6, <1>7, <1>8

-----------------------------------------------------------------------------
\* Sequences and finite sets

\* A non-empty set of naturals below a bound has a greatest element.
LEMMA Greatest ==
  ASSUME NEW S \in SUBSET Nat, S # {}, NEW b \in Nat, \A k \in S : k < b
  PROVE  \E k \in S : \A j \in S : j <= k
<1>. DEFINE T == {b - k : k \in S}
            Less == {ss \in Nat \X Nat : ss[1] < ss[2]}
<1>0. IsWellFoundedOn(Less, Nat)  BY NatLessThanWellFounded DEF OpToRel
<1>1. T \in SUBSET Nat /\ T # {}
  <2>1. \A k \in S : b - k \in Nat  OBVIOUS
  <2>2. PICK k \in S : TRUE  OBVIOUS
  <2>3. b - k \in T  BY <2>2
  <2>. QED  BY <2>1, <2>3
<1>2. PICK x \in T : \A y \in T : ~(<<y, x>> \in Less)
  <2>. HIDE DEF Less, T
  <2>. QED  BY <1>0, <1>1, WFMin
<1>3. \A y \in T : ~(y < x)
  <2>1. ASSUME NEW y \in T, y < x PROVE FALSE
    <3>1. y \in Nat /\ x \in Nat  BY <1>1
    <3>2. <<y, x>> \in Less  BY <3>1, <2>1
    <3>. QED  BY <1>2, <3>2
  <2>. QED  BY <2>1
<1>4. PICK k \in S : x = b - k  OBVIOUS
<1>5. ASSUME NEW j \in S PROVE j <= k
  <2>1. b - j \in T  OBVIOUS
  <2>2. ~(b - j < x)  BY <1>3, <2>1
  <2>. QED  BY <1>4, <2>2
<1>. QED  BY <1>5

\* Concatenation, element by element.
LEMMA ConcatFacts ==
  ASSUME NEW X, NEW s \in Seq(X), NEW t \in Seq(X)
  PROVE  /\ s \o t \in Seq(X)
         /\ Len(s \o t) = Len(s) + Len(t)
         /\ DOMAIN (s \o t) = 1 .. Len(s) + Len(t)
         /\ \A i \in 1 .. Len(s) : (s \o t)[i] = s[i]
         /\ \A i \in 1 .. Len(t) : (s \o t)[Len(s) + i] = t[i]
OBVIOUS

LEMMA ConcatAssociates ==
  ASSUME NEW X, NEW s \in Seq(X), NEW t \in Seq(X), NEW u \in Seq(X)
  PROVE  s \o (t \o u) = (s \o t) \o u
OBVIOUS

-----------------------------------------------------------------------------
\* Books

\* A book history: the book under a period has its timestamp in that period.
IsBooks(bks) ==
  \A k \in DOMAIN bks : k \in Nat /\ bks[k] \in Inputs /\ Grid(bks[k].ts) = k

\* The as-of book is the one under the greatest period before the row.
LEMMA AsOfPick ==
  ASSUME NEW bks, IsBooks(bks), NEW row \in Nat, AsOfPeriods(bks, row) # {}
  PROVE  \E k \in DOMAIN bks :
           IsAsOf(bks, row, k) /\ as_of_book(bks, row) = bks[k]
<1>. DEFINE S == AsOfPeriods(bks, row)
<1>1. S \in SUBSET Nat /\ \A k \in S : k < row  BY DEF AsOfPeriods, IsBooks
<1>2. \E k \in S : \A j \in S : j <= k  BY <1>1, Greatest
<1>3. \E k \in S : IsAsOf(bks, row, k)  BY <1>2 DEF IsAsOf
<1>. DEFINE c == CHOOSE k \in S : IsAsOf(bks, row, k)
<1>4. c \in S /\ IsAsOf(bks, row, c)  BY <1>3
<1>5. as_of_book(bks, row) = bks[c]  BY DEF as_of_book
<1>6. c \in DOMAIN bks  BY <1>4 DEF AsOfPeriods
<1>. QED  BY <1>4, <1>5, <1>6

\* The as-of book of a row is from before the row's boundary.
LEMMA AsOfBefore ==
  ASSUME NEW bks, IsBooks(bks), NEW row \in Nat
  PROVE  /\ as_of_book(bks, row) \in Inputs \cup {None}
         /\ AsOfPeriods(bks, row) = {} \/ as_of_book(bks, row).ts < row * Period
         /\ AsOfPeriods(bks, row) = {} => as_of_book(bks, row) = None
<1>1. CASE AsOfPeriods(bks, row) = {}  BY <1>1 DEF as_of_book
<1>2. CASE AsOfPeriods(bks, row) # {}
  <2>1. PICK k \in DOMAIN bks :
          IsAsOf(bks, row, k) /\ as_of_book(bks, row) = bks[k]
    BY <1>2, AsOfPick
  <2>2. k \in Nat /\ bks[k] \in Inputs /\ Grid(bks[k].ts) = k  BY DEF IsBooks
  <2>3. k < row  BY <2>1 DEF IsAsOf, AsOfPeriods
  <2>4. bks[k].ts \in Nat  BY <2>2 DEF Inputs
  <2>5. ~(Grid(bks[k].ts) >= row)  BY <2>2, <2>3
  <2>6. ~(bks[k].ts >= row * Period)  BY <2>4, <2>5, GridAtLeast
  <2>7. row * Period \in Nat  BY SyncAssumption
  <2>8. bks[k].ts < row * Period  BY <2>4, <2>6, <2>7
  <2>. QED  BY <1>2, <2>1, <2>2, <2>8
<1>. QED  BY <1>1, <1>2

\* Recording and pruning keep a book history one.
LEMMA BooksKept ==
  ASSUME NEW bks, IsBooks(bks), NEW b \in Inputs, NEW last
  PROVE  IsBooks(record_book(bks, b)) /\ IsBooks(prune_books(bks, last))
<1>1. IsBooks(prune_books(bks, last))  BY DEF IsBooks, prune_books
<1>2. b.ts \in Nat  BY DEF Inputs
<1>3. Grid(b.ts) \in Nat  BY <1>2, GridBound
<1>4. IsBooks(record_book(bks, b))
  <2>1. DOMAIN record_book(bks, b) = DOMAIN bks \cup {Grid(b.ts)}
    BY DEF record_book
  <2>2. \A k \in DOMAIN bks \cup {Grid(b.ts)} :
          record_book(bks, b)[k] = IF k = Grid(b.ts) THEN b ELSE bks[k]
    BY DEF record_book
  <2>. QED  BY <1>3, <2>1, <2>2 DEF IsBooks
<1>. QED  BY <1>1, <1>4

-----------------------------------------------------------------------------
\* One crossing of the grid

RowType == [row : Nat, book : Inputs \cup {None}, events : SUBSET Events,
            final : BOOLEAN]

\* What TrueRow and RowsHeldBack ask of a row by itself.
GoodRow(r) ==
  ~r.final =>
    /\ \A e \in r.events :
         /\ e.ts < r.row * Period
         /\ ~IsSettlement(e) => (r.row - 1) * Period <= e.ts
    /\ r.book # None => r.book.ts < r.row * Period

\* The fields of a row.
LEMMA RowFields ==
  ASSUME NEW r \in RowType
  PROVE  /\ r.row \in Nat /\ r.events \in SUBSET Events
         /\ r.book \in Inputs \cup {None} /\ r.final \in BOOLEAN
BY DEF RowType

\* Concatenation of rows.
LEMMA RowsConcat ==
  ASSUME NEW s \in Seq(RowType), NEW t \in Seq(RowType)
  PROVE  /\ s \o t \in Seq(RowType)
         /\ Len(s \o t) = Len(s) + Len(t)
         /\ DOMAIN (s \o t) = 1 .. Len(s) + Len(t)
         /\ \A i \in 1 .. Len(s) : (s \o t)[i] = s[i]
         /\ \A i \in 1 .. Len(t) : (s \o t)[Len(s) + i] = t[i]
         /\ \A i \in 1 .. Len(s) : s[i] \in RowType
<1>. DEFINE X == RowType
<1>. HIDE DEF X
<1>1. s \in Seq(X) /\ t \in Seq(X)  BY DEF X
<1>2. /\ s \o t \in Seq(X)
      /\ Len(s \o t) = Len(s) + Len(t)
      /\ DOMAIN (s \o t) = 1 .. Len(s) + Len(t)
      /\ \A i \in 1 .. Len(s) : (s \o t)[i] = s[i]
      /\ \A i \in 1 .. Len(t) : (s \o t)[Len(s) + i] = t[i]
  BY <1>1, ConcatFacts
<1>3. \A i \in 1 .. Len(s) : s[i] \in X  BY <1>1
<1>. QED  BY <1>2, <1>3 DEF X

\* The fill stops at the clock or at the cap.
LEMMA FillRange ==
  ASSUME NEW c \in Nat, NEW cur \in Nat, c < cur
  PROVE  /\ LastEmitted(c, cur) \in Nat
         /\ c < LastEmitted(c, cur) /\ LastEmitted(c, cur) <= cur
         /\ cur <= MaxGapFill => LastEmitted(c, cur) = cur
BY SyncAssumption DEF LastEmitted

\* The home row of an event: its own, or for a settlement the next to come.
LEMMA HomeRowFacts ==
  ASSUME NEW e \in Events, NEW c \in Nat
  PROVE  /\ RowOf(e) \in Nat \ {0} /\ e.ts \in Nat
         /\ HomeRow(e, c) \in Nat
         /\ HomeRow(e, c) >= RowOf(e)
         /\ ~IsSettlement(e) => HomeRow(e, c) = RowOf(e)
         /\ IsSettlement(e) => HomeRow(e, c) > c
<1>1. e.ts \in Nat  BY DEF Events, Inputs
<1>2. RowOf(e) \in Nat \ {0}  BY <1>1, GridBound DEF RowOf
<1>. QED  BY <1>1, <1>2 DEF HomeRow

\* An event lies before the boundary of its home row, and in the row's period
\* unless it is a settlement.
LEMMA MemberTrue ==
  ASSUME NEW e \in Events, NEW c \in Nat, NEW p \in Nat, HomeRow(e, c) = p
  PROVE  /\ e.ts < p * Period
         /\ ~IsSettlement(e) => (p - 1) * Period <= e.ts
<1>1. /\ RowOf(e) \in Nat \ {0} /\ e.ts \in Nat
      /\ p >= RowOf(e)
      /\ ~IsSettlement(e) => p = RowOf(e)
  BY HomeRowFacts
<1>2. Grid(e.ts) \in Nat /\ RowOf(e) = Grid(e.ts) + 1
  BY <1>1, GridBound DEF RowOf
<1>3. ~(Grid(e.ts) >= p)  BY <1>1, <1>2
<1>4. ~(e.ts >= p * Period)  BY <1>1, <1>3, GridAtLeast
<1>5. p * Period \in Nat  BY SyncAssumption
<1>6. ASSUME ~IsSettlement(e) PROVE (p - 1) * Period <= e.ts
  <2>1. p - 1 = Grid(e.ts)  BY <1>1, <1>2, <1>6
  <2>2. Grid(e.ts) * Period <= e.ts  BY <1>1, GridBound
  <2>. QED  BY <2>1, <2>2
<1>. QED  BY <1>1, <1>4, <1>5, <1>6

\* The rows of one crossing.
LEMMA EmittedRowsFacts ==
  ASSUME NEW c \in Nat, NEW last \in Nat, c < last,
         NEW evs \in SUBSET Events, NEW bks, IsBooks(bks),
         NEW N, N = EmittedRows(c, last, evs, bks)
  PROVE  /\ N \in Seq(RowType)
         /\ Len(N) = last - c
         /\ \A i \in 1 .. Len(N) :
              /\ N[i].row = c + i /\ ~N[i].final
              /\ N[i].events = Members(evs, c, c + i)
              /\ GoodRow(N[i])
<1>1. ASSUME NEW i \in 1 .. last - c
      PROVE  /\ N[i] \in RowType
             /\ N[i].row = c + i /\ N[i].final = FALSE
             /\ N[i].events = Members(evs, c, c + i)
             /\ GoodRow(N[i])
  <2>. DEFINE p == c + i
  <2>1. p \in Nat  OBVIOUS
  <2>2. N[i] = Row(p, as_of_book(bks, p), Members(evs, c, p), FALSE)
    BY DEF EmittedRows
  <2>3. N[i] = [row |-> p, book |-> as_of_book(bks, p),
                events |-> Members(evs, c, p), final |-> FALSE]
    BY <2>2 DEF Row
  <2>4. Members(evs, c, p) \in SUBSET Events  BY DEF Members
  <2>. HIDE DEF p
  <2>5. /\ as_of_book(bks, p) \in Inputs \cup {None}
        /\ as_of_book(bks, p) # None => as_of_book(bks, p).ts < p * Period
    BY <2>1, AsOfBefore
  <2>6. N[i] \in RowType  BY <2>1, <2>3, <2>4, <2>5 DEF RowType
  <2>7. \A e \in Members(evs, c, p) :
          e.ts < p * Period /\ (~IsSettlement(e) => (p - 1) * Period <= e.ts)
    BY <2>1, MemberTrue DEF Members
  <2>8. GoodRow(N[i])  BY <2>3, <2>5, <2>7 DEF GoodRow
  <2>9. N[i].row = p /\ N[i].final = FALSE
        /\ N[i].events = Members(evs, c, p)
    BY <2>3
  <2>. QED  BY <2>6, <2>8, <2>9 DEF p
<1>2. N \in [1 .. last - c -> RowType]  BY <1>1 DEF EmittedRows
<1>3. last - c \in Nat  OBVIOUS
<1>4. N \in Seq(RowType) /\ Len(N) = last - c
  <2>. DEFINE n == last - c
  <2>1. n \in Nat /\ N \in [1 .. n -> RowType]  BY <1>2, <1>3
  <2>. HIDE DEF n
  <2>2. N \in Seq(RowType) /\ Len(N) = n  BY <2>1
  <2>. QED  BY <2>2 DEF n
<1>. QED  BY <1>1, <1>4

\* A crossing takes the waiting events apart: late, in one row, or kept.
LEMMA CrossingPartition ==
  ASSUME NEW c \in Nat, NEW last \in Nat, c < last,
         NEW evs \in SUBSET Events, NEW e \in evs
  PROVE  /\ \/ e \in Late(evs, c) \/ e \in Kept(evs, c, last)
            \/ \E i \in 1 .. last - c : e \in Members(evs, c, c + i)
         /\ ~(e \in Late(evs, c) /\ e \in Kept(evs, c, last))
         /\ \A i \in 1 .. last - c : e \in Members(evs, c, c + i) =>
              e \notin Late(evs, c) /\ e \notin Kept(evs, c, last)
<1>1. HomeRow(e, c) \in Nat  BY HomeRowFacts
<1>2. CASE HomeRow(e, c) <= c  BY <1>1, <1>2 DEF Late, Kept, Members
<1>3. CASE HomeRow(e, c) > last  BY <1>1, <1>3 DEF Late, Kept, Members
<1>4. CASE HomeRow(e, c) > c /\ HomeRow(e, c) <= last
  <2>1. HomeRow(e, c) - c \in 1 .. last - c
        /\ c + (HomeRow(e, c) - c) = HomeRow(e, c)
    BY <1>1, <1>4
  <2>2. e \in Members(evs, c, c + (HomeRow(e, c) - c))  BY <2>1 DEF Members
  <2>3. e \notin Late(evs, c) /\ e \notin Kept(evs, c, last)
    BY <1>1, <1>4 DEF Late, Kept
  <2>. QED  BY <2>1, <2>2, <2>3
<1>. QED  BY <1>1, <1>2, <1>3, <1>4

-----------------------------------------------------------------------------
\* The inductive invariant, conjunct by conjunct, over explicit arguments

\* R is the sequence of all rows, c the clock, a the anchor.
RowsOK(R, c, a, fin) ==
  /\ \A i \in DOMAIN R :
       /\ c \in Nat /\ a < R[i].row
       /\ R[i].final => fin /\ i = Len(R)
       /\ ~R[i].final => R[i].row <= c
       /\ GoodRow(R[i])
  /\ \A i \in DOMAIN R : i > 1 =>
       R[i].row > R[i-1].row /\ (NoCap => R[i].row = R[i-1].row + 1)
  /\ NoCap /\ ~fin /\ Len(R) > 0 => R[Len(R)].row = c

\* A crossing appends the rows after the clock.
LEMMA RowsCross ==
  ASSUME NEW R \in Seq(RowType), NEW N \in Seq(RowType),
         NEW c \in Nat, NEW a \in Nat, NEW cur \in Nat, NEW last \in Nat,
         c < last, last <= cur, a <= c, NoCap => last = cur,
         RowsOK(R, c, a, FALSE),
         Len(N) = last - c,
         \A i \in 1 .. Len(N) :
           N[i].row = c + i /\ ~N[i].final /\ GoodRow(N[i])
  PROVE  RowsOK(R \o N, cur, a, FALSE)
<1>. DEFINE Q == R \o N
            m == Len(R)
            n == Len(N)
<1>1. m \in Nat /\ n \in Nat /\ n > 0  OBVIOUS
<1>2. /\ Len(Q) = m + n /\ DOMAIN Q = 1 .. m + n
      /\ \A i \in 1 .. m : Q[i] = R[i]
      /\ \A i \in 1 .. n : Q[m + i] = N[i]
  BY RowsConcat
<1>3. DOMAIN R = 1 .. m  OBVIOUS
<1>4. \A i \in 1 .. m : R[i].row \in Nat  BY RowsConcat, RowFields
<1>. HIDE DEF Q, m, n
<1>5. \A i \in 1 .. m : /\ a < R[i].row /\ ~R[i].final
                        /\ R[i].row <= c /\ GoodRow(R[i])
  BY <1>3 DEF RowsOK
<1>6. \A i \in 1 .. n : /\ a < N[i].row /\ ~N[i].final
                        /\ N[i].row <= cur /\ GoodRow(N[i])
  BY <1>1 DEF n
<1>7. \A i \in 1 .. m + n :
        i \in 1 .. m \/ (i - m \in 1 .. n /\ i = m + (i - m))
  BY <1>1
<1>8. \A i \in DOMAIN Q : /\ cur \in Nat /\ a < Q[i].row
                          /\ ~Q[i].final /\ Q[i].row <= cur /\ GoodRow(Q[i])
  <2>1. ASSUME NEW i \in 1 .. m
        PROVE  /\ a < Q[i].row /\ ~Q[i].final /\ Q[i].row <= cur
               /\ GoodRow(Q[i])
    BY <1>2, <1>4, <1>5
  <2>2. ASSUME NEW j \in 1 .. n
        PROVE  /\ a < Q[m + j].row /\ ~Q[m + j].final /\ Q[m + j].row <= cur
               /\ GoodRow(Q[m + j])
    BY <1>2, <1>6
  <2>3. TAKE i \in DOMAIN Q
  <2>4. CASE i \in 1 .. m  BY <2>1, <2>4
  <2>5. CASE i - m \in 1 .. n /\ i = m + (i - m)  BY <2>2, <2>5
  <2>. QED  BY <1>2, <1>7, <2>4, <2>5
<1>9. ASSUME NEW i \in DOMAIN Q, i > 1
      PROVE  /\ Q[i].row > Q[i-1].row
             /\ NoCap => Q[i].row = Q[i-1].row + 1
  <2>0. i \in Nat /\ i <= m + n  BY <1>1, <1>2
  <2>1. CASE i \in 1 .. m
    <3>1. i - 1 \in 1 .. m  BY <1>1, <1>9, <2>1
    <3>. QED  BY <1>2, <1>3, <1>9, <2>1, <3>1 DEF RowsOK
  <2>2. CASE i = m + 1
    <3>1. m > 0 /\ i - 1 = m /\ m \in 1 .. m /\ 1 \in 1 .. n
      <4>0. i > 1  BY <1>9
      <4>1. m > 0 /\ i - 1 = m  BY <1>1, <2>2, <4>0
      <4>2. m \in 1 .. m  BY <1>1, <4>1
      <4>3. 1 \in 1 .. n  BY <1>1
      <4>. QED  BY <4>1, <4>2, <4>3
    <3>2. Q[i] = N[1] /\ Q[i-1] = R[m]  BY <1>2, <2>2, <3>1
    <3>3. N[1].row = c + 1  BY <3>1 DEF n
    <3>4. R[m].row <= c /\ R[m].row \in Nat  BY <1>4, <1>5, <3>1
    <3>5. NoCap => R[m].row = c  BY <3>1 DEF RowsOK, m
    <3>. QED  BY <3>2, <3>3, <3>4, <3>5
  <2>3. CASE i - m \in 2 .. n
    <3>. DEFINE j == i - m
    <3>1. /\ j \in 1 .. n /\ j - 1 \in 1 .. n
          /\ i = m + j /\ i - 1 = m + (j - 1)
      <4>1. j \in Int /\ 2 <= j /\ j <= n  BY <1>1, <2>0, <2>3
      <4>2. i = m + j /\ i - 1 = m + (j - 1)  BY <1>1, <2>0
      <4>3. j \in 1 .. n /\ j - 1 \in 1 .. n  BY <1>1, <4>1
      <4>. QED  BY <4>2, <4>3
    <3>. HIDE DEF j
    <3>2. Q[i] = N[j] /\ Q[i-1] = N[j-1]  BY <1>2, <3>1
    <3>3. N[j].row = c + j /\ N[j-1].row = c + (j - 1)  BY <3>1 DEF n
    <3>. QED  BY <1>1, <3>1, <3>2, <3>3
  <2>. QED  BY <1>1, <1>9, <2>0, <2>1, <2>2, <2>3
<1>10. NoCap => Q[Len(Q)].row = cur
  <2>1. n \in 1 .. n /\ Q[m + n] = N[n] /\ N[n].row = c + n
    BY <1>1, <1>2 DEF n
  <2>2. c + n = last  BY DEF n
  <2>. QED  BY <1>2, <2>1, <2>2
<1>. QED  BY <1>8, <1>9, <1>10 DEF RowsOK, Q

\* finalize appends the row after the clock.
LEMMA RowsEnd ==
  ASSUME NEW R \in Seq(RowType), NEW r \in RowType,
         NEW c \in Nat, NEW a \in Nat, a <= c,
         RowsOK(R, c, a, FALSE), r.row = c + 1, r.final = TRUE
  PROVE  RowsOK(R \o <<r>>, c, a, TRUE)
<1>. DEFINE Q == R \o <<r>>
            m == Len(R)
<1>0. <<r>> \in Seq(RowType) /\ Len(<<r>>) = 1 /\ <<r>>[1] = r  OBVIOUS
<1>1. m \in Nat /\ DOMAIN R = 1 .. m  OBVIOUS
<1>2. /\ Len(Q) = m + 1 /\ DOMAIN Q = 1 .. m + 1
      /\ \A i \in 1 .. m : Q[i] = R[i]
      /\ Q[m + 1] = r
  <2>1. /\ Len(Q) = m + Len(<<r>>) /\ DOMAIN Q = 1 .. m + Len(<<r>>)
        /\ \A i \in 1 .. m : Q[i] = R[i]
        /\ \A i \in 1 .. Len(<<r>>) : Q[m + i] = <<r>>[i]
    BY <1>0, RowsConcat
  <2>. QED  BY <1>0, <1>1, <2>1
<1>3. \A i \in 1 .. m : R[i].row \in Nat  BY RowsConcat, RowFields
<1>. HIDE DEF Q, m
<1>4. \A i \in 1 .. m : /\ a < R[i].row /\ ~R[i].final
                        /\ R[i].row <= c /\ GoodRow(R[i])
  BY <1>1 DEF RowsOK
<1>5. GoodRow(r)  BY DEF GoodRow
<1>6. \A i \in DOMAIN Q :
        /\ c \in Nat /\ a < Q[i].row
        /\ Q[i].final => TRUE /\ i = Len(Q)
        /\ ~Q[i].final => Q[i].row <= c
        /\ GoodRow(Q[i])
  <2>1. TAKE i \in DOMAIN Q
  <2>2. CASE i \in 1 .. m  BY <1>2, <1>4, <2>2
  <2>3. CASE i = m + 1  BY <1>2, <1>5, <2>3
  <2>. QED  BY <1>1, <1>2, <2>2, <2>3
<1>7. ASSUME NEW i \in DOMAIN Q, i > 1
      PROVE  /\ Q[i].row > Q[i-1].row
             /\ NoCap => Q[i].row = Q[i-1].row + 1
  <2>1. CASE i \in 1 .. m
    <3>1. i - 1 \in 1 .. m  BY <1>1, <1>7, <2>1
    <3>. QED  BY <1>1, <1>2, <1>7, <2>1, <3>1 DEF RowsOK
  <2>2. CASE i = m + 1
    <3>1. m > 0 /\ i - 1 = m /\ m \in 1 .. m  BY <1>1, <1>7, <2>2
    <3>2. Q[i] = r /\ Q[i-1] = R[m]  BY <1>2, <2>2, <3>1
    <3>3. R[m].row <= c /\ R[m].row \in Nat  BY <1>3, <1>4, <3>1
    <3>4. NoCap => R[m].row = c  BY <3>1 DEF RowsOK, m
    <3>. QED  BY <3>2, <3>3, <3>4
  <2>. QED  BY <1>1, <1>2, <2>1, <2>2
<1>. QED  BY <1>6, <1>7 DEF RowsOK, Q

\* The events of a sequence of rows.
EventsIn(R) == {e \in Events : \E i \in DOMAIN R : e \in R[i].events}

\* Every arrived event (A) is waiting (C), in a row (R) or dropped (D), and in
\* no two places; `un` is Unanchored.
AccountOK(A, C, R, D, un) ==
  /\ un \/ A = C \cup EventsIn(R) \cup (D \cap Events)
  /\ C \cap EventsIn(R) = {}
  /\ D \cap (C \cup EventsIn(R)) = {}
  /\ \A i, j \in DOMAIN R : R[i].events \cap R[j].events # {} => i = j

\* A new event goes to the waiting ones.
LEMMA AccountArrive ==
  ASSUME NEW A, NEW C, NEW R, NEW D, NEW e \in Events,
         AccountOK(A, C, R, D, FALSE),
         e \notin D, e \notin EventsIn(R)
  PROVE  AccountOK(A \cup {e}, C \cup {e}, R, D, FALSE)
BY DEF AccountOK

\* A dropped input.
LEMMA AccountDrop ==
  ASSUME NEW A, NEW C, NEW R, NEW D, NEW un, NEW e \in Inputs,
         AccountOK(A, C, R, D, un),
         e \notin C, e \notin EventsIn(R)
  PROVE  /\ AccountOK(IF e.kind \in EventKinds THEN A \cup {e} ELSE A,
                      C, R, D \cup {e}, un)
<1>1. e \in Events <=> e.kind \in EventKinds  BY DEF Events
<1>2. CASE e \in Events  BY <1>1, <1>2 DEF AccountOK
<1>3. CASE e \notin Events  BY <1>1, <1>3 DEF AccountOK
<1>. QED  BY <1>2, <1>3

\* The events of a concatenation.
LEMMA EventsInConcat ==
  ASSUME NEW R \in Seq(RowType), NEW N \in Seq(RowType)
  PROVE  EventsIn(R \o N) = EventsIn(R) \cup EventsIn(N)
<1>1. /\ DOMAIN (R \o N) = 1 .. Len(R) + Len(N)
      /\ \A i \in 1 .. Len(R) : (R \o N)[i] = R[i]
      /\ \A i \in 1 .. Len(N) : (R \o N)[Len(R) + i] = N[i]
  BY RowsConcat
<1>2. /\ Len(R) \in Nat /\ Len(N) \in Nat
      /\ DOMAIN R = 1 .. Len(R) /\ DOMAIN N = 1 .. Len(N)
  OBVIOUS
<1>3. ASSUME NEW e \in EventsIn(R \o N)
      PROVE  e \in EventsIn(R) \cup EventsIn(N)
  <2>1. PICK i \in 1 .. Len(R) + Len(N) : e \in (R \o N)[i].events
    BY <1>1 DEF EventsIn
  <2>2. e \in Events  BY DEF EventsIn
  <2>3. CASE i \in 1 .. Len(R)
    BY <1>1, <1>2, <2>1, <2>2, <2>3 DEF EventsIn
  <2>4. CASE i \notin 1 .. Len(R)
    <3>1. i - Len(R) \in 1 .. Len(N) /\ i = Len(R) + (i - Len(R))
      BY <1>2, <2>4
    <3>2. e \in N[i - Len(R)].events  BY <1>1, <2>1, <3>1
    <3>. QED  BY <1>2, <2>2, <3>1, <3>2 DEF EventsIn
  <2>. QED  BY <2>3, <2>4
<1>4. ASSUME NEW e \in EventsIn(R) PROVE e \in EventsIn(R \o N)
  <2>1. PICK i \in 1 .. Len(R) : e \in R[i].events  BY <1>2 DEF EventsIn
  <2>2. i \in 1 .. Len(R) + Len(N)  BY <1>2
  <2>. QED  BY <1>1, <2>1, <2>2 DEF EventsIn
<1>5. ASSUME NEW e \in EventsIn(N) PROVE e \in EventsIn(R \o N)
  <2>1. PICK i \in 1 .. Len(N) : e \in N[i].events  BY <1>2 DEF EventsIn
  <2>2. Len(R) + i \in 1 .. Len(R) + Len(N)  BY <1>2
  <2>. QED  BY <1>1, <2>1, <2>2 DEF EventsIn
<1>. QED  BY <1>3, <1>4, <1>5

\* Appending rows that share nothing with the old ones or with each other.
LEMMA DistinctConcat ==
  ASSUME NEW R \in Seq(RowType), NEW N \in Seq(RowType),
         \A i, j \in DOMAIN R : R[i].events \cap R[j].events # {} => i = j,
         \A i, j \in DOMAIN N : N[i].events \cap N[j].events # {} => i = j,
         EventsIn(R) \cap EventsIn(N) = {}
  PROVE  \A i, j \in DOMAIN (R \o N) :
           (R \o N)[i].events \cap (R \o N)[j].events # {} => i = j
<1>. DEFINE Q == R \o N
<1>1. /\ DOMAIN Q = 1 .. Len(R) + Len(N)
      /\ \A i \in 1 .. Len(R) : Q[i] = R[i]
      /\ \A i \in 1 .. Len(N) : Q[Len(R) + i] = N[i]
  BY RowsConcat
<1>2. /\ Len(R) \in Nat /\ Len(N) \in Nat
      /\ DOMAIN R = 1 .. Len(R) /\ DOMAIN N = 1 .. Len(N)
  OBVIOUS
<1>3. /\ \A i \in 1 .. Len(R) : R[i].events \in SUBSET Events
      /\ \A i \in 1 .. Len(N) : N[i].events \in SUBSET Events
  BY RowsConcat, RowFields
<1>. HIDE DEF Q
<1>4. \A i \in DOMAIN Q :
        i \in 1 .. Len(R) \/ (i - Len(R) \in 1 .. Len(N) /\ i = Len(R) + (i - Len(R)))
  BY <1>1, <1>2
<1>5. ASSUME NEW i \in 1 .. Len(R), NEW j \in 1 .. Len(N)
      PROVE  R[i].events \cap N[j].events = {}
  <2>1. R[i].events \subseteq EventsIn(R)  BY <1>2, <1>3 DEF EventsIn
  <2>2. N[j].events \subseteq EventsIn(N)  BY <1>2, <1>3 DEF EventsIn
  <2>. QED  BY <2>1, <2>2
<1>6. ASSUME NEW i \in DOMAIN Q, NEW j \in DOMAIN Q,
             Q[i].events \cap Q[j].events # {}
      PROVE  i = j
  <2>. DEFINE k == i - Len(R)
              l == j - Len(R)
  <2>1. CASE i \in 1 .. Len(R) /\ j \in 1 .. Len(R)
    BY <1>1, <1>2, <1>6, <2>1
  <2>2. CASE i \in 1 .. Len(R) /\ l \in 1 .. Len(N) /\ j = Len(R) + l
    BY <1>1, <1>5, <1>6, <2>2
  <2>3. CASE k \in 1 .. Len(N) /\ i = Len(R) + k /\ j \in 1 .. Len(R)
    BY <1>1, <1>5, <1>6, <2>3
  <2>4. CASE /\ k \in 1 .. Len(N) /\ i = Len(R) + k
             /\ l \in 1 .. Len(N) /\ j = Len(R) + l
    <3>1. Q[i] = N[k] /\ Q[j] = N[l]  BY <1>1, <2>4
    <3>2. k = l  BY <1>2, <1>6, <2>4, <3>1
    <3>. QED  BY <2>4, <3>2
  <2>. QED  BY <1>4, <2>1, <2>2, <2>3, <2>4
<1>. QED  BY <1>6 DEF Q

\* A crossing keeps the account.
LEMMA AccountCross ==
  ASSUME NEW A, NEW evs \in SUBSET Events, NEW D,
         NEW R \in Seq(RowType), NEW N \in Seq(RowType),
         NEW c \in Nat, NEW last \in Nat, c < last,
         Len(N) = last - c,
         \A i \in 1 .. Len(N) : N[i].events = Members(evs, c, c + i),
         AccountOK(A, evs, R, D, FALSE)
  PROVE  AccountOK(A, Kept(evs, c, last), R \o N, D \cup Late(evs, c), FALSE)
<1>. DEFINE K == Kept(evs, c, last)
            L == Late(evs, c)
            E == EventsIn(N)
<1>1. K \subseteq evs /\ L \subseteq evs  BY DEF Kept, Late
<1>2. DOMAIN N = 1 .. last - c  OBVIOUS
<1>3. E \subseteq evs  BY <1>2 DEF EventsIn, Members
<1>4. ASSUME NEW e \in evs
      PROVE  /\ e \in L \/ e \in K \/ e \in E
             /\ ~(e \in L /\ e \in K)
             /\ ~(e \in E /\ e \in L) /\ ~(e \in E /\ e \in K)
  <2>1. /\ \/ e \in L \/ e \in K
           \/ \E i \in 1 .. last - c : e \in Members(evs, c, c + i)
        /\ ~(e \in L /\ e \in K)
        /\ \A i \in 1 .. last - c : e \in Members(evs, c, c + i) =>
             e \notin L /\ e \notin K
    BY CrossingPartition
  <2>2. e \in E <=> \E i \in 1 .. last - c : e \in Members(evs, c, c + i)
    BY <1>2 DEF EventsIn
  <2>. QED  BY <2>1, <2>2
<1>5. \A i, j \in DOMAIN N : N[i].events \cap N[j].events # {} => i = j
  <2>1. TAKE i, j \in DOMAIN N
  <2>2. HAVE N[i].events \cap N[j].events # {}
  <2>3. PICK e : e \in N[i].events /\ e \in N[j].events  BY <2>2
  <2>4. HomeRow(e, c) = c + i /\ HomeRow(e, c) = c + j
    BY <1>2, <2>3 DEF Members
  <2>5. i \in Int /\ j \in Int  BY <1>2
  <2>. QED  BY <2>4, <2>5
<1>6. EventsIn(R \o N) = EventsIn(R) \cup E  BY EventsInConcat
<1>. HIDE DEF K, L, E
<1>7. /\ A = evs \cup EventsIn(R) \cup (D \cap Events)
      /\ evs \cap EventsIn(R) = {}
      /\ D \cap (evs \cup EventsIn(R)) = {}
      /\ \A i, j \in DOMAIN R : R[i].events \cap R[j].events # {} => i = j
  BY DEF AccountOK
<1>8. EventsIn(R) \cap E = {}  BY <1>3, <1>7
<1>9. \A i, j \in DOMAIN (R \o N) :
        (R \o N)[i].events \cap (R \o N)[j].events # {} => i = j
  BY <1>5, <1>7, <1>8, DistinctConcat DEF E
<1>10. evs = K \cup L \cup E  BY <1>1, <1>3, <1>4
<1>11. A = K \cup (EventsIn(R) \cup E) \cup ((D \cup L) \cap Events)
  BY <1>1, <1>7, <1>10
<1>12. K \cap (EventsIn(R) \cup E) = {}  BY <1>1, <1>4, <1>7
<1>13. (D \cup L) \cap (K \cup (EventsIn(R) \cup E)) = {}
  BY <1>1, <1>3, <1>4, <1>7
<1>. QED  BY <1>6, <1>9, <1>11, <1>12, <1>13 DEF AccountOK, K, L

\* The last row takes what waits.
LEMMA AccountEnd ==
  ASSUME NEW A, NEW C \in SUBSET Events, NEW D,
         NEW R \in Seq(RowType), NEW r \in RowType, r.events = C,
         AccountOK(A, C, R, D, FALSE)
  PROVE  AccountOK(A, {}, R \o <<r>>, D, FALSE)
<1>1. <<r>> \in Seq(RowType) /\ DOMAIN <<r>> = {1} /\ <<r>>[1] = r  OBVIOUS
<1>2. EventsIn(<<r>>) = C  BY <1>1 DEF EventsIn
<1>3. EventsIn(R \o <<r>>) = EventsIn(R) \cup C
  BY <1>1, <1>2, EventsInConcat
<1>4. /\ A = C \cup EventsIn(R) \cup (D \cap Events)
      /\ C \cap EventsIn(R) = {}
      /\ D \cap (C \cup EventsIn(R)) = {}
      /\ \A i, j \in DOMAIN R : R[i].events \cap R[j].events # {} => i = j
  BY DEF AccountOK
<1>5. \A i, j \in DOMAIN <<r>> :
        <<r>>[i].events \cap <<r>>[j].events # {} => i = j
  BY <1>1
<1>6. EventsIn(R) \cap EventsIn(<<r>>) = {}  BY <1>2, <1>4
<1>7. \A i, j \in DOMAIN (R \o <<r>>) :
        (R \o <<r>>)[i].events \cap (R \o <<r>>)[j].events # {} => i = j
  BY <1>1, <1>4, <1>5, <1>6, DistinctConcat
<1>. QED  BY <1>3, <1>4, <1>7 DEF AccountOK

\* An event may be dropped: it was late when it came, or it is backlog from
\* before the anchor a.
Excused(e, a) ==
  \/ RowOf(e) <= a
  \/ e.reached # None /\ e.reached >= RowOf(e) * Period + Delay

\* No event that came in time is dropped or about to be.
LateOK(D, C, c, a) ==
  NoCap =>
    /\ \A e \in D : ~e.closed =>
         c \in Nat /\ ~IsSettlement(e) /\ Excused(e, a)
    /\ \A e \in C : c = None \/ IsSettlement(e) \/ RowOf(e) > c \/ Excused(e, a)

\* A crossing drops only what was excused, and keeps what is ahead.
LEMMA LateCross ==
  ASSUME NEW D, NEW evs \in SUBSET Events, NEW c \in Nat, NEW cur \in Nat,
         NEW a, NEW last \in Nat, c < last, last <= cur, NoCap => last = cur,
         LateOK(D, evs, c, a)
  PROVE  LateOK(D \cup Late(evs, c), Kept(evs, c, last), cur, a)
<1>. SUFFICES ASSUME NoCap
              PROVE  LateOK(D \cup Late(evs, c), Kept(evs, c, last), cur, a)
  BY DEF LateOK
<1>0. c # None  BY SyncAssumption
<1>1. ASSUME NEW e \in Late(evs, c) PROVE ~IsSettlement(e) /\ Excused(e, a)
  <2>1. e \in evs /\ e \in Events /\ HomeRow(e, c) <= c  BY DEF Late
  <2>2. /\ HomeRow(e, c) \in Nat /\ RowOf(e) \in Nat
        /\ ~IsSettlement(e) => HomeRow(e, c) = RowOf(e)
        /\ IsSettlement(e) => HomeRow(e, c) > c
    BY <2>1, HomeRowFacts
  <2>3. ~IsSettlement(e)  BY <2>1, <2>2
  <2>4. ~(RowOf(e) > c)  BY <2>1, <2>2, <2>3
  <2>. QED  BY <1>0, <2>1, <2>3, <2>4 DEF LateOK
<1>2. ASSUME NEW e \in Kept(evs, c, last)
      PROVE  IsSettlement(e) \/ RowOf(e) > cur
  <2>1. e \in Events /\ HomeRow(e, c) > cur  BY DEF Kept
  <2>. QED  BY <2>1, HomeRowFacts
<1>. QED  BY <1>1, <1>2 DEF LateOK

-----------------------------------------------------------------------------
\* The state

\* The delayed clock is monotone.
LEMMA RipeMonotone ==
  ASSUME NEW s \in Nat, NEW t \in Nat, s <= t
  PROVE  Ripe(s) <= Ripe(t)
<1>. DEFINE p == Ripe(s)
<1>1. p \in Nat /\ Ripe(t) \in Nat  BY RipeAtLeast
<1>. HIDE DEF p
<1>2. CASE p = 0  BY <1>1, <1>2 DEF p
<1>3. CASE p > 0
  <2>1. p * Period + Delay \in Nat  BY <1>1, SyncAssumption
  <2>2. Ripe(s) >= p <=> s >= p * Period + Delay  BY <1>1, <1>3, RipeAtLeast
  <2>3. Ripe(s) >= p  BY <1>1 DEF p
  <2>4. t >= p * Period + Delay  BY <2>1, <2>2, <2>3
  <2>5. Ripe(t) >= p  BY <1>1, <1>3, <2>4, RipeAtLeast
  <2>. QED  BY <1>1, <2>5 DEF p
<1>. QED  BY <1>1, <1>2, <1>3

Types ==
  /\ clock_mode \in ClockModes /\ finalized \in BOOLEAN
  /\ current \in SUBSET Events /\ arrived \in SUBSET Events
  /\ dropped \in SUBSET Inputs
  /\ buffer \in Seq(RowType) /\ delivered \in Seq(RowType)
  /\ IsBooks(books) /\ IsBooks(seen)
  /\ total_captured \in Nat /\ late_events_dropped \in Nat /\ calls \in Nat

\* The clock is what the highest driving timestamp makes it.
ClockOK(c, a, t) ==
  \/ c = None /\ a = None /\ t = None
  \/ c \in Nat /\ a \in Nat /\ a <= c /\ t \in Stamps /\ c = Ripe(t)

\* Numbers of inputs are not reused.
IdsOK(C, R, D, n) == \A e \in C \cup D \cup EventsIn(R) : e.id <= n

CountOK(C, R, D, late, total) ==
  /\ IsFiniteSet(C) /\ IsFiniteSet(D)
  /\ late = Cardinality(D) /\ total = Len(R)

Inv ==
  /\ Types
  /\ ClockOK(clock, anchor, reached)
  /\ RowsOK(Rows, clock, anchor, finalized)
  /\ AccountOK(arrived, current, Rows, dropped, Unanchored)
  /\ IdsOK(current, Rows, dropped, calls)
  /\ CountOK(current, Rows, dropped, late_events_dropped, total_captured)
  /\ LateOK(dropped, current, clock, anchor)

\* The rest of the invariant after a clock-driving call, with A arrived.
Driven(A, n) ==
  /\ current' \in SUBSET Events /\ dropped' \in SUBSET Inputs
  /\ buffer' \in Seq(RowType)
  /\ total_captured' \in Nat /\ late_events_dropped' \in Nat
  /\ ClockOK(clock', anchor', reached') /\ clock' # None
  /\ RowsOK(Rows', clock', anchor', FALSE)
  /\ AccountOK(A, current', Rows', dropped', FALSE)
  /\ IdsOK(current', Rows', dropped', n)
  /\ CountOK(current', Rows', dropped', late_events_dropped', total_captured')
  /\ LateOK(dropped', current', clock', anchor')

\* What is known before a clock-driving call, with the events `evs` waiting.
Driving(A, evs, n) ==
  /\ Types /\ ~finalized
  /\ ClockOK(clock, anchor, reached)
  /\ RowsOK(Rows, clock, anchor, FALSE)
  /\ evs \in SUBSET Events
  /\ AccountOK(A, evs, Rows, dropped, FALSE)
  /\ n \in Nat /\ IdsOK(evs, Rows, dropped, n)
  /\ CountOK(evs, Rows, dropped, late_events_dropped, total_captured)
  /\ LateOK(dropped, evs, clock, anchor)

\* A call that drives the clock over no boundary.
LEMMA DriveIdle ==
  ASSUME NEW A, NEW evs, NEW n, Driving(A, evs, n),
         NEW ts \in Stamps, NEW bks,
         clock = None \/ Ripe(ts) <= clock,
         Drive(advance_grid(ts, evs), ts, bks), delivered' = delivered
  PROVE  Driven(A, n)
<1>1. ts \in Nat /\ Ripe(ts) \in Nat  BY SyncAssumption, RipeAtLeast
<1>2. advance_grid(ts, evs) =
        [clock |-> IF clock = None THEN Ripe(ts) ELSE clock, current |-> evs,
         books |-> books, rows |-> <<>>, late |-> {}]
  BY DEF advance_grid
<1>3. /\ clock' = IF clock = None THEN Ripe(ts) ELSE clock
      /\ current' = evs
      /\ buffer' = buffer \o <<>>
      /\ total_captured' = total_captured + Len(<<>>)
      /\ late_events_dropped' = late_events_dropped + Cardinality({})
      /\ dropped' = dropped \cup {}
      /\ anchor' = IF clock = None
                   THEN (IF clock = None THEN Ripe(ts) ELSE clock) ELSE anchor
      /\ reached' = Reach(ts)
  BY <1>2 DEF Drive
<1>4. Types /\ evs \in SUBSET Events  BY DEF Driving
<1>5. buffer' = buffer
  <2>1. buffer \in Seq(RowType)  BY <1>4 DEF Types
  <2>. QED  BY <1>3, <2>1
<1>6. Rows' = Rows  BY <1>5 DEF Rows
<1>7. dropped' = dropped  BY <1>3
<1>8. total_captured' = total_captured  BY <1>3, <1>4 DEF Types
<1>9. late_events_dropped' = late_events_dropped
  BY <1>3, <1>4, FS_EmptySet DEF Types
<1>10. /\ AccountOK(A, current', Rows', dropped', FALSE)
       /\ IdsOK(current', Rows', dropped', n)
       /\ CountOK(current', Rows', dropped', late_events_dropped',
                  total_captured')
  BY <1>3, <1>6, <1>7, <1>8, <1>9, Zenon DEF Driving
<1>11. /\ current' \in SUBSET Events /\ dropped' \in SUBSET Inputs
       /\ buffer' \in Seq(RowType)
       /\ total_captured' \in Nat /\ late_events_dropped' \in Nat
  BY <1>3, <1>4, <1>5, <1>7, <1>8, <1>9 DEF Types
<1>12. CASE clock = None
  <2>1. clock' = Ripe(ts) /\ anchor' = Ripe(ts)  BY <1>3, <1>12
  <2>2. reached' = ts
    <3>1. reached = None  BY <1>12, SyncAssumption DEF Driving, ClockOK
    <3>. QED  BY <1>3, <3>1 DEF Reach
  <2>3. ClockOK(clock', anchor', reached') /\ clock' # None
    BY <1>1, <2>1, <2>2, SyncAssumption DEF ClockOK
  <2>4. RowsOK(Rows, clock, anchor, FALSE)  BY DEF Driving
  <2>5. DOMAIN Rows = {}  BY <1>12, <2>4, SyncAssumption DEF RowsOK
  <2>6. Rows \in Seq(RowType)  BY <1>4, RowsConcat DEF Types, Rows
  <2>7. Len(Rows) = 0  BY <2>5, <2>6
  <2>8. RowsOK(Rows, clock', anchor', FALSE)  BY <2>5, <2>7 DEF RowsOK
  <2>9. LateOK(dropped, evs, None, anchor)  BY <1>12 DEF Driving
  <2>10. LateOK(dropped', current', clock', anchor')
    <3>1. \A e \in evs : RowOf(e) > Ripe(ts) \/ RowOf(e) <= Ripe(ts)
      BY <1>1, <1>4, HomeRowFacts
    <3>2. NoCap => \A e \in dropped : e.closed
      BY <2>9, SyncAssumption DEF LateOK
    <3>. QED  BY <1>3, <1>7, <2>1, <3>1, <3>2 DEF LateOK, Excused
  <2>. QED  BY <1>6, <1>10, <1>11, <2>3, <2>8, <2>10, Zenon DEF Driven
<1>13. CASE clock # None /\ Ripe(ts) <= clock
  <2>1. clock' = clock /\ anchor' = anchor  BY <1>3, <1>13
  <2>2. /\ clock \in Nat /\ anchor \in Nat /\ anchor <= clock
        /\ reached \in Stamps /\ clock = Ripe(reached)
    BY <1>13 DEF Driving, ClockOK
  <2>3. reached \in Nat  BY <2>2, SyncAssumption
  <2>4. reached' \in Stamps /\ clock = Ripe(reached')
    <3>1. CASE ts > reached
      <4>1. reached' = ts  BY <1>3, <3>1 DEF Reach
      <4>2. Ripe(reached) <= Ripe(ts)  BY <1>1, <2>3, <3>1, RipeMonotone
      <4>3. clock = Ripe(ts)  BY <1>1, <1>13, <2>2, <4>2
      <4>. QED  BY <4>1, <4>3
    <3>2. CASE ~(ts > reached)
      <4>1. reached' = reached
        <5>1. reached # None  BY <2>3, SyncAssumption
        <5>. QED  BY <1>3, <3>2, <5>1 DEF Reach
      <4>. QED  BY <2>2, <4>1
    <3>. QED  BY <3>1, <3>2
  <2>5. ClockOK(clock', anchor', reached') /\ clock' # None
    BY <1>13, <2>1, <2>2, <2>4 DEF ClockOK
  <2>6. RowsOK(Rows', clock', anchor', FALSE)
    BY <1>6, <2>1, Zenon DEF Driving
  <2>7. LateOK(dropped', current', clock', anchor')
    BY <1>3, <1>7, <2>1, Zenon DEF Driving
  <2>. QED  BY <1>10, <1>11, <2>5, <2>6, <2>7, Zenon DEF Driven
<1>. QED  BY <1>12, <1>13

\* A call that drives the clock over a boundary.
LEMMA DriveCross ==
  ASSUME NEW A, NEW evs, NEW n, Driving(A, evs, n),
         NEW ts \in Stamps, NEW bks,
         clock # None, ~(Ripe(ts) <= clock),
         Drive(advance_grid(ts, evs), ts, bks), delivered' = delivered
  PROVE  Driven(A, n)
<1>. DEFINE cur  == Ripe(ts)
            last == LastEmitted(clock, cur)
            N    == EmittedRows(clock, last, evs, books)
            K    == Kept(evs, clock, last)
            L    == Late(evs, clock)
<1>1. ts \in Nat /\ cur \in Nat  BY SyncAssumption, RipeAtLeast
<1>2. Types /\ evs \in SUBSET Events /\ n \in Nat  BY DEF Driving
<1>3. /\ clock \in Nat /\ anchor \in Nat /\ anchor <= clock
      /\ reached \in Stamps /\ clock = Ripe(reached)
  BY DEF Driving, ClockOK
<1>4. clock < cur  BY <1>1, <1>3
<1>5. /\ last \in Nat /\ clock < last /\ last <= cur
      /\ cur <= MaxGapFill => last = cur
  BY <1>1, <1>3, <1>4, FillRange
<1>6. NoCap => last = cur
  <2>1. cur <= Grid(ts)  BY <1>1, RipeAtLeast
  <2>2. Grid(ts) \in Nat /\ MaxGapFill \in Nat
    BY <1>1, GridBound, SyncAssumption
  <2>3. NoCap => Grid(ts) <= MaxGapFill  BY DEF NoCap, Grid
  <2>. QED  BY <1>1, <1>5, <2>1, <2>2, <2>3
<1>7. advance_grid(ts, evs) =
        [clock |-> cur, current |-> K, books |-> prune_books(books, last),
         rows |-> N, late |-> L]
  BY DEF advance_grid
<1>8. /\ clock' = cur /\ current' = K
      /\ buffer' = buffer \o N
      /\ total_captured' = total_captured + Len(N)
      /\ late_events_dropped' = late_events_dropped + Cardinality(L)
      /\ dropped' = dropped \cup L
      /\ anchor' = anchor
      /\ reached' = Reach(ts)
  BY <1>7 DEF Drive
<1>9. IsBooks(books)  BY <1>2 DEF Types
<1>. HIDE DEF cur, last, N, K, L
<1>10. /\ N \in Seq(RowType)
       /\ Len(N) = last - clock
       /\ \A i \in 1 .. Len(N) :
            /\ N[i].row = clock + i /\ ~N[i].final
            /\ N[i].events = Members(evs, clock, clock + i)
            /\ GoodRow(N[i])
  <2>1. N = EmittedRows(clock, last, evs, books)  BY Zenon DEF N
  <2>2. /\ clock \in Nat /\ last \in Nat /\ clock < last
        /\ evs \in SUBSET Events /\ IsBooks(books)
    BY <1>2, <1>3, <1>5, <1>9
  <2>. QED  BY <2>1, <2>2, EmittedRowsFacts, SMT
<1>11. /\ buffer \in Seq(RowType) /\ delivered \in Seq(RowType)
  BY <1>2 DEF Types
<1>12. Rows \in Seq(RowType) /\ buffer' \in Seq(RowType)
  BY <1>8, <1>10, <1>11, RowsConcat DEF Rows
<1>13. Rows' = Rows \o N
  <2>1. Rows' = delivered \o (buffer \o N)  BY <1>8 DEF Rows
  <2>2. delivered \o (buffer \o N) = (delivered \o buffer) \o N
    BY <1>10, <1>11, ConcatAssociates
  <2>. QED  BY <2>1, <2>2 DEF Rows
<1>14. RowsOK(Rows', clock', anchor', FALSE)
  <2>1. RowsOK(Rows, clock, anchor, FALSE)  BY DEF Driving
  <2>2. RowsOK(Rows \o N, cur, anchor, FALSE)
    BY <1>1, <1>3, <1>5, <1>6, <1>10, <1>12, <2>1, RowsCross
  <2>. QED  BY <1>8, <1>13, <2>2
<1>15. AccountOK(A, current', Rows', dropped', FALSE)
  <2>1. AccountOK(A, evs, Rows, dropped, FALSE)  BY DEF Driving
  <2>2. AccountOK(A, K, Rows \o N, dropped \cup L, FALSE)
    BY <1>2, <1>3, <1>5, <1>10, <1>12, <2>1, AccountCross DEF K, L
  <2>. QED  BY <1>8, <1>13, <2>2
<1>16. LateOK(dropped', current', clock', anchor')
  <2>1. LateOK(dropped, evs, clock, anchor)  BY DEF Driving
  <2>2. LateOK(dropped \cup L, K, cur, anchor)
    BY <1>1, <1>2, <1>3, <1>5, <1>6, <2>1, LateCross DEF K, L
  <2>. QED  BY <1>8, <2>2
<1>17. ClockOK(clock', anchor', reached') /\ clock' # None
  <2>1. reached \in Nat  BY <1>3, SyncAssumption
  <2>2. ~(ts <= reached)
    <3>1. ASSUME ts <= reached PROVE FALSE
      <4>1. Ripe(ts) <= Ripe(reached)  BY <1>1, <2>1, <3>1, RipeMonotone
      <4>. QED  BY <1>1, <1>3, <1>4, <4>1 DEF cur
    <3>. QED  BY <3>1
  <2>3. reached' = ts  BY <1>1, <1>8, <2>1, <2>2 DEF Reach
  <2>4. anchor <= cur  BY <1>1, <1>3, <1>4
  <2>5. cur # None  BY <1>1, SyncAssumption
  <2>. QED  BY <1>1, <1>3, <1>8, <2>3, <2>4, <2>5 DEF ClockOK, cur
<1>18. K \subseteq evs /\ L \subseteq evs /\ evs \subseteq Events
  BY <1>2 DEF K, L, Kept, Late
<1>19. EventsIn(Rows') \subseteq EventsIn(Rows) \cup evs
  <2>1. EventsIn(Rows') = EventsIn(Rows) \cup EventsIn(N)
    BY <1>10, <1>12, <1>13, EventsInConcat
  <2>2. DOMAIN N = 1 .. Len(N)  BY <1>10
  <2>3. EventsIn(N) \subseteq evs  BY <1>10, <2>2 DEF EventsIn, Members
  <2>. QED  BY <2>1, <2>3
<1>20. IdsOK(current', Rows', dropped', n)
  <2>1. IdsOK(evs, Rows, dropped, n)  BY DEF Driving
  <2>. QED  BY <1>8, <1>18, <1>19, <2>1 DEF IdsOK
<1>21. CountOK(current', Rows', dropped', late_events_dropped',
               total_captured')
  <2>1. /\ IsFiniteSet(evs) /\ IsFiniteSet(dropped)
        /\ late_events_dropped = Cardinality(dropped)
        /\ total_captured = Len(Rows)
    BY DEF Driving, CountOK
  <2>2. IsFiniteSet(K) /\ IsFiniteSet(L)  BY <1>18, <2>1, FS_Subset
  <2>3. dropped \cap L = {}
    <3>1. AccountOK(A, evs, Rows, dropped, FALSE)  BY DEF Driving
    <3>. QED  BY <1>18, <3>1 DEF AccountOK
  <2>4. /\ IsFiniteSet(dropped \cup L)
        /\ Cardinality(dropped \cup L) =
             Cardinality(dropped) + Cardinality(L) - Cardinality(dropped \cap L)
    BY <2>1, <2>2, FS_Union
  <2>5. /\ Cardinality(dropped) \in Nat /\ Cardinality(L) \in Nat
        /\ Cardinality(dropped \cap L) = 0
    BY <2>1, <2>2, <2>3, FS_CardinalityType, FS_EmptySet
  <2>6. Len(Rows') = Len(Rows) + Len(N)  BY <1>10, <1>12, <1>13, RowsConcat
  <2>7. late_events_dropped' = Cardinality(dropped \cup L)
    BY <1>8, <2>1, <2>4, <2>5
  <2>. QED  BY <1>8, <2>1, <2>2, <2>4, <2>6, <2>7 DEF CountOK
<1>22. late_events_dropped' \in Nat /\ total_captured' \in Nat
  <2>1. late_events_dropped \in Nat /\ total_captured \in Nat
    BY <1>2 DEF Types
  <2>2. IsFiniteSet(L)  BY <1>18, FS_Subset DEF Driving, CountOK
  <2>3. Cardinality(L) \in Nat  BY <2>2, FS_CardinalityType
  <2>4. Len(N) \in Nat  BY <1>10
  <2>. QED  BY <1>8, <2>1, <2>3, <2>4
<1>23. current' \in SUBSET Events /\ dropped' \in SUBSET Inputs
  <2>1. dropped \in SUBSET Inputs  BY <1>2 DEF Types
  <2>. QED  BY <1>8, <1>18, <2>1 DEF Events
<1>. QED
  BY <1>12, <1>14, <1>15, <1>16, <1>17, <1>20, <1>21, <1>22, <1>23, Zenon
  DEF Driven

\* A call that drives the clock.
LEMMA DriveStep ==
  ASSUME NEW A, NEW evs, NEW n, Driving(A, evs, n),
         NEW ts \in Stamps, NEW bks,
         Drive(advance_grid(ts, evs), ts, bks), delivered' = delivered
  PROVE  Driven(A, n)
<1>1. CASE clock = None \/ Ripe(ts) <= clock  BY <1>1, DriveIdle
<1>2. CASE ~(clock = None \/ Ripe(ts) <= clock)  BY <1>2, DriveCross
<1>. QED  BY <1>1, <1>2

-----------------------------------------------------------------------------
\* One step

\* Before a call on an open stream, the invariant is what driving needs.
LEMMA OpenDriving ==
  ASSUME Inv, ~finalized
  PROVE  Driving(arrived, current, calls + 1)
<1>1. Types /\ calls \in Nat  BY DEF Inv, Types
<1>2. AccountOK(arrived, current, Rows, dropped, FALSE)
  BY DEF Inv, AccountOK, Unanchored
<1>3. RowsOK(Rows, clock, anchor, FALSE)
  <2>1. finalized = FALSE  BY <1>1 DEF Types
  <2>. QED  BY <2>1 DEF Inv
<1>4. IdsOK(current, Rows, dropped, calls + 1)
  <2>1. \A e \in current \cup dropped \cup EventsIn(Rows) :
          e.id \in Nat /\ e.id <= calls
    <3>1. current \cup dropped \cup EventsIn(Rows) \subseteq Inputs
      BY <1>1 DEF Types, Events, EventsIn
    <3>. QED  BY <3>1 DEF Inv, IdsOK, Inputs
  <2>. QED  BY <1>1, <2>1 DEF IdsOK
<1>5. current \in SUBSET Events  BY <1>1 DEF Types
<1>6. calls + 1 \in Nat  BY <1>1
<1>. QED
  BY <1>1, <1>2, <1>3, <1>4, <1>5, <1>6, Zenon DEF Driving, Inv

\* An event that just came is waiting, and not yet late unless excused.
LEMMA ArriveDriving ==
  ASSUME Inv, ~finalized, NEW e \in Events,
         e.id = calls + 1, e.reached = reached
  PROVE  Driving(arrived \cup {e}, current \cup {e}, calls + 1)
<1>1. Driving(arrived, current, calls + 1)  BY OpenDriving
<1>2. Types /\ calls \in Nat /\ current \in SUBSET Events
  BY DEF Inv, Types
<1>3. e \notin current /\ e \notin dropped /\ e \notin EventsIn(Rows)
  <2>1. ~(e.id <= calls)  BY <1>2
  <2>. QED  BY <2>1 DEF Inv, IdsOK
<1>4. AccountOK(arrived \cup {e}, current \cup {e}, Rows, dropped, FALSE)
  BY <1>1, <1>3, AccountArrive DEF Driving
<1>5. IdsOK(current \cup {e}, Rows, dropped, calls + 1)
  BY <1>1, <1>2 DEF Driving, IdsOK
<1>6. CountOK(current \cup {e}, Rows, dropped, late_events_dropped,
              total_captured)
  BY FS_AddElement DEF Inv, CountOK
<1>7. LateOK(dropped, current \cup {e}, clock, anchor)
  <2>1. clock = None \/ RowOf(e) > clock \/ Excused(e, anchor)
    <3>1. ASSUME clock # None, ~(RowOf(e) > clock) PROVE Excused(e, anchor)
      <4>1. /\ clock \in Nat /\ reached \in Stamps /\ clock = Ripe(reached)
        BY <3>1 DEF Inv, ClockOK
      <4>2. reached \in Nat /\ reached # None  BY <4>1, SyncAssumption
      <4>3. RowOf(e) \in Nat \ {0}  BY <4>1, HomeRowFacts
      <4>4. Ripe(reached) >= RowOf(e)  BY <3>1, <4>1, <4>3
      <4>5. reached >= RowOf(e) * Period + Delay
        BY <4>2, <4>3, <4>4, RipeAtLeast
      <4>. QED  BY <4>2, <4>5 DEF Excused
    <3>. QED  BY <3>1
  <2>. QED  BY <2>1 DEF Inv, LateOK
<1>8. current \cup {e} \in SUBSET Events  BY <1>2
<1>. QED  BY <1>1, <1>4, <1>5, <1>6, <1>7, <1>8 DEF Driving

\* After a clock-driving call.
LEMMA DrivenInv ==
  ASSUME Inv, ~finalized, calls' = calls + 1, Driven(arrived', calls + 1),
         finalized' = finalized, clock_mode' = clock_mode,
         delivered' = delivered, arrived' \in SUBSET Events,
         IsBooks(books'), IsBooks(seen')
  PROVE  Inv'
<1>1. Types /\ calls \in Nat  BY DEF Inv, Types
<1>2. finalized' = FALSE  BY <1>1 DEF Types
<1>3. Types'  BY <1>1, <1>2 DEF Types, Driven
<1>4. Unanchored' = FALSE  BY <1>2 DEF Unanchored
<1>5. AccountOK(arrived, current, Rows, dropped, Unanchored)'
  BY <1>4 DEF Driven
<1>6. RowsOK(Rows, clock, anchor, finalized)'  BY <1>2 DEF Driven
<1>. QED  BY <1>3, <1>5, <1>6, Zenon DEF Driven, Inv

\* After a call that leaves the clock alone.
LEMMA WaitingInv ==
  ASSUME Inv, ~finalized, calls' = calls + 1,
         Driving(arrived', current', calls + 1),
         UNCHANGED <<clock_mode, clock, buffer, total_captured,
                     late_events_dropped, dropped, anchor, reached, finalized,
                     delivered>>,
         arrived' \in SUBSET Events, IsBooks(books'), IsBooks(seen')
  PROVE  Inv'
<1>1. Types /\ calls \in Nat  BY DEF Inv, Types
<1>2. finalized' = FALSE  BY <1>1 DEF Types
<1>3. current' \in SUBSET Events  BY DEF Driving
<1>4. Types'  BY <1>1, <1>2, <1>3 DEF Types
<1>5. Unanchored' = FALSE  BY <1>2 DEF Unanchored
<1>6. Rows' = Rows  BY DEF Rows
<1>7. AccountOK(arrived, current, Rows, dropped, Unanchored)'
  BY <1>5, <1>6 DEF Driving
<1>8. RowsOK(Rows, clock, anchor, finalized)'  BY <1>2, <1>6 DEF Driving
<1>9. /\ ClockOK(clock, anchor, reached)'
      /\ IdsOK(current, Rows, dropped, calls)'
      /\ CountOK(current, Rows, dropped, late_events_dropped, total_captured)'
      /\ LateOK(dropped, current, clock, anchor)'
  BY <1>6 DEF Driving
<1>. QED  BY <1>4, <1>7, <1>8, <1>9, Zenon DEF Inv

\* The record of a call.
LEMMA InputFacts ==
  ASSUME Inv, NEW kind \in EventKinds \cup {"Book", "Time"}, NEW ts \in Stamps
  PROVE  /\ Input(kind, ts) \in Inputs
         /\ Input(kind, ts).id = calls + 1
         /\ Input(kind, ts).kind = kind
         /\ Input(kind, ts).reached = reached
         /\ Input(kind, ts).closed = finalized
         /\ kind \in EventKinds => Input(kind, ts) \in Events
<1>1. calls \in Nat /\ finalized \in BOOLEAN /\ ts \in Nat
  BY SyncAssumption DEF Inv, Types
<1>2. reached \in Nat \cup {None}  BY SyncAssumption DEF Inv, ClockOK
<1>. QED  BY <1>1, <1>2 DEF Input, Inputs, Events

\* Driving keeps a book history one.
LEMMA BooksAdvance ==
  ASSUME NEW ts, NEW evs, IsBooks(books)
  PROVE  IsBooks(advance_grid(ts, evs).books)
<1>. DEFINE last == LastEmitted(clock, Ripe(ts))
<1>1. advance_grid(ts, evs).books \in {books, prune_books(books, last)}
  BY DEF advance_grid
<1>2. IsBooks(prune_books(books, last))  BY DEF IsBooks, prune_books
<1>. QED  BY <1>1, <1>2

\* on_trade, on_liquidation, on_funding, on_open_interest and
\* on_funding_settlement.
LEMMA OnEventInv ==
  ASSUME Inv, NEW kind \in EventKinds, NEW ts \in Stamps, OnEvent(kind, ts)
  PROVE  Inv'
<1>. DEFINE e == Input(kind, ts)
            g == advance_grid(ts, current \cup {e})
<1>1. e \in Events /\ e.id = calls + 1 /\ e.reached = reached
  BY InputFacts
<1>2. /\ ~finalized /\ arrived' = arrived \cup {e} /\ calls' = calls + 1
      /\ UNCHANGED <<clock_mode, finalized, delivered, seen>>
      /\ \/ Drive(g, ts, g.books)
         \/ /\ current' = current \cup {e}
            /\ UNCHANGED <<clock, books, buffer, total_captured,
                           late_events_dropped, dropped, anchor, reached>>
  BY DEF OnEvent, Open
<1>. HIDE DEF e
<1>3. Driving(arrived \cup {e}, current \cup {e}, calls + 1)
  BY <1>1, <1>2, ArriveDriving
<1>4. arrived \in SUBSET Events /\ IsBooks(books) /\ IsBooks(seen)
  BY DEF Inv, Types
<1>5. arrived' \in SUBSET Events /\ IsBooks(seen')  BY <1>1, <1>2, <1>4
<1>6. CASE Drive(g, ts, g.books)
  <2>1. Driven(arrived', calls + 1)
    BY <1>2, <1>3, <1>6, DriveStep
  <2>2. IsBooks(books')
    <3>1. books' = g.books  BY <1>6 DEF Drive
    <3>2. IsBooks(g.books)  BY <1>4, BooksAdvance
    <3>. QED  BY <3>1, <3>2
  <2>. QED  BY <1>2, <1>5, <2>1, <2>2, DrivenInv
<1>7. CASE /\ current' = current \cup {e}
           /\ UNCHANGED <<clock, books, buffer, total_captured,
                          late_events_dropped, dropped, anchor, reached>>
  <2>1. Driving(arrived', current', calls + 1)  BY <1>2, <1>3, <1>7
  <2>2. IsBooks(books')  BY <1>4, <1>7
  <2>. QED  BY <1>2, <1>5, <1>7, <2>1, <2>2, WaitingInv
<1>. QED  BY <1>2, <1>6, <1>7

LEMMA OnOrderbookInv ==
  ASSUME Inv, NEW ts \in Stamps, on_orderbook(ts)
  PROVE  Inv'
<1>. DEFINE b == Input("Book", ts)
            g == advance_grid(ts, current)
<1>1. b \in Inputs  BY InputFacts
<1>2. /\ ~finalized /\ calls' = calls + 1
      /\ seen' = record_book(seen, b)
      /\ UNCHANGED <<clock_mode, finalized, arrived, delivered>>
      /\ \/ Drive(g, ts, record_book(g.books, b))
         \/ /\ books' = record_book(books, b)
            /\ UNCHANGED <<clock, current, buffer, total_captured,
                           late_events_dropped, dropped, anchor, reached>>
  BY DEF on_orderbook, Open
<1>. HIDE DEF b
<1>3. Driving(arrived, current, calls + 1)  BY <1>2, OpenDriving
<1>4. arrived \in SUBSET Events /\ IsBooks(books) /\ IsBooks(seen)
  BY DEF Inv, Types
<1>5. arrived' \in SUBSET Events /\ arrived' = arrived  BY <1>2, <1>4
<1>6. IsBooks(seen')  BY <1>1, <1>2, <1>4, BooksKept
<1>7. CASE Drive(g, ts, record_book(g.books, b))
  <2>1. Driven(arrived', calls + 1)  BY <1>2, <1>3, <1>5, <1>7, DriveStep
  <2>2. IsBooks(books')
    <3>1. books' = record_book(g.books, b)  BY <1>7 DEF Drive
    <3>2. IsBooks(g.books)  BY <1>4, BooksAdvance
    <3>. QED  BY <1>1, <3>1, <3>2, BooksKept
  <2>. QED  BY <1>2, <1>5, <1>6, <2>1, <2>2, DrivenInv
<1>8. CASE /\ books' = record_book(books, b)
           /\ UNCHANGED <<clock, current, buffer, total_captured,
                          late_events_dropped, dropped, anchor, reached>>
  <2>1. Driving(arrived', current', calls + 1)  BY <1>3, <1>5, <1>8
  <2>2. IsBooks(books')  BY <1>1, <1>4, <1>8, BooksKept
  <2>. QED  BY <1>2, <1>5, <1>6, <1>8, <2>1, <2>2, WaitingInv
<1>. QED  BY <1>2, <1>7, <1>8

LEMMA OnTimeInv ==
  ASSUME Inv, NEW ts \in Stamps, on_time(ts)
  PROVE  Inv'
<1>. DEFINE g == advance_grid(ts, current)
<1>1. /\ ~finalized /\ calls' = calls + 1
      /\ UNCHANGED <<clock_mode, finalized, arrived, delivered, seen>>
      /\ Drive(g, ts, g.books)
  BY DEF on_time, Open
<1>2. Driving(arrived, current, calls + 1)  BY <1>1, OpenDriving
<1>3. arrived \in SUBSET Events /\ IsBooks(books) /\ IsBooks(seen)
  BY DEF Inv, Types
<1>4. arrived' \in SUBSET Events /\ arrived' = arrived /\ IsBooks(seen')
  BY <1>1, <1>3
<1>5. Driven(arrived', calls + 1)  BY <1>1, <1>2, <1>4, DriveStep
<1>6. IsBooks(books')
  <2>1. books' = g.books  BY <1>1 DEF Drive
  <2>2. IsBooks(g.books)  BY <1>3, BooksAdvance
  <2>. QED  BY <2>1, <2>2
<1>. QED  BY <1>1, <1>4, <1>5, <1>6, DrivenInv

\* A call after finalize adds one to the dropped inputs.
LEMMA DropInv ==
  ASSUME Inv, NEW kind \in EventKinds \cup {"Book", "Time"}, NEW ts \in Stamps,
         drop_post_finalize(kind, ts)
  PROVE  Inv'
<1>. DEFINE x == Input(kind, ts)
<1>1. /\ x \in Inputs /\ x.id = calls + 1 /\ x.kind = kind
      /\ x.closed = finalized /\ (kind \in EventKinds => x \in Events)
  BY InputFacts
<1>2. /\ finalized /\ calls' = calls + 1
      /\ late_events_dropped' = late_events_dropped + 1
      /\ dropped' = dropped \cup {x}
      /\ arrived' = IF kind \in EventKinds THEN arrived \cup {x} ELSE arrived
      /\ UNCHANGED <<clock_mode, clock, books, current, buffer,
                     total_captured, finalized, delivered, seen, anchor,
                     reached>>
  BY DEF drop_post_finalize
<1>. HIDE DEF x
<1>3. Types /\ calls \in Nat /\ late_events_dropped \in Nat
  BY DEF Inv, Types
<1>4. Rows' = Rows /\ Unanchored' = Unanchored  BY <1>2 DEF Rows, Unanchored
<1>5. calls + 1 \in Nat /\ late_events_dropped + 1 \in Nat  BY <1>3
<1>6. Types'
  <2>1. arrived' \in SUBSET Events /\ dropped' \in SUBSET Inputs
    BY <1>1, <1>2, <1>3 DEF Types
  <2>. QED  BY <1>2, <1>3, <1>5, <2>1 DEF Types
<1>7. x \notin current /\ x \notin dropped /\ x \notin EventsIn(Rows)
  <2>1. ~(x.id <= calls)  BY <1>1, <1>3
  <2>. QED  BY <2>1 DEF Inv, IdsOK
<1>8. AccountOK(arrived', current, Rows, dropped \cup {x}, Unanchored)
  <2>1. AccountOK(arrived, current, Rows, dropped, Unanchored)  BY DEF Inv
  <2>. QED  BY <1>1, <1>2, <1>7, <2>1, AccountDrop
<1>9. IdsOK(current, Rows, dropped \cup {x}, calls + 1)
  <2>1. current \cup dropped \cup EventsIn(Rows) \subseteq Inputs
    BY <1>3 DEF Types, Events, EventsIn
  <2>2. \A e \in current \cup dropped \cup EventsIn(Rows) :
          e.id \in Nat /\ e.id <= calls
    BY <2>1 DEF Inv, IdsOK, Inputs
  <2>3. \A e \in current \cup dropped \cup EventsIn(Rows) : e.id <= calls + 1
    BY <1>3, <2>2
  <2>4. x.id <= calls + 1  BY <1>1, <1>5
  <2>. QED  BY <2>3, <2>4 DEF IdsOK
<1>10. CountOK(current, Rows, dropped \cup {x}, late_events_dropped + 1,
               total_captured)
  <2>1. IsFiniteSet(dropped) /\ late_events_dropped = Cardinality(dropped)
    BY DEF Inv, CountOK
  <2>2. /\ IsFiniteSet(dropped \cup {x})
        /\ Cardinality(dropped \cup {x}) = Cardinality(dropped) + 1
    BY <1>7, <2>1, FS_AddElement
  <2>. QED  BY <2>1, <2>2 DEF Inv, CountOK
<1>11. LateOK(dropped \cup {x}, current, clock, anchor)
  BY <1>1, <1>2 DEF Inv, LateOK
<1>12. /\ ClockOK(clock, anchor, reached)'
       /\ RowsOK(Rows, clock, anchor, finalized)'
  BY <1>2, <1>4 DEF Inv
<1>13. /\ AccountOK(arrived, current, Rows, dropped, Unanchored)'
       /\ IdsOK(current, Rows, dropped, calls)'
       /\ CountOK(current, Rows, dropped, late_events_dropped, total_captured)'
       /\ LateOK(dropped, current, clock, anchor)'
  BY <1>2, <1>4, <1>8, <1>9, <1>10, <1>11
<1>. QED  BY <1>6, <1>12, <1>13, Zenon DEF Inv

\* The latest book is a book.
LEMMA LatestBook ==
  ASSUME NEW bks, IsBooks(bks),
         NEW k, k = {j \in DOMAIN bks : \A i \in DOMAIN bks : i <= j}
  PROVE  (IF k = {} THEN None ELSE bks[CHOOSE j \in k : TRUE])
           \in Inputs \cup {None}
<1>1. CASE k = {}  BY <1>1
<1>2. CASE k # {}
  <2>. DEFINE j == CHOOSE j \in k : TRUE
  <2>1. j \in k  BY <1>2
  <2>2. j \in DOMAIN bks  BY <2>1
  <2>3. bks[j] \in Inputs  BY <2>2 DEF IsBooks
  <2>. QED  BY <1>2, <2>3
<1>. QED  BY <1>1, <1>2

\* finalize of a stream with a clock.
LEMMA FinalizeClocked ==
  ASSUME Inv, finalize, clock # None
  PROVE  Inv'
<1>. DEFINE k == {j \in DOMAIN books : \A i \in DOMAIN books : i <= j}
            latest == IF k = {} THEN None ELSE books[CHOOSE j \in k : TRUE]
            r == Row(clock + 1, latest, current, TRUE)
<1>1. /\ ~finalized /\ finalized' = TRUE
      /\ buffer' = Append(buffer, r)
      /\ total_captured' = total_captured + 1 /\ current' = {}
      /\ UNCHANGED <<clock_mode, clock, books, late_events_dropped, calls,
                     arrived, dropped, delivered, seen, anchor, reached>>
  BY DEF finalize
<1>2. Driving(arrived, current, calls + 1)  BY <1>1, OpenDriving
<1>3. Types /\ IsBooks(books) /\ current \in SUBSET Events
  BY DEF Inv, Types
<1>4. latest \in Inputs \cup {None}  BY <1>3, LatestBook
<1>. HIDE DEF k, latest
<1>5. clock \in Nat /\ anchor \in Nat /\ anchor <= clock
  BY DEF Inv, ClockOK
<1>6. /\ r \in RowType /\ r.row = clock + 1 /\ r.final = TRUE
      /\ r.events = current
  BY <1>3, <1>4, <1>5 DEF Row, RowType
<1>. HIDE DEF r
<1>7. /\ buffer \in Seq(RowType) /\ delivered \in Seq(RowType)
      /\ total_captured \in Nat
  BY <1>3 DEF Types
<1>8. <<r>> \in Seq(RowType) /\ Len(<<r>>) = 1  BY <1>6
<1>9. buffer' = buffer \o <<r>>
  <2>. DEFINE X == RowType
  <2>. HIDE DEF X
  <2>1. buffer \in Seq(X) /\ r \in X  BY <1>6, <1>7 DEF X
  <2>2. Append(buffer, r) = buffer \o <<r>>  BY <2>1
  <2>. QED  BY <1>1, <2>2
<1>10. Rows \in Seq(RowType) /\ buffer' \in Seq(RowType)
  BY <1>7, <1>8, <1>9, RowsConcat DEF Rows
<1>11. Rows' = Rows \o <<r>>
  <2>1. Rows' = delivered \o (buffer \o <<r>>)  BY <1>1, <1>9 DEF Rows
  <2>2. delivered \o (buffer \o <<r>>) = (delivered \o buffer) \o <<r>>
    BY <1>7, <1>8, ConcatAssociates
  <2>. QED  BY <2>1, <2>2 DEF Rows
<1>12. Unanchored' = FALSE  BY <1>1 DEF Unanchored
<1>13. total_captured + 1 \in Nat  BY <1>7
<1>14. Types'
  BY <1>1, <1>3, <1>10, <1>13 DEF Types
<1>15. RowsOK(Rows, clock, anchor, finalized)'
  <2>1. RowsOK(Rows, clock, anchor, FALSE)  BY <1>2 DEF Driving
  <2>2. RowsOK(Rows \o <<r>>, clock, anchor, TRUE)
    BY <1>5, <1>6, <1>10, <2>1, RowsEnd
  <2>. QED  BY <1>1, <1>11, <2>2
<1>16. AccountOK(arrived, current, Rows, dropped, Unanchored)'
  <2>1. AccountOK(arrived, current, Rows, dropped, FALSE)
    BY <1>2 DEF Driving
  <2>2. AccountOK(arrived, {}, Rows \o <<r>>, dropped, FALSE)
    BY <1>3, <1>6, <1>10, <2>1, AccountEnd
  <2>. QED  BY <1>1, <1>11, <1>12, <2>2
<1>17. EventsIn(Rows') \subseteq EventsIn(Rows) \cup current
  <2>1. EventsIn(Rows') = EventsIn(Rows) \cup EventsIn(<<r>>)
    BY <1>8, <1>10, <1>11, EventsInConcat
  <2>2. EventsIn(<<r>>) \subseteq current
    <3>1. DOMAIN <<r>> = {1} /\ <<r>>[1] = r  OBVIOUS
    <3>. QED  BY <1>6, <3>1 DEF EventsIn
  <2>. QED  BY <2>1, <2>2
<1>18. IdsOK(current, Rows, dropped, calls)'
  <2>1. IdsOK(current, Rows, dropped, calls)  BY DEF Inv
  <2>. QED  BY <1>1, <1>17, <2>1 DEF IdsOK
<1>19. CountOK(current, Rows, dropped, late_events_dropped, total_captured)'
  <2>1. Len(Rows') = Len(Rows) + 1
    BY <1>8, <1>10, <1>11, RowsConcat
  <2>2. /\ IsFiniteSet(dropped) /\ late_events_dropped = Cardinality(dropped)
        /\ total_captured = Len(Rows)
    BY DEF Inv, CountOK
  <2>. QED  BY <1>1, <2>1, <2>2, FS_EmptySet DEF CountOK
<1>20. LateOK(dropped, current, clock, anchor)'
  <2>1. LateOK(dropped, current, clock, anchor)  BY DEF Inv
  <2>. QED  BY <1>1, <2>1 DEF LateOK
<1>21. ClockOK(clock, anchor, reached)'  BY <1>1 DEF Inv
<1>. QED
  BY <1>14, <1>15, <1>16, <1>18, <1>19, <1>20, <1>21, Zenon DEF Inv

\* finalize of a stream that never had a clock.
LEMMA FinalizeUnanchored ==
  ASSUME Inv, finalize, clock = None
  PROVE  Inv'
<1>1. /\ ~finalized /\ finalized' = TRUE
      /\ current' \subseteq current
      /\ UNCHANGED <<buffer, total_captured, clock_mode, clock, books,
                     late_events_dropped, calls, arrived, dropped, delivered,
                     seen, anchor, reached>>
  BY DEF finalize
<1>2. Types /\ current \in SUBSET Events  BY DEF Inv, Types
<1>3. Rows' = Rows  BY <1>1 DEF Rows
<1>4. Unanchored' = TRUE  BY <1>1 DEF Unanchored
<1>5. Types'  BY <1>1, <1>2 DEF Types
<1>6. RowsOK(Rows, clock, anchor, TRUE)
  <2>1. RowsOK(Rows, clock, anchor, finalized)  BY DEF Inv
  <2>2. DOMAIN Rows = {}  BY <2>1, SyncAssumption DEF RowsOK
  <2>. QED  BY <2>2 DEF RowsOK
<1>7. AccountOK(arrived, current', Rows, dropped, TRUE)
  <2>1. AccountOK(arrived, current, Rows, dropped, Unanchored)  BY DEF Inv
  <2>. QED  BY <1>1, <2>1 DEF AccountOK
<1>8. IdsOK(current', Rows, dropped, calls)
  <2>1. IdsOK(current, Rows, dropped, calls)  BY DEF Inv
  <2>. QED  BY <1>1, <2>1 DEF IdsOK
<1>9. CountOK(current', Rows, dropped, late_events_dropped, total_captured)
  <2>1. CountOK(current, Rows, dropped, late_events_dropped, total_captured)
    BY DEF Inv
  <2>2. IsFiniteSet(current')  BY <1>1, <2>1, FS_Subset DEF CountOK
  <2>. QED  BY <2>1, <2>2 DEF CountOK
<1>10. LateOK(dropped, current', clock, anchor)
  <2>1. LateOK(dropped, current, clock, anchor)  BY DEF Inv
  <2>. QED  BY <1>1, <2>1 DEF LateOK
<1>11. /\ ClockOK(clock, anchor, reached)'
       /\ RowsOK(Rows, clock, anchor, finalized)'
       /\ AccountOK(arrived, current, Rows, dropped, Unanchored)'
       /\ IdsOK(current, Rows, dropped, calls)'
       /\ CountOK(current, Rows, dropped, late_events_dropped, total_captured)'
       /\ LateOK(dropped, current, clock, anchor)'
  BY <1>1, <1>3, <1>4, <1>6, <1>7, <1>8, <1>9, <1>10 DEF Inv
<1>. QED  BY <1>5, <1>11, Zenon DEF Inv

\* drain moves rows from the buffer to the consumer.
LEMMA DrainInv ==
  ASSUME Inv, drain
  PROVE  Inv'
<1>1. /\ delivered' = delivered \o buffer /\ buffer' = <<>>
      /\ UNCHANGED <<clock_mode, clock, books, current, total_captured,
                     late_events_dropped, finalized, calls, arrived, dropped,
                     seen, anchor, reached>>
  BY DEF drain
<1>2. Types /\ buffer \in Seq(RowType) /\ delivered \in Seq(RowType)
  BY DEF Inv, Types
<1>3. delivered' \in Seq(RowType) /\ buffer' \in Seq(RowType)
  <2>1. delivered \o buffer \in Seq(RowType)  BY <1>2, RowsConcat, Zenon
  <2>2. <<>> \in Seq(RowType)
    <3>. DEFINE X == RowType
    <3>. HIDE DEF X
    <3>1. <<>> \in Seq(X)  OBVIOUS
    <3>. QED  BY <3>1 DEF X
  <2>. QED  BY <1>1, <2>1, <2>2, Zenon
<1>4. Rows' = Rows
  <2>1. Rows' = delivered' \o <<>>  BY <1>1 DEF Rows
  <2>2. delivered' \o <<>> = delivered'  BY <1>3
  <2>. QED  BY <1>1, <2>1, <2>2 DEF Rows
<1>5. Types'  BY <1>1, <1>2, <1>3 DEF Types
<1>6. Unanchored' = Unanchored  BY <1>1 DEF Unanchored
<1>7. /\ ClockOK(clock, anchor, reached)'
      /\ RowsOK(Rows, clock, anchor, finalized)'
      /\ AccountOK(arrived, current, Rows, dropped, Unanchored)'
      /\ IdsOK(current, Rows, dropped, calls)'
      /\ CountOK(current, Rows, dropped, late_events_dropped, total_captured)'
      /\ LateOK(dropped, current, clock, anchor)'
  BY <1>1, <1>4, <1>6 DEF Inv
<1>. QED  BY <1>5, <1>7, Zenon DEF Inv

LEMMA InitInv == Init => Inv
<1>. SUFFICES ASSUME Init PROVE Inv  OBVIOUS
<1>1. Types
  <2>1. clock_mode \in ClockModes  BY SyncAssumption DEF Init
  <2>2. IsBooks(books) /\ IsBooks(seen)  BY DEF Init, IsBooks
  <2>3. buffer \in Seq(RowType) /\ delivered \in Seq(RowType)  BY DEF Init
  <2>4. current \in SUBSET Events /\ arrived \in SUBSET Events
        /\ dropped \in SUBSET Inputs
    BY DEF Init
  <2>5. /\ total_captured \in Nat /\ late_events_dropped \in Nat
        /\ calls \in Nat /\ finalized \in BOOLEAN
    BY DEF Init
  <2>. QED  BY <2>1, <2>2, <2>3, <2>4, <2>5, Zenon DEF Types
<1>2. Rows = <<>>
  <2>1. <<>> \in Seq(Nat)  OBVIOUS
  <2>2. <<>> \o <<>> = <<>>  BY <2>1
  <2>. QED  BY <2>2 DEF Init, Rows
<1>3. DOMAIN Rows = {} /\ Len(Rows) = 0  BY <1>2
<1>4. EventsIn(Rows) = {}  BY <1>3 DEF EventsIn
<1>5. ClockOK(clock, anchor, reached)  BY DEF Init, ClockOK
<1>6. RowsOK(Rows, clock, anchor, finalized)  BY <1>3 DEF RowsOK
<1>7. AccountOK(arrived, current, Rows, dropped, Unanchored)
  BY <1>3, <1>4 DEF Init, AccountOK
<1>8. IdsOK(current, Rows, dropped, calls)  BY <1>4 DEF Init, IdsOK
<1>9. CountOK(current, Rows, dropped, late_events_dropped, total_captured)
  BY <1>3, FS_EmptySet DEF Init, CountOK
<1>10. LateOK(dropped, current, clock, anchor)  BY DEF Init, LateOK
<1>. QED
  BY <1>1, <1>5, <1>6, <1>7, <1>8, <1>9, <1>10, Zenon DEF Inv

LEMMA NextInv == Inv /\ [Next]_vars => Inv'
<1>. SUFFICES ASSUME Inv, [Next]_vars PROVE Inv'  OBVIOUS
<1>1. ASSUME NEW ts \in Stamps, on_trade(ts) PROVE Inv'
  <2>1. "Trade" \in EventKinds  BY DEF EventKinds
  <2>. QED  BY <1>1, <2>1, OnEventInv DEF on_trade
<1>2. ASSUME NEW ts \in Stamps, on_liquidation(ts) PROVE Inv'
  <2>1. "Liquidation" \in EventKinds  BY DEF EventKinds
  <2>. QED  BY <1>2, <2>1, OnEventInv DEF on_liquidation
<1>3. ASSUME NEW ts \in Stamps, on_funding(ts) PROVE Inv'
  <2>1. "FundingRate" \in EventKinds  BY DEF EventKinds
  <2>. QED  BY <1>3, <2>1, OnEventInv DEF on_funding
<1>4. ASSUME NEW ts \in Stamps, on_open_interest(ts) PROVE Inv'
  <2>1. "OpenInterest" \in EventKinds  BY DEF EventKinds
  <2>. QED  BY <1>4, <2>1, OnEventInv DEF on_open_interest
<1>5. ASSUME NEW ts \in Stamps, on_funding_settlement(ts) PROVE Inv'
  <2>1. "FundingSettlement" \in EventKinds  BY DEF EventKinds
  <2>. QED  BY <1>5, <2>1, OnEventInv DEF on_funding_settlement
<1>6. ASSUME NEW ts \in Stamps, on_orderbook(ts) PROVE Inv'
  BY <1>6, OnOrderbookInv
<1>7. ASSUME NEW ts \in Stamps, on_time(ts) PROVE Inv'  BY <1>7, OnTimeInv
<1>8. ASSUME NEW ts \in Stamps, NEW kind \in Kinds,
             drop_post_finalize(kind, ts)
      PROVE  Inv'
  <2>1. kind \in EventKinds \cup {"Book", "Time"}  BY SyncAssumption
  <2>. QED  BY <1>8, <2>1, DropInv
<1>9. CASE finalize  BY <1>9, FinalizeClocked, FinalizeUnanchored
<1>10. CASE drain  BY <1>10, DrainInv
<1>11. CASE UNCHANGED vars
  <2>1. UNCHANGED <<clock_mode, clock, books, current, buffer, total_captured,
                    late_events_dropped, finalized, calls, arrived, dropped,
                    delivered, seen, anchor, reached>>
    BY <1>11 DEF vars
  <2>2. Types'  BY <2>1 DEF Inv, Types
  <2>3. Rows' = Rows /\ Unanchored' = Unanchored
    BY <2>1 DEF Rows, Unanchored
  <2>4. /\ ClockOK(clock, anchor, reached)'
        /\ RowsOK(Rows, clock, anchor, finalized)'
        /\ AccountOK(arrived, current, Rows, dropped, Unanchored)'
        /\ IdsOK(current, Rows, dropped, calls)'
        /\ CountOK(current, Rows, dropped, late_events_dropped, total_captured)'
        /\ LateOK(dropped, current, clock, anchor)'
    BY <2>1, <2>3 DEF Inv
  <2>. QED  BY <2>2, <2>4, Zenon DEF Inv
<1>. QED
  BY <1>1, <1>2, <1>3, <1>4, <1>5, <1>6, <1>7, <1>8, <1>9, <1>10, <1>11, Zenon
  DEF Next

\* The inductive invariant holds in every reachable state.
THEOREM InvHolds == Spec => []Inv
<1>1. Init => Inv  BY InitInv
<1>2. Inv /\ [Next]_vars => Inv'  BY NextInv
<1>. QED  BY <1>1, <1>2, PTL DEF Spec

-----------------------------------------------------------------------------
\* What the invariant says

\* The sets of rows and of their events, as the invariant writes them.
LEMMA RowSetFacts ==
  ASSUME Inv
  PROVE  /\ Rows \in Seq(RowType)
         /\ \A i \in DOMAIN Rows : Rows[i] \in RowType
         /\ \A r \in RowSet : r \in RowType /\ \E i \in DOMAIN Rows : r = Rows[i]
         /\ InRows = EventsIn(Rows)
<1>1. Rows \in Seq(RowType)  BY RowsConcat DEF Inv, Types, Rows
<1>2. \A i \in DOMAIN Rows : Rows[i] \in RowType
  <2>. DEFINE X == RowType
  <2>. HIDE DEF X
  <2>1. Rows \in Seq(X)  BY <1>1 DEF X
  <2>2. \A i \in DOMAIN Rows : Rows[i] \in X  BY <2>1
  <2>. QED  BY <2>2 DEF X
<1>3. \A r \in RowSet : \E i \in DOMAIN Rows : r = Rows[i]  BY DEF RowSet
<1>4. \A i \in DOMAIN Rows : Rows[i].events \in SUBSET Events
  BY <1>2, RowFields
<1>5. InRows = EventsIn(Rows)  BY <1>4, Zenon DEF InRows, RowSet, EventsIn
<1>. QED  BY <1>1, <1>2, <1>3, <1>5

\* Every variable keeps its type, and every row its fields.
THEOREM TypeCorrect == Spec => []TypeOK
<1>1. ASSUME Inv PROVE TypeOK
  <2>1. Types /\ ClockOK(clock, anchor, reached)  BY <1>1 DEF Inv
  <2>2. /\ clock \in Nat \cup {None} /\ anchor \in Nat \cup {None}
        /\ reached \in Nat \cup {None}
    BY <2>1, SyncAssumption DEF ClockOK
  <2>3. \A r \in RowSet : r.row \in Nat /\ r.events \subseteq Events
    BY <1>1, RowSetFacts, RowFields
  <2>4. \A bks \in {books, seen} : \A k \in DOMAIN bks :
          k \in Nat /\ bks[k] \in Inputs
    BY <2>1 DEF Types, IsBooks
  <2>. QED  BY <2>1, <2>2, <2>3, <2>4 DEF Types, TypeOK
<1>. QED  BY <1>1, InvHolds, PTL

\* Every event handed to the synchronizer waits, is in exactly one row, or is
\* counted in late_events_dropped: drain_events and finalize lose and copy
\* nothing.
THEOREM NothingLost == Spec => []EventsAccounted
<1>1. ASSUME Inv PROVE EventsAccounted
  <2>1. InRows = EventsIn(Rows)  BY <1>1, RowSetFacts
  <2>2. AccountOK(arrived, current, Rows, dropped, Unanchored)
    BY <1>1 DEF Inv
  <2>3. /\ late_events_dropped = Cardinality(dropped)
        /\ total_captured = Len(Rows)
    BY <1>1 DEF Inv, CountOK
  <2>. QED  BY <2>1, <2>2, <2>3 DEF AccountOK, EventsAccounted
<1>. QED  BY <1>1, InvHolds, PTL

\* The rows of advance_grid and finalize leave in grid order, without a hole
\* while no gap exceeds MAX_GAP_FILL.
THEOREM GridOrder == Spec => []RowsInGridOrder
<1>1. ASSUME Inv PROVE RowsInGridOrder
  <2>1. RowsOK(Rows, clock, anchor, finalized)  BY <1>1 DEF Inv
  <2>2. DOMAIN Rows = 1 .. Len(Rows) /\ Len(Rows) \in Nat
    BY <1>1, RowSetFacts
  <2>3. ASSUME NEW i \in DOMAIN Rows, i > 1 PROVE ~Rows[i-1].final
    <3>1. i - 1 \in DOMAIN Rows /\ i - 1 # Len(Rows)  BY <2>2, <2>3
    <3>. QED  BY <2>1, <3>1 DEF RowsOK
  <2>. QED  BY <2>1, <2>3 DEF RowsOK, RowsInGridOrder
<1>. QED  BY <1>1, InvHolds, PTL

\* What a row of advance_grid holds happened in the period the row closes.
THEOREM Membership == Spec => []TrueRow
<1>1. ASSUME Inv PROVE TrueRow
  <2>1. RowsOK(Rows, clock, anchor, finalized)  BY <1>1 DEF Inv
  <2>2. \A r \in RowSet : GoodRow(r)
    BY <1>1, <2>1, RowSetFacts DEF RowsOK
  <2>. QED  BY <2>2 DEF GoodRow, TrueRow
<1>. QED  BY <1>1, InvHolds, PTL

\* A row leaves once the clock is the emission delay past its boundary, with a
\* book from before the boundary.
THEOREM HoldBack == Spec => []RowsHeldBack
<1>1. ASSUME Inv, NEW r \in RowSet, ~r.final
      PROVE  /\ reached # None /\ reached >= r.row * Period + Delay
             /\ r.book # None => r.book.ts < r.row * Period
  <2>1. RowsOK(Rows, clock, anchor, finalized)  BY <1>1 DEF Inv
  <2>2. PICK i \in DOMAIN Rows : r = Rows[i]  BY <1>1, RowSetFacts
  <2>3. clock \in Nat /\ anchor < r.row /\ r.row <= clock /\ GoodRow(r)
    BY <1>1, <2>1, <2>2 DEF RowsOK
  <2>4. r.row \in Nat  BY <1>1, RowSetFacts, RowFields
  <2>5. anchor \in Nat /\ reached \in Stamps /\ clock = Ripe(reached)
    BY <1>1, <2>3, SyncAssumption DEF Inv, ClockOK
  <2>6. reached \in Nat /\ reached # None  BY <2>5, SyncAssumption
  <2>7. r.row > 0  BY <2>3, <2>4, <2>5
  <2>8. Ripe(reached) >= r.row  BY <2>3, <2>4, <2>5
  <2>9. reached >= r.row * Period + Delay
    BY <2>4, <2>6, <2>7, <2>8, RipeAtLeast
  <2>. QED  BY <1>1, <2>3, <2>6, <2>9 DEF GoodRow
<1>2. Inv => RowsHeldBack  BY <1>1 DEF RowsHeldBack
<1>. QED  BY <1>2, InvHolds, PTL

\* The purpose of emission_delay_us: an event that comes before the clock is the
\* delay past its row's boundary is never counted late, and a settlement never.
THEOREM DelaySuffices == Spec => []InTimeNeverLost
<1>1. ASSUME Inv PROVE InTimeNeverLost
  <2>1. LateOK(dropped, current, clock, anchor)  BY <1>1 DEF Inv
  <2>. QED  BY <2>1 DEF LateOK, Excused, InTimeNeverLost
<1>. QED  BY <1>1, InvHolds, PTL

-----------------------------------------------------------------------------
\* Pruning

\* The books bks are the whole history h, but for those that a later book, of a
\* period the clock c has reached, hides from every row still to come.
Agrees(bks, h, c) ==
  /\ DOMAIN bks \subseteq DOMAIN h
  /\ \A k \in DOMAIN bks : bks[k] = h[k]
  /\ \A k \in DOMAIN h \ DOMAIN bks :
       c \in Nat /\ \E j \in DOMAIN bks : k < j /\ j <= c

PruneInv == Agrees(books, seen, clock)

\* A row past the clock has the same as-of book in both.
LEMMA SameAsOf ==
  ASSUME NEW bks, NEW h, NEW c \in Nat, NEW row \in Nat, c < row,
         IsBooks(bks), IsBooks(h), Agrees(bks, h, c)
  PROVE  as_of_book(bks, row) = as_of_book(h, row)
<1>1. /\ \A k \in DOMAIN h : k \in Nat
      /\ \A k \in DOMAIN bks : k \in Nat /\ k \in DOMAIN h /\ bks[k] = h[k]
  BY DEF IsBooks, Agrees
<1>2. \A k \in DOMAIN h \ DOMAIN bks : \E j \in DOMAIN bks : k < j /\ j <= c
  BY Zenon DEF Agrees
<1>3. CASE AsOfPeriods(bks, row) = {}
  <2>1. \A j \in DOMAIN bks : ~(j < row)  BY <1>3 DEF AsOfPeriods
  <2>2. ASSUME NEW k \in DOMAIN h, k < row PROVE FALSE
    <3>1. k \in DOMAIN h \ DOMAIN bks  BY <2>1, <2>2
    <3>2. PICK j \in DOMAIN bks : k < j /\ j <= c  BY <1>2, <3>1
    <3>. QED  BY <1>1, <2>1, <3>2
  <2>3. AsOfPeriods(h, row) = {}  BY <2>2 DEF AsOfPeriods
  <2>. QED  BY <1>3, <2>3 DEF as_of_book
<1>4. CASE AsOfPeriods(bks, row) # {}
  <2>1. PICK k \in DOMAIN bks :
          IsAsOf(bks, row, k) /\ as_of_book(bks, row) = bks[k]
    BY <1>4, AsOfPick
  <2>2. k < row /\ \A j \in DOMAIN bks : j < row => j <= k
    BY <2>1 DEF IsAsOf, AsOfPeriods
  <2>3. AsOfPeriods(h, row) # {}  BY <1>1, <2>2 DEF AsOfPeriods
  <2>4. PICK m \in DOMAIN h : IsAsOf(h, row, m) /\ as_of_book(h, row) = h[m]
    BY <2>3, AsOfPick
  <2>5. m < row /\ \A j \in DOMAIN h : j < row => j <= m
    BY <2>4 DEF IsAsOf, AsOfPeriods
  <2>6. m \in DOMAIN bks
    <3>. SUFFICES ASSUME m \notin DOMAIN bks PROVE FALSE  OBVIOUS
    <3>1. PICK j \in DOMAIN bks : m < j /\ j <= c  BY <1>2
    <3>2. j \in DOMAIN h /\ j \in Nat /\ m \in Nat  BY <1>1
    <3>3. j < row  BY <3>1, <3>2
    <3>. QED  BY <2>5, <3>1, <3>2, <3>3
  <2>7. m <= k /\ k <= m  BY <1>1, <2>2, <2>5, <2>6
  <2>8. m = k  BY <1>1, <2>7
  <2>. QED  BY <1>1, <2>1, <2>4, <2>8
<1>. QED  BY <1>3, <1>4

\* A book is recorded in both, also under a period that was pruned.
LEMMA RecordAgrees ==
  ASSUME NEW bks, NEW h, NEW c, NEW b, Agrees(bks, h, c)
  PROVE  Agrees(record_book(bks, b), record_book(h, b), c)
<1>. DEFINE p == Grid(b.ts)
            B == record_book(bks, b)
            H == record_book(h, b)
<1>1. /\ DOMAIN B = DOMAIN bks \cup {p} /\ DOMAIN H = DOMAIN h \cup {p}
      /\ \A k \in DOMAIN B : B[k] = IF k = p THEN b ELSE bks[k]
      /\ \A k \in DOMAIN H : H[k] = IF k = p THEN b ELSE h[k]
  BY Zenon DEF record_book
<1>2. /\ DOMAIN bks \subseteq DOMAIN h
      /\ \A k \in DOMAIN bks : bks[k] = h[k]
      /\ \A k \in DOMAIN h \ DOMAIN bks :
           c \in Nat /\ \E j \in DOMAIN bks : k < j /\ j <= c
  BY Zenon DEF Agrees
<1>. HIDE DEF p, B, H
<1>3. DOMAIN B \subseteq DOMAIN H  BY <1>1, <1>2
<1>4. \A k \in DOMAIN B : B[k] = H[k]  BY <1>1, <1>2, <1>3
<1>5. \A k \in DOMAIN H \ DOMAIN B :
        c \in Nat /\ \E j \in DOMAIN B : k < j /\ j <= c
  BY <1>1, <1>2, Zenon
<1>6. Agrees(B, H, c)  BY <1>3, <1>4, <1>5, Zenon DEF Agrees
<1>. QED  BY <1>6 DEF B, H

\* What pruning drops, the as-of book of the last row hides.
LEMMA PruneAgrees ==
  ASSUME NEW bks, NEW h, NEW c \in Nat, NEW n \in Nat, NEW last \in Nat,
         c <= n, last <= n, IsBooks(bks), IsBooks(h), Agrees(bks, h, c)
  PROVE  Agrees(prune_books(bks, last), h, n)
<1>. DEFINE P == prune_books(bks, last)
<1>1. /\ DOMAIN P = {k \in DOMAIN bks : \A j \in AsOfPeriods(bks, last) :
                                            IsAsOf(bks, last, j) => k >= j}
      /\ \A k \in DOMAIN P : P[k] = bks[k]
  BY Zenon DEF prune_books
<1>2. /\ DOMAIN bks \subseteq DOMAIN h
      /\ \A k \in DOMAIN bks : bks[k] = h[k]
      /\ \A k \in DOMAIN h \ DOMAIN bks : \E j \in DOMAIN bks : k < j /\ j <= c
  BY Zenon DEF Agrees
<1>3. \A k \in DOMAIN h : k \in Nat  BY DEF IsBooks
<1>. HIDE DEF P
<1>4. ASSUME NEW k \in DOMAIN bks \ DOMAIN P
      PROVE  \E j \in DOMAIN P : k < j /\ j <= n
  <2>1. PICK j \in AsOfPeriods(bks, last) : IsAsOf(bks, last, j) /\ ~(k >= j)
    BY <1>1
  <2>2. j \in DOMAIN bks /\ j < last  BY <2>1 DEF AsOfPeriods
  <2>3. \A i \in AsOfPeriods(bks, last) : i <= j /\ i \in Nat
    BY <1>2, <1>3, <2>1 DEF IsAsOf, AsOfPeriods
  <2>4. j \in Nat /\ k \in Nat  BY <1>2, <1>3, <2>2
  <2>5. \A i \in AsOfPeriods(bks, last) : j >= i  BY <2>3, <2>4
  <2>6. j \in DOMAIN P  BY <1>1, <2>2, <2>5
  <2>7. k < j /\ j <= n  BY <2>1, <2>2, <2>4
  <2>. QED  BY <2>6, <2>7
<1>5. ASSUME NEW k \in DOMAIN h \ DOMAIN P
      PROVE  \E j \in DOMAIN P : k < j /\ j <= n
  <2>1. CASE k \in DOMAIN bks  BY <1>4, <2>1
  <2>2. CASE k \notin DOMAIN bks
    <3>1. PICK i \in DOMAIN bks : k < i /\ i <= c  BY <1>2, <2>2
    <3>2. i \in Nat /\ k \in Nat  BY <1>2, <1>3
    <3>3. CASE i \in DOMAIN P  BY <3>1, <3>2, <3>3
    <3>4. CASE i \notin DOMAIN P
      <4>1. PICK j \in DOMAIN P : i < j /\ j <= n  BY <1>4, <3>4
      <4>2. j \in Nat  BY <1>1, <1>2, <1>3
      <4>3. k < j  BY <3>1, <3>2, <4>1, <4>2
      <4>. QED  BY <4>1, <4>3
    <3>. QED  BY <3>3, <3>4
  <2>. QED  BY <2>1, <2>2
<1>6. DOMAIN P \subseteq DOMAIN h /\ \A k \in DOMAIN P : P[k] = h[k]
  BY <1>1, <1>2
<1>7. Agrees(P, h, n)  BY <1>5, <1>6, Zenon DEF Agrees
<1>. QED  BY <1>7 DEF P

NewRowsExact ==
  \A i \in DOMAIN buffer' : i > Len(buffer) /\ ~buffer'[i].final =>
    buffer'[i].book = as_of_book(seen, buffer'[i].row)

\* Driving the clock: the rows are filled before anything is pruned.
LEMMA DriveAgrees ==
  ASSUME Inv, PruneInv, NEW ts \in Stamps, NEW evs \in SUBSET Events, NEW bks,
         Drive(advance_grid(ts, evs), ts, bks)
  PROVE  Agrees(advance_grid(ts, evs).books, seen, clock') /\ NewRowsExact
<1>1. ts \in Nat /\ Ripe(ts) \in Nat  BY SyncAssumption, RipeAtLeast
<1>2. IsBooks(books) /\ IsBooks(seen) /\ buffer \in Seq(RowType)
  BY DEF Inv, Types
<1>3. clock = None \/ clock \in Nat  BY DEF Inv, ClockOK
<1>4. CASE clock = None \/ Ripe(ts) <= clock
  <2>1. advance_grid(ts, evs) =
          [clock |-> IF clock = None THEN Ripe(ts) ELSE clock, current |-> evs,
           books |-> books, rows |-> <<>>, late |-> {}]
    BY <1>4 DEF advance_grid
  <2>2. buffer' = buffer \o <<>> /\ clock' = IF clock = None THEN Ripe(ts) ELSE clock
    BY <2>1 DEF Drive
  <2>3. buffer' = buffer  BY <1>2, <2>2
  <2>4. NewRowsExact
    <3>1. \A i \in DOMAIN buffer : ~(i > Len(buffer))  BY <1>2
    <3>. QED  BY <2>3, <3>1, Zenon DEF NewRowsExact
  <2>5. Agrees(books, seen, clock')
    <3>1. CASE clock = None
      <4>1. Agrees(books, seen, None)  BY <3>1, Zenon DEF PruneInv
      <4>2. DOMAIN seen \ DOMAIN books = {}
        BY <4>1, SyncAssumption, Zenon DEF Agrees
      <4>. QED  BY <4>1, <4>2, Zenon DEF Agrees
    <3>2. CASE clock # None
      <4>1. clock' = clock  BY <2>2, <3>2, Zenon
      <4>. QED  BY <4>1, Zenon DEF PruneInv
    <3>. QED  BY <3>1, <3>2
  <2>6. advance_grid(ts, evs).books = books  BY <2>1
  <2>. QED  BY <2>4, <2>5, <2>6, Zenon
<1>5. CASE clock # None /\ ~(Ripe(ts) <= clock)
  <2>. DEFINE cur  == Ripe(ts)
              last == LastEmitted(clock, cur)
              N    == EmittedRows(clock, last, evs, books)
  <2>1. clock \in Nat /\ clock < cur  BY <1>1, <1>3, <1>5
  <2>2. last \in Nat /\ clock < last /\ last <= cur  BY <1>1, <2>1, FillRange
  <2>3. advance_grid(ts, evs) =
          [clock |-> cur, current |-> Kept(evs, clock, last),
           books |-> prune_books(books, last), rows |-> N, late |-> Late(evs, clock)]
    BY <1>5 DEF advance_grid
  <2>4. buffer' = buffer \o N /\ clock' = cur  BY <2>3 DEF Drive
  <2>5. advance_grid(ts, evs).books = prune_books(books, last)  BY <2>3
  <2>6. cur \in Nat /\ clock <= cur  BY <1>1, <2>1
  <2>. HIDE DEF cur, last
  <2>7. N \in Seq(RowType) /\ Len(N) = last - clock
    <3>. HIDE DEF N
    <3>1. N = EmittedRows(clock, last, evs, books)  BY Zenon DEF N
    <3>2. clock \in Nat /\ last \in Nat /\ clock < last /\ evs \in SUBSET Events /\ IsBooks(books)
      BY <1>2, <2>1, <2>2, Zenon
    <3>. QED  BY ONLY <3>1, <3>2, EmittedRowsFacts
  <2>8. ASSUME NEW i \in 1 .. last - clock
        PROVE  N[i].book = as_of_book(seen, N[i].row)
    <3>1. N[i] = Row(clock + i, as_of_book(books, clock + i),
                     Members(evs, clock, clock + i), FALSE)
      BY DEF EmittedRows
    <3>. HIDE DEF N
    <3>2. N[i].book = as_of_book(books, clock + i) /\ N[i].row = clock + i
      BY ONLY <3>1 DEF Row
    <3>3. clock + i \in Nat /\ clock < clock + i  BY <2>1, <2>2
    <3>4. as_of_book(books, clock + i) = as_of_book(seen, clock + i)
      BY <1>2, <2>1, <3>3, SameAsOf DEF PruneInv
    <3>. QED  BY <3>2, <3>4, Zenon
  <2>. HIDE DEF N
  <2>9. NewRowsExact
    <3>. SUFFICES ASSUME NEW i \in DOMAIN buffer', i > Len(buffer)
                  PROVE  buffer'[i].book = as_of_book(seen, buffer'[i].row)
      BY Zenon DEF NewRowsExact
    <3>1. /\ DOMAIN buffer' = 1 .. Len(buffer) + Len(N)
          /\ \A k \in 1 .. Len(N) : buffer'[Len(buffer) + k] = N[k]
      BY <1>2, <2>4, <2>7, ConcatFacts
    <3>2. Len(buffer) \in Nat /\ Len(N) \in Nat  BY <1>2, <2>7
    <3>3. PICK k \in 1 .. Len(N) : i = Len(buffer) + k
      <4>1. i - Len(buffer) \in 1 .. Len(N) /\ i = Len(buffer) + (i - Len(buffer))
        BY <3>1, <3>2
      <4>. QED  BY <4>1, Zenon
    <3>4. buffer'[i] = N[k] /\ k \in 1 .. last - clock  BY <2>7, <3>1, <3>3
    <3>. QED  BY <2>8, <3>4, Zenon
  <2>10. Agrees(prune_books(books, last), seen, cur)
    BY <1>2, <2>1, <2>2, <2>6, PruneAgrees DEF PruneInv
  <2>. QED  BY <2>4, <2>5, <2>9, <2>10, Zenon
<1>. QED  BY <1>4, <1>5

\* Steps that fill no row.
LEMMA NoNewRows ==
  ASSUME Inv, buffer' = buffer PROVE NewRowsExact
<1>1. buffer \in Seq(RowType)  BY DEF Inv, Types
<1>2. \A i \in DOMAIN buffer : ~(i > Len(buffer))  BY <1>1
<1>. QED  BY <1>2, Zenon DEF NewRowsExact

LEMMA OnEventPrunes ==
  ASSUME Inv, PruneInv, NEW kind \in EventKinds, NEW ts \in Stamps, OnEvent(kind, ts)
  PROVE  PruneInv' /\ NewRowsExact
<1>. DEFINE e == Input(kind, ts)
            g == advance_grid(ts, current \cup {e})
<1>1. e \in Events /\ current \in SUBSET Events  BY InputFacts DEF Inv, Types
<1>2. /\ seen' = seen
      /\ \/ Drive(g, ts, g.books)
         \/ UNCHANGED <<clock, books, buffer>>
  BY DEF OnEvent
<1>. HIDE DEF e
<1>3. CASE Drive(g, ts, g.books)
  <2>1. current \cup {e} \in SUBSET Events  BY <1>1
  <2>2. Agrees(g.books, seen, clock') /\ NewRowsExact  BY <1>3, <2>1, DriveAgrees
  <2>3. books' = g.books  BY <1>3 DEF Drive
  <2>. QED  BY <1>2, <2>2, <2>3, Zenon DEF PruneInv
<1>4. CASE UNCHANGED <<clock, books, buffer>>
  BY <1>2, <1>4, NoNewRows DEF PruneInv
<1>. QED  BY <1>2, <1>3, <1>4

LEMMA OnOrderbookPrunes ==
  ASSUME Inv, PruneInv, NEW ts \in Stamps, on_orderbook(ts)
  PROVE  PruneInv' /\ NewRowsExact
<1>. DEFINE b == Input("Book", ts)
            g == advance_grid(ts, current)
<1>1. /\ seen' = record_book(seen, b)
      /\ \/ Drive(g, ts, record_book(g.books, b))
         \/ books' = record_book(books, b) /\ UNCHANGED <<clock, buffer>>
  BY DEF on_orderbook
<1>. HIDE DEF b
<1>2. CASE Drive(g, ts, record_book(g.books, b))
  <2>1. current \in SUBSET Events  BY DEF Inv, Types
  <2>2. Agrees(g.books, seen, clock') /\ NewRowsExact  BY <1>2, <2>1, DriveAgrees
  <2>3. books' = record_book(g.books, b)  BY <1>2 DEF Drive
  <2>. HIDE DEF g
  <2>4. Agrees(record_book(g.books, b), record_book(seen, b), clock')
    BY <2>2, RecordAgrees
  <2>. QED  BY <1>1, <2>2, <2>3, <2>4, Zenon DEF PruneInv
<1>3. CASE books' = record_book(books, b) /\ UNCHANGED <<clock, buffer>>
  <2>1. Agrees(record_book(books, b), record_book(seen, b), clock)
    BY RecordAgrees DEF PruneInv
  <2>. QED  BY <1>1, <1>3, <2>1, NoNewRows, Zenon DEF PruneInv
<1>. QED  BY <1>1, <1>2, <1>3

LEMMA PruneStep ==
  ASSUME Inv, PruneInv, [Next]_vars PROVE PruneInv' /\ NewRowsExact
<1>1. ASSUME NEW ts \in Stamps, NEW kind \in EventKinds, OnEvent(kind, ts)
      PROVE  PruneInv' /\ NewRowsExact
  BY <1>1, OnEventPrunes
<1>2. ASSUME NEW ts \in Stamps,
             on_trade(ts) \/ on_liquidation(ts) \/ on_funding(ts)
               \/ on_open_interest(ts) \/ on_funding_settlement(ts)
      PROVE  \E kind \in EventKinds : OnEvent(kind, ts)
  BY <1>2 DEF on_trade, on_liquidation, on_funding, on_open_interest,
              on_funding_settlement, EventKinds
<1>3. ASSUME NEW ts \in Stamps, on_time(ts) PROVE PruneInv' /\ NewRowsExact
  <2>. DEFINE g == advance_grid(ts, current)
  <2>1. Drive(g, ts, g.books) /\ seen' = seen  BY <1>3 DEF on_time
  <2>2. current \in SUBSET Events  BY DEF Inv, Types
  <2>3. Agrees(g.books, seen, clock') /\ NewRowsExact  BY <2>1, <2>2, DriveAgrees
  <2>4. books' = g.books  BY <2>1 DEF Drive
  <2>. QED  BY <2>1, <2>3, <2>4, Zenon DEF PruneInv
<1>4. ASSUME NEW ts \in Stamps, NEW kind \in Kinds, drop_post_finalize(kind, ts)
      PROVE  PruneInv' /\ NewRowsExact
  <2>1. UNCHANGED <<clock, books, seen, buffer>>  BY <1>4 DEF drop_post_finalize
  <2>. QED  BY <2>1, NoNewRows DEF PruneInv
<1>5. CASE finalize
  <2>1. UNCHANGED <<clock, books, seen>>  BY <1>5 DEF finalize
  <2>2. buffer' = buffer \/ \E l, s : buffer' = Append(buffer, Row(clock + 1, l, s, TRUE))
    BY <1>5, Zenon DEF finalize
  <2>3. ASSUME NEW l, NEW s, buffer' = Append(buffer, Row(clock + 1, l, s, TRUE))
        PROVE  NewRowsExact
    <3>1. buffer \in Seq(RowType)  BY DEF Inv, Types
    <3>2. DOMAIN buffer' = 1 .. Len(buffer) + 1
          /\ buffer'[Len(buffer) + 1] = Row(clock + 1, l, s, TRUE)
      <4>. DEFINE r == Row(clock + 1, l, s, TRUE)
      <4>1. buffer' = Append(buffer, r)  BY <2>3
      <4>. HIDE DEF r
      <4>2. DOMAIN buffer' = 1 .. Len(buffer) + 1 /\ buffer'[Len(buffer) + 1] = r
        BY <3>1, <4>1
      <4>. QED  BY <4>2 DEF r
    <3>3. buffer'[Len(buffer) + 1].final = TRUE  BY <3>2 DEF Row
    <3>4. \A i \in DOMAIN buffer' : i > Len(buffer) => i = Len(buffer) + 1
      BY <3>1, <3>2
    <3>. QED  BY <3>3, <3>4, Zenon DEF NewRowsExact
  <2>. QED  BY <2>1, <2>2, <2>3, NoNewRows, Zenon DEF PruneInv
<1>6. CASE drain
  <2>1. UNCHANGED <<clock, books, seen>> /\ buffer' = <<>>  BY <1>6 DEF drain
  <2>2. DOMAIN buffer' = {}  BY <2>1
  <2>. QED  BY <2>1, <2>2, Zenon DEF PruneInv, NewRowsExact
<1>7. CASE UNCHANGED vars
  <2>1. UNCHANGED <<clock, books, seen, buffer>>  BY <1>7 DEF vars
  <2>. QED  BY <2>1, NoNewRows DEF PruneInv
<1>. QED
  BY <1>1, <1>2, <1>3, <1>4, <1>5, <1>6, <1>7, OnOrderbookPrunes, Zenon DEF Next

\* prune_books drops only what no row still needs: each row that advance_grid
\* fills has the book that the whole history of books gives it.
THEOREM PruningIsInvisible == Spec => PruningInvisible
<1>1. Init => PruneInv
  <2>1. ASSUME Init PROVE books = seen /\ DOMAIN seen \ DOMAIN books = {}
    BY <2>1, Zenon DEF Init
  <2>. QED  BY <2>1, Zenon DEF PruneInv, Agrees
<1>2. Inv /\ PruneInv /\ [Next]_vars => PruneInv'  BY PruneStep
<1>3. Inv /\ PruneInv /\ [Next]_vars =>
        [\A i \in DOMAIN buffer' : i > Len(buffer) /\ ~buffer'[i].final =>
           buffer'[i].book = as_of_book(seen, buffer'[i].row)]_vars
  BY PruneStep DEF NewRowsExact
<1>. QED  BY <1>1, <1>2, <1>3, InvHolds, PTL DEF Spec, PruningInvisible

=============================================================================

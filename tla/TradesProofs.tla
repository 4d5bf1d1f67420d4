---------------------------- MODULE TradesProofs ----------------------------
(***************************************************************************)
(* The repair of trades, while they stream (Reconcile) and in the recorded *)
(* files (Rehydrate), for every profile, page size, capacity and bound.    *)
(*                                                                         *)
(* Live: the loss count of a venue with a dense trade sequence is exact    *)
(* across reconnects, a print is delivered twice only where the memories   *)
(* of the worker cannot tell, and repair by id never carries the anchor    *)
(* over a print it has not delivered.                                      *)
(*                                                                         *)
(* Recorded: what a rehydration run holds when it has walked up to a       *)
(* position, and that nothing more is served when it reports exhaustion.   *)
(***************************************************************************)
EXTENDS Reconcile, Rehydrate, FiniteSetTheorems, TLAPS

USE SMTT(20), ZenonT(20)

\* Prints between the first and the last one forwarded that no connection forwarded.
Lost(c, F) == {p \in 1..c : p \notin F /\ \E q \in F : q < p}

(* The ledger and the carry agree, and the carry is the newest print       *)
(* forwarded.                                                              *)
Ledger ==
  /\ head \in Nat /\ carry \in Nat /\ lost \in Nat /\ carry <= head
  /\ book \in [last_seq : Nat, trades_lost : Nat] /\ book.last_seq = carry
  /\ forwarded \subseteq 1..carry
  /\ carry # 0 => carry \in forwarded
  /\ lost = Cardinality(Lost(carry, forwarded))

LInv == venue \in Venues /\ (venue.armed => Ledger)

\* Of the ledger's variables a step writes none, or is one of three actions.
LEMMA LedgerWriters ==
  [Next]_vars =>
    \/ UNCHANGED <<venue, head, book, carry, lost, forwarded>>
    \/ Printed \/ Missed \/ with_trade_seq_carry
BY Zenon DEF Next, vars, stream, Dropped, Confirm, LiveTrade, RecoveredTrade, RuntimeEnded,
  Pause, Resume, Stop, WakeTriggered, WakeSwept, Fetched, FetchFailed, SendRecovered, TaskEnds

\* A print n > c after the carry c loses exactly the prints between the two.
LEMMA JumpCounts ==
  ASSUME NEW c \in Nat \ {0}, NEW n \in Nat, c < n,
         NEW F \in SUBSET (1..c), c \in F
  PROVE  /\ Cardinality(Lost(c, F)) \in Nat
         /\ Cardinality(Lost(n, F \union {n})) = Cardinality(Lost(c, F)) + (n - c - 1)
<1> DEFINE A == Lost(c, F)
           B == (c + 1)..(n - 1)
<1>1. Lost(n, F \union {n}) = A \union B
  <2>1. ASSUME NEW p \in Lost(n, F \union {n}) PROVE p \in A \union B
    <3>1. p \in 1..n /\ p \notin F /\ p # n  BY <2>1 DEF Lost
    <3>2. PICK q \in F \union {n} : q < p  BY <2>1 DEF Lost
    <3>3. q \in F  BY <3>1, <3>2
    <3> QED  BY <3>1, <3>2, <3>3 DEF Lost
  <2>2. ASSUME NEW p \in A PROVE p \in Lost(n, F \union {n})
    BY <2>2 DEF Lost
  <2>3. ASSUME NEW p \in B PROVE p \in Lost(n, F \union {n})
    <3>1. p \in 1..n /\ p # n /\ c < p  BY <2>3
    <3>2. p \notin F  BY <3>1
    <3> QED  BY <3>1, <3>2 DEF Lost
  <2> QED  BY <2>1, <2>2, <2>3
<1>2. A \in SUBSET (1..c)  BY DEF Lost
<1>3. A \intersect B = {}  BY <1>2
<1> HIDE DEF A, B
<1>4. IsFiniteSet(1..c)  BY FS_Interval
<1>5. IsFiniteSet(A) /\ Cardinality(A) \in Nat  BY <1>2, <1>4, FS_Subset, FS_CardinalityType
<1>6. IsFiniteSet(B) /\ Cardinality(B) = n - c - 1
  <2>1. c + 1 \in Int /\ n - 1 \in Int  OBVIOUS
  <2>2. IsFiniteSet((c + 1)..(n - 1))
        /\ Cardinality((c + 1)..(n - 1)) = IF c + 1 > n - 1 THEN 0 ELSE (n - 1) - (c + 1) + 1
    BY <2>1, FS_Interval
  <2> QED  BY <2>2 DEF B
<1>7. Cardinality(A \union B) = Cardinality(A) + Cardinality(B) - Cardinality({})
  BY <1>3, <1>5, <1>6, FS_Union
<1>8. Cardinality({}) = 0  BY FS_EmptySet
<1>9. n - c - 1 \in Int  OBVIOUS
<1>10. Cardinality(A \union B) = Cardinality(A) + (n - c - 1)
  BY <1>5, <1>6, <1>7, <1>8, <1>9
<1>11. A = Lost(c, F)  BY DEF A
<1> QED  BY <1>1, <1>5, <1>10, <1>11, Zenon

\* The first print of all loses nothing.
LEMMA FirstLosesNothing ==
  ASSUME NEW n \in Nat PROVE Cardinality(Lost(n, {n})) = 0 /\ Cardinality(Lost(0, {})) = 0
<1>1. Lost(n, {n}) = {} /\ Lost(0, {}) = {}  BY DEF Lost
<1> QED  BY <1>1, FS_EmptySet

LEMMA PrintedLedger ==
  ASSUME Ledger, venue.armed, Printed PROVE Ledger'
<1> DEFINE n == head + 1
<1>1. n \in Nat /\ head' = n /\ carry < n /\ carry \in Nat /\ lost \in Nat
  BY DEF Ledger, Printed
<1>2. /\ book' = apply(book, n) /\ lost' = lost + (book'.trades_lost - book.trades_lost)
      /\ carry' = IF book'.last_seq # 0 THEN book'.last_seq ELSE carry
      /\ forwarded' = forwarded \union {n}
  BY <1>1 DEF Printed, Forward
<1>3. n # 0  BY DEF Ledger
<1> HIDE DEF n
<1>4. CASE carry = 0
  <2>1. book' = [book EXCEPT !.last_seq = n]  BY <1>2, <1>4 DEF Ledger, apply
  <2>2. book'.last_seq = n /\ book'.trades_lost = book.trades_lost
        /\ book' \in [last_seq : Nat, trades_lost : Nat]
    BY <1>1, <2>1 DEF Ledger
  <2>3. forwarded = {}  BY <1>4 DEF Ledger
  <2>4. carry' = n /\ forwarded' = {n} /\ lost' = lost
    BY <1>1, <1>2, <1>3, <2>2, <2>3 DEF Ledger
  <2>5. lost = 0  BY <1>4, <2>3, FirstLosesNothing DEF Ledger
  <2>6. Cardinality(Lost(n, {n})) = 0  BY <1>1, FirstLosesNothing
  <2> QED  BY <1>1, <1>3, <2>2, <2>4, <2>5, <2>6 DEF Ledger
<1>5. CASE carry # 0
  <2>1. book.last_seq = carry /\ ~(n <= carry) /\ book.trades_lost \in Nat  BY <1>1 DEF Ledger
  <2>2. book' = [last_seq |-> n, trades_lost |-> book.trades_lost + (n - carry - 1)]
    BY <1>2, <1>5, <2>1 DEF apply
  <2>3. n - carry - 1 \in Nat  BY <1>1
  <2>4. /\ book'.last_seq = n /\ book'.trades_lost = book.trades_lost + (n - carry - 1)
        /\ book' \in [last_seq : Nat, trades_lost : Nat]
    BY <1>1, <2>1, <2>2, <2>3
  <2>5. carry' = n /\ lost' = lost + (n - carry - 1)
    BY <1>1, <1>2, <1>3, <2>1, <2>3, <2>4
  <2>6. forwarded \in SUBSET (1..carry) /\ carry \in forwarded  BY <1>5 DEF Ledger
  <2>7. Cardinality(Lost(n, forwarded \union {n}))
          = Cardinality(Lost(carry, forwarded)) + (n - carry - 1)
    BY <1>1, <1>5, <2>6, JumpCounts
  <2>8. lost' = Cardinality(Lost(carry', forwarded'))
    BY <1>2, <2>5, <2>7 DEF Ledger
  <2>9. forwarded' \subseteq 1..carry' /\ carry' \in forwarded'
    BY <1>1, <1>2, <1>3, <2>5, <2>6
  <2>10. lost' \in Nat  BY <1>1, <2>3, <2>5
  <2> QED  BY <1>1, <2>4, <2>5, <2>8, <2>9, <2>10 DEF Ledger
<1> QED  BY <1>4, <1>5

LEMMA StepInv == LInv /\ [Next]_vars => LInv'
<1> SUFFICES ASSUME LInv, [Next]_vars PROVE LInv'  OBVIOUS
<1>1. CASE UNCHANGED <<venue, head, book, carry, lost, forwarded>>
  BY <1>1 DEF LInv, Ledger
<1>2. CASE Printed
  <2>1. venue' = venue  BY <1>2 DEF Printed
  <2> QED  BY <1>2, <2>1, PrintedLedger DEF LInv
<1>3. CASE Missed
  <2>1. head' = head + 1 /\ UNCHANGED <<venue, book, carry, lost, forwarded>>
    BY <1>3 DEF Missed, stream
  <2> QED  BY <2>1 DEF LInv, Ledger
<1>4. CASE with_trade_seq_carry
  <2>1. UNCHANGED <<venue, head, carry, lost>> /\ book' = Tradebook(carry)
        /\ forwarded' = forwarded \union {Replayed[i] : i \in DOMAIN Replayed}
    BY <1>4 DEF with_trade_seq_carry
  <2>2. ASSUME venue.armed PROVE Ledger'
    <3>1. Ledger /\ venue \in Venues  BY <2>2 DEF LInv
    <3>2. venue.replays \in Nat /\ ~(venue.replays > 0)
      BY <2>2, <3>1, ReconcileAssumption
    <3>3. venue.replays = 0 /\ ~(head < venue.replays)  BY <3>1, <3>2 DEF Ledger
    <3>4. DOMAIN Replayed = {}  BY <3>3 DEF Replayed
    <3>5. forwarded' = forwarded  BY <2>1, <3>4
    <3>6. book'.last_seq = carry /\ book' \in [last_seq : Nat, trades_lost : Nat]
      BY <2>1, <3>1 DEF Tradebook, Ledger
    <3> QED  BY <2>1, <3>1, <3>5, <3>6 DEF Ledger
  <2> QED  BY <2>1, <2>2 DEF LInv
<1> QED  BY <1>1, <1>2, <1>3, <1>4, LedgerWriters

(***************************************************************************)
(* trades_lost, summed over the connections of a worker, is the number of  *)
(* prints between the first and the last one forwarded that no connection  *)
(* forwarded: nothing is counted twice or missed at a reconnect.           *)
(***************************************************************************)
THEOREM LossIsExact == Spec => []LossExact
<1>1. Init => LInv
  <2> SUFFICES ASSUME Init PROVE LInv  OBVIOUS
  <2>1. book.last_seq = 0 /\ book \in [last_seq : Nat, trades_lost : Nat]
    BY DEF Init, Tradebook
  <2>2. Cardinality(Lost(0, {})) = 0  BY FirstLosesNothing
  <2> QED  BY <2>1, <2>2 DEF Init, LInv, Ledger
<1>2. LInv => LossExact  BY DEF LInv, Ledger, LossExact, Lost
<1> QED  BY <1>1, <1>2, StepInv, PTL DEF Spec
-----------------------------------------------------------------------------
(* Copies.                                                                  *)

\* A sequence, whatever it holds: the ids a walk by time returns have no type here.
IsSeq(s) == s \in Seq({s[i] : i \in DOMAIN s})

\* The memory q of cap ids still holds the id of every delivery of these origins,
\* unless cap deliveries or more have followed it.
Recalls(l, q, cap, from) ==
  \A i \in DOMAIN l : l[i].origin \in from =>
    \/ Len(l) - i >= cap
    \/ \E k \in DOMAIN q : q[k] = l[i].id /\ Len(q) - k <= Len(l) - i

\* A venue that repeats nothing: the wire ascends, and is ahead of what was delivered live.
Ascending ==
  /\ head \in Nat /\ wire \in Seq(Nat)
  /\ \A i \in DOMAIN wire : wire[i] <= head
  /\ \A i, j \in DOMAIN wire : i < j => wire[i] < wire[j]
  /\ \A i \in DOMAIN log : log[i].origin = "ws" =>
       /\ log[i].id \in Nat /\ log[i].id <= head
       /\ \A j \in DOMAIN wire : log[i].id < wire[j]

Memories ==
  /\ venue \in Venues
  /\ IsSeq(log) /\ IsSeq(ring) /\ IsSeq(seen)
  /\ Len(ring) <= RingCap /\ Len(seen) <= SeenCap
  /\ \A i \in DOMAIN log : log[i].origin \in {"ws", "rest"}
  /\ (rec # <<>> \/ task.at \in {"fetch", "send"}) => reconcile_active
  /\ reconcile_active => Recalls(log, ring, RingCap, {"ws", "rest"})
  /\ venue.dedups => Recalls(log, seen, SeenCap, {"ws"})

CInv ==
  /\ Memories
  /\ venue.replays = 0 => Ascending
  /\ CopiesExplained

LEMMA SeqFacts ==
  ASSUME NEW s, IsSeq(s)
  PROVE  Len(s) \in Nat /\ DOMAIN s = 1..Len(s)
<1> DEFINE S == {s[i] : i \in DOMAIN s}
<1>1. s \in Seq(S)  BY DEF IsSeq
<1> HIDE DEF S
<1> QED  BY <1>1

LEMMA AppendFacts ==
  ASSUME NEW s, IsSeq(s), NEW e
  PROVE  /\ IsSeq(Append(s, e)) /\ Len(Append(s, e)) = Len(s) + 1
         /\ \A i \in 1..Len(s) : Append(s, e)[i] = s[i]
         /\ Append(s, e)[Len(s) + 1] = e
<1> DEFINE S == {s[i] : i \in DOMAIN s} \union {e}
           t == Append(s, e)
<1>1. s \in Seq(S)
  <2> DEFINE R == {s[i] : i \in DOMAIN s}
  <2>1. s \in Seq(R) /\ R \subseteq S  BY DEF IsSeq
  <2> HIDE DEF R, S
  <2> QED  BY <2>1
<1>2. e \in S  OBVIOUS
<1> HIDE DEF S
<1>3. /\ t \in Seq(S) /\ Len(t) = Len(s) + 1 /\ DOMAIN t = 1..Len(t) /\ Len(s) \in Nat
      /\ \A i \in 1..Len(s) : t[i] = s[i]
      /\ t[Len(s) + 1] = e
  BY <1>1, <1>2
<1> HIDE DEF t
<1>4. t \in Seq({t[i] : i \in DOMAIN t})
  BY <1>3
<1> QED  BY <1>3, <1>4 DEF IsSeq, t

LEMMA TailFacts ==
  ASSUME NEW s, IsSeq(s), Len(s) # 0
  PROVE  /\ IsSeq(Tail(s)) /\ Len(Tail(s)) = Len(s) - 1
         /\ \A i \in 1..(Len(s) - 1) : Tail(s)[i] = s[i + 1]
<1> DEFINE S == {s[i] : i \in DOMAIN s}
           t == Tail(s)
<1>1. s \in Seq(S)  BY DEF IsSeq
<1> HIDE DEF S
<1>2. /\ t \in Seq(S) /\ Len(t) = Len(s) - 1 /\ DOMAIN t = 1..Len(t) /\ Len(s) \in Nat
      /\ \A i \in 1..(Len(s) - 1) : t[i] = s[i + 1]
  BY <1>1
<1> HIDE DEF t
<1>3. t \in Seq({t[i] : i \in DOMAIN t})
  BY <1>2
<1> QED  BY <1>2, <1>3 DEF IsSeq, t

\* Remember appends, and at the capacity drops the first.
LEMMA RememberFacts ==
  ASSUME NEW q, IsSeq(q), NEW p, NEW cap \in Nat \ {0}, Len(q) <= cap
  PROVE  LET r == Remember(q, p, cap) IN
         /\ IsSeq(r) /\ Len(r) <= cap /\ Len(r) \in Nat \ {0} /\ r[Len(r)] = p
         /\ \/ Len(r) = Len(q) + 1 /\ \A k \in 1..Len(q) : r[k] = q[k]
            \/ Len(q) = cap /\ Len(r) = cap /\ \A k \in 2..cap : r[k - 1] = q[k]
<1> DEFINE t == Append(q, p)
           r == Remember(q, p, cap)
<1>1. Len(q) \in Nat  BY SeqFacts
<1>2. /\ IsSeq(t) /\ Len(t) = Len(q) + 1
      /\ \A i \in 1..Len(q) : t[i] = q[i]
      /\ t[Len(q) + 1] = p
  BY AppendFacts, Zenon
<1> HIDE DEF t
<1>3. CASE Len(q) < cap
  <2>1. r = t  BY <1>3 DEF Remember, t
  <2> HIDE DEF r
  <2>2. /\ IsSeq(r) /\ Len(r) <= cap /\ Len(r) \in Nat \ {0} /\ r[Len(r)] = p
        /\ Len(r) = Len(q) + 1 /\ \A k \in 1..Len(q) : r[k] = q[k]
    BY <1>1, <1>2, <1>3, <2>1
  <2> QED  BY <2>2 DEF r
<1>4. CASE ~(Len(q) < cap)
  <2>1. r = Tail(t)  BY <1>4 DEF Remember, t
  <2>2. Len(q) = cap /\ Len(t) # 0  BY <1>1, <1>2, <1>4
  <2> HIDE DEF r
  <2>3. /\ IsSeq(r) /\ Len(r) = Len(t) - 1
        /\ \A i \in 1..(Len(t) - 1) : r[i] = t[i + 1]
    BY <1>2, <2>1, <2>2, TailFacts, Zenon
  <2>4. Len(r) = cap /\ r[cap] = p  BY <1>2, <2>2, <2>3
  <2>5. ASSUME NEW k \in 2..cap PROVE r[k - 1] = q[k]
    <3>1. k - 1 \in 1..(Len(t) - 1) /\ (k - 1) + 1 = k /\ k \in 1..Len(q)  BY <1>2, <2>2
    <3> QED  BY <1>2, <2>3, <3>1
  <2> QED  BY <2>2, <2>3, <2>4, <2>5 DEF r
<1> QED  BY <1>3, <1>4

\* A delivery that is remembered, and one that is not of these origins.
LEMMA RecallsRemembered ==
  ASSUME NEW l, IsSeq(l), NEW q, IsSeq(q), NEW cap \in Nat \ {0}, Len(q) <= cap,
         NEW from, Recalls(l, q, cap, from), NEW p, NEW o
  PROVE  Recalls(Append(l, Delivery(p, o)), Remember(q, p, cap), cap, from)
<1> DEFINE m == Append(l, Delivery(p, o))
           r == Remember(q, p, cap)
<1>1. Len(l) \in Nat /\ DOMAIN l = 1..Len(l) /\ Len(q) \in Nat /\ DOMAIN q = 1..Len(q)
  BY SeqFacts
<1>2. /\ IsSeq(m) /\ Len(m) = Len(l) + 1
      /\ \A i \in 1..Len(l) : m[i] = l[i]
      /\ m[Len(l) + 1] = Delivery(p, o)
  BY AppendFacts, Zenon
<1>3. /\ IsSeq(r) /\ Len(r) <= cap /\ Len(r) \in Nat \ {0} /\ r[Len(r)] = p
      /\ \/ Len(r) = Len(q) + 1 /\ \A k \in 1..Len(q) : r[k] = q[k]
         \/ Len(q) = cap /\ Len(r) = cap /\ \A k \in 2..cap : r[k - 1] = q[k]
  <2> HIDE DEF m
  <2> QED  BY RememberFacts
<1>4. DOMAIN m = 1..Len(m) /\ DOMAIN r = 1..Len(r)  BY <1>2, <1>3, SeqFacts
<1>5. Delivery(p, o).id = p  BY DEF Delivery
<1> HIDE DEF m, r
<1>6. SUFFICES ASSUME NEW i \in DOMAIN m, m[i].origin \in from, ~(Len(m) - i >= cap)
               PROVE  \E k \in DOMAIN r : r[k] = m[i].id /\ Len(r) - k <= Len(m) - i
  BY Zenon DEF Recalls, m, r
<1>7. CASE i = Len(m)
  <2>0. i = Len(l) + 1 /\ Len(m) = i /\ i \in Nat  BY <1>1, <1>2, <1>7
  <2>1. m[i].id = p
    <3>1. m[i] = Delivery(p, o)  BY <1>2, <2>0
    <3> QED  BY <1>5, <3>1, Zenon
  <2>2. Len(r) \in DOMAIN r
    <3>1. Len(r) \in Nat \ {0}  BY <1>3, Zenon
    <3>2. Len(r) \in 1..Len(r)  BY <3>1
    <3> QED  BY <1>4, <3>2, Zenon
  <2>3. Len(r) - Len(r) <= Len(m) - i  BY <1>3, <2>0
  <2> QED  BY <1>3, <2>1, <2>2, <2>3, Zenon
<1>8. CASE i # Len(m)
  <2>1. i \in DOMAIN l /\ m[i] = l[i] /\ i \in Nat  BY <1>1, <1>2, <1>4, <1>8
  <2>2. ~(Len(l) - i >= cap)  BY <1>1, <1>2, <1>6, <2>1
  <2>3. PICK k \in DOMAIN q : q[k] = l[i].id /\ Len(q) - k <= Len(l) - i
    BY <1>6, <2>1, <2>2, Zenon DEF Recalls
  <2>4. k \in 1..Len(q) /\ k \in Nat  BY <1>1
  <2>5. CASE Len(r) = Len(q) + 1 /\ \A j \in 1..Len(q) : r[j] = q[j]
    <3>1. k \in DOMAIN r /\ r[k] = m[i].id /\ Len(r) - k <= Len(m) - i
      BY <1>1, <1>2, <1>4, <2>1, <2>3, <2>4, <2>5
    <3> QED  BY <3>1, Zenon
  <2>6. CASE Len(q) = cap /\ Len(r) = cap /\ \A j \in 2..cap : r[j - 1] = q[j]
    <3>1. k # 1  BY <1>1, <1>2, <1>6, <2>1, <2>3, <2>6
    <3>2. k \in 2..cap /\ k - 1 \in DOMAIN r  BY <1>4, <2>4, <2>6, <3>1
    <3>3. r[k - 1] = m[i].id  BY <2>1, <2>3, <2>6, <3>2
    <3>4. Len(r) - (k - 1) <= Len(m) - i  BY <1>1, <1>2, <2>1, <2>3, <2>4, <2>6
    <3> QED  BY <3>2, <3>3, <3>4, Zenon
  <2> QED  BY <1>3, <2>5, <2>6, Zenon
<1> QED  BY <1>7, <1>8

LEMMA RecallsOther ==
  ASSUME NEW l, IsSeq(l), NEW q, IsSeq(q), NEW cap \in Nat \ {0},
         NEW from, Recalls(l, q, cap, from), NEW p, NEW o, o \notin from
  PROVE  Recalls(Append(l, Delivery(p, o)), q, cap, from)
<1> DEFINE m == Append(l, Delivery(p, o))
<1>1. Len(l) \in Nat /\ DOMAIN l = 1..Len(l) /\ Len(q) \in Nat /\ DOMAIN q = 1..Len(q)
  BY SeqFacts
<1>2. /\ IsSeq(m) /\ Len(m) = Len(l) + 1
      /\ \A i \in 1..Len(l) : m[i] = l[i]
      /\ m[Len(l) + 1] = Delivery(p, o)
  BY AppendFacts, Zenon
<1>3. DOMAIN m = 1..Len(m)  BY <1>2, SeqFacts
<1>4. Delivery(p, o).origin = o  BY DEF Delivery
<1> HIDE DEF m
<1>5. SUFFICES ASSUME NEW i \in DOMAIN m, m[i].origin \in from, ~(Len(m) - i >= cap)
               PROVE  \E k \in DOMAIN q : q[k] = m[i].id /\ Len(q) - k <= Len(m) - i
  BY Zenon DEF Recalls, m
<1>6. i # Len(m)  BY <1>2, <1>4, <1>5
<1>7. i \in DOMAIN l /\ m[i] = l[i] /\ i \in Nat  BY <1>1, <1>2, <1>3, <1>6
<1>8. ~(Len(l) - i >= cap)  BY <1>1, <1>2, <1>5, <1>7
<1>9. PICK k \in DOMAIN q : q[k] = l[i].id /\ Len(q) - k <= Len(l) - i
  BY <1>5, <1>7, <1>8, Zenon DEF Recalls
<1>10. Len(q) - k <= Len(m) - i  BY <1>1, <1>2, <1>7, <1>9
<1> QED  BY <1>7, <1>9, <1>10, Zenon

\* What the memory does not know has turned over.
LEMMA Forgotten ==
  ASSUME NEW l, IsSeq(l), NEW q, IsSeq(q), NEW cap \in Nat \ {0},
         NEW from, Recalls(l, q, cap, from),
         NEW i \in DOMAIN l, l[i].origin \in from, ~Knows(q, l[i].id)
  PROVE  Len(l) + 1 - i > cap
<1>1. Len(l) \in Nat /\ DOMAIN l = 1..Len(l) /\ Len(q) \in Nat /\ DOMAIN q = 1..Len(q)
  BY SeqFacts
<1>2. ~(\E k \in DOMAIN q : q[k] = l[i].id)  BY <1>1, Zenon DEF Knows
<1>3. Len(l) - i >= cap  BY <1>2, Zenon DEF Recalls
<1> QED  BY <1>1, <1>3

\* A delivery whose every earlier copy is explained.
LEMMA ExplainedAppend ==
  ASSUME IsSeq(log), CopiesExplained, NEW p, NEW o, log' = Append(log, Delivery(p, o)),
         \A i \in DOMAIN log : log[i].id = p =>
           \/ o = "rest" /\ Len(log) + 1 - i > RingCap
           \/ o = "ws" /\ log[i].origin = "rest"
           \/ o = "ws" /\ log[i].origin = "ws" /\ Len(log) + 1 - i > SeenCap
  PROVE  CopiesExplained'
<1>1. Len(log) \in Nat /\ DOMAIN log = 1..Len(log)  BY SeqFacts
<1>2. /\ Len(log') = Len(log) + 1
      /\ \A i \in 1..Len(log) : log'[i] = log[i]
      /\ log'[Len(log) + 1] = Delivery(p, o)
  BY AppendFacts
<1>3. Delivery(p, o).id = p /\ Delivery(p, o).origin = o  BY DEF Delivery
<1>4. SUFFICES ASSUME NEW j \in 1..Len(log'), NEW i \in 1..(j - 1), log'[i].id = log'[j].id
               PROVE  \/ log'[j].origin = "rest" /\ j - i > RingCap
                      \/ log'[j].origin = "ws" /\ log'[i].origin = "rest"
                      \/ log'[j].origin = "ws" /\ log'[i].origin = "ws" /\ j - i > SeenCap
  BY Zenon DEF CopiesExplained
<1>5. CASE j = Len(log) + 1
  <2>1. i \in DOMAIN log /\ log'[i] = log[i]  BY <1>1, <1>2, <1>5
  <2>2. log'[j].id = p /\ log'[j].origin = o  BY <1>2, <1>3, <1>5
  <2> QED  BY <1>4, <1>5, <2>1, <2>2
<1>6. CASE j # Len(log) + 1
  <2>1. j \in 1..Len(log) /\ i \in 1..Len(log)  BY <1>1, <1>2, <1>6
  <2>2. log'[j] = log[j] /\ log'[i] = log[i]  BY <1>2, <2>1
  <2> QED  BY <1>4, <2>1, <2>2, Zenon DEF CopiesExplained
<1> QED  BY <1>5, <1>6

\* What the synchronizer was given, and what is remembered of it, only these write.
LEMMA MemoryWriters ==
  [Next]_vars => \/ UNCHANGED <<venue, log, ring, seen, anchor>>
                 \/ LiveTrade \/ RecoveredTrade
BY Zenon DEF Next, vars, stream, memory, Printed, Missed, Dropped, with_trade_seq_carry,
  Confirm, RuntimeEnded, Pause, Resume, Stop, WakeTriggered, WakeSwept, Fetched, FetchFailed,
  SendRecovered, TaskEnds

\* Only a venue with a fetcher has a task that fetches and recovered prints.
LEMMA FetcherStep ==
  ASSUME [Next]_vars, (rec # <<>> \/ task.at \in {"fetch", "send"}) => reconcile_active
  PROVE  /\ venue' = venue
         /\ ((rec # <<>> \/ task.at \in {"fetch", "send"}) => reconcile_active)'
<1>1. venue' = venue
  BY Zenon DEF Next, vars, Printed, Missed, Dropped, with_trade_seq_carry,
    Confirm, LiveTrade, RecoveredTrade, RuntimeEnded, Pause, Resume, Stop, WakeTriggered,
    WakeSwept, Fetched, FetchFailed, SendRecovered, TaskEnds
<1>2. reconcile_active' = reconcile_active  BY <1>1 DEF reconcile_active
<1>3. \/ UNCHANGED <<rec, task>>
      \/ Stop \/ RecoveredTrade
      \/ WakeTriggered \/ WakeSwept \/ Fetched \/ FetchFailed \/ SendRecovered \/ TaskEnds
  BY Zenon DEF Next, vars, repair, Printed, Missed, Dropped, with_trade_seq_carry,
    Confirm, LiveTrade, RuntimeEnded, Pause, Resume
<1>4. CASE UNCHANGED <<rec, task>>  BY <1>1, <1>2, <1>4
<1>5. CASE Stop
  <2>1. rec' = <<>> /\ task' = task  BY <1>5, Zenon DEF Stop
  <2> QED  BY <1>1, <1>2, <2>1
<1>6. CASE RecoveredTrade
  <2>1. rec # <<>> /\ task' = task  BY <1>6, Zenon DEF RecoveredTrade
  <2> QED  BY <1>1, <1>2, <2>1
<1>7. CASE WakeTriggered \/ WakeSwept
  <2>1. reconcile_active  BY <1>7, Zenon DEF WakeTriggered, WakeSwept
  <2> QED  BY <1>1, <1>2, <2>1
<1>8. CASE Fetched \/ FetchFailed \/ SendRecovered
  <2>1. task.at \in {"fetch", "send"}  BY <1>8 DEF Fetched, FetchFailed, SendRecovered
  <2> QED  BY <1>1, <1>2, <2>1
<1>9. CASE TaskEnds
  <2>1. task' = [Idle EXCEPT !.at = "ended"] /\ rec' = rec  BY <1>9, Zenon DEF TaskEnds
  <2>2. task'.at = "ended"  BY <2>1 DEF Idle
  <2> QED  BY <1>1, <1>2, <2>1, <2>2
<1> QED  BY <1>1, <1>3, <1>4, <1>5, <1>6, <1>7, <1>8, <1>9, Zenon

\* A delivery that enters the ring of a venue with a fetcher, and seen_trade_ids of one
\* that repeats prints when it is live.
LEMMA Delivers ==
  ASSUME Memories, UNCHANGED venue, NEW p, NEW o \in {"ws", "rest"},
         log' = Append(log, Delivery(p, o)),
         ring' = IF reconcile_active THEN Remember(ring, p, RingCap) ELSE ring,
         o = "ws" => seen' = IF venue.dedups THEN Remember(seen, p, SeenCap) ELSE seen,
         o = "rest" => seen' = seen,
         ((rec # <<>> \/ task.at \in {"fetch", "send"}) => reconcile_active)'
  PROVE  Memories'
<1>0. RingCap \in Nat \ {0} /\ SeenCap \in Nat \ {0}  BY ReconcileAssumption
<1>1. /\ IsSeq(log) /\ IsSeq(ring) /\ IsSeq(seen)
      /\ Len(ring) <= RingCap /\ Len(seen) <= SeenCap
  BY Zenon DEF Memories
<1>2. reconcile_active' = reconcile_active  BY DEF reconcile_active
<1>3. IsSeq(log') /\ \A i \in DOMAIN log' : log'[i].origin \in {"ws", "rest"}
  <2>1. /\ IsSeq(log') /\ Len(log') = Len(log) + 1
        /\ \A i \in 1..Len(log) : log'[i] = log[i]
        /\ log'[Len(log) + 1] = Delivery(p, o)
    BY <1>1, AppendFacts
  <2>2. DOMAIN log' = 1..Len(log') /\ DOMAIN log = 1..Len(log) /\ Len(log) \in Nat
    BY <1>1, <2>1, SeqFacts
  <2>3. Delivery(p, o).origin = o  BY DEF Delivery
  <2>4. ASSUME NEW i \in DOMAIN log' PROVE log'[i].origin \in {"ws", "rest"}
    <3>1. CASE i = Len(log) + 1  BY <2>1, <2>3, <3>1
    <3>2. CASE i # Len(log) + 1
      <4>1. i \in DOMAIN log /\ log'[i] = log[i]  BY <2>1, <2>2, <3>2
      <4> QED  BY <4>1, Zenon DEF Memories
    <3> QED  BY <3>1, <3>2
  <2> QED  BY <2>1, <2>4
<1>4. IsSeq(ring') /\ Len(ring') <= RingCap
  <2>1. CASE reconcile_active
    <3>1. ring' = Remember(ring, p, RingCap)  BY <2>1
    <3> QED  BY <1>0, <1>1, <3>1, RememberFacts
  <2>2. CASE ~reconcile_active  BY <1>1, <2>2
  <2> QED  BY <2>1, <2>2
<1>5. IsSeq(seen') /\ Len(seen') <= SeenCap
  <2>1. CASE venue.dedups /\ o = "ws"
    <3>1. seen' = Remember(seen, p, SeenCap)  BY <2>1
    <3> QED  BY <1>0, <1>1, <3>1, RememberFacts
  <2>2. CASE ~(venue.dedups /\ o = "ws")  BY <1>1, <2>2
  <2> QED  BY <2>1, <2>2
<1>6. ASSUME reconcile_active PROVE Recalls(log', ring', RingCap, {"ws", "rest"})
  <2>1. ring' = Remember(ring, p, RingCap)  BY <1>6
  <2>2. Recalls(log, ring, RingCap, {"ws", "rest"})  BY <1>6, Zenon DEF Memories
  <2>3. Recalls(Append(log, Delivery(p, o)), Remember(ring, p, RingCap), RingCap, {"ws", "rest"})
    BY <1>0, <1>1, <2>2, RecallsRemembered, Zenon
  <2> QED  BY <2>1, <2>3, Zenon
<1>7. ASSUME venue.dedups PROVE Recalls(log', seen', SeenCap, {"ws"})
  <2>1. Recalls(log, seen, SeenCap, {"ws"})  BY <1>7, Zenon DEF Memories
  <2>2. CASE o = "ws"
    <3>1. seen' = Remember(seen, p, SeenCap)  BY <1>7, <2>2
    <3>2. Recalls(Append(log, Delivery(p, o)), Remember(seen, p, SeenCap), SeenCap, {"ws"})
      BY <1>0, <1>1, <2>1, RecallsRemembered, Zenon
    <3> QED  BY <3>1, <3>2, Zenon
  <2>3. CASE o # "ws"
    <3>1. seen' = seen /\ o \notin {"ws"}  BY <2>3
    <3>2. Recalls(Append(log, Delivery(p, o)), seen, SeenCap, {"ws"})
      BY <1>0, <1>1, <2>1, <3>1, RecallsOther, Zenon
    <3> QED  BY <3>1, <3>2, Zenon
  <2> QED  BY <2>2, <2>3
<1> QED  BY <1>2, <1>3, <1>4, <1>5, <1>6, <1>7, Zenon DEF Memories

LEMMA LastAppended ==
  ASSUME NEW s, IsSeq(s), NEW e, NEW i \in DOMAIN Append(s, e)
  PROVE  (i \in DOMAIN s /\ Append(s, e)[i] = s[i]) \/ Append(s, e)[i] = e
<1>1. Len(s) \in Nat /\ DOMAIN s = 1..Len(s)  BY SeqFacts
<1>2. /\ IsSeq(Append(s, e)) /\ Len(Append(s, e)) = Len(s) + 1
      /\ \A k \in 1..Len(s) : Append(s, e)[k] = s[k]
      /\ Append(s, e)[Len(s) + 1] = e
  BY AppendFacts, Zenon
<1>3. DOMAIN Append(s, e) = 1..(Len(s) + 1)  BY <1>2, SeqFacts
<1>4. i \in 1..Len(s) \/ i = Len(s) + 1  BY <1>1, <1>3
<1> QED  BY <1>1, <1>2, <1>4, Zenon

\* The two handlers, each as a delivery or none.
LEMMA LiveFacts ==
  ASSUME LiveTrade
  PROVE  /\ wire # <<>> /\ wire' = Tail(wire)
         /\ UNCHANGED <<venue, head, conn, rec, task, skipped>>
         /\ \/ UNCHANGED <<anchor, ring, seen, log>>
            \/ /\ ~(venue.dedups /\ Knows(seen, wire[1]))
               /\ seen' = IF venue.dedups THEN Remember(seen, wire[1], SeenCap) ELSE seen
               /\ anchor' = IF reconcile_active THEN wire[1] ELSE anchor
               /\ ring' = IF reconcile_active THEN Remember(ring, wire[1], RingCap) ELSE ring
               /\ log' = Append(log, Delivery(wire[1], "ws"))
BY Zenon DEF LiveTrade, memory, repair

LEMMA RecoveredFacts ==
  ASSUME RecoveredTrade
  PROVE  /\ rec # <<>> /\ rec' = Tail(rec)
         /\ UNCHANGED <<venue, head, conn, wire, task, seen>>
         /\ \/ skipped' = skipped \union {rec[1]} /\ UNCHANGED <<anchor, ring, log>>
            \/ Knows(ring, rec[1]) /\ UNCHANGED <<anchor, ring, log, skipped>>
            \/ /\ ~Knows(ring, rec[1])
               /\ ring' = Remember(ring, rec[1], RingCap)
               /\ anchor' = IF rec[1] > anchor THEN rec[1] ELSE anchor
               /\ log' = Append(log, Delivery(rec[1], "rest"))
               /\ UNCHANGED skipped
BY Zenon DEF RecoveredTrade, memory, stream

LEMMA MemoriesStep == Memories /\ [Next]_vars => Memories'
<1> SUFFICES ASSUME Memories, [Next]_vars PROVE Memories'  OBVIOUS
<1>1. (rec # <<>> \/ task.at \in {"fetch", "send"}) => reconcile_active
  BY Zenon DEF Memories
<1>2. /\ venue' = venue
      /\ ((rec # <<>> \/ task.at \in {"fetch", "send"}) => reconcile_active)'
  BY <1>1, FetcherStep
<1>3. CASE UNCHANGED <<log, ring, seen>>
  <2>1. reconcile_active' = reconcile_active  BY <1>2 DEF reconcile_active
  <2> QED  BY <1>2, <1>3, <2>1, Zenon DEF Memories
<1>4. CASE LiveTrade
  <2>1. CASE /\ log' = Append(log, Delivery(wire[1], "ws"))
             /\ seen' = IF venue.dedups THEN Remember(seen, wire[1], SeenCap) ELSE seen
             /\ ring' = IF reconcile_active THEN Remember(ring, wire[1], RingCap) ELSE ring
    <3>1. "ws" \in {"ws", "rest"} /\ "ws" # "rest"  OBVIOUS
    <3> QED  BY <1>2, <2>1, <3>1, Delivers, Zenon
  <2> QED  BY <1>3, <1>4, <2>1, LiveFacts, Zenon
<1>5. CASE RecoveredTrade
  <2>1. reconcile_active /\ seen' = seen  BY <1>1, <1>5, RecoveredFacts, Zenon
  <2>2. CASE log' = Append(log, Delivery(rec[1], "rest"))
             /\ ring' = Remember(ring, rec[1], RingCap)
    <3>1. "rest" \in {"ws", "rest"} /\ "rest" # "ws"  OBVIOUS
    <3>2. ring' = IF reconcile_active THEN Remember(ring, rec[1], RingCap) ELSE ring
      BY <2>1, <2>2, Zenon
    <3> QED  BY <1>2, <2>1, <2>2, <3>1, <3>2, Delivers, Zenon
  <2> QED  BY <1>3, <1>5, <2>1, <2>2, RecoveredFacts, Zenon
<1> QED  BY <1>3, <1>4, <1>5, MemoryWriters, Zenon

LEMMA WireFacts ==
  ASSUME NEW w \in Seq(Nat), w # <<>>
  PROVE  /\ 1 \in DOMAIN w /\ w[1] \in Nat /\ Tail(w) \in Seq(Nat)
         /\ \A j \in DOMAIN Tail(w) : j + 1 \in DOMAIN w /\ Tail(w)[j] = w[j + 1]
OBVIOUS

LEMMA AscendingStep ==
  ASSUME Memories, venue.replays = 0, Ascending, [Next]_vars
  PROVE  Ascending'
<1>0. /\ head \in Nat /\ wire \in Seq(Nat)
      /\ \A i \in DOMAIN wire : wire[i] <= head
      /\ \A i, j \in DOMAIN wire : i < j => wire[i] < wire[j]
      /\ \A i \in DOMAIN log : log[i].origin = "ws" =>
           /\ log[i].id \in Nat /\ log[i].id <= head
           /\ \A j \in DOMAIN wire : log[i].id < wire[j]
  BY Zenon DEF Ascending
<1>1. \/ UNCHANGED <<head, wire, log>>
      \/ Printed \/ Missed \/ with_trade_seq_carry \/ LiveTrade \/ RecoveredTrade \/ Stop
  BY Zenon DEF Next, vars, stream, Dropped, Confirm, RuntimeEnded, Pause, Resume,
    WakeTriggered, WakeSwept, Fetched, FetchFailed, SendRecovered, TaskEnds
<1>2. CASE UNCHANGED <<head, wire, log>>  BY <1>2, Zenon DEF Ascending
<1>3. CASE Printed
  <2>1. head' = head + 1 /\ wire' = Append(wire, head + 1) /\ log' = log
    BY <1>3 DEF Printed, Forward
  <2>2. /\ wire' \in Seq(Nat) /\ Len(wire') = Len(wire) + 1 /\ Len(wire) \in Nat
        /\ DOMAIN wire = 1..Len(wire) /\ DOMAIN wire' = 1..Len(wire')
        /\ \A i \in DOMAIN wire : wire'[i] = wire[i]
        /\ wire'[Len(wire) + 1] = head + 1
    BY <1>0, <2>1
  <2>3. \A i \in DOMAIN wire' : \/ i \in DOMAIN wire /\ wire'[i] = wire[i]
                                \/ i = Len(wire) + 1 /\ wire'[i] = head + 1
    BY <2>2
  <2>4. head' \in Nat /\ \A i \in DOMAIN wire' : wire'[i] <= head'
    BY <1>0, <2>1, <2>3
  <2>5. ASSUME NEW i \in DOMAIN wire', NEW j \in DOMAIN wire', i < j
        PROVE  wire'[i] < wire'[j]
    <3>1. i \in DOMAIN wire /\ wire'[i] = wire[i]  BY <2>2, <2>5
    <3>2. CASE j \in DOMAIN wire /\ wire'[j] = wire[j]  BY <1>0, <2>5, <3>1, <3>2, Zenon
    <3>3. CASE wire'[j] = head + 1  BY <1>0, <3>1, <3>3
    <3> QED  BY <2>3, <3>2, <3>3, Zenon
  <2>6. ASSUME NEW i \in DOMAIN log', log'[i].origin = "ws"
        PROVE  /\ log'[i].id \in Nat /\ log'[i].id <= head'
               /\ \A j \in DOMAIN wire' : log'[i].id < wire'[j]
    <3>1. log[i].id \in Nat /\ log[i].id <= head /\ \A j \in DOMAIN wire : log[i].id < wire[j]
      BY <1>0, <2>1, <2>6, Zenon
    <3>2. log[i].id <= head + 1 /\ log[i].id < head + 1  BY <1>0, <3>1
    <3> QED  BY <2>1, <2>3, <3>1, <3>2, Zenon
  <2> QED  BY <2>2, <2>4, <2>5, <2>6, Zenon DEF Ascending
<1>4. CASE Missed
  <2>1. head' = head + 1 /\ UNCHANGED <<wire, log>>  BY <1>4 DEF Missed, stream
  <2>2. \A x \in Nat : x <= head => x <= head'  BY <1>0, <2>1
  <2>3. \A i \in DOMAIN wire : wire[i] \in Nat  BY <1>0
  <2>4. head' \in Nat  BY <1>0, <2>1
  <2> QED  BY <1>0, <2>1, <2>2, <2>3, <2>4, Zenon DEF Ascending
<1>5. CASE with_trade_seq_carry \/ Stop
  <2>1. wire' = <<>> /\ UNCHANGED <<head, log>>
    <3>1. CASE with_trade_seq_carry
      <4>1. wire' = Replayed /\ UNCHANGED <<head, log>>
        BY <3>1, Zenon DEF with_trade_seq_carry
      <4>2. ~(head < venue.replays)  BY <1>0
      <4>3. Replayed = [i \in 1..0 |-> head - venue.replays + i]
        BY <4>2 DEF Replayed
      <4>4. Replayed = <<>>  BY <4>3
      <4> QED  BY <4>1, <4>4
    <3>2. CASE Stop  BY <3>2, Zenon DEF Stop
    <3> QED  BY <1>5, <3>1, <3>2
  <2>2. wire' \in Seq(Nat) /\ DOMAIN wire' = {}  BY <2>1
  <2> QED  BY <1>0, <2>1, <2>2, Zenon DEF Ascending
<1>6. CASE LiveTrade
  <2>1. wire # <<>> /\ wire' = Tail(wire) /\ head' = head  BY <1>6, LiveFacts, Zenon
  <2>2. /\ 1 \in DOMAIN wire /\ wire[1] \in Nat /\ wire' \in Seq(Nat)
        /\ \A j \in DOMAIN wire' : j + 1 \in DOMAIN wire /\ wire'[j] = wire[j + 1]
    BY <1>0, <2>1, WireFacts
  <2>3. \A i, j \in DOMAIN wire' : i < j => i + 1 < j + 1
    <3>1. DOMAIN wire' = 1..Len(wire') /\ Len(wire') \in Nat  BY <2>2
    <3> QED  BY <3>1
  <2>4. \A j \in DOMAIN wire' : wire[1] < wire'[j]
    <3>1. \A j \in DOMAIN wire' : 1 < j + 1
      <4>1. DOMAIN wire' = 1..Len(wire') /\ Len(wire') \in Nat  BY <2>2
      <4> QED  BY <4>1
    <3> QED  BY <1>0, <2>2, <3>1, Zenon
  <2>5. \A i, j \in DOMAIN wire' : i < j => wire'[i] < wire'[j]
    BY <1>0, <2>2, <2>3, Zenon
  <2>6. \A i \in DOMAIN wire' : wire'[i] <= head'  BY <1>0, <2>1, <2>2, Zenon
  <2>7. ASSUME NEW i \in DOMAIN log', log'[i].origin = "ws"
        PROVE  /\ log'[i].id \in Nat /\ log'[i].id <= head'
               /\ \A j \in DOMAIN wire' : log'[i].id < wire'[j]
    <3>1. CASE i \in DOMAIN log /\ log'[i] = log[i]
      BY <1>0, <2>1, <2>2, <2>7, <3>1, Zenon
    <3>2. CASE log'[i] = Delivery(wire[1], "ws")
      <4>1. log'[i].id = wire[1]  BY <3>2 DEF Delivery
      <4> QED  BY <1>0, <2>1, <2>2, <2>4, <4>1, Zenon
    <3>3. CASE log' = log  BY <2>7, <3>1, <3>3
    <3>4. CASE log' = Append(log, Delivery(wire[1], "ws"))
      <4>1. IsSeq(log)  BY Zenon DEF Memories
      <4>2. \/ i \in DOMAIN log /\ log'[i] = log[i]
            \/ log'[i] = Delivery(wire[1], "ws")
        BY <2>7, <3>4, <4>1, LastAppended
      <4> QED  BY <3>1, <3>2, <4>2
    <3> QED  BY <1>6, <3>3, <3>4, LiveFacts, Zenon
  <2> QED  BY <1>0, <2>1, <2>2, <2>5, <2>6, <2>7, Zenon DEF Ascending
<1>7. CASE RecoveredTrade
  <2>1. wire' = wire /\ head' = head  BY <1>7, RecoveredFacts, Zenon
  <2>2. ASSUME NEW i \in DOMAIN log', log'[i].origin = "ws"
        PROVE  i \in DOMAIN log /\ log'[i] = log[i]
    <3>1. CASE log' = log  BY <2>2, <3>1
    <3>2. CASE log' = Append(log, Delivery(rec[1], "rest"))
      <4>1. IsSeq(log)  BY Zenon DEF Memories
      <4>2. \/ i \in DOMAIN log /\ log'[i] = log[i]
            \/ log'[i] = Delivery(rec[1], "rest")
        BY <2>2, <3>2, <4>1, LastAppended
      <4>3. Delivery(rec[1], "rest").origin # "ws"  BY DEF Delivery
      <4> QED  BY <2>2, <4>2, <4>3
    <3> QED  BY <1>7, <3>1, <3>2, RecoveredFacts, Zenon
  <2> QED  BY <1>0, <2>1, <2>2, Zenon DEF Ascending
<1> QED  BY <1>1, <1>2, <1>3, <1>4, <1>5, <1>6, <1>7, Zenon

LEMMA CopiesStep ==
  ASSUME Memories, venue.replays = 0 => Ascending, CopiesExplained, [Next]_vars
  PROVE  CopiesExplained'
<1>0. RingCap \in Nat \ {0} /\ SeenCap \in Nat \ {0}  BY ReconcileAssumption
<1>1. /\ venue \in Venues /\ IsSeq(log) /\ IsSeq(ring) /\ IsSeq(seen)
      /\ \A i \in DOMAIN log : log[i].origin \in {"ws", "rest"}
      /\ rec # <<>> => reconcile_active
      /\ reconcile_active => Recalls(log, ring, RingCap, {"ws", "rest"})
      /\ venue.dedups => Recalls(log, seen, SeenCap, {"ws"})
  BY Zenon DEF Memories
<1>2. CASE UNCHANGED log  BY <1>2, Zenon DEF CopiesExplained
<1>3. CASE LiveTrade
  <2>1. CASE /\ ~(venue.dedups /\ Knows(seen, wire[1]))
             /\ log' = Append(log, Delivery(wire[1], "ws"))
    <3>1. ASSUME NEW i \in DOMAIN log, log[i].id = wire[1], log[i].origin = "ws"
          PROVE  Len(log) + 1 - i > SeenCap
      <4>1. CASE venue.dedups
        <5>1. log[i].origin \in {"ws"}  BY <3>1
        <5>2. ~Knows(seen, log[i].id)  BY <2>1, <3>1, <4>1, Zenon
        <5> QED  BY <1>0, <1>1, <4>1, <5>1, <5>2, Forgotten, Zenon
      <4>2. CASE ~venue.dedups
        <5>1. venue.replays = 0
          <6>1. venue.replays \in Nat /\ ~(venue.replays > 0)  BY <1>1, <4>2, ReconcileAssumption
          <6> QED  BY <6>1
        <5>2. wire \in Seq(Nat) /\ wire # <<>>
          BY <1>3, <5>1, LiveFacts, Zenon DEF Ascending
        <5>3. 1 \in DOMAIN wire /\ wire[1] \in Nat  BY <5>2
        <5>4. log[i].id < wire[1]  BY <3>1, <5>1, <5>3, Zenon DEF Ascending
        <5> QED  BY <3>1, <5>3, <5>4
      <4> QED  BY <4>1, <4>2
    <3>2. \A i \in DOMAIN log : log[i].id = wire[1] =>
            \/ "ws" = "rest" /\ Len(log) + 1 - i > RingCap
            \/ "ws" = "ws" /\ log[i].origin = "rest"
            \/ "ws" = "ws" /\ log[i].origin = "ws" /\ Len(log) + 1 - i > SeenCap
      BY <1>1, <3>1
    <3> QED  BY <1>1, <2>1, <3>2, ExplainedAppend
  <2> QED  BY <1>2, <1>3, <2>1, LiveFacts, Zenon
<1>4. CASE RecoveredTrade
  <2>1. CASE /\ ~Knows(ring, rec[1])
             /\ log' = Append(log, Delivery(rec[1], "rest"))
    <3>1. Recalls(log, ring, RingCap, {"ws", "rest"})  BY <1>1, <1>4, RecoveredFacts, Zenon
    <3>2. ASSUME NEW i \in DOMAIN log, log[i].id = rec[1]
          PROVE  Len(log) + 1 - i > RingCap
      <4>1. ~Knows(ring, log[i].id)  BY <2>1, <3>2, Zenon
      <4> QED  BY <1>0, <1>1, <3>1, <4>1, Forgotten, Zenon
    <3>3. \A i \in DOMAIN log : log[i].id = rec[1] =>
            \/ "rest" = "rest" /\ Len(log) + 1 - i > RingCap
            \/ "rest" = "ws" /\ log[i].origin = "rest"
            \/ "rest" = "ws" /\ log[i].origin = "ws" /\ Len(log) + 1 - i > SeenCap
      BY <3>2
    <3> QED  BY <1>1, <2>1, <3>3, ExplainedAppend
  <2> QED  BY <1>2, <1>4, <2>1, RecoveredFacts, Zenon
<1> QED  BY <1>2, <1>3, <1>4, MemoryWriters, Zenon

LEMMA CopiesHold == Spec => []CInv
<1>1. Init => CInv
  <2> SUFFICES ASSUME Init PROVE CInv  OBVIOUS
  <2>1. /\ log = <<>> /\ ring = <<>> /\ seen = <<>> /\ rec = <<>> /\ wire = <<>> /\ head = 0
        /\ venue \in Venues /\ task = Idle
    BY Zenon DEF Init
  <2>2. IsSeq(<<>>) /\ DOMAIN <<>> = {} /\ Len(<<>>) = 0 /\ <<>> \in Seq(Nat)
    BY DEF IsSeq
  <2>3. task.at \notin {"fetch", "send"}  BY <2>1 DEF Idle
  <2>4. 0 <= RingCap /\ 0 <= SeenCap  BY ReconcileAssumption
  <2>5. Memories
    BY <2>1, <2>2, <2>3, <2>4, Zenon DEF Memories, Recalls
  <2>6. Ascending  BY <2>1, <2>2 DEF Ascending
  <2>7. CopiesExplained  BY <2>1, <2>2 DEF CopiesExplained
  <2> QED  BY <2>5, <2>6, <2>7, Zenon DEF CInv
<1>2. CInv /\ [Next]_vars => CInv'
  <2> SUFFICES ASSUME CInv, [Next]_vars PROVE CInv'  OBVIOUS
  <2>1. Memories /\ (venue.replays = 0 => Ascending) /\ CopiesExplained  BY Zenon DEF CInv
  <2>2. venue' = venue
    <3>1. (rec # <<>> \/ task.at \in {"fetch", "send"}) => reconcile_active
      BY <2>1, Zenon DEF Memories
    <3> QED  BY <3>1, FetcherStep
  <2>3. Memories'  BY <2>1, MemoriesStep
  <2>4. venue'.replays = 0 => Ascending'  BY <2>1, <2>2, AscendingStep, Zenon
  <2>5. CopiesExplained'  BY <2>1, CopiesStep, Zenon
  <2> QED  BY <2>3, <2>4, <2>5, Zenon DEF CInv
<1> QED  BY <1>1, <1>2, PTL DEF Spec

(***************************************************************************)
(* The synchronizer is given a print twice only as a recovered copy and    *)
(* then the live one, or after the memory that would have told (recent_ids *)
(* of a recovered print, seen_trade_ids of a repeated one) has turned      *)
(* over: for every capacity of the two, every venue and every schedule of  *)
(* drops, pauses and fetches.                                              *)
(***************************************************************************)
THEOREM CopiesAreExplained == Spec => []CopiesExplained
<1>1. CInv => CopiesExplained  BY DEF CInv
<1> QED  BY <1>1, CopiesHold, PTL
-----------------------------------------------------------------------------
(* Holes.                                                                   *)

Covered == Delivered \union skipped
Queued == {rec[k] : k \in DOMAIN rec}

(* What lies between the anchor and a print on its way to it was delivered, *)
(* dropped by a pause, or is on its way before it: of a recovered print in  *)
(* the channel,                                                             *)
RecOk ==
  \A k \in DOMAIN rec : \A q \in (anchor + 1)..(rec[k] - 1) :
    q \in Covered \/ \E m \in 1..(k - 1) : rec[m] = q

(* of a live print that the anchor has already passed,                      *)
WireOk == \A i \in DOMAIN wire : \A q \in (wire[i] + 1)..anchor : q \in Covered

(* of a print the task holds, and of the position it fetches after.         *)
OutOk ==
  (conn # "stopped" /\ task.at = "send") =>
    \A p \in task.out : \A q \in (anchor + 1)..(p - 1) :
      q \in Covered \union Queued \union task.out
PosOk ==
  (conn # "stopped" /\ task.at = "fetch") =>
    \A q \in (anchor + 1)..task.pos : q \in Covered \union Queued

NoHole == RecOk /\ WireOk /\ OutOk /\ PosOk

Tasks == [at : {"wait", "fetch", "send", "ended"}, pos : Nat, out : SUBSET Nat]

Ids ==
  /\ anchor \in Nat /\ anchor <= head
  /\ rec \in Seq(Nat) /\ \A k \in DOMAIN rec : rec[k] <= head
  /\ task \in Tasks
  /\ task.at = "send" => task.out # {} /\ task.out \subseteq 1..head
  /\ \A k \in DOMAIN ring : ring[k] \in Delivered

HInv == venue.walk = "ids" => Ids /\ NoHole

\* What CInv says of a venue whose fetcher walks by id: it repeats nothing.
Walking == Memories /\ Ascending /\ venue.walk = "ids" /\ reconcile_active

LEMMA ByIdWalks ==
  ASSUME CInv, venue.walk = "ids" PROVE Walking
<1>1. Memories /\ (venue.replays = 0 => Ascending)  BY Zenon DEF CInv
<1>2. venue \in Venues  BY <1>1, Zenon DEF Memories
<1>3. venue.replays \in Nat /\ ~(venue.replays > 0)  BY <1>2, ReconcileAssumption
<1>4. venue.replays = 0  BY <1>3
<1> QED  BY <1>1, <1>4 DEF Walking, reconcile_active

\* What was covered stays covered.
LEMMA DeliveredGrows ==
  ASSUME IsSeq(log), NEW p, NEW o, log' = Append(log, Delivery(p, o))
  PROVE  Delivered \subseteq Delivered' /\ p \in Delivered'
<1>1. Len(log) \in Nat /\ DOMAIN log = 1..Len(log)  BY SeqFacts
<1>2. /\ Len(log') = Len(log) + 1
      /\ \A i \in 1..Len(log) : log'[i] = log[i]
      /\ log'[Len(log) + 1] = Delivery(p, o)
  BY AppendFacts
<1>3. Delivery(p, o).id = p  BY DEF Delivery
<1>4. \A i \in 1..Len(log) : i \in 1..Len(log')  BY <1>1, <1>2
<1>5. Len(log) + 1 \in 1..Len(log')  BY <1>1, <1>2
<1>6. Delivered \subseteq Delivered'  BY <1>2, <1>4, Zenon DEF Delivered
<1>7. p \in Delivered'  BY <1>2, <1>3, <1>5, Zenon DEF Delivered
<1> QED  BY <1>6, <1>7

LEMMA CoveredGrows ==
  ASSUME Memories, [Next]_vars PROVE Covered \subseteq Covered' /\ Delivered \subseteq Delivered'
<1>1. IsSeq(log)  BY Zenon DEF Memories
<1>2. log' = log \/ \E p, o : log' = Append(log, Delivery(p, o))
  <2>1. CASE LiveTrade  BY <2>1, LiveFacts, Zenon
  <2>2. CASE RecoveredTrade  BY <2>2, RecoveredFacts, Zenon
  <2> QED  BY <2>1, <2>2, MemoryWriters, Zenon
<1>3. Delivered \subseteq Delivered'
  <2>1. CASE log' = log  BY <2>1, Zenon DEF Delivered
  <2>2. CASE \E p, o : log' = Append(log, Delivery(p, o))  BY <1>1, <2>2, DeliveredGrows, Zenon
  <2> QED  BY <1>2, <2>1, <2>2
<1>4. skipped \subseteq skipped'
  <2>1. UNCHANGED skipped \/ RecoveredTrade
    BY Zenon DEF Next, vars, Printed, Missed, Dropped, with_trade_seq_carry, Confirm, LiveTrade,
      RuntimeEnded, Pause, Resume, Stop, WakeTriggered, WakeSwept, Fetched, FetchFailed,
      SendRecovered, TaskEnds
  <2>2. CASE RecoveredTrade  BY <2>2, RecoveredFacts, Zenon
  <2>3. CASE UNCHANGED skipped  BY <2>3
  <2> QED  BY <2>1, <2>2, <2>3
<1> QED  BY <1>3, <1>4, Zenon DEF Covered

LEMMA RememberFrom ==
  ASSUME NEW q, IsSeq(q), NEW p, NEW cap \in Nat \ {0}, Len(q) <= cap,
         NEW k \in DOMAIN Remember(q, p, cap)
  PROVE  Remember(q, p, cap)[k] = p \/ \E j \in DOMAIN q : Remember(q, p, cap)[k] = q[j]
<1> DEFINE r == Remember(q, p, cap)
<1>1. /\ IsSeq(r) /\ Len(r) \in Nat \ {0} /\ r[Len(r)] = p
      /\ \/ Len(r) = Len(q) + 1 /\ \A i \in 1..Len(q) : r[i] = q[i]
         \/ Len(q) = cap /\ Len(r) = cap /\ \A i \in 2..cap : r[i - 1] = q[i]
  BY RememberFacts
<1> HIDE DEF r
<1>2. DOMAIN r = 1..Len(r) /\ DOMAIN q = 1..Len(q) /\ Len(q) \in Nat  BY <1>1, SeqFacts
<1>3. k \in 1..Len(r) /\ k \in Nat
  <2>1. k \in DOMAIN r  BY DEF r
  <2> QED  BY <1>2, <2>1
<1>4. CASE k = Len(r)  BY <1>1, <1>4 DEF r
<1>5. CASE k # Len(r)
  <2>1. CASE Len(r) = Len(q) + 1 /\ \A i \in 1..Len(q) : r[i] = q[i]
    <3>1. k \in DOMAIN q /\ r[k] = q[k]  BY <1>2, <1>3, <1>5, <2>1
    <3> QED  BY <3>1, Zenon DEF r
  <2>2. CASE Len(q) = cap /\ Len(r) = cap /\ \A i \in 2..cap : r[i - 1] = q[i]
    <3>1. k + 1 \in 2..cap /\ (k + 1) - 1 = k /\ k + 1 \in DOMAIN q  BY <1>2, <1>3, <1>5, <2>2
    <3>2. r[k] = q[k + 1]  BY <2>2, <3>1
    <3> QED  BY <3>1, <3>2, Zenon DEF r
  <2> QED  BY <1>1, <2>1, <2>2, Zenon
<1> QED  BY <1>4, <1>5

LEMMA RingDelivered ==
  ASSUME Memories, Ids, Delivered \subseteq Delivered', NEW p, p \in Delivered',
         ring' = Remember(ring, p, RingCap)
  PROVE  \A k \in DOMAIN ring' : ring'[k] \in Delivered'
<1>1. RingCap \in Nat \ {0}  BY ReconcileAssumption
<1>2. IsSeq(ring) /\ Len(ring) <= RingCap  BY Zenon DEF Memories
<1>3. \A j \in DOMAIN ring : ring[j] \in Delivered  BY Zenon DEF Ids
<1>4. ASSUME NEW k \in DOMAIN ring' PROVE ring'[k] = p \/ \E j \in DOMAIN ring : ring'[k] = ring[j]
  BY <1>1, <1>2, <1>4, RememberFrom
<1> QED  BY <1>3, <1>4, Zenon

\* A step that leaves the repair alone: the venue's, and the connection's.
LEMMA StillNoHole ==
  ASSUME Walking, Ids, NoHole, head' \in Nat, head <= head',
         UNCHANGED <<anchor, rec, task, ring, log, skipped>>,
         conn' # "stopped" => conn # "stopped",
         \/ wire' = wire
         \/ wire' = <<>>
         \/ wire' = Append(wire, head + 1)
  PROVE  Ids' /\ NoHole'
<1>0. head \in Nat /\ wire \in Seq(Nat)  BY Zenon DEF Walking, Ascending
<1>1. Covered' = Covered /\ Delivered' = Delivered /\ Queued' = Queued
  BY Zenon DEF Covered, Delivered, Queued
<1>2. /\ anchor \in Nat /\ anchor <= head
      /\ rec \in Seq(Nat) /\ \A k \in DOMAIN rec : rec[k] <= head
      /\ task \in Tasks
      /\ task.at = "send" => task.out # {} /\ task.out \subseteq 1..head
      /\ \A k \in DOMAIN ring : ring[k] \in Delivered
  BY Zenon DEF Ids
<1>3. Ids'
  <2>1. \A x \in Nat : x <= head => x <= head'  BY <1>0
  <2>2. \A k \in DOMAIN rec : rec[k] \in Nat  BY <1>2
  <2>3. 1..head \subseteq 1..head'  BY <1>0
  <2> QED  BY <1>1, <1>2, <2>1, <2>2, <2>3, Zenon DEF Ids
<1>4. RecOk' /\ OutOk' /\ PosOk'
  BY <1>1, Zenon DEF NoHole, RecOk, OutOk, PosOk
<1>5. WireOk'
  <2>1. WireOk  BY DEF NoHole
  <2>2. CASE wire' = wire  BY <1>1, <2>1, <2>2, Zenon DEF WireOk
  <2>3. CASE wire' = <<>>
    <3>1. DOMAIN wire' = {}  BY <2>3
    <3> QED  BY <3>1, Zenon DEF WireOk
  <2>4. CASE wire' = Append(wire, head + 1)
    <3>1. ASSUME NEW i \in DOMAIN wire', NEW q \in (wire'[i] + 1)..anchor PROVE q \in Covered
      <4>1. (i \in DOMAIN wire /\ wire'[i] = wire[i]) \/ wire'[i] = head + 1
        BY <1>0, <2>4, <3>1
      <4>2. CASE wire'[i] = head + 1  BY <1>0, <1>2, <3>1, <4>2
      <4>3. CASE i \in DOMAIN wire /\ wire'[i] = wire[i]  BY <2>1, <3>1, <4>3, Zenon DEF WireOk
      <4> QED  BY <4>1, <4>2, <4>3
    <3> QED  BY <1>1, <3>1, Zenon DEF WireOk
  <2> QED  BY <2>2, <2>3, <2>4
<1> QED  BY <1>3, <1>4, <1>5, Zenon DEF NoHole

LEMMA StopNoHole ==
  ASSUME Walking, Ids, Stop PROVE Ids' /\ NoHole'
<1>1. /\ rec' = <<>> /\ wire' = <<>> /\ conn' = "stopped"
      /\ UNCHANGED <<head, anchor, ring, log, task>>
  BY Zenon DEF Stop, memory
<1>2. Delivered' = Delivered  BY <1>1, Zenon DEF Delivered
<1>3. DOMAIN rec' = {} /\ DOMAIN wire' = {} /\ rec' \in Seq(Nat)  BY <1>1
<1>4. Ids'  BY <1>1, <1>2, <1>3, Zenon DEF Ids
<1> QED  BY <1>1, <1>3, <1>4, Zenon DEF NoHole, RecOk, WireOk, OutOk, PosOk

\* A live print: the anchor may go back, over prints that are covered.
LEMMA LiveNoHole ==
  ASSUME Walking, Ids, NoHole, LiveTrade,
         Covered \subseteq Covered', Delivered \subseteq Delivered'
  PROVE  Ids' /\ NoHole'
<1>0. /\ head \in Nat /\ wire \in Seq(Nat) /\ IsSeq(log)
      /\ \A i \in DOMAIN wire : wire[i] <= head
      /\ \A i, j \in DOMAIN wire : i < j => wire[i] < wire[j]
  BY Zenon DEF Walking, Ascending, Memories
<1>1. wire # <<>> /\ wire' = Tail(wire) /\ UNCHANGED <<head, conn, rec, task, skipped>>
  BY LiveFacts, Zenon
<1>2. /\ 1 \in DOMAIN wire /\ wire[1] \in Nat /\ wire' \in Seq(Nat)
      /\ \A j \in DOMAIN wire' : j + 1 \in DOMAIN wire /\ wire'[j] = wire[j + 1]
  BY <1>0, <1>1, WireFacts
<1>3. Queued' = Queued  BY <1>1, Zenon DEF Queued
<1>4. /\ anchor \in Nat /\ anchor <= head
      /\ rec \in Seq(Nat) /\ \A k \in DOMAIN rec : rec[k] <= head
      /\ task \in Tasks
      /\ task.at = "send" => task.out # {} /\ task.out \subseteq 1..head
      /\ \A k \in DOMAIN ring : ring[k] \in Delivered
  BY Zenon DEF Ids
<1>5. RecOk /\ WireOk /\ OutOk /\ PosOk  BY DEF NoHole
<1>6. CASE UNCHANGED <<anchor, ring, seen, log>>
  <2>1. Ids'  BY <1>1, <1>4, <1>6, Zenon DEF Ids
  <2>2. RecOk'  BY <1>1, <1>5, <1>6, Zenon DEF RecOk
  <2>3. WireOk'  BY <1>2, <1>5, <1>6, Zenon DEF WireOk
  <2>4. OutOk'  BY <1>1, <1>3, <1>5, <1>6, Zenon DEF OutOk
  <2>5. PosOk'  BY <1>1, <1>3, <1>5, <1>6, Zenon DEF PosOk
  <2> QED  BY <2>1, <2>2, <2>3, <2>4, <2>5, Zenon DEF NoHole
<1>7. CASE /\ anchor' = wire[1] /\ ring' = Remember(ring, wire[1], RingCap)
           /\ log' = Append(log, Delivery(wire[1], "ws"))
  <2>1. \A q \in Int : (wire[1] < q /\ q <= anchor) => q \in Covered
    <3>1. \A q \in Int : (wire[1] < q /\ q <= anchor) => q \in (wire[1] + 1)..anchor
      BY <1>2, <1>4
    <3> QED  BY <1>2, <1>5, <3>1, Zenon DEF WireOk
  <2>2. \A top \in Int : \A q \in (anchor' + 1)..top :
          \/ q \in Covered
          \/ q \in (anchor + 1)..top
    <3> SUFFICES ASSUME NEW top \in Int, NEW q \in (anchor' + 1)..top
                 PROVE  q \in Covered \/ q \in (anchor + 1)..top
      BY Zenon
    <3>1. q \in Int /\ wire[1] < q /\ q <= top  BY <1>2, <1>7
    <3>2. CASE q <= anchor  BY <2>1, <3>1, <3>2, Zenon
    <3>3. CASE ~(q <= anchor)  BY <1>4, <3>1, <3>3
    <3> QED  BY <3>2, <3>3
  <2>3. Ids'
    <3>1. wire[1] \in Delivered'  BY <1>0, <1>7, DeliveredGrows, Zenon
    <3>2. \A k \in DOMAIN ring' : ring'[k] \in Delivered'
      BY <1>7, <3>1, RingDelivered, Zenon DEF Walking
    <3> QED  BY <1>0, <1>1, <1>2, <1>4, <1>7, <3>2, Zenon DEF Ids
  <2>4. RecOk'
    <3>1. \A k \in DOMAIN rec : rec[k] - 1 \in Int  BY <1>4
    <3> QED  BY <1>1, <1>5, <2>2, <3>1, Zenon DEF RecOk
  <2>5. WireOk'
    <3>1. \A j \in DOMAIN wire' : wire[1] < wire'[j] /\ wire'[j] \in Nat
      <4>1. \A j \in DOMAIN wire' : 1 < j + 1 /\ wire'[j] \in Nat
        <5>1. DOMAIN wire' = 1..Len(wire') /\ Len(wire') \in Nat  BY <1>2
        <5> QED  BY <1>2, <5>1
      <4> QED  BY <1>0, <1>2, <4>1, Zenon
    <3>2. \A j \in DOMAIN wire' : (wire'[j] + 1)..anchor' = {}  BY <1>2, <1>7, <3>1
    <3> QED  BY <3>2, Zenon DEF WireOk
  <2>6. OutOk'
    <3>1. \A p \in task.out : p - 1 \in Int  BY <1>4 DEF Tasks
    <3> QED  BY <1>1, <1>3, <1>5, <2>2, <3>1, Zenon DEF OutOk
  <2>7. PosOk'
    <3>1. task.pos \in Int  BY <1>4 DEF Tasks
    <3> QED  BY <1>1, <1>3, <1>5, <2>2, <3>1, Zenon DEF PosOk
  <2> QED  BY <2>3, <2>4, <2>5, <2>6, <2>7, Zenon DEF NoHole
<1> QED  BY <1>6, <1>7, LiveFacts, Zenon DEF Walking

\* A recovered print leaves the channel covered, whether it was delivered now, earlier,
\* or dropped by a pause; the anchor moves up to it or stays.
LEMMA RecoveredNoHole ==
  ASSUME Walking, Ids, NoHole, RecoveredTrade,
         Covered \subseteq Covered', Delivered \subseteq Delivered'
  PROVE  Ids' /\ NoHole' /\ rec[1] \in Covered'
         /\ (anchor' > anchor => anchor' = rec[1] /\ rec[1] \in Delivered')
<1>0. head \in Nat /\ wire \in Seq(Nat) /\ IsSeq(log) /\ IsSeq(ring)
  BY Zenon DEF Walking, Ascending, Memories
<1>1. rec # <<>> /\ rec' = Tail(rec) /\ UNCHANGED <<head, conn, wire, task>>
  BY RecoveredFacts, Zenon
<1>2. /\ anchor \in Nat /\ anchor <= head
      /\ rec \in Seq(Nat) /\ \A k \in DOMAIN rec : rec[k] <= head
      /\ task \in Tasks
      /\ task.at = "send" => task.out # {} /\ task.out \subseteq 1..head
      /\ \A k \in DOMAIN ring : ring[k] \in Delivered
  BY Zenon DEF Ids
<1>3. /\ 1 \in DOMAIN rec /\ rec[1] \in Nat /\ rec' \in Seq(Nat)
      /\ \A j \in DOMAIN rec' : j + 1 \in DOMAIN rec /\ rec'[j] = rec[j + 1]
  BY <1>1, <1>2, WireFacts
<1>4. RecOk /\ WireOk /\ OutOk /\ PosOk  BY DEF NoHole
<1>5. /\ rec[1] \in Covered'
      /\ \A k \in DOMAIN ring' : ring'[k] \in Delivered'
      /\ \/ anchor' = anchor
         \/ anchor' = rec[1] /\ rec[1] > anchor /\ rec[1] \in Delivered'
  <2>1. CASE skipped' = skipped \union {rec[1]} /\ UNCHANGED <<anchor, ring, log>>
    <3>1. rec[1] \in Covered'  BY <2>1, Zenon DEF Covered
    <3> QED  BY <1>2, <2>1, <3>1, Zenon
  <2>2. CASE Knows(ring, rec[1]) /\ UNCHANGED <<anchor, ring, log, skipped>>
    <3>1. \E k \in DOMAIN ring : ring[k] = rec[1]
      <4>1. DOMAIN ring = 1..Len(ring)  BY <1>0, SeqFacts
      <4> QED  BY <2>2, <4>1, Zenon DEF Knows
    <3>2. rec[1] \in Covered'  BY <1>2, <3>1, Zenon DEF Covered
    <3> QED  BY <1>2, <2>2, <3>2, Zenon
  <2>3. CASE /\ ring' = Remember(ring, rec[1], RingCap)
             /\ anchor' = IF rec[1] > anchor THEN rec[1] ELSE anchor
             /\ log' = Append(log, Delivery(rec[1], "rest"))
             /\ UNCHANGED skipped
    <3>1. rec[1] \in Delivered'  BY <1>0, <2>3, DeliveredGrows, Zenon
    <3>2. rec[1] \in Covered'  BY <3>1, Zenon DEF Covered
    <3>3. \A k \in DOMAIN ring' : ring'[k] \in Delivered'
      BY <2>3, <3>1, RingDelivered, Zenon DEF Walking
    <3> QED  BY <2>3, <3>1, <3>2, <3>3, Zenon
  <2> QED  BY <2>1, <2>2, <2>3, RecoveredFacts, Zenon
<1>6. anchor' \in Nat /\ anchor <= anchor' /\ anchor' <= head  BY <1>2, <1>3, <1>5
<1>7. Ids'
  <2>1. \A k \in DOMAIN rec' : rec'[k] <= head'  BY <1>1, <1>2, <1>3, Zenon
  <2> QED  BY <1>1, <1>2, <1>3, <1>5, <1>6, <2>1, Zenon DEF Ids
<1>8. \A top : (anchor' + 1)..top \subseteq (anchor + 1)..top  BY <1>2, <1>6
<1>9. Queued \subseteq Queued' \union {rec[1]}
  <2> SUFFICES ASSUME NEW k \in DOMAIN rec PROVE rec[k] \in Queued' \/ k = 1
    BY Zenon DEF Queued
  <2>1. k # 1 => k - 1 \in DOMAIN rec' /\ rec'[k - 1] = rec[k]  BY <1>1, <1>2
  <2> QED  BY <2>1, Zenon DEF Queued
<1>10. Covered \union Queued \subseteq Covered' \union Queued'  BY <1>5, <1>9, Zenon
<1>11. RecOk'
  <2> SUFFICES ASSUME NEW k \in DOMAIN rec', NEW q \in (anchor' + 1)..(rec'[k] - 1)
               PROVE  q \in Covered' \/ \E m \in 1..(k - 1) : rec'[m] = q
    BY Zenon DEF RecOk
  <2>1. k + 1 \in DOMAIN rec /\ rec'[k] = rec[k + 1]  BY <1>3
  <2>2. q \in (anchor + 1)..(rec[k + 1] - 1)  BY <1>8, <2>1, Zenon
  <2>3. q \in Covered \/ \E m \in 1..((k + 1) - 1) : rec[m] = q  BY <1>4, <2>1, <2>2, Zenon DEF RecOk
  <2>4. ASSUME NEW m \in 1..((k + 1) - 1), rec[m] = q, m # 1
        PROVE  m - 1 \in 1..(k - 1) /\ rec'[m - 1] = q
    <3>1. k \in 1..Len(rec') /\ Len(rec') = Len(rec) - 1 /\ Len(rec) \in Nat  BY <1>1, <1>2
    <3> QED  BY <1>1, <1>2, <2>4, <3>1
  <2> QED  BY <1>5, <2>3, <2>4, Zenon
<1>12. WireOk'
  <2> SUFFICES ASSUME NEW i \in DOMAIN wire, NEW q \in (wire[i] + 1)..anchor'
               PROVE  q \in Covered'
    BY <1>1, Zenon DEF WireOk
  <2>1. wire[i] \in Nat /\ q \in Int  BY <1>0, <1>6
  <2>2. CASE q <= anchor
    <3>1. q \in (wire[i] + 1)..anchor  BY <1>2, <1>6, <2>1, <2>2
    <3> QED  BY <1>4, <3>1, Zenon DEF WireOk
  <2>3. CASE ~(q <= anchor)
    <3>1. anchor' = rec[1]  BY <1>2, <1>5, <1>6, <2>1, <2>3
    <3>2. CASE q = rec[1]  BY <1>5, <3>2
    <3>3. CASE q # rec[1]
      <4>1. q \in (anchor + 1)..(rec[1] - 1) /\ 1..(1 - 1) = {}
        BY <1>2, <1>3, <2>1, <2>3, <3>1, <3>3
      <4> QED  BY <1>3, <1>4, <4>1, Zenon DEF RecOk
    <3> QED  BY <3>2, <3>3
  <2> QED  BY <2>2, <2>3
<1>13. OutOk'  BY <1>1, <1>4, <1>8, <1>10, Zenon DEF OutOk
<1>14. PosOk'  BY <1>1, <1>4, <1>8, <1>10, Zenon DEF PosOk
<1>15. anchor' > anchor => anchor' = rec[1] /\ rec[1] \in Delivered'  BY <1>2, <1>5
<1> QED  BY <1>5, <1>7, <1>11, <1>12, <1>13, <1>14, <1>15, Zenon DEF NoHole

\* A walk by id takes the oldest prints first: it skips none below one it takes.
LEMMA OldestDownClosed ==
  ASSUME NEW S \in SUBSET Nat, NEW h \in Nat, \A s \in S : s <= h,
         NEW n \in Nat, NEW p \in Oldest(S, n), NEW q \in S, q <= p
  PROVE  q \in Oldest(S, n)
<1> DEFINE A == {r \in S : r < q}
           B == {r \in S : r < p}
<1>1. p \in S /\ Cardinality(B) < n  BY DEF Oldest
<1>2. A \in SUBSET B
  <2> SUFFICES ASSUME NEW r \in S, r < q PROVE r < p  OBVIOUS
  <2>1. r \in Nat /\ p \in Nat /\ q \in Nat  BY <1>1
  <2> QED  BY <2>1
<1>3. B \in SUBSET Nat /\ \A s \in B : s <= h  OBVIOUS
<1> HIDE DEF A, B
<1>4. IsFiniteSet(B)  BY <1>3, FS_BoundedSetOfNaturals
<1>5. IsFiniteSet(A) /\ Cardinality(A) <= Cardinality(B)  BY <1>2, <1>4, FS_Subset
<1>6. Cardinality(A) \in Nat /\ Cardinality(B) \in Nat  BY <1>4, <1>5, FS_CardinalityType
<1>7. Cardinality(A) < n  BY <1>1, <1>5, <1>6
<1> QED  BY <1>7 DEF Oldest, A

\* Every step of the task but the sending, on the prints of the anchor's own time.
LEMMA TaskNoHole ==
  ASSUME Walking, Ids, NoHole, task' \in Tasks,
         UNCHANGED <<head, conn, anchor, ring, log, skipped, wire, rec>>,
         task'.at = "send" => task'.out # {} /\ task'.out \subseteq 1..head,
         (conn # "stopped" /\ task'.at = "send") =>
           \A p \in task'.out : \A q \in (anchor + 1)..(p - 1) :
             q \in Covered \union Queued \union task'.out,
         (conn # "stopped" /\ task'.at = "fetch") =>
           \A q \in (anchor + 1)..task'.pos : q \in Covered \union Queued
  PROVE  Ids' /\ NoHole'
<1>1. Covered' = Covered /\ Delivered' = Delivered /\ Queued' = Queued
  BY Zenon DEF Covered, Delivered, Queued
<1>2. Ids'  BY <1>1, Zenon DEF Ids
<1>3. RecOk' /\ WireOk'  BY <1>1, Zenon DEF NoHole, RecOk, WireOk
<1>4. OutOk' /\ PosOk'  BY <1>1, Zenon DEF OutOk, PosOk
<1> QED  BY <1>2, <1>3, <1>4, Zenon DEF NoHole

LEMMA LeastPrint ==
  ASSUME NEW T \in SUBSET Nat, T # {} PROVE \E k \in T : \A j \in T : k <= j
<1> DEFINE Less == {ss \in Nat \X Nat : ss[1] < ss[2]}
<1>1. IsWellFoundedOn(Less, Nat)  BY NatLessThanWellFounded DEF OpToRel
<1>2. PICK x \in T : \A y \in T : ~(<<y, x>> \in Less)
  <2> HIDE DEF Less
  <2> QED  BY <1>1, WFMin
<1>3. ASSUME NEW y \in T, y < x PROVE FALSE
  <2>1. <<y, x>> \in Less  BY <1>3
  <2> QED  BY <1>2, <2>1
<1>4. \A y \in T : x <= y  BY <1>3
<1> QED  BY <1>4

LEMMA WakeNoHole ==
  ASSUME Walking, Ids, NoHole, WakeTriggered \/ WakeSwept PROVE Ids' /\ NoHole'
<1>1. /\ UNCHANGED <<head, conn, anchor, ring, log, skipped, wire, rec>> /\ task' = Anchored
  BY Zenon DEF WakeTriggered, WakeSwept, memory, stream
<1>2. anchor \in Nat /\ task \in Tasks  BY Zenon DEF Ids
<1>3. task' = Idle \/ task' = [task EXCEPT !.at = "fetch", !.pos = anchor]
  BY <1>1 DEF Anchored
<1>4. CASE task' = Idle
  <2>1. task' \in Tasks /\ task'.at = "wait"  BY <1>4 DEF Tasks, Idle
  <2>2. task'.at # "send" /\ task'.at # "fetch"  BY <2>1
  <2> QED  BY <1>1, <2>1, <2>2, TaskNoHole, Zenon
<1>5. CASE task' = [task EXCEPT !.at = "fetch", !.pos = anchor]
  <2>1. task' \in Tasks /\ task'.at = "fetch" /\ task'.pos = anchor  BY <1>2, <1>5 DEF Tasks
  <2>2. task'.at # "send" /\ (anchor + 1)..task'.pos = {}  BY <1>2, <2>1
  <2> QED  BY <1>1, <2>1, <2>2, TaskNoHole, Zenon
<1> QED  BY <1>3, <1>4, <1>5

LEMMA FetchedNoHole ==
  ASSUME Walking, Ids, NoHole, Fetched PROVE Ids' /\ NoHole'
<1>1. UNCHANGED <<head, conn, anchor, ring, log, skipped, wire, rec>> /\ task.at = "fetch"
  BY Zenon DEF Fetched, memory, stream
<1>2. anchor \in Nat /\ task \in Tasks /\ task.pos \in Nat /\ head \in Nat
  BY DEF Ids, Tasks, Walking, Ascending
<1> DEFINE S == {p \in 1..head : p > task.pos}
           out == Oldest(S, PageSize * MAX_PAGES)
<1>3. task' = IF out = {} THEN Idle ELSE [task EXCEPT !.at = "send", !.out = out]
  <2>1. \A now : fetch_after(venue.walk, 1..head, TradePos(task.pos), now) = out
    BY DEF fetch_after, WalkIds, TradePos, Walking
  <2> HIDE DEF out
  <2> QED  BY <2>1 DEF Fetched
<1>4. S \in SUBSET Nat /\ \A s \in S : s <= head  BY <1>2
<1>5. PageSize * MAX_PAGES \in Nat  BY TradesRestAssumption
<1>6. out \subseteq S  BY DEF Oldest
<1>7. \A p \in out : \A q \in S : q <= p => q \in out
  <2> HIDE DEF S
  <2> QED  BY <1>2, <1>4, <1>5, OldestDownClosed
<1> HIDE DEF out
<1>8. CASE task' = Idle
  <2>1. task' \in Tasks /\ task'.at = "wait"  BY <1>8 DEF Tasks, Idle
  <2>2. task'.at # "send" /\ task'.at # "fetch"  BY <2>1
  <2> QED  BY <1>1, <2>1, <2>2, TaskNoHole, Zenon
<1>9. CASE out # {} /\ task' = [task EXCEPT !.at = "send", !.out = out]
  <2>1. out \in SUBSET Nat /\ out \subseteq 1..head  BY <1>2, <1>6
  <2>2. task' \in Tasks /\ task'.at = "send" /\ task'.out = out
    BY <1>2, <1>9, <2>1 DEF Tasks
  <2>3. ASSUME conn # "stopped", NEW p \in out, NEW q \in (anchor + 1)..(p - 1)
        PROVE  q \in Covered \union Queued \union out
    <3>1. p \in Nat /\ p <= head /\ q \in Int /\ q < p /\ anchor < q
      BY <1>2, <2>1, <2>3
    <3>2. CASE q <= task.pos
      <4>1. q \in (anchor + 1)..task.pos  BY <1>2, <3>1, <3>2
      <4> QED  BY <1>1, <2>3, <4>1, Zenon DEF NoHole, PosOk
    <3>3. CASE ~(q <= task.pos)
      <4>1. q \in S /\ q <= p  BY <1>2, <3>1, <3>3
      <4> QED  BY <1>7, <4>1, Zenon
    <3> QED  BY <3>2, <3>3
  <2>4. task'.at # "fetch"  BY <2>2
  <2> QED  BY <1>1, <1>9, <2>1, <2>2, <2>3, <2>4, TaskNoHole, Zenon
<1> QED  BY <1>3, <1>8, <1>9

\* The oldest print the task holds goes to the channel: what precedes it is covered
\* or already there.
LEMMA SendNoHole ==
  ASSUME Walking, Ids, NoHole, SendRecovered PROVE Ids' /\ NoHole'
<1> DEFINE p == CHOOSE q \in task.out : \A r \in task.out : q <= r
<1>1. /\ UNCHANGED <<head, conn, anchor, ring, log, skipped, wire>>
      /\ task.at = "send" /\ conn # "stopped" /\ rec' = Append(rec, p)
      /\ task' = IF task.out = {p} THEN Idle ELSE [task EXCEPT !.out = task.out \ {p}]
  BY Zenon DEF SendRecovered, memory, stream
<1>2. /\ anchor \in Nat /\ head \in Nat /\ task \in Tasks
      /\ rec \in Seq(Nat) /\ \A k \in DOMAIN rec : rec[k] <= head
      /\ task.out # {} /\ task.out \subseteq 1..head
  BY <1>1, Zenon DEF Ids, Walking, Ascending
<1>3. p \in task.out /\ \A r \in task.out : p <= r
  <2>1. task.out \in SUBSET Nat  BY <1>2 DEF Tasks
  <2>2. \E q \in task.out : \A r \in task.out : q <= r  BY <1>2, <2>1, LeastPrint, Zenon
  <2> QED  BY <2>2, Zenon
<1> HIDE DEF p
<1>4. p \in Nat /\ p <= head /\ p \in 1..head  BY <1>2, <1>3
<1>5. /\ rec' \in Seq(Nat) /\ Len(rec) \in Nat /\ DOMAIN rec = 1..Len(rec)
      /\ DOMAIN rec' = 1..(Len(rec) + 1)
      /\ \A k \in DOMAIN rec : rec'[k] = rec[k]
      /\ rec'[Len(rec) + 1] = p
  BY <1>1, <1>2, <1>4
<1>6. Covered' = Covered /\ Delivered' = Delivered  BY <1>1, Zenon DEF Covered, Delivered
<1>7. Queued \union {p} \subseteq Queued'
  <2>1. DOMAIN rec \subseteq DOMAIN rec' /\ Len(rec) + 1 \in DOMAIN rec'  BY <1>5
  <2> QED  BY <1>5, <2>1, Zenon DEF Queued
<1>8. \A k \in DOMAIN rec' : \/ k \in DOMAIN rec /\ rec'[k] = rec[k]
                             \/ k = Len(rec) + 1 /\ rec'[k] = p
  BY <1>5
<1>9. ASSUME NEW q \in (anchor + 1)..(p - 1) PROVE q \in Covered \union Queued
  <2>1. q \in Covered \union Queued \union task.out
    BY <1>1, <1>3, <1>9, Zenon DEF NoHole, OutOk
  <2>2. q \notin task.out  BY <1>2, <1>3, <1>4, <1>9
  <2> QED  BY <2>1, <2>2, Zenon
<1>10. RecOk'
  <2> SUFFICES ASSUME NEW k \in DOMAIN rec', NEW q \in (anchor + 1)..(rec'[k] - 1)
               PROVE  q \in Covered \/ \E m \in 1..(k - 1) : rec'[m] = q
    BY <1>1, <1>6, Zenon DEF RecOk
  <2>1. CASE k \in DOMAIN rec /\ rec'[k] = rec[k]
    <3>1. q \in Covered \/ \E m \in 1..(k - 1) : rec[m] = q
      BY <2>1, Zenon DEF NoHole, RecOk
    <3>2. \A m \in 1..(k - 1) : m \in DOMAIN rec  BY <1>5, <2>1
    <3> QED  BY <1>5, <3>1, <3>2, Zenon
  <2>2. CASE k = Len(rec) + 1 /\ rec'[k] = p
    <3>1. q \in Covered \union Queued  BY <1>9, <2>2, Zenon
    <3>2. \A m \in DOMAIN rec : m \in 1..(k - 1)  BY <1>5, <2>2
    <3> QED  BY <1>5, <3>1, <3>2, Zenon DEF Queued
  <2> QED  BY <1>8, <2>1, <2>2, Zenon
<1>11. WireOk'  BY <1>1, <1>6, Zenon DEF NoHole, WireOk
<1>12. task' \in Tasks /\ task'.at # "fetch"
       /\ (task'.at = "send" => task'.out = task.out \ {p} /\ task'.out # {})
  <2>1. CASE task.out = {p}
    <3>1. task' = Idle  BY <1>1, <2>1
    <3> QED  BY <3>1 DEF Idle, Tasks
  <2>2. CASE task.out # {p}
    <3>1. task' = [task EXCEPT !.out = task.out \ {p}]  BY <1>1, <2>2
    <3>2. task.out \ {p} # {}  BY <1>3, <2>2
    <3> QED  BY <1>1, <1>2, <3>1, <3>2 DEF Tasks
  <2> QED  BY <2>1, <2>2
<1>13. OutOk'
  <2> SUFFICES ASSUME task'.at = "send", NEW x \in task'.out, NEW q \in (anchor + 1)..(x - 1)
               PROVE  q \in Covered \union Queued' \union task'.out
    BY <1>1, <1>6, Zenon DEF OutOk
  <2>1. x \in task.out /\ task'.out = task.out \ {p}  BY <1>12
  <2>2. q \in Covered \union Queued \union task.out
    BY <1>1, <2>1, Zenon DEF NoHole, OutOk
  <2> QED  BY <1>7, <2>1, <2>2, Zenon
<1>14. PosOk'  BY <1>12, Zenon DEF PosOk
<1>15. Ids'
  <2>1. \A k \in DOMAIN rec' : rec'[k] <= head'  BY <1>1, <1>2, <1>4, <1>8, Zenon
  <2>2. task'.at = "send" => task'.out # {} /\ task'.out \subseteq 1..head'
    BY <1>1, <1>2, <1>12, Zenon
  <2> QED  BY <1>1, <1>5, <1>6, <1>12, <2>1, <2>2, Zenon DEF Ids
<1> QED  BY <1>10, <1>11, <1>13, <1>14, <1>15, Zenon DEF NoHole

LEMMA HoleStep ==
  ASSUME Walking, Ids, NoHole, [Next]_vars PROVE Ids' /\ NoHole'
<1>0. head \in Nat  BY Zenon DEF Walking, Ascending
<1>1. Covered \subseteq Covered' /\ Delivered \subseteq Delivered'
  BY CoveredGrows, Zenon DEF Walking
<1>2. CASE LiveTrade  BY <1>1, <1>2, LiveNoHole, Zenon
<1>3. CASE RecoveredTrade  BY <1>1, <1>3, RecoveredNoHole, Zenon
<1>4. CASE Stop  BY <1>4, StopNoHole, Zenon
<1>5. CASE WakeTriggered \/ WakeSwept  BY <1>5, WakeNoHole, Zenon
<1>6. CASE Fetched  BY <1>6, FetchedNoHole, Zenon
<1>7. CASE SendRecovered  BY <1>7, SendNoHole, Zenon
<1>8. CASE FetchFailed \/ TaskEnds
  <2>1. UNCHANGED <<head, conn, anchor, ring, log, skipped, wire, rec>>
    BY <1>8, Zenon DEF FetchFailed, TaskEnds, memory, stream
  <2>2. task' = Idle \/ task' = [Idle EXCEPT !.at = "ended"]
    BY <1>8, Zenon DEF FetchFailed, TaskEnds
  <2>3. task' \in Tasks /\ task'.at # "send" /\ task'.at # "fetch"  BY <2>2 DEF Idle, Tasks
  <2> QED  BY <2>1, <2>3, TaskNoHole, Zenon
<1>9. CASE \/ Printed \/ Missed \/ Dropped \/ with_trade_seq_carry
           \/ Confirm \/ RuntimeEnded \/ Pause \/ Resume \/ UNCHANGED vars
  <2>1. UNCHANGED <<anchor, rec, task, ring, log, skipped>>
    BY <1>9, Zenon DEF Printed, Missed, Dropped, with_trade_seq_carry, Confirm, RuntimeEnded,
      Pause, Resume, vars, memory, repair
  <2>2. conn' # "stopped" => conn # "stopped"
    <3>1. CASE Dropped \/ with_trade_seq_carry \/ RuntimeEnded
      BY <3>1 DEF Dropped, with_trade_seq_carry, RuntimeEnded
    <3>2. CASE Printed \/ Missed \/ Confirm \/ Pause \/ Resume \/ UNCHANGED vars
      BY <3>2, Zenon DEF Printed, Missed, Confirm, Pause, Resume, vars
    <3> QED  BY <1>9, <3>1, <3>2
  <2>3. head' \in Nat /\ head <= head'
    <3>1. head' = head \/ head' = head + 1
      BY <1>9, Zenon DEF Printed, Missed, Dropped, with_trade_seq_carry, Confirm, RuntimeEnded,
        Pause, Resume, vars
    <3> QED  BY <1>0, <3>1
  <2>4. wire' = wire \/ wire' = <<>> \/ wire' = Append(wire, head + 1)
    <3>1. CASE Printed  BY <3>1 DEF Printed, Forward
    <3>2. CASE with_trade_seq_carry
      <4>1. wire' = Replayed  BY <3>2, Zenon DEF with_trade_seq_carry
      <4>2. venue.replays \in Nat /\ ~(venue.replays > 0)
        BY ReconcileAssumption DEF Walking, Memories
      <4>3. venue.replays = 0 /\ ~(head < venue.replays)  BY <1>0, <4>2
      <4>4. Replayed = [i \in 1..0 |-> head - venue.replays + i]  BY <4>3 DEF Replayed
      <4>5. Replayed = <<>>  BY <4>4
      <4> QED  BY <4>1, <4>5
    <3>3. CASE Missed \/ Dropped \/ Confirm \/ RuntimeEnded \/ Pause \/ Resume \/ UNCHANGED vars
      BY <3>3, Zenon DEF Missed, Dropped, Confirm, RuntimeEnded, Pause, Resume, vars, stream
    <3> QED  BY <1>9, <3>1, <3>2, <3>3
  <2> QED  BY <2>1, <2>2, <2>3, <2>4, StillNoHole, Zenon
<1> QED  BY <1>2, <1>3, <1>4, <1>5, <1>6, <1>7, <1>8, <1>9, Zenon DEF Next

LEMMA HolesHold == Spec => []HInv
<1>1. Init => HInv
  <2> SUFFICES ASSUME Init, venue.walk = "ids" PROVE Ids /\ NoHole  BY DEF HInv
  <2>1. /\ log = <<>> /\ ring = <<>> /\ rec = <<>> /\ wire = <<>> /\ head = 0 /\ anchor = 0
        /\ task = Idle
    BY Zenon DEF Init
  <2>2. DOMAIN ring = {} /\ DOMAIN rec = {} /\ DOMAIN wire = {} /\ rec \in Seq(Nat)  BY <2>1
  <2>3. task \in Tasks /\ task.at # "send" /\ task.at # "fetch"  BY <2>1 DEF Idle, Tasks
  <2>4. anchor \in Nat /\ anchor <= head  BY <2>1
  <2> QED  BY <2>2, <2>3, <2>4, Zenon DEF Ids, NoHole, RecOk, WireOk, OutOk, PosOk
<1>2. CInv /\ HInv /\ [Next]_vars => HInv'
  <2> SUFFICES ASSUME CInv, HInv, [Next]_vars PROVE HInv'  OBVIOUS
  <2>1. venue' = venue
    <3>1. (rec # <<>> \/ task.at \in {"fetch", "send"}) => reconcile_active
      BY Zenon DEF CInv, Memories
    <3> QED  BY <3>1, FetcherStep
  <2> QED  BY <2>1, ByIdWalks, HoleStep, Zenon DEF HInv
<1> QED  BY <1>1, <1>2, CopiesHold, PTL DEF Spec

(***************************************************************************)
(* Of a venue whose fetcher walks by id, a recovered print never carries   *)
(* the anchor past one that was neither delivered nor dropped by a pause,  *)
(* however the fetch, the channel and the live stream interleave.          *)
(***************************************************************************)
THEOREM RepairsLeaveNoHole == Spec => RepairLeavesNoHole
<1> DEFINE Step == (venue.walk = "ids" /\ rec' # rec /\ anchor' > anchor) =>
                     \A p \in (anchor + 1)..anchor' : p \in Delivered' \union skipped
<1>1. CInv /\ HInv /\ [Next]_vars => [Step]_vars
  <2> SUFFICES ASSUME CInv, HInv, [Next]_vars, venue.walk = "ids", rec' # rec, anchor' > anchor,
                      NEW p \in (anchor + 1)..anchor'
               PROVE  p \in Delivered' \union skipped
    BY Zenon
  <2>1. Walking /\ Ids /\ NoHole  BY ByIdWalks, Zenon DEF HInv
  <2>2. anchor \in Nat /\ rec \in Seq(Nat)  BY <2>1, Zenon DEF Ids
  <2>3. Covered \subseteq Covered' /\ Delivered \subseteq Delivered'
    BY <2>1, CoveredGrows, Zenon DEF Walking
  <2>4. RecoveredTrade
    <3>1. ~(anchor' = anchor)  BY <2>2
    <3>2. ~LiveTrade  BY LiveFacts, Zenon
    <3> QED  BY <3>1, <3>2, MemoryWriters, Zenon
  <2>5. anchor' = rec[1] /\ rec[1] \in Delivered' /\ rec # <<>>
    BY <2>1, <2>3, <2>4, RecoveredNoHole, RecoveredFacts, Zenon
  <2>6. 1 \in DOMAIN rec /\ rec[1] \in Nat  BY <2>2, <2>5
  <2>7. CASE p = rec[1]  BY <2>5, <2>7
  <2>8. CASE p # rec[1]
    <3>1. p \in (anchor + 1)..(rec[1] - 1) /\ 1..(1 - 1) = {}  BY <2>2, <2>5, <2>6, <2>8
    <3>2. p \in Covered  BY <2>1, <2>6, <3>1, Zenon DEF NoHole, RecOk
    <3> QED  BY <2>3, <3>2, Zenon DEF Covered
  <2> QED  BY <2>7, <2>8
<1> QED  BY <1>1, CopiesHold, HolesHold, PTL DEF Spec, RepairLeavesNoHole

-----------------------------------------------------------------------------
(* Rehydration                                                             *)

Inside ==
  /\ newest \in Nat /\ retained \in Nat /\ files \subseteq Nat
  /\ pos.id \in Nat /\ pos.id <= newest
  /\ \A p \in files : p <= newest /\ p # 0
  /\ id_range[1] \in Nat /\ id_range[2] \in Nat

\* A walk by time has no such position; it is left to the model checker.
RInv == walk = "ids" => Inside /\ NothingLeftBehind

\* A walk by id takes the oldest prints first: it skips none below one it takes.
LEMMA OldestIsDownClosed ==
  ASSUME NEW S \in SUBSET Nat, NEW h \in Nat, \A s \in S : s <= h,
         NEW n \in Nat, NEW p \in Oldest(S, n), NEW q \in S, q <= p
  PROVE  q \in Oldest(S, n)
<1> DEFINE A == {r \in S : r < q}
           B == {r \in S : r < p}
<1>1. p \in S /\ Cardinality(B) < n  BY DEF Oldest
<1>2. p \in Nat /\ q \in Nat  BY <1>1
<1>3. A \in SUBSET B
  <2> SUFFICES ASSUME NEW r \in S, r < q PROVE r < p  OBVIOUS
  <2>1. r \in Nat  OBVIOUS
  <2> QED  BY <1>2, <2>1
<1>4. B \in SUBSET Nat /\ \A s \in B : s <= h  OBVIOUS
<1> HIDE DEF A, B
<1>5. IsFiniteSet(B)  BY <1>4, FS_BoundedSetOfNaturals
<1>6. IsFiniteSet(A) /\ Cardinality(A) <= Cardinality(B)  BY <1>3, <1>5, FS_Subset
<1>7. Cardinality(A) \in Nat /\ Cardinality(B) \in Nat  BY <1>5, <1>6, FS_CardinalityType
<1>8. Cardinality(A) < n  BY <1>1, <1>6, <1>7 DEF B
<1> QED  BY <1>8 DEF Oldest, A

LEMMA ServedFacts == ASSUME Inside PROVE Served \in SUBSET Nat /\ \A p \in Served : p <= newest
BY DEF Inside, Served

\* What fetch_after returns is served, after the position, and skips nothing.
LEMMA FetchById ==
  ASSUME Inside, NEW now, NEW top \in fetch_after("ids", Served, pos, now),
         NEW p \in Served, pos.id < p, p <= top
  PROVE  p \in fetch_after("ids", Served, pos, now)
<1> DEFINE S == {r \in Served : r > pos.id}
<1>1. fetch_after("ids", Served, pos, now) = Oldest(S, PageSize * MAX_PAGES)
  BY DEF fetch_after, WalkIds
<1>2. S \in SUBSET Nat /\ \A s \in S : s <= newest  BY ServedFacts
<1>3. p \in Nat /\ p \in S  BY <1>2, ServedFacts DEF Inside
<1>4. PageSize * MAX_PAGES \in Nat  BY TradesRestAssumption
<1>5. newest \in Nat  BY DEF Inside
<1> HIDE DEF S
<1>6. top \in Oldest(S, PageSize * MAX_PAGES)  BY <1>1
<1> QED  BY <1>1, <1>2, <1>3, <1>4, <1>5, <1>6, OldestIsDownClosed

LEMMA FetchInside ==
  ASSUME Inside, walk = "ids", NEW now, NEW p \in fetch_after(walk, Served, pos, now)
  PROVE  p \in Served /\ p \in Nat /\ p <= newest
<1>1. p \in Served  BY DEF fetch_after, WalkIds, Oldest
<1> QED  BY <1>1, ServedFacts

-----------------------------------------------------------------------------
LEMMA InitRehydrate == RehydrateInit => RInv
<1> SUFFICES ASSUME RehydrateInit PROVE Inside /\ NothingLeftBehind  BY DEF RInv
<1>1. newest \in Nat /\ files \subseteq 1..newest  BY RehydrateAssumption DEF RehydrateInit
<1>2. pos.id = 0  BY DEF RehydrateInit, TradePos
<1>3. Inside  BY <1>1, <1>2 DEF RehydrateInit, Inside
<1> QED  BY <1>3 DEF RehydrateInit, NothingLeftBehind

LEMMA StepRehydrate == RInv /\ [RehydrateNext]_rehydrate_vars => RInv'
<1> SUFFICES ASSUME RInv, [RehydrateNext]_rehydrate_vars, walk' = "ids" PROVE Inside' /\ NothingLeftBehind'
  BY DEF RInv
<1>1. walk = "ids"
  BY Zenon DEF RehydrateNext, rehydrate_vars, Begin, Round, RoundFails, WalkEnds, WriteMerged, WriteFails,
     VenuePrints, Expired
<1>2. Inside /\ NothingLeftBehind  BY <1>1 DEF RInv
<1>3. CASE Begin
  <2>1. newest' = newest /\ retained' = retained /\ files' = files /\ present' = files
    BY <1>3 DEF Begin
  <2>2. CASE files = {} /\ pos' = TradePos(0) /\ id_range' = id_range
    <3>1. pos'.id = 0  BY <2>2 DEF TradePos
    <3> QED  BY <1>2, <2>1, <2>2, <3>1 DEF Inside, NothingLeftBehind
  <2>3. CASE \E lo, hi \in files : /\ \A p \in files : lo <= p /\ p <= hi
                                   /\ id_range' = <<lo, hi>> /\ at' = "walk"
                                   /\ pos' = [id |-> lo - 1, ts |-> Second(lo) - 1]
    <3>1. PICK lo, hi \in files : /\ id_range' = <<lo, hi>>
                                  /\ pos' = [id |-> lo - 1, ts |-> Second(lo) - 1]
      BY <2>3
    <3>2. lo \in Nat /\ hi \in Nat /\ lo <= newest /\ newest \in Nat  BY <1>2 DEF Inside
    <3>3. lo # 0  BY <1>2 DEF Inside
    <3>4. pos'.id = lo - 1 /\ id_range'[1] = lo /\ id_range'[2] = hi  BY <3>1
    <3>5. Inside'
      <4>1. pos'.id \in Nat /\ pos'.id <= newest  BY <3>2, <3>3, <3>4
      <4>2. id_range'[1] \in Nat /\ id_range'[2] \in Nat  BY <3>2, <3>4
      <4> QED  BY <1>2, <2>1, <4>1, <4>2, Zenon DEF Inside
    <3>6. \A p \in lo..hi : ~(p <= lo - 1)  BY <3>2
    <3> QED  BY <3>4, <3>5, <3>6 DEF NothingLeftBehind, min_id, max_id
  <2> QED  BY <1>3, <2>2, <2>3 DEF Begin
<1>4. CASE Round
  <2>1. newest' = newest /\ retained' = retained /\ files' = files /\ id_range' = id_range
        /\ at = "walk"
    BY <1>4 DEF Round
  <2>2. PICK now : LET batch == fetch_after("ids", Served, pos, now) IN
          \/ present' = present /\ pos' = pos
          \/ \E top \in batch : /\ \A p \in batch : p <= top
                                /\ pos' = TradePos(top)
                                /\ present' = present \union {p \in batch : p <= max_id}
    BY <1>1, <1>4 DEF Round
  <2> DEFINE batch == fetch_after("ids", Served, pos, now)
  <2>3. CASE present' = present /\ pos' = pos
    <3>1. Served' = Served /\ min_id' = min_id /\ max_id' = max_id
      BY <2>1 DEF Served, min_id, max_id
    <3>2. Inside'  BY <1>2, <2>1, <2>3, Zenon DEF Inside
    <3>3. files # {} => \A p \in min_id..max_id : p <= pos.id /\ p \in Served => p \in present
      BY <1>1, <1>2, <2>1 DEF NothingLeftBehind
    <3> QED  BY <2>1, <2>3, <3>1, <3>2, <3>3 DEF NothingLeftBehind
  <2>4. CASE \E top \in batch : /\ pos' = TradePos(top)
                                /\ present' = present \union {p \in batch : p <= max_id}
    <3>1. PICK top \in batch : /\ pos' = TradePos(top)
                               /\ present' = present \union {p \in batch : p <= max_id}
      BY <2>4
    <3>2. pos'.id = top  BY <3>1 DEF TradePos
    <3>3. top \in Nat /\ top <= newest  BY <1>1, <1>2, <3>1, FetchInside
    <3>4. Inside'  BY <1>2, <2>1, <3>2, <3>3 DEF Inside
    <3>5. Served' = Served /\ min_id' = min_id /\ max_id' = max_id
      BY <2>1 DEF Served, min_id, max_id
    <3>6. ASSUME NEW p \in min_id..max_id, p <= top, p \in Served, files # {}
          PROVE  p \in present'
      <4>1. p \in Nat /\ p <= max_id /\ pos.id \in Nat
        BY <1>2, <3>6 DEF Inside, min_id, max_id
      <4>2. CASE p <= pos.id
        BY <1>1, <1>2, <2>1, <3>1, <3>6, <4>2 DEF NothingLeftBehind
      <4>3. CASE pos.id < p
        <5>1. p \in batch  BY <1>2, <3>1, <3>6, <4>3, FetchById
        <5> QED  BY <3>1, <4>1, <5>1
      <4> QED  BY <4>1, <4>2, <4>3
    <3> HIDE DEF batch
    <3> QED  BY <2>1, <3>2, <3>4, <3>5, <3>6 DEF NothingLeftBehind
  <2> QED  BY <2>2, <2>3, <2>4
<1>5. CASE VenuePrints
  <2>1. newest' = newest + 1 /\ newest \in Nat /\ pos.id \in Nat /\ pos.id <= newest
        /\ UNCHANGED <<walk, retained, files, id_range, at, present, pos>>
    BY <1>2, <1>5 DEF VenuePrints, Inside
  <2>2. Inside'
    <3>1. \A p \in files : p \in Nat /\ p <= newest  BY <1>2 DEF Inside
    <3> QED  BY <1>2, <2>1, <3>1 DEF Inside
  <2>3. \A p \in Served' : p <= pos.id => p \in Served  BY <2>1 DEF Served
  <2> QED  BY <1>2, <2>1, <2>2, <2>3 DEF NothingLeftBehind, min_id, max_id
<1>6. CASE Expired
  <2>1. retained' = retained + 1 /\ UNCHANGED <<walk, newest, files, id_range, at, present, pos>>
    BY <1>6 DEF Expired
  <2>2. Served' \subseteq Served /\ retained' \in Nat  BY <1>2, <2>1 DEF Served, Inside
  <2> QED  BY <1>2, <2>1, <2>2 DEF Inside, NothingLeftBehind, min_id, max_id
<1>7. CASE RoundFails \/ WalkEnds \/ WriteMerged \/ WriteFails \/ UNCHANGED rehydrate_vars
  <2>1. /\ UNCHANGED <<walk, newest, retained, files, id_range, present, pos>>
        /\ at' \in {"walk", "write", "done"} => at \in {"walk", "write", "done"}
    BY <1>7 DEF RoundFails, WalkEnds, WriteMerged, WriteFails, rehydrate_vars
  <2> QED  BY <1>2, <2>1 DEF Inside, NothingLeftBehind, min_id, max_id, Served
<1> QED  BY <1>3, <1>4, <1>5, <1>6, <1>7 DEF RehydrateNext

(***************************************************************************)
(* A rehydration that walks by id holds every print of the recorded range  *)
(* up to its position that the venue still serves, whatever the page size, *)
(* the rounds, the recorded set and the prints that come and expire        *)
(* meanwhile.                                                              *)
(***************************************************************************)
THEOREM WalkLeavesNothingBehind == RehydrateSpec => []NothingLeftBehind
<1>1. RInv => NothingLeftBehind  BY DEF RInv, NothingLeftBehind
<1> QED  BY <1>1, InitRehydrate, StepRehydrate, PTL DEF RehydrateSpec
-----------------------------------------------------------------------------
\* A run that reports exhaustion has left its walk, and its range is recorded.
EInv ==
  walk = "ids" =>
    id_range[2] <= newest /\ (exhausted => at # "walk") /\ ExhaustedIsTrue

\* A walk by id returns nothing only when nothing is served after its position.
LEMMA EmptyFetch ==
  ASSUME Inside, NEW now, fetch_after("ids", Served, pos, now) = {}
  PROVE  \A p \in Served : p <= pos.id
<1> DEFINE S == {r \in Served : r > pos.id}
           Less == {ss \in Nat \X Nat : ss[1] < ss[2]}
<1>1. Oldest(S, PageSize * MAX_PAGES) = {}  BY DEF fetch_after, WalkIds
<1>2. S \in SUBSET Nat  BY ServedFacts
<1>3. PageSize * MAX_PAGES \in Nat /\ 0 < PageSize * MAX_PAGES  BY TradesRestAssumption
<1>4. ASSUME S # {} PROVE FALSE
  <2>1. IsWellFoundedOn(Less, Nat)  BY NatLessThanWellFounded DEF OpToRel
  <2>2. PICK m \in S : \A q \in S : ~(<<q, m>> \in Less)
    <3> HIDE DEF Less, S
    <3> QED  BY <1>2, <1>4, <2>1, WFMin
  <2>3. {q \in S : q < m} = {}
    <3> SUFFICES ASSUME NEW q \in S, q < m PROVE FALSE  OBVIOUS
    <3>1. <<q, m>> \in Less  BY <1>2
    <3> QED  BY <2>2, <3>1
  <2>4. Cardinality({q \in S : q < m}) = 0  BY <2>3, FS_EmptySet
  <2> HIDE DEF S
  <2> QED  BY <1>1, <1>3, <2>4 DEF Oldest
<1>5. S = {}  BY <1>4
<1> QED  BY <1>5, ServedFacts DEF Inside

LEMMA InitExhausted == RehydrateInit => EInv
<1> SUFFICES ASSUME RehydrateInit PROVE id_range[2] <= newest /\ exhausted = FALSE
  BY DEF EInv, ExhaustedIsTrue
<1>1. newest \in Nat  BY RehydrateAssumption DEF RehydrateInit
<1> QED  BY <1>1 DEF RehydrateInit

LEMMA StepExhausted == RInv /\ EInv /\ [RehydrateNext]_rehydrate_vars => EInv'
<1> SUFFICES ASSUME RInv, EInv, [RehydrateNext]_rehydrate_vars, walk' = "ids"
             PROVE  id_range'[2] <= newest' /\ (exhausted' => at' # "walk") /\ ExhaustedIsTrue'
  BY DEF EInv
<1>1. walk = "ids"
  BY Zenon DEF RehydrateNext, rehydrate_vars, Begin, Round, RoundFails, WalkEnds, WriteMerged, WriteFails,
     VenuePrints, Expired
<1>2. Inside  BY <1>1 DEF RInv
<1>3. id_range[2] <= newest /\ (exhausted => at # "walk") /\ ExhaustedIsTrue  BY <1>1 DEF EInv
<1>4. exhausted => \A p \in Served : p <= pos.id \/ p > id_range[2]
  BY <1>1, <1>3 DEF ExhaustedIsTrue, max_id
<1>5. CASE Begin
  <2>1. newest' = newest /\ exhausted' = FALSE  BY <1>5 DEF Begin
  <2>2. id_range' = id_range \/ \E lo, hi \in files : id_range' = <<lo, hi>>
    BY <1>5 DEF Begin
  <2>3. id_range'[2] <= newest  BY <1>2, <1>3, <2>2 DEF Inside
  <2> QED  BY <2>1, <2>3 DEF ExhaustedIsTrue
<1>6. CASE Round
  <2>1. newest' = newest /\ retained' = retained /\ id_range' = id_range /\ at = "walk"
    BY <1>6 DEF Round
  <2>2. PICK now :
          \/ /\ fetch_after("ids", Served, pos, now) = {}
             /\ at' = "write" /\ pos' = pos
          \/ exhausted' = exhausted
    BY <1>1, <1>6 DEF Round
  <2>3. CASE fetch_after("ids", Served, pos, now) = {} /\ at' = "write" /\ pos' = pos
    <3>1. \A p \in Served : p <= pos.id  BY <1>2, <2>3, EmptyFetch
    <3>2. Served' = Served  BY <2>1 DEF Served
    <3> QED  BY <1>3, <2>1, <2>3, <3>1, <3>2 DEF ExhaustedIsTrue
  <2>4. CASE exhausted' = exhausted
    <3>1. ~exhausted'  BY <1>3, <2>1, <2>4
    <3> QED  BY <1>3, <2>1, <3>1 DEF ExhaustedIsTrue
  <2> QED  BY <2>2, <2>3, <2>4
<1>7. CASE VenuePrints
  <2>1. newest' = newest + 1 /\ UNCHANGED <<retained, id_range, at, pos, exhausted>>
    BY <1>7 DEF VenuePrints
  <2>2. newest \in Nat /\ id_range[2] \in Nat  BY <1>2 DEF Inside
  <2>3. \A p \in Served' : p \in Served \/ p > id_range[2]
    <3>1. \A p \in Served' : p \in Served \/ p = newest + 1  BY <2>1, <2>2 DEF Served
    <3> QED  BY <1>3, <2>2, <3>1
  <2>4. id_range'[2] <= newest'  BY <1>3, <2>1, <2>2
  <2> QED  BY <1>3, <1>4, <2>1, <2>3, <2>4 DEF ExhaustedIsTrue, max_id
<1>8. CASE Expired
  <2>1. retained' = retained + 1 /\ UNCHANGED <<newest, id_range, at, pos, exhausted>>
    BY <1>8 DEF Expired
  <2>2. \A p \in Served' : p \in Served  BY <1>2, <2>1 DEF Served, Inside
  <2> QED  BY <1>3, <1>4, <2>1, <2>2 DEF ExhaustedIsTrue, max_id
<1>9. CASE RoundFails \/ WalkEnds \/ WriteMerged \/ WriteFails \/ UNCHANGED rehydrate_vars
  <2>1. /\ UNCHANGED <<newest, retained, id_range, pos, exhausted>>
        /\ at' = "walk" => at = "walk"
    BY <1>9 DEF RoundFails, WalkEnds, WriteMerged, WriteFails, rehydrate_vars
  <2> QED  BY <1>3, <1>4, <2>1 DEF ExhaustedIsTrue, Served, max_id
<1> QED  BY <1>5, <1>6, <1>7, <1>8, <1>9 DEF RehydrateNext

(***************************************************************************)
(* When the report of a rehydration by id says the venue ran out before    *)
(* the end of the range (exhausted_before_range_end), nothing of the rest  *)
(* of the range is served, then or later: not after further prints, and    *)
(* for every page size and number of pages of a fetch.                     *)
(***************************************************************************)
THEOREM ExhaustionIsReal == RehydrateSpec => []ExhaustedIsTrue
<1>1. EInv => ExhaustedIsTrue  BY DEF EInv, ExhaustedIsTrue
<1> QED  BY <1>1, InitRehydrate, StepRehydrate, InitExhausted, StepExhausted, PTL DEF RehydrateSpec

=============================================================================

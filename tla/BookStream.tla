------------------------------ MODULE BookStream ------------------------------
(***************************************************************************)
(* What the runtime promises the consumer of its output channel, for every *)
(* pair of a socket: each book it sends is a book the venue really had; it *)
(* never goes back in time while the pair is live; and when continuity is  *)
(* lost nothing is sent until a fresh seed makes the pair live again, or   *)
(* the whole stream ends and the caller reconnects.                        *)
(***************************************************************************)
EXTENDS Integers

CONSTANTS Pairs, Empty

VARIABLES
    history,    \* per pair: the venue's book at each version
    served,     \* per pair: version and content of the last book sent
    live,       \* per pair: whether the reconstructed book is continuous
    over        \* the stream has ended

svars == <<history, served, live, over>>

Sends(p, v) ==
    served' = [served EXCEPT ![p] = [id |-> v, content |-> history[p][v]]]

Begin ==
    /\ history = [p \in Pairs |-> [v \in 0..0 |-> Empty]]
    /\ served = [p \in Pairs |-> [id |-> -1, content |-> Empty]]
    /\ live = [p \in Pairs |-> FALSE]
    /\ over = FALSE

\* The venue's book changes; its past does not.
Trade(p) ==
    /\ \A q \in Pairs \ {p} : history'[q] = history[q]
    /\ \A v \in DOMAIN history[p] :
         v \in DOMAIN history'[p] /\ history'[p][v] = history[p][v]
    /\ UNCHANGED <<served, live, over>>

Advance(p) ==
    /\ live[p]
    /\ \E v \in DOMAIN history[p] : v >= served[p].id /\ Sends(p, v)
    /\ UNCHANGED <<history, live, over>>

Seed(p) ==
    /\ ~live[p]
    /\ \E v \in DOMAIN history[p] : Sends(p, v)
    /\ live' = [live EXCEPT ![p] = TRUE]
    /\ UNCHANGED <<history, over>>

Lose(p) ==
    /\ live[p]
    /\ live' = [live EXCEPT ![p] = FALSE]
    /\ UNCHANGED <<history, served, over>>

End ==
    /\ over' = TRUE
    /\ live' \in [Pairs -> BOOLEAN]
    /\ UNCHANGED <<history, served>>

Step ==
    /\ ~over
    /\ \/ End
       \/ \E p \in Pairs : Trade(p) \/ Advance(p) \/ Seed(p) \/ Lose(p)

Stream == Begin /\ [][Step]_svars

=============================================================================

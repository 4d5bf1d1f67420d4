---------------------------- MODULE MCMarketSync ----------------------------
(***************************************************************************)
(* Instances of MarketSync.                                                *)
(***************************************************************************)
EXTENDS MarketSync

AllModes == ClockModes
AllKinds == EventKinds \cup {"Book", "Time"}

\* With Period = 2 and Delay = 1: 4 makes the row of 0 ripe and is past the
\* boundary of the next, inside its hold-back; 7 makes two more rows ripe.
Close == {0, 4, 7}
====

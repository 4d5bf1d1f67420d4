---------------------------- MODULE MCReconcile ----------------------------
(* Instances of Reconcile: the venues with a fetcher, and the one that      *)
(* repeats prints to a new subscriber.  Bitso differs from Binance only in  *)
(* having no trade sequence.                                                *)
EXTENDS Reconcile

Binance == [armed |-> TRUE, replays |-> 0, dedups |-> FALSE, walk |-> "ids"]
Coinbase == [armed |-> TRUE, replays |-> 0, dedups |-> FALSE, walk |-> "time"]
Hyperliquid == [armed |-> FALSE, replays |-> 2, dedups |-> TRUE, walk |-> "none"]

ThreeVenues == {Binance, Coinbase, Hyperliquid}
JustBinance == {Binance}
Swept == {TRUE}
Unswept == {FALSE}

=============================================================================

--------------------------- MODULE MCSourceRuntime ---------------------------
(***************************************************************************)
(* Instances of SourceRuntime for TLC.                                     *)
(***************************************************************************)
EXTENDS SourceRuntime, TLC

CONSTANTS btc, eth, k1, k2

OnePair == {btc}
TwoPairs == {btc, eth}
OneKey == {k1}
TwoKeys == {k1, k2}

=============================================================================

----------------------------- MODULE MCRehydrate -----------------------------
(* Instances of Rehydrate: both ways a fetcher walks.                       *)
EXTENDS Rehydrate

EitherWalk == {"ids", "time"}

=============================================================================

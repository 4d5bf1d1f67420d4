----------------------------- MODULE MCWorker -----------------------------
(* Instances of Worker.                                                     *)
EXTENDS Worker

Book == {"orders"}
Ends == {"Close1000", "Close1008", "Stale"}
Silence == {"Stale"}
StopOnly == {"Stop"}

=============================================================================

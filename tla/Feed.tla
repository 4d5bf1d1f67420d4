-------------------------------- MODULE Feed --------------------------------
(***************************************************************************)
(* The Feed lifecycle of aetelier-connect/src/framework/feed.rs: the legal *)
(* transition graph and what each FeedSet::mark_* operation does to one    *)
(* feed.  A mark records its target state unconditionally once its own     *)
(* early returns pass: the edge check is a debug_assert!, which a release  *)
(* build drops.  Legality is therefore a property to check, not a guard.   *)
(***************************************************************************)

FeedStates == {"Requested", "Subscribing", "Live", "Stale", "Resubscribing",
               "Reconnecting", "Draining", "Closed", "Rejected", "Failed"}

is_terminal(s) == s \in {"Closed", "Rejected", "Failed"}

successors(s) ==
    CASE s = "Requested"     -> {"Subscribing", "Draining"}
      [] s = "Subscribing"   -> {"Live", "Resubscribing", "Reconnecting", "Draining"}
      [] s = "Live"          -> {"Stale", "Resubscribing", "Reconnecting", "Draining"}
      [] s = "Stale"         -> {"Live", "Resubscribing", "Reconnecting", "Draining"}
      [] s = "Resubscribing" -> {"Live", "Reconnecting", "Draining"}
      [] s = "Reconnecting"  -> {"Subscribing", "Rejected", "Failed", "Draining"}
      [] s = "Draining"      -> {"Closed"}
      [] OTHER               -> {}

can_transition_to(s, next) == next \in successors(s)

\* each_live_mut: the bulk marks skip terminal feeds and nothing else.
mark_each_live(s, next) == IF is_terminal(s) THEN s ELSE next

\* mark_live / mark_resubscribing: skip terminal feeds; re-marking is a no-op.
mark_live(s) == mark_each_live(s, "Live")

\* Mutant: a gapped feed is put back to Subscribing.
mark_resubscribing_afresh(s) == mark_each_live(s, "Subscribing")

mark_resubscribing(s) == mark_each_live(s, "Resubscribing")

\* mark_stale: only a Live feed can go silent.
mark_stale(s) == IF s = "Live" THEN "Stale" ELSE s

=============================================================================

----------------------------- MODULE Reconnect -----------------------------
(***************************************************************************)
(* How a worker decides to reconnect: the classification of the ways a     *)
(* socket ends (clients/disconnect.rs, driver::exit_to_task) and the       *)
(* ReconnectPolicy with its backoff and circuit breaker                    *)
(* (clients/reconnect.rs).  Delays are in the units of the constants.      *)
(*                                                                         *)
(* The worker always sleeps until `cooldown_until` before it tries again,  *)
(* so the one thing kept of that instant is whether it has passed.         *)
(***************************************************************************)
EXTENDS Naturals

CONSTANTS
    initial_delay, max_delay,
    max_attempts,             \* 0 stands for None: the breaker never trips
    Jitter                    \* jitter_factor in percent

ASSUME PolicyAssumption ==
    /\ initial_delay \in Nat \ {0} /\ max_delay \in Nat
    /\ initial_delay <= max_delay    \* build() panics otherwise
    /\ max_attempts \in Nat /\ Jitter \in Nat

-----------------------------------------------------------------------------
(* Why a connection ended                                                  *)

\* How the transport's message loop exits; a close frame by its code, a
\* protocol error by whether its text speaks of a reset.
Exits == {"StreamEnded", "ReceiverDropped", "Close1000", "Close1001", "Close1002",
          "Close1002Reset", "Close1003", "Close1008", "CloseOther", "Protocol",
          "ProtocolReset", "Io", "HeartbeatWriteFailed", "ConnectionFailed",
          "SubscriptionRejected", "Stale", "PlannedRotation"}

\* From<WssExitReason>, classify_close_frame and classify_tungstenite_error.  A
\* rejection that carries a close code is told apart from one that has none.
DisconnectReason(exit) ==
    CASE exit \in {"Close1000", "PlannedRotation"} -> "CleanClose"
      [] exit = "Close1001" -> "GoingAway"
      [] exit \in {"Close1002", "Close1003", "Close1008", "Protocol"} -> "ProtocolRejection"
      [] exit = "SubscriptionRejected" -> "SubscriptionRejection"
      [] exit = "Stale" -> "StaleConnection"
      [] exit = "HeartbeatWriteFailed" -> "HeartbeatFailed"
      [] exit = "ReceiverDropped" -> "ReceiverDropped"
      [] OTHER -> "TransportError"

Reasons == {DisconnectReason(e) : e \in Exits}

Rejections == {"ProtocolRejection", "SubscriptionRejection"}

is_retryable(reason) == reason \notin Rejections \cup {"ReceiverDropped"}

suggested_delay_factor(reason) ==
    CASE reason = "TransportError" -> 2
      [] reason \in {"GoingAway", "StaleConnection", "HeartbeatFailed"} -> 1
      [] OTHER -> 0

\* The adapter task's result: a reason to reconnect by, or a natural end.
exit_to_task(exit) ==
    LET reason == DisconnectReason(exit)
    IN  IF reason \in {"CleanClose", "ReceiverDropped"} THEN "Completed" ELSE reason

\* What the worker shows its policy: every end that is no failure is a clean close.
policy_reason(task_exit) == IF task_exit \in Reasons THEN task_exit ELSE "CleanClose"

-----------------------------------------------------------------------------
(* ReconnectPolicy                                                         *)

Least(a, b) == IF a < b THEN a ELSE b

NewPolicy == [current_delay |-> initial_delay, consecutive_failures |-> 0,
              circuit_state |-> "Closed", cooldown_duration |-> 4 * max_delay,
              data_ever_received |-> FALSE]

Policies == [current_delay : Nat, consecutive_failures : Nat,
             circuit_state : {"Closed", "Open", "HalfOpen"}, cooldown_duration : Nat,
             data_ever_received : BOOLEAN]

\* the uniform draw base + rand(0 .. base * jitter_factor), in whole units
Jittered(base) == {base + j : j \in {k \in 0 .. base * Jitter : k = 0 \/ 100 * k < base * Jitter}}

RetryImmediately == [act |-> "RetryImmediately", wait |-> 0]
RetryAfter(d) == [act |-> "RetryAfter", wait |-> d]
CircuitOpen(d) == [act |-> "CircuitOpen", wait |-> d]
GiveUp == [act |-> "GiveUp", wait |-> 0]

Trip(p, cooldown) ==
    [policy |-> [p EXCEPT !.cooldown_duration = cooldown, !.circuit_state = "Open"],
     action |-> CircuitOpen(cooldown)]

post_data_protocol_close(p, reason) == p.data_ever_received /\ reason = "ProtocolRejection"

\* a failure of a closed circuit: count it, trip at the limit, back off below it
Backoff(p, reason) ==
    LET q == [p EXCEPT !.consecutive_failures = @ + 1]
        base == p.current_delay * suggested_delay_factor(reason)
    IN  IF max_attempts # 0 /\ q.consecutive_failures >= max_attempts
        THEN {Trip(q, 4 * max_delay)}
        ELSE {[policy |-> [q EXCEPT !.current_delay = Least(2 * @, max_delay)],
               action |-> RetryAfter(d)] : d \in Jittered(base)}

\* Mutant: a failed probe keeps doubling the cooldown past its cap.
next_action_uncapped(p, reason) ==
    IF ~is_retryable(reason) /\ ~post_data_protocol_close(p, reason)
    THEN {[policy |-> p, action |-> GiveUp]}
    ELSE CASE p.circuit_state = "Open" ->
                {[policy |-> [p EXCEPT !.circuit_state = "HalfOpen"], action |-> RetryAfter(initial_delay)]}
           [] p.circuit_state = "HalfOpen" ->
                {Trip(p, Least(2 * p.cooldown_duration, 16 * max_delay))}
           [] p.circuit_state = "Closed" /\ suggested_delay_factor(reason) = 0 ->
                {[policy |-> p, action |-> RetryImmediately]}
           [] OTHER -> Backoff(p, reason)

\* next_action: the outcomes, one per jitter draw.  An open circuit is asked
\* again only after its cooldown: it lets a probe through.
next_action(p, reason) ==
    IF ~is_retryable(reason) /\ ~post_data_protocol_close(p, reason)
    THEN {[policy |-> p, action |-> GiveUp]}
    ELSE CASE p.circuit_state = "Open" ->
                {[policy |-> [p EXCEPT !.circuit_state = "HalfOpen"], action |-> RetryAfter(initial_delay)]}
           [] p.circuit_state = "HalfOpen" ->
                {Trip(p, Least(2 * p.cooldown_duration, 8 * max_delay))}
           [] p.circuit_state = "Closed" /\ suggested_delay_factor(reason) = 0 ->
                {[policy |-> p, action |-> RetryImmediately]}
           [] OTHER -> Backoff(p, reason)

on_connected(p) ==
    [p EXCEPT !.consecutive_failures = 0, !.current_delay = initial_delay,
              !.cooldown_duration = 4 * max_delay, !.circuit_state = "Closed"]

on_message_received(p) ==
    [p EXCEPT !.current_delay = initial_delay, !.data_ever_received = TRUE]

=============================================================================

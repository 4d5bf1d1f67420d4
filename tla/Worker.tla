------------------------------- MODULE Worker -------------------------------
(***************************************************************************)
(* The life of one venue connection and of the worker that keeps one up:   *)
(*   transport  WssTransport::run_with_deadlines (framework/transport.rs)  *)
(*   driver     drive / drain_buffered           (framework/driver.rs)     *)
(*   runtime    SourceRuntime::run, seen from outside (framework/runtime)  *)
(*   worker     MarketWorker::run_framework (workers/market_worker.rs)     *)
(* are four tasks joined by bounded channels (`raw`, `dev`, `recon`), a    *)
(* watch that says shutdown, and a queue of commands.                      *)
(*                                                                         *)
(* Events have no identity here: a channel is its length.  What the        *)
(* runtime makes of events is module SourceRuntime, what the worker does   *)
(* with reconstructed ones is module MarketSync.  Nothing is bounded but   *)
(* what the code bounds, so the liveness properties are not an artefact of *)
(* a cut-off.                                                              *)
(***************************************************************************)
EXTENDS Feed, Reconnect

CONSTANTS
    Feeds,              \* the declared (instrument, datatype) feeds
    Capacity,           \* of each channel
    MaxNormalized,      \* events the normalizer makes of one frame, at most
    NoFeed,             \* a reconstructed event that belongs to no feed (a settlement)
    VenueExits,         \* the ways this venue ends an open connection
    Commands            \* the commands the registry sends

ASSUME WorkerAssumption ==
    /\ Capacity \in Nat \ {0} /\ MaxNormalized \in Nat \ {0} /\ NoFeed \notin Feeds
    /\ VenueExits \subseteq Exits \ {"ReceiverDropped", "SubscriptionRejected"}
    /\ Commands \subseteq {"Pause", "Resume", "Stop", "Restart"}

VARIABLES
    transport,   \* [at, exit, streamed]
    driver,      \* [at, exit, left]: left = normalized events still to send
    runtime,     \* [at, feed]: feed = the feed of the event it is sending
    raw, dev, recon,                       \* channel lengths
    worker,                                \* where run_framework stands
    feeds, policy, gap_open, connection_live, stopped, paused, drain_partial,
    connection_state, wait,                \* wait = the backoff it sleeps
    shutdown, command

tasks == <<transport, driver, runtime, raw, dev, recon>>
worker_vars == <<worker, policy, gap_open, connection_live, stopped, paused,
                 drain_partial, connection_state, wait>>
vars == <<tasks, feeds, worker_vars, shutdown, command>>

TransportAt == {"off", "connecting", "open", "sending", "ended"}
DriverAt == {"off", "run", "sending", "closing", "draining", "drain_send", "exited"}
RuntimeAt == {"off", "run", "sending", "returned"}
WorkerAt == {"top", "inner", "joining", "policy", "waiting", "end", "flush", "done"}

NoExit == "none"
NoCommand == "none"
TaskExits == {"Completed", "DrainTimedOut"} \cup Reasons

NoTransport == [at |-> "off", exit |-> NoExit, streamed |-> FALSE]
NoDriver == [at |-> "off", exit |-> NoExit, left |-> 0]
NoRuntime == [at |-> "off", feed |-> NoFeed]

Init ==
    /\ transport = NoTransport /\ driver = NoDriver /\ runtime = NoRuntime
    /\ raw = 0 /\ dev = 0 /\ recon = 0
    /\ worker = "top" /\ feeds = [f \in Feeds |-> "Requested"]
    /\ policy = NewPolicy /\ gap_open = FALSE /\ connection_live = FALSE
    /\ stopped = FALSE /\ paused = FALSE /\ drain_partial = FALSE
    /\ connection_state = "Connecting" /\ wait = 0
    /\ shutdown = FALSE /\ command = NoCommand

-----------------------------------------------------------------------------
(* The caller: the process shutdown, and the registry's commands            *)

SignalShutdown ==
    /\ ~shutdown /\ shutdown' = TRUE
    /\ UNCHANGED <<tasks, feeds, worker_vars, command>>

send_command(c) ==
    /\ worker # "done" /\ command = NoCommand /\ command' = c
    /\ UNCHANGED <<tasks, feeds, worker_vars, shutdown>>

-----------------------------------------------------------------------------
(* Transport                                                               *)

Finish(exit) == transport' = [transport EXCEPT !.at = "ended", !.exit = exit]

TransportErrors == {"Io", "Protocol", "ProtocolReset"}

\* prepare, connect and subscribe: none of them watches the shutdown
ConnectOk ==
    /\ transport.at = "connecting" /\ transport' = [transport EXCEPT !.at = "open"]
    /\ UNCHANGED <<driver, runtime, raw, dev, recon, feeds, worker_vars, shutdown, command>>

ConnectFails ==
    /\ transport.at = "connecting"
    /\ \E exit \in (VenueExits \cap TransportErrors) \cup {"ConnectionFailed"} : Finish(exit)
    /\ UNCHANGED <<driver, runtime, raw, dev, recon, feeds, worker_vars, shutdown, command>>

\* The read loop's own deadlines and write failures, and what the venue ends it by
ConnectionLost ==
    /\ transport.at = "open"
    /\ \E exit \in VenueExits : Finish(exit)
    /\ UNCHANGED <<driver, runtime, raw, dev, recon, feeds, worker_vars, shutdown, command>>

ack_rejection_exit(streamed) ==
    IF streamed THEN "ConnectionFailed" ELSE "SubscriptionRejected"

\* an explicit rejection, or the deadline while acks are missing
AckRejected ==
    /\ transport.at = "open" /\ Finish(ack_rejection_exit(transport.streamed))
    /\ UNCHANGED <<driver, runtime, raw, dev, recon, feeds, worker_vars, shutdown, command>>

TransportShutdown ==
    /\ transport.at = "open" /\ shutdown /\ Finish("StreamEnded")
    /\ UNCHANGED <<driver, runtime, raw, dev, recon, feeds, worker_vars, shutdown, command>>

\* a data frame decodes: the loop is parked in its send until there is room
Decode ==
    /\ transport.at = "open"
    /\ transport' = [transport EXCEPT !.at = "sending", !.streamed = TRUE]
    /\ UNCHANGED <<driver, runtime, raw, dev, recon, feeds, worker_vars, shutdown, command>>

TransportSend ==
    /\ transport.at = "sending" /\ raw < Capacity
    /\ raw' = raw + 1 /\ transport' = [transport EXCEPT !.at = "open"]
    /\ UNCHANGED <<driver, runtime, dev, recon, feeds, worker_vars, shutdown, command>>

TransportOver == transport.at \in {"off", "ended"}

-----------------------------------------------------------------------------
(* Driver                                                                  *)

RuntimeOver == runtime.at \in {"off", "returned"}
DriverOver == driver.at \in {"off", "exited"}

DriverExit(exit) == driver' = [at |-> "exited", exit |-> exit, left |-> 0]

\* abort(): the transport's future is dropped where it stands
AbortTransport ==
    transport' = [transport EXCEPT !.at = "ended", !.exit = IF @ = NoExit THEN "StreamEnded" ELSE @]

DriverShutdown ==
    /\ driver.at = "run" /\ shutdown
    /\ driver' = [driver EXCEPT !.at = "closing"]
    /\ UNCHANGED <<transport, runtime, raw, dev, recon, feeds, worker_vars, shutdown, command>>

\* CLOSE_HANDSHAKE_TIMEOUT: the transport has ended, or is aborted
DriverCloses ==
    /\ driver.at = "closing"
    /\ driver' = [driver EXCEPT !.at = "draining"]
    /\ AbortTransport
    /\ UNCHANGED <<runtime, raw, dev, recon, feeds, worker_vars, shutdown, command>>

Normalize(sending, idle) ==
    \E n \in 0 .. MaxNormalized :
        /\ raw' = raw - 1
        /\ driver' = [driver EXCEPT !.at = IF n = 0 THEN idle ELSE sending, !.left = n]
        /\ UNCHANGED <<transport, runtime, dev, recon, feeds, worker_vars, shutdown, command>>

DriverTake == driver.at = "run" /\ raw > 0 /\ Normalize("sending", "run")

SendNormalized(idle) ==
    /\ ~RuntimeOver /\ dev < Capacity /\ dev' = dev + 1
    /\ driver' = [driver EXCEPT !.left = @ - 1, !.at = IF driver.left = 1 THEN idle ELSE driver.at]
    /\ UNCHANGED <<transport, runtime, raw, recon, feeds, worker_vars, shutdown, command>>

DriverSend == driver.at = "sending" /\ SendNormalized("run")

\* Mutant: the driver leaves without aborting its transport.
DriverSendFails_leak ==
    /\ driver.at = "sending" /\ RuntimeOver
    /\ DriverExit("Completed")
    /\ UNCHANGED <<transport, runtime, raw, dev, recon, feeds, worker_vars, shutdown, command>>

\* Mutant: a failed send is ignored.
DriverSendFails_ignored ==
    /\ driver.at = "sending" /\ RuntimeOver
    /\ driver' = [driver EXCEPT !.at = "run", !.left = 0]
    /\ UNCHANGED <<transport, runtime, raw, dev, recon, feeds, worker_vars, shutdown, command>>

\* the runtime dropped dev_rx
DriverSendFails ==
    /\ driver.at = "sending" /\ RuntimeOver
    /\ AbortTransport /\ DriverExit("Completed")
    /\ UNCHANGED <<runtime, raw, dev, recon, feeds, worker_vars, shutdown, command>>

\* raw_rx yields None: drained and the transport is gone
DriverEnds ==
    /\ driver.at = "run" /\ raw = 0 /\ transport.at = "ended"
    /\ IF shutdown THEN driver' = [driver EXCEPT !.at = "draining"]
                   ELSE DriverExit(exit_to_task(transport.exit))
    /\ UNCHANGED <<transport, runtime, raw, dev, recon, feeds, worker_vars, shutdown, command>>

\* drain_buffered, bounded by STOP_DRAIN_TIMEOUT
DrainTake == driver.at = "draining" /\ raw > 0 /\ Normalize("drain_send", "draining")

DrainSend == driver.at = "drain_send" /\ SendNormalized("draining")

DrainDone ==
    /\ \/ driver.at = "draining" /\ raw = 0
       \/ driver.at = "drain_send" /\ RuntimeOver
    /\ DriverExit("Completed")
    /\ UNCHANGED <<transport, runtime, raw, dev, recon, feeds, worker_vars, shutdown, command>>

DrainTimesOut ==
    /\ driver.at \in {"draining", "drain_send"} /\ DriverExit("DrainTimedOut")
    /\ UNCHANGED <<transport, runtime, raw, dev, recon, feeds, worker_vars, shutdown, command>>

-----------------------------------------------------------------------------
(* Runtime, from outside: what it may do with an event                      *)

\* Mutant: recon_rx is kept while the tasks are joined.
ReconOpen_kept == worker \in {"inner", "joining"}

\* recon_rx lives as long as the worker's inner loop
ReconOpen == worker = "inner"

RuntimeReturns == runtime' = [at |-> "returned", feed |-> NoFeed]

\* the select loop; it is biased, and looks at the shutdown first
Selecting == runtime.at = "run" /\ ~shutdown

\* what a turn takes up: an event of the driver, or what came of a seed fetch
Takes == \/ dev > 0 /\ dev' = dev - 1
         \/ UNCHANGED dev

RuntimeShutdown ==
    /\ runtime.at = "run" /\ shutdown /\ RuntimeReturns
    /\ UNCHANGED <<transport, driver, raw, dev, recon, feeds, worker_vars, shutdown, command>>

RuntimeEnds ==
    /\ Selecting /\ dev = 0 /\ driver.at = "exited" /\ RuntimeReturns
    /\ UNCHANGED <<transport, driver, raw, dev, recon, feeds, worker_vars, shutdown, command>>

\* an event that yields nothing: buffered, stale, a duplicate
RuntimeAbsorbs ==
    /\ Selecting /\ dev > 0 /\ dev' = dev - 1
    /\ UNCHANGED <<transport, driver, runtime, raw, recon, feeds, worker_vars, shutdown, command>>

\* a gap, or a seed that does not fit: the book is seeded again in place
RuntimeReseeds(f) ==
    /\ Selecting /\ Takes
    /\ feeds' = [feeds EXCEPT ![f] = mark_resubscribing(@)]
    /\ UNCHANGED <<transport, driver, runtime, raw, recon, worker_vars, shutdown, command>>

\* a gap no seed mends, no seed in time, or dropped messages: the caller is to reconnect
RuntimeResyncs ==
    /\ Selecting /\ Takes /\ RuntimeReturns
    /\ UNCHANGED <<transport, driver, raw, recon, feeds, worker_vars, shutdown, command>>

RuntimeEmits(f) ==
    /\ Selecting /\ Takes
    /\ runtime' = [at |-> "sending", feed |-> f]
    /\ UNCHANGED <<transport, driver, raw, recon, feeds, worker_vars, shutdown, command>>

\* the send went through: its feed is live, or will be when the replay after a seed is
RuntimeSend ==
    /\ runtime.at = "sending" /\ ReconOpen /\ recon < Capacity /\ recon' = recon + 1
    /\ runtime' = [at |-> "run", feed |-> NoFeed]
    /\ \/ feeds' = [f \in Feeds |-> IF f = runtime.feed THEN mark_live(feeds[f]) ELSE feeds[f]]
       \/ UNCHANGED feeds
    /\ UNCHANGED <<transport, driver, raw, dev, worker_vars, shutdown, command>>

RuntimeSendFails ==
    /\ runtime.at = "sending" /\ ~ReconOpen /\ RuntimeReturns
    /\ UNCHANGED <<transport, driver, raw, dev, recon, feeds, worker_vars, shutdown, command>>

RuntimeStale(f) ==
    /\ Selecting /\ feeds[f] = "Live"
    /\ feeds' = [feeds EXCEPT ![f] = mark_stale(@)]
    /\ UNCHANGED <<tasks, worker_vars, shutdown, command>>

-----------------------------------------------------------------------------
(* Worker: the reconnect loop                                               *)

mark_all(next) == feeds' = [f \in Feeds |-> mark_each_live(feeds[f], next)]

Connect ==
    /\ worker = "top" /\ ~stopped /\ ~shutdown
    /\ mark_all("Subscribing")
    /\ transport' = [NoTransport EXCEPT !.at = "connecting"]
    /\ driver' = [NoDriver EXCEPT !.at = "run"]
    /\ runtime' = [NoRuntime EXCEPT !.at = "run"]
    /\ raw' = 0 /\ dev' = 0 /\ recon' = 0
    /\ connection_live' = FALSE /\ worker' = "inner"
    /\ connection_state' = IF connection_state = "Reconnecting" THEN connection_state ELSE "Connecting"
    /\ UNCHANGED <<policy, gap_open, stopped, paused, drain_partial, wait, shutdown, command>>

LeaveTop ==
    /\ worker = "top" /\ (stopped \/ shutdown) /\ worker' = "end"
    /\ UNCHANGED <<tasks, feeds, policy, gap_open, connection_live, stopped, paused,
                   drain_partial, connection_state, wait, shutdown, command>>

InnerShutdown ==
    /\ worker = "inner" /\ shutdown /\ stopped' = TRUE /\ worker' = "joining"
    /\ UNCHANGED <<tasks, feeds, policy, gap_open, connection_live, paused,
                   drain_partial, connection_state, wait, shutdown, command>>

\* a reconstructed event; the first one proves the link and closes the gap
InnerEvent ==
    /\ worker = "inner" /\ recon > 0 /\ recon' = recon - 1
    /\ connection_state' = "Streaming" /\ connection_live' = TRUE
    /\ gap_open' = (gap_open /\ connection_live)
    /\ policy' = on_message_received(IF connection_live THEN policy ELSE on_connected(policy))
    /\ UNCHANGED <<transport, driver, runtime, raw, dev, feeds, worker, stopped, paused,
                   drain_partial, wait, shutdown, command>>

InnerEnds ==
    /\ worker = "inner" /\ recon = 0 /\ runtime.at = "returned" /\ worker' = "joining"
    /\ UNCHANGED <<tasks, feeds, policy, gap_open, connection_live, stopped, paused,
                   drain_partial, connection_state, wait, shutdown, command>>

InnerCommand ==
    /\ worker = "inner" /\ command # NoCommand /\ command' = NoCommand
    /\ stopped' = (command \in {"Stop", "Restart"})
    /\ worker' = IF command \in {"Stop", "Restart"} THEN "joining" ELSE worker
    /\ paused' = IF command \in {"Pause", "Resume"} THEN command = "Pause" ELSE paused
    /\ connection_state' = CASE command = "Pause" -> "Paused"
                             [] command = "Resume" -> "Streaming"
                             [] OTHER -> connection_state
    /\ UNCHANGED <<tasks, feeds, policy, gap_open, connection_live, drain_partial, wait, shutdown>>

\* The handles are consumed.  Only what has ended is forgotten.
Reap ==
    /\ transport' = IF TransportOver THEN NoTransport ELSE transport
    /\ runtime' = NoRuntime /\ raw' = 0 /\ dev' = 0 /\ recon' = 0

\* Mutant: only the adapter is joined.
JoinStopped_hasty ==
    /\ worker = "joining" /\ driver.at = "exited"
    /\ stopped \/ shutdown
    /\ drain_partial' = (driver.exit = "DrainTimedOut")
    /\ worker' = "end" /\ driver' = NoDriver
    /\ UNCHANGED <<transport, runtime, raw, dev, recon, feeds, policy, gap_open, connection_live, stopped, paused,
                   connection_state, wait, shutdown, command>>

JoinStopped ==
    /\ worker = "joining" /\ driver.at = "exited" /\ runtime.at = "returned"
    /\ stopped \/ shutdown
    /\ drain_partial' = (driver.exit = "DrainTimedOut")
    /\ worker' = "end" /\ driver' = NoDriver /\ Reap
    /\ UNCHANGED <<feeds, policy, gap_open, connection_live, stopped, paused,
                   connection_state, wait, shutdown, command>>

\* an unexpected end: the coverage gap opens, or stays open
JoinLost ==
    /\ worker = "joining" /\ driver.at = "exited" /\ runtime.at = "returned"
    /\ ~stopped /\ ~shutdown
    /\ gap_open' = TRUE /\ connection_state' = "Reconnecting"
    /\ mark_all("Reconnecting")
    /\ worker' = "policy" /\ Reap /\ UNCHANGED driver
    /\ UNCHANGED <<policy, connection_live, stopped, paused, drain_partial, wait,
                   shutdown, command>>

\* reconnect_policy.next_action, and what the worker does about its answer
DecideReconnect ==
    /\ worker = "policy"
    /\ \E o \in next_action(policy, policy_reason(driver.exit)) :
        /\ o.action.act # "GiveUp"
        /\ policy' = o.policy /\ wait' = o.action.wait
        /\ worker' = IF o.action.act = "RetryImmediately" THEN "top" ELSE "waiting"
    /\ driver' = NoDriver
    /\ UNCHANGED <<transport, runtime, raw, dev, recon, feeds, gap_open, connection_live,
                   stopped, paused, drain_partial, connection_state, shutdown, command>>

DecideGiveUp ==
    /\ worker = "policy"
    /\ \E o \in next_action(policy, policy_reason(driver.exit)) :
        o.action.act = "GiveUp" /\ policy' = o.policy
    /\ mark_all(IF driver.exit \in Rejections THEN "Rejected" ELSE "Failed")
    /\ connection_state' = "Disconnected" /\ stopped' = TRUE /\ worker' = "top"
    /\ driver' = NoDriver
    /\ UNCHANGED <<transport, runtime, raw, dev, recon, gap_open, connection_live,
                   paused, drain_partial, wait, shutdown, command>>

WaitOver ==
    /\ worker = "waiting" /\ worker' = "top" /\ wait' = 0
    /\ UNCHANGED <<tasks, feeds, policy, gap_open, connection_live, stopped, paused,
                   drain_partial, connection_state, shutdown, command>>

\* the sleep watches the shutdown, not the commands
WaitShutdown ==
    /\ worker = "waiting" /\ shutdown /\ worker' = "end" /\ wait' = 0
    /\ UNCHANGED <<tasks, feeds, policy, gap_open, connection_live, stopped, paused,
                   drain_partial, connection_state, shutdown, command>>

\* Mutant: a gap still open at the end is not recorded.
EndDrain_forgets ==
    /\ worker = "end" /\ mark_all("Draining") /\ worker' = "flush"
    /\ UNCHANGED <<tasks, policy, gap_open, connection_live, stopped, paused, drain_partial,
                   connection_state, wait, shutdown, command>>

\* a gap still open is recorded; the feeds drain
EndDrain ==
    /\ worker = "end" /\ gap_open' = FALSE /\ mark_all("Draining") /\ worker' = "flush"
    /\ UNCHANGED <<tasks, policy, connection_live, stopped, paused, drain_partial,
                   connection_state, wait, shutdown, command>>

\* finalize, the last flush, and the feeds' terminal state
EndClose ==
    /\ worker = "flush" /\ mark_all("Closed")
    /\ worker' = "done" /\ connection_state' = "Disconnected"
    /\ UNCHANGED <<tasks, policy, gap_open, connection_live, stopped, paused, drain_partial,
                   wait, shutdown, command>>

-----------------------------------------------------------------------------

Caller == SignalShutdown \/ \E c \in Commands : send_command(c)

\* what the venue does, at its own pace or never
Venue == ConnectOk \/ ConnectionLost \/ AckRejected \/ Decode

TransportStep == TransportShutdown \/ TransportSend

DriverStep == DriverShutdown \/ DriverCloses \/ DriverTake \/ DriverSend \/ DriverSendFails
              \/ DriverEnds \/ DrainTake \/ DrainSend \/ DrainDone \/ DrainTimesOut

RuntimeStep == RuntimeShutdown \/ RuntimeEnds \/ RuntimeAbsorbs \/ RuntimeSend \/ RuntimeSendFails
               \/ RuntimeResyncs \/ (\E f \in Feeds : RuntimeReseeds(f))
               \/ (\E f \in Feeds \cup {NoFeed} : RuntimeEmits(f))

WorkerStep == Connect \/ LeaveTop \/ InnerShutdown \/ InnerEvent \/ InnerEnds \/ InnerCommand
              \/ JoinStopped \/ JoinLost \/ DecideReconnect \/ DecideGiveUp
              \/ WaitOver \/ WaitShutdown \/ EndDrain \/ EndClose

Next == \/ Caller \/ Venue \/ ConnectFails
        \/ TransportStep \/ DriverStep \/ RuntimeStep \/ WorkerStep
        \/ \E f \in Feeds : RuntimeStale(f)

(***************************************************************************)
(* The tasks run: each takes a step when it can, and a connect attempt     *)
(* ends by its timeout.  tokio's select! polls its ready arms in random    *)
(* order: the worker's shutdown arm stays ready, so it is taken; the       *)
(* driver's is ready every time it comes back from a send, so it is too.   *)
(***************************************************************************)
Fairness ==
    /\ WF_vars(TransportStep) /\ WF_vars(DriverStep) /\ WF_vars(RuntimeStep) /\ WF_vars(WorkerStep)
    /\ WF_vars(ConnectFails \/ ConnectOk)
    /\ WF_vars(InnerShutdown) /\ SF_vars(DriverShutdown)

Spec == Init /\ [][Next]_vars /\ Fairness

-----------------------------------------------------------------------------
(* Safety                                                                  *)

(***************************************************************************)
(* One connection at a time: outside the loop that serves a connection and *)
(* its join, no transport, driver or runtime of an earlier connection is   *)
(* left running.  The driver's two ways out must each have ended the       *)
(* transport first, and the worker must await both of its handles.         *)
(***************************************************************************)
NoOrphans ==
    worker \notin {"inner", "joining"} =>
        TransportOver /\ RuntimeOver /\ DriverOver

(***************************************************************************)
(* Feed states follow feed.rs's transition graph although two tasks write  *)
(* them: a runtime that outlived its connection would mark a feed that is  *)
(* waiting to reconnect, or already draining.                              *)
(***************************************************************************)
FeedEdgesLegal ==
    [][\A f \in Feeds : feeds'[f] # feeds[f] => can_transition_to(feeds[f], feeds'[f])]_vars

(***************************************************************************)
(* The gap ledger never under-reports: while a feed waits for a            *)
(* reconnection its outage is open, an open outage survives failed         *)
(* attempts, and it is recorded exactly when an event proves the link      *)
(* again or the worker ends.                                               *)
(***************************************************************************)
OutageAccounted ==
    /\ (\E f \in Feeds : feeds[f] = "Reconnecting") => gap_open
    /\ connection_state = "Reconnecting" /\ worker # "flush" => gap_open
    /\ connection_live /\ worker = "inner" => ~gap_open
    /\ worker = "done" => ~gap_open

(***************************************************************************)
(* The backoff is what the policy promises: its delay stays between the    *)
(* initial and the maximal one, a closed circuit has failed fewer times    *)
(* than the limit, an open one sleeps its whole cooldown, four to eight    *)
(* maximal delays long, and no sleep is shorter than the initial delay.    *)
(***************************************************************************)
BackoffBounded ==
    /\ policy.current_delay \in initial_delay .. max_delay
    /\ policy.cooldown_duration \in (4 * max_delay) .. (8 * max_delay)
    /\ max_attempts # 0 /\ policy.circuit_state = "Closed" =>
           policy.consecutive_failures < max_attempts
    /\ worker = "waiting" => wait >= initial_delay
    /\ worker = "waiting" /\ policy.circuit_state = "Open" => wait = policy.cooldown_duration

-----------------------------------------------------------------------------
(* Liveness                                                                *)

(***************************************************************************)
(* A signalled shutdown ends the worker whatever the venue does: through a *)
(* parked send, a connect in progress, a drain nobody reads, a backoff.    *)
(***************************************************************************)
ShutdownEnds == shutdown ~> (worker = "done")

\* A venue that keeps sending: an open socket, an idle driver and an idle
\* runtime each get something to pass on, or end.
ActiveVenue ==
    []<>(transport.at # "open") /\ []<>(driver.at # "run") /\ []<>(runtime.at # "run")

(***************************************************************************)
(* A worker that was told to stop ends, on an active venue: the stop       *)
(* reaches the adapter only as a failed send, from the worker to the       *)
(* runtime to the driver, so each needs an event to notice.                *)
(***************************************************************************)
StopEnds == ActiveVenue => (stopped ~> (worker = "done"))

(***************************************************************************)
(* market_worker.rs: "Run the synchronised ingestion loop until `shutdown` *)
(* signals `true` or a [`WorkerCommand::Stop`] is received."               *)
(***************************************************************************)
StopEndsQuiet == stopped ~> (worker = "done")

=============================================================================

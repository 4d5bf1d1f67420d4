---------------------------- MODULE WorkerProofs ----------------------------
(***************************************************************************)
(* What Worker.cfg checks for one feed and channels of one slot, for any   *)
(* set of feeds, any capacity, any delays and any limit on attempts.       *)
(*                                                                         *)
(* The argument: a driver that has left its loop has ended its transport   *)
(* (TaskInv), so once the worker has joined both handles nothing of the    *)
(* connection runs.  Only a running runtime and the worker itself mark     *)
(* feeds, so where the worker stands bounds the states of every feed       *)
(* (FeedInv), which is what makes each mark an edge of the graph.          *)
(***************************************************************************)
EXTENDS Worker, TLAPS

USE SMTT(20), ZenonT(20)

-----------------------------------------------------------------------------
(* Who writes what                                                         *)

\* The transport's own steps, an abort, a new connection and the join.
LEMMA TransportWriters ==
  [Next]_vars =>
    \/ UNCHANGED transport
    \/ ConnectOk \/ ConnectFails \/ ConnectionLost \/ AckRejected
    \/ TransportShutdown \/ Decode \/ TransportSend \/ DriverCloses
    \/ DriverSendFails \/ Connect \/ JoinStopped \/ JoinLost
BY Zenon DEF Next, Caller, Venue, TransportStep, DriverStep, RuntimeStep, WorkerStep,
  vars, tasks, worker_vars, SignalShutdown, send_command, DriverShutdown, DriverTake,
  DriverSend, DriverEnds, DrainTake, DrainSend, DrainDone, DrainTimesOut, RuntimeShutdown,
  RuntimeEnds, RuntimeAbsorbs, RuntimeReseeds, RuntimeResyncs, RuntimeEmits, RuntimeSend,
  RuntimeSendFails,
  RuntimeStale, LeaveTop, InnerShutdown, InnerEvent, InnerEnds, InnerCommand,
  DecideReconnect, DecideGiveUp, WaitOver, WaitShutdown, EndDrain, EndClose, Normalize,
  SendNormalized

\* The driver's own steps, a new connection, and the worker that reads its exit.
LEMMA DriverWriters ==
  [Next]_vars =>
    \/ UNCHANGED driver
    \/ DriverShutdown \/ DriverCloses \/ DriverTake \/ DriverSend
    \/ DriverSendFails \/ DriverEnds \/ DrainTake \/ DrainSend \/ DrainDone
    \/ DrainTimesOut \/ Connect \/ JoinStopped \/ DecideReconnect \/ DecideGiveUp
BY Zenon DEF Next, Caller, Venue, TransportStep, DriverStep, RuntimeStep, WorkerStep,
  vars, tasks, worker_vars, SignalShutdown, send_command, ConnectOk, ConnectFails,
  ConnectionLost, AckRejected, TransportShutdown, Decode, TransportSend, RuntimeShutdown,
  RuntimeEnds, RuntimeAbsorbs, RuntimeReseeds, RuntimeResyncs, RuntimeEmits, RuntimeSend,
  RuntimeSendFails,
  RuntimeStale, LeaveTop, InnerShutdown, InnerEvent, InnerEnds, InnerCommand, JoinLost,
  WaitOver, WaitShutdown, EndDrain, EndClose

\* The runtime's own steps, a new connection and the join.
LEMMA RuntimeWriters ==
  [Next]_vars =>
    \/ UNCHANGED runtime
    \/ RuntimeShutdown \/ RuntimeEnds \/ RuntimeResyncs
    \/ (\E f \in Feeds \cup {NoFeed} : RuntimeEmits(f)) \/ RuntimeSend
    \/ RuntimeSendFails \/ Connect \/ JoinStopped \/ JoinLost
BY Zenon DEF Next, Caller, Venue, TransportStep, DriverStep, RuntimeStep, WorkerStep,
  vars, tasks, worker_vars, SignalShutdown, send_command, ConnectOk, ConnectFails,
  ConnectionLost, AckRejected, TransportShutdown, Decode, TransportSend, DriverShutdown,
  DriverCloses, DriverTake, DriverSend, DriverSendFails, DriverEnds, DrainTake, DrainSend,
  DrainDone, DrainTimesOut, RuntimeAbsorbs, RuntimeReseeds, RuntimeStale, LeaveTop, InnerShutdown,
  InnerEvent, InnerEnds, InnerCommand, DecideReconnect, DecideGiveUp, WaitOver,
  WaitShutdown, EndDrain, EndClose, Normalize, SendNormalized

\* Every step that moves one of the four tasks.
LEMMA TaskWriters ==
  [Next]_vars =>
    \/ UNCHANGED <<transport, driver, runtime, worker>>
    \/ ConnectOk \/ ConnectFails \/ ConnectionLost \/ AckRejected
    \/ TransportShutdown \/ Decode \/ TransportSend \/ DriverShutdown
    \/ DriverCloses \/ DriverTake \/ DriverSend \/ DriverSendFails \/ DriverEnds
    \/ DrainTake \/ DrainSend \/ DrainDone \/ DrainTimesOut \/ RuntimeShutdown
    \/ RuntimeEnds \/ RuntimeResyncs
    \/ (\E f \in Feeds \cup {NoFeed} : RuntimeEmits(f)) \/ RuntimeSend
    \/ RuntimeSendFails \/ Connect \/ LeaveTop \/ InnerShutdown \/ InnerEnds
    \/ InnerCommand \/ JoinStopped \/ JoinLost \/ DecideReconnect \/ DecideGiveUp
    \/ WaitOver \/ WaitShutdown \/ EndDrain \/ EndClose
BY Zenon DEF Next, Caller, Venue, TransportStep, DriverStep, RuntimeStep, WorkerStep,
  vars, tasks, worker_vars, SignalShutdown, send_command, RuntimeAbsorbs, RuntimeReseeds, RuntimeStale,
  InnerEvent

\* The marks, and every step that changes which marks may come next.
LEMMA FeedWriters ==
  [Next]_vars =>
    \/ UNCHANGED <<feeds, worker, stopped>>
    \/ (\E f \in Feeds : RuntimeReseeds(f)) \/ RuntimeSend
    \/ (\E f \in Feeds : RuntimeStale(f)) \/ Connect \/ LeaveTop \/ InnerShutdown
    \/ InnerEnds \/ InnerCommand \/ JoinStopped \/ JoinLost \/ DecideReconnect
    \/ DecideGiveUp \/ WaitOver \/ WaitShutdown \/ EndDrain \/ EndClose
BY Zenon DEF Next, Caller, Venue, TransportStep, DriverStep, RuntimeStep, WorkerStep,
  vars, tasks, worker_vars, SignalShutdown, send_command, ConnectOk, ConnectFails,
  ConnectionLost, AckRejected, TransportShutdown, Decode, TransportSend, DriverShutdown,
  DriverCloses, DriverTake, DriverSend, DriverSendFails, DriverEnds, DrainTake, DrainSend,
  DrainDone, DrainTimesOut, RuntimeShutdown, RuntimeEnds, RuntimeAbsorbs, RuntimeResyncs, RuntimeEmits,
  RuntimeSendFails, InnerEvent, Normalize, SendNormalized

\* Every step the account of outages depends on.
LEMMA GapWriters ==
  [Next]_vars =>
    \/ UNCHANGED <<feeds, worker, gap_open, connection_live, connection_state>>
    \/ (\E f \in Feeds : RuntimeReseeds(f)) \/ RuntimeSend
    \/ (\E f \in Feeds : RuntimeStale(f)) \/ Connect \/ LeaveTop \/ InnerShutdown
    \/ InnerEvent \/ InnerEnds \/ InnerCommand \/ JoinStopped \/ JoinLost
    \/ DecideReconnect \/ DecideGiveUp \/ WaitOver \/ WaitShutdown \/ EndDrain
    \/ EndClose
BY Zenon DEF Next, Caller, Venue, TransportStep, DriverStep, RuntimeStep, WorkerStep,
  vars, tasks, worker_vars, SignalShutdown, send_command, ConnectOk, ConnectFails,
  ConnectionLost, AckRejected, TransportShutdown, Decode, TransportSend, DriverShutdown,
  DriverCloses, DriverTake, DriverSend, DriverSendFails, DriverEnds, DrainTake, DrainSend,
  DrainDone, DrainTimesOut, RuntimeShutdown, RuntimeEnds, RuntimeAbsorbs, RuntimeResyncs, RuntimeEmits,
  RuntimeSendFails, Normalize, SendNormalized

\* Every step the backoff depends on.
LEMMA PolicyWriters ==
  [Next]_vars =>
    \/ UNCHANGED <<policy, wait, worker>>
    \/ Connect \/ LeaveTop \/ InnerShutdown \/ InnerEvent \/ InnerEnds
    \/ InnerCommand \/ JoinStopped \/ JoinLost \/ DecideReconnect \/ DecideGiveUp
    \/ WaitOver \/ WaitShutdown \/ EndDrain \/ EndClose
BY Zenon DEF Next, Caller, Venue, TransportStep, DriverStep, RuntimeStep, WorkerStep,
  vars, tasks, worker_vars, SignalShutdown, send_command, ConnectOk, ConnectFails,
  ConnectionLost, AckRejected, TransportShutdown, Decode, TransportSend, DriverShutdown,
  DriverCloses, DriverTake, DriverSend, DriverSendFails, DriverEnds, DrainTake, DrainSend,
  DrainDone, DrainTimesOut, RuntimeShutdown, RuntimeEnds, RuntimeAbsorbs, RuntimeReseeds, RuntimeResyncs,
  RuntimeEmits, RuntimeSend, RuntimeSendFails, RuntimeStale, Normalize, SendNormalized

-----------------------------------------------------------------------------
(* Records keep their shape                                                *)

TransportInv == transport \in [at : TransportAt, exit : Exits \cup {NoExit}, streamed : BOOLEAN]

DriverInv ==
    /\ driver \in [at : DriverAt, exit : TaskExits \cup {NoExit}, left : 0 .. MaxNormalized]
    /\ driver.at \in {"sending", "drain_send"} => driver.left > 0

RuntimeInv == runtime \in [at : RuntimeAt, feed : Feeds \cup {NoFeed}]

LEMMA TransportStays == TransportInv /\ [Next]_vars => TransportInv'
<1> SUFFICES ASSUME TransportInv, [Next]_vars PROVE TransportInv'
  OBVIOUS
<1> USE DEF TransportInv, TransportAt
<1>1. CASE UNCHANGED transport
  BY <1>1
<1>2. CASE ConnectOk \/ Decode \/ TransportSend
  BY <1>2 DEF ConnectOk, Decode, TransportSend
<1>3. CASE ConnectFails \/ AckRejected \/ TransportShutdown
  BY <1>3 DEF ConnectFails, AckRejected, TransportShutdown, Finish, TransportErrors,
     ack_rejection_exit, Exits
<1>4. CASE ConnectionLost
  BY <1>4, WorkerAssumption DEF ConnectionLost, Finish, WorkerAssumption
<1>5. CASE DriverCloses \/ DriverSendFails
  BY <1>5 DEF DriverCloses, DriverSendFails, AbortTransport, Exits, NoExit
<1>6. CASE Connect \/ JoinStopped \/ JoinLost
  <2>1. NoTransport \in [at : TransportAt, exit : Exits \cup {NoExit}, streamed : BOOLEAN]
    BY DEF NoTransport
  <2> QED BY <1>6, <2>1 DEF Connect, JoinStopped, JoinLost, Reap
<1> QED BY <1>1, <1>2, <1>3, <1>4, <1>5, <1>6, TransportWriters

LEMMA DriverStays == DriverInv /\ [Next]_vars => DriverInv'
<1> SUFFICES ASSUME DriverInv, [Next]_vars PROVE DriverInv'
  OBVIOUS
<1> USE WorkerAssumption DEF DriverInv, DriverAt, WorkerAssumption
<1>1. CASE UNCHANGED driver
  BY <1>1
<1>2. CASE DriverShutdown \/ DriverCloses
  BY <1>2 DEF DriverShutdown, DriverCloses
<1>3. CASE DriverTake \/ DrainTake
  <2>1. PICK n \in 0 .. MaxNormalized, a \in {"run", "draining"}, b \in {"sending", "drain_send"} :
          driver' = [driver EXCEPT !.at = IF n = 0 THEN a ELSE b, !.left = n]
    BY <1>3 DEF DriverTake, DrainTake, Normalize
  <2>2. CASE n = 0
    BY <2>1, <2>2
  <2>3. CASE n > 0
    BY <2>1, <2>3
  <2> QED BY <2>2, <2>3
<1>4. CASE DriverSend \/ DrainSend
  <2>1. driver.left \in 1 .. MaxNormalized
    BY <1>4 DEF DriverSend, DrainSend
  <2>2. PICK a \in {"run", "draining"} :
          driver' = [driver EXCEPT !.left = driver.left - 1,
                                   !.at = IF driver.left = 1 THEN a ELSE driver.at]
    BY <1>4 DEF DriverSend, DrainSend, SendNormalized
  <2>3. driver.left - 1 \in 0 .. MaxNormalized /\ (driver.left # 1 => driver.left - 1 > 0)
    BY <2>1
  <2> DEFINE l == driver.left - 1
  <2> HIDE DEF l
  <2>4. l \in 0 .. MaxNormalized /\ (driver.left # 1 => l > 0)
    BY <2>3 DEF l
  <2>5. PICK b \in DriverAt : /\ driver' = [driver EXCEPT !.left = l, !.at = b]
                              /\ b \in {"sending", "drain_send"} => l > 0
    BY <2>2, <2>4 DEF l
  <2> QED BY <2>4, <2>5
<1>5. CASE DriverSendFails \/ DrainDone \/ DrainTimesOut
  BY <1>5 DEF DriverSendFails, DrainDone, DrainTimesOut, DriverExit, TaskExits
<1>6. CASE DriverEnds
  <2>1. exit_to_task(transport.exit) \in TaskExits
    BY DEF exit_to_task, TaskExits, Reasons, DisconnectReason, Exits
  <2> QED BY <1>6, <2>1 DEF DriverEnds, DriverExit
<1>7. CASE Connect \/ JoinStopped \/ DecideReconnect \/ DecideGiveUp
  BY <1>7 DEF Connect, JoinStopped, DecideReconnect, DecideGiveUp, NoDriver
<1> QED BY <1>1, <1>2, <1>3, <1>4, <1>5, <1>6, <1>7, DriverWriters

LEMMA RuntimeStays == RuntimeInv /\ [Next]_vars => RuntimeInv'
<1> SUFFICES ASSUME RuntimeInv, [Next]_vars PROVE RuntimeInv'
  OBVIOUS
<1> USE DEF RuntimeInv, RuntimeAt
<1>1. CASE UNCHANGED runtime
  BY <1>1
<1>2. CASE RuntimeShutdown \/ RuntimeEnds \/ RuntimeSendFails
  BY <1>2 DEF RuntimeShutdown, RuntimeEnds, RuntimeSendFails, RuntimeReturns
<1>3. CASE RuntimeResyncs
  BY <1>3 DEF RuntimeResyncs, RuntimeReturns
<1>4. ASSUME NEW f \in Feeds \cup {NoFeed}, RuntimeEmits(f) PROVE RuntimeInv'
  BY <1>4 DEF RuntimeEmits
<1>5. CASE RuntimeSend
  BY <1>5 DEF RuntimeSend
<1>6. CASE Connect \/ JoinStopped \/ JoinLost
  BY <1>6 DEF Connect, JoinStopped, JoinLost, Reap, NoRuntime
<1> QED BY <1>1, <1>2, <1>3, <1>4, <1>5, <1>6, RuntimeWriters

-----------------------------------------------------------------------------
(* No orphans                                                              *)

TaskInv ==
    /\ worker \in WorkerAt
    /\ NoOrphans
    /\ driver.at \in {"draining", "drain_send", "exited"} => TransportOver

ShapeInv == TransportInv /\ DriverInv /\ RuntimeInv

LEMMA TasksStay == ShapeInv /\ TaskInv /\ [Next]_vars => TaskInv'
<1> SUFFICES ASSUME ShapeInv, TaskInv, [Next]_vars PROVE TaskInv'
  OBVIOUS
<1> USE DEF ShapeInv, TransportInv, DriverInv, RuntimeInv, TaskInv, NoOrphans, TransportOver,
            DriverOver, RuntimeOver, WorkerAt
<1>1. CASE UNCHANGED <<transport, driver, runtime, worker>>
  BY <1>1
<1>2. CASE \/ ConnectOk \/ ConnectFails \/ ConnectionLost \/ AckRejected
           \/ TransportShutdown \/ Decode \/ TransportSend
  BY <1>2 DEF ConnectOk, ConnectFails, ConnectionLost, AckRejected, TransportShutdown,
     Decode, TransportSend, Finish, worker_vars
<1>3. CASE DriverShutdown \/ DriverCloses \/ DriverTake \/ DriverSend
  BY <1>3 DEF DriverShutdown, DriverCloses, DriverTake, DriverSend, Normalize,
     SendNormalized, AbortTransport, worker_vars
<1>4. CASE DriverSendFails \/ DriverEnds
  BY <1>4 DEF DriverSendFails, DriverEnds, AbortTransport, DriverExit, worker_vars
<1>5. CASE DrainTake \/ DrainSend \/ DrainDone \/ DrainTimesOut
  BY <1>5 DEF DrainTake, DrainSend, DrainDone, DrainTimesOut, Normalize, SendNormalized,
     DriverExit, worker_vars
<1>6. CASE RuntimeShutdown \/ RuntimeEnds \/ RuntimeResyncs \/ RuntimeSend \/ RuntimeSendFails
  BY <1>6 DEF RuntimeShutdown, RuntimeEnds, RuntimeResyncs, RuntimeSend, RuntimeSendFails,
     RuntimeReturns,
     worker_vars
<1>7. ASSUME NEW f \in Feeds \cup {NoFeed}, RuntimeEmits(f) PROVE TaskInv'
  BY <1>7 DEF RuntimeEmits, Selecting, worker_vars
<1>8. CASE Connect \/ LeaveTop \/ InnerShutdown \/ InnerEnds \/ InnerCommand
  BY <1>8 DEF Connect, LeaveTop, InnerShutdown, InnerEnds, InnerCommand, tasks,
     NoTransport, NoDriver, NoRuntime
<1>9. CASE JoinStopped \/ JoinLost
  BY <1>9 DEF JoinStopped, JoinLost, Reap, NoTransport, NoDriver, NoRuntime
<1>10. CASE DecideReconnect \/ DecideGiveUp
  BY <1>10 DEF DecideReconnect, DecideGiveUp, NoDriver
<1>11. CASE WaitOver \/ WaitShutdown \/ EndDrain \/ EndClose
  BY <1>11 DEF WaitOver, WaitShutdown, EndDrain, EndClose, tasks
<1> QED BY <1>1, <1>2, <1>3, <1>4, <1>5, <1>6, <1>7, <1>8, <1>9, <1>10, <1>11, TaskWriters

LEMMA TasksInit == Init => ShapeInv /\ TaskInv
BY WorkerAssumption DEF Init, ShapeInv, TransportInv, DriverInv, RuntimeInv, TaskInv, NoOrphans,
   TransportOver, DriverOver, RuntimeOver, WorkerAt, NoTransport, NoDriver, NoRuntime,
   TransportAt, DriverAt, RuntimeAt, WorkerAssumption

LEMMA TasksAlways == Spec => [](ShapeInv /\ TaskInv)
<1>1. ShapeInv /\ TaskInv /\ [Next]_vars => (ShapeInv /\ TaskInv)'
  BY TransportStays, DriverStays, RuntimeStays, TasksStay DEF ShapeInv
<1> QED BY <1>1, TasksInit, PTL DEF Spec

\* No transport, driver or runtime outlives the join of its connection
\* (drive, run_framework), for any feeds and channel capacities.
THEOREM NoTaskIsOrphaned == Spec => []NoOrphans
<1>1. TaskInv => NoOrphans
  BY DEF TaskInv
<1> QED BY <1>1, TasksAlways, PTL

-----------------------------------------------------------------------------
(* Feed marks                                                              *)

\* the states a feed may be in where the worker stands
FeedAt(f) ==
    CASE worker \in {"inner", "joining"} ->
           feeds[f] \in {"Subscribing", "Live", "Stale", "Resubscribing"}
      [] worker = "top" -> feeds[f] \in IF stopped THEN {"Rejected", "Failed"}
                                        ELSE {"Requested", "Reconnecting"}
      [] worker \in {"policy", "waiting"} -> feeds[f] = "Reconnecting"
      [] worker = "end" -> feeds[f] \notin {"Draining", "Closed"}
      [] worker = "flush" -> feeds[f] \in {"Draining", "Rejected", "Failed"}
      [] OTHER -> is_terminal(feeds[f])

FeedInv ==
    /\ feeds \in [Feeds -> FeedStates]
    /\ \A f \in Feeds : FeedAt(f)
    /\ worker \in {"inner", "policy", "waiting"} => ~stopped

LegalMove == \A f \in Feeds : feeds'[f] # feeds[f] => can_transition_to(feeds[f], feeds'[f])

LEMMA FeedsStay ==
  TaskInv /\ TaskInv' /\ FeedInv /\ [Next]_vars => FeedInv' /\ LegalMove
<1> SUFFICES ASSUME TaskInv, TaskInv', FeedInv, [Next]_vars PROVE FeedInv' /\ LegalMove
  OBVIOUS
<1> USE DEF FeedInv, FeedAt, FeedStates, LegalMove, can_transition_to, successors, is_terminal,
            mark_each_live
<1>1. CASE UNCHANGED <<feeds, worker, stopped>>
  BY <1>1, Zenon
<1>2. ASSUME NEW f \in Feeds, RuntimeReseeds(f) PROVE FeedInv' /\ LegalMove
  <2>1. worker \in {"inner", "joining"} /\ UNCHANGED <<worker, stopped>>
    BY <1>2 DEF RuntimeReseeds, Selecting, TaskInv, NoOrphans, RuntimeOver, worker_vars, WorkerAt
  <2> QED BY <1>2, <2>1 DEF RuntimeReseeds, mark_resubscribing
<1>3. CASE RuntimeSend
  <2>1. worker \in {"inner", "joining"} /\ UNCHANGED <<worker, stopped>>
    BY <1>3 DEF RuntimeSend, ReconOpen, worker_vars
  <2> QED BY <1>3, <2>1 DEF RuntimeSend, mark_live
<1>4. ASSUME NEW f \in Feeds, RuntimeStale(f) PROVE FeedInv' /\ LegalMove
  <2>1. worker \in {"inner", "joining"} /\ UNCHANGED <<worker, stopped>>
    BY <1>4 DEF RuntimeStale, Selecting, TaskInv, NoOrphans, RuntimeOver, worker_vars, WorkerAt
  <2> QED BY <1>4, <2>1 DEF RuntimeStale, mark_stale
<1>5. CASE Connect
  BY <1>5 DEF Connect, mark_all
<1>6. CASE LeaveTop
  BY <1>6 DEF LeaveTop
<1>7. CASE InnerShutdown
  BY <1>7 DEF InnerShutdown
<1>8. CASE InnerEnds
  BY <1>8 DEF InnerEnds
<1>9. CASE InnerCommand
  BY <1>9 DEF InnerCommand
<1>10. CASE JoinStopped
  BY <1>10 DEF JoinStopped
<1>11. CASE JoinLost
  BY <1>11 DEF JoinLost, mark_all
<1>12. CASE DecideReconnect
  BY <1>12 DEF DecideReconnect
<1>13. CASE DecideGiveUp
  BY <1>13 DEF DecideGiveUp, mark_all
<1>14. CASE WaitOver \/ WaitShutdown
  BY <1>14 DEF WaitOver, WaitShutdown
<1>15. CASE EndDrain
  BY <1>15 DEF EndDrain, mark_all
<1>16. CASE EndClose
  BY <1>16 DEF EndClose, mark_all
<1> QED
  BY <1>1, <1>2, <1>3, <1>4, <1>5, <1>6, <1>7, <1>8, <1>9, <1>10, <1>11, <1>12, <1>13, <1>14,
     <1>15, <1>16, FeedWriters

LEMMA FeedsInit == Init => FeedInv
BY DEF Init, FeedInv, FeedAt, FeedStates

LEMMA FeedsAlways == Spec => []FeedInv
<1>1. FeedInv /\ (ShapeInv /\ TaskInv) /\ (ShapeInv /\ TaskInv)' /\ [Next]_vars => FeedInv'
  BY FeedsStay
<1> QED BY <1>1, FeedsInit, TasksAlways, PTL DEF Spec

\* Every mark of the runtime and of the worker is an edge of feed.rs's
\* transition graph, whatever the tasks' interleaving, for any set of feeds.
THEOREM FeedsMoveLegally == Spec => FeedEdgesLegal
<1>1. FeedInv /\ (ShapeInv /\ TaskInv) /\ (ShapeInv /\ TaskInv)' /\ [Next]_vars => [LegalMove]_vars
  BY FeedsStay
<1>2. Spec => [][LegalMove]_vars
  BY <1>1, FeedsAlways, TasksAlways, PTL DEF Spec
<1> QED BY <1>2 DEF FeedEdgesLegal, LegalMove

-----------------------------------------------------------------------------
(* Outages                                                                 *)

GapInv ==
    /\ OutageAccounted
    /\ worker \in {"policy", "waiting"} => gap_open
    /\ worker = "flush" => ~gap_open

LEMMA GapsStay == FeedInv /\ FeedInv' /\ GapInv /\ [Next]_vars => GapInv'
<1> SUFFICES ASSUME FeedInv, FeedInv', GapInv, [Next]_vars PROVE GapInv'
  OBVIOUS
<1> USE DEF FeedInv, FeedAt, GapInv, OutageAccounted
<1>1. CASE UNCHANGED <<feeds, worker, gap_open, connection_live, connection_state>>
  BY <1>1, Zenon
<1>2. ASSUME NEW f \in Feeds, RuntimeReseeds(f) PROVE GapInv'
  BY <1>2 DEF RuntimeReseeds, worker_vars, mark_resubscribing, mark_each_live
<1>3. CASE RuntimeSend
  BY <1>3 DEF RuntimeSend, worker_vars, mark_live, mark_each_live
<1>4. ASSUME NEW f \in Feeds, RuntimeStale(f) PROVE GapInv'
  BY <1>4 DEF RuntimeStale, worker_vars, mark_stale
<1>5. CASE Connect
  BY <1>5 DEF Connect, mark_all, mark_each_live
<1>6. CASE LeaveTop \/ InnerShutdown \/ InnerEnds \/ InnerCommand
  BY <1>6 DEF LeaveTop, InnerShutdown, InnerEnds, InnerCommand
<1>7. CASE InnerEvent
  BY <1>7 DEF InnerEvent
<1>8. CASE JoinStopped
  BY <1>8 DEF JoinStopped
<1>9. CASE JoinLost
  BY <1>9 DEF JoinLost
<1>10. CASE DecideReconnect \/ WaitOver \/ WaitShutdown
  BY <1>10 DEF DecideReconnect, WaitOver, WaitShutdown
<1>11. CASE DecideGiveUp
  BY <1>11 DEF DecideGiveUp, mark_all, mark_each_live
<1>12. CASE EndDrain
  BY <1>12 DEF EndDrain, mark_all, mark_each_live
<1>13. CASE EndClose
  BY <1>13 DEF EndClose, mark_all, mark_each_live
<1> QED BY <1>1, <1>2, <1>3, <1>4, <1>5, <1>6, <1>7, <1>8, <1>9, <1>10, <1>11, <1>12, <1>13,
           GapWriters

\* The coverage ledger never under-reports (run_framework's gap_open): an
\* outage stays open until an event or the end of the worker records it.
THEOREM OutagesAreAccounted == Spec => []OutageAccounted
<1>1. Init => GapInv
  BY DEF Init, GapInv, OutageAccounted
<1>2. GapInv => OutageAccounted
  BY DEF GapInv
<1> QED BY <1>1, <1>2, GapsStay, FeedsAlways, PTL DEF Spec

-----------------------------------------------------------------------------
(* Ending                                                                  *)

\* how far run_framework is from its end
Ahead == [inner |-> 7, joining |-> 6, policy |-> 5, waiting |-> 4, top |-> 3, end |-> 2,
          flush |-> 1, done |-> 0]

\* The safety half of ShutdownEnds and StopEnds: once the worker is to end it
\* stays so, opens no connection, and every move of its loop takes it nearer the
\* end, so that at most seven are left.
EndingGoesForward ==
    [][stopped \/ shutdown =>
         /\ stopped' \/ shutdown'
         /\ worker' # worker => Ahead[worker'] < Ahead[worker]]_vars

Nearer == /\ stopped' \/ shutdown'
          /\ worker' # worker => Ahead[worker'] < Ahead[worker]

\* A command cannot undo a stop: the worker reads commands in its inner loop only,
\* which a stopped worker has left.
LEMMA EndingSteps ==
  ASSUME TaskInv, FeedInv, [Next]_vars, stopped \/ shutdown
  PROVE  Nearer
<1>0. shutdown => shutdown'
  BY Zenon DEF Next, Caller, Venue, TransportStep, DriverStep, RuntimeStep, WorkerStep,
     vars, SignalShutdown, send_command, ConnectOk, ConnectFails, ConnectionLost, AckRejected,
     TransportShutdown, Decode, TransportSend, DriverShutdown, DriverCloses, DriverTake,
     DriverSend, DriverSendFails, DriverEnds, DrainTake, DrainSend, DrainDone, DrainTimesOut,
     RuntimeShutdown, RuntimeEnds, RuntimeAbsorbs, RuntimeReseeds, RuntimeResyncs, RuntimeEmits,
     RuntimeSend, RuntimeSendFails, RuntimeStale, Connect, LeaveTop, InnerShutdown, InnerEvent,
     InnerEnds, InnerCommand, JoinStopped, JoinLost, DecideReconnect, DecideGiveUp, WaitOver,
     WaitShutdown, EndDrain, EndClose, Normalize, SendNormalized
<1> USE DEF Nearer, Ahead
<1>1. CASE UNCHANGED <<feeds, worker, stopped>>
  BY <1>0, <1>1, Zenon
<1>2. CASE (\E f \in Feeds : RuntimeReseeds(f)) \/ RuntimeSend \/ (\E f \in Feeds : RuntimeStale(f))
  BY <1>0, <1>2, Zenon DEF RuntimeReseeds, RuntimeSend, RuntimeStale, worker_vars
<1>3. CASE Connect \/ JoinLost
  BY <1>3 DEF Connect, JoinLost
<1>4. CASE LeaveTop \/ InnerShutdown \/ InnerEnds \/ JoinStopped
  BY <1>0, <1>4 DEF LeaveTop, InnerShutdown, InnerEnds, JoinStopped
<1>5. CASE InnerCommand
  <2>1. ~stopped  BY <1>5 DEF InnerCommand, FeedInv
  <2> QED BY <1>0, <1>5, <2>1 DEF InnerCommand
<1>6. CASE DecideReconnect \/ DecideGiveUp
  BY <1>0, <1>6 DEF DecideReconnect, DecideGiveUp
<1>7. CASE WaitOver \/ WaitShutdown \/ EndDrain \/ EndClose
  BY <1>0, <1>7 DEF WaitOver, WaitShutdown, EndDrain, EndClose
<1> QED BY <1>1, <1>2, <1>3, <1>4, <1>5, <1>6, <1>7, FeedWriters

\* A stop or a shutdown of run_framework is final, and leads straight to its end.
THEOREM EndingIsForward == Spec => EndingGoesForward
<1>1. FeedInv /\ (ShapeInv /\ TaskInv) /\ [Next]_vars => [stopped \/ shutdown => Nearer]_vars
  BY EndingSteps
<1>2. Spec => [][stopped \/ shutdown => Nearer]_vars
  BY <1>1, FeedsAlways, TasksAlways, PTL DEF Spec
<1> QED BY <1>2 DEF EndingGoesForward, Nearer

-----------------------------------------------------------------------------
(* Backoff                                                                 *)

PolicyOK(p) ==
    /\ p \in Policies
    /\ p.current_delay \in initial_delay .. max_delay
    /\ p.cooldown_duration \in (4 * max_delay) .. (8 * max_delay)
    /\ max_attempts # 0 /\ p.circuit_state = "Closed" => p.consecutive_failures < max_attempts

\* what an answer of next_action must satisfy
AnswerOK(o) ==
    /\ PolicyOK(o.policy)
    /\ o.action.act \in {"RetryAfter", "CircuitOpen"} =>
          /\ o.action.wait \in Nat /\ o.action.wait >= initial_delay
          /\ o.policy.circuit_state = "Open" => o.action.wait = o.policy.cooldown_duration
    /\ o.action.act \in {"RetryImmediately", "RetryAfter", "CircuitOpen", "GiveUp"}

LEMMA TripOK ==
  ASSUME NEW p \in Policies, p.current_delay \in initial_delay .. max_delay,
         NEW c \in (4 * max_delay) .. (8 * max_delay)
  PROVE  AnswerOK(Trip(p, c))
<1> DEFINE r == [p EXCEPT !.cooldown_duration = c, !.circuit_state = "Open"]
<1>1. c \in Nat /\ c >= initial_delay
  BY PolicyAssumption DEF PolicyAssumption
<1>2. /\ r \in Policies /\ r.current_delay = p.current_delay
      /\ r.cooldown_duration = c /\ r.circuit_state = "Open"
  BY <1>1 DEF Policies
<1>3. Trip(p, c) = [policy |-> r, action |-> [act |-> "CircuitOpen", wait |-> c]]
  BY DEF Trip, CircuitOpen
<1> HIDE DEF r
<1>4. PolicyOK(r)
  BY <1>2 DEF PolicyOK
<1> QED BY <1>1, <1>2, <1>3, <1>4 DEF AnswerOK

LEMMA JitterOK ==
  ASSUME NEW base \in Nat, NEW d \in Jittered(base)
  PROVE  d \in Nat /\ d >= base
BY PolicyAssumption DEF PolicyAssumption, Jittered

LEMMA BackoffOK ==
  ASSUME NEW p, PolicyOK(p), p.circuit_state = "Closed",
         NEW reason, suggested_delay_factor(reason) # 0, NEW o \in Backoff(p, reason)
  PROVE  AnswerOK(o)
<1> DEFINE q == [p EXCEPT !.consecutive_failures = @ + 1]
           base == p.current_delay * suggested_delay_factor(reason)
<1>1. CASE max_attempts # 0 /\ q.consecutive_failures >= max_attempts
  <2>1. o = Trip(q, 4 * max_delay)
    BY <1>1 DEF Backoff
  <2>2. /\ q \in Policies /\ q.current_delay = p.current_delay
        /\ q.cooldown_duration = p.cooldown_duration
    BY DEF PolicyOK, Policies
  <2>3. 4 * max_delay \in (4 * max_delay) .. (8 * max_delay)
    BY PolicyAssumption DEF PolicyAssumption
  <2> HIDE DEF q
  <2> QED BY <2>1, <2>2, <2>3, TripOK DEF PolicyOK
<1>2. CASE ~(max_attempts # 0 /\ q.consecutive_failures >= max_attempts)
  <2>1. PICK d \in Jittered(base) :
          o = [policy |-> [q EXCEPT !.current_delay = Least(2 * @, max_delay)],
               action |-> RetryAfter(d)]
    BY <1>2 DEF Backoff
  <2>2. base \in Nat /\ base >= initial_delay
    <3>1. suggested_delay_factor(reason) \in {1, 2}
      BY DEF suggested_delay_factor
    <3>2. CASE suggested_delay_factor(reason) = 1
      BY <3>2, PolicyAssumption DEF PolicyAssumption, PolicyOK, Policies
    <3>3. CASE suggested_delay_factor(reason) = 2
      BY <3>3, PolicyAssumption DEF PolicyAssumption, PolicyOK, Policies
    <3> QED BY <3>1, <3>2, <3>3
  <2>3. d \in Nat /\ d >= initial_delay
    <3> HIDE DEF base
    <3>1. d \in Nat /\ d >= base
      BY <2>2, JitterOK
    <3> QED BY <2>2, <3>1, PolicyAssumption DEF PolicyAssumption
  <2>4. /\ q \in Policies /\ q.current_delay = p.current_delay
        /\ q.cooldown_duration = p.cooldown_duration /\ q.circuit_state = "Closed"
        /\ max_attempts # 0 => q.consecutive_failures < max_attempts
    BY <1>2, PolicyAssumption DEF PolicyAssumption, PolicyOK, Policies
  <2>5. Least(2 * q.current_delay, max_delay) \in initial_delay .. max_delay
    BY <2>4, PolicyAssumption DEF PolicyAssumption, PolicyOK, Policies, Least
  <2> DEFINE c == Least(2 * q.current_delay, max_delay)
  <2>6. o = [policy |-> [q EXCEPT !.current_delay = c], action |-> RetryAfter(d)]
    BY <2>1
  <2> HIDE DEF q, c, base
  <2> QED BY <2>3, <2>4, <2>5, <2>6, PolicyAssumption
          DEF c, PolicyAssumption, PolicyOK, AnswerOK, RetryAfter, Policies
<1> QED BY <1>1, <1>2

LEMMA NextActionOK ==
  ASSUME NEW p, PolicyOK(p), NEW reason, NEW o \in next_action(p, reason)
  PROVE  AnswerOK(o)
<1>1. CASE ~is_retryable(reason) /\ ~post_data_protocol_close(p, reason)
  <2>1. o = [policy |-> p, action |-> GiveUp]
    BY <1>1 DEF next_action
  <2> QED BY <2>1 DEF AnswerOK, GiveUp
<1>2. CASE ~(~is_retryable(reason) /\ ~post_data_protocol_close(p, reason))
  <2>1. CASE p.circuit_state = "Open"
    <3>1. o = [policy |-> [p EXCEPT !.circuit_state = "HalfOpen"],
               action |-> RetryAfter(initial_delay)]
      BY <1>2, <2>1 DEF next_action, RetryAfter
    <3> QED BY <3>1, PolicyAssumption
            DEF PolicyAssumption, PolicyOK, AnswerOK, RetryAfter, Policies
  <2>2. CASE p.circuit_state = "HalfOpen"
    <3>1. o = Trip(p, Least(2 * p.cooldown_duration, 8 * max_delay))
      BY <1>2, <2>2 DEF next_action, RetryAfter
    <3>2. Least(2 * p.cooldown_duration, 8 * max_delay) \in (4 * max_delay) .. (8 * max_delay)
      BY PolicyAssumption DEF PolicyAssumption, PolicyOK, Policies, Least
    <3> QED BY <3>1, <3>2, TripOK DEF PolicyOK
  <2>3. CASE p.circuit_state = "Closed" /\ suggested_delay_factor(reason) = 0
    <3>1. o = [policy |-> p, action |-> RetryImmediately]
      BY <1>2, <2>3 DEF next_action
    <3> QED BY <3>1 DEF AnswerOK, RetryImmediately
  <2>4. CASE p.circuit_state = "Closed" /\ suggested_delay_factor(reason) # 0
    <3>1. o \in Backoff(p, reason)
      BY <1>2, <2>4 DEF next_action
    <3> QED BY <2>4, <3>1, BackoffOK
  <2> QED BY <2>1, <2>2, <2>3, <2>4 DEF PolicyOK, Policies
<1> QED BY <1>1, <1>2

LEMMA OnConnectedOK ==
  ASSUME NEW p, PolicyOK(p)
  PROVE  PolicyOK(on_connected(p)) /\ PolicyOK(on_message_received(p))
<1>1. PolicyOK(on_connected(p))
  <2> DEFINE c == 4 * max_delay
             r == [p EXCEPT !.consecutive_failures = 0, !.current_delay = initial_delay,
                            !.cooldown_duration = c, !.circuit_state = "Closed"]
  <2>1. c \in (4 * max_delay) .. (8 * max_delay) /\ c \in Nat /\ initial_delay \in Nat
    BY PolicyAssumption DEF PolicyAssumption
  <2> HIDE DEF c
  <2>2. /\ r \in Policies /\ r.current_delay = initial_delay
        /\ r.cooldown_duration = c /\ r.consecutive_failures = 0
    BY <2>1 DEF PolicyOK, Policies
  <2>3. on_connected(p) = r
    BY DEF on_connected, c
  <2> HIDE DEF r
  <2> QED BY <2>1, <2>2, <2>3, PolicyAssumption DEF PolicyOK, PolicyAssumption
<1>2. PolicyOK(on_message_received(p))
  <2> DEFINE r == [p EXCEPT !.current_delay = initial_delay, !.data_ever_received = TRUE]
  <2>1. /\ r \in Policies /\ r.current_delay = initial_delay
        /\ r.cooldown_duration = p.cooldown_duration
        /\ r.circuit_state = p.circuit_state
        /\ r.consecutive_failures = p.consecutive_failures
    BY PolicyAssumption DEF PolicyOK, Policies, PolicyAssumption
  <2>2. on_message_received(p) = r
    BY DEF on_message_received
  <2> HIDE DEF r
  <2> QED BY <2>1, <2>2, PolicyAssumption DEF PolicyOK, PolicyAssumption
<1> QED BY <1>1, <1>2

PolicyInv ==
    /\ PolicyOK(policy)
    /\ worker = "waiting" =>
          /\ wait \in Nat /\ wait >= initial_delay
          /\ policy.circuit_state = "Open" => wait = policy.cooldown_duration

LEMMA PolicyStays == PolicyInv /\ [Next]_vars => PolicyInv'
<1> SUFFICES ASSUME PolicyInv, [Next]_vars PROVE PolicyInv'
  OBVIOUS
<1>1. CASE UNCHANGED <<policy, wait, worker>>
  BY <1>1, Zenon DEF PolicyInv, PolicyOK
<1>2. CASE \/ Connect \/ LeaveTop \/ InnerShutdown \/ InnerEnds \/ InnerCommand \/ JoinStopped
           \/ JoinLost \/ WaitOver \/ WaitShutdown \/ EndDrain \/ EndClose
  <2>1. policy' = policy /\ worker' # "waiting"
    BY <1>2 DEF Connect, LeaveTop, InnerShutdown, InnerEnds, InnerCommand, JoinStopped,
       JoinLost, WaitOver, WaitShutdown, EndDrain, EndClose
  <2> QED BY <2>1, Zenon DEF PolicyInv, PolicyOK
<1>3. CASE InnerEvent
  <2>1. worker' # "waiting"
    BY <1>3 DEF InnerEvent
  <2>2. PolicyOK(policy) => PolicyOK(policy')
    <3> SUFFICES ASSUME PolicyOK(policy) PROVE PolicyOK(policy')
      OBVIOUS
    <3>1. CASE connection_live
      <4>1. policy' = on_message_received(policy)
        BY <1>3, <3>1 DEF InnerEvent
      <4> QED BY <4>1, OnConnectedOK
    <3>2. CASE ~connection_live
      <4>1. policy' = on_message_received(on_connected(policy))
        BY <1>3, <3>2 DEF InnerEvent
      <4> QED BY <4>1, OnConnectedOK
    <3> QED BY <3>1, <3>2
  <2> QED BY <2>1, <2>2 DEF PolicyInv
<1>4. CASE DecideReconnect
  <2>1. PICK o \in next_action(policy, policy_reason(driver.exit)) :
          /\ o.action.act # "GiveUp" /\ policy' = o.policy /\ wait' = o.action.wait
          /\ worker' = IF o.action.act = "RetryImmediately" THEN "top" ELSE "waiting"
    BY <1>4 DEF DecideReconnect
  <2>2. AnswerOK(o)
    BY NextActionOK DEF PolicyInv
  <2> QED BY <2>1, <2>2 DEF PolicyInv, AnswerOK
<1>5. CASE DecideGiveUp
  <2>1. PICK o \in next_action(policy, policy_reason(driver.exit)) : policy' = o.policy
    BY <1>5 DEF DecideGiveUp
  <2>2. AnswerOK(o)
    BY NextActionOK DEF PolicyInv
  <2> QED BY <1>5, <2>1, <2>2 DEF PolicyInv, AnswerOK, DecideGiveUp
<1> QED BY <1>1, <1>2, <1>3, <1>4, <1>5, PolicyWriters

\* The backoff and the circuit breaker keep their promises (reconnect.rs), for
\* any delays, jitter and limit on attempts.
THEOREM BackoffIsBounded == Spec => []BackoffBounded
<1>1. Init => PolicyInv
  BY PolicyAssumption DEF PolicyAssumption, Init, PolicyInv, PolicyOK, NewPolicy, Policies
<1>2. PolicyInv => BackoffBounded
  BY DEF PolicyInv, PolicyOK, BackoffBounded
<1> QED BY <1>1, <1>2, PolicyStays, PTL DEF Spec

=============================================================================

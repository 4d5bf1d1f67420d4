------------------------------ MODULE Reconcile ------------------------------
(***************************************************************************)
(* The trade prints of one market worker and their live repair             *)
(* (aetelier-connect/src/workers/market_worker.rs, run_framework;          *)
(* framework/runtime.rs, the trade arm of handle_event;                    *)
(* framework/reconcile.rs).                                                *)
(*                                                                         *)
(* The venue prints 1, 2, ...  A print that reaches the runtime of an open *)
(* connection is entered in the ledger, whose last sequence is carried to  *)
(* the next connection, and queued for the worker (wire).  The worker      *)
(* hands it to the synchronizer (log) and moves the anchor.  The           *)
(* reconciler, a task of its own, is woken after a gap or by a sweep,      *)
(* fetches the prints after the anchor and queues them (rec); the worker   *)
(* hands on those whose id is not among the last RingCap it has seen.      *)
(***************************************************************************)
EXTENDS TradesRest, Sequences

CONSTANTS
  Venues,        \* profiles [armed, replays, dedups, walk] of the venues
  Sweeps,        \* the values of "a periodic sweep is configured"
  RingCap,       \* ids the worker remembers: 2048
  SeenCap,       \* REPLAY_DEDUP_CAPACITY
  WireCap,       \* capacity of the runtime's channel
  RecCap,        \* capacity of the reconciler's channel: 1024
  TriggerCap,    \* capacity of the trigger channel: 4
  MaxId,         \* bound: prints
  MaxDrops,      \* bound: connections lost
  MaxTroubles    \* bound: pauses and failed fetches together

ASSUME ReconcileAssumption ==
  /\ Venues \subseteq [armed : BOOLEAN, replays : Nat, dedups : BOOLEAN, walk : Walks]
  \* a venue that repeats prints has no dense sequence and no fetcher, and says so
  /\ \A v \in Venues : v.replays > 0 => ~v.armed /\ v.dedups /\ v.walk = "none"
  /\ Sweeps \subseteq BOOLEAN
  /\ {RingCap, SeenCap, WireCap, RecCap, TriggerCap} \subseteq Nat \ {0}
  /\ {MaxId, MaxDrops, MaxTroubles} \subseteq Nat

VARIABLES
  venue, sweep,  \* the venue and whether a sweep is configured
  head,          \* the newest print
  conn,          \* the connection: up, draining, down or stopped
  live,          \* connection_live: an event of this connection was seen
  gap,           \* gap_open
  book, carry,   \* the ledger of this connection; trade_seq_carry (0: none)
  lost,          \* metrics.trades_lost
  wire,          \* prints from the runtime to the worker
  anchor,        \* last_pos (0: none)
  ring,          \* recent_ids
  seen,          \* seen_trade_ids
  paused,
  trigger,       \* wake-ups in the trigger channel
  task,          \* the reconciler: where it is, the anchor it read, prints to send
  rec,           \* prints from the reconciler to the worker
  log,           \* deliveries to the synchronizer, with their origin
  forwarded,     \* history: the prints the runtime has sent to the worker
  skipped,       \* history: recovered prints dropped by a pause
  owed,          \* history: prints of an outage after the first delivery
  drops, pauses, faults

stream == <<book, carry, lost, wire, forwarded>>
memory == <<anchor, ring, seen>>
repair == <<trigger, task, rec>>
bounds == <<drops, pauses, faults>>
vars == <<venue, sweep, head, conn, live, gap, stream, memory, paused, repair, log,
          skipped, owed, bounds>>

reconcile_active == venue.walk # "none"
Idle == [at |-> "wait", pos |-> 0, out |-> {}]

Init ==
  /\ venue \in Venues /\ sweep \in Sweeps
  /\ head = 0 /\ conn = "up" /\ live = FALSE /\ gap = FALSE
  /\ book = Tradebook(0) /\ carry = 0 /\ lost = 0
  /\ wire = <<>> /\ forwarded = {}
  /\ anchor = 0 /\ ring = <<>> /\ seen = <<>> /\ paused = FALSE
  /\ trigger = 0 /\ task = Idle /\ rec = <<>>
  /\ log = <<>> /\ skipped = {} /\ owed = {}
  /\ drops = 0 /\ pauses = 0 /\ faults = 0
-----------------------------------------------------------------------------
(* The venue and the runtime.                                               *)

\* The runtime's trade arm: enter the print, carry the sequence, forward it.
Forward(p) ==
  /\ Len(wire) < WireCap
  /\ book' = IF venue.armed THEN apply(book, p) ELSE book
  /\ lost' = lost + (book'.trades_lost - book.trades_lost)
  /\ carry' = IF book'.last_seq # 0 THEN book'.last_seq ELSE carry
  /\ wire' = Append(wire, p)
  /\ forwarded' = forwarded \union {p}

\* A print that reaches the runtime.
Printed ==
  /\ head < MaxId /\ conn = "up"
  /\ head' = head + 1 /\ Forward(head')
  /\ UNCHANGED <<venue, sweep, conn, live, gap, memory, paused, repair, log, skipped, owed, bounds>>

\* A print that does not: no connection, or a frame lost with it.
Missed ==
  /\ head < MaxId
  /\ head' = head + 1
  /\ owed' = IF conn = "down" /\ anchor # 0 THEN owed \union {head'} ELSE owed
  /\ UNCHANGED <<venue, sweep, conn, live, gap, stream, memory, paused, repair, log,
                 skipped, bounds>>

\* The adapter or the runtime ends; what it forwarded is still received.
Dropped ==
  /\ conn = "up" /\ drops < MaxDrops
  /\ conn' = "draining" /\ drops' = drops + 1
  /\ UNCHANGED <<venue, sweep, head, live, gap, stream, memory, paused, repair, log,
                 skipped, owed, pauses, faults>>

\* The prints a venue repeats to a new subscriber.
Replayed == [i \in 1..(IF head < venue.replays THEN head ELSE venue.replays) |->
              IF head < venue.replays THEN i ELSE head - venue.replays + i]

\* The next connection: a ledger seeded from the carry, and the venue's replay.
with_trade_seq_carry ==
  /\ conn = "down"
  /\ conn' = "up" /\ live' = FALSE
  /\ book' = Tradebook(carry)
  /\ wire' = Replayed
  /\ forwarded' = forwarded \union {Replayed[i] : i \in DOMAIN Replayed}
  /\ UNCHANGED <<venue, sweep, head, gap, carry, lost, memory, paused, repair,
                 log, skipped, owed, bounds>>
-----------------------------------------------------------------------------
(* The worker.                                                              *)

\* Append to a bounded queue of ids, forgetting the oldest.
Remember(q, p, cap) == IF Len(q) < cap THEN Append(q, p) ELSE Tail(Append(q, p))
Knows(q, p) == \E i \in 1..Len(q) : q[i] = p
Delivery(p, o) == [id |-> p, origin |-> o]

\* The first event of a connection, of any kind: a gap closes and wakes the task.
Confirm ==
  /\ conn \in {"up", "draining"} /\ ~live
  /\ live' = TRUE /\ gap' = FALSE
  /\ trigger' = IF gap /\ reconcile_active /\ trigger < TriggerCap
                THEN trigger + 1 ELSE trigger
  /\ UNCHANGED <<venue, sweep, head, conn, stream, memory, paused, task, rec, log, skipped,
                 owed, bounds>>

\* A live print, after Confirm.
LiveTrade ==
  /\ wire # <<>> /\ conn \in {"up", "draining"} /\ live
  /\ wire' = Tail(wire)
  /\ LET p == wire[1] IN
     \/ /\ \/ paused
           \/ venue.dedups /\ Knows(seen, p)
        /\ UNCHANGED <<memory, log>>
     \/ /\ ~paused
        /\ ~(venue.dedups /\ Knows(seen, p))
        /\ seen' = IF venue.dedups THEN Remember(seen, p, SeenCap) ELSE seen
        /\ anchor' = IF reconcile_active THEN p ELSE anchor
        /\ ring' = IF reconcile_active THEN Remember(ring, p, RingCap) ELSE ring
        /\ log' = Append(log, Delivery(p, "ws"))
  /\ UNCHANGED <<venue, sweep, head, conn, live, gap, book, carry, lost, forwarded, paused,
                 repair, skipped, owed, bounds>>

RecoveredTrade_unlisted ==
  /\ rec # <<>> /\ conn \in {"up", "draining"} /\ ~paused
  /\ rec' = Tail(rec)
  /\ ~Knows(ring, rec[1])
  /\ log' = Append(log, Delivery(rec[1], "rest"))
  /\ UNCHANGED <<venue, sweep, head, conn, live, gap, stream, memory, paused, trigger, task,
                 skipped, owed, bounds>>

\* A recovered print.
RecoveredTrade ==
  /\ rec # <<>> /\ conn \in {"up", "draining"}
  /\ rec' = Tail(rec)
  /\ LET p == rec[1] IN
     \/ /\ paused
        /\ skipped' = skipped \union {p}
        /\ UNCHANGED <<memory, log>>
     \/ /\ ~paused /\ Knows(ring, p)
        /\ UNCHANGED <<memory, log, skipped>>
     \/ /\ ~paused /\ ~Knows(ring, p)
        /\ ring' = Remember(ring, p, RingCap)
        /\ anchor' = IF p > anchor THEN p ELSE anchor
        /\ log' = Append(log, Delivery(p, "rest"))
        /\ UNCHANGED <<seen, skipped>>
  /\ UNCHANGED <<venue, sweep, head, conn, live, gap, stream, paused, trigger, task, owed, bounds>>

\* The runtime's channel is empty and closed: the worker backs off.
RuntimeEnded ==
  /\ conn = "draining" /\ wire = <<>>
  /\ conn' = "down" /\ gap' = TRUE
  /\ UNCHANGED <<venue, sweep, head, live, stream, memory, paused, repair, log, skipped,
                 owed, bounds>>

Pause ==
  /\ conn \in {"up", "draining"} /\ ~paused /\ pauses + faults < MaxTroubles
  /\ paused' = TRUE /\ pauses' = pauses + 1
  /\ UNCHANGED <<venue, sweep, head, conn, live, gap, stream, memory, repair, log, skipped,
                 owed, drops, faults>>

Resume ==
  /\ conn \in {"up", "draining"} /\ paused
  /\ paused' = FALSE
  /\ UNCHANGED <<venue, sweep, head, conn, live, gap, stream, memory, repair, log, skipped,
                 owed, bounds>>

\* A stop or a shutdown: the receivers go, and with them what they hold.
Stop ==
  /\ conn # "stopped"
  /\ conn' = "stopped" /\ wire' = <<>> /\ rec' = <<>>
  /\ UNCHANGED <<venue, sweep, head, live, gap, book, carry, lost, forwarded, memory, paused,
                 trigger, task, log, skipped, owed, bounds>>
-----------------------------------------------------------------------------
(* The reconciler.                                                          *)

\* It reads the anchor; without one there is nothing to fetch after.
Anchored == IF anchor = 0 THEN Idle ELSE [task EXCEPT !.at = "fetch", !.pos = anchor]

WakeTriggered ==
  /\ reconcile_active /\ task.at = "wait" /\ trigger > 0
  /\ trigger' = trigger - 1
  /\ task' = Anchored
  /\ UNCHANGED <<venue, sweep, head, conn, live, gap, stream, memory, paused, rec, log,
                 skipped, owed, bounds>>

WakeSwept ==
  /\ reconcile_active /\ task.at = "wait" /\ sweep
  /\ task' = Anchored
  /\ UNCHANGED <<venue, sweep, head, conn, live, gap, stream, memory, paused, trigger, rec,
                 log, skipped, owed, bounds>>

\* The fetch answers with what the venue serves by then, in ascending order.
Fetched ==
  /\ task.at = "fetch"
  /\ \E now \in {Second(head), Second(head) + 1} :
       LET out == fetch_after(venue.walk, 1..head, TradePos(task.pos), now)
       IN  task' = IF out = {} THEN Idle ELSE [task EXCEPT !.at = "send", !.out = out]
  /\ UNCHANGED <<venue, sweep, head, conn, live, gap, stream, memory, paused, trigger, rec,
                 log, skipped, owed, bounds>>

FetchFailed_returns ==
  /\ task.at = "fetch" /\ pauses + faults < MaxTroubles
  /\ faults' = faults + 1 /\ task' = [Idle EXCEPT !.at = "ended"]
  /\ UNCHANGED <<venue, sweep, head, conn, live, gap, stream, memory, paused, trigger, rec,
                 log, skipped, owed, drops, pauses>>

FetchFailed ==
  /\ task.at = "fetch" /\ pauses + faults < MaxTroubles
  /\ faults' = faults + 1 /\ task' = Idle
  /\ UNCHANGED <<venue, sweep, head, conn, live, gap, stream, memory, paused, trigger, rec,
                 log, skipped, owed, drops, pauses>>

SendRecovered_descending ==
  /\ task.at = "send" /\ conn # "stopped" /\ Len(rec) < RecCap
  /\ LET p == CHOOSE q \in task.out : \A r \in task.out : q >= r IN
     /\ rec' = Append(rec, p)
     /\ task' = IF task.out = {p} THEN Idle ELSE [task EXCEPT !.out = task.out \ {p}]
  /\ UNCHANGED <<venue, sweep, head, conn, live, gap, stream, memory, paused, trigger, log,
                 skipped, owed, bounds>>

\* The recovered prints are queued one by one, oldest first.
SendRecovered ==
  /\ task.at = "send" /\ conn # "stopped" /\ Len(rec) < RecCap
  /\ LET p == CHOOSE q \in task.out : \A r \in task.out : q <= r IN
     /\ rec' = Append(rec, p)
     /\ task' = IF task.out = {p} THEN Idle ELSE [task EXCEPT !.out = task.out \ {p}]
  /\ UNCHANGED <<venue, sweep, head, conn, live, gap, stream, memory, paused, trigger, log,
                 skipped, owed, bounds>>

\* Woken by the end of the worker, or its channel is gone.
TaskEnds ==
  /\ conn = "stopped" /\ task.at \in {"wait", "send"}
  /\ task' = [Idle EXCEPT !.at = "ended"]
  /\ UNCHANGED <<venue, sweep, head, conn, live, gap, stream, memory, paused, trigger, rec,
                 log, skipped, owed, bounds>>
-----------------------------------------------------------------------------
Receive == (Confirm /\ wire # <<>>) \/ LiveTrade \/ RecoveredTrade
Worker == Receive \/ RuntimeEnded \/ with_trade_seq_carry
Reconciler == WakeTriggered \/ WakeSwept \/ Fetched \/ SendRecovered

Next ==
  \/ Printed \/ Missed \/ Dropped \/ with_trade_seq_carry
  \/ Confirm \/ LiveTrade \/ RecoveredTrade \/ RuntimeEnded
  \/ Pause \/ Resume \/ Stop
  \/ WakeTriggered \/ WakeSwept \/ Fetched \/ FetchFailed \/ SendRecovered \/ TaskEnds

(* The worker's loop and the task's loop each keep running. *)
Fairness == WF_vars(Worker) /\ WF_vars(Reconciler)

Spec == Init /\ [][Next]_vars /\ Fairness
-----------------------------------------------------------------------------
(* Properties.                                                              *)

Delivered == {log[i].id : i \in 1..Len(log)}

(* The loss count of a venue with a dense sequence is exact across         *)
(* reconnects: it is the number of prints between the first and the last   *)
(* one forwarded that no connection forwarded (SourcedTradebook::apply     *)
(* over trade_seq_carry).                                                  *)
LossExact ==
  venue.armed =>
    lost = Cardinality({p \in 1..carry : p \notin forwarded /\ \E q \in forwarded : q < p})

(* A print reaches the synchronizer twice only as a recovered copy         *)
(* followed by the live one, or when the memory that would have told has   *)
(* turned over in between: recent_ids for a recovered print, and           *)
(* seen_trade_ids for one a new subscription repeats.                      *)
CopiesExplained ==
  \A j \in 1..Len(log) : \A i \in 1..(j - 1) : log[i].id = log[j].id =>
    \/ log[j].origin = "rest" /\ j - i > RingCap
    \/ log[j].origin = "ws" /\ log[i].origin = "rest"
    \/ log[j].origin = "ws" /\ log[i].origin = "ws" /\ j - i > SeenCap

(* Repair never moves the anchor past a print it did not deliver: what it  *)
(* steps over was delivered, or dropped by a pause.  Of the venues whose   *)
(* fetch walks by id.                                                      *)
RepairLeavesNoHole ==
  [][(venue.walk = "ids" /\ rec' # rec /\ anchor' > anchor) =>
       \A p \in (anchor + 1)..anchor' : p \in Delivered' \union skipped]_vars

(* With a sweep, the newest print reaches the synchronizer even when the   *)
(* live stream lost it, unless the worker is stopped or paused first.      *)
TailRepaired ==
  (sweep /\ reconcile_active /\ head = MaxId /\ anchor # 0)
    ~> (MaxId \in Delivered \/ conn = "stopped" \/ paused)

(* Once the fetch after a recovery is through, the prints of the outage    *)
(* have been delivered (market_worker.rs: "Reconcile AFTER recovery: the   *)
(* REST window now covers the whole outage").                              *)
OutageRepaired ==
  (/\ conn = "up" /\ live /\ ~gap /\ reconcile_active
   /\ trigger = 0 /\ task.at = "wait" /\ rec = <<>> /\ wire = <<>>
   /\ faults = 0 /\ pauses = 0 /\ MaxId <= PageSize * MAX_PAGES)
  => owed \subseteq Delivered
=============================================================================

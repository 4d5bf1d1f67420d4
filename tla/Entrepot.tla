------------------------------ MODULE Entrepot ------------------------------
(***************************************************************************)
(* Replay of an object-store archive (framework/entrepot.rs, over the S3   *)
(* client of aetelier-entrepot): one session enumerates the window,        *)
(* resumes after the cursor file, fetches a few objects ahead, sends the   *)
(* rows of one object after the other into the runtime's channel and then  *)
(* moves the cursor past it.  Around it: the worker that joins the session *)
(* and starts another, its sinks, and the ways a process can end.          *)
(*                                                                         *)
(* A key is its position in the window.  A row is what a line decodes to;  *)
(* lines that do not decode only move a counter and are left out, as is    *)
(* the choice between the two counters of an absent object (probe_edge).   *)
(* Runtime and worker are one consumer: Capacity stands for both channels. *)
(***************************************************************************)
EXTENDS Naturals, Sequences, FiniteSets

CONSTANTS
    LastKey,         \* keys of the window: 1..LastKey
    RowsPer,         \* rows of a good object
    CtxKeys,         \* asset_ctxs objects: rows that carry provenance
    Archives,        \* what the store may hold at the start
    Late,            \* objects that may be published while the replay runs
    Universe,        \* coins unset: keys come from the listing
    Concurrency, Capacity, FlushThreshold, max_retries,
    MaxFaults,       \* bound on injected faults
    MaxInterrupts    \* bound on stops, shutdowns and crashes

Keys == 1..LastKey
Kinds == {"absent", "corrupt", "garbled", "good"}

ASSUME EntrepotAssumption ==
    /\ LastKey \in Nat /\ RowsPer \in Nat \ {0} /\ CtxKeys \subseteq Keys /\ Late \subseteq Keys
    /\ Archives \subseteq [Keys -> Kinds] /\ Universe \in BOOLEAN
    /\ {Concurrency, Capacity, FlushThreshold} \subseteq Nat \ {0}
    /\ {max_retries, MaxFaults, MaxInterrupts} \subseteq Nat

VARIABLES
    archive,         \* the store
    cursor,          \* the cursor file: last key done, 0 when there is none
    adapter,         \* the session's task: at, key and row being sent, exit, recv_seq
    plan, todo,      \* keys of the session, keys not taken yet
    res, attempt,    \* per key: outcome of its fetch, retries so far
    chan,            \* rows between adapter and synchronizer
    runtime,         \* "run" | "returned"
    worker,          \* "up" | "waiting" | "ended" | "down"
    halting,         \* "no" | "stop" | "shutdown"
    pending,         \* rows the sinks hold in memory
    durable,         \* rows flushed
    faults, halts, crashes,
    sent, counted, late, last   \* history: what became of each object; last row delivered

session == <<adapter, plan, todo, res, attempt>>
budgets == <<faults, halts, crashes>>
ghosts == <<sent, counted, late>>
vars == <<archive, cursor, session, chan, runtime, worker, halting, pending, durable,
          budgets, ghosts, last>>

Row(e) == <<e.key, e.row>>
Rows(q) == {Row(q[i]) : i \in 1..Len(q)}

Idle == [at |-> "idle", key |-> 0, row |-> 0, exit |-> "none", seq |-> 0]
Exit(e) == [adapter EXCEPT !.at = "exited", !.key = 0, !.row = 0, !.exit = e]

Init ==
    /\ archive \in Archives /\ cursor = 0
    /\ adapter = Idle /\ plan = {} /\ todo = {}
    /\ res = [k \in Keys |-> "none"] /\ attempt = [k \in Keys |-> 0]
    /\ chan = <<>> /\ runtime = "returned" /\ worker = "up" /\ halting = "no"
    /\ pending = <<>> /\ durable = {}
    /\ faults = 0 /\ halts = 0 /\ crashes = 0
    /\ sent = {} /\ counted = {} /\ late = {} /\ last = <<0, 0>>

Fault == faults < MaxFaults /\ faults' = faults + 1

-----------------------------------------------------------------------------
(* The cursor file                                                          *)

\* Mutant: resumes two objects further on.
resume_index_skips(keys) ==
    IF cursor \in keys THEN {k \in keys : k > cursor + 1} ELSE keys

\* Mutant: the object under the cursor is done again.
resume_index_again(keys) == IF cursor \in keys THEN {k \in keys : k >= cursor} ELSE keys

\* the keys a session has left; a cursor outside the plan restarts it
resume_index(keys) == IF cursor \in keys THEN {k \in keys : k > cursor} ELSE keys

\* best effort: a failed write is logged and the old cursor stays
write_cursor(key) == \/ cursor' = key /\ UNCHANGED faults
                     \/ Fault /\ UNCHANGED cursor

-----------------------------------------------------------------------------
(* The session's task                                                       *)

\* a universe is listed day by day, but its asset_ctxs objects are taken to exist
enumerate_window ==
    IF Universe THEN {k \in Keys : archive[k] # "absent"} \union CtxKeys ELSE Keys

Spawn ==
    /\ worker = "up" /\ adapter.at = "idle" /\ halting = "no"
    /\ adapter' = [Idle EXCEPT !.at = "plan"] /\ runtime' = "run" /\ chan' = <<>>
    /\ res' = [k \in Keys |-> "none"] /\ attempt' = [k \in Keys |-> 0]
    /\ last' = <<0, 0>>
    /\ UNCHANGED <<archive, cursor, plan, todo, worker, halting, pending, durable, budgets, ghosts>>

Enumerate ==
    /\ adapter.at = "plan"
    /\ plan' = enumerate_window /\ todo' = resume_index(enumerate_window)
    /\ adapter' = [adapter EXCEPT !.at = "fetch"]
    /\ UNCHANGED <<archive, cursor, res, attempt, chan, runtime, worker, halting, pending,
                   durable, budgets, ghosts, last>>

\* a listing failed; a planned window lists nothing
EnumerateFails ==
    /\ adapter.at = "plan" /\ Universe /\ Fault /\ adapter' = Exit("Failed")
    /\ UNCHANGED <<archive, cursor, plan, todo, res, attempt, chan, runtime, worker, halting,
                   pending, durable, halts, crashes, ghosts, last>>

\* buffered(concurrency): the next keys in order, polled only while the task awaits one
Window == {k \in todo : Cardinality({j \in todo : j < k}) < Concurrency}

\* what a completed GET yields: 404 is final, verify_integrity sees a corrupt body
get_object(k) == CASE archive[k] = "absent"  -> "absent"
                   [] archive[k] = "corrupt" -> "integrity"
                   [] OTHER                  -> "ok"

Fetch(k) ==
    /\ adapter.at = "fetch" /\ k \in Window /\ res[k] = "none"
    /\ res' = [res EXCEPT ![k] = get_object(k)]
    /\ UNCHANGED <<archive, cursor, adapter, plan, todo, attempt, chan, runtime, worker,
                   halting, pending, durable, budgets, ghosts, last>>

\* a timeout, a 429 or a 5xx: get_with_retry backs off, and gives up in the end
FetchRetries(k) ==
    /\ adapter.at = "fetch" /\ k \in Window /\ res[k] = "none" /\ Fault
    /\ IF attempt[k] >= max_retries
       THEN res' = [res EXCEPT ![k] = "error"] /\ UNCHANGED attempt
       ELSE attempt' = [attempt EXCEPT ![k] = @ + 1] /\ UNCHANGED res
    /\ UNCHANGED <<archive, cursor, adapter, plan, todo, chan, runtime, worker, halting,
                   pending, durable, halts, crashes, ghosts, last>>

\* a fatal status, or a body damaged on the way
FetchFails(k) ==
    /\ adapter.at = "fetch" /\ k \in Window /\ res[k] = "none" /\ Fault
    /\ \E r \in {"error", "integrity"} : res' = [res EXCEPT ![k] = r]
    /\ UNCHANGED <<archive, cursor, adapter, plan, todo, attempt, chan, runtime, worker,
                   halting, pending, durable, halts, crashes, ghosts, last>>

\* Mutant: whichever fetch is ready.
Ready_unordered == {k \in todo : res[k] # "none"}

\* the fetch the task awaits, once it is there
Ready == {k \in todo : res[k] # "none" /\ \A j \in todo : k <= j}

TakeShutdown ==
    /\ adapter.at = "fetch" /\ Ready # {} /\ halting = "shutdown"
    /\ adapter' = Exit("Completed")
    /\ UNCHANGED <<archive, cursor, plan, todo, res, attempt, chan, runtime, worker, halting,
                   pending, durable, budgets, ghosts, last>>

\* absent, corrupt or undecodable: counted, and passed over for good
TakeCounted(k) ==
    /\ adapter.at = "fetch" /\ k \in Ready /\ halting # "shutdown"
    /\ res[k] \in {"absent", "integrity"} \/ (res[k] = "ok" /\ archive[k] = "garbled")
    /\ todo' = todo \ {k} /\ counted' = counted \union {k} /\ write_cursor(k)
    /\ UNCHANGED <<archive, adapter, plan, res, attempt, chan, runtime, worker, halting,
                   pending, durable, halts, crashes, sent, late, last>>

\* any other error ends the session; the worker comes back
TakeFailed(k) ==
    /\ adapter.at = "fetch" /\ k \in Ready /\ halting # "shutdown" /\ res[k] = "error"
    /\ adapter' = Exit("Failed")
    /\ UNCHANGED <<archive, cursor, plan, todo, res, attempt, chan, runtime, worker, halting,
                   pending, durable, budgets, ghosts, last>>

\* Mutant: the cursor moves when the object is in memory.
TakeObject_early(k) ==
    /\ adapter.at = "fetch" /\ k \in Ready /\ halting # "shutdown"
    /\ res[k] = "ok" /\ archive[k] = "good"
    /\ todo' = todo \ {k} /\ adapter' = [adapter EXCEPT !.at = "send", !.key = k, !.row = 1]
    /\ write_cursor(k)
    /\ UNCHANGED <<archive, plan, res, attempt, chan, runtime, worker, halting, pending,
                   durable, halts, crashes, ghosts, last>>

TakeObject(k) ==
    /\ adapter.at = "fetch" /\ k \in Ready /\ halting # "shutdown"
    /\ res[k] = "ok" /\ archive[k] = "good"
    /\ todo' = todo \ {k} /\ adapter' = [adapter EXCEPT !.at = "send", !.key = k, !.row = 1]
    /\ UNCHANGED <<archive, cursor, plan, res, attempt, chan, runtime, worker, halting,
                   pending, durable, budgets, ghosts, last>>

SendRow ==
    /\ adapter.at = "send" /\ adapter.row <= RowsPer /\ runtime = "run" /\ Len(chan) < Capacity
    /\ adapter' = [adapter EXCEPT !.row = adapter.row + 1, !.seq = adapter.seq + 1]
    /\ chan' = Append(chan, [key |-> adapter.key, row |-> adapter.row, seq |-> adapter.seq + 1])
    /\ UNCHANGED <<archive, cursor, plan, todo, res, attempt, runtime, worker, halting,
                   pending, durable, budgets, ghosts, last>>

\* Mutant: waits for room in a channel nobody reads.
SendFails_waits == FALSE /\ UNCHANGED vars

\* the receiver is gone: no cursor for a half-sent object
SendFails ==
    /\ adapter.at = "send" /\ adapter.row <= RowsPer /\ runtime = "returned"
    /\ adapter' = Exit("Completed")
    /\ UNCHANGED <<archive, cursor, plan, todo, res, attempt, chan, runtime, worker, halting,
                   pending, durable, budgets, ghosts, last>>

ObjectSent ==
    /\ adapter.at = "send" /\ adapter.row > RowsPer
    /\ sent' = sent \union {adapter.key} /\ write_cursor(adapter.key)
    /\ adapter' = [adapter EXCEPT !.at = "fetch", !.key = 0, !.row = 0]
    /\ UNCHANGED <<archive, plan, todo, res, attempt, chan, runtime, worker, halting,
                   pending, durable, halts, crashes, counted, late, last>>

Exhaust ==
    /\ adapter.at = "fetch" /\ todo = {} /\ adapter' = Exit("Exhausted")
    /\ UNCHANGED <<archive, cursor, plan, todo, res, attempt, chan, runtime, worker, halting,
                   pending, durable, budgets, ghosts, last>>

-----------------------------------------------------------------------------
(* Runtime, worker and sinks                                                *)

\* decompose_snapshots: of the rows with provenance, one per stamp of a batch
decompose(q) == {i \in 1..Len(q) : \A j \in 1..(i - 1) :
                    ~({q[i].key, q[j].key} \subseteq CtxKeys /\ q[i].seq = q[j].seq)}
flush(q) == durable \union {Row(q[i]) : i \in decompose(q)}

Deliver ==
    /\ runtime = "run" /\ chan # <<>> /\ halting # "stop"
    /\ LET q == Append(pending, chan[1]) IN
        IF Len(q) >= FlushThreshold
        THEN pending' = <<>> /\ durable' = flush(q)
        ELSE pending' = q /\ UNCHANGED durable
    /\ chan' = Tail(chan) /\ last' = Row(chan[1])
    /\ UNCHANGED <<archive, cursor, session, runtime, worker, halting, budgets, ghosts>>

\* a shutdown, or after a stop the first row the worker no longer takes
RuntimeHalts ==
    /\ halting = "shutdown" \/ (halting = "stop" /\ chan # <<>>)
    /\ runtime = "run" /\ runtime' = "returned" /\ chan' = <<>>
    /\ UNCHANGED <<archive, cursor, session, worker, halting, pending, durable, budgets,
                   ghosts, last>>

\* Mutant: the end of the adapter ends the runtime, whatever is queued.
RuntimeEnds_drops ==
    /\ runtime = "run" /\ adapter.at = "exited" /\ runtime' = "returned" /\ chan' = <<>>
    /\ UNCHANGED <<archive, cursor, session, worker, halting, pending, durable, budgets,
                   ghosts, last>>

RuntimeEnds ==
    /\ runtime = "run" /\ chan = <<>> /\ adapter.at = "exited" /\ runtime' = "returned"
    /\ UNCHANGED <<archive, cursor, session, chan, worker, halting, pending, durable, budgets,
                   ghosts, last>>

\* the join: an exhausted source and a halt end the worker, which flushes
Join ==
    /\ worker = "up" /\ adapter.at = "exited" /\ runtime = "returned"
    /\ IF adapter.exit = "Exhausted" \/ halting # "no"
       THEN worker' = "ended" /\ pending' = <<>> /\ durable' = flush(pending)
       ELSE worker' = "waiting" /\ UNCHANGED <<pending, durable>>
    /\ UNCHANGED <<archive, cursor, session, chan, runtime, halting, budgets, ghosts, last>>

\* told to halt before there is a session, or while waiting for the next
Leave ==
    /\ worker = "waiting" \/ (worker = "up" /\ adapter.at = "idle")
    /\ halting # "no" /\ worker' = "ended" /\ pending' = <<>> /\ durable' = flush(pending)
    /\ UNCHANGED <<archive, cursor, session, chan, runtime, halting, budgets, ghosts, last>>

Reconnect ==
    /\ worker = "waiting" /\ halting = "no" /\ worker' = "up" /\ adapter' = Idle
    /\ UNCHANGED <<archive, cursor, plan, todo, res, attempt, chan, runtime, halting, pending,
                   durable, budgets, ghosts, last>>

-----------------------------------------------------------------------------
(* The world                                                                *)

Halt(how) ==
    /\ worker \in {"up", "waiting"} /\ halting = "no" /\ halts + crashes < MaxInterrupts
    /\ halting' = how /\ halts' = halts + 1
    /\ UNCHANGED <<archive, cursor, session, chan, runtime, worker, pending, durable, faults,
                   crashes, ghosts, last>>

\* Memory is gone.  The cursor was renamed without a sync: an older one may come back.
Crash ==
    /\ worker \in {"up", "waiting"} /\ halts + crashes < MaxInterrupts /\ crashes' = crashes + 1
    /\ worker' = "down" /\ adapter' = Idle /\ runtime' = "returned"
    /\ chan' = <<>> /\ pending' = <<>> /\ todo' = {}
    /\ cursor' \in {c \in plan \union {0} : c <= cursor} \union {cursor}
    /\ UNCHANGED <<archive, plan, res, attempt, halting, durable, faults, halts, ghosts, last>>

\* a new process over the same files
Restart ==
    /\ worker = "down" \/ (worker = "ended" /\ halting # "no")
    /\ worker' = "up" /\ halting' = "no" /\ adapter' = Idle
    /\ UNCHANGED <<archive, cursor, plan, todo, res, attempt, chan, runtime, pending, durable,
                   budgets, ghosts, last>>

Publish(k) ==
    /\ k \in Late /\ archive[k] = "absent"
    /\ archive' = [archive EXCEPT ![k] = "good"] /\ late' = late \union {k}
    /\ UNCHANGED <<cursor, session, chan, runtime, worker, halting, pending, durable, budgets,
                   sent, counted, last>>

Task ==
    \/ Spawn \/ Enumerate \/ EnumerateFails
    \/ \E k \in Keys : \/ Fetch(k) \/ FetchRetries(k) \/ FetchFails(k)
                       \/ TakeCounted(k) \/ TakeFailed(k) \/ TakeObject(k)
    \/ TakeShutdown \/ SendRow \/ SendFails \/ ObjectSent \/ Exhaust

Consumer == Deliver \/ RuntimeHalts \/ RuntimeEnds

Worker == Join \/ Leave \/ Reconnect

Next ==
    \/ Task \/ Consumer \/ Worker
    \/ Halt("stop") \/ Halt("shutdown") \/ Crash \/ Restart
    \/ \E k \in Keys : Publish(k)

\* every spawned task is polled while it can move; timers fire; a process may stay down
Fairness == WF_vars(Task) /\ WF_vars(Consumer) /\ WF_vars(Worker)

Spec == Init /\ [][Next]_vars /\ Fairness

-----------------------------------------------------------------------------
(* Properties                                                               *)

(***************************************************************************)
(* The cursor vouches for what lies before it: every key of the plan up to *)
(* it was sent whole or counted, whatever the sessions, failed writes and  *)
(* crashes before.  Excepted are objects published after the replay began. *)
(***************************************************************************)
CursorVouches == \A k \in plan : k <= cursor => k \in sent \union counted \union late

\* Sessions of one process stamp alike, so rows of two context objects from before and
\* after a failure can be taken for copies of one another.
Restamped == IF faults = 0 THEN {} ELSE CtxKeys
Missing == ((sent \ Restamped) \X (1..RowsPer)) \ (durable \union Rows(pending) \union Rows(chan))

(***************************************************************************)
(* What an interruption costs.  An object passes the cursor once its rows  *)
(* are in the channel, not once they are stored, so a halt can lose the    *)
(* rows in the channel and a crash those the sinks hold as well, and no    *)
(* resume brings them back.  Nothing else is lost, but for the rows of     *)
(* context objects once a session has failed (Restamped).                  *)
(***************************************************************************)
LossBounded ==
    Cardinality(Missing) <= (halts + crashes) * Capacity + crashes * (FlushThreshold - 1)

(***************************************************************************)
(* Objects are fetched ahead and complete in any order; rows still reach   *)
(* the synchronizer in the order of the window.                            *)
(***************************************************************************)
ReplayInOrder ==
    [][last' # last /\ last' # <<0, 0>> =>
        last'[1] > last[1] \/ (last'[1] = last[1] /\ last'[2] > last[2])]_vars

(***************************************************************************)
(* A rerun is idempotent: no object at or before the cursor is sent again. *)
(***************************************************************************)
NoRerun == [][adapter'.key # adapter.key /\ adapter'.key # 0 => adapter'.key > cursor]_vars

(***************************************************************************)
(* A stop or a shutdown ends the worker, wherever the session is: planning,*)
(* retrying a fetch or blocked on a full channel.                          *)
(***************************************************************************)
HaltEnds == (halting # "no") ~> (worker \in {"ended", "down"})

(***************************************************************************)
(* A replay nobody interrupts stores every row of every object it did not  *)
(* count, across failed fetches and sessions, context objects excepted     *)
(* once a session has failed (Restamped).                                  *)
(***************************************************************************)
ReplayCompletes ==
    <>(\/ halts + crashes > 0
       \/ \A k \in Keys : archive[k] = "good" /\ k \notin counted \union late \union Restamped =>
                            {k} \X (1..RowsPer) \subseteq durable)

=============================================================================

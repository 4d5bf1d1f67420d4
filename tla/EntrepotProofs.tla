--------------------------- MODULE EntrepotProofs ---------------------------
(***************************************************************************)
(* What the cursor of an archive replay vouches for, that a rerun sends    *)
(* nothing twice, that rows stay in order and how much an interruption can *)
(* lose: for any window, archive and concurrency, any number of faults,    *)
(* halts and crashes.                                                      *)
(*                                                                         *)
(* CursorVouches is not inductive: a later session plans from a listing    *)
(* that may have grown.  IInv therefore speaks of every object that exists *)
(* (Vouched), ties the plan of a running session to the listing (Listed),  *)
(* and says where each of its keys is (Walked): waiting, being sent, or    *)
(* accounted for.  Keys wait in order, beyond the cursor (Ahead).          *)
(* For the bound on what interruptions lose, each missing row is owed by a *)
(* halt or a crash, which takes at most what the channel and the sinks     *)
(* held at that step.                                                      *)
(***************************************************************************)
EXTENDS Entrepot, FiniteSetTheorems, TLAPS

USE SMTT(20), ZenonT(20)

Active == adapter.at \in {"fetch", "send"}
Accounted == sent \union counted \union late

Adapters == [at : {"idle", "plan", "fetch", "send", "exited"}, key : Keys \union {0},
             row : Nat, exit : {"none", "Failed", "Completed", "Exhausted"}, seq : Nat]

Shape ==
  /\ adapter \in Adapters
  /\ adapter.at # "send" => adapter.key = 0
  /\ adapter.at = "send" => adapter.key \in plan
  /\ archive \in [Keys -> Kinds]
  /\ plan \in SUBSET Keys /\ todo \in SUBSET plan

\* What lies behind the cursor is accounted for, and the cursor is a listed key.
Vouched ==
  /\ \A k \in enumerate_window : k <= cursor => k \in Accounted
  /\ cursor \in enumerate_window \union {0}

\* The plan is the listing, but for what was published since.
Listed ==
  /\ plan \subseteq enumerate_window
  /\ Active => enumerate_window \subseteq plan \union late

\* A key of the plan is to be fetched, in hand, or accounted for.
Walked == Active => \A k \in plan : k \in todo \/ k = adapter.key \/ k \in Accounted

\* What is to come lies after the cursor and after the object in hand.
Ahead ==
  Active => /\ \A k \in todo : k > cursor /\ k > adapter.key
            /\ adapter.key # 0 => adapter.key > cursor

IInv == Shape /\ Vouched /\ Listed /\ Walked /\ Ahead

core == <<archive, cursor, adapter, plan, todo, sent, counted, late>>

-----------------------------------------------------------------------------

\* The steps that move a session, its cursor or the archive.
LEMMA CoreWriters ==
  [Next]_vars =>
    \/ UNCHANGED core
    \/ Spawn \/ Enumerate \/ EnumerateFails
    \/ (\E k \in Keys : TakeCounted(k)) \/ (\E k \in Keys : TakeFailed(k))
    \/ (\E k \in Keys : TakeObject(k))
    \/ TakeShutdown \/ SendRow \/ SendFails \/ ObjectSent \/ Exhaust
    \/ Reconnect \/ Crash \/ Restart \/ (\E k \in Keys : Publish(k))
BY Zenon DEF Next, Task, Consumer, Worker, vars, session, ghosts, core, Fetch, FetchRetries,
  FetchFails, Deliver, RuntimeHalts, RuntimeEnds, Join, Leave, Halt

\* Every key is positive, and the listing names keys only.
LEMMA KeyFacts == /\ Keys \subseteq Nat /\ 0 \notin Keys
                  /\ CtxKeys \subseteq Keys /\ enumerate_window \subseteq Keys
<1>1. Keys \subseteq Nat /\ 0 \notin Keys  BY EntrepotAssumption DEF Keys
<1>2. CtxKeys \subseteq Keys  BY EntrepotAssumption
<1> QED  BY <1>1, <1>2 DEF enumerate_window

\* An exit forgets the object in hand.
LEMMA ExitFacts ==
  ASSUME adapter \in Adapters, NEW e \in {"Failed", "Completed", "Exhausted"}
  PROVE  Exit(e) \in Adapters /\ Exit(e).key = 0 /\ Exit(e).at = "exited"
BY DEF Exit, Adapters

LEMMA InitInv == Init => IInv
<1> SUFFICES ASSUME Init PROVE IInv  OBVIOUS
<1>1. archive \in [Keys -> Kinds]  BY EntrepotAssumption DEF Init
<1> QED  BY <1>1, KeyFacts DEF Init, IInv, Shape, Vouched, Listed, Walked, Ahead, Active,
           Adapters, Idle

\* A session that ends, starts or starts anew is not active, and its listing stays.
LEMMA InactiveStep ==
  ASSUME IInv, UNCHANGED <<archive, cursor, plan, sent, counted, late>>,
         todo' = todo \/ todo' = {},
         adapter' \in Adapters, adapter'.key = 0, adapter'.at \in {"idle", "plan", "exited"}
  PROVE  IInv'
BY DEF IInv, Shape, Vouched, Listed, Walked, Ahead, Active, Accounted, enumerate_window

LEMMA StepInv == IInv /\ [Next]_vars => IInv'
<1> SUFFICES ASSUME IInv, [Next]_vars PROVE IInv'  OBVIOUS
<1>0. adapter \in Adapters  BY DEF IInv, Shape
<1>1. CASE UNCHANGED core
  BY <1>1 DEF core, IInv, Shape, Vouched, Listed, Walked, Ahead, Active, Accounted,
     enumerate_window
<1>2. CASE Spawn
  <2>1. adapter' \in Adapters /\ adapter'.key = 0 /\ adapter'.at = "plan"
    BY <1>2 DEF Spawn, Idle, Adapters
  <2>2. UNCHANGED <<archive, cursor, plan, todo, sent, counted, late>>
    BY <1>2, Zenon DEF Spawn, ghosts
  <2> QED  BY <2>1, <2>2, InactiveStep
<1>3. CASE Enumerate
  <2>1. /\ plan' = enumerate_window /\ todo' = resume_index(enumerate_window)
        /\ adapter.at = "plan" /\ adapter' = [adapter EXCEPT !.at = "fetch"]
    BY <1>3 DEF Enumerate
  <2>2. UNCHANGED <<archive, cursor, sent, counted, late>>
    BY <1>3, Zenon DEF Enumerate, ghosts
  <2>3. adapter.key = 0  BY <2>1 DEF IInv, Shape
  <2>4. adapter' \in Adapters /\ adapter'.at = "fetch" /\ adapter'.key = 0
    BY <1>0, <2>1, <2>3 DEF Adapters
  <2>5. enumerate_window' = enumerate_window  BY <2>2 DEF enumerate_window
  <2>6. cursor \in enumerate_window \union {0}  BY DEF IInv, Vouched
  <2>7. \A k \in enumerate_window : k \in todo' <=> k > cursor
    BY <2>1, <2>6, KeyFacts DEF resume_index
  <2>8. todo' \subseteq plan'  BY <2>1 DEF resume_index
  <2>9. Shape'  BY <2>1, <2>2, <2>4, <2>8, KeyFacts DEF IInv, Shape
  <2>10. Vouched'  BY <2>2, <2>5 DEF IInv, Vouched, Accounted
  <2>11. Listed'  BY <2>1, <2>5 DEF Listed
  <2>12. Walked'
    BY <2>1, <2>2, <2>6, <2>7, KeyFacts DEF IInv, Vouched, Walked, Accounted
  <2>13. Ahead'  BY <2>1, <2>2, <2>4, <2>7, <2>8, KeyFacts DEF Ahead
  <2> QED  BY <2>9, <2>10, <2>11, <2>12, <2>13 DEF IInv
<1>4. CASE \/ EnumerateFails \/ (\E k \in Keys : TakeFailed(k)) \/ TakeShutdown
           \/ SendFails \/ Exhaust
  <2>1. adapter' \in Adapters /\ adapter'.key = 0 /\ adapter'.at = "exited"
    <3>1. \E e \in {"Failed", "Completed", "Exhausted"} : adapter' = Exit(e)
      BY <1>4, Zenon DEF EnumerateFails, TakeFailed, TakeShutdown, SendFails, Exhaust
    <3> QED  BY <1>0, <3>1, ExitFacts
  <2>2. UNCHANGED <<archive, cursor, plan, todo, sent, counted, late>>
    BY <1>4, Zenon DEF EnumerateFails, TakeFailed, TakeShutdown, SendFails, Exhaust, ghosts
  <2> QED  BY <2>1, <2>2, InactiveStep
<1>5. CASE Reconnect \/ Restart
  <2>1. adapter' \in Adapters /\ adapter'.key = 0 /\ adapter'.at = "idle"
    BY <1>5 DEF Reconnect, Restart, Idle, Adapters
  <2>2. UNCHANGED <<archive, cursor, plan, todo, sent, counted, late>>
    BY <1>5, Zenon DEF Reconnect, Restart, ghosts
  <2> QED  BY <2>1, <2>2, InactiveStep
<1>6. CASE Crash
  <2>1. adapter' = Idle /\ todo' = {} /\ cursor' \in plan \union {0, cursor} /\ cursor' <= cursor
    <3>1. cursor' \in {c \in plan \union {0} : c <= cursor} \union {cursor}  BY <1>6 DEF Crash
    <3>2. cursor \in Nat  BY KeyFacts DEF IInv, Vouched
    <3> QED  BY <1>6, <3>1, <3>2 DEF Crash
  <2>2. UNCHANGED <<archive, plan, sent, counted, late>>  BY <1>6, Zenon DEF Crash, ghosts
  <2>3. plan \subseteq enumerate_window /\ cursor \in enumerate_window \union {0}
    BY DEF IInv, Listed, Vouched
  <2>4. enumerate_window' = enumerate_window  BY <2>2 DEF enumerate_window
  <2>5. Vouched'
    BY <2>1, <2>2, <2>3, <2>4, KeyFacts DEF IInv, Vouched, Accounted
  <2>6. adapter' \in Adapters /\ adapter'.key = 0 /\ adapter'.at = "idle"
    BY <2>1 DEF Idle, Adapters
  <2> QED  BY <2>1, <2>2, <2>4, <2>5, <2>6
           DEF IInv, Shape, Listed, Walked, Ahead, Active
<1>7. CASE \E k \in Keys : TakeCounted(k)
  <2> PICK k \in Keys : TakeCounted(k)  BY <1>7
  <2>1. /\ adapter.at = "fetch" /\ k \in todo /\ \A j \in todo : k <= j
        /\ todo' = todo \ {k} /\ counted' = counted \union {k}
        /\ cursor' = k \/ cursor' = cursor
    BY DEF TakeCounted, Ready, write_cursor
  <2>2. UNCHANGED <<archive, adapter, plan, sent, late>>  BY Zenon DEF TakeCounted
  <2>3. adapter.key = 0 /\ Active  BY <2>1 DEF IInv, Shape, Active
  <2>4. enumerate_window' = enumerate_window  BY <2>2 DEF enumerate_window
  <2>5. k \in enumerate_window /\ plan \subseteq Keys /\ todo \subseteq plan
    BY <2>1 DEF IInv, Shape, Listed
  <2>6. \A j \in plan : j \in todo \/ j \in Accounted
    BY <2>3, KeyFacts, <2>5 DEF IInv, Walked
  <2>7. \A j \in enumerate_window : j \in plan \/ j \in late  BY <2>3 DEF IInv, Listed
  <2>8. Vouched'
    <3>1. \A j \in enumerate_window : j <= k => j \in Accounted'
      BY <2>1, <2>2, <2>5, <2>6, <2>7, KeyFacts DEF Accounted
    <3>2. \A j \in enumerate_window : j <= cursor => j \in Accounted'
      BY <2>1, <2>2 DEF IInv, Vouched, Accounted
    <3> QED  BY <2>1, <2>4, <2>5, <3>1, <3>2 DEF IInv, Vouched
  <2>9. Ahead'
    <3>1. \A j \in todo : j > cursor  BY <2>3 DEF IInv, Ahead
    <3> QED  BY <2>1, <2>2, <2>3, <2>5, <3>1, KeyFacts DEF Ahead
  <2>10. Walked'  BY <2>1, <2>2, <2>6 DEF Walked, Accounted
  <2>11. Listed'  BY <2>2, <2>4 DEF IInv, Listed, Active
  <2>12. Shape'  BY <2>1, <2>2 DEF IInv, Shape
  <2> QED  BY <2>8, <2>9, <2>10, <2>11, <2>12 DEF IInv
<1>8. CASE \E k \in Keys : TakeObject(k)
  <2> PICK k \in Keys : TakeObject(k)  BY <1>8
  <2>1. /\ adapter.at = "fetch" /\ k \in todo /\ \A j \in todo : k <= j
        /\ todo' = todo \ {k}
        /\ adapter' = [adapter EXCEPT !.at = "send", !.key = k, !.row = 1]
    BY DEF TakeObject, Ready
  <2>2. UNCHANGED <<archive, cursor, plan, sent, counted, late>>  BY Zenon DEF TakeObject, ghosts
  <2>3. adapter' \in Adapters /\ adapter'.at = "send" /\ adapter'.key = k
    BY <1>0, <2>1 DEF Adapters
  <2>4. adapter.key = 0 /\ Active  BY <2>1 DEF IInv, Shape, Active
  <2>5. plan \subseteq Keys /\ todo \subseteq plan  BY DEF IInv, Shape
  <2>6. Shape'  BY <2>1, <2>2, <2>3, <2>5 DEF IInv, Shape
  <2>7. Vouched' /\ Listed'
    BY <2>2, <2>4 DEF IInv, Vouched, Listed, Accounted, enumerate_window
  <2>8. Walked'
    BY <2>1, <2>2, <2>3, <2>4, <2>5, KeyFacts DEF IInv, Walked, Accounted
  <2>9. Ahead'
    <3>1. \A j \in todo : j > cursor  BY <2>4 DEF IInv, Ahead
    <3> QED  BY <2>1, <2>2, <2>3, <2>5, <3>1, KeyFacts DEF Ahead
  <2> QED  BY <2>6, <2>7, <2>8, <2>9 DEF IInv
<1>9. CASE SendRow
  <2>1. adapter' = [adapter EXCEPT !.row = adapter.row + 1, !.seq = adapter.seq + 1]
    BY <1>9 DEF SendRow
  <2>2. UNCHANGED <<archive, cursor, plan, todo, sent, counted, late>>
    BY <1>9, Zenon DEF SendRow, ghosts
  <2>3. adapter' \in Adapters /\ adapter'.at = adapter.at /\ adapter'.key = adapter.key
    <3>1. adapter.row + 1 \in Nat /\ adapter.seq + 1 \in Nat  BY <1>0 DEF Adapters
    <3> QED  BY <1>0, <2>1, <3>1 DEF Adapters
  <2> QED  BY <2>2, <2>3 DEF IInv, Shape, Vouched, Listed, Walked, Ahead, Active, Accounted,
              enumerate_window
<1>10. CASE ObjectSent
  <2>1. /\ adapter.at = "send" /\ sent' = sent \union {adapter.key}
        /\ cursor' = adapter.key \/ cursor' = cursor
        /\ adapter' = [adapter EXCEPT !.at = "fetch", !.key = 0, !.row = 0]
    BY <1>10 DEF ObjectSent, write_cursor
  <2>2. UNCHANGED <<archive, plan, todo, counted, late>>  BY <1>10, Zenon DEF ObjectSent
  <2>3. adapter' \in Adapters /\ adapter'.at = "fetch" /\ adapter'.key = 0
    BY <1>0, <2>1 DEF Adapters
  <2>4. Active /\ adapter.key \in plan  BY <2>1 DEF IInv, Shape, Active
  <2>5. plan \subseteq Keys /\ todo \subseteq plan /\ plan \subseteq enumerate_window
    BY DEF IInv, Shape, Listed
  <2>6. enumerate_window' = enumerate_window  BY <2>2 DEF enumerate_window
  <2>7. /\ \A j \in todo : j > adapter.key /\ j > cursor
        /\ \A j \in plan : j \in todo \/ j = adapter.key \/ j \in Accounted
        /\ \A j \in enumerate_window : j \in plan \/ j \in late
    BY <2>4 DEF IInv, Ahead, Walked, Listed
  <2>8. Vouched'
    <3>1. \A j \in enumerate_window : j <= adapter.key => j \in Accounted'
      BY <2>1, <2>2, <2>4, <2>5, <2>7, KeyFacts DEF Accounted
    <3>2. \A j \in enumerate_window : j <= cursor => j \in Accounted'
      BY <2>1, <2>2 DEF IInv, Vouched, Accounted
    <3> QED  BY <2>1, <2>4, <2>5, <2>6, <3>1, <3>2 DEF IInv, Vouched
  <2>9. Ahead'  BY <2>1, <2>2, <2>3, <2>5, <2>7, KeyFacts DEF Ahead
  <2>10. Walked'  BY <2>1, <2>2, <2>7 DEF Walked, Accounted
  <2>11. Listed'  BY <2>2, <2>4, <2>6 DEF IInv, Listed
  <2>12. Shape'  BY <2>2, <2>3 DEF IInv, Shape
  <2> QED  BY <2>8, <2>9, <2>10, <2>11, <2>12 DEF IInv
<1>11. CASE \E k \in Keys : Publish(k)
  <2> PICK k \in Keys : Publish(k)  BY <1>11
  <2>1. archive' = [archive EXCEPT ![k] = "good"] /\ late' = late \union {k}
    BY DEF Publish
  <2>2. UNCHANGED <<cursor, adapter, plan, todo, sent, counted>>
    BY Zenon DEF Publish, session
  <2>3. archive' \in [Keys -> Kinds]  BY <2>1 DEF IInv, Shape, Kinds
  <2>4. /\ enumerate_window \subseteq enumerate_window'
        /\ enumerate_window' \subseteq enumerate_window \union {k}
    BY <2>1, KeyFacts DEF enumerate_window, IInv, Shape
  <2>5. Shape'  BY <2>2, <2>3 DEF IInv, Shape
  <2>6. Vouched'  BY <2>1, <2>2, <2>4 DEF IInv, Vouched, Accounted
  <2>7. Listed'  BY <2>1, <2>2, <2>4 DEF IInv, Listed, Active
  <2>8. Walked'  BY <2>1, <2>2 DEF IInv, Walked, Active, Accounted
  <2>9. Ahead'  BY <2>2 DEF IInv, Ahead, Active
  <2> QED  BY <2>5, <2>6, <2>7, <2>8, <2>9 DEF IInv
<1> QED  BY <1>1, <1>2, <1>3, <1>4, <1>5, <1>6, <1>7, <1>8, <1>9, <1>10, <1>11, CoreWriters

(***************************************************************************)
(* The inductive invariant holds: a session (HyperliquidEntrepotAdapter,   *)
(* spawn) walks its plan upwards from the cursor, and accounts for what it *)
(* passes.                                                                 *)
(***************************************************************************)
THEOREM Invariance == Spec => []IInv
BY InitInv, StepInv, PTL DEF Spec

(***************************************************************************)
(* Every key of the plan up to the cursor was sent whole or counted, in    *)
(* this session or an earlier one.                                         *)
(***************************************************************************)
THEOREM TheCursorVouches == Spec => []CursorVouches
<1>1. IInv => CursorVouches
  BY DEF IInv, Vouched, Listed, CursorVouches, Accounted
<1> QED  BY <1>1, Invariance, PTL

(***************************************************************************)
(* No object at or before the cursor is sent again.                        *)
(***************************************************************************)
THEOREM ReplaySendsOnce == Spec => NoRerun
<1>1. IInv /\ [Next]_vars =>
        [adapter'.key # adapter.key /\ adapter'.key # 0 => adapter'.key > cursor]_vars
  <2> SUFFICES ASSUME IInv, [Next]_vars, adapter'.key # adapter.key, adapter'.key # 0
               PROVE  adapter'.key > cursor
    OBVIOUS
  <2>1. adapter \in Adapters  BY DEF IInv, Shape
  <2>2. \E k \in Keys : TakeObject(k)
    <3>1. CASE EnumerateFails \/ (\E k \in Keys : TakeFailed(k)) \/ TakeShutdown
               \/ SendFails \/ Exhaust
      <4>1. \E e \in {"Failed", "Completed", "Exhausted"} : adapter' = Exit(e)
        BY <3>1, Zenon DEF EnumerateFails, TakeFailed, TakeShutdown, SendFails, Exhaust
      <4> QED  BY <2>1, <4>1, ExitFacts
    <3>2. CASE Spawn \/ Reconnect \/ Crash \/ Restart
      <4>1. adapter' = Idle \/ adapter' = [Idle EXCEPT !.at = "plan"]
        BY <3>2, Zenon DEF Spawn, Reconnect, Crash, Restart
      <4> QED  BY <4>1 DEF Idle
    <3>3. CASE UNCHANGED core \/ (\E k \in Keys : TakeCounted(k)) \/ (\E k \in Keys : Publish(k))
      <4>1. adapter' = adapter  BY <3>3, Zenon DEF core, TakeCounted, Publish, session
      <4> QED  BY <4>1
    <3>4. CASE Enumerate \/ SendRow
      BY <2>1, <3>4 DEF Enumerate, SendRow, Adapters
    <3>5. CASE ObjectSent
      BY <2>1, <3>5 DEF ObjectSent, Adapters
    <3> QED  BY <3>1, <3>2, <3>3, <3>4, <3>5, CoreWriters
  <2>3. PICK k \in Keys : TakeObject(k)  BY <2>2
  <2>4. k \in todo /\ adapter.at = "fetch" /\ adapter'.key = k
    BY <2>1, <2>3 DEF TakeObject, Ready, Adapters
  <2> QED  BY <2>4 DEF IInv, Ahead, Active
<1> QED  BY <1>1, Invariance, PTL DEF Spec, NoRerun

-----------------------------------------------------------------------------
(* Rows in order.  The rows on their way are sorted (Sorted), all later    *)
(* than the last one delivered and earlier than everything still to come.  *)

Events == [key : Keys, row : 1..RowsPer, seq : Nat]

Less(a, b) == a[1] < b[1] \/ (a[1] = b[1] /\ a[2] < b[2])

Sorted ==
  /\ chan \in Seq(Events) /\ last \in Nat \X Nat
  /\ \A i, j \in 1..Len(chan) : i < j => Less(Row(chan[i]), Row(chan[j]))
  /\ \A i \in 1..Len(chan) : Less(last, Row(chan[i]))

\* The row a is earlier than everything the session still has to send.
Past(a) == /\ adapter.at = "fetch" => \A k \in todo : a[1] < k
           /\ adapter.at = "send" => Less(a, <<adapter.key, adapter.row>>)

Behind ==
  /\ adapter.at = "plan" => chan = <<>> /\ last = <<0, 0>>
  /\ Active => Past(last) /\ \A i \in 1..Len(chan) : Past(Row(chan[i]))
  /\ adapter.at = "send" => adapter.row \in Nat \ {0}

OInv == IInv /\ Sorted /\ Behind

\* A row is a pair of naturals: its object's place in the window, its place there.
LEMMA RowFacts ==
  ASSUME NEW e \in Events
  PROVE  Row(e) \in Nat \X Nat /\ Row(e)[1] \in Nat /\ Row(e)[2] \in Nat
<1>1. e.key \in Keys /\ e.row \in 1..RowsPer  BY DEF Events
<1>2. e.key \in Nat  BY <1>1, KeyFacts, Zenon
<1>3. e.row \in Nat  BY <1>1, EntrepotAssumption
<1> QED  BY <1>2, <1>3 DEF Row

LEMMA ChanRows ==
  ASSUME Sorted
  PROVE  /\ \A i \in 1..Len(chan) : chan[i] \in Events /\ Row(chan[i]) \in Nat \X Nat
                                     /\ Row(chan[i])[1] \in Nat
         /\ last \in Nat \X Nat /\ last[1] \in Nat
<1>1. \A i \in 1..Len(chan) : chan[i] \in Events  BY DEF Sorted
<1>2. last \in Nat \X Nat /\ last[1] \in Nat  BY DEF Sorted
<1> QED  BY <1>1, <1>2, RowFacts

\* The steps that touch the rows on their way, or what is still to come.
LEMMA RowWriters ==
  [Next]_vars =>
    \/ UNCHANGED <<chan, last, adapter, todo>>
    \/ Spawn \/ Enumerate \/ EnumerateFails
    \/ (\E k \in Keys : TakeCounted(k)) \/ (\E k \in Keys : TakeFailed(k))
    \/ (\E k \in Keys : TakeObject(k))
    \/ TakeShutdown \/ SendRow \/ SendFails \/ ObjectSent \/ Exhaust
    \/ Deliver \/ RuntimeHalts \/ Reconnect \/ Crash \/ Restart
BY Zenon DEF Next, Task, Consumer, Worker, vars, session, Fetch, FetchRetries,
  FetchFails, RuntimeEnds, Join, Leave, Halt, Publish

\* A step that leaves the session inactive and the channel alone, or empties it.
LEMMA QuietStep ==
  ASSUME Sorted, last' = last \/ last' = <<0, 0>>,
         (chan' = chan /\ last' = last) \/ chan' = <<>>,
         adapter'.at \in {"idle", "exited"} \/ (adapter'.at = "plan" /\ chan' = <<>> /\ last' = <<0, 0>>)
  PROVE  Sorted' /\ Behind'
<1>1. Sorted'
  <2>1. CASE chan' = chan /\ last' = last  BY <2>1 DEF Sorted
  <2>2. CASE chan' = <<>>  BY <2>2 DEF Sorted
  <2> QED  BY <2>1, <2>2
<1> QED  BY <1>1 DEF Behind, Active

LEMMA OrderStep == OInv /\ [Next]_vars => OInv'
<1> SUFFICES ASSUME OInv, [Next]_vars PROVE Sorted' /\ Behind'
  BY StepInv DEF OInv
<1>0. adapter \in Adapters /\ IInv /\ Sorted /\ Behind  BY DEF OInv, IInv, Shape
<1>1. CASE UNCHANGED <<chan, last, adapter, todo>>
  BY <1>0, <1>1 DEF Sorted, Behind, Past, Active
<1>2. CASE Spawn
  BY <1>0, <1>2, QuietStep DEF Spawn, Idle
<1>3. CASE Enumerate
  <2>1. chan' = <<>> /\ last' = <<0, 0>> /\ adapter'.at = "fetch"
    BY <1>0, <1>3 DEF Enumerate, Behind, Adapters
  <2>2. todo' \subseteq Keys  BY <1>3, KeyFacts DEF Enumerate, resume_index
  <2>3. Sorted'  BY <2>1 DEF Sorted
  <2>4. \A k \in todo' : 0 < k  BY <2>2, KeyFacts
  <2> QED  BY <2>1, <2>3, <2>4 DEF Behind, Past, Active
<1>4. CASE \/ EnumerateFails \/ (\E k \in Keys : TakeFailed(k)) \/ TakeShutdown
           \/ SendFails \/ Exhaust
  <2>1. \E e \in {"Failed", "Completed", "Exhausted"} : adapter' = Exit(e)
    BY <1>4, Zenon DEF EnumerateFails, TakeFailed, TakeShutdown, SendFails, Exhaust
  <2>2. chan' = chan /\ last' = last
    BY <1>4, Zenon DEF EnumerateFails, TakeFailed, TakeShutdown, SendFails, Exhaust
  <2> QED  BY <1>0, <2>1, <2>2, ExitFacts, QuietStep
<1>5. CASE Reconnect \/ Restart
  BY <1>0, <1>5, QuietStep DEF Reconnect, Restart, Idle
<1>6. CASE Crash
  BY <1>0, <1>6, QuietStep DEF Crash, Idle
<1>7. CASE \E k \in Keys : TakeCounted(k)
  <2>1. PICK k \in Keys : TakeCounted(k)  BY <1>7
  <2>2. todo' = todo \ {k} /\ adapter' = adapter /\ chan' = chan /\ last' = last
    BY <2>1 DEF TakeCounted
  <2> QED  BY <1>0, <2>2 DEF Sorted, Behind, Past, Active
<1>8. CASE \E k \in Keys : TakeObject(k)
  <2>1. PICK k \in Keys : TakeObject(k)  BY <1>8
  <2>2. /\ adapter.at = "fetch" /\ k \in todo /\ chan' = chan /\ last' = last
        /\ adapter' = [adapter EXCEPT !.at = "send", !.key = k, !.row = 1]
    BY <2>1 DEF TakeObject, Ready
  <2>3. adapter'.at = "send" /\ adapter'.key = k /\ adapter'.row = 1
    BY <1>0, <2>2 DEF Adapters
  <2>4. last[1] < k /\ \A i \in 1..Len(chan) : Row(chan[i])[1] < k
    BY <1>0, <2>2 DEF Behind, Past, Active
  <2>5. Sorted'  BY <1>0, <2>2 DEF Sorted
  <2> QED  BY <2>2, <2>3, <2>4, <2>5 DEF Behind, Past, Less, Active
<1>9. CASE SendRow
  <2> DEFINE e == [key |-> adapter.key, row |-> adapter.row, seq |-> adapter.seq + 1]
  <2>1. /\ adapter.at = "send" /\ adapter.row <= RowsPer /\ chan' = Append(chan, e)
        /\ adapter' = [adapter EXCEPT !.row = adapter.row + 1, !.seq = adapter.seq + 1]
        /\ last' = last
    BY <1>9 DEF SendRow
  <2>2. /\ adapter.key \in Keys /\ adapter.row \in Nat \ {0} /\ adapter.seq + 1 \in Nat
    BY <1>0, <2>1 DEF IInv, Shape, Behind, Adapters
  <2>3. e \in Events /\ Row(e) = <<adapter.key, adapter.row>>
    BY <2>1, <2>2, EntrepotAssumption DEF Events, Row
  <2>4. adapter'.at = "send" /\ adapter'.key = adapter.key /\ adapter'.row = adapter.row + 1
    <3>1. adapter.row + 1 \in Nat  BY <2>2
    <3> QED  BY <1>0, <2>1, <3>1 DEF Adapters
  <2> HIDE DEF e
  <2>5. /\ chan \in Seq(Events) /\ chan' \in Seq(Events) /\ Len(chan') = Len(chan) + 1
        /\ \A i \in 1..Len(chan) : chan'[i] = chan[i]
        /\ chan'[Len(chan) + 1] = e
    BY <1>0, <2>1, <2>3 DEF Sorted
  <2>6. /\ Less(last, Row(e)) /\ \A i \in 1..Len(chan) : Less(Row(chan[i]), Row(e))
    BY <1>0, <2>1, <2>3 DEF Behind, Past, Active
  <2>7. Sorted'
    <3>1. \A i \in 1..Len(chan') : i \in 1..Len(chan) \/ i = Len(chan) + 1  BY <2>5
    <3>2. \A i, j \in 1..Len(chan') : i < j => Less(Row(chan'[i]), Row(chan'[j]))
      <4> TAKE i, j \in 1..Len(chan')
      <4> HAVE i < j
      <4>1. i \in 1..Len(chan)  BY <2>5
      <4>2. CASE j \in 1..Len(chan)  BY <1>0, <2>5, <4>1, <4>2 DEF Sorted
      <4>3. CASE j = Len(chan) + 1  BY <2>5, <2>6, <4>1, <4>3
      <4> QED  BY <3>1, <4>2, <4>3
    <3>3. \A i \in 1..Len(chan') : Less(last, Row(chan'[i]))
      BY <1>0, <2>5, <2>6, <3>1 DEF Sorted
    <3> QED  BY <1>0, <2>1, <2>5, <3>2, <3>3 DEF Sorted
  <2>8. \A a \in Nat \X Nat : Less(a, Row(e)) => Less(a, <<adapter.key, adapter.row + 1>>)
    BY <2>2, <2>3, KeyFacts DEF Less
  <2>9. \A i \in 1..Len(chan) : Row(chan[i]) \in Nat \X Nat
    BY <1>0, ChanRows
  <2>10. Less(Row(e), <<adapter.key, adapter.row + 1>>)
    BY <2>2, <2>3, KeyFacts DEF Less
  <2>11. /\ Less(last, <<adapter.key, adapter.row + 1>>)
         /\ \A i \in 1..Len(chan') : Less(Row(chan'[i]), <<adapter.key, adapter.row + 1>>)
    <3>1. \A i \in 1..Len(chan') : i \in 1..Len(chan) \/ i = Len(chan) + 1  BY <2>5
    <3>2. last \in Nat \X Nat  BY <1>0 DEF Sorted
    <3> QED  BY <2>5, <2>6, <2>8, <2>9, <2>10, <3>1, <3>2
  <2> QED  BY <2>1, <2>2, <2>4, <2>7, <2>11 DEF Behind, Past, Active
<1>10. CASE ObjectSent
  <2>1. /\ adapter.at = "send" /\ chan' = chan /\ last' = last /\ todo' = todo
        /\ adapter' = [adapter EXCEPT !.at = "fetch", !.key = 0, !.row = 0]
    BY <1>10 DEF ObjectSent
  <2>2. adapter'.at = "fetch"  BY <1>0, <2>1 DEF Adapters
  <2>3. \A k \in todo : k > adapter.key /\ k \in Nat
    <3>1. \A k \in todo : k > adapter.key  BY <1>0, <2>1 DEF IInv, Ahead, Active
    <3>2. todo \subseteq Nat  BY <1>0, KeyFacts, Zenon DEF IInv, Shape
    <3> QED  BY <3>1, <3>2
  <2>4. adapter.key \in Nat
    <3>1. adapter.key \in Keys \union {0}  BY <1>0 DEF Adapters
    <3> QED  BY <3>1, EntrepotAssumption DEF Keys
  <2>5. /\ Less(last, <<adapter.key, adapter.row>>)
        /\ \A i \in 1..Len(chan) : Less(Row(chan[i]), <<adapter.key, adapter.row>>)
    BY <1>0, <2>1 DEF Behind, Past, Active
  <2>6. last[1] \in Nat /\ \A i \in 1..Len(chan) : Row(chan[i])[1] \in Nat
    BY <1>0, ChanRows
  <2>7. Sorted'  BY <1>0, <2>1 DEF Sorted
  <2> QED  BY <2>1, <2>2, <2>3, <2>4, <2>5, <2>6, <2>7 DEF Behind, Past, Less, Active
<1>11. CASE Deliver
  <2>1. /\ chan # <<>> /\ chan' = Tail(chan) /\ last' = Row(chan[1])
        /\ adapter' = adapter /\ todo' = todo
    BY <1>11 DEF Deliver, session
  <2>2. /\ chan \in Seq(Events) /\ chan' \in Seq(Events) /\ Len(chan) >= 1
        /\ Len(chan') = Len(chan) - 1 /\ \A i \in 1..Len(chan') : chan'[i] = chan[i + 1]
    BY <1>0, <2>1 DEF Sorted
  <2>3. Row(chan[1]) \in Nat \X Nat
    <3>1. 1 \in 1..Len(chan)  BY <2>2
    <3> QED  BY <1>0, <3>1, ChanRows
  <2>4. Sorted'
    <3>1. \A i \in 1..Len(chan') : i + 1 \in 1..Len(chan)  BY <2>2
    <3>2. \A i, j \in 1..Len(chan') : i < j => Less(Row(chan'[i]), Row(chan'[j]))
      BY <1>0, <2>2, <3>1 DEF Sorted
    <3>3. \A i \in 1..Len(chan') : Less(last', Row(chan'[i]))
      BY <1>0, <2>1, <2>2, <3>1 DEF Sorted
    <3> QED  BY <2>1, <2>2, <2>3, <3>2, <3>3 DEF Sorted
  <2>5. adapter.at # "plan"  BY <1>0, <2>1 DEF Behind
  <2>6. Active => \A i \in 1..Len(chan) : Past(Row(chan[i]))  BY <1>0 DEF Behind
  <2>7. Active => Past(last') /\ \A i \in 1..Len(chan') : Past(Row(chan'[i]))
    <3>1. \A i \in 1..Len(chan') : i + 1 \in 1..Len(chan)  BY <2>2
    <3> QED  BY <2>1, <2>2, <2>6, <3>1
  <2> QED  BY <1>0, <2>1, <2>4, <2>5, <2>7 DEF Behind, Past, Active
<1>12. CASE RuntimeHalts
  <2>1. chan' = <<>> /\ last' = last /\ adapter' = adapter /\ todo' = todo
    BY <1>12 DEF RuntimeHalts, session
  <2>2. Sorted'  BY <1>0, <2>1 DEF Sorted
  <2> QED  BY <1>0, <2>1, <2>2 DEF Behind, Past, Active
<1> QED  BY <1>1, <1>2, <1>3, <1>4, <1>5, <1>6, <1>7, <1>8, <1>9, <1>10, <1>11, <1>12,
            RowWriters

(***************************************************************************)
(* Rows reach the synchronizer in the order of the window, however far     *)
(* ahead objects are fetched.                                              *)
(***************************************************************************)
THEOREM RowsArriveInOrder == Spec => ReplayInOrder
<1>1. Init => OInv
  BY InitInv DEF Init, OInv, Sorted, Behind, Active, Idle
<1>2. Spec => []OInv
  BY <1>1, OrderStep, PTL DEF Spec
<1>3. OInv /\ [Next]_vars =>
        [last' # last /\ last' # <<0, 0>> =>
          last'[1] > last[1] \/ (last'[1] = last[1] /\ last'[2] > last[2])]_vars
  <2> SUFFICES ASSUME OInv, [Next]_vars, last' # last, last' # <<0, 0>>
               PROVE  last'[1] > last[1] \/ (last'[1] = last[1] /\ last'[2] > last[2])
    OBVIOUS
  <2>1. Deliver
    BY RowWriters, Zenon DEF Spawn, Enumerate, EnumerateFails, TakeCounted, TakeFailed,
       TakeObject, TakeShutdown, SendRow, SendFails, ObjectSent, Exhaust, RuntimeHalts,
       Reconnect, Crash, Restart
  <2>2. last' = Row(chan[1]) /\ chan # <<>>  BY <2>1 DEF Deliver
  <2>3. Less(last, Row(chan[1])) /\ Row(chan[1]) \in Nat \X Nat /\ last \in Nat \X Nat
    <3>1. Sorted  BY DEF OInv
    <3>2. 1 \in 1..Len(chan)  BY <2>2, <3>1 DEF Sorted
    <3> QED  BY <3>1, <3>2, ChanRows DEF Sorted
  <2> QED  BY <2>2, <2>3 DEF Less
<1> QED  BY <1>2, <1>3, PTL DEF Spec, ReplayInOrder
-----------------------------------------------------------------------------
(* What an interruption costs.  LossBounded is not inductive either.  Rows *)
(* of the object in hand count already when they are sent (Owed), and the  *)
(* rows a halt will drop are set aside when it is asked for (AtRisk).      *)
(* What a flush takes for a copy is one only if stamps do not repeat:      *)
(* before the first fault they rise through sinks and channel (Stamped),   *)
(* because no session follows another in one process (Phase).              *)

Fetched == {"none", "ok", "absent", "integrity", "error"}

Phase ==
  /\ faults \in Nat /\ halts \in Nat /\ crashes \in Nat /\ sent \subseteq Keys
  /\ res \in [Keys -> Fetched]
  /\ runtime \in {"run", "returned"}
  /\ runtime = "returned" => chan = <<>>
  /\ worker # "up" \/ adapter.at = "idle" => runtime = "returned"
  /\ worker \in {"ended", "down"} => pending = <<>>
  /\ adapter.at = "exited" => adapter.exit # "none"
  /\ adapter.exit = "Completed" => halting # "no"
  /\ runtime = "returned" /\ adapter.at \in {"plan", "fetch", "send"} => halting # "no"
  /\ faults = 0 => /\ \A k \in Keys : res[k] # "error"
                   /\ adapter.exit # "Failed" /\ worker # "waiting"
                   /\ adapter.at = "idle" => pending = <<>>

LEMMA FaultFacts == ASSUME faults \in Nat, Fault PROVE faults' \in Nat /\ faults' # 0
BY DEF Fault

\* The steps that keep to the session's phase.
LEMMA PhaseStep ==
  ASSUME IInv, Phase, [Next]_vars PROVE Phase'
<1>0. adapter \in Adapters  BY DEF IInv, Shape
<1>1. CASE Spawn
  BY <1>1 DEF Spawn, Phase, Idle, budgets, ghosts, Fetched
<1>2. CASE Enumerate
  <2>1. adapter'.at = "fetch" /\ adapter'.exit = adapter.exit /\ adapter.at = "plan"
    BY <1>0, <1>2 DEF Enumerate, Adapters
  <2> QED  BY <1>2, <2>1 DEF Enumerate, Phase, budgets, ghosts
<1>3. CASE EnumerateFails
  <2>1. adapter' = Exit("Failed") /\ Fault
        /\ UNCHANGED <<halts, crashes, sent, res, runtime, chan, worker, pending, halting>>
    BY <1>3 DEF EnumerateFails, ghosts
  <2>2. adapter'.at = "exited" /\ adapter'.exit = "Failed"
    BY <1>0, <2>1 DEF Exit, Adapters
  <2>3. faults' \in Nat /\ faults' # 0  BY <2>1, FaultFacts DEF Phase
  <2>4. adapter.at = "plan"  BY <1>3 DEF EnumerateFails
  <2> QED  BY <2>1, <2>2, <2>3, <2>4 DEF Phase
<1>4. CASE \E k \in Keys : Fetch(k) \/ FetchRetries(k) \/ FetchFails(k)
  <2>1. PICK k \in Keys : Fetch(k) \/ FetchRetries(k) \/ FetchFails(k)  BY <1>4
  <2>2. UNCHANGED <<halts, crashes, sent, adapter, runtime, chan, worker, pending, halting>>
    BY <2>1, Zenon DEF Fetch, FetchRetries, FetchFails, budgets, ghosts
  <2>3. CASE Fetch(k)
    <3>1. faults' = faults /\ res' = [res EXCEPT ![k] = get_object(k)]
      BY <2>3 DEF Fetch, budgets
    <3>2. get_object(k) \in Fetched \ {"error"}  BY DEF get_object, Fetched
    <3> QED  BY <2>2, <3>1, <3>2 DEF Phase
  <2>4. CASE FetchRetries(k) \/ FetchFails(k)
    <3>1. Fault /\ (res' = res \/ \E r \in {"error", "integrity"} : res' = [res EXCEPT ![k] = r])
      BY <2>4 DEF FetchRetries, FetchFails
    <3>2. faults' \in Nat /\ faults' # 0  BY <3>1, FaultFacts DEF Phase
    <3>3. res' \in [Keys -> Fetched]  BY <3>1 DEF Phase, Fetched
    <3> QED  BY <2>2, <3>2, <3>3 DEF Phase
  <2> QED  BY <2>1, <2>3, <2>4
<1>5. CASE \E k \in Keys : TakeCounted(k)
  <2>1. PICK k \in Keys : TakeCounted(k)  BY <1>5
  <2>2. UNCHANGED <<halts, crashes, sent, adapter, runtime, chan, worker, pending, halting, res>>
    BY <2>1, Zenon DEF TakeCounted
  <2>3. faults' = faults \/ Fault  BY <2>1 DEF TakeCounted, write_cursor
  <2>4. faults' \in Nat /\ (faults' = 0 => faults = 0)  BY <2>3, FaultFacts DEF Phase
  <2> QED  BY <2>2, <2>4 DEF Phase
<1>6. CASE \E k \in Keys : TakeFailed(k)
  <2>1. PICK k \in Keys : TakeFailed(k)  BY <1>6
  <2>2. UNCHANGED <<faults, halts, crashes, sent, runtime, chan, worker, pending, halting, res>>
    BY <2>1, Zenon DEF TakeFailed, budgets, ghosts
  <2>3. adapter.at = "fetch" /\ res[k] = "error" /\ adapter' = Exit("Failed")
    BY <2>1 DEF TakeFailed
  <2>4. adapter'.at = "exited" /\ adapter'.exit = "Failed"
    BY <1>0, <2>3 DEF Exit, Adapters
  <2>5. faults # 0  BY <2>3 DEF Phase
  <2> QED  BY <2>2, <2>3, <2>4, <2>5 DEF Phase
<1>7. CASE \E k \in Keys : TakeObject(k)
  <2>1. PICK k \in Keys : TakeObject(k)  BY <1>7
  <2>2. UNCHANGED <<faults, halts, crashes, sent, runtime, chan, worker, pending, halting, res>>
    BY <2>1, Zenon DEF TakeObject, budgets, ghosts
  <2>3. adapter.at = "fetch" /\ adapter'.at = "send" /\ adapter'.exit = adapter.exit
    BY <1>0, <2>1 DEF TakeObject, Adapters
  <2> QED  BY <2>2, <2>3 DEF Phase
<1>8. CASE TakeShutdown \/ SendFails \/ Exhaust
  <2>1. UNCHANGED <<faults, halts, crashes, sent, runtime, chan, worker, pending, halting, res>>
    BY <1>8, Zenon DEF TakeShutdown, SendFails, Exhaust, budgets, ghosts
  <2>2. \/ adapter' = Exit("Exhausted") /\ adapter.at = "fetch"
        \/ adapter' = Exit("Completed") /\ adapter.at \in {"fetch", "send"} /\ halting # "no"
    BY <1>8 DEF TakeShutdown, SendFails, Exhaust, Phase
  <2>3. /\ adapter'.at = "exited" /\ adapter'.exit \in {"Exhausted", "Completed"}
        /\ adapter.at # "idle" /\ (adapter'.exit = "Completed" => halting # "no")
    BY <1>0, <2>2 DEF Exit, Adapters
  <2> QED  BY <2>1, <2>3 DEF Phase
<1>9. CASE SendRow
  <2>1. UNCHANGED <<faults, halts, crashes, sent, runtime, worker, pending, halting, res>>
    BY <1>9, Zenon DEF SendRow, budgets, ghosts
  <2>2. adapter.at = "send" /\ runtime = "run" /\ adapter'.at = "send" /\ adapter'.exit = adapter.exit
    BY <1>0, <1>9 DEF SendRow, Adapters
  <2> QED  BY <2>1, <2>2 DEF Phase
<1>10. CASE ObjectSent
  <2>1. UNCHANGED <<halts, crashes, runtime, chan, worker, pending, halting, res>>
    BY <1>10, Zenon DEF ObjectSent
  <2>2. /\ adapter.at = "send" /\ adapter'.at = "fetch" /\ adapter'.exit = adapter.exit
        /\ sent' = sent \union {adapter.key}
    BY <1>0, <1>10 DEF ObjectSent, Adapters
  <2>3. adapter.key \in Keys  BY <2>2 DEF IInv, Shape
  <2>4. faults' = faults \/ Fault  BY <1>10 DEF ObjectSent, write_cursor
  <2>5. faults' \in Nat /\ (faults' = 0 => faults = 0)  BY <2>4, FaultFacts DEF Phase
  <2> QED  BY <2>1, <2>2, <2>3, <2>5 DEF Phase
<1>11. CASE Deliver
  <2>1. UNCHANGED <<faults, halts, crashes, sent, adapter, runtime, worker, halting, res>>
    BY <1>11, Zenon DEF Deliver, session, budgets, ghosts
  <2>2. runtime = "run"  BY <1>11 DEF Deliver
  <2> QED  BY <2>1, <2>2 DEF Phase
<1>12. CASE RuntimeHalts \/ RuntimeEnds
  <2>1. UNCHANGED <<faults, halts, crashes, sent, adapter, worker, pending, halting, res>>
    BY <1>12, Zenon DEF RuntimeHalts, RuntimeEnds, session, budgets, ghosts
  <2>2. /\ runtime' = "returned" /\ chan' = <<>>
        /\ halting # "no" \/ adapter.at = "exited"
    BY <1>12 DEF RuntimeHalts, RuntimeEnds
  <2> QED  BY <2>1, <2>2 DEF Phase
<1>13. CASE Join
  <2>1. UNCHANGED <<faults, halts, crashes, sent, adapter, runtime, chan, halting, res>>
    BY <1>13, Zenon DEF Join, session, budgets, ghosts
  <2>2. /\ adapter.at = "exited" /\ runtime = "returned"
        /\ \/ worker' = "ended" /\ pending' = <<>>
           \/ /\ worker' = "waiting" /\ pending' = pending
              /\ adapter.exit # "Exhausted" /\ halting = "no"
    BY <1>13 DEF Join
  <2>3. worker' = "waiting" => faults # 0
    BY <1>0, <2>2 DEF Phase, Adapters
  <2> QED  BY <2>1, <2>2, <2>3 DEF Phase
<1>14. CASE Leave
  <2>1. UNCHANGED <<faults, halts, crashes, sent, adapter, runtime, chan, halting, res>>
    BY <1>14, Zenon DEF Leave, session, budgets, ghosts
  <2>2. worker' = "ended" /\ pending' = <<>> /\ runtime = "returned"
    BY <1>14 DEF Leave, Phase
  <2> QED  BY <2>1, <2>2 DEF Phase
<1>15. CASE Reconnect
  <2>1. UNCHANGED <<faults, halts, crashes, sent, runtime, chan, pending, halting, res>>
    BY <1>15, Zenon DEF Reconnect, budgets, ghosts
  <2>2. worker = "waiting" /\ worker' = "up" /\ adapter' = Idle  BY <1>15 DEF Reconnect
  <2> QED  BY <2>1, <2>2 DEF Phase, Idle
<1>16. CASE Restart
  <2>1. UNCHANGED <<faults, halts, crashes, sent, runtime, chan, pending, res>>
    BY <1>16, Zenon DEF Restart, budgets, ghosts
  <2>2. worker \in {"down", "ended"} /\ worker' = "up" /\ adapter' = Idle  BY <1>16 DEF Restart
  <2> QED  BY <2>1, <2>2 DEF Phase, Idle
<1>17. CASE Halt("stop") \/ Halt("shutdown")
  <2>1. UNCHANGED <<faults, crashes, sent, adapter, runtime, chan, worker, pending, res>>
    BY <1>17, Zenon DEF Halt, session, ghosts
  <2>2. halting' # "no" /\ halts' = halts + 1  BY <1>17 DEF Halt
  <2> QED  BY <2>1, <2>2 DEF Phase
<1>18. CASE Crash
  <2>1. UNCHANGED <<faults, halts, sent, halting, res>>  BY <1>18, Zenon DEF Crash, ghosts
  <2>2. /\ worker' = "down" /\ adapter' = Idle /\ runtime' = "returned" /\ chan' = <<>>
        /\ pending' = <<>> /\ crashes' = crashes + 1
    BY <1>18 DEF Crash
  <2> QED  BY <2>1, <2>2 DEF Phase, Idle
<1>19. CASE (\E k \in Keys : Publish(k)) \/ UNCHANGED vars
  <2>1. UNCHANGED <<faults, halts, crashes, sent, adapter, runtime, chan, worker, pending,
                    halting, res>>
    BY <1>19, Zenon DEF Publish, vars, session, budgets, ghosts
  <2> QED  BY <2>1 DEF Phase
<1> QED  BY <1>1, <1>2, <1>3, <1>4, <1>5, <1>6, <1>7, <1>8, <1>9, <1>10, <1>11, <1>12, <1>13,
            <1>14, <1>15, <1>16, <1>17, <1>18, <1>19, Zenon DEF Next, Task, Consumer, Worker
Rising(q) == \A i, j \in 1..Len(q) : i < j => q[i].seq < q[j].seq

Stamped ==
  /\ Rising(pending) /\ Rising(chan)
  /\ \A i \in 1..Len(pending), j \in 1..Len(chan) : pending[i].seq < chan[j].seq
  /\ \A i \in 1..Len(pending) : pending[i].seq <= adapter.seq
  /\ \A i \in 1..Len(chan) : chan[i].seq <= adapter.seq

Kept ==
  /\ pending \in Seq(Events) /\ Len(pending) < FlushThreshold /\ Len(chan) <= Capacity
  /\ faults = 0 => Stamped

\* The steps that move no row, and leave the stamps of a session's rows alone.
LEMMA StillSteps ==
  ASSUME IInv, Phase, [Next]_vars
  PROVE  \/ /\ UNCHANGED <<chan, pending, durable>>
            /\ faults' = 0 => faults = 0
            /\ adapter'.seq = adapter.seq \/ (chan = <<>> /\ (faults = 0 => pending = <<>>))
         \/ SendRow \/ Deliver \/ RuntimeHalts \/ Join \/ Leave \/ Crash
<1>0. adapter \in Adapters /\ faults \in Nat  BY DEF IInv, Shape, Phase
<1>1. CASE Spawn
  <2>1. chan' = <<>> /\ UNCHANGED <<pending, durable, faults>> /\ adapter.at = "idle"
    BY <1>1 DEF Spawn, budgets
  <2> QED  BY <2>1 DEF Phase
<1>2. CASE Reconnect \/ Restart
  <2>1. UNCHANGED <<chan, pending, durable, faults>>  BY <1>2 DEF Reconnect, Restart, budgets
  <2>2. worker \in {"waiting", "down", "ended"}  BY <1>2 DEF Reconnect, Restart
  <2> QED  BY <2>1, <2>2 DEF Phase
<1>3. CASE Enumerate \/ (\E k \in Keys : TakeObject(k))
  <2>1. UNCHANGED <<chan, pending, durable, faults>>
    BY <1>3, Zenon DEF Enumerate, TakeObject, budgets
  <2>2. adapter'.seq = adapter.seq  BY <1>0, <1>3 DEF Enumerate, TakeObject, Adapters
  <2> QED  BY <2>1, <2>2
<1>4. CASE EnumerateFails
  <2>1. UNCHANGED <<chan, pending, durable>> /\ Fault /\ adapter' = Exit("Failed")
    BY <1>4 DEF EnumerateFails
  <2>2. adapter'.seq = adapter.seq  BY <1>0, <2>1 DEF Exit, Adapters
  <2> QED  BY <1>0, <2>1, <2>2, FaultFacts
<1>5. CASE (\E k \in Keys : TakeFailed(k)) \/ TakeShutdown \/ SendFails \/ Exhaust
  <2>1. UNCHANGED <<chan, pending, durable, faults>>
    BY <1>5, Zenon DEF TakeFailed, TakeShutdown, SendFails, Exhaust, budgets
  <2>2. \E e \in {"Failed", "Completed", "Exhausted"} : adapter' = Exit(e)
    BY <1>5, Zenon DEF TakeFailed, TakeShutdown, SendFails, Exhaust
  <2>3. adapter'.seq = adapter.seq  BY <1>0, <2>2 DEF Exit, Adapters
  <2> QED  BY <2>1, <2>3
<1>6. CASE ObjectSent
  <2>1. UNCHANGED <<chan, pending, durable>> /\ (faults' = faults \/ Fault)
    BY <1>6 DEF ObjectSent, write_cursor
  <2>2. adapter'.seq = adapter.seq  BY <1>0, <1>6 DEF ObjectSent, Adapters
  <2> QED  BY <1>0, <2>1, <2>2, FaultFacts
<1>7. CASE \E k \in Keys : Fetch(k) \/ FetchRetries(k) \/ FetchFails(k) \/ TakeCounted(k)
  <2>1. UNCHANGED <<chan, pending, durable, adapter>> /\ (faults' = faults \/ Fault)
    BY <1>7, Zenon DEF Fetch, FetchRetries, FetchFails, TakeCounted, write_cursor, budgets
  <2> QED  BY <1>0, <2>1, FaultFacts
<1>8. CASE RuntimeEnds \/ Halt("stop") \/ Halt("shutdown") \/ (\E k \in Keys : Publish(k))
           \/ UNCHANGED vars
  <2>1. UNCHANGED <<chan, pending, durable, adapter, faults>>
    BY <1>8, Zenon DEF RuntimeEnds, Halt, Publish, vars, session, budgets
  <2> QED  BY <2>1
<1> QED  BY <1>1, <1>2, <1>3, <1>4, <1>5, <1>6, <1>7, <1>8, Zenon DEF Next, Task, Consumer, Worker

\* Stamps rise through the rows the sinks hold and the next one of the channel.
LEMMA RisingNext ==
  ASSUME pending \in Seq(Events), chan \in Seq(Events), Stamped, chan # <<>>
  PROVE  Rising(Append(pending, chan[1]))
<1> DEFINE q == Append(pending, chan[1])
<1>1. 1 \in 1..Len(chan) /\ chan[1] \in Events  OBVIOUS
<1>2. /\ Len(q) = Len(pending) + 1 /\ \A i \in 1..Len(pending) : q[i] = pending[i]
      /\ q[Len(pending) + 1] = chan[1] /\ Len(pending) \in Nat
  BY <1>1
<1> HIDE DEF q
<1> SUFFICES ASSUME NEW i \in 1..Len(q), NEW j \in 1..Len(q), i < j PROVE q[i].seq < q[j].seq
  BY DEF Rising, q
<1>3. i \in 1..Len(pending)  BY <1>2
<1>4. CASE j \in 1..Len(pending)  BY <1>2, <1>3, <1>4 DEF Stamped, Rising
<1>5. CASE j = Len(pending) + 1  BY <1>1, <1>2, <1>3, <1>5 DEF Stamped
<1> QED  BY <1>2, <1>4, <1>5

\* A flush drops rows of context objects only, and none while stamps rise.
LEMMA FlushKeeps ==
  ASSUME NEW q \in Seq(Events), faults = 0 => Rising(q),
         NEW i \in 1..Len(q), q[i].key \notin Restamped
  PROVE  Row(q[i]) \in flush(q)
<1>1. ASSUME NEW j \in 1..(i - 1), {q[i].key, q[j].key} \subseteq CtxKeys, q[i].seq = q[j].seq
      PROVE  FALSE
  <2>1. faults = 0  BY <1>1 DEF Restamped
  <2>2. j \in 1..Len(q) /\ j < i  BY <1>1
  <2>3. q[j].seq < q[i].seq /\ q[j] \in Events  BY <2>1, <2>2 DEF Rising
  <2>4. q[j].seq \in Nat  BY <2>3 DEF Events
  <2> QED  BY <1>1, <2>3, <2>4
<1>2. i \in decompose(q)  BY <1>1 DEF decompose
<1> QED  BY <1>2 DEF flush
LEMMA StampType ==
  ASSUME NEW q \in Seq(Events), NEW i \in 1..Len(q) PROVE q[i].seq \in Nat
<1>1. q[i] \in Events  OBVIOUS
<1> QED  BY <1>1 DEF Events

LEMMA KeptStep ==
  ASSUME OInv, Phase, Kept, [Next]_vars PROVE Kept'
<1>0. /\ IInv /\ adapter \in Adapters /\ chan \in Seq(Events) /\ pending \in Seq(Events)
      /\ adapter.seq \in Nat
  BY DEF OInv, IInv, Shape, Sorted, Kept, Adapters
<1>1. CASE /\ UNCHANGED <<chan, pending, durable>>
           /\ faults' = 0 => faults = 0
           /\ adapter'.seq = adapter.seq \/ (chan = <<>> /\ (faults = 0 => pending = <<>>))
  BY <1>1 DEF Kept, Stamped, Rising
<1>2. CASE SendRow
  <2> DEFINE e == [key |-> adapter.key, row |-> adapter.row, seq |-> adapter.seq + 1]
  <2>1. /\ chan' = Append(chan, e) /\ Len(chan) < Capacity /\ UNCHANGED <<pending, faults>>
        /\ adapter'.seq = adapter.seq + 1
    BY <1>0, <1>2 DEF SendRow, budgets, Adapters
  <2>2. e.seq = adapter.seq + 1  OBVIOUS
  <2>3. /\ Len(chan') = Len(chan) + 1 /\ Len(chan) \in Nat
        /\ \A i \in 1..Len(chan) : chan'[i] = chan[i] /\ chan[i].seq \in Nat
        /\ chan'[Len(chan) + 1] = e
    <3>1. adapter.key \in Keys /\ adapter.row \in Nat \ {0} /\ adapter.row <= RowsPer
      BY <1>0, <1>2 DEF SendRow, OInv, IInv, Shape, Behind
    <3>2. e \in Events  BY <1>0, <3>1, EntrepotAssumption DEF Events
    <3> HIDE DEF e
    <3>3. \A i \in 1..Len(chan) : chan[i].seq \in Nat  BY <1>0, StampType
    <3> QED  BY <1>0, <2>1, <3>2, <3>3
  <2> HIDE DEF e
  <2>4. \A i \in 1..Len(pending) : pending[i].seq \in Nat  BY <1>0, StampType
  <2>5. \A i \in 1..Len(chan') : i \in 1..Len(chan) \/ i = Len(chan) + 1  BY <2>3
  <2>6. Len(chan') <= Capacity  BY <2>1, <2>3, EntrepotAssumption
  <2>7. ASSUME Stamped PROVE Stamped'
    <3>1. Rising(chan')
      <4> SUFFICES ASSUME NEW i \in 1..Len(chan'), NEW j \in 1..Len(chan'), i < j
                   PROVE  chan'[i].seq < chan'[j].seq
        BY DEF Rising
      <4>1. i \in 1..Len(chan)  BY <2>3
      <4>2. CASE j \in 1..Len(chan)  BY <2>3, <2>7, <4>1, <4>2 DEF Stamped, Rising
      <4>3. CASE j = Len(chan) + 1
        <5>1. chan[i].seq <= adapter.seq /\ chan[i].seq \in Nat  BY <2>3, <2>7, <4>1 DEF Stamped
        <5> QED  BY <1>0, <2>2, <2>3, <4>1, <4>3, <5>1
      <4> QED  BY <2>5, <4>2, <4>3
    <3>2. \A i \in 1..Len(chan') : chan'[i].seq <= adapter.seq + 1
      BY <1>0, <2>2, <2>3, <2>5, <2>7 DEF Stamped
    <3>3. \A i \in 1..Len(pending) : pending[i].seq <= adapter.seq  BY <2>7 DEF Stamped
    <3>4. \A i \in 1..Len(pending) : pending[i].seq <= adapter.seq + 1  BY <1>0, <2>4, <3>3
    <3>5. \A i \in 1..Len(pending), j \in 1..Len(chan') : pending[i].seq < chan'[j].seq
      <4> TAKE i \in 1..Len(pending), j \in 1..Len(chan')
      <4>1. CASE j \in 1..Len(chan)  BY <2>3, <2>7, <4>1 DEF Stamped
      <4>2. CASE j = Len(chan) + 1  BY <1>0, <2>2, <2>3, <2>4, <3>3, <4>2
      <4> QED  BY <2>5, <4>1, <4>2
    <3>6. Rising(pending)  BY <2>7 DEF Stamped
    <3> QED  BY <2>1, <3>1, <3>2, <3>4, <3>5, <3>6 DEF Stamped, Rising
  <2> QED  BY <2>1, <2>6, <2>7 DEF Kept
<1>3. CASE Deliver
  <2> DEFINE q == Append(pending, chan[1])
  <2>1. /\ chan # <<>> /\ chan' = Tail(chan) /\ UNCHANGED <<adapter, faults>>
        /\ \/ Len(q) >= FlushThreshold /\ pending' = <<>>
           \/ ~(Len(q) >= FlushThreshold) /\ pending' = q
    BY <1>3 DEF Deliver, session, budgets
  <2>2. 1 \in 1..Len(chan) /\ chan[1] \in Events  BY <1>0, <2>1
  <2>3. /\ Len(chan') = Len(chan) - 1 /\ Len(chan) \in Nat
        /\ \A i \in 1..Len(chan') : chan'[i] = chan[i + 1] /\ i + 1 \in 1..Len(chan)
    BY <1>0, <2>1, <2>2
  <2>4. /\ q \in Seq(Events) /\ Len(q) = Len(pending) + 1 /\ q[Len(pending) + 1] = chan[1]
        /\ \A i \in 1..Len(pending) : q[i] = pending[i]
    BY <1>0, <2>2
  <2>5. Stamped => Rising(q)  BY <1>0, <2>1, RisingNext
  <2> HIDE DEF q
  <2>6. Len(chan') <= Capacity  BY <2>3, EntrepotAssumption DEF Kept
  <2>7. pending' \in Seq(Events) /\ Len(pending') < FlushThreshold
    <3>1. Len(q) \in Nat /\ FlushThreshold \in Nat \ {0}  BY <2>4, EntrepotAssumption
    <3>2. CASE pending' = <<>>  BY <3>1, <3>2
    <3>3. CASE ~(Len(q) >= FlushThreshold) /\ pending' = q  BY <2>4, <3>1, <3>3
    <3> QED  BY <2>1, <3>2, <3>3
  <2>8. ASSUME Stamped PROVE Stamped'
    <3>1. Rising(chan')
      BY <2>3, <2>8 DEF Stamped, Rising
    <3>2. \A i \in 1..Len(chan') : chan'[i].seq <= adapter.seq  BY <2>3, <2>8 DEF Stamped
    <3>3. CASE pending' = <<>>  BY <2>1, <3>1, <3>2, <3>3 DEF Stamped, Rising
    <3>4. CASE pending' = q
      <4>1. \A i \in 1..Len(q) : i \in 1..Len(pending) \/ i = Len(pending) + 1  BY <1>0, <2>4
      <4>2. \A i \in 1..Len(q) : q[i].seq <= adapter.seq
        BY <2>2, <2>4, <2>8, <4>1 DEF Stamped
      <4>3. \A i \in 1..Len(q), j \in 1..Len(chan') : q[i].seq < chan'[j].seq
        <5> TAKE i \in 1..Len(q), j \in 1..Len(chan')
        <5>1. chan'[j] = chan[j + 1] /\ j + 1 \in 1..Len(chan)  BY <2>3
        <5>2. CASE i \in 1..Len(pending)  BY <2>4, <2>8, <5>1, <5>2 DEF Stamped
        <5>3. CASE i = Len(pending) + 1
          <6>1. chan[1].seq < chan[j + 1].seq  BY <2>2, <2>8, <5>1 DEF Stamped, Rising
          <6> QED  BY <2>4, <5>1, <5>3, <6>1
        <5> QED  BY <4>1, <5>2, <5>3
      <4> QED  BY <2>1, <2>5, <2>8, <3>1, <3>2, <3>4, <4>2, <4>3 DEF Stamped, Rising
    <3> QED  BY <2>1, <3>3, <3>4
  <2> QED  BY <2>1, <2>6, <2>7, <2>8 DEF Kept
<1>4. CASE RuntimeHalts
  <2>1. chan' = <<>> /\ UNCHANGED <<pending, adapter, faults>>
    BY <1>4 DEF RuntimeHalts, session, budgets
  <2> QED  BY <2>1, EntrepotAssumption DEF Kept, Stamped, Rising
<1>5. CASE Join \/ Leave
  <2>1. UNCHANGED <<chan, adapter, faults>> /\ (pending' = <<>> \/ pending' = pending)
    BY <1>5 DEF Join, Leave, session, budgets
  <2>2. CASE pending' = pending  BY <2>1, <2>2 DEF Kept, Stamped, Rising
  <2>3. CASE pending' = <<>>  BY <2>1, <2>3, EntrepotAssumption DEF Kept, Stamped, Rising
  <2> QED  BY <2>1, <2>2, <2>3
<1>6. CASE Crash
  <2>1. chan' = <<>> /\ pending' = <<>>  BY <1>6 DEF Crash
  <2> QED  BY <2>1, EntrepotAssumption DEF Kept, Stamped, Rising
<1> QED  BY <1>0, <1>1, <1>2, <1>3, <1>4, <1>5, <1>6, StillSteps
-----------------------------------------------------------------------------
(* Counting what is lost                                                   *)

Stored == durable \union Rows(pending) \union Rows(chan)

Owed == {r \in Keys \X (1..RowsPer) :
           /\ r[1] \notin Restamped
           /\ r[1] \in sent \/ (adapter.at = "send" /\ r[1] = adapter.key /\ r[2] < adapter.row)}

Gone == Owed \ Stored

AtRisk == IF halting # "no" /\ runtime = "run" THEN Capacity ELSE 0

Allowed == (halts + crashes) * Capacity + crashes * (FlushThreshold - 1)

Loss == Cardinality(Gone) + AtRisk <= Allowed

LEMMA OwedFinite == IsFiniteSet(Owed) /\ IsFiniteSet(Gone) /\ Cardinality(Gone) \in Nat
<1>1. IsFiniteSet(Keys) /\ IsFiniteSet(1..RowsPer)
  <2>1. LastKey \in Int /\ RowsPer \in Int /\ 1 \in Int  BY EntrepotAssumption
  <2>2. IsFiniteSet(1..LastKey) /\ IsFiniteSet(1..RowsPer)  BY <2>1, FS_Interval
  <2> QED  BY <2>2 DEF Keys
<1>2. IsFiniteSet(Keys \X (1..RowsPer))  BY <1>1, FS_Product
<1>3. Owed \subseteq Keys \X (1..RowsPer) /\ Gone \subseteq Keys \X (1..RowsPer)
  BY DEF Owed, Gone
<1> QED  BY <1>2, <1>3, FS_Subset, FS_CardinalityType

\* A sequence holds at most as many rows as it has places.
LEMMA RowsBounded ==
  ASSUME NEW q \in Seq(Events)
  PROVE  IsFiniteSet(Rows(q)) /\ Cardinality(Rows(q)) \in Nat /\ Cardinality(Rows(q)) <= Len(q)
<1> DEFINE f == [i \in 1..Len(q) |-> Row(q[i])]
<1>1. f \in Surjection(1..Len(q), Rows(q))  BY DEF Rows, Surjection
<1>2. Len(q) \in Nat  OBVIOUS
<1>3. IsFiniteSet(1..Len(q)) /\ Cardinality(1..Len(q)) = Len(q)  BY <1>2, FS_Interval
<1> HIDE DEF f
<1>4. IsFiniteSet(Rows(q)) /\ Cardinality(Rows(q)) <= Cardinality(1..Len(q))
  BY <1>1, <1>3, FS_Surjection
<1> QED  BY <1>3, <1>4, FS_CardinalityType

LEMMA GrowsBy ==
  ASSUME NEW A, NEW B, NEW X, IsFiniteSet(A), IsFiniteSet(X), B \subseteq A \union X
  PROVE  /\ Cardinality(B) \in Nat /\ Cardinality(A) \in Nat /\ Cardinality(X) \in Nat
         /\ Cardinality(B) <= Cardinality(A) + Cardinality(X)
<1>1. /\ IsFiniteSet(A \union X)
      /\ Cardinality(A \union X) = Cardinality(A) + Cardinality(X) - Cardinality(A \intersect X)
  BY FS_Union
<1>2. IsFiniteSet(A \intersect X)  BY FS_Intersection
<1>3. IsFiniteSet(B) /\ Cardinality(B) <= Cardinality(A \union X)  BY <1>1, FS_Subset
<1>4. /\ Cardinality(A) \in Nat /\ Cardinality(X) \in Nat /\ Cardinality(A \intersect X) \in Nat
      /\ Cardinality(B) \in Nat /\ Cardinality(A \union X) \in Nat
  BY <1>1, <1>2, <1>3, FS_CardinalityType
<1> QED  BY <1>1, <1>3, <1>4

\* A fault may take context objects out of the account, never put one in.
LEMMA RestampedGrows ==
  ASSUME Phase, [Next]_vars PROVE Restamped \subseteq Restamped' /\ (faults' = 0 => faults = 0)
<1>1. faults \in Nat  BY DEF Phase
<1>2. faults' = faults \/ Fault
  BY Zenon DEF Next, Task, Consumer, Worker, vars, budgets, Spawn, Enumerate, EnumerateFails,
     Fetch, FetchRetries, FetchFails, TakeCounted, TakeFailed, TakeObject, TakeShutdown, SendRow,
     SendFails, ObjectSent, Exhaust, Deliver, RuntimeHalts, RuntimeEnds, Join, Leave, Reconnect,
     Halt, Crash, Restart, Publish, write_cursor
<1>3. faults' = 0 => faults = 0  BY <1>1, <1>2, FaultFacts
<1> QED  BY <1>3 DEF Restamped

\* Rows come into the account only as they are sent.
LEMMA OwedStep ==
  ASSUME IInv, Phase, Behind, [Next]_vars
  PROVE  \/ Owed' \subseteq Owed
         \/ SendRow /\ Owed' \subseteq Owed \union {<<adapter.key, adapter.row>>}
<1>0. adapter \in Adapters /\ Restamped \subseteq Restamped'  BY RestampedGrows DEF IInv, Shape
<1>1. CASE sent' = sent /\ (adapter' = adapter \/ adapter'.at # "send")
  BY <1>0, <1>1 DEF Owed
<1>2. CASE \E k \in Keys : TakeObject(k)
  <2>1. sent' = sent /\ adapter'.row = 1  BY <1>0, <1>2 DEF TakeObject, ghosts, Adapters
  <2>2. \A n \in 1..RowsPer : ~(n < 1)  BY EntrepotAssumption
  <2> QED  BY <1>0, <2>1, <2>2 DEF Owed
<1>3. CASE SendRow
  <2>1. /\ sent' = sent /\ adapter.at = "send" /\ adapter.row \in Nat
        /\ adapter'.key = adapter.key /\ adapter'.row = adapter.row + 1
    <3>1. adapter.row + 1 \in Nat /\ adapter.row \in Nat  BY <1>0 DEF Adapters
    <3> QED  BY <1>0, <1>3, <3>1 DEF SendRow, ghosts, Adapters
  <2>2. \A n \in 1..RowsPer : n < adapter.row + 1 => n < adapter.row \/ n = adapter.row
    BY <2>1, EntrepotAssumption
  <2> SUFFICES ASSUME NEW r \in Owed' PROVE r \in Owed \/ r = <<adapter.key, adapter.row>>
    BY <1>3
  <2>3. r = <<r[1], r[2]>> /\ r[2] \in 1..RowsPer  BY DEF Owed
  <2> QED  BY <1>0, <2>1, <2>2, <2>3 DEF Owed
<1>4. CASE ObjectSent
  <2>1. /\ sent' = sent \union {adapter.key} /\ adapter.at = "send" /\ adapter.row > RowsPer
        /\ adapter'.at = "fetch"
    BY <1>0, <1>4 DEF ObjectSent, Adapters
  <2>2. \A n \in 1..RowsPer : n < adapter.row
    <3>1. adapter.row \in Nat  BY <1>0 DEF Adapters
    <3> QED  BY <2>1, <3>1, EntrepotAssumption
  <2> QED  BY <1>0, <2>1, <2>2 DEF Owed
<1>5. CASE Spawn \/ Enumerate \/ Reconnect \/ Crash \/ Restart
  <2>1. sent' = sent
    BY <1>5, Zenon DEF Spawn, Enumerate, Reconnect, Crash, Restart, ghosts
  <2>2. adapter'.at # "send"
    BY <1>0, <1>5 DEF Spawn, Enumerate, Reconnect, Crash, Restart, Idle, Adapters
  <2> QED  BY <1>1, <2>1, <2>2
<1>6. CASE EnumerateFails \/ (\E k \in Keys : TakeFailed(k)) \/ TakeShutdown
           \/ SendFails \/ Exhaust
  <2>1. sent' = sent
    BY <1>6, Zenon DEF EnumerateFails, TakeFailed, TakeShutdown, SendFails, Exhaust, ghosts
  <2>2. \E e \in {"Failed", "Completed", "Exhausted"} : adapter' = Exit(e)
    BY <1>6, Zenon DEF EnumerateFails, TakeFailed, TakeShutdown, SendFails, Exhaust
  <2>3. adapter'.at # "send"  BY <1>0, <2>2, ExitFacts
  <2> QED  BY <1>1, <2>1, <2>3
<1>7. CASE UNCHANGED core \/ (\E k \in Keys : TakeCounted(k)) \/ (\E k \in Keys : Publish(k))
  <2>1. sent' = sent /\ adapter' = adapter
    BY <1>7, Zenon DEF core, TakeCounted, Publish, session
  <2> QED  BY <1>1, <2>1
<1> QED  BY <1>2, <1>3, <1>4, <1>5, <1>6, <1>7, CoreWriters
LEMMA AppendAll ==
  ASSUME NEW S, NEW q \in Seq(S), NEW e, NEW i \in 1..Len(q)
  PROVE  i \in 1..Len(Append(q, e)) /\ Append(q, e)[i] = q[i]
<1>1. q \in Seq(S \union {e})  OBVIOUS
<1>2. e \in S \union {e}  OBVIOUS
<1> QED  BY <1>1, <1>2

\* Nothing in the account is forgotten, but by a runtime that halts and by a crash.
LEMMA StoredStep ==
  ASSUME OInv, Phase, Kept, [Next]_vars, ~RuntimeHalts, ~Crash,
         NEW r \in Stored, NEW k, NEW n, r = <<k, n>>, k \notin Restamped
  PROVE  r \in Stored'
<1>0. IInv /\ chan \in Seq(Events) /\ pending \in Seq(Events)  BY DEF OInv, Sorted, Kept
<1>1. CASE UNCHANGED <<chan, pending, durable>>
  BY <1>1 DEF Stored, Rows
<1>2. CASE SendRow
  <2> DEFINE e == [key |-> adapter.key, row |-> adapter.row, seq |-> adapter.seq + 1]
  <2>1. chan' = Append(chan, e) /\ pending' = pending /\ durable' = durable
    BY <1>2 DEF SendRow
  <2>2. \A i \in 1..Len(chan) : i \in 1..Len(chan') /\ chan'[i] = chan[i]
    <3> HIDE DEF e
    <3> QED  BY <1>0, <2>1, AppendAll
  <2>3. Rows(chan) \subseteq Rows(chan') /\ Rows(pending') = Rows(pending)
    BY <2>1, <2>2 DEF Rows
  <2> QED  BY <2>1, <2>3 DEF Stored
<1>3. CASE Deliver
  <2> DEFINE q == Append(pending, chan[1])
  <2>1. /\ chan # <<>> /\ chan' = Tail(chan)
        /\ \/ pending' = <<>> /\ durable' = flush(q)
           \/ pending' = q /\ durable' = durable
    BY <1>3 DEF Deliver
  <2>2. 1 \in 1..Len(chan) /\ chan[1] \in Events  BY <1>0, <2>1
  <2>3. /\ q \in Seq(Events) /\ Len(q) = Len(pending) + 1 /\ q[Len(pending) + 1] = chan[1]
        /\ \A i \in 1..Len(pending) : q[i] = pending[i]
    BY <1>0, <2>2
  <2>4. faults = 0 => Rising(q)  BY <1>0, <2>1, RisingNext DEF Kept
  <2> HIDE DEF q
  <2>5. durable \subseteq durable'  BY <2>1 DEF flush
  <2>6. ASSUME NEW i \in 1..Len(q), r = Row(q[i]) PROVE r \in Stored'
    <3>1. CASE pending' = q  BY <2>6, <3>1 DEF Stored, Rows
    <3>2. CASE durable' = flush(q)
      <4>1. q[i].key \notin Restamped  BY <2>6 DEF Row
      <4>2. Row(q[i]) \in flush(q)  BY <2>3, <2>4, <4>1, FlushKeeps
      <4> QED  BY <2>6, <3>2, <4>2 DEF Stored
    <3> QED  BY <2>1, <3>1, <3>2
  <2>7. CASE r \in durable  BY <2>5, <2>7 DEF Stored
  <2>8. CASE r \in Rows(pending)
    <3>1. PICK i \in 1..Len(pending) : r = Row(pending[i])  BY <2>8 DEF Rows
    <3>2. i \in 1..Len(q) /\ q[i] = pending[i]  BY <1>0, <2>3
    <3> QED  BY <2>6, <3>1, <3>2
  <2>9. CASE r \in Rows(chan)
    <3>1. PICK i \in 1..Len(chan) : r = Row(chan[i])  BY <2>9 DEF Rows
    <3>2. CASE i = 1
      <4>1. Len(pending) + 1 \in 1..Len(q)  BY <1>0, <2>3
      <4> QED  BY <2>3, <2>6, <3>1, <3>2, <4>1
    <3>3. CASE i # 1
      <4>1. i - 1 \in 1..Len(chan') /\ chan'[i - 1] = chan[i]  BY <1>0, <2>1, <3>3
      <4> QED  BY <3>1, <4>1 DEF Stored, Rows
    <3> QED  BY <3>2, <3>3
  <2> QED  BY <2>7, <2>8, <2>9 DEF Stored
<1>4. CASE Join \/ Leave
  <2>1. chan' = chan /\ (UNCHANGED <<pending, durable>> \/ durable' = flush(pending))
    BY <1>4 DEF Join, Leave
  <2>2. CASE UNCHANGED <<pending, durable>>  BY <1>1, <2>1, <2>2
  <2>3. CASE durable' = flush(pending)
    <3>1. faults = 0 => Rising(pending)  BY DEF Kept, Stamped
    <3>2. CASE r \in durable  BY <2>3, <3>2 DEF Stored, flush
    <3>3. CASE r \in Rows(chan)  BY <2>1, <3>3 DEF Stored, Rows
    <3>4. CASE r \in Rows(pending)
      <4>1. PICK i \in 1..Len(pending) : r = Row(pending[i])  BY <3>4 DEF Rows
      <4>2. pending[i].key \notin Restamped  BY <4>1 DEF Row
      <4>3. Row(pending[i]) \in flush(pending)  BY <1>0, <3>1, <4>2, FlushKeeps
      <4> QED  BY <2>3, <4>1, <4>3 DEF Stored
    <3> QED  BY <3>2, <3>3, <3>4 DEF Stored
  <2> QED  BY <2>1, <2>2, <2>3
<1> QED  BY <1>0, <1>1, <1>2, <1>3, <1>4, StillSteps
LEMMA AppendLast ==
  ASSUME NEW S, NEW q \in Seq(S), NEW e
  PROVE  Len(Append(q, e)) = Len(q) + 1 /\ Append(q, e)[Len(q) + 1] = e
<1>1. q \in Seq(S \union {e})  OBVIOUS
<1>2. e \in S \union {e}  OBVIOUS
<1> QED  BY <1>1, <1>2

LEMMA AllowedType ==
  ASSUME NEW h \in Nat, NEW c \in Nat
  PROVE  /\ (h + c) * Capacity + c * (FlushThreshold - 1) \in Nat
         /\ Capacity \in Nat /\ FlushThreshold - 1 \in Nat
<1>1. Capacity \in Nat /\ FlushThreshold - 1 \in Nat /\ h + c \in Nat  BY EntrepotAssumption
<1>2. (h + c) * Capacity \in Nat /\ c * (FlushThreshold - 1) \in Nat  BY <1>1
<1> QED  BY <1>1, <1>2

LEMMA AllowedFacts ==
  ASSUME Phase, Phase'
  PROVE  /\ Allowed \in Nat /\ AtRisk \in Nat /\ Allowed' \in Nat /\ AtRisk' \in Nat
         /\ Capacity \in Nat /\ FlushThreshold - 1 \in Nat
<1>1. /\ halts \in Nat /\ crashes \in Nat /\ halts' \in Nat /\ crashes' \in Nat
  BY DEF Phase
<1>2. Allowed \in Nat /\ Capacity \in Nat /\ FlushThreshold - 1 \in Nat
  BY <1>1, AllowedType DEF Allowed
<1>3. Allowed' \in Nat  BY <1>1, AllowedType DEF Allowed
<1> QED  BY <1>2, <1>3 DEF AtRisk

\* A halt sets aside what it may cost; a crash is charged with both.
LEMMA HaltAllows ==
  ASSUME Phase, UNCHANGED crashes, halts' = halts + 1
  PROVE  Allowed' = Allowed + Capacity
<1>1. Capacity \in Nat  BY EntrepotAssumption
<1>2. halts \in Nat /\ crashes \in Nat  BY DEF Phase
<1>3. (halts + 1 + crashes) * Capacity = (halts + crashes) * Capacity + Capacity  BY <1>1, <1>2
<1>4. (halts + crashes) * Capacity \in Nat /\ crashes * (FlushThreshold - 1) \in Int
  BY <1>1, <1>2, EntrepotAssumption
<1> QED  BY <1>1, <1>3, <1>4 DEF Allowed

LEMMA CrashAllows ==
  ASSUME Phase, UNCHANGED halts, crashes' = crashes + 1
  PROVE  Allowed' = Allowed + Capacity + (FlushThreshold - 1)
<1>1. Capacity \in Nat /\ FlushThreshold - 1 \in Nat  BY EntrepotAssumption
<1>2. halts \in Nat /\ crashes \in Nat  BY DEF Phase
<1> DEFINE F == FlushThreshold - 1
<1>3. F \in Nat  BY <1>1
<1> HIDE DEF F
<1>4. (halts + (crashes + 1)) * Capacity = (halts + crashes) * Capacity + Capacity  BY <1>1, <1>2
<1>5. (crashes + 1) * F = crashes * F + F  BY <1>2, <1>3
<1>6. (halts + crashes) * Capacity \in Nat /\ crashes * F \in Nat  BY <1>1, <1>2, <1>3
<1>7. Allowed' = (halts + (crashes + 1)) * Capacity + (crashes + 1) * F  BY DEF Allowed, F
<1>8. Allowed = (halts + crashes) * Capacity + crashes * F  BY DEF Allowed, F
<1>9. Allowed' = Allowed + Capacity + F  BY <1>1, <1>3, <1>4, <1>5, <1>6, <1>7, <1>8
<1> QED  BY <1>9 DEF F

LEMMA Weigh ==
  ASSUME NEW a \in Nat, NEW b \in Nat, NEW c \in Nat, NEW d \in Nat, NEW e \in Nat
  PROVE  /\ d = b + c /\ e <= c => e + b <= a + d
         /\ d = b /\ (e = a \/ e = 0) => e + b <= a + d
         /\ c + a <= b /\ e + b <= a + d => c + e <= d
OBVIOUS

LEMMA RiskStep ==
  ASSUME Phase, Phase', [Next]_vars, ~Crash
  PROVE  AtRisk' + Allowed <= AtRisk + Allowed'
<1>0. /\ Allowed \in Nat /\ AtRisk \in Nat /\ Capacity \in Nat
      /\ Allowed' \in Nat /\ AtRisk' \in Nat
  BY AllowedFacts
<1>1. CASE Halt("stop") \/ Halt("shutdown")
  <2>1. UNCHANGED <<crashes, runtime>> /\ halts' = halts + 1  BY <1>1 DEF Halt
  <2>2. Allowed' = Allowed + Capacity  BY <2>1, HaltAllows
  <2>3. AtRisk' = 0 \/ AtRisk' = Capacity  BY DEF AtRisk
  <2>4. AtRisk' <= Capacity  BY <1>0, <2>3
  <2> QED  BY <1>0, <2>2, <2>4, Weigh
<1>2. CASE /\ UNCHANGED <<halts, crashes>>
           /\ UNCHANGED <<halting, runtime>> \/ runtime' = "returned" \/ halting' = "no"
  <2>1. Allowed' = Allowed  BY <1>2 DEF Allowed
  <2>2. AtRisk' = AtRisk \/ AtRisk' = 0  BY <1>2 DEF AtRisk
  <2> QED  BY <1>0, <2>1, <2>2, Weigh
<1>3. CASE Spawn \/ Restart \/ RuntimeHalts \/ RuntimeEnds
  <2>1. UNCHANGED <<halts, crashes>>
    BY <1>3, Zenon DEF Spawn, Restart, RuntimeHalts, RuntimeEnds, budgets
  <2>2. runtime' = "returned" \/ halting' = "no"
    BY <1>3 DEF Spawn, Restart, RuntimeHalts, RuntimeEnds
  <2> QED  BY <1>2, <2>1, <2>2
<1>4. CASE ~(Spawn \/ Restart \/ RuntimeHalts \/ RuntimeEnds \/ Halt("stop") \/ Halt("shutdown"))
  <2>1. UNCHANGED <<halts, crashes, halting, runtime>>
    BY <1>4, Zenon DEF Next, Task, Consumer, Worker, vars, budgets, Enumerate, EnumerateFails,
       Fetch, FetchRetries, FetchFails, TakeCounted, TakeFailed, TakeObject, TakeShutdown,
       SendRow, SendFails, ObjectSent, Exhaust, Deliver, Join, Leave, Reconnect, Publish
  <2> QED  BY <1>2, <2>1
<1> QED  BY <1>1, <1>3, <1>4

LInv == OInv /\ Phase /\ Kept /\ Loss

LEMMA LossStep == LInv /\ [Next]_vars => LInv'
<1> SUFFICES ASSUME LInv, [Next]_vars PROVE Loss'
  BY OrderStep, PhaseStep, KeptStep DEF LInv, OInv
<1>0. OInv /\ IInv /\ Behind /\ Phase /\ Kept /\ Loss /\ Phase'
  BY PhaseStep DEF LInv, OInv
<1>1. /\ Allowed \in Nat /\ AtRisk \in Nat /\ Capacity \in Nat /\ FlushThreshold - 1 \in Nat
      /\ Allowed' \in Nat /\ AtRisk' \in Nat
  BY <1>0, AllowedFacts
<1>2. IsFiniteSet(Gone) /\ Cardinality(Gone) \in Nat
  BY OwedFinite
<1>3. chan \in Seq(Events) /\ pending \in Seq(Events)  BY <1>0 DEF OInv, Sorted, Kept
<1>4. Len(chan) <= Capacity /\ Len(pending) <= FlushThreshold - 1 /\ Len(chan) \in Nat
      /\ Len(pending) \in Nat
  BY <1>0, <1>3, EntrepotAssumption DEF Kept
<1>5. Cardinality(Gone) + AtRisk <= Allowed  BY <1>0 DEF Loss
<1>6. Restamped \subseteq Restamped'  BY <1>0, RestampedGrows
<1>7. CASE RuntimeHalts
  <2>1. chan' = <<>> /\ UNCHANGED <<pending, durable, halts, crashes, adapter>>
        /\ runtime' = "returned" /\ runtime = "run" /\ halting # "no"
    BY <1>7 DEF RuntimeHalts, session, budgets
  <2>2. Owed' \subseteq Owed
    <3>1. ~SendRow  BY <2>1 DEF SendRow
    <3> QED  BY <1>0, <3>1, OwedStep
  <2>3. Gone' \subseteq Gone \union Rows(chan)
    <3>1. Stored \subseteq Stored' \union Rows(chan)  BY <2>1 DEF Stored, Rows
    <3> QED  BY <2>2, <3>1 DEF Gone
  <2>4. IsFiniteSet(Rows(chan)) /\ Cardinality(Rows(chan)) <= Len(chan)
        /\ Cardinality(Rows(chan)) \in Nat
    BY <1>3, RowsBounded
  <2>5. /\ Cardinality(Gone') \in Nat
        /\ Cardinality(Gone') <= Cardinality(Gone) + Cardinality(Rows(chan))
    BY <1>2, <2>3, <2>4, GrowsBy
  <2>6. AtRisk = Capacity /\ AtRisk' = 0 /\ Allowed' = Allowed
    BY <2>1 DEF AtRisk, Allowed
  <2> QED  BY <1>1, <1>2, <1>4, <1>5, <2>4, <2>5, <2>6 DEF Loss
<1>8. CASE Crash
  <2> DEFINE X == Rows(chan) \union Rows(pending)
  <2>1. /\ durable' = durable /\ halts' = halts /\ crashes' = crashes + 1
        /\ runtime' = "returned" /\ adapter' = Idle
    BY <1>8 DEF Crash
  <2>2. Owed' \subseteq Owed
    <3>1. ~SendRow
      <4>1. sent' = sent /\ adapter'.at = "idle"  BY <2>1, <1>8 DEF Crash, ghosts, Idle
      <4> QED  BY <1>0, <2>1 DEF SendRow, IInv, Shape, Adapters, Idle
    <3> QED  BY <1>0, <3>1, OwedStep
  <2>3. Gone' \subseteq Gone \union X
    <3>1. Stored \subseteq Stored' \union X  BY <2>1 DEF Stored
    <3> QED  BY <2>2, <3>1 DEF Gone
  <2>4. /\ IsFiniteSet(Rows(chan)) /\ Cardinality(Rows(chan)) <= Len(chan)
        /\ Cardinality(Rows(chan)) \in Nat
        /\ IsFiniteSet(Rows(pending)) /\ Cardinality(Rows(pending)) <= Len(pending)
        /\ Cardinality(Rows(pending)) \in Nat
    BY <1>3, RowsBounded
  <2>5. IsFiniteSet(X)  BY <2>4, FS_Union
  <2>6. Cardinality(X) \in Nat
        /\ Cardinality(X) <= Cardinality(Rows(chan)) + Cardinality(Rows(pending))
    BY <2>4, GrowsBy
  <2> HIDE DEF X
  <2>7. /\ Cardinality(Gone') \in Nat
        /\ Cardinality(Gone') <= Cardinality(Gone) + Cardinality(X)
    BY <1>2, <2>3, <2>5, GrowsBy
  <2>8. Allowed' = Allowed + Capacity + (FlushThreshold - 1)  BY <1>0, <2>1, CrashAllows
  <2>9. AtRisk' = 0  BY <2>1 DEF AtRisk
  <2> QED  BY <1>1, <1>2, <1>4, <1>5, <2>4, <2>6, <2>7, <2>8, <2>9 DEF Loss
<1>9. CASE ~RuntimeHalts /\ ~Crash
  <2>1. Gone' \subseteq Gone
    <3> SUFFICES ASSUME NEW r \in Gone' PROVE r \in Gone  OBVIOUS
    <3>1. r \in Owed' /\ r \notin Stored'  BY DEF Gone
    <3>2. r = <<r[1], r[2]>> /\ r[1] \notin Restamped  BY <1>6, <3>1 DEF Owed
    <3>3. r \notin Stored  BY <1>0, <1>9, <3>1, <3>2, StoredStep
    <3>4. CASE r \in Owed  BY <3>3, <3>4 DEF Gone
    <3>5. CASE SendRow /\ r = <<adapter.key, adapter.row>>
      <4> DEFINE e == [key |-> adapter.key, row |-> adapter.row, seq |-> adapter.seq + 1]
      <4>1. chan' = Append(chan, e) /\ Row(e) = r  BY <3>5 DEF SendRow, Row
      <4> HIDE DEF e
      <4>2. Len(chan') = Len(chan) + 1 /\ chan'[Len(chan) + 1] = e  BY <1>3, <4>1, AppendLast
      <4>3. r \in Rows(chan')  BY <1>4, <4>1, <4>2 DEF Rows
      <4> QED  BY <3>1, <4>3 DEF Stored
    <3> QED  BY <1>0, <3>1, <3>4, <3>5, OwedStep
  <2>2. Cardinality(Gone') <= Cardinality(Gone) /\ Cardinality(Gone') \in Nat
    BY <1>2, <2>1, FS_Subset, FS_CardinalityType
  <2>3. AtRisk' + Allowed <= AtRisk + Allowed'  BY <1>0, <1>9, RiskStep
  <2>4. Cardinality(Gone') + AtRisk <= Allowed  BY <1>1, <1>2, <1>5, <2>2
  <2>5. Cardinality(Gone') + AtRisk' <= Allowed'  BY <1>1, <2>2, <2>3, <2>4, Weigh
  <2> QED  BY <2>5 DEF Loss
<1> QED  BY <1>7, <1>8, <1>9

\* The account is balanced throughout.
LEMMA LossAlways == Spec => []LInv
<1>1. Init => LInv
  <2> SUFFICES ASSUME Init PROVE LInv  OBVIOUS
  <2>1. OInv  BY InitInv DEF Init, OInv, Sorted, Behind, Active, Idle
  <2>2. Phase  BY DEF Init, Phase, Idle, Fetched
  <2>3. Kept  BY EntrepotAssumption DEF Init, Kept, Stamped, Rising
  <2>4. Gone = {}  BY DEF Init, Gone, Owed, Idle
  <2>5. AtRisk = 0 /\ Cardinality(Gone) = 0  BY <2>4, FS_EmptySet DEF Init, AtRisk
  <2>6. Allowed \in Nat  BY <2>2, AllowedType DEF Allowed, Phase
  <2>7. Loss  BY <2>5, <2>6 DEF Loss
  <2> QED  BY <2>1, <2>2, <2>3, <2>7 DEF LInv
<1> QED  BY <1>1, LossStep, PTL DEF Spec

(***************************************************************************)
(* Every row of an object passed as sent is stored or on its way, but for  *)
(* at most a channel's worth per halt and a channel's and a sink buffer's  *)
(* worth per crash: for every window, archive, capacity and threshold, any *)
(* number of faults and interruptions in any order.                        *)
(***************************************************************************)
THEOREM LossIsBounded == Spec => []LossBounded
<1>1. LInv => LossBounded
  <2> SUFFICES ASSUME LInv PROVE LossBounded  OBVIOUS
  <2>1. Phase /\ Loss  BY DEF LInv
  <2>2. Missing \subseteq Gone  BY <2>1 DEF Phase, Missing, Gone, Owed, Stored
  <2>3. IsFiniteSet(Gone) /\ Cardinality(Gone) \in Nat  BY OwedFinite
  <2>4. Cardinality(Missing) <= Cardinality(Gone) /\ IsFiniteSet(Missing)
    BY <2>2, <2>3, FS_Subset
  <2>5. Cardinality(Missing) \in Nat  BY <2>4, FS_CardinalityType
  <2>6. Allowed \in Nat /\ AtRisk \in Nat
    BY <2>1, AllowedType DEF Allowed, AtRisk, Phase
  <2>7. Cardinality(Missing) <= Allowed
    BY <2>1, <2>3, <2>4, <2>5, <2>6 DEF Loss
  <2> QED  BY <2>7 DEF LossBounded, Allowed
<1> QED  BY <1>1, LossAlways, PTL

-----------------------------------------------------------------------------
(* An exhausted source                                                     *)

\* What a replay is to store: every row of a good object it neither counted nor
\* met too late.
Promised ==
  {k \in Keys : archive[k] = "good" /\ k \notin counted \union late \union Restamped}
    \X (1..RowsPer)

\* The safety half of ReplayCompletes: a worker that ends because its source is
\* exhausted has stored all it promised, but for what interruptions took on the
\* way, and everything if there was none.
ExhaustedIsComplete ==
  worker = "ended" /\ adapter.exit = "Exhausted" =>
    /\ Cardinality(Promised \ durable)
         <= (halts + crashes) * Capacity + crashes * (FlushThreshold - 1)
    /\ halts + crashes = 0 => Promised \subseteq durable

\* A session reports its source exhausted when it has accounted for the listing.
WalkedOut == adapter.exit = "Exhausted" => enumerate_window \subseteq Accounted

LEMMA WalkedOutStep == IInv /\ WalkedOut /\ [Next]_vars => WalkedOut'
<1> SUFFICES ASSUME IInv, WalkedOut, [Next]_vars PROVE WalkedOut'  OBVIOUS
<1>0. adapter \in Adapters  BY DEF IInv, Shape
<1>1. CASE UNCHANGED core
  BY <1>1 DEF core, WalkedOut, Accounted, enumerate_window
<1>2. CASE Spawn \/ Reconnect \/ Crash \/ Restart
  <2>1. adapter'.exit = "none"  BY <1>2 DEF Spawn, Reconnect, Crash, Restart, Idle
  <2> QED  BY <2>1 DEF WalkedOut
<1>3. CASE EnumerateFails \/ (\E k \in Keys : TakeFailed(k)) \/ TakeShutdown \/ SendFails
  <2>1. adapter'.exit \in {"Failed", "Completed"}
    BY <1>0, <1>3 DEF EnumerateFails, TakeFailed, TakeShutdown, SendFails, Exit, Adapters
  <2> QED  BY <2>1 DEF WalkedOut
<1>4. CASE Enumerate \/ SendRow \/ (\E k \in Keys : TakeObject(k))
  <2>1. adapter'.exit = adapter.exit /\ UNCHANGED <<archive, sent, counted, late>>
    BY <1>0, <1>4 DEF Enumerate, SendRow, TakeObject, Adapters, ghosts
  <2> QED  BY <2>1 DEF WalkedOut, Accounted, enumerate_window
<1>5. CASE ObjectSent \/ (\E k \in Keys : TakeCounted(k))
  <2>1. /\ adapter'.exit = adapter.exit /\ UNCHANGED archive
        /\ sent \subseteq sent' /\ counted \subseteq counted' /\ late' = late
    BY <1>0, <1>5 DEF ObjectSent, TakeCounted, Adapters
  <2> QED  BY <2>1 DEF WalkedOut, Accounted, enumerate_window
<1>6. CASE Exhaust
  <2>1. Active /\ adapter.key = 0 /\ todo = {}  BY <1>6 DEF Exhaust, Active, IInv, Shape
  <2>2. plan \subseteq Accounted  BY <2>1, KeyFacts DEF IInv, Walked, Shape
  <2>3. enumerate_window \subseteq Accounted  BY <2>1, <2>2 DEF IInv, Listed, Accounted
  <2>4. UNCHANGED <<archive, sent, counted, late>>  BY <1>6 DEF Exhaust, ghosts
  <2> QED  BY <2>3, <2>4 DEF WalkedOut, Accounted, enumerate_window
<1>7. CASE \E k \in Keys : Publish(k)
  <2>1. PICK k \in Keys : Publish(k)  BY <1>7
  <2>2. /\ late' = late \union {k} /\ UNCHANGED <<adapter, sent, counted>>
        /\ archive' = [archive EXCEPT ![k] = "good"]
    BY <2>1 DEF Publish, session
  <2>3. enumerate_window' \subseteq enumerate_window \union {k}
    BY <2>2 DEF enumerate_window, IInv, Shape
  <2> QED  BY <2>2, <2>3 DEF WalkedOut, Accounted
<1> QED  BY <1>1, <1>2, <1>3, <1>4, <1>5, <1>6, <1>7, CoreWriters

(***************************************************************************)
(* The worker of a replay whose adapter reports Exhausted has stored every *)
(* row of every object that was there, whole and not counted, but for at   *)
(* most what the interruptions took: for every window, archive, number of  *)
(* faults and of sessions the replay needed.                               *)
(***************************************************************************)
THEOREM ExhaustedReplayIsComplete == Spec => []ExhaustedIsComplete
<1>1. Init => WalkedOut  BY DEF Init, WalkedOut, Idle
<1>2. LInv /\ WalkedOut => ExhaustedIsComplete
  <2> SUFFICES ASSUME LInv, WalkedOut, worker = "ended", adapter.exit = "Exhausted"
               PROVE  /\ Cardinality(Promised \ durable) <= Allowed
                      /\ halts + crashes = 0 => Promised \subseteq durable
    BY DEF ExhaustedIsComplete, Allowed
  <2>1. Phase /\ Loss  BY DEF LInv
  <2>2. Stored = durable  BY <2>1 DEF Phase, Stored, Rows
  <2>3. Promised \ durable \subseteq Gone
    <3>1. \A k \in Keys : archive[k] = "good" => k \in enumerate_window
      BY DEF enumerate_window
    <3> QED  BY <2>2, <3>1 DEF Promised, WalkedOut, Accounted, Gone, Owed
  <2>4. IsFiniteSet(Gone) /\ Cardinality(Gone) \in Nat  BY OwedFinite
  <2>5. /\ IsFiniteSet(Promised \ durable)
        /\ Cardinality(Promised \ durable) <= Cardinality(Gone)
    BY <2>3, <2>4, FS_Subset
  <2>6. Cardinality(Promised \ durable) \in Nat  BY <2>5, FS_CardinalityType
  <2>7. Allowed \in Nat /\ AtRisk \in Nat
    BY <2>1, AllowedType DEF Allowed, AtRisk, Phase
  <2>8. Cardinality(Promised \ durable) <= Allowed
    BY <2>1, <2>4, <2>5, <2>6, <2>7 DEF Loss
  <2>9. ASSUME halts + crashes = 0 PROVE Promised \subseteq durable
    <3>1. halts = 0 /\ crashes = 0  BY <2>1, <2>9 DEF Phase
    <3>2. Allowed = 0  BY <3>1, EntrepotAssumption DEF Allowed
    <3>3. Promised \ durable = {}  BY <2>5, <2>6, <2>8, <3>2, FS_EmptySet
    <3> QED  BY <3>3
  <2> QED  BY <2>8, <2>9
<1>3. LInv => IInv  BY DEF LInv, OInv
<1> QED  BY <1>1, <1>2, <1>3, WalkedOutStep, LossAlways, PTL DEF Spec

=============================================================================

------------------------------ MODULE Rehydrate ------------------------------
(***************************************************************************)
(* The offline repair of recorded trades                                   *)
(* (aetelier-io/src/rehydrate.rs, rehydrate_trades_dir).                   *)
(*                                                                         *)
(* The files of a directory hold any of the prints 1..newest: the live     *)
(* stream loses, pauses and repairs as Reconcile has it.  A run reads      *)
(* them, walks the venue's REST trades over the range they span and writes *)
(* the union to one new file, which later runs leave out by its name.      *)
(* Meanwhile the venue prints on and forgets its oldest prints.            *)
(***************************************************************************)
EXTENDS TradesRest

CONSTANTS
  WalksUsed,         \* how the venue's fetcher walks
  MAX_FETCH_ROUNDS,  \* fetches of one run: 200
  MaxNewest,         \* bound: prints
  MaxRuns,           \* bound: runs over the directory
  MaxExpired         \* bound: prints the venue forgets

ASSUME RehydrateAssumption ==
  /\ WalksUsed \subseteq Walks \ {"none"}
  /\ MAX_FETCH_ROUNDS \in Nat \ {0}
  /\ {MaxNewest, MaxRuns, MaxExpired} \subseteq Nat

VARIABLES
  walk,        \* how this venue's fetcher walks
  newest,      \* the newest print of the venue
  retained,    \* prints up to this one are gone from the venue
  files,       \* ids in the recorded files
  id_range,    \* the smallest and the largest recorded id (0, 0: none)
  at,          \* the run: idle, walk, write, done or failed
  present,     \* ids the run holds: recorded and recovered
  pos,         \* TradePos the next fetch resumes after
  rounds,
  exhausted,   \* exhausted_before_range_end
  output,      \* ids in the rehydrated file of this run ({}: none written)
  runs

rehydrate_vars ==
  <<walk, newest, retained, files, id_range, at, present, pos, rounds, exhausted, output, runs>>

Served == {p \in 1..newest : p > retained}
min_id == id_range[1]
max_id == id_range[2]

RehydrateInit ==
  /\ walk \in WalksUsed
  /\ newest \in 0..MaxNewest /\ files \in SUBSET (1..newest)
  /\ retained = 0 /\ id_range = <<0, 0>>
  /\ at = "idle" /\ present = {} /\ pos = TradePos(0) /\ rounds = 0
  /\ exhausted = FALSE /\ output = {} /\ runs = 0
-----------------------------------------------------------------------------
\* A run reads the files; an empty directory has nothing to repair.
Begin ==
  /\ at \in {"idle", "done", "failed"} /\ runs < MaxRuns
  /\ runs' = runs + 1 /\ rounds' = 0 /\ exhausted' = FALSE /\ output' = {}
  /\ present' = files
  /\ \/ /\ files = {} /\ at' = "done" /\ pos' = TradePos(0)
        /\ UNCHANGED id_range
     \/ \E lo, hi \in files :
          /\ \A p \in files : lo <= p /\ p <= hi
          /\ id_range' = <<lo, hi>> /\ at' = "walk"
          /\ pos' = [id |-> lo - 1, ts |-> Second(lo) - 1]
  /\ UNCHANGED <<walk, newest, retained, files>>

\* One fetch: what is new and in range is recovered; the position moves on.
Round ==
  /\ at = "walk" /\ pos.id < max_id /\ rounds < MAX_FETCH_ROUNDS
  /\ rounds' = rounds + 1
  /\ \E now \in {Second(newest), Second(newest) + 1} :
       LET batch == fetch_after(walk, Served, pos, now) IN
       \/ /\ batch = {}
          /\ exhausted' = TRUE /\ at' = "write"
          /\ UNCHANGED <<present, pos>>
       \/ \E top \in batch :
            /\ \A p \in batch : p <= top
            /\ pos' = TradePos(top)
            /\ present' = present \union {p \in batch : p <= max_id}
            /\ UNCHANGED <<exhausted, at>>
  /\ UNCHANGED <<walk, newest, retained, files, id_range, output, runs>>

\* A failed fetch ends the run without a file, whatever it recovered.
RoundFails ==
  /\ at = "walk" /\ pos.id < max_id /\ rounds < MAX_FETCH_ROUNDS
  /\ at' = "failed"
  /\ UNCHANGED <<walk, newest, retained, files, id_range, present, pos, rounds, exhausted, output, runs>>

WalkEnds_reports ==
  /\ at = "walk" /\ (pos.id >= max_id \/ rounds = MAX_FETCH_ROUNDS)
  /\ at' = "write" /\ exhausted' = (pos.id < max_id)
  /\ UNCHANGED <<walk, newest, retained, files, id_range, present, pos, rounds, output, runs>>

\* The range is walked, or the rounds are used up.
WalkEnds ==
  /\ at = "walk" /\ (pos.id >= max_id \/ rounds = MAX_FETCH_ROUNDS)
  /\ at' = "write"
  /\ UNCHANGED <<walk, newest, retained, files, id_range, present, pos, rounds, exhausted, output, runs>>

\* The merged set is written when something was recovered.
WriteMerged ==
  /\ at = "write"
  /\ at' = "done" /\ output' = IF present = files THEN {} ELSE present
  /\ UNCHANGED <<walk, newest, retained, files, id_range, present, pos, rounds, exhausted, runs>>

WriteFails ==
  /\ at = "write" /\ present # files
  /\ at' = "failed"
  /\ UNCHANGED <<walk, newest, retained, files, id_range, present, pos, rounds, exhausted, output, runs>>

\* The venue prints on, and forgets its oldest print.
VenuePrints ==
  /\ newest < MaxNewest /\ newest' = newest + 1
  /\ UNCHANGED <<walk, retained, files, id_range, at, present, pos, rounds, exhausted, output, runs>>

Expired ==
  /\ retained < newest /\ retained < MaxExpired /\ retained' = retained + 1
  /\ UNCHANGED <<walk, newest, files, id_range, at, present, pos, rounds, exhausted, output, runs>>

RehydrateNext ==
  \/ Begin \/ Round \/ RoundFails \/ WalkEnds \/ WriteMerged \/ WriteFails
  \/ VenuePrints \/ Expired

RehydrateSpec == RehydrateInit /\ [][RehydrateNext]_rehydrate_vars
-----------------------------------------------------------------------------
(* A walk by id leaves nothing behind its position: every print of the     *)
(* range up to it that the venue still serves is held, so a run that       *)
(* reaches the end of the range has filled every hole that can be filled.  *)
NothingLeftBehind ==
  (walk = "ids" /\ at \in {"walk", "write", "done"} /\ files # {}) =>
    \A p \in min_id..max_id : (p <= pos.id /\ p \in Served) => p \in present

(* The report is right to say the venue ran out: when it does, nothing of  *)
(* the range after the position is served any more.                        *)
ExhaustedIsTrue ==
  (walk = "ids" /\ exhausted) => \A p \in Served : p <= pos.id \/ p > max_id
=============================================================================

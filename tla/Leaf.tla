------------------------------- MODULE Leaf -------------------------------
(***************************************************************************)
(* Persistence of grid snapshots: BufferedSink buffers what a worker emits *)
(* and ParquetSnapshotFlusher writes one file per datatype through the     *)
(* finalize path of leaf_index (lock, sweep, stage, fsync, rename,         *)
(* directory fsync, index append, fsync).  A leaf is one datatype          *)
(* directory.  Sinks of one process share the process's leaf locks; a      *)
(* process may be killed, and the machine may lose power, at every step.   *)
(*                                                                         *)
(* A file is named by the sink that writes it (exchange and symbol), the   *)
(* first snapshot of the batch (its time stamp) and a collision suffix.    *)
(***************************************************************************)
EXTENDS Naturals, Sequences, FiniteSets, Functions

CONSTANTS
    Sinks,                   \* one buffered sink per worker
    Deployments,             \* the ways sinks are spread over processes
    Datatypes,               \* the leaves, in the order a flush visits them
    Declared,                \* the datatypes a sink may persist
    Shapes,                  \* the sets of datatypes a snapshot may carry
    MAX_BUFFERED_SNAPSHOTS,
    OVERFLOW_DROP_CHUNK,
    FlushThreshold,
    MaxSnapshots,            \* bound: snapshots emitted in all
    MaxErrors,               \* bound: failing system calls
    MaxCrashes               \* bound: killed processes and power losses

VARIABLES
    proc,      \* the process each sink runs in
    buf,       \* snapshot_buffer of each sink
    since,     \* snapshots_since_flush of the sink's worker
    job,       \* the flush in progress in each sink's worker
    failures,  \* flush_failures of each sink
    held,      \* held_locks of each process
    staging,   \* the files under .staging of each leaf
    files,     \* the parquet files of each leaf
    index,     \* index.jsonl of each leaf
    fate,      \* what has become of every snapshot emitted so far
    errors, crashes

disk == <<staging, files, index>>
mem == <<buf, since, job, failures>>
vars == <<proc, mem, held, disk, fate, errors, crashes>>

Leaves == Range(Datatypes)
Processes == {d[s] : d \in Deployments, s \in Sinks}
Idle == [at |-> "idle", leaf |-> 1, name |-> <<>>, final |-> FALSE]
Gone == [Idle EXCEPT !.at = "gone"]

ASSUME LeafAssumption ==
    /\ Deployments # {} /\ \A d \in Deployments : DOMAIN d = Sinks
    /\ Datatypes \in Seq(Leaves) /\ IsInjective(Datatypes)
    /\ \A shape \in Shapes : shape \cap Declared \subseteq Leaves
    /\ FlushThreshold \in Nat \ {0}
    /\ OVERFLOW_DROP_CHUNK \in Nat \ {0}
    /\ MAX_BUFFERED_SNAPSHOTS \in Nat \ {0}

-----------------------------------------------------------------------------
(* What a flush writes                                                     *)

\* decompose_snapshots: the snapshots of a batch with rows for a datatype
Rows(b, d) == {x \in Range(b) : d \in x.has}

\* the next datatype of the batch with rows to write, past the last when none is left
NextLeaf(b, i) ==
    LET todo == {j \in i .. Len(Datatypes) : Rows(b, Datatypes[j]) # {}}
    IN  IF todo = {} THEN Len(Datatypes) + 1 ELSE CHOOSE j \in todo : \A k \in todo : j <= k

LeafOf(s) == Datatypes[job[s].leaf]

\* the name the writers of aetelier-io derive: owner and earliest row
batch_stamp(rows) == CHOOSE x \in rows : \A y \in rows : x.id <= y.id

\* the numbered sibling that no file of the directory has yet
unique_path(dir, s, stamp) ==
    LET taken == {f.name : f \in dir}
        free == {k \in 0 .. Cardinality(dir) : <<s, stamp, k>> \notin taken}
    IN  <<s, stamp, CHOOSE k \in free : \A m \in free : k <= m>>

strip_undeclared(shape) == shape \cap Declared

-----------------------------------------------------------------------------
(* index.jsonl: the pieces that appends left in the file, in order         *)

Piece(name, whole, newline) == [name |-> name, whole |-> whole, newline |-> newline]

\* O_APPEND: the bytes go after whatever the file ends with
AppendBytes(ix, piece) == [ix EXCEPT !.pieces = Append(@, piece)]

\* read_index: a line parses when it is exactly one whole entry
read_index(ix) ==
    {ix.pieces[i].name : i \in {j \in DOMAIN ix.pieces :
        /\ ix.pieces[j].whole
        /\ j = 1 \/ ix.pieces[j - 1].newline
        /\ j = Len(ix.pieces) \/ ix.pieces[j].newline}}

\* the tails a write_all that did not finish may leave: nothing, part of the
\* entry, or all of it without its newline
TornAppends(ix, name) ==
    {ix} \cup {AppendBytes(ix, Piece(name, whole, FALSE)) : whole \in BOOLEAN}

-----------------------------------------------------------------------------
Init ==
    /\ proc \in Deployments
    /\ buf = [s \in Sinks |-> <<>>]
    /\ since = [s \in Sinks |-> 0]
    /\ job = [s \in Sinks |-> Idle]
    /\ failures = [s \in Sinks |-> 0]
    /\ held = [p \in Processes |-> {}]
    /\ staging = [d \in Leaves |-> {}]
    /\ files = [d \in Leaves |-> {}]
    /\ index = [d \in Leaves |-> [pieces |-> <<>>, synced |-> 0]]
    /\ fate = <<>>
    /\ errors = 0
    /\ crashes = 0

\* flush: an empty buffer is Ok at once; otherwise the first leaf with rows
Begin(b, final) ==
    [Idle EXCEPT !.at = IF b = <<>> THEN (IF final THEN "gone" ELSE "idle")
                        ELSE IF NextLeaf(b, 1) > Len(Datatypes) THEN "clear" ELSE "lock",
                 !.leaf = NextLeaf(b, 1), !.final = final]

Settle(b, what) ==
    [i \in DOMAIN fate |-> IF \E x \in Range(b) : x.id = i THEN [fate[i] EXCEPT !.is = what] ELSE fate[i]]

\* emit_snapshot, shedding the oldest chunk of a full buffer, then maybe_flush
EmitTo(s, shape, full) ==
    LET x == [id |-> Len(fate) + 1, has |-> strip_undeclared(shape)]
        n == IF full THEN (IF OVERFLOW_DROP_CHUNK < Len(buf[s]) THEN OVERFLOW_DROP_CHUNK ELSE Len(buf[s])) ELSE 0
        b == Append(SubSeq(buf[s], n + 1, Len(buf[s])), x)
    IN  /\ buf' = [buf EXCEPT ![s] = b]
        /\ fate' = Append(Settle(SubSeq(buf[s], 1, n), "shed"), [of |-> s, has |-> x.has, is |-> "buffered"])
        /\ since' = [since EXCEPT ![s] = @ + 1]
        /\ job' = [job EXCEPT ![s] = IF since[s] + 1 >= FlushThreshold THEN Begin(b, FALSE) ELSE @]

emit_snapshot(s) ==
    /\ job[s].at = "idle"
    /\ Len(fate) < MaxSnapshots
    /\ \E shape \in Shapes : EmitTo(s, shape, Len(buf[s]) >= MAX_BUFFERED_SNAPSHOTS)
    /\ UNCHANGED <<proc, failures, held, disk, errors, crashes>>

\* the worker's last flush, after finalize, before it drops its sinks
final_flush(s) ==
    /\ job[s].at = "idle"
    /\ job' = [job EXCEPT ![s] = Begin(buf[s], TRUE)]
    /\ UNCHANGED <<proc, buf, since, failures, held, disk, fate, errors, crashes>>

\* Mutant: the buffer is drained before the write, and lost when it fails.
Fail_drained(s) ==
    /\ failures' = [failures EXCEPT ![s] = @ + 1]
    /\ since' = [since EXCEPT ![s] = 0]
    /\ job' = [job EXCEPT ![s] = IF job[s].final THEN Gone ELSE Idle]
    /\ buf' = [buf EXCEPT ![s] = <<>>]
    /\ UNCHANGED fate

\* a failed flush keeps the buffer; OutputSinkSet::flush only warns, so
\* maybe_flush still starts counting anew, and the last flush is not retried
Fail(s) ==
    /\ failures' = [failures EXCEPT ![s] = @ + 1]
    /\ since' = [since EXCEPT ![s] = 0]
    /\ IF job[s].final
       THEN /\ job' = [job EXCEPT ![s] = Gone]
            /\ buf' = [buf EXCEPT ![s] = <<>>]
            /\ fate' = Settle(buf[s], "lost")
       ELSE /\ job' = [job EXCEPT ![s] = Idle]
            /\ UNCHANGED <<buf, fate>>

Step(s, at) == job' = [job EXCEPT ![s].at = at]

-----------------------------------------------------------------------------
(* persist_leaf, one system call after the other                           *)

\* Mutant: the lock is taken without looking who holds it.
acquire_leaf_lock_shared(s) ==
    /\ job[s].at = "lock"
    /\ held' = [held EXCEPT ![proc[s]] = @ \cup {LeafOf(s)}]
    /\ Step(s, "sweep")
    /\ UNCHANGED <<proc, buf, since, failures, fate, disk, errors, crashes>>

acquire_leaf_lock(s) ==
    /\ job[s].at = "lock"
    /\ IF \E p \in Processes \ {proc[s]} : LeafOf(s) \in held[p]
       THEN Fail(s) /\ UNCHANGED held
       ELSE /\ held' = [held EXCEPT ![proc[s]] = @ \cup {LeafOf(s)}]
            /\ Step(s, "sweep")
            /\ UNCHANGED <<buf, since, failures, fate>>
    /\ UNCHANGED <<proc, disk, errors, crashes>>

sweep_staging(s) ==
    /\ job[s].at = "sweep"
    /\ staging' = [staging EXCEPT ![LeafOf(s)] = {}]
    /\ Step(s, "write")
    /\ UNCHANGED <<proc, buf, since, failures, held, files, index, fate, errors, crashes>>

Staged(s, whole) ==
    LET rows == Rows(buf[s], LeafOf(s))
    IN  [name |-> unique_path(staging[LeafOf(s)], s, batch_stamp(rows).id),
         rows |-> {x.id : x \in rows}, whole |-> whole, synced |-> FALSE, linked |-> FALSE]

write(s) ==
    /\ job[s].at = "write"
    /\ staging' = [staging EXCEPT ![LeafOf(s)] = @ \cup {Staged(s, TRUE)}]
    /\ job' = [job EXCEPT ![s].at = "fsync", ![s].name = Staged(s, TRUE).name]
    /\ UNCHANGED <<proc, buf, since, failures, held, files, index, fate, errors, crashes>>

MyStaged(s) == {f \in staging[LeafOf(s)] : f.name = job[s].name}

\* Mutant: the staged file is renamed without an fsync.
fsync_staged_skipped(s) ==
    /\ job[s].at = "fsync"
    /\ IF MyStaged(s) = {} THEN Fail(s) ELSE Step(s, "rename") /\ UNCHANGED <<buf, since, failures, fate>>
    /\ UNCHANGED <<proc, held, disk, errors, crashes>>

\* finalize_into: File::open and rename fail when the staged file is gone
fsync_staged(s) ==
    /\ job[s].at = "fsync"
    /\ IF MyStaged(s) = {}
       THEN Fail(s) /\ UNCHANGED staging
       ELSE /\ staging' = [staging EXCEPT ![LeafOf(s)] =
                   (@ \ MyStaged(s)) \cup {[f EXCEPT !.synced = TRUE] : f \in MyStaged(s)}]
            /\ Step(s, "rename")
            /\ UNCHANGED <<buf, since, failures, fate>>
    /\ UNCHANGED <<proc, held, files, index, errors, crashes>>

rename(s) ==
    /\ job[s].at = "rename"
    /\ IF MyStaged(s) = {}
       THEN Fail(s) /\ UNCHANGED <<staging, files>>
       ELSE LET to == unique_path(files[LeafOf(s)], s, job[s].name[2])
            IN  /\ staging' = [staging EXCEPT ![LeafOf(s)] = @ \ MyStaged(s)]
                /\ files' = [files EXCEPT ![LeafOf(s)] =
                       @ \cup {[f EXCEPT !.name = to] : f \in MyStaged(s)}]
                /\ job' = [job EXCEPT ![s].at = "dirsync", ![s].name = to]
                /\ UNCHANGED <<buf, since, failures, fate>>
    /\ UNCHANGED <<proc, held, index, errors, crashes>>

\* Mutant: the leaf directory is not fsynced after the rename.
fsync_leaf_skipped(s) ==
    /\ job[s].at = "dirsync"
    /\ Step(s, "append")
    /\ UNCHANGED <<proc, buf, since, failures, held, disk, fate, errors, crashes>>

fsync_leaf(s) ==
    /\ job[s].at = "dirsync"
    /\ files' = [files EXCEPT ![LeafOf(s)] = {[f EXCEPT !.linked = TRUE] : f \in @}]
    /\ Step(s, "append")
    /\ UNCHANGED <<proc, buf, since, failures, held, staging, index, fate, errors, crashes>>

append_entry(s) ==
    /\ job[s].at = "append"
    /\ index' = [index EXCEPT ![LeafOf(s)] = AppendBytes(@, Piece(job[s].name, TRUE, TRUE))]
    /\ Step(s, "appendsync")
    /\ UNCHANGED <<proc, buf, since, failures, held, staging, files, fate, errors, crashes>>

\* the fsync of the index, then the next datatype of flush_snapshots
fsync_index(s) ==
    /\ job[s].at = "appendsync"
    /\ index' = [index EXCEPT ![LeafOf(s)].synced = Len(index[LeafOf(s)].pieces)]
    /\ LET n == NextLeaf(buf[s], job[s].leaf + 1)
       IN  job' = [job EXCEPT ![s].leaf = n,
                              ![s].at = IF n > Len(Datatypes) THEN "clear" ELSE "lock"]
    /\ UNCHANGED <<proc, buf, since, failures, held, staging, files, fate, errors, crashes>>

\* Mutant: a written batch stays in the buffer.
clear_buffer_forgotten(s) ==
    /\ job[s].at = "clear"
    /\ fate' = Settle(buf[s], "flushed")
    /\ since' = [since EXCEPT ![s] = 0]
    /\ job' = [job EXCEPT ![s] = IF job[s].final THEN Gone ELSE Idle]
    /\ UNCHANGED <<proc, buf, failures, held, disk, errors, crashes>>

\* the tail of BufferedSink::flush: the batch leaves the buffer
clear_buffer(s) ==
    /\ job[s].at = "clear"
    /\ buf' = [buf EXCEPT ![s] = <<>>]
    /\ fate' = Settle(buf[s], "flushed")
    /\ since' = [since EXCEPT ![s] = 0]
    /\ job' = [job EXCEPT ![s] = IF job[s].final THEN Gone ELSE Idle]
    /\ UNCHANGED <<proc, failures, held, disk, errors, crashes>>

-----------------------------------------------------------------------------
(* Faults                                                                  *)

\* what a call interrupted by an error or a kill leaves behind
Residue(s) ==
    CASE job[s].at = "write" ->
            /\ staging' = [staging EXCEPT ![LeafOf(s)] = @ \cup {Staged(s, FALSE)}]
            /\ UNCHANGED <<files, index>>
      [] job[s].at = "append" ->
            /\ \E ix \in TornAppends(index[LeafOf(s)], job[s].name) :
                  index' = [index EXCEPT ![LeafOf(s)] = ix]
            /\ UNCHANGED <<staging, files>>
      [] OTHER -> UNCHANGED disk

\* any fallible call of persist_leaf returns an error
IoError(s) ==
    /\ errors < MaxErrors
    /\ job[s].at \in {"lock", "write", "fsync", "rename", "dirsync", "append", "appendsync"}
    /\ errors' = errors + 1
    /\ Residue(s)
    /\ Fail(s)
    /\ UNCHANGED <<proc, held, crashes>>

\* a process dies and is started again with fresh workers: what was buffered
\* dies with it and the kernel releases its locks
Die(ps) ==
    LET dead == {s \in Sinks : proc[s] \in ps}
    IN  /\ buf' = [s \in Sinks |-> IF s \in dead THEN <<>> ELSE buf[s]]
        /\ since' = [s \in Sinks |-> IF s \in dead THEN 0 ELSE since[s]]
        /\ job' = [s \in Sinks |-> IF s \in dead THEN Idle ELSE job[s]]
        /\ held' = [p \in Processes |-> IF p \in ps THEN {} ELSE held[p]]
        /\ fate' = [i \in DOMAIN fate |->
               IF fate[i].of \in dead /\ fate[i].is = "buffered" THEN [fate[i] EXCEPT !.is = "died"] ELSE fate[i]]

Kill(s) ==
    /\ crashes < MaxCrashes
    /\ crashes' = crashes + 1
    /\ Residue(s)
    /\ Die({proc[s]})
    /\ UNCHANGED <<proc, failures, errors>>

\* what a leaf may hold after the power is lost: a file whose bytes were not
\* fsynced is torn, one whose directory entry was not may be missing
Surviving(fs) ==
    {{[f EXCEPT !.whole = f.whole /\ f.synced, !.linked = TRUE] : f \in fs \ vanished}
        : vanished \in SUBSET {f \in fs : ~f.linked}}

\* appends past the last fsync survive as a prefix, the last of it torn or not
SurvivingIndex(ix) ==
    LET kept(k) == [pieces |-> SubSeq(ix.pieces, 1, k), synced |-> k]
        torn(k) == [pieces |-> Append(SubSeq(ix.pieces, 1, k), Piece(ix.pieces[k + 1].name, FALSE, FALSE)),
                    synced |-> k + 1]
    IN  {kept(k) : k \in ix.synced .. Len(ix.pieces)}
            \cup {torn(k) : k \in ix.synced .. Len(ix.pieces) - 1}

PowerLoss ==
    /\ crashes < MaxCrashes
    /\ crashes' = crashes + 1
    /\ Die(Processes)
    /\ files' \in {g \in [Leaves -> UNION {Surviving(files[d]) : d \in Leaves}] :
                     \A d \in Leaves : g[d] \in Surviving(files[d])}
    /\ index' \in {g \in [Leaves -> UNION {SurvivingIndex(index[d]) : d \in Leaves}] :
                     \A d \in Leaves : g[d] \in SurvivingIndex(index[d])}
    /\ UNCHANGED <<proc, failures, staging, errors>>

Next ==
    \/ \E s \in Sinks :
          \/ emit_snapshot(s) \/ final_flush(s)
          \/ acquire_leaf_lock(s) \/ sweep_staging(s) \/ write(s) \/ fsync_staged(s)
          \/ rename(s) \/ fsync_leaf(s) \/ append_entry(s) \/ fsync_index(s) \/ clear_buffer(s)
          \/ IoError(s) \/ Kill(s)
    \/ PowerLoss

Spec == Init /\ [][Next]_vars

-----------------------------------------------------------------------------
(* Properties                                                              *)

\* what a flush reported written is on disk for good: once flush clears the
\* buffer, every datatype of every snapshot of the batch is in a whole file of
\* its leaf, through every later failed flush, kill and power loss
FlushedSurvives ==
    \A i \in DOMAIN fate : fate[i].is = "flushed" =>
        \A d \in fate[i].has : \E f \in files[d] : f.whole /\ i \in f.rows

\* a file that readers can see in a leaf is complete, and no entry of the
\* index names a file that is missing or incomplete (the promise of finalize_into
\* and of hashing before the append), after a power loss as well
LeafIsSound ==
    \A d \in Leaves :
        /\ \A f \in files[d] : f.whole
        /\ read_index(index[d]) \subseteq {f.name : f \in files[d]}

\* rows are written twice only by the retry of a flush that failed: a leaf holds
\* at most one copy of a snapshot's rows more than its sink counted failures
CopiesComeFromRetries ==
    \A s \in Sinks, d \in Leaves : \A i \in DOMAIN fate :
        Cardinality({f \in files[d] : f.name[1] = s /\ i \in f.rows}) <= 1 + failures[s]

Waiting(s) == {i \in DOMAIN fate : fate[i].of = s /\ fate[i].is = "buffered"}

\* a flush that fails half way loses nothing: whatever was neither written, nor
\* shed at the cap, nor lost with the process is still buffered, in order and within
\* the cap, and shedding takes the oldest first
BufferKeepsTheRest ==
    \A s \in Sinks :
        /\ {x.id : x \in Range(buf[s])} = Waiting(s)
        /\ Len(buf[s]) <= MAX_BUFFERED_SNAPSHOTS
        /\ \A j, k \in DOMAIN buf[s] : j < k => buf[s][j].id < buf[s][k].id
        /\ \A i \in DOMAIN fate : fate[i].of = s /\ fate[i].is = "shed" => \A j \in Waiting(s) : i < j

Needed(s) == job[s].at \in {"fsync", "rename"}

Disturbed(s) ==
    /\ Needed(s) /\ job'[s] = job[s]
    /\ MyStaged(s) # {} /\ ~ MyStaged(s) \subseteq staging'[LeafOf(s)]

\* the leaf lock keeps processes apart: no step of one process removes a
\* staged file that a flush of another process is about to rename
SweepSparesOtherProcesses ==
    [][\A s \in Sinks : Disturbed(s) => \E t \in Sinks \ {s} : proc[t] = proc[s] /\ job[t] # job'[t]]_vars

\* what the index promises readers: a file whose flush was reported written is
\* listed, so that only files of interrupted flushes are pending
FlushedIsListed ==
    \A i \in DOMAIN fate : fate[i].is = "flushed" =>
        \A d \in fate[i].has : \E f \in files[d] : i \in f.rows /\ f.name \in read_index(index[d])

=============================================================================

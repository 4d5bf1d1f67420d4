----------------------------- MODULE LeafSteps ------------------------------
(***************************************************************************)
(* What one step of Leaf does to the flush of a sink, to the buffers, the  *)
(* locks and the staged files: the lemmas under LeafProofs.                *)
(*                                                                         *)
(* A sink sweeps the leaf it has locked before it stages, so from its      *)
(* write to its rename it has one staged file there, which holds the batch *)
(* (StageInv).                                                             *)
(***************************************************************************)
EXTENDS Leaf, TLAPS

USE SMTT(20), ZenonT(20)

-----------------------------------------------------------------------------
(* Types                                                                   *)

Snapshots == [id : Nat, has : SUBSET Leaves]
Names == Sinks \X Nat \X Nat
Places == {"idle", "gone", "lock", "sweep", "write", "fsync", "rename", "dirsync",
           "append", "appendsync", "clear"}
Jobs == [at : Places, leaf : Nat, name : Names \cup {<<>>}, final : BOOLEAN]
Files == [name : Names, rows : SUBSET Nat, whole : BOOLEAN, synced : BOOLEAN, linked : BOOLEAN]
Pieces == [name : Names, whole : BOOLEAN, newline : BOOLEAN]
Indexes == [pieces : Seq(Pieces), synced : Nat]
Fates == [of : Sinks, has : SUBSET Leaves, is : {"buffered", "shed", "lost", "died", "flushed"}]

Types ==
  /\ proc \in Deployments
  /\ buf \in [Sinks -> Seq(Snapshots)]
  /\ job \in [Sinks -> Jobs]
  /\ failures \in [Sinks -> Nat]
  /\ held \in [Processes -> SUBSET Leaves]
  /\ staging \in [Leaves -> SUBSET Files]
  /\ files \in [Leaves -> SUBSET Files]
  /\ index \in [Leaves -> Indexes]
  /\ fate \in Seq(Fates)
  /\ \A d \in Leaves : IsFiniteSet(staging[d]) /\ IsFiniteSet(files[d])

\* a flush is under way in a leaf
Working == {"lock", "sweep", "write", "fsync", "rename", "dirsync", "append", "appendsync"}
Locked == Working \ {"lock"}

Batch(s) == {x.id : x \in Rows(buf[s], LeafOf(s))}
Mine(s) == {f \in staging[LeafOf(s)] : f.name[1] = s}

\* a flush stands in a leaf with rows to write, or past the last leaf
PlaceInv ==
  \A s \in Sinks :
    /\ job[s].at \in Working => job[s].leaf \in DOMAIN Datatypes /\ Rows(buf[s], LeafOf(s)) # {}
    /\ job[s].at = "clear" => job[s].leaf = Len(Datatypes) + 1
    /\ job[s].at \in Locked \ {"sweep", "write"} => job[s].name \in Names /\ job[s].name[1] = s

\* the buffer b of s holds, in order and within the cap, the snapshots of s whose
\* fate in f is still open, and all of them are younger than the shed ones
BufOk(b, f, s) ==
  /\ \A j \in DOMAIN b : /\ b[j].id \in DOMAIN f /\ f[b[j].id].of = s
                         /\ f[b[j].id].is = "buffered" /\ f[b[j].id].has = b[j].has
  /\ \A i \in DOMAIN f : f[i].of = s /\ f[i].is = "buffered" => \E j \in DOMAIN b : b[j].id = i
  /\ Len(b) <= MAX_BUFFERED_SNAPSHOTS
  /\ \A j, k \in DOMAIN b : j < k => b[j].id < b[k].id
  /\ \A i \in DOMAIN f : \A j \in DOMAIN b : f[i].of = s /\ f[i].is = "shed" => i < b[j].id

BufInv == \A s \in Sinks : BufOk(buf[s], fate, s)

\* a flush past acquire_leaf_lock works under the lock of its process alone
LockInv ==
  /\ \A s \in Sinks : job[s].at \in Locked => LeafOf(s) \in held[proc[s]]
  /\ \A p, q \in Processes : p # q => held[p] \cap held[q] = {}

\* from its sweep to its rename a sink has no staged file but the one it writes
StageInv ==
  \A s \in Sinks :
    /\ job[s].at = "write" => Mine(s) = {}
    /\ job[s].at \in {"fsync", "rename"} =>
         /\ \A f \in Mine(s) : /\ f.name = job[s].name /\ f.whole /\ f.rows = Batch(s)
                               /\ job[s].at = "rename" => f.synced
         /\ \A f, g \in Mine(s) : f = g

-----------------------------------------------------------------------------
(* Operators                                                               *)

\* What the argument takes from the library of finite sets: a set of naturals has a
\* least member, and how the cardinality of a set follows that of another.  It is a
\* hypothesis of the lemmas that need it; Counted, in LeafProofs, proves it.
Counting ==
  /\ \A T \in SUBSET Nat : T # {} => \E k \in T : \A j \in T : k <= j
  /\ IsFiniteSet({}) /\ Cardinality({}) = 0
  /\ \A n \in Nat : IsFiniteSet(0 .. n) /\ Cardinality(0 .. n) = n + 1
  /\ \A S, x : IsFiniteSet(S) =>
       /\ IsFiniteSet(S \cup {x})
       /\ Cardinality(S \cup {x}) = IF x \in S THEN Cardinality(S) ELSE Cardinality(S) + 1
  /\ \A S, T : IsFiniteSet(S) /\ IsFiniteSet(T) => IsFiniteSet(S \cup T)
  /\ \A S, T, g : IsFiniteSet(S) /\ (\A y \in T : \E x \in S : y = g[x]) =>
       /\ IsFiniteSet(T) /\ Cardinality(T) <= Cardinality(S)
       /\ Cardinality(T) \in Nat /\ Cardinality(S) \in Nat

LEMMA Appended == \A ix \in Indexes, e \in Pieces : AppendBytes(ix, e) \in Indexes
BY DEF AppendBytes, Indexes

LEMMA Least ==
  ASSUME Counting, NEW T \in SUBSET Nat, T # {}
  PROVE  \E k \in T : \A j \in T : k <= j
BY Zenon DEF Counting

LEMMA Added ==
  ASSUME Counting, NEW S, IsFiniteSet(S), NEW x
  PROVE  /\ IsFiniteSet(S \cup {x})
         /\ Cardinality(S \cup {x}) = IF x \in S THEN Cardinality(S) ELSE Cardinality(S) + 1
BY Zenon DEF Counting

LEMMA Covered ==
  ASSUME Counting, NEW S, IsFiniteSet(S), NEW T, NEW g, \A y \in T : \E x \in S : y = g[x]
  PROVE  /\ IsFiniteSet(T) /\ Cardinality(T) <= Cardinality(S)
         /\ Cardinality(T) \in Nat /\ Cardinality(S) \in Nat
<1>1. \A R, U, h : IsFiniteSet(R) /\ (\A y \in U : \E x \in R : y = h[x]) =>
        /\ IsFiniteSet(U) /\ Cardinality(U) <= Cardinality(R)
        /\ Cardinality(U) \in Nat /\ Cardinality(R) \in Nat
  BY Zenon DEF Counting
<1>. QED  BY <1>1

LEMMA Part ==
  ASSUME Counting, NEW S, IsFiniteSet(S), NEW T \in SUBSET S
  PROVE  /\ IsFiniteSet(T) /\ Cardinality(T) <= Cardinality(S)
         /\ Cardinality(T) \in Nat /\ Cardinality(S) \in Nat
<1>. DEFINE g == [x \in S |-> x]
<1>1. \A y \in T : \E x \in S : y = g[x]  OBVIOUS
<1>. HIDE DEF g
<1>. QED  BY <1>1, Covered

\* The positions of the leaves, each of a leaf of its own.
LEMMA LeafFacts ==
  /\ Len(Datatypes) \in Nat /\ DOMAIN Datatypes = 1 .. Len(Datatypes)
  /\ \A j \in DOMAIN Datatypes : Datatypes[j] \in Leaves
  /\ \A d \in Leaves : \E j \in DOMAIN Datatypes : Datatypes[j] = d
  /\ \A j, k \in DOMAIN Datatypes : Datatypes[j] = Datatypes[k] => j = k
<1>1. Datatypes \in Seq(Leaves)  BY LeafAssumption
<1>2. Len(Datatypes) \in Nat /\ DOMAIN Datatypes = 1 .. Len(Datatypes)
  OBVIOUS
<1>3. /\ \A j \in DOMAIN Datatypes : Datatypes[j] \in Leaves
      /\ \A d \in Leaves : \E j \in DOMAIN Datatypes : Datatypes[j] = d
  BY Zenon DEF Leaves, Range
<1>4. \A j, k \in DOMAIN Datatypes : Datatypes[j] = Datatypes[k] => j = k
  BY LeafAssumption, Zenon DEF IsInjective
<1>. QED  BY <1>3, <1>4

\* NextLeaf passes only leaves without rows, and stops at one that has some.
LEMMA NextLeafFacts ==
  ASSUME Counting, NEW b, NEW i \in 1 .. Len(Datatypes) + 1
  PROVE  /\ NextLeaf(b, i) \in i .. Len(Datatypes) + 1
         /\ \A j \in i .. NextLeaf(b, i) - 1 : Rows(b, Datatypes[j]) = {}
         /\ NextLeaf(b, i) <= Len(Datatypes) => Rows(b, Datatypes[NextLeaf(b, i)]) # {}
<1>. DEFINE todo == {j \in i .. Len(Datatypes) : Rows(b, Datatypes[j]) # {}}
<1>1. Len(Datatypes) \in Nat  OBVIOUS
<1>2. CASE todo = {}
  <2>1. NextLeaf(b, i) = Len(Datatypes) + 1  BY <1>2 DEF NextLeaf
  <2>2. \A j \in i .. Len(Datatypes) : Rows(b, Datatypes[j]) = {}  BY <1>2
  <2>3. Len(Datatypes) + 1 \in i .. Len(Datatypes) + 1 /\ Len(Datatypes) + 1 - 1 = Len(Datatypes)
    OBVIOUS
  <2>4. NextLeaf(b, i) - 1 = Len(Datatypes) /\ ~(NextLeaf(b, i) <= Len(Datatypes))
    BY <2>1
  <2>. QED  BY <2>1, <2>2, <2>3, <2>4, Zenon
<1>3. CASE todo # {}
  <2>1. todo \in SUBSET Nat  OBVIOUS
  <2>2. \E k \in todo : \A j \in todo : k <= j  BY <1>3, <2>1, Least, Zenon
  <2>3. NextLeaf(b, i) = CHOOSE j \in todo : \A k \in todo : j <= k  BY <1>3, Zenon DEF NextLeaf
  <2>4. NextLeaf(b, i) \in todo /\ \A k \in todo : NextLeaf(b, i) <= k
    <3>. HIDE DEF todo
    <3>. QED  BY <2>2, <2>3
  <2>. DEFINE n == NextLeaf(b, i)
  <2>. HIDE DEF n
  <2>5. n \in todo /\ \A k \in todo : n <= k  BY <2>4 DEF n
  <2>6. n \in i .. Len(Datatypes) /\ Rows(b, Datatypes[n]) # {}  BY <2>5
  <2>7. ASSUME NEW j \in i .. n - 1 PROVE Rows(b, Datatypes[j]) = {}
    <3>1. j \in i .. Len(Datatypes) /\ j < n  BY <2>6
    <3>2. ASSUME Rows(b, Datatypes[j]) # {} PROVE FALSE
      <4>1. j \in todo  BY <3>1, <3>2, Zenon
      <4>2. n <= j  BY <2>5, <4>1, Zenon
      <4>. QED  BY <2>6, <4>2
    <3>. QED  BY <3>2
  <2>8. n \in i .. Len(Datatypes) + 1  BY <2>6
  <2>. QED  BY <2>6, <2>7, <2>8, Zenon DEF n
<1>. QED  BY <1>2, <1>3, Zenon

\* The stamp of a batch is one of its snapshots.
LEMMA StampFacts ==
  ASSUME Counting, NEW rows \in SUBSET Snapshots, rows # {}
  PROVE  batch_stamp(rows) \in rows /\ batch_stamp(rows).id \in Nat
<1>. DEFINE ids == {x.id : x \in rows}
<1>1. ids \in SUBSET Nat /\ ids # {}  BY DEF Snapshots
<1>2. \E k \in ids : \A j \in ids : k <= j
  <2>. HIDE DEF ids
  <2>. QED  BY <1>1, Least
<1>3. \E x \in rows : \A y \in rows : x.id <= y.id  BY <1>2
<1>4. batch_stamp(rows) \in rows  BY <1>3 DEF batch_stamp
<1>. QED  BY <1>4 DEF Snapshots

\* unique_path returns a name of the sink and stamp that no file has: a rename
\* to it replaces nothing.
LEMMA UniqueIsFree ==
  ASSUME Counting, NEW dir \in SUBSET Files, IsFiniteSet(dir), NEW s \in Sinks, NEW stamp \in Nat
  PROVE  /\ unique_path(dir, s, stamp) \in Names
         /\ unique_path(dir, s, stamp)[1] = s /\ unique_path(dir, s, stamp)[2] = stamp
         /\ \A f \in dir : f.name # unique_path(dir, s, stamp)
<1>. DEFINE n == Cardinality(dir)
            taken == {f.name : f \in dir}
            free == {k \in 0 .. n : <<s, stamp, k>> \notin taken}
<1>1. n \in Nat  BY Part
<1>2. free # {}
  <2>1. SUFFICES ASSUME free = {} PROVE FALSE  OBVIOUS
  <2>. DEFINE g == [f \in dir |-> f.name[3]]
  <2>2. \A k \in 0 .. n : \E f \in dir : f.name = <<s, stamp, k>>  BY <2>1
  <2>3. \A k \in 0 .. n : \E f \in dir : k = g[f]  BY <2>2
  <2>. HIDE DEF g
  <2>4. Cardinality(0 .. n) <= n  BY <2>3, Covered, Zenon
  <2>5. Cardinality(0 .. n) = n + 1  BY <1>1 DEF Counting
  <2>. QED  BY <1>1, <2>4, <2>5
<1>3. free \in SUBSET Nat  OBVIOUS
<1>4. \E k \in free : \A m \in free : k <= m
  <2>. HIDE DEF free
  <2>. QED  BY <1>2, <1>3, Least
<1>. DEFINE c == CHOOSE k \in free : \A m \in free : k <= m
<1>5. c \in free
  <2>. HIDE DEF free
  <2>. QED  BY <1>4
<1>6. unique_path(dir, s, stamp) = <<s, stamp, c>>  BY DEF unique_path
<1>. HIDE DEF c
<1>7. c \in 0 .. n /\ <<s, stamp, c>> \notin taken  BY <1>5, Zenon
<1>8. \A f \in dir : f.name # <<s, stamp, c>>  BY <1>7, Zenon
<1>9. <<s, stamp, c>> \in Names  BY <1>7 DEF Names
<1>. QED  BY <1>6, <1>8, <1>9

\* A fate settled keeps its sink and its datatypes.
LEMMA SettleFacts ==
  ASSUME Types, NEW b \in Seq(Snapshots), NEW what \in {"shed", "lost", "flushed"}
  PROVE  /\ Settle(b, what) \in Seq(Fates) /\ Len(Settle(b, what)) = Len(fate)
         /\ DOMAIN Settle(b, what) = DOMAIN fate
         /\ \A i \in DOMAIN fate :
              /\ Settle(b, what)[i].of = fate[i].of /\ Settle(b, what)[i].has = fate[i].has
              /\ (\E x \in Range(b) : x.id = i) => Settle(b, what)[i].is = what
              /\ ~(\E x \in Range(b) : x.id = i) => Settle(b, what)[i].is = fate[i].is
<1>. DEFINE named(i) == \E x \in Range(b) : x.id = i
            g == [i \in DOMAIN fate |-> IF named(i) THEN [fate[i] EXCEPT !.is = what] ELSE fate[i]]
<1>1. Settle(b, what) = g  BY Zenon DEF Settle
<1>. HIDE DEF named
<1>2. fate \in Seq(Fates)  BY DEF Types
<1>3. DOMAIN fate = 1 .. Len(fate) /\ Len(fate) \in Nat  OBVIOUS
<1>4. ASSUME NEW i \in DOMAIN fate
      PROVE  /\ g[i] \in Fates /\ g[i].of = fate[i].of /\ g[i].has = fate[i].has
             /\ named(i) => g[i].is = what
             /\ ~named(i) => g[i].is = fate[i].is
  <2>1. fate[i] \in Fates  BY <1>2
  <2>2. g[i] = IF named(i) THEN [fate[i] EXCEPT !.is = what] ELSE fate[i]  BY Zenon
  <2>. HIDE DEF g
  <2>. CASE named(i)  BY <2>1, <2>2 DEF Fates
  <2>. CASE ~named(i)  BY <2>1, <2>2
  <2>. QED  OBVIOUS
<1>5. DOMAIN g = 1 .. Len(fate)  OBVIOUS
<1>. HIDE DEF g
<1>6. g \in Seq(Fates) /\ Len(g) = Len(fate)
  <2>1. g \in [1 .. Len(fate) -> Fates]
    <3>1. g = [i \in DOMAIN fate |-> g[i]]  BY Zenon DEF g
    <3>. QED  BY <1>4, <3>1
  <2>. QED  BY <2>1
<1>. QED  BY <1>1, <1>4, <1>6 DEF named

\* flush begins at the first leaf with rows, past it when none has any.
LEMMA BeginFacts ==
  ASSUME Counting, NEW b, NEW final \in BOOLEAN
  PROVE  /\ Begin(b, final) \in Jobs /\ Begin(b, final).at \in {"idle", "gone", "lock", "clear"}
         /\ Begin(b, final).at = "lock" =>
              /\ Begin(b, final).leaf \in DOMAIN Datatypes
              /\ Rows(b, Datatypes[Begin(b, final).leaf]) # {}
         /\ Begin(b, final).at = "clear" => Begin(b, final).leaf = Len(Datatypes) + 1
         /\ \A j \in 1 .. Begin(b, final).leaf - 1 : Rows(b, Datatypes[j]) = {}
<1>. DEFINE n == NextLeaf(b, 1)
            place == IF b = <<>> THEN (IF final THEN "gone" ELSE "idle")
                     ELSE IF n > Len(Datatypes) THEN "clear" ELSE "lock"
<1>1. Begin(b, final) = [at |-> place, leaf |-> n, name |-> <<>>, final |-> final]
  <2>1. Begin(b, final) = [Idle EXCEPT !.at = place, !.leaf = n, !.final = final]
    BY Zenon DEF Begin
  <2>. HIDE DEF place, n
  <2>. QED  BY <2>1, Zenon DEF Idle
<1>2. Len(Datatypes) \in Nat /\ DOMAIN Datatypes = 1 .. Len(Datatypes)  OBVIOUS
<1>3. 1 \in 1 .. Len(Datatypes) + 1  OBVIOUS
<1>4. /\ n \in 1 .. Len(Datatypes) + 1
      /\ \A j \in 1 .. n - 1 : Rows(b, Datatypes[j]) = {}
      /\ n <= Len(Datatypes) => Rows(b, Datatypes[n]) # {}
  BY <1>3, NextLeafFacts
<1>5. /\ place \in {"idle", "gone", "lock", "clear"}
      /\ place = "lock" => ~(n > Len(Datatypes))
      /\ place = "clear" => n > Len(Datatypes)
  BY Zenon
<1>. HIDE DEF place, n
<1>6. Begin(b, final) \in Jobs  BY <1>1, <1>4, <1>5 DEF Jobs, Places
<1>7. Begin(b, final).at = place /\ Begin(b, final).leaf = n  BY <1>1
<1>8. place = "lock" => n \in DOMAIN Datatypes /\ Rows(b, Datatypes[n]) # {}
  BY <1>4, <1>5
<1>9. place = "clear" => n = Len(Datatypes) + 1  BY <1>4, <1>5
<1>. QED  BY <1>4, <1>5, <1>6, <1>7, <1>8, <1>9

\* A failed flush ends the flush; only the last one of a worker gives up its buffer.
LEMMA FailFacts ==
  ASSUME Types, NEW s \in Sinks, Fail(s)
  PROVE  /\ job' \in [Sinks -> Jobs] /\ job'[s].at \in {"idle", "gone"}
         /\ \A t \in Sinks \ {s} : job'[t] = job[t]
         /\ failures' = [failures EXCEPT ![s] = @ + 1]
         /\ \/ UNCHANGED <<buf, fate>>
            \/ buf' = [buf EXCEPT ![s] = <<>>] /\ fate' = Settle(buf[s], "lost")
<1>1. Idle \in Jobs /\ Gone \in Jobs /\ Idle.at = "idle" /\ Gone.at = "gone"
  <2>1. 1 \in Nat /\ {"idle", "gone"} \subseteq Places  BY DEF Places
  <2>2. Idle \in Jobs /\ Idle.at = "idle"  BY <2>1 DEF Idle, Jobs
  <2>. QED  BY <2>1, <2>2 DEF Gone, Jobs
<1>2. job \in [Sinks -> Jobs]  BY DEF Types
<1>3. \/ job' = [job EXCEPT ![s] = Gone] \/ job' = [job EXCEPT ![s] = Idle]
  BY Zenon DEF Fail
<1>4. /\ job' \in [Sinks -> Jobs] /\ job'[s].at \in {"idle", "gone"}
      /\ \A t \in Sinks \ {s} : job'[t] = job[t]
  BY <1>1, <1>2, <1>3
<1>5. /\ failures' = [failures EXCEPT ![s] = @ + 1]
      /\ \/ UNCHANGED <<buf, fate>>
         \/ buf' = [buf EXCEPT ![s] = <<>>] /\ fate' = Settle(buf[s], "lost")
  BY Zenon DEF Fail
<1>. QED  BY <1>4, <1>5

\* A process that dies takes its buffers with it, and nothing of another's.
LEMMA DieFacts ==
  ASSUME Types, NEW ps, Die(ps)
  PROVE  /\ fate' \in Seq(Fates) /\ Len(fate') = Len(fate) /\ DOMAIN fate' = DOMAIN fate
         /\ \A i \in DOMAIN fate :
              /\ fate'[i].of = fate[i].of /\ fate'[i].has = fate[i].has
              /\ (proc[fate[i].of] \in ps /\ fate[i].is = "buffered") => fate'[i].is = "died"
              /\ ~(proc[fate[i].of] \in ps /\ fate[i].is = "buffered") => fate'[i].is = fate[i].is
<1>. DEFINE dead == {s \in Sinks : proc[s] \in ps}
<1>2. fate \in Seq(Fates)  BY DEF Types
<1>3. DOMAIN fate = 1 .. Len(fate) /\ Len(fate) \in Nat  OBVIOUS
<1>4. fate' = [i \in DOMAIN fate |->
         IF fate[i].of \in dead /\ fate[i].is = "buffered" THEN [fate[i] EXCEPT !.is = "died"] ELSE fate[i]]
  BY Zenon DEF Die
<1>5. ASSUME NEW i \in DOMAIN fate
      PROVE  /\ fate'[i] \in Fates /\ fate'[i].of = fate[i].of /\ fate'[i].has = fate[i].has
             /\ (proc[fate[i].of] \in ps /\ fate[i].is = "buffered") => fate'[i].is = "died"
             /\ ~(proc[fate[i].of] \in ps /\ fate[i].is = "buffered") => fate'[i].is = fate[i].is
  <2>1. fate[i] \in Fates  BY <1>2
  <2>2. fate[i].of \in dead <=> proc[fate[i].of] \in ps  BY <2>1 DEF Fates
  <2>3. fate'[i] = IF fate[i].of \in dead /\ fate[i].is = "buffered" THEN [fate[i] EXCEPT !.is = "died"] ELSE fate[i]
    BY <1>4, Zenon
  <2>. HIDE DEF dead
  <2>. CASE fate[i].of \in dead /\ fate[i].is = "buffered"  BY <2>1, <2>2, <2>3 DEF Fates
  <2>. CASE ~(fate[i].of \in dead /\ fate[i].is = "buffered")  BY <2>1, <2>2, <2>3
  <2>. QED  OBVIOUS
<1>6. DOMAIN fate' = 1 .. Len(fate)  BY <1>4
<1>7. fate' \in [1 .. Len(fate) -> Fates]
  <2>1. fate' = [i \in DOMAIN fate |-> fate'[i]]  BY <1>4, Zenon
  <2>. QED  BY <1>5, <2>1
<1>8. fate' \in Seq(Fates) /\ Len(fate') = Len(fate)  BY <1>7
<1>. QED  BY <1>5, <1>8

-----------------------------------------------------------------------------
(* What a step does to the flush of one sink                               *)

Rests(t) == job'[t].at \in {"idle", "gone"}

Stays(t) == job'[t] = job[t] /\ buf'[t] = buf[t]

Begins(t) ==
  job[t].at = "idle" /\ \E final \in BOOLEAN : job'[t] = Begin(buf'[t], final)

Order == {<<"lock", "sweep">>, <<"sweep", "write">>, <<"write", "fsync">>, <<"fsync", "rename">>,
          <<"rename", "dirsync">>, <<"dirsync", "append">>, <<"append", "appendsync">>}

\* the next system call of persist_leaf
Moves(t) ==
  /\ buf'[t] = buf[t]
  /\ job'[t].leaf = job[t].leaf
  /\ <<job[t].at, job'[t].at>> \in Order
  /\ IF job[t].at \in {"write", "rename"}
     THEN job'[t].name \in Names /\ job'[t].name[1] = t
     ELSE job'[t].name = job[t].name

\* the next leaf of flush_snapshots
Advances(t) ==
  /\ job[t].at = "appendsync" /\ buf'[t] = buf[t]
  /\ LET n == NextLeaf(buf[t], job[t].leaf + 1)
     IN  job'[t].leaf = n /\ job'[t].at = IF n > Len(Datatypes) THEN "clear" ELSE "lock"

\* The leaf a flush works in is one, and its batch has rows there.
LEMMA LeafOfFacts ==
  ASSUME Counting, Types, PlaceInv, NEW s \in Sinks, job[s].at \in Working
  PROVE  /\ LeafOf(s) \in Leaves /\ Rows(buf[s], LeafOf(s)) # {}
         /\ Rows(buf[s], LeafOf(s)) \in SUBSET Snapshots
         /\ batch_stamp(Rows(buf[s], LeafOf(s))).id \in Nat
         /\ job[s].leaf \in 1 .. Len(Datatypes) /\ Len(Datatypes) \in Nat
<1>1. job[s].leaf \in DOMAIN Datatypes /\ Rows(buf[s], LeafOf(s)) # {}  BY Zenon DEF PlaceInv
<1>2. LeafOf(s) \in Leaves /\ job[s].leaf \in 1 .. Len(Datatypes) /\ Len(Datatypes) \in Nat
  BY <1>1, LeafFacts DEF LeafOf
<1>3. Rows(buf[s], LeafOf(s)) \in SUBSET Snapshots
  <2>1. buf[s] \in Seq(Snapshots)  BY DEF Types
  <2>2. Range(buf[s]) \subseteq Snapshots  BY <2>1 DEF Range
  <2>. QED  BY <2>2, Zenon DEF Rows
<1>4. batch_stamp(Rows(buf[s], LeafOf(s))).id \in Nat  BY <1>1, <1>3, StampFacts
<1>. QED  BY <1>1, <1>2, <1>3, <1>4

\* A file staged by s is one of its own, in a leaf where none has its name.
LEMMA StagedFacts ==
  ASSUME Counting, Types, PlaceInv, NEW s \in Sinks, job[s].at \in Working, NEW whole \in BOOLEAN
  PROVE  /\ Staged(s, whole) \in Files /\ Staged(s, whole).name[1] = s
         /\ Staged(s, whole).rows = Batch(s) /\ Staged(s, whole).whole = whole
         /\ \A f \in staging[LeafOf(s)] : f.name # Staged(s, whole).name
<1>. DEFINE rows == Rows(buf[s], LeafOf(s))
            to == unique_path(staging[LeafOf(s)], s, batch_stamp(rows).id)
<1>1. LeafOf(s) \in Leaves /\ rows \in SUBSET Snapshots /\ batch_stamp(rows).id \in Nat
  BY LeafOfFacts
<1>2. staging[LeafOf(s)] \in SUBSET Files /\ IsFiniteSet(staging[LeafOf(s)])
  BY <1>1 DEF Types
<1>3. to \in Names /\ to[1] = s /\ \A f \in staging[LeafOf(s)] : f.name # to
  BY <1>1, <1>2, UniqueIsFree
<1>4. Staged(s, whole) = [name |-> to, rows |-> Batch(s), whole |-> whole,
                          synced |-> FALSE, linked |-> FALSE]
  BY Zenon DEF Staged, Batch
<1>5. Batch(s) \in SUBSET Nat  BY <1>1 DEF Batch, Snapshots
<1>. HIDE DEF to
<1>. QED  BY <1>3, <1>4, <1>5 DEF Files

\* The name a rename gives is one of the sink that no file of the leaf has.
LEMMA RenameFacts ==
  ASSUME Counting, Types, PlaceInv, NEW s \in Sinks, job[s].at = "rename"
  PROVE  LET to == unique_path(files[LeafOf(s)], s, job[s].name[2])
         IN  to \in Names /\ to[1] = s /\ \A f \in files[LeafOf(s)] : f.name # to
<1>1. LeafOf(s) \in Leaves  BY LeafOfFacts DEF Working
<1>2. files[LeafOf(s)] \in SUBSET Files /\ IsFiniteSet(files[LeafOf(s)])  BY <1>1 DEF Types
<1>3. job[s].name \in Names  BY DEF PlaceInv, Locked, Working
<1>4. job[s].name[2] \in Nat  BY <1>3 DEF Names
<1>. QED  BY <1>2, <1>4, UniqueIsFree

Goes(t) ==
  /\ job'[t] \in Jobs
  /\ Rests(t) \/ Stays(t) \/ Begins(t) \/ Moves(t) \/ Advances(t)

LEMMA FailGoes ==
  ASSUME Types, NEW s \in Sinks, Fail(s), NEW t \in Sinks
  PROVE  Goes(t)
<1>1. job' \in [Sinks -> Jobs] /\ job'[s].at \in {"idle", "gone"}  BY FailFacts
<1>2. CASE t = s  BY <1>1, <1>2 DEF Goes, Rests
<1>3. CASE t # s
  <2>1. job'[t] = job[t]  BY <1>3, FailFacts
  <2>2. buf \in [Sinks -> Seq(Snapshots)]  BY DEF Types
  <2>3. \/ buf' = buf \/ buf' = [buf EXCEPT ![s] = <<>>]  BY FailFacts
  <2>4. buf'[t] = buf[t]  BY <1>3, <2>2, <2>3
  <2>. QED  BY <1>1, <2>1, <2>4 DEF Goes, Stays
<1>. QED  BY <1>2, <1>3

LEMMA DieGoes ==
  ASSUME Types, NEW ps, Die(ps), NEW t \in Sinks
  PROVE  /\ Goes(t)
         /\ IF proc[t] \in ps THEN job'[t] = Idle /\ buf'[t] = <<>>
            ELSE job'[t] = job[t] /\ buf'[t] = buf[t]
<1>1. Idle \in Jobs /\ Idle.at = "idle"
  <2>1. 1 \in Nat /\ "idle" \in Places  BY DEF Places
  <2>. QED  BY <2>1 DEF Idle, Jobs
<1>2. job \in [Sinks -> Jobs]  BY DEF Types
<1>3. IF proc[t] \in ps THEN job'[t] = Idle /\ buf'[t] = <<>>
      ELSE job'[t] = job[t] /\ buf'[t] = buf[t]
  BY DEF Die
<1>. QED  BY <1>1, <1>2, <1>3 DEF Goes, Rests, Stays

LEMMA StepGoes ==
  ASSUME Types, NEW s \in Sinks, NEW at \in Places, Step(s, at), buf' = buf,
         <<job[s].at, at>> \in Order, job[s].at \notin {"write", "rename"}, NEW t \in Sinks
  PROVE  Goes(t)
<1>1. job \in [Sinks -> Jobs]  BY DEF Types
<1>2. job' = [job EXCEPT ![s].at = at]  BY DEF Step
<1>3. CASE t = s
  <2>1. job'[s] = [job[s] EXCEPT !.at = at]  BY <1>1, <1>2
  <2>2. /\ job'[s] \in Jobs /\ job'[s].at = at
        /\ job'[s].leaf = job[s].leaf /\ job'[s].name = job[s].name
    BY <1>1, <2>1 DEF Jobs
  <2>. QED  BY <1>3, <2>2 DEF Goes, Moves
<1>4. CASE t # s
  <2>1. job'[t] = job[t]  BY <1>2, <1>4
  <2>. QED  BY <1>1, <2>1 DEF Goes, Stays
<1>. QED  BY <1>3, <1>4

LEMMA JobSteps ==
  ASSUME Counting, Types, PlaceInv, [Next]_vars, NEW t \in Sinks
  PROVE  Goes(t)
<1>. USE DEF Places
<1>0. /\ job \in [Sinks -> Jobs] /\ buf \in [Sinks -> Seq(Snapshots)]
      /\ job[t] \in Jobs
  BY DEF Types
<1>1. ASSUME NEW s \in Sinks, emit_snapshot(s) PROVE Goes(t)
  <2>1. job[s].at = "idle"  BY <1>1, Zenon DEF emit_snapshot
  <2>2. PICK b, J : /\ buf' = [buf EXCEPT ![s] = b] /\ job' = [job EXCEPT ![s] = J]
                    /\ J = Begin(b, FALSE) \/ J = job[s]
    BY <1>1, Zenon DEF emit_snapshot, EmitTo
  <2>3. FALSE \in BOOLEAN /\ Begin(b, FALSE) \in Jobs  BY BeginFacts, Zenon
  <2>. CASE t # s  BY <1>0, <2>2 DEF Goes, Stays
  <2>. CASE t = s
    <3>1. job'[t] = J /\ buf'[t] = b  BY <1>0, <2>2
    <3>. CASE J = job[s]  BY <1>0, <2>1, <3>1 DEF Goes, Rests
    <3>. CASE J = Begin(b, FALSE)
      <4>1. Begins(t)  BY <2>1, <3>1, Zenon DEF Begins
      <4>. QED  BY <2>3, <3>1, <4>1, Zenon DEF Goes
    <3>. QED  BY <2>2, Zenon
  <2>. QED  OBVIOUS
<1>2. ASSUME NEW s \in Sinks, final_flush(s) PROVE Goes(t)
  <2>1. /\ job[s].at = "idle" /\ buf' = buf
        /\ job' = [job EXCEPT ![s] = Begin(buf[s], TRUE)]
    BY <1>2, Zenon DEF final_flush
  <2>2. TRUE \in BOOLEAN /\ Begin(buf[s], TRUE) \in Jobs  BY BeginFacts, Zenon
  <2>. CASE t # s  BY <1>0, <2>1 DEF Goes, Stays
  <2>. CASE t = s
    <3>1. job'[t] = Begin(buf'[t], TRUE)  BY <1>0, <2>1
    <3>2. Begins(t)  BY <2>1, <3>1, Zenon DEF Begins
    <3>. QED  BY <2>1, <2>2, <3>1, <3>2, Zenon DEF Goes
  <2>. QED  OBVIOUS
<1>3. ASSUME NEW s \in Sinks, acquire_leaf_lock(s) PROVE Goes(t)
  <2>. CASE Fail(s)  BY FailGoes
  <2>. CASE Step(s, "sweep") /\ buf' = buf
    <3>1. job[s].at = "lock"  BY <1>3, Zenon DEF acquire_leaf_lock
    <3>. QED  BY <3>1, StepGoes DEF Order
  <2>. QED  BY <1>3, Zenon DEF acquire_leaf_lock
<1>4. ASSUME NEW s \in Sinks, sweep_staging(s) PROVE Goes(t)
  <2>1. job[s].at = "sweep" /\ Step(s, "write") /\ buf' = buf  BY <1>4, Zenon DEF sweep_staging
  <2>. QED  BY <2>1, StepGoes DEF Order
<1>5. ASSUME NEW s \in Sinks, write(s) PROVE Goes(t)
  <2>1. /\ job[s].at = "write" /\ buf' = buf
        /\ job' = [job EXCEPT ![s].at = "fsync", ![s].name = Staged(s, TRUE).name]
    BY <1>5, Zenon DEF write
  <2>2. Staged(s, TRUE) \in Files /\ Staged(s, TRUE).name[1] = s
    BY <2>1, StagedFacts, Zenon DEF Working
  <2>. DEFINE to == Staged(s, TRUE).name
  <2>3. to \in Names /\ to[1] = s  BY <2>2, Zenon DEF Files
  <2>. HIDE DEF to
  <2>4. job' = [job EXCEPT ![s].at = "fsync", ![s].name = to]  BY <2>1 DEF to
  <2>. CASE t # s  BY <1>0, <2>1 DEF Goes, Stays
  <2>. CASE t = s
    <3>1. job'[t] = [job[t] EXCEPT !.at = "fsync", !.name = to]  BY <1>0, <2>4
    <3>2. /\ job'[t] \in Jobs /\ job'[t].at = "fsync" /\ job'[t].name = to
          /\ job'[t].leaf = job[t].leaf
      BY <1>0, <2>3, <3>1, Zenon DEF Jobs
    <3>. QED  BY <2>1, <2>3, <3>2, Zenon DEF Goes, Moves, Order
  <2>. QED  OBVIOUS
<1>6. ASSUME NEW s \in Sinks, fsync_staged(s) PROVE Goes(t)
  <2>. CASE Fail(s)  BY FailGoes
  <2>. CASE Step(s, "rename") /\ buf' = buf
    <3>1. job[s].at = "fsync"  BY <1>6, Zenon DEF fsync_staged
    <3>. QED  BY <3>1, StepGoes DEF Order
  <2>. QED  BY <1>6, Zenon DEF fsync_staged
<1>7. ASSUME NEW s \in Sinks, rename(s) PROVE Goes(t)
  <2>. DEFINE to == unique_path(files[LeafOf(s)], s, job[s].name[2])
  <2>1. job[s].at = "rename"  BY <1>7, Zenon DEF rename
  <2>2. to \in Names /\ to[1] = s  BY <2>1, RenameFacts
  <2>. CASE Fail(s)  BY FailGoes
  <2>. CASE job' = [job EXCEPT ![s].at = "dirsync", ![s].name = to] /\ buf' = buf
    <3>. HIDE DEF to
    <3>. CASE t # s  BY <1>0 DEF Goes, Stays
    <3>. CASE t = s
      <4>1. job'[t] = [job[t] EXCEPT !.at = "dirsync", !.name = to]  BY <1>0
      <4>2. /\ job'[t] \in Jobs /\ job'[t].at = "dirsync" /\ job'[t].name = to
            /\ job'[t].leaf = job[t].leaf
        BY <1>0, <2>2, Zenon DEF Jobs
      <4>. QED  BY <2>1, <2>2, <4>2 DEF Goes, Moves, Order
    <3>. QED  OBVIOUS
  <2>. QED  BY <1>7, Zenon DEF rename
<1>8. ASSUME NEW s \in Sinks, fsync_leaf(s) PROVE Goes(t)
  <2>1. job[s].at = "dirsync" /\ Step(s, "append") /\ buf' = buf  BY <1>8, Zenon DEF fsync_leaf
  <2>. QED  BY <2>1, StepGoes DEF Order
<1>9. ASSUME NEW s \in Sinks, append_entry(s) PROVE Goes(t)
  <2>1. job[s].at = "append" /\ Step(s, "appendsync") /\ buf' = buf
    BY <1>9, Zenon DEF append_entry
  <2>. QED  BY <2>1, StepGoes DEF Order
<1>10. ASSUME NEW s \in Sinks, fsync_index(s) PROVE Goes(t)
  <2>. DEFINE n == NextLeaf(buf[s], job[s].leaf + 1)
              at == IF n > Len(Datatypes) THEN "clear" ELSE "lock"
  <2>1. /\ job[s].at = "appendsync" /\ buf' = buf
        /\ job' = [job EXCEPT ![s].leaf = n, ![s].at = at]
    BY <1>10, Zenon DEF fsync_index
  <2>2. job[s].leaf \in 1 .. Len(Datatypes) /\ Len(Datatypes) \in Nat
    BY <2>1, LeafOfFacts DEF Working
  <2>3. job[s].leaf + 1 \in 1 .. Len(Datatypes) + 1  BY <2>2
  <2>4. n \in job[s].leaf + 1 .. Len(Datatypes) + 1  BY <2>3, NextLeafFacts
  <2>5. n \in Nat  BY <2>2, <2>4
  <2>6. at \in {"clear", "lock"}  BY Zenon
  <2>. CASE t # s
    <3>. HIDE DEF n, at
    <3>. QED  BY <1>0, <2>1 DEF Goes, Stays
  <2>. CASE t = s
    <3>1. job'[t].leaf = n /\ job'[t].at = at /\ job'[t] \in Jobs
      <4>. HIDE DEF n, at
      <4>1. job'[t] = [job[t] EXCEPT !.leaf = n, !.at = at]  BY <1>0, <2>1
      <4>. QED  BY <1>0, <2>5, <2>6, <4>1, Zenon DEF Jobs
    <3>2. Advances(t)  BY <2>1, <3>1, Zenon DEF Advances
    <3>. QED  BY <3>1, <3>2, Zenon DEF Goes
  <2>. QED  OBVIOUS
<1>11. ASSUME NEW s \in Sinks, clear_buffer(s) PROVE Goes(t)
  <2>1. /\ buf' = [buf EXCEPT ![s] = <<>>]
        /\ job' = [job EXCEPT ![s] = IF job[s].final THEN Gone ELSE Idle]
    BY <1>11, Zenon DEF clear_buffer
  <2>2. Idle \in Jobs /\ Gone \in Jobs /\ Idle.at = "idle" /\ Gone.at = "gone"
    <3>1. 1 \in Nat  OBVIOUS
    <3>2. Idle \in Jobs /\ Idle.at = "idle"  BY DEF Idle, Jobs
    <3>. QED  BY <3>2 DEF Gone, Jobs
  <2>. CASE t # s  BY <1>0, <2>1 DEF Goes, Stays
  <2>. CASE t = s
    <3>1. job'[t] = IF job[s].final THEN Gone ELSE Idle  BY <1>0, <2>1
    <3>. QED  BY <2>2, <3>1 DEF Goes, Rests
  <2>. QED  OBVIOUS
<1>12. ASSUME NEW s \in Sinks, IoError(s) PROVE Goes(t)
  <2>1. Fail(s)  BY <1>12, Zenon DEF IoError
  <2>. QED  BY <2>1, FailGoes
<1>13. ASSUME NEW s \in Sinks, Kill(s) PROVE Goes(t)
  <2>1. Die({proc[s]})  BY <1>13, Zenon DEF Kill
  <2>. QED  BY <2>1, DieGoes
<1>14. ASSUME PowerLoss PROVE Goes(t)
  <2>1. Die(Processes)  BY <1>14, Zenon DEF PowerLoss
  <2>. QED  BY <2>1, DieGoes
<1>15. ASSUME UNCHANGED vars PROVE Goes(t)
  <2>1. job' = job /\ buf' = buf  BY <1>15, Zenon DEF vars, mem
  <2>. QED  BY <1>0, <2>1 DEF Goes, Stays
<1>. QED  BY <1>1, <1>2, <1>3, <1>4, <1>5, <1>6, <1>7, <1>8, <1>9, <1>10, <1>11, <1>12, <1>13, <1>14,
             <1>15, Zenon DEF Next

-----------------------------------------------------------------------------
(* The types, and where a flush stands                                     *)

LEMMA PlaceStep ==
  ASSUME Counting, Types, PlaceInv, [Next]_vars
  PROVE  PlaceInv' /\ job' \in [Sinks -> Jobs]
<1>1. ASSUME NEW t \in Sinks
      PROVE  /\ job'[t].at \in Working => job'[t].leaf \in DOMAIN Datatypes
                                          /\ Rows(buf'[t], Datatypes[job'[t].leaf]) # {}
             /\ job'[t].at = "clear" => job'[t].leaf = Len(Datatypes) + 1
             /\ job'[t].at \in Locked \ {"sweep", "write"} => job'[t].name \in Names /\ job'[t].name[1] = t
  <2>0. /\ job[t].at \in Working => job[t].leaf \in DOMAIN Datatypes
                                     /\ Rows(buf[t], Datatypes[job[t].leaf]) # {}
        /\ job[t].at = "clear" => job[t].leaf = Len(Datatypes) + 1
        /\ job[t].at \in Locked \ {"sweep", "write"} => job[t].name \in Names /\ job[t].name[1] = t
    BY Zenon DEF PlaceInv, LeafOf
  <2>1. CASE Rests(t)  BY <2>1 DEF Rests, Working, Locked
  <2>2. CASE Stays(t)  BY <2>0, <2>2, Zenon DEF Stays
  <2>3. CASE Begins(t)
    <3>1. PICK final \in BOOLEAN : job'[t] = Begin(buf'[t], final)  BY <2>3, Zenon DEF Begins
    <3>2. /\ job'[t].at \in {"idle", "gone", "lock", "clear"}
          /\ job'[t].at = "lock" => job'[t].leaf \in DOMAIN Datatypes
                                     /\ Rows(buf'[t], Datatypes[job'[t].leaf]) # {}
          /\ job'[t].at = "clear" => job'[t].leaf = Len(Datatypes) + 1
      BY <3>1, BeginFacts
    <3>. QED  BY <3>2 DEF Working, Locked
  <2>4. CASE Moves(t)
    <3>1. /\ job[t].at \in Working /\ job'[t].at # "clear"
          /\ job'[t].leaf = job[t].leaf /\ buf'[t] = buf[t]
      BY <2>4 DEF Moves, Order, Working
    <3>2. job'[t].at \in Locked \ {"sweep", "write"} =>
            job[t].at \in {"write", "rename"} \/ job[t].at \in Locked \ {"sweep", "write"}
      BY <2>4 DEF Moves, Order, Working, Locked
    <3>3. job'[t].at \in Locked \ {"sweep", "write"} => job'[t].name \in Names /\ job'[t].name[1] = t
      BY <2>0, <2>4, <3>2, Zenon DEF Moves
    <3>. QED  BY <2>0, <3>1, <3>3
  <2>5. CASE Advances(t)
    <3>. DEFINE n == NextLeaf(buf[t], job[t].leaf + 1)
    <3>1. /\ job[t].at = "appendsync" /\ buf'[t] = buf[t] /\ job'[t].leaf = n
          /\ job'[t].at = IF n > Len(Datatypes) THEN "clear" ELSE "lock"
      BY <2>5, Zenon DEF Advances
    <3>2. job[t].leaf \in 1 .. Len(Datatypes) /\ Len(Datatypes) \in Nat
      BY <3>1, LeafOfFacts DEF Working
    <3>3. job[t].leaf + 1 \in 1 .. Len(Datatypes) + 1  BY <3>2
    <3>4. /\ n \in job[t].leaf + 1 .. Len(Datatypes) + 1
          /\ n <= Len(Datatypes) => Rows(buf[t], Datatypes[n]) # {}
      BY <3>3, NextLeafFacts
    <3>. HIDE DEF n
    <3>5. DOMAIN Datatypes = 1 .. Len(Datatypes)  OBVIOUS
    <3>. CASE n > Len(Datatypes)  BY <3>1, <3>4 DEF Working, Locked
    <3>. CASE ~(n > Len(Datatypes))
      <4>1. n \in DOMAIN Datatypes /\ Rows(buf[t], Datatypes[n]) # {}  BY <3>2, <3>4
      <4>2. job'[t].at = "lock"  BY <3>1
      <4>. QED  BY <3>1, <4>1 DEF Locked
    <3>. QED  OBVIOUS
  <2>. QED  BY <2>1, <2>2, <2>3, <2>4, <2>5, JobSteps, Zenon DEF Goes
<1>2. PlaceInv'  BY <1>1, Zenon DEF PlaceInv, LeafOf
<1>3. \A t \in Sinks : job'[t] \in Jobs  BY JobSteps DEF Goes
<1>4. job' = [t \in Sinks |-> job'[t]]
  <2>0. job \in [Sinks -> Jobs]  BY DEF Types
  <2>1. ASSUME NEW s \in Sinks, NEW v, job' = [job EXCEPT ![s] = v]
        PROVE  job' = [t \in Sinks |-> job'[t]]
    BY <2>0, <2>1, Zenon
  <2>2. ASSUME NEW s \in Sinks, NEW at, Step(s, at) PROVE job' = [t \in Sinks |-> job'[t]]
    BY <2>0, <2>2, Zenon DEF Step
  <2>3. ASSUME NEW s \in Sinks, Fail(s) PROVE job' = [t \in Sinks |-> job'[t]]
    BY <2>3, FailFacts
  <2>4. ASSUME NEW ps, Die(ps) PROVE job' = [t \in Sinks |-> job'[t]]
    BY <2>4 DEF Die
  <2>7. ASSUME job' = job PROVE job' = [t \in Sinks |-> job'[t]]  BY <2>0, <2>7
  <2>8. ASSUME NEW s \in Sinks,
               emit_snapshot(s) \/ final_flush(s) \/ clear_buffer(s) \/ IoError(s) \/ Kill(s)
        PROVE  job' = [t \in Sinks |-> job'[t]]
    BY <2>1, <2>3, <2>4, <2>8, Zenon
    DEF emit_snapshot, EmitTo, final_flush, clear_buffer, IoError, Kill
  <2>9. ASSUME NEW s \in Sinks,
               acquire_leaf_lock(s) \/ sweep_staging(s) \/ fsync_staged(s) \/ fsync_leaf(s) \/ append_entry(s)
        PROVE  job' = [t \in Sinks |-> job'[t]]
    BY <2>2, <2>3, <2>9, Zenon
    DEF acquire_leaf_lock, sweep_staging, fsync_staged, fsync_leaf, append_entry
  <2>10. ASSUME NEW s \in Sinks, write(s) \/ rename(s) \/ fsync_index(s)
         PROVE  job' = [t \in Sinks |-> job'[t]]
    <3>1. CASE Fail(s)  BY <2>3, <3>1
    <3>2. CASE write(s)
      <4>. DEFINE to == Staged(s, TRUE).name
      <4>1. job' = [job EXCEPT ![s].at = "fsync", ![s].name = to]  BY <3>2, Zenon DEF write
      <4>. HIDE DEF to
      <4>. QED  BY <2>0, <4>1, Zenon
    <3>3. CASE rename(s) /\ ~Fail(s)
      <4>. DEFINE to == unique_path(files[LeafOf(s)], s, job[s].name[2])
      <4>1. job' = [job EXCEPT ![s].at = "dirsync", ![s].name = to]  BY <3>3, Zenon DEF rename
      <4>. HIDE DEF to
      <4>. QED  BY <2>0, <4>1, Zenon
    <3>4. CASE fsync_index(s)
      <4>. DEFINE n == NextLeaf(buf[s], job[s].leaf + 1)
                  at == IF n > Len(Datatypes) THEN "clear" ELSE "lock"
      <4>1. job' = [job EXCEPT ![s].leaf = n, ![s].at = at]  BY <3>4, Zenon DEF fsync_index
      <4>. HIDE DEF n, at
      <4>. QED  BY <2>0, <4>1, Zenon
    <3>. QED  BY <2>10, <3>1, <3>2, <3>3, <3>4
  <2>11. ASSUME PowerLoss PROVE job' = [t \in Sinks |-> job'[t]]
    BY <2>4, <2>11, Zenon DEF PowerLoss
  <2>12. ASSUME UNCHANGED vars PROVE job' = [t \in Sinks |-> job'[t]]
    BY <2>7, <2>12, Zenon DEF vars, mem
  <2>. QED  BY <2>8, <2>9, <2>10, <2>11, <2>12, Zenon DEF Next
<1>5. job' \in [Sinks -> Jobs]  BY <1>3, <1>4
<1>. QED  BY <1>2, <1>5

\* What a step does to the buffers and the fates.
LEMMA BufSteps ==
  ASSUME [Next]_vars, Types
  PROVE  \/ UNCHANGED <<buf, fate>>
         \/ \E s \in Sinks, shape \in Shapes :
               EmitTo(s, shape, Len(buf[s]) >= MAX_BUFFERED_SNAPSHOTS)
         \/ \E s \in Sinks : buf' = [buf EXCEPT ![s] = <<>>] /\ fate' = Settle(buf[s], "lost")
         \/ \E s \in Sinks : /\ job[s].at = "clear"
                             /\ buf' = [buf EXCEPT ![s] = <<>>] /\ fate' = Settle(buf[s], "flushed")
         \/ \E ps : Die(ps)
<1>. DEFINE Goal ==
       \/ UNCHANGED <<buf, fate>>
       \/ \E s \in Sinks, shape \in Shapes :
             EmitTo(s, shape, Len(buf[s]) >= MAX_BUFFERED_SNAPSHOTS)
       \/ \E s \in Sinks : buf' = [buf EXCEPT ![s] = <<>>] /\ fate' = Settle(buf[s], "lost")
       \/ \E s \in Sinks : /\ job[s].at = "clear"
                           /\ buf' = [buf EXCEPT ![s] = <<>>] /\ fate' = Settle(buf[s], "flushed")
       \/ \E ps : Die(ps)
<1>1. ASSUME NEW s \in Sinks, Fail(s) PROVE Goal  BY <1>1, Zenon DEF Fail
<1>2. ASSUME NEW s \in Sinks, emit_snapshot(s) \/ clear_buffer(s) \/ Kill(s) PROVE Goal
  BY <1>2, Zenon DEF emit_snapshot, clear_buffer, Kill
<1>. HIDE DEF Goal
<1>3. ASSUME UNCHANGED <<buf, fate>> PROVE Goal  BY <1>3, Zenon DEF Goal
<1>4. ASSUME NEW s \in Sinks,
             \/ final_flush(s) \/ sweep_staging(s) \/ write(s) \/ fsync_leaf(s)
             \/ append_entry(s) \/ fsync_index(s)
      PROVE  Goal
  BY <1>3, <1>4, Zenon DEF final_flush, sweep_staging, write, fsync_leaf, append_entry, fsync_index
<1>5. ASSUME NEW s \in Sinks, acquire_leaf_lock(s) \/ fsync_staged(s) \/ rename(s) \/ IoError(s)
      PROVE  Goal
  BY <1>1, <1>3, <1>5, Zenon DEF acquire_leaf_lock, fsync_staged, rename, IoError
<1>6. ASSUME PowerLoss PROVE Goal  BY <1>6, Zenon DEF PowerLoss, Goal
<1>7. ASSUME UNCHANGED vars PROVE Goal  BY <1>3, <1>7, Zenon DEF vars, mem
<1>8. Goal  BY <1>2, <1>4, <1>5, <1>6, <1>7, Zenon DEF Next
<1>. QED  BY <1>8 DEF Goal

\* emit_snapshot appends one snapshot, after it has shed the oldest n.
LEMMA EmitFacts ==
  ASSUME Types, NEW s \in Sinks, NEW shape \in Shapes,
         EmitTo(s, shape, Len(buf[s]) >= MAX_BUFFERED_SNAPSHOTS)
  PROVE  \E n \in 0 .. Len(buf[s]), x \in Snapshots :
           /\ x.id = Len(fate) + 1
           /\ Len(buf[s]) < MAX_BUFFERED_SNAPSHOTS \/ Len(buf[s]) - n < Len(buf[s])
           /\ buf' = [buf EXCEPT ![s] = Append(SubSeq(buf[s], n + 1, Len(buf[s])), x)]
           /\ fate' = Append(Settle(SubSeq(buf[s], 1, n), "shed"),
                             [of |-> s, has |-> x.has, is |-> "buffered"])
           /\ SubSeq(buf[s], 1, n) \in Seq(Snapshots)
           /\ SubSeq(buf[s], n + 1, Len(buf[s])) \in Seq(Snapshots)
<1>. DEFINE full == Len(buf[s]) >= MAX_BUFFERED_SNAPSHOTS
            n == IF full THEN (IF OVERFLOW_DROP_CHUNK < Len(buf[s]) THEN OVERFLOW_DROP_CHUNK ELSE Len(buf[s])) ELSE 0
            x == [id |-> Len(fate) + 1, has |-> strip_undeclared(shape)]
<1>1. /\ buf' = [buf EXCEPT ![s] = Append(SubSeq(buf[s], n + 1, Len(buf[s])), x)]
      /\ fate' = Append(Settle(SubSeq(buf[s], 1, n), "shed"),
                        [of |-> s, has |-> x.has, is |-> "buffered"])
  BY Zenon DEF EmitTo
<1>2. /\ buf[s] \in Seq(Snapshots) /\ Len(buf[s]) \in Nat
      /\ fate \in Seq(Fates) /\ Len(fate) \in Nat
  BY DEF Types
<1>3. /\ OVERFLOW_DROP_CHUNK \in Nat /\ OVERFLOW_DROP_CHUNK > 0
      /\ MAX_BUFFERED_SNAPSHOTS \in Nat /\ MAX_BUFFERED_SNAPSHOTS > 0
  BY LeafAssumption
<1>4. n \in 0 .. Len(buf[s]) /\ (Len(buf[s]) < MAX_BUFFERED_SNAPSHOTS \/ Len(buf[s]) - n < Len(buf[s]))
  <2>. CASE ~full
    <3>1. n = 0  BY Zenon
    <3>. HIDE DEF n
    <3>. QED  BY <1>3, <3>1
  <2>. CASE full /\ OVERFLOW_DROP_CHUNK < Len(buf[s])
    <3>1. n = OVERFLOW_DROP_CHUNK  BY Zenon
    <3>. HIDE DEF n
    <3>. QED  BY <1>3, <3>1
  <2>. CASE full /\ ~(OVERFLOW_DROP_CHUNK < Len(buf[s]))
    <3>1. n = Len(buf[s])  BY Zenon
    <3>. HIDE DEF n
    <3>. QED  BY <1>3, <3>1
  <2>. QED  BY Zenon
<1>5. x \in Snapshots /\ x.id = Len(fate) + 1
  <2>1. strip_undeclared(shape) \subseteq Leaves  BY LeafAssumption, Zenon DEF strip_undeclared
  <2>. QED  BY <2>1 DEF Snapshots
<1>. HIDE DEF n, x
<1>6. SubSeq(buf[s], 1, n) \in Seq(Snapshots) /\ SubSeq(buf[s], n + 1, Len(buf[s])) \in Seq(Snapshots)
  <2>1. /\ \A i \in 1 .. n : buf[s][i] \in Snapshots
        /\ \A i \in n + 1 .. Len(buf[s]) : buf[s][i] \in Snapshots
    BY <1>2, <1>4
  <2>2. n \in Int /\ n + 1 \in Int /\ Len(buf[s]) \in Int /\ 1 \in Int  BY <1>4
  <2>. QED  BY <2>1, <2>2
<1>. QED  BY <1>1, <1>4, <1>5, <1>6, Zenon

LEMMA MemStep ==
  ASSUME Counting, Types, PlaceInv, [Next]_vars
  PROVE  /\ proc' = proc
         /\ buf' \in [Sinks -> Seq(Snapshots)] /\ fate' \in Seq(Fates)
         /\ failures' \in [Sinks -> Nat] /\ held' \in [Processes -> SUBSET Leaves]
<1>0. /\ buf \in [Sinks -> Seq(Snapshots)] /\ fate \in Seq(Fates)
      /\ failures \in [Sinks -> Nat] /\ held \in [Processes -> SUBSET Leaves]
      /\ proc \in Deployments
  BY DEF Types
<1>1. proc' = proc
  <2>1. ASSUME NEW s \in Sinks,
               \/ emit_snapshot(s) \/ final_flush(s) \/ acquire_leaf_lock(s) \/ sweep_staging(s)
               \/ write(s) \/ fsync_staged(s) \/ rename(s)
        PROVE  proc' = proc
    BY <2>1, Zenon
    DEF emit_snapshot, final_flush, acquire_leaf_lock, sweep_staging, write, fsync_staged, rename
  <2>2. ASSUME NEW s \in Sinks,
               \/ fsync_leaf(s) \/ append_entry(s) \/ fsync_index(s) \/ clear_buffer(s)
               \/ IoError(s) \/ Kill(s)
        PROVE  proc' = proc
    BY <2>2, Zenon DEF fsync_leaf, append_entry, fsync_index, clear_buffer, IoError, Kill
  <2>. QED  BY <2>1, <2>2, Zenon DEF Next, PowerLoss, vars
<1>2. buf' \in [Sinks -> Seq(Snapshots)] /\ fate' \in Seq(Fates)
  <2>. DEFINE S == Seq(Snapshots)
              F == Seq(Fates)
  <2>. CASE UNCHANGED <<buf, fate>>  BY <1>0
  <2>. CASE \E s \in Sinks, shape \in Shapes : EmitTo(s, shape, Len(buf[s]) >= MAX_BUFFERED_SNAPSHOTS)
    <3>1. PICK s \in Sinks, shape \in Shapes : EmitTo(s, shape, Len(buf[s]) >= MAX_BUFFERED_SNAPSHOTS)
      OBVIOUS
    <3>2. PICK n \in 0 .. Len(buf[s]), x \in Snapshots :
            /\ buf' = [buf EXCEPT ![s] = Append(SubSeq(buf[s], n + 1, Len(buf[s])), x)]
            /\ fate' = Append(Settle(SubSeq(buf[s], 1, n), "shed"),
                              [of |-> s, has |-> x.has, is |-> "buffered"])
            /\ SubSeq(buf[s], 1, n) \in Seq(Snapshots)
            /\ SubSeq(buf[s], n + 1, Len(buf[s])) \in Seq(Snapshots)
      BY <3>1, EmitFacts, Zenon
    <3>. DEFINE b == SubSeq(buf[s], n + 1, Len(buf[s]))
                g == Settle(SubSeq(buf[s], 1, n), "shed")
                e == [of |-> s, has |-> x.has, is |-> "buffered"]
    <3>3. g \in F  BY <3>2, SettleFacts, Zenon
    <3>4. e \in Fates  BY DEF Fates, Snapshots
    <3>5. b \in S  BY <3>2
    <3>6. buf' = [buf EXCEPT ![s] = Append(b, x)] /\ fate' = Append(g, e)  BY <3>2
    <3>. HIDE DEF b, g, e
    <3>7. Append(b, x) \in S /\ Append(g, e) \in F  BY <3>3, <3>4, <3>5
    <3>. HIDE DEF S, F
    <3>8. buf \in [Sinks -> S]  BY <1>0 DEF S
    <3>9. buf' \in [Sinks -> S] /\ fate' \in F  BY <3>6, <3>7, <3>8
    <3>. QED  BY <3>9 DEF S, F
  <2>3. ASSUME NEW s \in Sinks, NEW what \in {"lost", "flushed"},
               buf' = [buf EXCEPT ![s] = <<>>], fate' = Settle(buf[s], what)
        PROVE  buf' \in [Sinks -> Seq(Snapshots)] /\ fate' \in Seq(Fates)
    <3>1. <<>> \in S /\ buf[s] \in S  BY <1>0
    <3>2. fate' \in F  BY <2>3, <3>1, SettleFacts
    <3>. HIDE DEF S, F
    <3>3. buf \in [Sinks -> S]  BY <1>0 DEF S
    <3>4. buf' \in [Sinks -> S]  BY <2>3, <3>1, <3>3
    <3>. QED  BY <3>2, <3>4 DEF S, F
  <2>. CASE \E ps : Die(ps)
    <3>1. PICK ps : Die(ps)  OBVIOUS
    <3>2. fate' \in F  BY DieFacts
    <3>3. \A s \in Sinks : buf'[s] \in S
      <4>1. <<>> \in S /\ \A s \in Sinks : buf[s] \in S  BY <1>0
      <4>. HIDE DEF S
      <4>. QED  BY <4>1, DieGoes
    <3>4. buf' = [s \in Sinks |-> buf'[s]]  BY DEF Die
    <3>. HIDE DEF S, F
    <3>5. buf' \in [Sinks -> S]  BY <3>3, <3>4
    <3>. QED  BY <3>2, <3>5 DEF S, F
  <2>. QED  BY <2>3, BufSteps
<1>3. failures' \in [Sinks -> Nat]
  <2>1. \/ failures' = failures \/ \E s \in Sinks : failures' = [failures EXCEPT ![s] = @ + 1]
    <3>1. ASSUME NEW s \in Sinks,
                 \/ emit_snapshot(s) \/ final_flush(s) \/ acquire_leaf_lock(s) \/ sweep_staging(s)
                 \/ write(s) \/ fsync_staged(s) \/ rename(s)
          PROVE  failures' = failures \/ failures' = [failures EXCEPT ![s] = @ + 1]
      BY <3>1, Zenon
      DEF emit_snapshot, final_flush, acquire_leaf_lock, sweep_staging, write, fsync_staged, rename, Fail
    <3>2. ASSUME NEW s \in Sinks,
                 \/ fsync_leaf(s) \/ append_entry(s) \/ fsync_index(s) \/ clear_buffer(s)
                 \/ IoError(s) \/ Kill(s)
          PROVE  failures' = failures \/ failures' = [failures EXCEPT ![s] = @ + 1]
      BY <3>2, Zenon DEF fsync_leaf, append_entry, fsync_index, clear_buffer, IoError, Kill, Fail
    <3>. QED  BY <3>1, <3>2, Zenon DEF Next, PowerLoss, vars, mem
  <2>. QED  BY <1>0, <2>1
<1>4. held' \in [Processes -> SUBSET Leaves]
  <2>. CASE held' = held  BY <1>0
  <2>2. ASSUME NEW s \in Sinks, acquire_leaf_lock(s), held' # held PROVE held' \in [Processes -> SUBSET Leaves]
    <3>1. held' = [held EXCEPT ![proc[s]] = @ \cup {LeafOf(s)}] /\ job[s].at = "lock"
      BY <2>2, Zenon DEF acquire_leaf_lock
    <3>2. LeafOf(s) \in Leaves  BY <3>1, LeafOfFacts DEF Working
    <3>. QED  BY <1>0, <3>1, <3>2, Zenon
  <2>. CASE \E ps : Die(ps)
    <3>1. PICK ps : Die(ps)  OBVIOUS
    <3>2. held' = [p \in Processes |-> IF p \in ps THEN {} ELSE held[p]]  BY <3>1, Zenon DEF Die
    <3>. QED  BY <1>0, <3>2
  <2>4. ASSUME NEW s \in Sinks,
               \/ emit_snapshot(s) \/ final_flush(s) \/ sweep_staging(s)
               \/ write(s) \/ fsync_staged(s) \/ rename(s)
        PROVE  held' = held
    BY <2>4, Zenon DEF emit_snapshot, final_flush, sweep_staging, write, fsync_staged, rename
  <2>5. ASSUME NEW s \in Sinks,
               \/ fsync_leaf(s) \/ append_entry(s) \/ fsync_index(s) \/ clear_buffer(s) \/ IoError(s)
        PROVE  held' = held
    BY <2>5, Zenon DEF fsync_leaf, append_entry, fsync_index, clear_buffer, IoError
  <2>. QED  BY <2>2, <2>4, <2>5, Zenon DEF Next, Kill, PowerLoss, vars
<1>. QED  BY <1>1, <1>2, <1>3, <1>4

\* What a step does to the staged files.
LEMMA StagingSteps ==
  ASSUME Types, [Next]_vars
  PROVE  \/ staging' = staging
         \/ \E s \in Sinks : sweep_staging(s)
         \/ \E s \in Sinks, whole \in BOOLEAN :
               /\ job[s].at = "write" /\ job'[s].at # "write"
               /\ staging' = [staging EXCEPT ![LeafOf(s)] = @ \cup {Staged(s, whole)}]
         \/ \E s \in Sinks : fsync_staged(s) /\ MyStaged(s) # {}
         \/ \E s \in Sinks : rename(s) /\ MyStaged(s) # {}
<1>. DEFINE Goal ==
       \/ staging' = staging
       \/ \E s \in Sinks : sweep_staging(s)
       \/ \E s \in Sinks, whole \in BOOLEAN :
             /\ job[s].at = "write" /\ job'[s].at # "write"
             /\ staging' = [staging EXCEPT ![LeafOf(s)] = @ \cup {Staged(s, whole)}]
       \/ \E s \in Sinks : fsync_staged(s) /\ MyStaged(s) # {}
       \/ \E s \in Sinks : rename(s) /\ MyStaged(s) # {}
<1>1. ASSUME staging' = staging PROVE Goal  BY <1>1, Zenon
<1>2. ASSUME NEW s \in Sinks, sweep_staging(s) PROVE Goal  BY <1>2, Zenon
<1>3. ASSUME NEW s \in Sinks, NEW whole \in BOOLEAN, job[s].at = "write", job'[s].at # "write",
             staging' = [staging EXCEPT ![LeafOf(s)] = @ \cup {Staged(s, whole)}]
      PROVE  Goal
  BY <1>3, Zenon
<1>4. ASSUME NEW s \in Sinks, (fsync_staged(s) \/ rename(s)) /\ MyStaged(s) # {} PROVE Goal
  BY <1>4, Zenon
<1>. HIDE DEF Goal
<1>5. TRUE \in BOOLEAN /\ FALSE \in BOOLEAN  OBVIOUS
<1>6. ASSUME NEW s \in Sinks, write(s) PROVE Goal
  <2>. DEFINE to == Staged(s, TRUE).name
  <2>1. job' = [job EXCEPT ![s].at = "fsync", ![s].name = to]  BY <1>6, Zenon DEF write
  <2>2. job'[s].at = "fsync"
    <3>. HIDE DEF to
    <3>1. job \in [Sinks -> Jobs]  BY DEF Types
    <3>. QED  BY <2>1, <3>1 DEF Jobs
  <2>3. job'[s].at # "write"  BY <2>2
  <2>. QED  BY <1>3, <1>6, <2>3, Zenon DEF write
<1>7. ASSUME NEW s \in Sinks, fsync_staged(s) \/ rename(s) PROVE Goal
  BY <1>1, <1>4, <1>7, Zenon DEF fsync_staged, rename
<1>8. ASSUME NEW s \in Sinks, Residue(s), job'[s].at # "write" PROVE Goal
  <2>. CASE job[s].at = "write"
    <3>1. staging' = [staging EXCEPT ![LeafOf(s)] = @ \cup {Staged(s, FALSE)}]
      BY <1>8, Zenon DEF Residue
    <3>. QED  BY <1>3, <1>8, <3>1, Zenon
  <2>. CASE job[s].at # "write"
    <3>1. staging' = staging  BY <1>8, Zenon DEF Residue, disk
    <3>. QED  BY <1>1, <3>1
  <2>. QED  OBVIOUS
<1>9. ASSUME NEW s \in Sinks,
             \/ emit_snapshot(s) \/ final_flush(s) \/ acquire_leaf_lock(s) \/ fsync_leaf(s)
             \/ append_entry(s) \/ fsync_index(s) \/ clear_buffer(s)
      PROVE  Goal
  BY <1>1, <1>9, Zenon
  DEF emit_snapshot, final_flush, acquire_leaf_lock, fsync_leaf, append_entry, fsync_index,
      clear_buffer, disk
<1>10. ASSUME NEW s \in Sinks, IoError(s) \/ Kill(s) PROVE Goal
  <2>1. Residue(s)  BY <1>10, Zenon DEF IoError, Kill
  <2>2. job'[s].at # "write"
    <3>. CASE IoError(s)
      <4>1. Fail(s)  BY Zenon DEF IoError
      <4>2. job'[s].at \in {"idle", "gone"}  BY <4>1, FailFacts
      <4>. QED  BY <4>2
    <3>. CASE Kill(s)
      <4>1. Die({proc[s]})  BY Zenon DEF Kill
      <4>2. job'[s] = Idle  BY <4>1, DieGoes
      <4>. QED  BY <4>2 DEF Idle
    <3>. QED  BY <1>10
  <2>. QED  BY <1>8, <2>1, <2>2
<1>11. ASSUME PowerLoss \/ UNCHANGED vars PROVE Goal
  BY <1>1, <1>11, Zenon DEF PowerLoss, vars, disk
<1>12. Goal  BY <1>2, <1>6, <1>7, <1>9, <1>10, <1>11, Zenon DEF Next
<1>. QED  BY <1>12 DEF Goal

\* What a step does to the files of the leaves.
LEMMA FileSteps ==
  ASSUME [Next]_vars
  PROVE  \/ files' = files
         \/ \E s \in Sinks : rename(s) /\ MyStaged(s) # {}
         \/ \E s \in Sinks : fsync_leaf(s)
         \/ PowerLoss
<1>1. ASSUME NEW s \in Sinks, rename(s), MyStaged(s) = {} PROVE files' = files
  BY <1>1, Zenon DEF rename
<1>2. ASSUME NEW s \in Sinks, Residue(s) PROVE files' = files
  BY <1>2, Zenon DEF Residue, disk
<1>3. ASSUME NEW s \in Sinks,
             \/ emit_snapshot(s) \/ final_flush(s) \/ acquire_leaf_lock(s) \/ sweep_staging(s)
             \/ write(s) \/ fsync_staged(s)
      PROVE  files' = files
  BY <1>3, Zenon
  DEF emit_snapshot, final_flush, acquire_leaf_lock, sweep_staging, write, fsync_staged, disk
<1>4. ASSUME NEW s \in Sinks,
             append_entry(s) \/ fsync_index(s) \/ clear_buffer(s) \/ IoError(s) \/ Kill(s)
      PROVE  files' = files
  BY <1>2, <1>4, Zenon DEF append_entry, fsync_index, clear_buffer, IoError, Kill, disk
<1>5. CASE UNCHANGED vars  BY <1>5, Zenon DEF vars, disk
<1>. QED  BY <1>1, <1>3, <1>4, <1>5, Zenon DEF Next

\* What a step does to the indexes.
LEMMA IndexSteps ==
  ASSUME Types, [Next]_vars
  PROVE  \/ index' = index
         \/ \E s \in Sinks, whole \in BOOLEAN, newline \in BOOLEAN :
               /\ job[s].at = "append"
               /\ index' = [index EXCEPT ![LeafOf(s)] =
                              AppendBytes(@, Piece(job[s].name, whole, newline))]
         \/ \E s \in Sinks : fsync_index(s)
         \/ PowerLoss
<1>. DEFINE Goal ==
       \/ index' = index
       \/ \E s \in Sinks, whole \in BOOLEAN, newline \in BOOLEAN :
             /\ job[s].at = "append"
             /\ index' = [index EXCEPT ![LeafOf(s)] =
                            AppendBytes(@, Piece(job[s].name, whole, newline))]
       \/ \E s \in Sinks : fsync_index(s)
       \/ PowerLoss
<1>1. ASSUME index' = index PROVE Goal  BY <1>1, Zenon
<1>2. ASSUME NEW s \in Sinks, NEW whole \in BOOLEAN, NEW newline \in BOOLEAN, job[s].at = "append",
             index' = [index EXCEPT ![LeafOf(s)] = AppendBytes(@, Piece(job[s].name, whole, newline))]
      PROVE  Goal
  BY <1>2, Zenon
<1>3. ASSUME NEW s \in Sinks, fsync_index(s) PROVE Goal  BY <1>3, Zenon
<1>4. ASSUME PowerLoss PROVE Goal  BY <1>4, Zenon
<1>. HIDE DEF Goal
<1>5. TRUE \in BOOLEAN /\ FALSE \in BOOLEAN  OBVIOUS
<1>6. ASSUME NEW s \in Sinks, append_entry(s) PROVE Goal  BY <1>2, <1>6, Zenon DEF append_entry
<1>7. ASSUME NEW s \in Sinks, Residue(s) PROVE Goal
  <2>0. index \in [Leaves -> Indexes]  BY DEF Types
  <2>. CASE job[s].at = "append"
    <3>1. PICK ix \in TornAppends(index[LeafOf(s)], job[s].name) :
            index' = [index EXCEPT ![LeafOf(s)] = ix]
      BY <1>7 DEF Residue
    <3>. CASE ix = index[LeafOf(s)]
      <4>1. index' = index  BY <2>0, <3>1
      <4>. QED  BY <1>1, <4>1
    <3>. CASE \E whole \in BOOLEAN : ix = AppendBytes(index[LeafOf(s)], Piece(job[s].name, whole, FALSE))
      BY <1>2, <3>1, Zenon
    <3>. QED  BY Zenon DEF TornAppends
  <2>. CASE job[s].at # "append"
    <3>1. index' = index  BY <1>7, Zenon DEF Residue, disk
    <3>. QED  BY <1>1, <3>1
  <2>. QED  OBVIOUS
<1>8. ASSUME NEW s \in Sinks,
             \/ emit_snapshot(s) \/ final_flush(s) \/ acquire_leaf_lock(s) \/ sweep_staging(s)
             \/ write(s) \/ fsync_staged(s) \/ rename(s) \/ fsync_leaf(s) \/ clear_buffer(s)
      PROVE  Goal
  BY <1>1, <1>8, Zenon
  DEF emit_snapshot, final_flush, acquire_leaf_lock, sweep_staging, write, fsync_staged, rename,
      fsync_leaf, clear_buffer, disk
<1>9. ASSUME NEW s \in Sinks, IoError(s) \/ Kill(s) PROVE Goal
  BY <1>7, <1>9, Zenon DEF IoError, Kill
<1>10. ASSUME UNCHANGED vars PROVE Goal  BY <1>1, <1>10, Zenon DEF vars, disk
<1>11. Goal  BY <1>3, <1>4, <1>6, <1>8, <1>9, <1>10, Zenon DEF Next
<1>. QED  BY <1>11 DEF Goal

Named(fs, s, i) == {f \in fs : f.name[1] = s /\ i \in f.rows}

\* Files that keep their names and their rows: no copy is added.
LEMMA Marked ==
  ASSUME Counting, NEW fs \in SUBSET Files, IsFiniteSet(fs), NEW g,
         \A f \in fs : g[f] \in Files /\ g[f].name = f.name /\ g[f].rows = f.rows,
         NEW gs, \A h \in gs : \E f \in fs : h = g[f]
  PROVE  /\ gs \in SUBSET Files /\ IsFiniteSet(gs)
         /\ \A s, i : /\ IsFiniteSet(Named(gs, s, i))
                      /\ Cardinality(Named(gs, s, i)) <= Cardinality(Named(fs, s, i))
<1>1. gs \in SUBSET Files  BY Zenon
<1>2. IsFiniteSet(gs)  BY Covered
<1>3. ASSUME NEW s, NEW i
      PROVE  /\ IsFiniteSet(Named(gs, s, i))
             /\ Cardinality(Named(gs, s, i)) <= Cardinality(Named(fs, s, i))
  <2>1. ASSUME NEW y \in Named(gs, s, i) PROVE \E x \in Named(fs, s, i) : y = g[x]
    <3>1. y \in gs /\ y.name[1] = s /\ i \in y.rows  BY DEF Named
    <3>2. PICK x \in fs : y = g[x]  BY <3>1
    <3>3. x \in Named(fs, s, i)  BY <3>2 DEF Named
    <3>. QED  BY <3>2, <3>3
  <2>2. IsFiniteSet(Named(fs, s, i))
    <3>1. Named(fs, s, i) \in SUBSET fs  BY DEF Named
    <3>. QED  BY <3>1, Part
  <2>. QED  BY <2>1, <2>2, Covered
<1>. QED  BY <1>2, <1>3

\* fsync_leaf: every file of the leaf keeps all but its link.
LEMMA LinkedFacts ==
  ASSUME Counting, NEW fs \in SUBSET Files, IsFiniteSet(fs),
         NEW gs, gs = {[f EXCEPT !.linked = TRUE] : f \in fs}
  PROVE  /\ gs \in SUBSET Files /\ IsFiniteSet(gs)
         /\ \A s, i : Cardinality(Named(gs, s, i)) <= Cardinality(Named(fs, s, i))
         /\ \A h \in gs : \E f \in fs :
              /\ h.name = f.name /\ h.rows = f.rows /\ h.whole = f.whole /\ h.synced = f.synced
              /\ h.linked
         /\ \A f \in fs : \E h \in gs : h.name = f.name /\ h.rows = f.rows /\ h.linked
<1>. DEFINE g == [f \in fs |-> [f EXCEPT !.linked = TRUE]]
<1>1. \A f \in fs : /\ g[f] \in Files /\ g[f].name = f.name /\ g[f].rows = f.rows
                    /\ g[f].whole = f.whole /\ g[f].synced = f.synced /\ g[f].linked = TRUE
  BY Zenon DEF Files
<1>2. gs = {g[f] : f \in fs}  OBVIOUS
<1>. HIDE DEF g
<1>3. \A h \in gs : \E f \in fs : h = g[f]  BY <1>2, Zenon
<1>4. /\ gs \in SUBSET Files /\ IsFiniteSet(gs)
      /\ \A s, i : Cardinality(Named(gs, s, i)) <= Cardinality(Named(fs, s, i))
  BY <1>1, <1>3, Marked, Zenon
<1>5. \A h \in gs : \E f \in fs :
        /\ h.name = f.name /\ h.rows = f.rows /\ h.whole = f.whole /\ h.synced = f.synced
        /\ h.linked
  BY <1>1, <1>3
<1>6. \A f \in fs : \E h \in gs : h.name = f.name /\ h.rows = f.rows /\ h.linked
  BY <1>1, <1>2
<1>. QED  BY <1>4, <1>5, <1>6, Zenon

\* A power loss keeps every linked file, and the bytes of every synced one.
LEMMA SurvivingFacts ==
  ASSUME Counting, NEW fs \in SUBSET Files, IsFiniteSet(fs), NEW gs \in Surviving(fs)
  PROVE  /\ gs \in SUBSET Files /\ IsFiniteSet(gs)
         /\ \A s, i : Cardinality(Named(gs, s, i)) <= Cardinality(Named(fs, s, i))
         /\ \A h \in gs : \E f \in fs :
              /\ h.name = f.name /\ h.rows = f.rows
              /\ f.whole /\ f.synced => h.whole /\ h.synced
         /\ \A f \in fs : f.linked => \E h \in gs : h.name = f.name /\ h.rows = f.rows /\ h.linked
<1>1. PICK vanished \in SUBSET {f \in fs : ~f.linked} :
        gs = {[f EXCEPT !.whole = f.whole /\ f.synced, !.linked = TRUE] : f \in fs \ vanished}
  BY Zenon DEF Surviving
<1>. DEFINE g == [f \in fs |-> [f EXCEPT !.whole = f.whole /\ f.synced, !.linked = TRUE]]
<1>2. ASSUME NEW f \in fs
      PROVE  /\ g[f] \in Files /\ g[f].name = f.name /\ g[f].rows = f.rows
             /\ g[f].whole = (f.whole /\ f.synced) /\ g[f].synced = f.synced /\ g[f].linked = TRUE
  <2>. DEFINE w == f.whole /\ f.synced
  <2>1. w \in BOOLEAN /\ f \in Files  OBVIOUS
  <2>2. g[f] = [f EXCEPT !.whole = w, !.linked = TRUE]  BY Zenon
  <2>. HIDE DEF w, g
  <2>3. /\ g[f] \in Files /\ g[f].name = f.name /\ g[f].rows = f.rows
        /\ g[f].whole = w /\ g[f].synced = f.synced /\ g[f].linked = TRUE
    BY <2>1, <2>2, Zenon DEF Files
  <2>. QED  BY <2>3 DEF w
<1>3. gs = {g[f] : f \in fs \ vanished}  BY <1>1, Zenon
<1>. HIDE DEF g
<1>4. \A h \in gs : \E f \in fs : h = g[f]  BY <1>3, Zenon
<1>5. /\ gs \in SUBSET Files /\ IsFiniteSet(gs)
      /\ \A s, i : Cardinality(Named(gs, s, i)) <= Cardinality(Named(fs, s, i))
  <2>1. \A f \in fs : g[f] \in Files /\ g[f].name = f.name /\ g[f].rows = f.rows  BY <1>2, Zenon
  <2>. QED  BY <1>4, <2>1, Marked, Zenon
<1>6. ASSUME NEW h \in gs
      PROVE  \E f \in fs : /\ h.name = f.name /\ h.rows = f.rows
                           /\ f.whole /\ f.synced => h.whole /\ h.synced
  <2>1. PICK f \in fs : h = g[f]  BY <1>4
  <2>2. /\ h.name = f.name /\ h.rows = f.rows
        /\ f.whole /\ f.synced => h.whole /\ h.synced
    BY <1>2, <2>1, Zenon
  <2>. QED  BY <2>2
<1>7. ASSUME NEW f \in fs, f.linked
      PROVE  \E h \in gs : h.name = f.name /\ h.rows = f.rows /\ h.linked
  <2>1. f \notin vanished  BY <1>7, Zenon
  <2>2. g[f] \in gs  BY <1>3, <2>1
  <2>3. g[f].name = f.name /\ g[f].rows = f.rows /\ g[f].linked  BY <1>2, Zenon
  <2>. QED  BY <2>2, <2>3
<1>. QED  BY <1>5, <1>6, <1>7

\* After a power loss an index is a prefix that holds what was synced, and
\* perhaps part of the next entry.
LEMMA SurvivingIndexFacts ==
  ASSUME NEW ix \in Indexes, NEW jx \in SurvivingIndex(ix)
  PROVE  /\ jx \in Indexes /\ jx.synced <= Len(jx.pieces)
         /\ \A j \in DOMAIN jx.pieces :
              \E k \in DOMAIN ix.pieces : jx.pieces[j].name = ix.pieces[k].name
<1>. DEFINE P == ix.pieces
<1>1. P \in Seq(Pieces) /\ Len(P) \in Nat /\ ix.synced \in Nat /\ DOMAIN P = 1 .. Len(P)
  BY DEF Indexes
<1>2. ASSUME NEW k \in 0 .. Len(P)
      PROVE  /\ SubSeq(P, 1, k) \in Seq(Pieces) /\ Len(SubSeq(P, 1, k)) = k
             /\ \A j \in 1 .. k : SubSeq(P, 1, k)[j] = P[j]
  <2>. HIDE DEF P
  <2>1. \A j \in 1 .. k : P[j] \in Pieces  BY <1>1
  <2>2. /\ SubSeq(P, 1, k) \in Seq(Pieces)
        /\ Len(SubSeq(P, 1, k)) = IF 1 <= k THEN k - 1 + 1 ELSE 0
        /\ \A j \in 1 .. k - 1 + 1 : SubSeq(P, 1, k)[j] = P[1 + j - 1]
    BY <2>1
  <2>. QED  BY <1>1
<1>3. ASSUME NEW k \in ix.synced .. Len(P), jx = [pieces |-> SubSeq(P, 1, k), synced |-> k]
      PROVE  /\ jx \in Indexes /\ jx.synced <= Len(jx.pieces)
             /\ \A j \in DOMAIN jx.pieces : \E m \in DOMAIN P : jx.pieces[j].name = P[m].name
  <2>. DEFINE Q == SubSeq(P, 1, k)
  <2>1. k \in 0 .. Len(P)  BY <1>1
  <2>2. Q \in Seq(Pieces) /\ Len(Q) = k /\ \A j \in 1 .. k : Q[j] = P[j]  BY <1>2, <2>1
  <2>. HIDE DEF Q, P
  <2>3. jx = [pieces |-> Q, synced |-> k]  BY <1>3 DEF Q, P
  <2>4. jx \in Indexes  BY <2>2, <2>3 DEF Indexes
  <2>5. jx.pieces = Q /\ jx.synced = k /\ DOMAIN Q = 1 .. k  BY <2>2, <2>3
  <2>. QED  BY <2>2, <2>4, <2>5
<1>4. ASSUME NEW k \in ix.synced .. Len(P) - 1,
             jx = [pieces |-> Append(SubSeq(P, 1, k), Piece(P[k + 1].name, FALSE, FALSE)),
                   synced |-> k + 1]
      PROVE  /\ jx \in Indexes /\ jx.synced <= Len(jx.pieces)
             /\ \A j \in DOMAIN jx.pieces : \E m \in DOMAIN P : jx.pieces[j].name = P[m].name
  <2>. DEFINE Q == SubSeq(P, 1, k)
              e == Piece(P[k + 1].name, FALSE, FALSE)
              R == Append(Q, e)
  <2>1. k \in 0 .. Len(P) /\ k + 1 \in DOMAIN P  BY <1>1
  <2>2. Q \in Seq(Pieces) /\ Len(Q) = k /\ \A j \in 1 .. k : Q[j] = P[j]  BY <1>2, <2>1
  <2>3. e \in Pieces /\ e.name = P[k + 1].name
    <3>1. P[k + 1] \in Pieces  BY <1>1
    <3>. HIDE DEF P
    <3>. QED  BY <3>1 DEF Piece, Pieces
  <2>. HIDE DEF Q, P, e
  <2>4. R \in Seq(Pieces) /\ Len(R) = k + 1 /\ DOMAIN R = 1 .. k + 1  BY <2>2, <2>3
  <2>5. \A j \in 1 .. k + 1 : R[j].name = P[j].name
    <3>1. \A j \in 1 .. k : R[j] = Q[j]  BY <2>2
    <3>2. R[k + 1] = e  BY <2>2
    <3>. QED  BY <2>2, <2>3
  <2>. HIDE DEF R
  <2>6. jx = [pieces |-> R, synced |-> k + 1]  BY <1>4 DEF R, Q, P, e
  <2>7. jx \in Indexes  BY <2>4, <2>6 DEF Indexes
  <2>8. jx.pieces = R /\ jx.synced = k + 1  BY <2>6
  <2>. QED  BY <2>4, <2>5, <2>7, <2>8
<1>5. \/ \E k \in ix.synced .. Len(P) : jx = [pieces |-> SubSeq(P, 1, k), synced |-> k]
      \/ \E k \in ix.synced .. Len(P) - 1 :
           jx = [pieces |-> Append(SubSeq(P, 1, k), Piece(P[k + 1].name, FALSE, FALSE)),
                 synced |-> k + 1]
  BY Zenon DEF SurvivingIndex
<1>. QED  BY <1>3, <1>4, <1>5, Zenon

\* fsync_staged marks the files of its flush and leaves the others.
LEMMA SyncedFacts ==
  ASSUME Counting, Types, PlaceInv, NEW s \in Sinks, fsync_staged(s), MyStaged(s) # {}
  PROVE  /\ job[s].at = "fsync" /\ LeafOf(s) \in Leaves /\ job'[s].at = "rename"
         /\ \A d \in Leaves \ {LeafOf(s)} : staging'[d] = staging[d]
         /\ staging' = [d \in Leaves |-> staging'[d]]
         /\ staging'[LeafOf(s)] \in SUBSET Files /\ IsFiniteSet(staging'[LeafOf(s)])
         /\ \A f \in staging[LeafOf(s)] : f.name # job[s].name => f \in staging'[LeafOf(s)]
         /\ \A h \in staging'[LeafOf(s)] :
              \/ h \in staging[LeafOf(s)] /\ h.name # job[s].name
              \/ \E f \in MyStaged(s) : h = [f EXCEPT !.synced = TRUE]
<1>. DEFINE l == LeafOf(s)
            S == staging[LeafOf(s)]
            M == MyStaged(s)
            N == {[f EXCEPT !.synced = TRUE] : f \in M}
            g == [f \in S |-> IF f \in M THEN [f EXCEPT !.synced = TRUE] ELSE f]
<1>1. job[s].at = "fsync" /\ Step(s, "rename") /\ staging' = [staging EXCEPT ![l] = (@ \ M) \cup N]
  BY Zenon DEF fsync_staged
<1>2. l \in Leaves  BY <1>1, LeafOfFacts DEF Working
<1>3. staging \in [Leaves -> SUBSET Files] /\ S \in SUBSET Files /\ IsFiniteSet(S)
  BY <1>2 DEF Types
<1>4. M = {f \in S : f.name = job[s].name}  BY DEF MyStaged
<1>5. job'[s].at = "rename"
  <2>1. job \in [Sinks -> Jobs]  BY DEF Types
  <2>. QED  BY <1>1, <2>1 DEF Step, Jobs
<1>6. N \in SUBSET Files  BY <1>3, <1>4, Zenon DEF Files
<1>7. \A y \in (S \ M) \cup N : \E x \in S : y = g[x]  BY <1>4
<1>8. IsFiniteSet((S \ M) \cup N)
  <2>. HIDE DEF S, g, N, M
  <2>. QED  BY <1>3, <1>7, Covered
<1>9. staging'[l] = (S \ M) \cup N  BY <1>1, <1>2, <1>3
<1>10. /\ \A d \in Leaves \ {l} : staging'[d] = staging[d]
       /\ staging' = [d \in Leaves |-> staging'[d]]
  <2>. HIDE DEF M, N, l
  <2>. QED  BY <1>1, <1>3, Zenon
<1>11. \A f \in S : f.name # job[s].name => f \in staging'[l]  BY <1>4, <1>9, Zenon
<1>12. \A h \in staging'[l] : \/ h \in S /\ h.name # job[s].name
                              \/ \E f \in M : h = [f EXCEPT !.synced = TRUE]
  BY <1>4, <1>9, Zenon
<1>13. staging'[l] \in SUBSET Files  BY <1>3, <1>6, <1>9, Zenon
<1>. QED  BY <1>1, <1>2, <1>5, <1>8, <1>10, <1>11, <1>12, <1>13, Zenon

\* rename moves the files of its flush from .staging to the leaf.
LEMMA MovedFacts ==
  ASSUME Counting, Types, PlaceInv, NEW s \in Sinks, rename(s), MyStaged(s) # {}
  PROVE  /\ job[s].at = "rename" /\ LeafOf(s) \in Leaves /\ job'[s].at = "dirsync"
         /\ job'[s].name \in Names /\ job'[s].name[1] = s
         /\ \A f \in files[LeafOf(s)] : f.name # job'[s].name
         /\ staging' = [staging EXCEPT ![LeafOf(s)] = @ \ MyStaged(s)]
         /\ files' = [files EXCEPT ![LeafOf(s)] = @ \cup {[f EXCEPT !.name = job'[s].name] : f \in MyStaged(s)}]
<1>. DEFINE to == unique_path(files[LeafOf(s)], s, job[s].name[2])
<1>1. /\ job[s].at = "rename"
      /\ staging' = [staging EXCEPT ![LeafOf(s)] = @ \ MyStaged(s)]
      /\ files' = [files EXCEPT ![LeafOf(s)] = @ \cup {[f EXCEPT !.name = to] : f \in MyStaged(s)}]
      /\ job' = [job EXCEPT ![s].at = "dirsync", ![s].name = to]
  BY Zenon DEF rename
<1>2. to \in Names /\ to[1] = s /\ \A f \in files[LeafOf(s)] : f.name # to
  BY <1>1, RenameFacts
<1>. HIDE DEF to
<1>3. LeafOf(s) \in Leaves  BY <1>1, LeafOfFacts DEF Working
<1>4. job'[s].at = "dirsync" /\ job'[s].name = to
  <2>1. job \in [Sinks -> Jobs]  BY DEF Types
  <2>2. job'[s] = [job[s] EXCEPT !.at = "dirsync", !.name = to]  BY <1>1, <2>1
  <2>. QED  BY <2>2 DEF Jobs
<1>. QED  BY <1>1, <1>2, <1>3, <1>4, Zenon

LEMMA DiskStep ==
  ASSUME Counting, Types, PlaceInv, [Next]_vars
  PROVE  /\ staging' \in [Leaves -> SUBSET Files] /\ files' \in [Leaves -> SUBSET Files]
         /\ index' \in [Leaves -> Indexes]
         /\ \A d \in Leaves : IsFiniteSet(staging'[d]) /\ IsFiniteSet(files'[d])
<1>0. /\ staging \in [Leaves -> SUBSET Files] /\ files \in [Leaves -> SUBSET Files]
      /\ index \in [Leaves -> Indexes]
      /\ \A d \in Leaves : IsFiniteSet(staging[d]) /\ IsFiniteSet(files[d])
  BY DEF Types
<1>1. staging' \in [Leaves -> SUBSET Files] /\ \A d \in Leaves : IsFiniteSet(staging'[d])
  <2>. CASE staging' = staging  BY <1>0
  <2>2. ASSUME NEW s \in Sinks, sweep_staging(s)
        PROVE  staging' \in [Leaves -> SUBSET Files] /\ \A d \in Leaves : IsFiniteSet(staging'[d])
    <3>1. staging' = [staging EXCEPT ![LeafOf(s)] = {}]  BY <2>2, Zenon DEF sweep_staging
    <3>2. IsFiniteSet({})  BY Zenon DEF Counting
    <3>. QED  BY <1>0, <3>1, <3>2, Zenon
  <2>3. ASSUME NEW s \in Sinks, NEW whole \in BOOLEAN, job[s].at = "write",
               staging' = [staging EXCEPT ![LeafOf(s)] = @ \cup {Staged(s, whole)}]
        PROVE  staging' \in [Leaves -> SUBSET Files] /\ \A d \in Leaves : IsFiniteSet(staging'[d])
    <3>. DEFINE e == Staged(s, whole)
    <3>1. e \in Files /\ LeafOf(s) \in Leaves  BY <2>3, StagedFacts, LeafOfFacts DEF Working
    <3>. HIDE DEF e
    <3>2. staging' = [staging EXCEPT ![LeafOf(s)] = @ \cup {e}]  BY <2>3 DEF e
    <3>3. IsFiniteSet(staging[LeafOf(s)] \cup {e})  BY <1>0, <3>1, Added
    <3>. QED  BY <1>0, <3>1, <3>2, <3>3
  <2>4. ASSUME NEW s \in Sinks, fsync_staged(s), MyStaged(s) # {}
        PROVE  staging' \in [Leaves -> SUBSET Files] /\ \A d \in Leaves : IsFiniteSet(staging'[d])
    <3>1. /\ LeafOf(s) \in Leaves
          /\ \A d \in Leaves \ {LeafOf(s)} : staging'[d] = staging[d]
          /\ staging' = [d \in Leaves |-> staging'[d]]
          /\ staging'[LeafOf(s)] \in SUBSET Files /\ IsFiniteSet(staging'[LeafOf(s)])
      BY <2>4, SyncedFacts
    <3>2. \A d \in Leaves : staging'[d] \in SUBSET Files /\ IsFiniteSet(staging'[d])
      BY <1>0, <3>1
    <3>. QED  BY <3>1, <3>2
  <2>5. ASSUME NEW s \in Sinks, rename(s), MyStaged(s) # {}
        PROVE  staging' \in [Leaves -> SUBSET Files] /\ \A d \in Leaves : IsFiniteSet(staging'[d])
    <3>1. LeafOf(s) \in Leaves /\ staging' = [staging EXCEPT ![LeafOf(s)] = @ \ MyStaged(s)]
      BY <2>5, MovedFacts
    <3>2. staging[LeafOf(s)] \ MyStaged(s) \in SUBSET staging[LeafOf(s)]  OBVIOUS
    <3>3. IsFiniteSet(staging[LeafOf(s)] \ MyStaged(s))  BY <1>0, <3>1, Part
    <3>. QED  BY <1>0, <3>1, <3>3
  <2>. QED  BY <2>2, <2>3, <2>4, <2>5, StagingSteps
<1>2. files' \in [Leaves -> SUBSET Files] /\ \A d \in Leaves : IsFiniteSet(files'[d])
  <2>1. CASE files' = files  BY <1>0, <2>1
  <2>2. ASSUME NEW s \in Sinks, rename(s), MyStaged(s) # {}
        PROVE  files' \in [Leaves -> SUBSET Files] /\ \A d \in Leaves : IsFiniteSet(files'[d])
    <3>. DEFINE to == job'[s].name
                N == {[f EXCEPT !.name = to] : f \in MyStaged(s)}
    <3>1. /\ LeafOf(s) \in Leaves /\ to \in Names
          /\ files' = [files EXCEPT ![LeafOf(s)] = @ \cup N]
      BY <2>2, MovedFacts
    <3>2. MyStaged(s) \subseteq Files /\ IsFiniteSet(MyStaged(s))
      <4>1. staging[LeafOf(s)] \in SUBSET Files /\ IsFiniteSet(staging[LeafOf(s)])  BY <1>0, <3>1
      <4>2. MyStaged(s) \in SUBSET staging[LeafOf(s)]  BY DEF MyStaged
      <4>. QED  BY <4>1, <4>2, Part
    <3>. HIDE DEF to
    <3>3. N \in SUBSET Files  BY <3>1, <3>2 DEF Files
    <3>4. IsFiniteSet(N)
      <4>. DEFINE g == [f \in MyStaged(s) |-> [f EXCEPT !.name = to]]
      <4>1. \A y \in N : \E x \in MyStaged(s) : y = g[x]  OBVIOUS
      <4>. HIDE DEF g, N
      <4>. QED  BY <3>2, <4>1, Covered
    <3>. HIDE DEF N
    <3>5. IsFiniteSet(files[LeafOf(s)] \cup N)  BY <1>0, <3>1, <3>4, Zenon DEF Counting
    <3>. QED  BY <1>0, <3>1, <3>3, <3>5
  <2>3. ASSUME NEW s \in Sinks, fsync_leaf(s)
        PROVE  files' \in [Leaves -> SUBSET Files] /\ \A d \in Leaves : IsFiniteSet(files'[d])
    <3>. DEFINE N == {[f EXCEPT !.linked = TRUE] : f \in files[LeafOf(s)]}
    <3>1. job[s].at = "dirsync" /\ files' = [files EXCEPT ![LeafOf(s)] = N]
      BY <2>3, Zenon DEF fsync_leaf
    <3>2. LeafOf(s) \in Leaves  BY <3>1, LeafOfFacts DEF Working
    <3>3. N \in SUBSET Files /\ IsFiniteSet(N)
      <4>1. files[LeafOf(s)] \in SUBSET Files /\ IsFiniteSet(files[LeafOf(s)])  BY <1>0, <3>2
      <4>2. N = {[f EXCEPT !.linked = TRUE] : f \in files[LeafOf(s)]}  OBVIOUS
      <4>. HIDE DEF N
      <4>. QED  BY <4>1, <4>2, LinkedFacts, Zenon
    <3>. HIDE DEF N
    <3>. QED  BY <1>0, <3>1, <3>3
  <2>. CASE PowerLoss
    <3>1. /\ files' = [d \in Leaves |-> files'[d]]
          /\ \A d \in Leaves : files'[d] \in Surviving(files[d])
      BY DEF PowerLoss
    <3>2. \A d \in Leaves : files'[d] \in SUBSET Files /\ IsFiniteSet(files'[d])
      BY <1>0, <3>1, SurvivingFacts
    <3>. QED  BY <3>1, <3>2
  <2>. QED  BY <2>1, <2>2, <2>3, FileSteps
<1>3. index' \in [Leaves -> Indexes]
  <2>1. CASE index' = index  BY <1>0, <2>1
  <2>2. ASSUME NEW s \in Sinks, NEW whole \in BOOLEAN, NEW newline \in BOOLEAN, job[s].at = "append",
               index' = [index EXCEPT ![LeafOf(s)] = AppendBytes(@, Piece(job[s].name, whole, newline))]
        PROVE  index' \in [Leaves -> Indexes]
    <3>. DEFINE e == Piece(job[s].name, whole, newline)
    <3>1. e \in Pieces
      <4>1. job[s].name \in Names  BY <2>2 DEF PlaceInv, Locked, Working
      <4>. QED  BY <4>1 DEF Piece, Pieces
    <3>2. LeafOf(s) \in Leaves  BY <2>2, LeafOfFacts DEF Working
    <3>. HIDE DEF e
    <3>3. AppendBytes(index[LeafOf(s)], e) \in Indexes
      <4>1. index[LeafOf(s)] \in Indexes  BY <1>0, <3>2
      <4>. QED  BY <3>1, <4>1, Appended, Zenon
    <3>. QED  BY <1>0, <2>2, <3>3 DEF e
  <2>3. ASSUME NEW s \in Sinks, fsync_index(s) PROVE index' \in [Leaves -> Indexes]
    <3>1. /\ job[s].at = "appendsync"
          /\ index' = [index EXCEPT ![LeafOf(s)].synced = Len(index[LeafOf(s)].pieces)]
      BY <2>3, Zenon DEF fsync_index
    <3>2. LeafOf(s) \in Leaves  BY <3>1, LeafOfFacts DEF Working
    <3>3. Len(index[LeafOf(s)].pieces) \in Nat  BY DEF Indexes
    <3>4. [index[LeafOf(s)] EXCEPT !.synced = Len(index[LeafOf(s)].pieces)] \in Indexes
      BY <1>0, <3>2, <3>3 DEF Indexes
    <3>. QED  BY <1>0, <3>1, <3>4
  <2>. CASE PowerLoss
    <3>1. /\ index' = [d \in Leaves |-> index'[d]]
          /\ \A d \in Leaves : index'[d] \in SurvivingIndex(index[d])
      BY DEF PowerLoss
    <3>2. ASSUME NEW d \in Leaves PROVE index'[d] \in Indexes
      <4>1. index[d] \in Indexes /\ index'[d] \in SurvivingIndex(index[d])  BY <1>0, <3>1
      <4>. HIDE DEF SurvivingIndex
      <4>. QED  BY <4>1, SurvivingIndexFacts, Zenon
    <3>. QED  BY <3>1, <3>2
  <2>. QED  BY <2>1, <2>2, <2>3, IndexSteps
<1>. QED  BY <1>1, <1>2, <1>3

-----------------------------------------------------------------------------
(* The buffer                                                              *)

\* A buffer cut at n, and one snapshot appended.
LEMMA CutFacts ==
  ASSUME NEW S, NEW b \in Seq(S), NEW n \in 0 .. Len(b), NEW x \in S
  PROVE  LET c == Append(SubSeq(b, n + 1, Len(b)), x)
         IN  /\ Len(c) = Len(b) - n + 1 /\ DOMAIN c = 1 .. Len(b) - n + 1
             /\ \A j \in 1 .. Len(b) - n : c[j] = b[n + j]
             /\ c[Len(b) - n + 1] = x
             /\ Range(SubSeq(b, 1, n)) = {b[j] : j \in 1 .. n}
<1>. DEFINE L == Len(b)
            Q == SubSeq(b, n + 1, L)
            R == SubSeq(b, 1, n)
            c == Append(Q, x)
<1>1. L \in Nat /\ DOMAIN b = 1 .. L /\ n \in 0 .. L  OBVIOUS
<1>2. \A i \in 1 .. L : b[i] \in S  OBVIOUS
<1>. HIDE DEF L
<1>3. (\A i \in 1 .. n : b[i] \in S) /\ (\A i \in n + 1 .. L : b[i] \in S)  BY <1>1
<1>4. n \in Int /\ n + 1 \in Int /\ L \in Int /\ 1 \in Int  BY <1>1
<1>5. /\ R \in Seq(S) /\ Len(R) = IF 1 <= n THEN n - 1 + 1 ELSE 0
      /\ \A i \in 1 .. n - 1 + 1 : R[i] = b[1 + i - 1]
  OBVIOUS
<1>6. /\ Q \in Seq(S) /\ Len(Q) = IF n + 1 <= L THEN L - (n + 1) + 1 ELSE 0
      /\ \A i \in 1 .. L - (n + 1) + 1 : Q[i] = b[n + 1 + i - 1]
  BY <1>3, <1>4
<1>. HIDE DEF Q, R
<1>7. Len(R) = n /\ DOMAIN R = 1 .. n /\ \A j \in 1 .. n : R[j] = b[j]  BY <1>5
<1>8. Len(Q) = L - n /\ \A j \in 1 .. L - n : Q[j] = b[n + j]  BY <1>1, <1>6
<1>9. Range(R) = {b[j] : j \in 1 .. n}  BY <1>7 DEF Range
<1>10. /\ c \in Seq(S) /\ Len(c) = Len(Q) + 1
       /\ \A j \in 1 .. Len(Q) : c[j] = Q[j]
       /\ c[Len(Q) + 1] = x
  BY <1>6
<1>11. Len(c) = L - n + 1 /\ c[L - n + 1] = x /\ \A j \in 1 .. L - n : c[j] = b[n + j]
  BY <1>8
<1>12. DOMAIN c = 1 .. L - n + 1  BY <1>11
<1>. QED  BY <1>9 DEF L, Q, R

\* c and h are the buffer b and the fates f after the oldest n were shed and x
\* was appended
Shifted(N, L, n, x, f, h, b, c) ==
  /\ DOMAIN f = 1 .. N /\ DOMAIN h = 1 .. N + 1
  /\ DOMAIN b = 1 .. L /\ Len(b) = L /\ DOMAIN c = 1 .. L - n + 1 /\ Len(c) = L - n + 1
  /\ L < MAX_BUFFERED_SNAPSHOTS \/ L - n < L
  /\ \A j \in 1 .. L - n : c[j] = b[n + j]
  /\ c[L - n + 1] = x /\ x.id = N + 1
  /\ h[N + 1].has = x.has /\ h[N + 1].is = "buffered"
  /\ \A i \in 1 .. N : /\ h[i].of = f[i].of /\ h[i].has = f[i].has
                       /\ (\E j \in 1 .. n : b[j].id = i) => h[i].is = "shed"
                       /\ ~(\E j \in 1 .. n : b[j].id = i) => h[i].is = f[i].is

LEMMA OpenIsBuffered ==
  ASSUME NEW b, NEW f, NEW s, BufOk(b, f, s), NEW i \in DOMAIN f, f[i].of = s, f[i].is = "buffered"
  PROVE  \E j \in DOMAIN b : b[j].id = i
BY DEF BufOk

\* Shedding the oldest n of a buffer and appending one keeps what it holds.
LEMMA ShiftKeeps ==
  ASSUME NEW N \in Nat, NEW L \in Nat, NEW n \in 0 .. L, NEW s, NEW x, NEW f, NEW h, NEW b, NEW c,
         BufOk(b, f, s), Shifted(N, L, n, x, f, h, b, c), h[N + 1].of = s
  PROVE  BufOk(c, h, s)
<1>a. /\ DOMAIN f = 1 .. N /\ DOMAIN h = 1 .. N + 1
      /\ DOMAIN b = 1 .. L /\ Len(b) = L /\ DOMAIN c = 1 .. L - n + 1 /\ Len(c) = L - n + 1
      /\ L < MAX_BUFFERED_SNAPSHOTS \/ L - n < L
  BY Zenon DEF Shifted
<1>b. /\ \A j \in 1 .. L - n : c[j] = b[n + j]
      /\ c[L - n + 1] = x /\ x.id = N + 1
      /\ h[N + 1].has = x.has /\ h[N + 1].is = "buffered"
  BY Zenon DEF Shifted
<1>c. \A i \in 1 .. N : /\ h[i].of = f[i].of /\ h[i].has = f[i].has
                        /\ (\E j \in 1 .. n : b[j].id = i) => h[i].is = "shed"
                        /\ ~(\E j \in 1 .. n : b[j].id = i) => h[i].is = f[i].is
  BY Zenon DEF Shifted
<1>0. MAX_BUFFERED_SNAPSHOTS \in Nat  BY LeafAssumption
<1>1. \A j \in 1 .. L : /\ b[j].id \in 1 .. N /\ f[b[j].id].of = s
                        /\ f[b[j].id].is = "buffered" /\ f[b[j].id].has = b[j].has
  BY <1>a, Zenon DEF BufOk
<1>2. \A i \in 1 .. N : f[i].of = s /\ f[i].is = "buffered" => \E j \in 1 .. L : b[j].id = i
  BY <1>a, OpenIsBuffered
<1>3. L <= MAX_BUFFERED_SNAPSHOTS  BY <1>a, Zenon DEF BufOk
<1>4. \A j, k \in 1 .. L : j < k => b[j].id < b[k].id  BY <1>a, Zenon DEF BufOk
<1>5. \A i \in 1 .. N : \A j \in 1 .. L : f[i].of = s /\ f[i].is = "shed" => i < b[j].id
  BY <1>a, Zenon DEF BufOk
<1>6. ASSUME NEW j \in 1 .. L - n
      PROVE  /\ c[j] = b[n + j] /\ n + j \in 1 .. L /\ c[j].id \in 1 .. N
             /\ ~(\E k \in 1 .. n : b[k].id = c[j].id)
  <2>1. n + j \in 1 .. L /\ c[j] = b[n + j]  BY <1>b
  <2>2. b[n + j].id \in 1 .. N  BY <1>1, <2>1, Zenon
  <2>3. ASSUME NEW k \in 1 .. n, b[k].id = b[n + j].id PROVE FALSE
    <3>1. k \in 1 .. L /\ k < n + j  OBVIOUS
    <3>2. b[k].id < b[n + j].id  BY <1>4, <2>1, <3>1, Zenon
    <3>. QED  BY <2>2, <2>3, <3>2
  <2>. QED  BY <2>1, <2>2, <2>3
<1>7. \A j \in DOMAIN c : j \in 1 .. L - n \/ j = L - n + 1  BY <1>a
<1>8. ASSUME NEW j \in DOMAIN c
      PROVE  /\ c[j].id \in DOMAIN h /\ h[c[j].id].of = s
             /\ h[c[j].id].is = "buffered" /\ h[c[j].id].has = c[j].has
  <2>. CASE j \in 1 .. L - n
    <3>1. c[j].id \in 1 .. N /\ c[j] = b[n + j] /\ n + j \in 1 .. L  BY <1>6
    <3>2. h[c[j].id].of = f[c[j].id].of /\ h[c[j].id].has = f[c[j].id].has /\ h[c[j].id].is = f[c[j].id].is
      BY <1>c, <1>6
    <3>3. c[j].id \in DOMAIN h  BY <1>a, <3>1
    <3>4. f[b[n + j].id].of = s /\ f[b[n + j].id].is = "buffered" /\ f[b[n + j].id].has = b[n + j].has
      BY <1>1, <3>1, Zenon
    <3>. QED  BY <3>1, <3>2, <3>3, <3>4
  <2>. CASE j = L - n + 1
    <3>1. c[j] = x /\ N + 1 \in DOMAIN h  BY <1>a, <1>b
    <3>. QED  BY <1>b, <3>1, Zenon
  <2>. QED  BY <1>7, Zenon
<1>9. ASSUME NEW i \in DOMAIN h, h[i].of = s, h[i].is = "buffered"
      PROVE  \E j \in DOMAIN c : c[j].id = i
  <2>. CASE i = N + 1
    <3>1. L - n + 1 \in DOMAIN c  BY <1>a
    <3>. QED  BY <1>b, <3>1, Zenon
  <2>. CASE i \in 1 .. N
    <3>1. ~(\E j \in 1 .. n : b[j].id = i)  BY <1>c, <1>9
    <3>2. f[i].of = s /\ f[i].is = "buffered"  BY <1>c, <1>9
    <3>3. PICK j \in 1 .. L : b[j].id = i  BY <1>2, <3>2, Zenon
    <3>4. j \notin 1 .. n  BY <3>1, <3>3, Zenon
    <3>5. j - n \in 1 .. L - n /\ n + (j - n) = j /\ j - n \in DOMAIN c  BY <1>a, <3>4
    <3>6. c[j - n] = b[j]  BY <1>6, <3>5
    <3>. QED  BY <3>3, <3>5, <3>6, Zenon
  <2>. QED  BY <1>a
<1>10. Len(c) <= MAX_BUFFERED_SNAPSHOTS  BY <1>a, <1>0, <1>3
<1>11. ASSUME NEW j \in DOMAIN c, NEW k \in DOMAIN c, j < k PROVE c[j].id < c[k].id
  <2>1. j \in 1 .. L - n  BY <1>a, <1>11
  <2>. CASE k \in 1 .. L - n
    <3>1. n + j < n + k  BY <1>11, <2>1
    <3>2. c[j] = b[n + j] /\ c[k] = b[n + k] /\ n + j \in 1 .. L /\ n + k \in 1 .. L
      BY <1>6, <2>1
    <3>. QED  BY <1>4, <3>1, <3>2, Zenon
  <2>. CASE k = L - n + 1
    <3>1. c[j].id \in 1 .. N  BY <1>6, <2>1, Zenon
    <3>2. c[k].id = N + 1  BY <1>b
    <3>. QED  BY <3>1, <3>2
  <2>. QED  BY <1>7, Zenon
<1>12. ASSUME NEW i \in DOMAIN h, NEW j \in DOMAIN c, h[i].of = s, h[i].is = "shed"
       PROVE  i < c[j].id
  <2>1. i \in 1 .. N
    <3>1. i # N + 1  BY <1>b, <1>12
    <3>. QED  BY <1>a, <3>1
  <2>. CASE j = L - n + 1
    <3>1. c[j].id = N + 1  BY <1>b
    <3>. QED  BY <2>1, <3>1
  <2>. CASE j \in 1 .. L - n
    <3>1. c[j] = b[n + j] /\ n + j \in 1 .. L  BY <1>6
    <3>. CASE \E k \in 1 .. n : b[k].id = i
      <4>1. PICK k \in 1 .. n : b[k].id = i  OBVIOUS
      <4>2. k \in 1 .. L /\ k < n + j  OBVIOUS
      <4>. QED  BY <1>4, <3>1, <4>1, <4>2, Zenon
    <3>. CASE ~(\E k \in 1 .. n : b[k].id = i)
      <4>1. f[i].of = s /\ f[i].is = "shed"  BY <1>c, <1>12, <2>1
      <4>. QED  BY <1>5, <2>1, <3>1, <4>1, Zenon
    <3>. QED  OBVIOUS
  <2>. QED  BY <1>7, Zenon
<1>. QED  BY <1>8, <1>9, <1>10, <1>11, <1>12, Zenon DEF BufOk

\* A buffer does not mind what becomes of the snapshots of other sinks.
LEMMA OthersKeep ==
  ASSUME NEW b, NEW f, NEW h, NEW t, BufOk(b, f, t),
         \A i \in DOMAIN f : i \in DOMAIN h,
         \A i \in DOMAIN f : f[i].of = t => h[i].of = t /\ h[i].has = f[i].has /\ h[i].is = f[i].is,
         \A i \in DOMAIN h : h[i].of = t => i \in DOMAIN f /\ f[i].of = t
  PROVE  BufOk(b, h, t)
<1>1. \A j \in DOMAIN b : /\ b[j].id \in DOMAIN h /\ h[b[j].id].of = t
                          /\ h[b[j].id].is = "buffered" /\ h[b[j].id].has = b[j].has
  BY Zenon DEF BufOk
<1>2. \A i \in DOMAIN h : h[i].of = t /\ h[i].is = "buffered" => \E j \in DOMAIN b : b[j].id = i
  BY Zenon DEF BufOk
<1>3. Len(b) <= MAX_BUFFERED_SNAPSHOTS /\ \A j, k \in DOMAIN b : j < k => b[j].id < b[k].id
  BY Zenon DEF BufOk
<1>4. \A i \in DOMAIN h : \A j \in DOMAIN b : h[i].of = t /\ h[i].is = "shed" => i < b[j].id
  BY Zenon DEF BufOk
<1>. QED  BY Zenon DEF BufOk

LEMMA BufStep ==
  ASSUME Types, BufInv, [Next]_vars
  PROVE  BufInv'
<1>0. /\ buf \in [Sinks -> Seq(Snapshots)] /\ fate \in Seq(Fates)
      /\ Len(fate) \in Nat /\ DOMAIN fate = 1 .. Len(fate)
  BY DEF Types
<1>1. CASE UNCHANGED <<buf, fate>>  BY <1>1, Zenon DEF BufInv
<1>2. ASSUME NEW s \in Sinks, NEW shape \in Shapes,
             EmitTo(s, shape, Len(buf[s]) >= MAX_BUFFERED_SNAPSHOTS)
      PROVE  BufInv'
  <2>1. PICK n \in 0 .. Len(buf[s]), x \in Snapshots :
          /\ x.id = Len(fate) + 1
          /\ Len(buf[s]) < MAX_BUFFERED_SNAPSHOTS \/ Len(buf[s]) - n < Len(buf[s])
          /\ buf' = [buf EXCEPT ![s] = Append(SubSeq(buf[s], n + 1, Len(buf[s])), x)]
          /\ fate' = Append(Settle(SubSeq(buf[s], 1, n), "shed"),
                            [of |-> s, has |-> x.has, is |-> "buffered"])
          /\ SubSeq(buf[s], 1, n) \in Seq(Snapshots)
    BY <1>2, EmitFacts, Zenon
  <2>. DEFINE b == buf[s]
              L == Len(b)
              N == Len(fate)
              R == SubSeq(b, 1, n)
              g == Settle(R, "shed")
              e == [of |-> s, has |-> x.has, is |-> "buffered"]
              c == Append(SubSeq(b, n + 1, L), x)
  <2>2. buf' = [buf EXCEPT ![s] = c] /\ fate' = Append(g, e)  BY <2>1, Zenon
  <2>3. b \in Seq(Snapshots) /\ L \in Nat /\ DOMAIN b = 1 .. L  BY <1>0
  <2>4. /\ Len(c) = L - n + 1 /\ DOMAIN c = 1 .. L - n + 1
        /\ \A j \in 1 .. L - n : c[j] = b[n + j]
        /\ c[L - n + 1] = x
        /\ Range(R) = {b[j] : j \in 1 .. n}
    BY <2>3, CutFacts
  <2>5. /\ g \in Seq(Fates) /\ Len(g) = N
        /\ \A i \in 1 .. N :
             /\ g[i].of = fate[i].of /\ g[i].has = fate[i].has
             /\ (\E y \in Range(R) : y.id = i) => g[i].is = "shed"
             /\ ~(\E y \in Range(R) : y.id = i) => g[i].is = fate[i].is
    BY <1>0, <2>1, SettleFacts, Zenon
  <2>6. e \in Fates /\ e.of = s /\ e.has = x.has /\ e.is = "buffered"  BY DEF Fates, Snapshots
  <2>7. n \in 0 .. L /\ x.id = N + 1 /\ (L < MAX_BUFFERED_SNAPSHOTS \/ L - n < L)  BY <2>1, Zenon
  <2>8. BufOk(b, fate, s)  BY Zenon DEF BufInv
  <2>. HIDE DEF b, L, g, e, c, N, R
  <2>9. /\ Len(fate') = N + 1 /\ DOMAIN fate' = 1 .. N + 1
        /\ \A i \in 1 .. N : fate'[i] = g[i]
        /\ fate'[N + 1] = e
    <3>1. /\ fate' \in Seq(Fates) /\ Len(fate') = Len(g) + 1
          /\ \A i \in 1 .. Len(g) : fate'[i] = g[i]
          /\ fate'[Len(g) + 1] = e
      BY <2>2, <2>5, <2>6
    <3>. QED  BY <2>5, <3>1
  <2>10. ASSUME NEW i \in 1 .. N
         PROVE  /\ fate'[i].of = fate[i].of /\ fate'[i].has = fate[i].has
                /\ (\E j \in 1 .. n : b[j].id = i) => fate'[i].is = "shed"
                /\ ~(\E j \in 1 .. n : b[j].id = i) => fate'[i].is = fate[i].is
    <3>1. (\E y \in Range(R) : y.id = i) <=> \E j \in 1 .. n : b[j].id = i  BY <2>4, Zenon
    <3>. QED  BY <2>5, <2>9, <3>1, Zenon
  <2>11. DOMAIN fate = 1 .. N /\ N \in Nat  BY DEF N
  <2>12. BufOk(c, fate', s)
    <3>1. Len(b) = L  BY DEF L
    <3>2. /\ fate'[N + 1].of = s /\ fate'[N + 1].has = x.has /\ fate'[N + 1].is = "buffered"
      BY <2>6, <2>9, Zenon
    <3>3. c[L - n + 1] = x /\ x.id = N + 1  BY <2>4, <2>7
    <3>4. Shifted(N, L, n, x, fate, fate', b, c)
      BY <2>3, <2>4, <2>7, <2>9, <2>10, <2>11, <3>1, <3>2, <3>3, Zenon DEF Shifted
    <3>. QED  BY <2>3, <2>7, <2>8, <2>11, <3>2, <3>4, ShiftKeeps, Zenon
  <2>13. ASSUME NEW t \in Sinks \ {s} PROVE BufOk(buf[t], fate', t)
    <3>1. BufOk(buf[t], fate, t)  BY DEF BufInv
    <3>2. \A j \in 1 .. n : b[j].id \in DOMAIN fate /\ fate[b[j].id].of = s
      <4>1. \A j \in 1 .. n : j \in DOMAIN b  BY <2>3, <2>7
      <4>. QED  BY <2>8, <4>1, Zenon DEF BufOk
    <3>3. \A i \in DOMAIN fate : fate[i].of = t =>
             fate'[i].of = t /\ fate'[i].has = fate[i].has /\ fate'[i].is = fate[i].is
      BY <2>10, <2>11, <3>2
    <3>4. \A i \in DOMAIN fate : i \in DOMAIN fate'  BY <2>9, <2>11
    <3>5. \A i \in DOMAIN fate' : fate'[i].of = t => i \in DOMAIN fate /\ fate[i].of = t
      <4>1. fate'[N + 1].of # t  BY <2>6, <2>9, Zenon
      <4>2. \A i \in DOMAIN fate' : i = N + 1 \/ i \in 1 .. N  BY <2>9, <2>11
      <4>. QED  BY <2>10, <2>11, <4>1, <4>2, Zenon
    <3>. QED  BY <3>1, <3>3, <3>4, <3>5, OthersKeep, Zenon
  <2>14. ASSUME NEW t \in Sinks PROVE BufOk(buf'[t], fate', t)
    <3>. CASE t = s
      <4>1. buf'[t] = c  BY <1>0, <2>2
      <4>. QED  BY <2>12, <4>1
    <3>. CASE t # s
      <4>1. buf'[t] = buf[t]  BY <2>2
      <4>. QED  BY <2>13, <4>1
    <3>. QED  OBVIOUS
  <2>. QED  BY <2>14, Zenon DEF BufInv
<1>3. ASSUME NEW s \in Sinks, NEW what \in {"lost", "flushed"},
             buf' = [buf EXCEPT ![s] = <<>>], fate' = Settle(buf[s], what)
      PROVE  BufInv'
  <2>1. buf[s] \in Seq(Snapshots)  BY <1>0
  <2>2. /\ DOMAIN fate' = DOMAIN fate
        /\ \A i \in DOMAIN fate :
              /\ fate'[i].of = fate[i].of /\ fate'[i].has = fate[i].has
              /\ (\E x \in Range(buf[s]) : x.id = i) => fate'[i].is = what
              /\ ~(\E x \in Range(buf[s]) : x.id = i) => fate'[i].is = fate[i].is
    BY <1>3, <2>1, SettleFacts
  <2>3. BufOk(buf[s], fate, s)  BY DEF BufInv
  <2>4. ASSUME NEW i \in DOMAIN fate
        PROVE  (\E x \in Range(buf[s]) : x.id = i) <=> fate[i].of = s /\ fate[i].is = "buffered"
    <3>1. (\E x \in Range(buf[s]) : x.id = i) <=> \E j \in DOMAIN buf[s] : buf[s][j].id = i
      BY Zenon DEF Range
    <3>2. ASSUME NEW j \in DOMAIN buf[s], buf[s][j].id = i PROVE fate[i].of = s /\ fate[i].is = "buffered"
      BY <2>3, <3>2 DEF BufOk
    <3>3. fate[i].of = s /\ fate[i].is = "buffered" => \E j \in DOMAIN buf[s] : buf[s][j].id = i
      BY <2>3 DEF BufOk
    <3>. QED  BY <3>1, <3>2, <3>3, Zenon
  <2>5. BufOk(<<>>, fate', s)
    <3>1. DOMAIN <<>> = {} /\ Len(<<>>) = 0  OBVIOUS
    <3>2. 0 <= MAX_BUFFERED_SNAPSHOTS  BY LeafAssumption
    <3>3. what # "buffered"  OBVIOUS
    <3>4. ASSUME NEW i \in DOMAIN fate' PROVE ~(fate'[i].of = s /\ fate'[i].is = "buffered")
      <4>1. i \in DOMAIN fate  BY <2>2
      <4>. CASE \E x \in Range(buf[s]) : x.id = i
        <5>1. fate'[i].is = what  BY <2>2, Zenon
        <5>. QED  BY <5>1
      <4>. CASE ~(\E x \in Range(buf[s]) : x.id = i)
        <5>1. fate'[i].is = fate[i].is /\ fate'[i].of = fate[i].of  BY <2>2, Zenon
        <5>2. ~(fate[i].of = s /\ fate[i].is = "buffered")  BY <2>4, <4>1, Zenon
        <5>. QED  BY <5>1, <5>2
      <4>. QED  OBVIOUS
    <3>. QED  BY <3>2, <3>4 DEF BufOk
  <2>6. ASSUME NEW t \in Sinks \ {s} PROVE BufOk(buf[t], fate', t)
    <3>1. BufOk(buf[t], fate, t) /\ t # s  BY DEF BufInv
    <3>2. \A i \in DOMAIN fate : fate[i].of = t =>
             fate'[i].of = t /\ fate'[i].has = fate[i].has /\ fate'[i].is = fate[i].is
      <4>1. SUFFICES ASSUME NEW i \in DOMAIN fate, fate[i].of = t
                     PROVE  fate'[i].of = t /\ fate'[i].has = fate[i].has /\ fate'[i].is = fate[i].is
        OBVIOUS
      <4>2. ~(\E x \in Range(buf[s]) : x.id = i)  BY <2>4, <4>1, Zenon
      <4>. QED  BY <2>2, <4>1, <4>2, Zenon
    <3>3. \A i \in DOMAIN fate' : fate'[i].of = t => i \in DOMAIN fate /\ fate[i].of = t
      BY <2>2
    <3>. QED  BY <2>2, <3>1, <3>2, <3>3, OthersKeep, Zenon
  <2>7. buf'[s] = <<>> /\ \A t \in Sinks \ {s} : buf'[t] = buf[t]  BY <1>0, <1>3
  <2>8. \A t \in Sinks : BufOk(buf'[t], fate', t)  BY <2>5, <2>6, <2>7, Zenon
  <2>. QED  BY <2>8, Zenon DEF BufInv
<1>4. ASSUME NEW ps, Die(ps) PROVE BufInv'
  <2>1. /\ DOMAIN fate' = DOMAIN fate
        /\ \A i \in DOMAIN fate :
              /\ fate'[i].of = fate[i].of /\ fate'[i].has = fate[i].has
              /\ (proc[fate[i].of] \in ps /\ fate[i].is = "buffered") => fate'[i].is = "died"
              /\ ~(proc[fate[i].of] \in ps /\ fate[i].is = "buffered") => fate'[i].is = fate[i].is
    BY <1>4, DieFacts
  <2>2. ASSUME NEW t \in Sinks PROVE BufOk(buf'[t], fate', t)
    <3>1. BufOk(buf[t], fate, t)  BY DEF BufInv
    <3>. CASE proc[t] \in ps
      <4>1. buf'[t] = <<>>  BY <1>4, DieGoes
      <4>2. DOMAIN <<>> = {} /\ Len(<<>>) = 0  OBVIOUS
      <4>3. 0 <= MAX_BUFFERED_SNAPSHOTS  BY LeafAssumption
      <4>4. \A i \in DOMAIN fate' : ~(fate'[i].of = t /\ fate'[i].is = "buffered")
        BY <2>1
      <4>. QED  BY <4>1, <4>3, <4>4 DEF BufOk
    <3>. CASE proc[t] \notin ps
      <4>1. buf'[t] = buf[t]  BY <1>4, DieGoes
      <4>2. \A i \in DOMAIN fate : fate[i].of = t =>
               fate'[i].of = t /\ fate'[i].has = fate[i].has /\ fate'[i].is = fate[i].is
        BY <2>1
      <4>4. \A i \in DOMAIN fate' : fate'[i].of = t => i \in DOMAIN fate /\ fate[i].of = t
        BY <2>1
      <4>3. BufOk(buf[t], fate', t)  BY <2>1, <3>1, OthersKeep, Zenon
      <4>. QED  BY <4>1, <4>3
    <3>. QED  OBVIOUS
  <2>. QED  BY <2>2, Zenon DEF BufInv
<1>. QED  BY <1>1, <1>2, <1>3, <1>4, BufSteps

LEMMA Keeping == Types /\ BufInv => BufferKeepsTheRest
<1>1. SUFFICES ASSUME Types, BufInv, NEW s \in Sinks
               PROVE  /\ {x.id : x \in Range(buf[s])} = Waiting(s)
                      /\ Len(buf[s]) <= MAX_BUFFERED_SNAPSHOTS
                      /\ \A j, k \in DOMAIN buf[s] : j < k => buf[s][j].id < buf[s][k].id
                      /\ \A i \in DOMAIN fate :
                           fate[i].of = s /\ fate[i].is = "shed" => \A j \in Waiting(s) : i < j
  BY DEF BufferKeepsTheRest
<1>2. BufOk(buf[s], fate, s)  BY <1>1 DEF BufInv
<1>3. ASSUME NEW i PROVE i \in Waiting(s) <=> \E j \in DOMAIN buf[s] : buf[s][j].id = i
  <2>1. ASSUME NEW j \in DOMAIN buf[s], buf[s][j].id = i PROVE i \in Waiting(s)
    BY <1>2, <2>1 DEF BufOk, Waiting
  <2>2. ASSUME i \in Waiting(s) PROVE \E j \in DOMAIN buf[s] : buf[s][j].id = i
    BY <1>2, <2>2, OpenIsBuffered DEF Waiting
  <2>. QED  BY <2>1, <2>2
<1>4. {x.id : x \in Range(buf[s])} = Waiting(s)  BY <1>3 DEF Range
<1>5. /\ Len(buf[s]) <= MAX_BUFFERED_SNAPSHOTS
      /\ \A j, k \in DOMAIN buf[s] : j < k => buf[s][j].id < buf[s][k].id
  BY <1>2, Zenon DEF BufOk
<1>6. ASSUME NEW i \in DOMAIN fate, fate[i].of = s, fate[i].is = "shed", NEW k \in Waiting(s)
      PROVE  i < k
  <2>1. PICK j \in DOMAIN buf[s] : buf[s][j].id = k  BY <1>3
  <2>2. i < buf[s][j].id  BY <1>2, <1>6, Zenon DEF BufOk
  <2>. QED  BY <2>1, <2>2
<1>. QED  BY <1>4, <1>5, <1>6

-----------------------------------------------------------------------------
(* Whose step it was                                                       *)

OwnStep(t) ==
  \/ emit_snapshot(t) \/ final_flush(t) \/ acquire_leaf_lock(t) \/ sweep_staging(t) \/ write(t)
  \/ fsync_staged(t) \/ rename(t) \/ fsync_leaf(t) \/ append_entry(t) \/ fsync_index(t)
  \/ clear_buffer(t) \/ IoError(t) \/ \E ps : Die(ps) /\ proc[t] \in ps

\* The flush of a sink changes only by a step of its worker, or with its process.
LEMMA OwnSteps ==
  ASSUME Types, PlaceInv, [Next]_vars, NEW t \in Sinks, job'[t] # job[t]
  PROVE  OwnStep(t)
<1>0. job \in [Sinks -> Jobs]  BY DEF Types
<1>1. ASSUME NEW s \in Sinks, NEW v, s # t, job' = [job EXCEPT ![s] = v] PROVE FALSE
  BY <1>1
<1>2. ASSUME NEW s \in Sinks, NEW at, s # t, Step(s, at) PROVE FALSE  BY <1>2 DEF Step
<1>3. ASSUME NEW s \in Sinks, s # t, Fail(s) PROVE FALSE  BY <1>3, FailFacts
<1>4. ASSUME NEW ps, Die(ps) PROVE proc[t] \in ps  BY <1>4, DieGoes
<1>5. ASSUME NEW s \in Sinks, write(s), s # t PROVE FALSE
  <2>. DEFINE to == Staged(s, TRUE).name
  <2>1. job' = [job EXCEPT ![s].at = "fsync", ![s].name = to]  BY <1>5, Zenon DEF write
  <2>. HIDE DEF to
  <2>. QED  BY <1>0, <1>5, <2>1
<1>6. ASSUME NEW s \in Sinks, rename(s), s # t PROVE FALSE
  <2>. DEFINE to == unique_path(files[LeafOf(s)], s, job[s].name[2])
  <2>1. Fail(s) \/ job' = [job EXCEPT ![s].at = "dirsync", ![s].name = to]
    BY <1>6, Zenon DEF rename
  <2>. HIDE DEF to
  <2>. QED  BY <1>0, <1>3, <1>6, <2>1
<1>7. ASSUME NEW s \in Sinks, fsync_index(s), s # t PROVE FALSE
  <2>. DEFINE n == NextLeaf(buf[s], job[s].leaf + 1)
              at == IF n > Len(Datatypes) THEN "clear" ELSE "lock"
  <2>1. job' = [job EXCEPT ![s].leaf = n, ![s].at = at]  BY <1>7, Zenon DEF fsync_index
  <2>. HIDE DEF n, at
  <2>. QED  BY <1>0, <1>7, <2>1
<1>8. ASSUME NEW s \in Sinks, s # t,
             \/ emit_snapshot(s) \/ final_flush(s) \/ acquire_leaf_lock(s) \/ sweep_staging(s)
             \/ fsync_staged(s) \/ fsync_leaf(s) \/ append_entry(s) \/ clear_buffer(s) \/ IoError(s)
      PROVE  FALSE
  BY <1>1, <1>2, <1>3, <1>8, Zenon
  DEF emit_snapshot, EmitTo, final_flush, acquire_leaf_lock, sweep_staging, fsync_staged, fsync_leaf,
      append_entry, clear_buffer, IoError
<1>9. ASSUME NEW s \in Sinks, Kill(s) PROVE OwnStep(t)  BY <1>4, <1>9, Zenon DEF Kill, OwnStep
<1>10. ASSUME PowerLoss PROVE OwnStep(t)  BY <1>4, <1>10, Zenon DEF PowerLoss, OwnStep
<1>11. ASSUME UNCHANGED vars PROVE FALSE  BY <1>11, Zenon DEF vars, mem
<1>. QED  BY <1>5, <1>6, <1>7, <1>8, <1>9, <1>10, <1>11, Zenon DEF Next, OwnStep

\* Which call a flush under way has made is told by where it stands.
LEMMA MoveSteps ==
  ASSUME Types, PlaceInv, [Next]_vars, NEW t \in Sinks, job'[t] # job[t], ~Rests(t)
  PROVE  /\ job[t].at = "lock" => acquire_leaf_lock(t) /\ ~Fail(t)
         /\ job[t].at = "sweep" => sweep_staging(t)
         /\ job[t].at = "write" => write(t)
         /\ job[t].at = "fsync" => fsync_staged(t) /\ ~Fail(t)
         /\ job[t].at = "rename" => rename(t) /\ ~Fail(t)
         /\ job[t].at = "dirsync" => fsync_leaf(t)
<1>1. OwnStep(t)  BY OwnSteps
<1>2. ~Fail(t)  BY FailFacts DEF Rests
<1>3. ASSUME NEW ps, Die(ps), proc[t] \in ps PROVE FALSE
  <2>1. job'[t] = Idle  BY <1>3, DieGoes
  <2>. QED  BY <2>1 DEF Rests, Idle
<1>4. ~IoError(t)  BY <1>2, Zenon DEF IoError
<1>5. /\ emit_snapshot(t) => job[t].at = "idle"
      /\ final_flush(t) => job[t].at = "idle"
      /\ acquire_leaf_lock(t) => job[t].at = "lock"
      /\ sweep_staging(t) => job[t].at = "sweep"
      /\ write(t) => job[t].at = "write"
      /\ fsync_staged(t) => job[t].at = "fsync"
  BY Zenon DEF emit_snapshot, final_flush, acquire_leaf_lock, sweep_staging, write, fsync_staged
<1>6. /\ rename(t) => job[t].at = "rename"
      /\ fsync_leaf(t) => job[t].at = "dirsync"
      /\ append_entry(t) => job[t].at = "append"
      /\ fsync_index(t) => job[t].at = "appendsync"
      /\ clear_buffer(t) => job[t].at = "clear"
  BY Zenon DEF rename, fsync_leaf, append_entry, fsync_index, clear_buffer
<1>7. \/ emit_snapshot(t) \/ final_flush(t) \/ acquire_leaf_lock(t) \/ sweep_staging(t) \/ write(t)
      \/ fsync_staged(t) \/ rename(t) \/ fsync_leaf(t) \/ append_entry(t) \/ fsync_index(t)
      \/ clear_buffer(t)
  BY <1>1, <1>3, <1>4, Zenon DEF OwnStep
<1>. QED  BY <1>2, <1>5, <1>6, <1>7

-----------------------------------------------------------------------------
(* The leaf lock                                                           *)

LEMMA ProcFacts == Types => \A s \in Sinks : proc[s] \in Processes
BY DEF Types, Processes

LEMMA LockStep ==
  ASSUME Counting, Types, PlaceInv, LockInv, [Next]_vars
  PROVE  LockInv'
<1>0. /\ held \in [Processes -> SUBSET Leaves] /\ \A s \in Sinks : proc[s] \in Processes
  BY ProcFacts DEF Types
<1>1. proc' = proc  BY MemStep
<1>2. \/ held' = held
      \/ \E s \in Sinks : /\ ~(\E p \in Processes \ {proc[s]} : LeafOf(s) \in held[p])
                          /\ held' = [held EXCEPT ![proc[s]] = @ \cup {LeafOf(s)}]
      \/ \E ps : Die(ps)
  <2>1. ASSUME NEW s \in Sinks, acquire_leaf_lock(s)
        PROVE  \/ held' = held
               \/ /\ ~(\E p \in Processes \ {proc[s]} : LeafOf(s) \in held[p])
                  /\ held' = [held EXCEPT ![proc[s]] = @ \cup {LeafOf(s)}]
    BY <2>1, Zenon DEF acquire_leaf_lock
  <2>2. ASSUME NEW s \in Sinks,
               \/ emit_snapshot(s) \/ final_flush(s) \/ sweep_staging(s)
               \/ write(s) \/ fsync_staged(s) \/ rename(s)
        PROVE  held' = held
    BY <2>2, Zenon DEF emit_snapshot, final_flush, sweep_staging, write, fsync_staged, rename
  <2>3. ASSUME NEW s \in Sinks,
               \/ fsync_leaf(s) \/ append_entry(s) \/ fsync_index(s) \/ clear_buffer(s) \/ IoError(s)
        PROVE  held' = held
    BY <2>3, Zenon DEF fsync_leaf, append_entry, fsync_index, clear_buffer, IoError
  <2>. QED  BY <2>1, <2>2, <2>3, Zenon DEF Next, Kill, PowerLoss, vars
<1>3. ASSUME NEW ps, Die(ps), NEW p \in Processes
      PROVE  held'[p] = IF p \in ps THEN {} ELSE held[p]
  <2>1. held' = [q \in Processes |-> IF q \in ps THEN {} ELSE held[q]]  BY <1>3, Zenon DEF Die
  <2>. QED  BY <2>1
<1>4. \A p, q \in Processes : p # q => held'[p] \cap held'[q] = {}
  <2>0. \A p, q \in Processes : p # q => held[p] \cap held[q] = {}  BY Zenon DEF LockInv
  <2>. CASE held' = held  BY <2>0, Zenon
  <2>2. ASSUME NEW s \in Sinks, ~(\E p \in Processes \ {proc[s]} : LeafOf(s) \in held[p]),
               held' = [held EXCEPT ![proc[s]] = @ \cup {LeafOf(s)}]
        PROVE  \A p, q \in Processes : p # q => held'[p] \cap held'[q] = {}
    <3>1. /\ held'[proc[s]] = held[proc[s]] \cup {LeafOf(s)}
          /\ \A p \in Processes \ {proc[s]} : held'[p] = held[p] /\ LeafOf(s) \notin held'[p]
      BY <1>0, <2>2
    <3>. QED  BY <2>0, <3>1
  <2>3. ASSUME NEW ps, Die(ps) PROVE \A p, q \in Processes : p # q => held'[p] \cap held'[q] = {}
    <3>1. \A p \in Processes : held'[p] \subseteq held[p]  BY <1>3, <2>3
    <3>. QED  BY <2>0, <3>1
  <2>. QED  BY <1>2, <2>2, <2>3
<1>5. ASSUME NEW t \in Sinks, job'[t].at \in Locked
      PROVE  Datatypes[job'[t].leaf] \in held'[proc[t]]
  <2>1. ~Rests(t) /\ ~Begins(t)
    <3>1. ASSUME Begins(t) PROVE FALSE
      <4>1. PICK final \in BOOLEAN : job'[t] = Begin(buf'[t], final)  BY <3>1, Zenon DEF Begins
      <4>2. job'[t].at \in {"idle", "gone", "lock", "clear"}  BY <4>1, BeginFacts
      <4>. QED  BY <1>5, <4>2 DEF Locked, Working
    <3>. QED  BY <1>5, <3>1 DEF Rests, Locked, Working
  <2>2. ~Advances(t)  BY <1>5 DEF Advances, Locked, Working
  <2>3. /\ job'[t].leaf = job[t].leaf
        /\ job[t].at \in Locked \/ (job[t].at = "lock" /\ job'[t] # job[t])
    <3>. CASE Stays(t)  BY <1>5 DEF Stays
    <3>. CASE Moves(t)  BY DEF Moves, Order, Locked, Working
    <3>. QED  BY <2>1, <2>2, JobSteps DEF Goes
  <2>. CASE job[t].at \in Locked
    <3>1. Datatypes[job[t].leaf] \in held[proc[t]]  BY Zenon DEF LockInv, LeafOf
    <3>. CASE held' = held  BY <2>3, <3>1
    <3>3. ASSUME NEW s \in Sinks, held' = [held EXCEPT ![proc[s]] = @ \cup {LeafOf(s)}]
          PROVE  Datatypes[job'[t].leaf] \in held'[proc[t]]
      BY <2>3, <3>1, <3>3
    <3>4. ASSUME NEW ps, Die(ps) PROVE Datatypes[job'[t].leaf] \in held'[proc[t]]
      <4>1. proc[t] \notin ps
        <5>1. SUFFICES ASSUME proc[t] \in ps PROVE FALSE  OBVIOUS
        <5>2. job'[t] = Idle  BY <3>4, <5>1, DieGoes
        <5>. QED  BY <2>1, <5>2 DEF Rests, Idle
      <4>2. held'[proc[t]] = held[proc[t]]  BY <1>0, <1>3, <3>4, <4>1
      <4>. QED  BY <2>3, <3>1, <4>2
    <3>. QED  BY <1>2, <3>3, <3>4
  <2>. CASE job[t].at = "lock" /\ job'[t] # job[t]
    <3>1. acquire_leaf_lock(t) /\ ~Fail(t)  BY <2>1, MoveSteps
    <3>2. held' = [held EXCEPT ![proc[t]] = @ \cup {LeafOf(t)}]
      BY <3>1, Zenon DEF acquire_leaf_lock
    <3>. QED  BY <1>0, <2>3, <3>2 DEF LeafOf
  <2>. QED  BY <2>3
<1>. QED  BY <1>1, <1>4, <1>5, Zenon DEF LockInv, LeafOf

-----------------------------------------------------------------------------
(* The staged file                                                         *)

\* While the flush of t waits, no step adds a staged file of t.
LEMMA OthersStage ==
  ASSUME Counting, Types, PlaceInv, [Next]_vars, NEW t \in Sinks,
         job'[t] = job[t], job[t].at \in {"write", "fsync", "rename"},
         NEW d \in Leaves, NEW h \in staging'[d], h.name[1] = t
  PROVE  h \in staging[d]
<1>0. staging \in [Leaves -> SUBSET Files]  BY DEF Types
<1>1. CASE staging' = staging  BY <1>1
<1>2. ASSUME NEW s \in Sinks, sweep_staging(s) PROVE h \in staging[d]
  <2>1. staging' = [staging EXCEPT ![LeafOf(s)] = {}]  BY <1>2, Zenon DEF sweep_staging
  <2>. QED  BY <2>1
<1>3. ASSUME NEW s \in Sinks, NEW whole \in BOOLEAN, job[s].at = "write", job'[s].at # "write",
             staging' = [staging EXCEPT ![LeafOf(s)] = @ \cup {Staged(s, whole)}]
      PROVE  h \in staging[d]
  <2>. DEFINE e == Staged(s, whole)
  <2>1. s # t  BY <1>3
  <2>2. e.name[1] = s  BY <1>3, StagedFacts DEF Working
  <2>. HIDE DEF e
  <2>3. staging' = [staging EXCEPT ![LeafOf(s)] = @ \cup {e}]  BY <1>3 DEF e
  <2>4. h \in staging[d] \/ h = e  BY <2>3
  <2>. QED  BY <2>1, <2>2, <2>4
<1>4. ASSUME NEW s \in Sinks, fsync_staged(s), MyStaged(s) # {} PROVE h \in staging[d]
  <2>1. /\ job[s].at = "fsync" /\ LeafOf(s) \in Leaves /\ job'[s].at = "rename"
        /\ \A l \in Leaves \ {LeafOf(s)} : staging'[l] = staging[l]
        /\ \A g \in staging'[LeafOf(s)] :
             \/ g \in staging[LeafOf(s)] /\ g.name # job[s].name
             \/ \E f \in MyStaged(s) : g = [f EXCEPT !.synced = TRUE]
    BY <1>4, SyncedFacts
  <2>2. s # t  BY <2>1
  <2>. CASE d # LeafOf(s)  BY <2>1
  <2>4. ASSUME d = LeafOf(s), NEW f \in MyStaged(s), h = [f EXCEPT !.synced = TRUE] PROVE FALSE
    <3>1. f \in Files /\ f.name = job[s].name  BY <1>0, <2>1 DEF MyStaged
    <3>2. h.name = job[s].name  BY <2>4, <3>1 DEF Files
    <3>3. job[s].name[1] = s  BY <2>1 DEF PlaceInv, Locked, Working
    <3>. QED  BY <2>2, <3>2, <3>3
  <2>. QED  BY <2>1, <2>4
<1>5. ASSUME NEW s \in Sinks, rename(s), MyStaged(s) # {} PROVE h \in staging[d]
  <2>1. LeafOf(s) \in Leaves /\ staging' = [staging EXCEPT ![LeafOf(s)] = @ \ MyStaged(s)]
    BY <1>5, MovedFacts
  <2>. QED  BY <2>1
<1>. QED  BY <1>2, <1>3, <1>4, <1>5, StagingSteps

StageOk(t) ==
  /\ job[t].at = "write" => Mine(t) = {}
  /\ job[t].at \in {"fsync", "rename"} =>
       /\ \A f \in Mine(t) : /\ f.name = job[t].name /\ f.whole /\ f.rows = Batch(t)
                             /\ job[t].at = "rename" => f.synced
       /\ \A f, g \in Mine(t) : f = g

LEMMA StageStep ==
  ASSUME Counting, Types, PlaceInv, StageInv, [Next]_vars
  PROVE  StageInv'
<1>. SUFFICES ASSUME NEW t \in Sinks PROVE StageOk(t)'
  BY Zenon DEF StageInv, StageOk
<1>0. StageOk(t) /\ staging \in [Leaves -> SUBSET Files]  BY Zenon DEF StageInv, StageOk, Types
<1>1. CASE job'[t] = job[t] /\ job[t].at \in {"write", "fsync", "rename"}
  <2>1. LeafOf(t)' = LeafOf(t) /\ LeafOf(t) \in Leaves  BY <1>1, LeafOfFacts DEF LeafOf, Working
  <2>2. buf'[t] = buf[t]
    <3>1. ~Rests(t) /\ ~Begins(t) /\ ~Advances(t)  BY <1>1 DEF Rests, Begins, Advances
    <3>2. Stays(t) \/ Moves(t)  BY <3>1, JobSteps DEF Goes
    <3>. QED  BY <3>2 DEF Stays, Moves
  <2>3. Batch(t)' = Batch(t)  BY <2>1, <2>2 DEF Batch
  <2>4. \A h \in Mine(t)' : h \in Mine(t)
    <3>1. SUFFICES ASSUME NEW h \in staging'[LeafOf(t)], h.name[1] = t PROVE h \in staging[LeafOf(t)]
      BY <2>1 DEF Mine
    <3>. QED  BY <1>1, <2>1, <3>1, OthersStage
  <2>. QED  BY <1>0, <1>1, <2>3, <2>4, Zenon DEF StageOk
<1>2. CASE job'[t] # job[t] /\ Moves(t) /\ job[t].at = "sweep"
  <2>1. job'[t].at = "write" /\ job'[t].leaf = job[t].leaf  BY <1>2 DEF Moves, Order
  <2>2. sweep_staging(t)
    <3>1. ~Rests(t)  BY <2>1 DEF Rests
    <3>. QED  BY <1>2, <3>1, MoveSteps
  <2>3. staging' = [staging EXCEPT ![LeafOf(t)] = {}]  BY <2>2, Zenon DEF sweep_staging
  <2>4. LeafOf(t)' = LeafOf(t) /\ LeafOf(t) \in Leaves  BY <1>2, <2>1, LeafOfFacts DEF LeafOf, Working
  <2>5. Mine(t)' = {}  BY <1>0, <2>3, <2>4 DEF Mine
  <2>. QED  BY <2>5 DEF StageOk
<1>3. CASE job'[t] # job[t] /\ Moves(t) /\ job[t].at = "write"
  <2>. DEFINE e == Staged(t, TRUE)
  <2>1. job'[t].at = "fsync" /\ job'[t].leaf = job[t].leaf /\ buf'[t] = buf[t]
    BY <1>3 DEF Moves, Order
  <2>2. write(t)
    <3>1. ~Rests(t)  BY <2>1 DEF Rests
    <3>. QED  BY <1>3, <3>1, MoveSteps
  <2>3. staging' = [staging EXCEPT ![LeafOf(t)] = @ \cup {e}]  BY <2>2, Zenon DEF write
  <2>4. job'[t].name = e.name
    <3>1. job' = [job EXCEPT ![t].at = "fsync", ![t].name = e.name]  BY <2>2, Zenon DEF write
    <3>2. job \in [Sinks -> Jobs]  BY DEF Types
    <3>. HIDE DEF e
    <3>3. job'[t] = [job[t] EXCEPT !.at = "fsync", !.name = e.name]  BY <3>1, <3>2
    <3>. QED  BY <3>3 DEF Jobs
  <2>5. e \in Files /\ e.rows = Batch(t) /\ e.whole = TRUE
    BY <1>3, StagedFacts, Zenon DEF Working
  <2>. HIDE DEF e
  <2>6. LeafOf(t)' = LeafOf(t) /\ LeafOf(t) \in Leaves  BY <1>3, <2>1, LeafOfFacts DEF LeafOf, Working
  <2>7. Batch(t)' = Batch(t)  BY <2>1, <2>6 DEF Batch
  <2>8. Mine(t) = {}  BY <1>0, <1>3 DEF StageOk
  <2>9. \A h \in Mine(t)' : h = e
    <3>1. staging'[LeafOf(t)] = staging[LeafOf(t)] \cup {e}  BY <1>0, <2>3, <2>6
    <3>. QED  BY <2>6, <2>8, <3>1 DEF Mine
  <2>. QED  BY <2>1, <2>4, <2>5, <2>7, <2>9 DEF StageOk
<1>4. CASE job'[t] # job[t] /\ Moves(t) /\ job[t].at = "fsync"
  <2>1. /\ job'[t].at = "rename" /\ job'[t].leaf = job[t].leaf /\ buf'[t] = buf[t]
        /\ job'[t].name = job[t].name
    BY <1>4 DEF Moves, Order
  <2>2. fsync_staged(t) /\ MyStaged(t) # {}
    <3>1. ~Rests(t)  BY <2>1 DEF Rests
    <3>2. fsync_staged(t) /\ ~Fail(t)  BY <1>4, <3>1, MoveSteps
    <3>. QED  BY <3>2, Zenon DEF fsync_staged
  <2>3. \A h \in staging'[LeafOf(t)] :
          \/ h \in staging[LeafOf(t)] /\ h.name # job[t].name
          \/ \E f \in MyStaged(t) : h = [f EXCEPT !.synced = TRUE]
    BY <2>2, SyncedFacts
  <2>4. LeafOf(t)' = LeafOf(t) /\ LeafOf(t) \in Leaves  BY <1>4, <2>1, LeafOfFacts DEF LeafOf, Working
  <2>5. Batch(t)' = Batch(t)  BY <2>1, <2>4 DEF Batch
  <2>6. job[t].name[1] = t  BY <1>4 DEF PlaceInv, Locked, Working
  <2>7. MyStaged(t) \subseteq Mine(t)  BY <2>6 DEF MyStaged, Mine
  <2>8. /\ \A f \in Mine(t) : f.name = job[t].name /\ f.whole /\ f.rows = Batch(t)
        /\ \A f, g \in Mine(t) : f = g
    BY <1>0, <1>4, Zenon DEF StageOk
  <2>9. \A h \in Mine(t)' : \E f \in Mine(t) : h = [f EXCEPT !.synced = TRUE]
    <3>1. SUFFICES ASSUME NEW h \in staging'[LeafOf(t)], h.name[1] = t
                   PROVE  \E f \in Mine(t) : h = [f EXCEPT !.synced = TRUE]
      BY <2>4 DEF Mine
    <3>2. ~(h \in staging[LeafOf(t)] /\ h.name # job[t].name)  BY <2>8, <3>1 DEF Mine
    <3>. QED  BY <2>3, <2>7, <3>2
  <2>10. ASSUME NEW h \in Mine(t)'
         PROVE  h.name = job[t].name /\ h.whole /\ h.rows = Batch(t) /\ h.synced
    <3>1. PICK f \in Mine(t) : h = [f EXCEPT !.synced = TRUE]  BY <2>9
    <3>2. f \in Files  BY <1>0, <2>4 DEF Mine
    <3>3. h.name = f.name /\ h.whole = f.whole /\ h.rows = f.rows /\ h.synced = TRUE
      BY <3>1 DEF Files
    <3>4. f.name = job[t].name /\ f.whole /\ f.rows = Batch(t)  BY <2>8, Zenon
    <3>. QED  BY <3>3, <3>4, Zenon
  <2>11. \A h, g \in Mine(t)' : h = g  BY <2>8, <2>9, Zenon
  <2>. QED  BY <2>1, <2>5, <2>10, <2>11, Zenon DEF StageOk
<1>5. CASE job'[t].at \notin {"write", "fsync", "rename"}
  BY <1>5, Zenon DEF StageOk
<1>6. ASSUME job'[t] # job[t], job'[t].at \in {"write", "fsync", "rename"}
      PROVE  Moves(t) /\ job[t].at \in {"sweep", "write", "fsync"}
  <2>1. ~Rests(t) /\ ~Stays(t) /\ ~Advances(t)  BY <1>6 DEF Rests, Stays, Advances
  <2>2. ~Begins(t)
    <3>1. SUFFICES ASSUME Begins(t) PROVE FALSE  OBVIOUS
    <3>2. PICK final \in BOOLEAN : job'[t] = Begin(buf'[t], final)  BY <3>1, Zenon DEF Begins
    <3>3. job'[t].at \in {"idle", "gone", "lock", "clear"}  BY <3>2, BeginFacts
    <3>. QED  BY <1>6, <3>3
  <2>3. Moves(t)  BY <2>1, <2>2, JobSteps DEF Goes
  <2>. QED  BY <1>6, <2>3 DEF Moves, Order
<1>. QED  BY <1>1, <1>2, <1>3, <1>4, <1>5, <1>6

\* Whatever disturbs a staged file that a flush needs is a step of another sink of the
\* same process.
LEMMA SweepStep ==
  ASSUME Counting, Types, PlaceInv, LockInv, [Next]_vars, NEW s \in Sinks, Disturbed(s)
  PROVE  \E t \in Sinks \ {s} : proc[t] = proc[s] /\ job[t] # job'[t]
<1>0. staging \in [Leaves -> SUBSET Files] /\ \A t \in Sinks : proc[t] \in Processes
  BY ProcFacts DEF Types
<1>1. /\ job[s].at \in {"fsync", "rename"} /\ job'[s] = job[s]
      /\ ~ MyStaged(s) \subseteq staging'[LeafOf(s)]
  BY Zenon DEF Disturbed, Needed
<1>2. LeafOf(s) \in Leaves /\ job[s].name[1] = s /\ job[s].at \in Locked
  BY <1>1, LeafOfFacts, Zenon DEF PlaceInv, Working, Locked
<1>3. PICK f \in staging[LeafOf(s)] : f.name = job[s].name /\ f \notin staging'[LeafOf(s)]
  BY <1>1, Zenon DEF MyStaged
<1>4. staging' # staging  BY <1>3
<1>5. ASSUME NEW t \in Sinks, NEW whole \in BOOLEAN,
             staging' = [staging EXCEPT ![LeafOf(t)] = @ \cup {Staged(t, whole)}]
      PROVE  FALSE
  BY <1>3, <1>5
<1>6. ASSUME NEW t \in Sinks, fsync_staged(t), MyStaged(t) # {} PROVE FALSE
  <2>1. /\ job[t].at = "fsync" /\ LeafOf(t) \in Leaves /\ job'[t].at = "rename"
        /\ \A d \in Leaves \ {LeafOf(t)} : staging'[d] = staging[d]
        /\ \A g \in staging[LeafOf(t)] : g.name # job[t].name => g \in staging'[LeafOf(t)]
    BY <1>6, SyncedFacts
  <2>2. t # s  BY <1>1, <2>1
  <2>3. job[t].name[1] = t  BY <2>1, Zenon DEF PlaceInv, Locked, Working
  <2>. QED  BY <1>2, <1>3, <2>1, <2>2, <2>3
<1>7. ASSUME NEW t \in Sinks, rename(t), MyStaged(t) # {} PROVE FALSE
  <2>1. /\ job[t].at = "rename" /\ LeafOf(t) \in Leaves /\ job'[t].at = "dirsync"
        /\ staging' = [staging EXCEPT ![LeafOf(t)] = @ \ MyStaged(t)]
    BY <1>7, MovedFacts
  <2>2. t # s  BY <1>1, <2>1
  <2>3. job[t].name[1] = t  BY <2>1 DEF PlaceInv, Locked, Working
  <2>4. f \notin MyStaged(t)  BY <1>2, <1>3, <2>2, <2>3 DEF MyStaged
  <2>. QED  BY <1>3, <2>1, <2>4
<1>8. PICK t \in Sinks : sweep_staging(t)  BY <1>4, <1>5, <1>6, <1>7, StagingSteps
<1>9. /\ job[t].at = "sweep" /\ staging' = [staging EXCEPT ![LeafOf(t)] = {}]
      /\ Step(t, "write")
  BY <1>8, Zenon DEF sweep_staging
<1>10. LeafOf(t) = LeafOf(s)  BY <1>3, <1>9
<1>11. LeafOf(t) \in held[proc[t]] /\ LeafOf(s) \in held[proc[s]]
  <2>1. job[t].at \in Locked  BY <1>9 DEF Locked, Working
  <2>. QED  BY <1>2, <2>1, Zenon DEF LockInv
<1>12. proc[t] = proc[s]
  <2>1. \A p, q \in Processes : p # q => held[p] \cap held[q] = {}  BY Zenon DEF LockInv
  <2>. QED  BY <1>0, <1>10, <1>11, <2>1
<1>13. job'[t].at = "write"
  <2>1. job \in [Sinks -> Jobs]  BY DEF Types
  <2>. QED  BY <1>9, <2>1 DEF Step, Jobs
<1>14. t # s /\ job[t] # job'[t]  BY <1>1, <1>9, <1>13
<1>. QED  BY <1>12, <1>14

=============================================================================

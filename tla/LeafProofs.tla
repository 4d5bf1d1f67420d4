----------------------------- MODULE LeafProofs -----------------------------
(***************************************************************************)
(* What Leaf.cfg checks for two sinks and two leaves, for any sinks spread *)
(* over any processes, any leaves, any buffer cap, and any number of       *)
(* failing calls, kills and power losses.                                  *)
(*                                                                         *)
(* The argument: a sink has one staged file, with its batch, from its      *)
(* write to its rename (StageInv, in LeafSteps).  Only synced files are    *)
(* renamed, and only linked ones are listed or reported (FileInv), so a    *)
(* power loss takes nothing that either promise covers.                    *)
(***************************************************************************)
EXTENDS LeafSteps

USE SMTT(20), ZenonT(20)

-----------------------------------------------------------------------------
(* What the leaves hold                                                    *)

\* the positions of the leaves that the flush of s has written and synced
Done(s) ==
  IF job[s].at \in Working \cup {"clear"} THEN 1 .. job[s].leaf - 1 ELSE {}

Kept(d, i) == \E f \in files[d] : f.linked /\ i \in f.rows

FileInv ==
  /\ \A d \in Leaves : \A f \in files[d] : f.whole /\ f.synced
  /\ \A s \in Sinks : \A j \in Done(s) :
       \A x \in Rows(buf[s], Datatypes[j]) : Kept(Datatypes[j], x.id)
  /\ \A s \in Sinks : job[s].at \in {"dirsync", "append", "appendsync"} =>
       \E f \in files[LeafOf(s)] :
          /\ f.name = job[s].name /\ Batch(s) \subseteq f.rows
          /\ job[s].at # "dirsync" => f.linked
  /\ \A i \in DOMAIN fate : fate[i].is = "flushed" => \A d \in fate[i].has : Kept(d, i)
  /\ \A d \in Leaves :
       /\ index[d].synced <= Len(index[d].pieces)
       /\ \A j \in DOMAIN index[d].pieces :
            \E f \in files[d] : f.linked /\ f.name = index[d].pieces[j].name

Copies(s, d, i) == {f \in files[d] : f.name[1] = s /\ i \in f.rows}

\* the flush of s has put its batch in leaf d
Placed(s, d) ==
  \E j \in DOMAIN Datatypes :
    /\ Datatypes[j] = d
    /\ \/ j \in Done(s)
       \/ j = job[s].leaf /\ job[s].at \in {"dirsync", "append", "appendsync"}

CopyInv ==
  /\ \A d \in Leaves : \A f \in files[d] : \A i \in f.rows :
       i \in DOMAIN fate /\ fate[i].of = f.name[1]
  /\ \A s \in Sinks, d \in Leaves : \A i \in DOMAIN fate :
       Cardinality(Copies(s, d, i)) <=
         failures[s] + IF fate[i].is = "buffered" /\ ~Placed(s, d) THEN 0 ELSE 1

\* Positions below a cursor that is at a leaf, or just past the last, are leaves.
LEMMA BeforeEnd ==
  ASSUME NEW m \in Nat, NEW l, l \in 1 .. m \/ l = m + 1, NEW j \in 1 .. l - 1
  PROVE  j \in 1 .. m
OBVIOUS

\* A position up to a cursor comes before any later position of the cursor.
LEMMA BeforeNext ==
  ASSUME NEW m \in Nat, NEW l \in Nat, NEW n \in l + 1 .. m + 1, NEW j \in 1 .. l
  PROVE  j \in 1 .. n - 1
OBVIOUS

-----------------------------------------------------------------------------
(* The files of a leaf                                                     *)

\* A file stays in its leaf with its name and rows, unless the power is lost
\* before the directory was fsynced; then no flush is under way any more.
LEMMA FilesKeep ==
  ASSUME Counting, Types, PlaceInv, [Next]_vars, NEW d \in Leaves, NEW f \in files[d],
         f.linked \/ \E t \in Sinks : job'[t].at # "idle"
  PROVE  \E h \in files'[d] : h.name = f.name /\ h.rows = f.rows /\ (f.linked => h.linked)
<1>. DEFINE Goal == \E h \in files'[d] : h.name = f.name /\ h.rows = f.rows /\ (f.linked => h.linked)
<1>0. files \in [Leaves -> SUBSET Files] /\ IsFiniteSet(files[d]) /\ job \in [Sinks -> Jobs]  BY DEF Types
<1>1. CASE f \in files'[d]  BY <1>1
<1>2. ASSUME NEW s \in Sinks, rename(s), MyStaged(s) # {} PROVE Goal
  <2>1. /\ LeafOf(s) \in Leaves
        /\ files' = [files EXCEPT ![LeafOf(s)] = @ \cup {[g EXCEPT !.name = job'[s].name] : g \in MyStaged(s)}]
    BY <1>2, MovedFacts
  <2>2. f \in files'[d]  BY <2>1
  <2>. QED  BY <2>2
<1>3. ASSUME NEW s \in Sinks, fsync_leaf(s) PROVE Goal
  <2>1. files' = [files EXCEPT ![LeafOf(s)] = {[g EXCEPT !.linked = TRUE] : g \in @}]
    BY <1>3, Zenon DEF fsync_leaf
  <2>. CASE LeafOf(s) = d
    <3>1. files'[d] = {[g EXCEPT !.linked = TRUE] : g \in files[d]}  BY <1>0, <2>1
    <3>2. files[d] \in SUBSET Files  BY <1>0
    <3>3. \A g \in files[d] : \E h \in files'[d] : h.name = g.name /\ h.rows = g.rows /\ h.linked
      BY <1>0, <3>1, <3>2, LinkedFacts, Zenon
    <3>. QED  BY <3>3
  <2>. CASE LeafOf(s) # d
    <3>1. f \in files'[d]  BY <2>1
    <3>. QED  BY <3>1
  <2>. QED  OBVIOUS
<1>4. ASSUME PowerLoss PROVE Goal
  <2>1. files'[d] \in Surviving(files[d]) /\ Die(Processes)  BY <1>4 DEF PowerLoss
  <2>2. \A t \in Sinks : job'[t].at = "idle"
    <3>1. \A t \in Sinks : proc[t] \in Processes  BY ProcFacts
    <3>2. job' = [t \in Sinks |-> IF t \in {s \in Sinks : proc[s] \in Processes} THEN Idle ELSE job[t]]
      BY <2>1, Zenon DEF Die
    <3>. QED  BY <3>1, <3>2 DEF Idle
  <2>3. f.linked  BY <2>2
  <2>4. files[d] \in SUBSET Files /\ IsFiniteSet(files[d])  BY <1>0
  <2>5. \A h \in files[d] : h.linked =>
           \E g \in files'[d] : g.name = h.name /\ g.rows = h.rows /\ g.linked
    BY <2>1, <2>4, SurvivingFacts, Zenon
  <2>6. \E h \in files'[d] : h.name = f.name /\ h.rows = f.rows /\ h.linked
    BY <2>3, <2>5, Zenon
  <2>. QED  BY <2>6
<1>. QED  BY <1>2, <1>3, <1>4, FileSteps, Zenon

LEMMA KeptStays ==
  ASSUME Counting, Types, PlaceInv, [Next]_vars, NEW d \in Leaves, NEW i, Kept(d, i)
  PROVE  Kept(d, i)'
<1>1. PICK f \in files[d] : f.linked /\ i \in f.rows  BY Zenon DEF Kept
<1>2. PICK h \in files'[d] : h.name = f.name /\ h.rows = f.rows /\ (f.linked => h.linked)
  BY <1>1, FilesKeep
<1>3. h.linked /\ i \in h.rows  BY <1>1, <1>2
<1>. QED  BY <1>3, Zenon DEF Kept

\* What a step does to the fate of a snapshot: it is reported written only by the
\* tail of the flush that holds it.
LEMMA FateSteps ==
  ASSUME Types, [Next]_vars
  PROVE  /\ \A i \in DOMAIN fate :
              /\ i \in DOMAIN fate' /\ fate'[i].of = fate[i].of /\ fate'[i].has = fate[i].has
              /\ fate'[i].is = "flushed" =>
                   \/ fate[i].is = "flushed"
                   \/ \E s \in Sinks : job[s].at = "clear" /\ \E x \in Range(buf[s]) : x.id = i
              /\ fate'[i].is = "buffered" => fate[i].is = "buffered"
         /\ \A i \in DOMAIN fate' \ DOMAIN fate : fate'[i].is = "buffered"
<1>. DEFINE Goal ==
         /\ \A i \in DOMAIN fate :
              /\ i \in DOMAIN fate' /\ fate'[i].of = fate[i].of /\ fate'[i].has = fate[i].has
              /\ fate'[i].is = "flushed" =>
                   \/ fate[i].is = "flushed"
                   \/ \E s \in Sinks : job[s].at = "clear" /\ \E x \in Range(buf[s]) : x.id = i
              /\ fate'[i].is = "buffered" => fate[i].is = "buffered"
         /\ \A i \in DOMAIN fate' \ DOMAIN fate : fate'[i].is = "buffered"
<1>0. buf \in [Sinks -> Seq(Snapshots)] /\ fate \in Seq(Fates)  BY DEF Types
<1>1. ASSUME fate' = fate PROVE Goal  BY <1>1
<1>2. ASSUME NEW s \in Sinks, NEW shape \in Shapes,
             EmitTo(s, shape, Len(buf[s]) >= MAX_BUFFERED_SNAPSHOTS)
      PROVE  Goal
  <2>1. PICK n \in 0 .. Len(buf[s]), x \in Snapshots :
          /\ fate' = Append(Settle(SubSeq(buf[s], 1, n), "shed"),
                            [of |-> s, has |-> x.has, is |-> "buffered"])
          /\ SubSeq(buf[s], 1, n) \in Seq(Snapshots)
    BY <1>2, EmitFacts
  <2>. DEFINE b == SubSeq(buf[s], 1, n)
              g == Settle(b, "shed")
              e == [of |-> s, has |-> x.has, is |-> "buffered"]
  <2>2. b \in Seq(Snapshots) /\ fate' = Append(g, e)  BY <2>1
  <2>. HIDE DEF b
  <2>3. /\ g \in Seq(Fates) /\ Len(g) = Len(fate) /\ DOMAIN g = DOMAIN fate
        /\ \A i \in DOMAIN fate :
              /\ g[i].of = fate[i].of /\ g[i].has = fate[i].has
              /\ (\E y \in Range(b) : y.id = i) => g[i].is = "shed"
              /\ ~(\E y \in Range(b) : y.id = i) => g[i].is = fate[i].is
    BY <2>2, SettleFacts
  <2>4. e \in Fates /\ e.is = "buffered"  BY DEF Fates, Snapshots
  <2>. HIDE DEF g, e
  <2>5. /\ DOMAIN fate' = 1 .. Len(fate) + 1 /\ DOMAIN fate = 1 .. Len(fate) /\ Len(fate) \in Nat
        /\ fate'[Len(fate) + 1] = e /\ \A i \in 1 .. Len(fate) : fate'[i] = g[i]
    BY <2>2, <2>3
  <2>6. DOMAIN fate \subseteq DOMAIN fate' /\ DOMAIN fate' \ DOMAIN fate = {Len(fate) + 1}  BY <2>5
  <2>. QED  BY <2>3, <2>4, <2>5
<1>3. ASSUME NEW s \in Sinks, NEW what \in {"lost", "flushed"}, fate' = Settle(buf[s], what),
             what = "flushed" => job[s].at = "clear"
      PROVE  Goal
  <2>1. /\ DOMAIN fate' = DOMAIN fate
        /\ \A i \in DOMAIN fate :
              /\ fate'[i].of = fate[i].of /\ fate'[i].has = fate[i].has
              /\ (\E y \in Range(buf[s]) : y.id = i) => fate'[i].is = what
              /\ ~(\E y \in Range(buf[s]) : y.id = i) => fate'[i].is = fate[i].is
    <3>1. buf[s] \in Seq(Snapshots)  BY <1>0
    <3>. QED  BY <1>3, <3>1, SettleFacts
  <2>. QED  BY <1>3, <2>1
<1>4. ASSUME NEW ps, Die(ps) PROVE Goal
  BY <1>4, DieFacts, Zenon
<1>5. Goal
  BY <1>2, <1>3, <1>4, BufSteps, Zenon
<1>. QED  BY <1>5

LEMMA WholeStep ==
  ASSUME Counting, Types, PlaceInv, StageInv, FileInv, [Next]_vars, NEW d \in Leaves, NEW h \in files'[d]
  PROVE  h.whole /\ h.synced
<1>0. /\ files \in [Leaves -> SUBSET Files] /\ IsFiniteSet(files[d])
      /\ staging \in [Leaves -> SUBSET Files]
  BY Zenon DEF Types
<1>1. \A f \in files[d] : f.whole /\ f.synced  BY Zenon DEF FileInv
<1>2. CASE h \in files[d]  BY <1>1, <1>2, Zenon
<1>3. ASSUME NEW s \in Sinks, rename(s), MyStaged(s) # {}, h \notin files[d] PROVE h.whole /\ h.synced
  <2>1. /\ LeafOf(s) \in Leaves /\ job[s].at = "rename"
        /\ files' = [files EXCEPT ![LeafOf(s)] = @ \cup {[g EXCEPT !.name = job'[s].name] : g \in MyStaged(s)}]
    BY <1>3, MovedFacts
  <2>2. PICK g \in MyStaged(s) : h = [g EXCEPT !.name = job'[s].name]  BY <1>3, <2>1
  <2>3. job[s].name[1] = s  BY <2>1 DEF PlaceInv, Locked, Working
  <2>4. g \in Files /\ g \in Mine(s)  BY <1>0, <2>1, <2>3 DEF MyStaged, Mine
  <2>5. g.whole /\ g.synced  BY <2>1, <2>4, Zenon DEF StageInv
  <2>. QED  BY <2>2, <2>5 DEF Files
<1>4. ASSUME NEW s \in Sinks, fsync_leaf(s), h \notin files[d] PROVE h.whole /\ h.synced
  <2>1. files' = [files EXCEPT ![LeafOf(s)] = {[g EXCEPT !.linked = TRUE] : g \in @}]
    BY <1>4, Zenon DEF fsync_leaf
  <2>2. files'[d] = {[g EXCEPT !.linked = TRUE] : g \in files[d]}  BY <1>4, <2>1
  <2>3. files[d] \in SUBSET Files  BY <1>0
  <2>4. \A e \in files'[d] : \E f \in files[d] :
          /\ e.name = f.name /\ e.rows = f.rows /\ e.whole = f.whole /\ e.synced = f.synced /\ e.linked
    BY <1>0, <2>2, <2>3, LinkedFacts, Zenon
  <2>5. PICK f \in files[d] : h.whole = f.whole /\ h.synced = f.synced  BY <2>4, Zenon
  <2>. QED  BY <1>1, <2>5, Zenon
<1>5. ASSUME PowerLoss PROVE h.whole /\ h.synced
  <2>1. files'[d] \in Surviving(files[d])  BY <1>5 DEF PowerLoss
  <2>2. files[d] \in SUBSET Files /\ IsFiniteSet(files[d])  BY <1>0
  <2>3. \A e \in files'[d] : \E f \in files[d] :
          /\ e.name = f.name /\ e.rows = f.rows
          /\ f.whole /\ f.synced => e.whole /\ e.synced
    BY <2>1, <2>2, SurvivingFacts, Zenon
  <2>4. PICK f \in files[d] : f.whole /\ f.synced => h.whole /\ h.synced  BY <2>3, Zenon
  <2>. QED  BY <1>1, <2>4, Zenon
<1>. QED  BY <1>2, <1>3, <1>4, <1>5, FileSteps, Zenon

\* The file of the flush under way, from its rename on.
Written(t) ==
  job[t].at \in {"dirsync", "append", "appendsync"} =>
       \E f \in files[LeafOf(t)] :
          /\ f.name = job[t].name /\ Batch(t) \subseteq f.rows
          /\ job[t].at # "dirsync" => f.linked

LEMMA WrittenStep ==
  ASSUME Counting, Types, PlaceInv, StageInv, [Next]_vars, NEW t \in Sinks, Written(t)
  PROVE  Written(t)'
<1>. SUFFICES ASSUME job'[t].at \in {"dirsync", "append", "appendsync"} PROVE Written(t)'
  BY Zenon DEF Written
<1>. DEFINE Goal ==
       \E f \in files'[LeafOf(t)'] :
          /\ f.name = job'[t].name /\ Batch(t)' \subseteq f.rows
          /\ job'[t].at # "dirsync" => f.linked
<1>0. job'[t].at # "idle" /\ ~Rests(t)  BY DEF Rests
<1>1. ASSUME job'[t].leaf = job[t].leaf, buf'[t] = buf[t], job'[t].name = job[t].name,
             job[t].at \in {"dirsync", "append", "appendsync"},
             job'[t].at # "dirsync" => job[t].at # "dirsync"
      PROVE  Goal
  <2>1. LeafOf(t)' = LeafOf(t) /\ LeafOf(t) \in Leaves  BY <1>1, LeafOfFacts, Zenon DEF LeafOf, Working
  <2>2. Batch(t)' = Batch(t)  BY <1>1, <2>1, Zenon DEF Batch
  <2>3. PICK f \in files[LeafOf(t)] :
          /\ f.name = job[t].name /\ Batch(t) \subseteq f.rows /\ (job[t].at # "dirsync" => f.linked)
    BY <1>1, Zenon DEF Written
  <2>4. PICK h \in files'[LeafOf(t)] : h.name = f.name /\ h.rows = f.rows /\ (f.linked => h.linked)
    BY <2>1, FilesKeep
  <2>5. h.name = job'[t].name /\ Batch(t) \subseteq h.rows /\ (job'[t].at # "dirsync" => h.linked)
    BY <1>1, <2>3, <2>4
  <2>. QED  BY <2>1, <2>2, <2>5
<1>2. ASSUME Moves(t), job[t].at = "rename" PROVE Goal
  <2>1. job'[t].leaf = job[t].leaf /\ buf'[t] = buf[t] /\ job'[t].at = "dirsync"  BY <1>2 DEF Moves, Order
  <2>2. rename(t) /\ MyStaged(t) # {}
    <3>1. job'[t] # job[t]  BY <1>2
    <3>2. rename(t) /\ ~Fail(t)  BY <1>0, <1>2, MoveSteps
    <3>. QED  BY <3>2, Zenon DEF rename
  <2>3. LeafOf(t)' = LeafOf(t) /\ LeafOf(t) \in Leaves  BY <1>2, <2>1, LeafOfFacts DEF LeafOf, Working
  <2>4. Batch(t)' = Batch(t)  BY <2>1, <2>3 DEF Batch
  <2>5. files' = [files EXCEPT ![LeafOf(t)] = @ \cup {[g EXCEPT !.name = job'[t].name] : g \in MyStaged(t)}]
    BY <2>2, MovedFacts
  <2>6. PICK f \in MyStaged(t) : TRUE  BY <2>2
  <2>7. f \in Files  BY <2>3 DEF MyStaged, Types
  <2>8. f.rows = Batch(t)
    <3>1. job[t].name[1] = t  BY <1>2 DEF PlaceInv, Locked, Working
    <3>2. f \in Mine(t)  BY <3>1 DEF MyStaged, Mine
    <3>. QED  BY <1>2, <3>2, Zenon DEF StageInv
  <2>. DEFINE h == [f EXCEPT !.name = job'[t].name]
  <2>9. h \in files'[LeafOf(t)]  BY <2>3, <2>5, Zenon DEF Types
  <2>10. h.name = job'[t].name /\ h.rows = f.rows  BY DEF Files
  <2>. HIDE DEF h
  <2>. QED  BY <2>1, <2>3, <2>4, <2>8, <2>9, <2>10
<1>3. ASSUME Moves(t), job[t].at = "dirsync" PROVE Goal
  <2>1. job'[t].leaf = job[t].leaf /\ buf'[t] = buf[t] /\ job'[t].name = job[t].name /\ job'[t].at = "append"
    BY <1>3 DEF Moves, Order
  <2>2. fsync_leaf(t)
    <3>1. job'[t] # job[t]  BY <1>3, <2>1
    <3>. QED  BY <1>0, <1>3, <3>1, MoveSteps
  <2>3. LeafOf(t)' = LeafOf(t) /\ LeafOf(t) \in Leaves  BY <1>3, <2>1, LeafOfFacts DEF LeafOf, Working
  <2>4. Batch(t)' = Batch(t)  BY <2>1, <2>3 DEF Batch
  <2>5. files' = [files EXCEPT ![LeafOf(t)] = {[g EXCEPT !.linked = TRUE] : g \in @}]
    BY <2>2, Zenon DEF fsync_leaf
  <2>6. files[LeafOf(t)] \in SUBSET Files /\ IsFiniteSet(files[LeafOf(t)])
        /\ files'[LeafOf(t)] = {[g EXCEPT !.linked = TRUE] : g \in files[LeafOf(t)]}
    BY <2>3, <2>5 DEF Types
  <2>7. PICK f \in files[LeafOf(t)] : f.name = job[t].name /\ Batch(t) \subseteq f.rows
    BY <1>3, Zenon DEF Written
  <2>8. \A g \in files[LeafOf(t)] : \E h \in files'[LeafOf(t)] :
          h.name = g.name /\ h.rows = g.rows /\ h.linked
    BY <2>6, LinkedFacts, Zenon
  <2>9. PICK h \in files'[LeafOf(t)] : h.name = f.name /\ h.rows = f.rows /\ h.linked  BY <2>8
  <2>. QED  BY <2>1, <2>3, <2>4, <2>7, <2>9
<1>4. Goal
  <2>1. Stays(t) \/ Moves(t)
    <3>1. ~Advances(t)  BY DEF Advances
    <3>2. ~Begins(t)
      <4>1. SUFFICES ASSUME Begins(t) PROVE FALSE  OBVIOUS
      <4>2. PICK final \in BOOLEAN : job'[t] = Begin(buf'[t], final)  BY <4>1, Zenon DEF Begins
      <4>3. job'[t].at \in {"idle", "gone", "lock", "clear"}  BY <4>2, BeginFacts
      <4>. QED  BY <4>3
    <3>. QED  BY <1>0, <3>1, <3>2, JobSteps DEF Goes
  <2>. CASE Stays(t)
    <3>1. job'[t] = job[t] /\ buf'[t] = buf[t]  BY Zenon DEF Stays
    <3>. HIDE DEF Goal
    <3>. QED  BY <1>1, <3>1
  <2>. CASE Moves(t)
    <3>1. \/ job[t].at = "rename" \/ job[t].at = "dirsync"
          \/ /\ job[t].at = "append" /\ job'[t].at = "appendsync" /\ job'[t].leaf = job[t].leaf
             /\ buf'[t] = buf[t] /\ job'[t].name = job[t].name
      BY DEF Moves, Order
    <3>. HIDE DEF Goal
    <3>. QED  BY <1>1, <1>2, <1>3, <3>1
  <2>. QED  BY <2>1
<1>. QED  BY <1>4, Zenon DEF Written

\* What the flush of t has finished with is kept in its leaf.
Finished(t) ==
  \A j \in Done(t) : \A x \in Rows(buf[t], Datatypes[j]) : Kept(Datatypes[j], x.id)

LEMMA FinishedStep ==
  ASSUME Counting, Types, PlaceInv, [Next]_vars, NEW t \in Sinks, Finished(t), Written(t)
  PROVE  Finished(t)'
<1>. SUFFICES ASSUME NEW j \in Done(t)', NEW x \in Rows(buf'[t], Datatypes[j])
              PROVE  Kept(Datatypes[j], x.id)'
  BY Zenon DEF Finished, Rows
<1>0. job \in [Sinks -> Jobs] /\ job'[t].at \in Working \cup {"clear"} /\ j \in 1 .. job'[t].leaf - 1
  BY DEF Types, Done
<1>1. CASE Done(t)' = Done(t) /\ buf'[t] = buf[t]
  <2>1. j \in Done(t) /\ Kept(Datatypes[j], x.id)  BY <1>1, Zenon DEF Finished
  <2>2. Datatypes[j] \in Leaves
    <3>1. /\ job[t].at \in Working => job[t].leaf \in DOMAIN Datatypes
          /\ job[t].at = "clear" => job[t].leaf = Len(Datatypes) + 1
      BY Zenon DEF PlaceInv
    <3>2. Len(Datatypes) \in Nat /\ DOMAIN Datatypes = 1 .. Len(Datatypes)  BY LeafFacts, Zenon
    <3>3. j \in 1 .. job[t].leaf - 1 /\ job[t].at \in Working \cup {"clear"}
      BY <2>1 DEF Done
    <3>4. job[t].leaf \in 1 .. Len(Datatypes) \/ job[t].leaf = Len(Datatypes) + 1
      BY <3>1, <3>2, <3>3, Zenon
    <3>5. j \in DOMAIN Datatypes  BY <3>2, <3>3, <3>4, BeforeEnd, Zenon
    <3>. QED  BY <3>5, LeafFacts, Zenon
  <2>. QED  BY <2>1, <2>2, KeptStays
<1>2. CASE Rests(t)  BY <1>0, <1>2 DEF Rests, Working
<1>3. CASE Stays(t)
  <2>1. Done(t)' = Done(t) /\ buf'[t] = buf[t]  BY <1>3, Zenon DEF Stays, Done
  <2>. QED  BY <1>1, <2>1
<1>4. CASE Begins(t)
  <2>1. PICK final \in BOOLEAN : job'[t] = Begin(buf'[t], final)  BY <1>4, Zenon DEF Begins
  <2>2. Rows(buf'[t], Datatypes[j]) = {}  BY <1>0, <2>1, BeginFacts, Zenon
  <2>. QED  BY <2>2
<1>5. CASE Moves(t)
  <2>1. job'[t].leaf = job[t].leaf /\ buf'[t] = buf[t] /\ job'[t].at \in Working /\ job[t].at \in Working
    BY <1>5 DEF Moves, Order, Working
  <2>2. Done(t)' = Done(t)  BY <2>1, Zenon DEF Done
  <2>. QED  BY <1>1, <2>1, <2>2
<1>6. CASE Advances(t)
  <2>. DEFINE n == NextLeaf(buf[t], job[t].leaf + 1)
  <2>1. job[t].at = "appendsync" /\ buf'[t] = buf[t] /\ job'[t].leaf = n  BY <1>6, Zenon DEF Advances
  <2>2. /\ LeafOf(t) \in Leaves /\ job[t].leaf \in 1 .. Len(Datatypes) /\ Len(Datatypes) \in Nat
    BY <2>1, LeafOfFacts, Zenon DEF Working
  <2>3. job[t].leaf + 1 \in 1 .. Len(Datatypes) + 1  BY <2>2
  <2>4. /\ n \in job[t].leaf + 1 .. Len(Datatypes) + 1
        /\ \A k \in job[t].leaf + 1 .. n - 1 : Rows(buf[t], Datatypes[k]) = {}
    BY <2>3, NextLeafFacts, Zenon
  <2>. HIDE DEF n
  <2>5. j \in 1 .. n - 1  BY <1>0, <2>1
  <2>6. Datatypes[j] \in Leaves
    <3>1. j \in DOMAIN Datatypes  BY <2>2, <2>4, <2>5
    <3>. QED  BY <3>1, LeafFacts
  <2>. CASE j < job[t].leaf
    <3>1. job[t].at \in Working  BY <2>1 DEF Working
    <3>2. j \in 1 .. job[t].leaf - 1  BY <2>2, <2>5
    <3>3. j \in Done(t)  BY <3>1, <3>2, Zenon DEF Done
    <3>4. Kept(Datatypes[j], x.id)  BY <2>1, <3>3, Zenon DEF Finished
    <3>. QED  BY <2>6, <3>4, KeptStays
  <2>. CASE j = job[t].leaf
    <3>1. PICK f \in files[LeafOf(t)] : f.linked /\ Batch(t) \subseteq f.rows
      <4>1. job[t].at \in {"dirsync", "append", "appendsync"} /\ job[t].at # "dirsync"  BY <2>1
      <4>. QED  BY <4>1, Zenon DEF Written
    <3>2. x.id \in Batch(t) /\ Datatypes[j] = LeafOf(t)  BY <2>1 DEF Batch, LeafOf
    <3>3. Kept(Datatypes[j], x.id)  BY <3>1, <3>2 DEF Kept
    <3>. QED  BY <2>6, <3>3, KeptStays
  <2>. CASE j > job[t].leaf
    <3>1. j \in job[t].leaf + 1 .. n - 1  BY <2>2, <2>5
    <3>2. Rows(buf[t], Datatypes[j]) = {}  BY <2>4, <3>1, Zenon
    <3>. QED  BY <2>1, <3>2
  <2>. QED  BY <2>2, <2>5
<1>. QED  BY <1>2, <1>3, <1>4, <1>5, <1>6, JobSteps, Zenon DEF Goes

\* What was reported written is kept in every leaf it has rows for.
LEMMA ReportedStep ==
  ASSUME Counting, Types, PlaceInv, BufInv, FileInv, [Next]_vars,
         NEW i \in DOMAIN fate', fate'[i].is = "flushed", NEW d \in fate'[i].has
  PROVE  Kept(d, i)'
<1>1. i \in DOMAIN fate  BY FateSteps
<1>2. d \in fate[i].has /\ d \in Leaves
  <2>1. fate'[i].has = fate[i].has  BY FateSteps
  <2>2. fate \in Seq(Fates)  BY DEF Types
  <2>3. fate[i] \in Fates  BY <1>1, <2>2
  <2>. QED  BY <2>1, <2>3 DEF Fates
<1>3. CASE fate[i].is = "flushed"
  <2>1. Kept(d, i)  BY <1>1, <1>2, <1>3, Zenon DEF FileInv
  <2>. QED  BY <1>2, <2>1, KeptStays
<1>4. ASSUME NEW s \in Sinks, job[s].at = "clear", NEW x \in Range(buf[s]), x.id = i
      PROVE  Kept(d, i)'
  <2>1. x.has = fate[i].has
    <3>1. PICK k \in DOMAIN buf[s] : x = buf[s][k]  BY DEF Range
    <3>2. BufOk(buf[s], fate, s)  BY DEF BufInv
    <3>. QED  BY <1>4, <3>1, <3>2, Zenon DEF BufOk
  <2>2. PICK j \in DOMAIN Datatypes : Datatypes[j] = d  BY <1>2 DEF Leaves, Range
  <2>3. j \in Done(s)
    <3>1. job[s].leaf = Len(Datatypes) + 1  BY <1>4 DEF PlaceInv
    <3>. QED  BY <1>4, <3>1 DEF Done
  <2>4. x \in Rows(buf[s], Datatypes[j])  BY <1>2, <2>1, <2>2 DEF Rows
  <2>5. Kept(Datatypes[j], x.id)  BY <2>3, <2>4, Zenon DEF FileInv
  <2>. QED  BY <1>2, <1>4, <2>2, <2>5, KeptStays
<1>5. \/ fate[i].is = "flushed"
      \/ \E s \in Sinks : job[s].at = "clear" /\ \E x \in Range(buf[s]) : x.id = i
  BY FateSteps
<1>. QED  BY <1>3, <1>4, <1>5

\* The entries of the index of d name linked files.
Listed(ix, d) ==
  /\ ix.synced <= Len(ix.pieces)
  /\ \A j \in DOMAIN ix.pieces : \E f \in files[d] : f.linked /\ f.name = ix.pieces[j].name

LEMMA ListedStep ==
  ASSUME Counting, Types, PlaceInv, FileInv, [Next]_vars, NEW d \in Leaves
  PROVE  Listed(index[d], d)'
<1>0. index \in [Leaves -> Indexes] /\ Listed(index[d], d)  BY Zenon DEF Types, FileInv, Listed
<1>1. ASSUME NEW name, \E f \in files[d] : f.linked /\ f.name = name
      PROVE  \E f \in files'[d] : f.linked /\ f.name = name
  <2>1. PICK f \in files[d] : f.linked /\ f.name = name  BY <1>1
  <2>2. PICK h \in files'[d] : h.name = f.name /\ h.rows = f.rows /\ (f.linked => h.linked)
    BY <2>1, FilesKeep
  <2>3. h.linked /\ h.name = name  BY <2>1, <2>2
  <2>. QED  BY <2>3, Zenon
<1>2. SUFFICES ASSUME TRUE
               PROVE  /\ index'[d].synced <= Len(index'[d].pieces)
                      /\ \A j \in DOMAIN index'[d].pieces :
                           \E f \in files[d] : f.linked /\ f.name = index'[d].pieces[j].name
  BY <1>1, Zenon DEF Listed
<1>. DEFINE Goal == /\ index'[d].synced <= Len(index'[d].pieces)
                    /\ \A j \in DOMAIN index'[d].pieces :
                         \E f \in files[d] : f.linked /\ f.name = index'[d].pieces[j].name
<1>3. ASSUME index'[d] = index[d] PROVE Goal  BY <1>0, <1>3, Zenon DEF Listed
<1>4. ASSUME NEW s \in Sinks, NEW whole \in BOOLEAN, NEW newline \in BOOLEAN, job[s].at = "append",
             index' = [index EXCEPT ![LeafOf(s)] = AppendBytes(@, Piece(job[s].name, whole, newline))],
             LeafOf(s) = d
      PROVE  Goal
  <2>. DEFINE e == Piece(job[s].name, whole, newline)
              ix == index[d]
  <2>1. index'[d] = [ix EXCEPT !.pieces = Append(ix.pieces, e)]  BY <1>0, <1>4 DEF AppendBytes
  <2>2. e \in Pieces /\ e.name = job[s].name
    <3>1. job[s].name \in Names  BY <1>4 DEF PlaceInv, Locked, Working
    <3>. QED  BY <3>1 DEF Piece, Pieces
  <2>3. \E f \in files[d] : f.linked /\ f.name = e.name
    <3>1. job[s].at \in {"dirsync", "append", "appendsync"} /\ job[s].at # "dirsync"  BY <1>4
    <3>2. \E f \in files[LeafOf(s)] : f.name = job[s].name /\ f.linked  BY <3>1, Zenon DEF FileInv
    <3>. QED  BY <1>4, <2>2, <3>2
  <2>4. ix.pieces \in Seq(Pieces) /\ ix.synced \in Nat /\ ix \in Indexes  BY <1>0 DEF Indexes
  <2>. HIDE DEF e
  <2>5. index'[d].pieces = Append(ix.pieces, e) /\ index'[d].synced = ix.synced
    BY <2>1 DEF Indexes
  <2>6. /\ Len(Append(ix.pieces, e)) = Len(ix.pieces) + 1 /\ Len(ix.pieces) \in Nat
        /\ DOMAIN Append(ix.pieces, e) = 1 .. Len(ix.pieces) + 1 /\ DOMAIN ix.pieces = 1 .. Len(ix.pieces)
        /\ \A j \in 1 .. Len(ix.pieces) : Append(ix.pieces, e)[j] = ix.pieces[j]
        /\ Append(ix.pieces, e)[Len(ix.pieces) + 1] = e
    OBVIOUS
  <2>7. /\ ix.synced <= Len(ix.pieces)
        /\ \A j \in DOMAIN ix.pieces : \E f \in files[d] : f.linked /\ f.name = ix.pieces[j].name
    BY <1>0, Zenon DEF Listed
  <2>. HIDE DEF ix
  <2>8. index'[d].synced <= Len(index'[d].pieces)  BY <2>4, <2>5, <2>7
  <2>9. ASSUME NEW j \in DOMAIN index'[d].pieces
        PROVE  \E f \in files[d] : f.linked /\ f.name = index'[d].pieces[j].name
    <3>. CASE j \in 1 .. Len(ix.pieces)  BY <2>5, <2>7
    <3>. CASE j = Len(ix.pieces) + 1  BY <2>3, <2>5
    <3>. QED  BY <2>5
  <2>. QED  BY <2>8, <2>9
<1>5. ASSUME NEW s \in Sinks, fsync_index(s), LeafOf(s) = d PROVE Goal
  <2>1. index' = [index EXCEPT ![LeafOf(s)].synced = Len(index[LeafOf(s)].pieces)]
    BY <1>5, Zenon DEF fsync_index
  <2>2. index'[d] = [index[d] EXCEPT !.synced = Len(index[d].pieces)]  BY <1>0, <1>5, <2>1
  <2>3. index[d] \in Indexes  BY <1>0
  <2>4. index'[d].pieces = index[d].pieces /\ index'[d].synced = Len(index[d].pieces)
    BY <2>2 DEF Indexes
  <2>5. Len(index[d].pieces) \in Nat  BY DEF Indexes
  <2>6. \A j \in DOMAIN index[d].pieces : \E f \in files[d] : f.linked /\ f.name = index[d].pieces[j].name
    BY <1>0, Zenon DEF Listed
  <2>. QED  BY <2>4, <2>6
<1>6. ASSUME PowerLoss PROVE Goal
  <2>1. index'[d] \in SurvivingIndex(index[d]) /\ index[d] \in Indexes  BY <1>0, <1>6 DEF PowerLoss
  <2>2. /\ index'[d].synced <= Len(index'[d].pieces)
        /\ \A j \in DOMAIN index'[d].pieces :
              \E k \in DOMAIN index[d].pieces : index'[d].pieces[j].name = index[d].pieces[k].name
    BY <2>1, SurvivingIndexFacts
  <2>3. \A k \in DOMAIN index[d].pieces : \E f \in files[d] : f.linked /\ f.name = index[d].pieces[k].name
    BY <1>0, Zenon DEF Listed
  <2>. QED  BY <2>2, <2>3
<1>7. \/ index'[d] = index[d]
      \/ \E s \in Sinks, whole \in BOOLEAN, newline \in BOOLEAN :
            /\ job[s].at = "append" /\ LeafOf(s) = d
            /\ index' = [index EXCEPT ![LeafOf(s)] = AppendBytes(@, Piece(job[s].name, whole, newline))]
      \/ \E s \in Sinks : fsync_index(s) /\ LeafOf(s) = d
      \/ PowerLoss
  <2>1. ASSUME NEW s \in Sinks, NEW ix, index' = [index EXCEPT ![LeafOf(s)] = ix], LeafOf(s) # d
        PROVE  index'[d] = index[d]
    BY <2>1
  <2>2. ASSUME NEW s \in Sinks, fsync_index(s), LeafOf(s) # d PROVE index'[d] = index[d]
    <3>1. index' = [index EXCEPT ![LeafOf(s)].synced = Len(index[LeafOf(s)].pieces)]
      BY <2>2, Zenon DEF fsync_index
    <3>. QED  BY <2>2, <3>1
  <2>. QED  BY <2>1, <2>2, IndexSteps
<1>8. Goal
  <2>. HIDE DEF Goal
  <2>. QED  BY <1>3, <1>4, <1>5, <1>6, <1>7
<1>. QED  BY <1>8

LEMMA FileStep ==
  ASSUME Counting, Types, PlaceInv, BufInv, StageInv, FileInv, [Next]_vars
  PROVE  FileInv'
<1>1. \A d \in Leaves : \A f \in files'[d] : f.whole /\ f.synced  BY WholeStep
<1>2. \A t \in Sinks : Written(t) /\ Finished(t)  BY Zenon DEF FileInv, Written, Finished
<1>3. \A t \in Sinks : Written(t)'  BY <1>2, WrittenStep
<1>4. \A t \in Sinks : Finished(t)'  BY <1>2, FinishedStep
<1>5. \A i \in DOMAIN fate' : fate'[i].is = "flushed" => \A d \in fate'[i].has : Kept(d, i)'
  BY ReportedStep
<1>6. \A d \in Leaves : Listed(index[d], d)'  BY ListedStep
<1>. QED  BY <1>1, <1>3, <1>4, <1>5, <1>6, Zenon DEF FileInv, Written, Finished, Listed

-----------------------------------------------------------------------------
(* The copies of a snapshot's rows                                         *)

LEMMA FailureSteps ==
  ASSUME [Next]_vars
  PROVE  failures' = failures \/ \E s \in Sinks : Fail(s)
<1>1. CASE UNCHANGED vars  BY <1>1, Zenon DEF vars, mem
<1>2. CASE PowerLoss  BY <1>2, Zenon DEF PowerLoss
<1>3. ASSUME NEW s \in Sinks,
             \/ emit_snapshot(s) \/ final_flush(s) \/ acquire_leaf_lock(s) \/ sweep_staging(s) \/ write(s)
             \/ fsync_staged(s) \/ rename(s) \/ fsync_leaf(s) \/ append_entry(s) \/ fsync_index(s)
             \/ clear_buffer(s) \/ IoError(s) \/ Kill(s)
      PROVE  failures' = failures \/ Fail(s)
  <2>1. emit_snapshot(s) => failures' = failures  BY Zenon DEF emit_snapshot
  <2>2. final_flush(s) => failures' = failures  BY Zenon DEF final_flush
  <2>3. acquire_leaf_lock(s) => failures' = failures \/ Fail(s)  BY Zenon DEF acquire_leaf_lock
  <2>4. sweep_staging(s) => failures' = failures  BY Zenon DEF sweep_staging
  <2>5. write(s) => failures' = failures  BY Zenon DEF write
  <2>6. fsync_staged(s) => failures' = failures \/ Fail(s)  BY Zenon DEF fsync_staged
  <2>7. rename(s) => failures' = failures \/ Fail(s)  BY Zenon DEF rename
  <2>8. fsync_leaf(s) => failures' = failures  BY Zenon DEF fsync_leaf
  <2>9. append_entry(s) => failures' = failures  BY Zenon DEF append_entry
  <2>10. fsync_index(s) => failures' = failures  BY Zenon DEF fsync_index
  <2>11. clear_buffer(s) => failures' = failures  BY Zenon DEF clear_buffer
  <2>12. IoError(s) => Fail(s)  BY Zenon DEF IoError
  <2>13. Kill(s) => failures' = failures  BY Zenon DEF Kill
  <2>. QED  BY <1>3, <2>1, <2>2, <2>3, <2>4, <2>5, <2>6, <2>7, <2>8, <2>9, <2>10, <2>11, <2>12, <2>13, Zenon
<1>. QED  BY <1>1, <1>2, <1>3, Zenon DEF Next

LEMMA FailuresGrow ==
  ASSUME Types, [Next]_vars, NEW s \in Sinks
  PROVE  failures[s] \in Nat /\ failures'[s] \in Nat /\ failures'[s] >= failures[s]
<1>0. failures \in [Sinks -> Nat]  BY DEF Types
<1>1. CASE failures' = failures  BY <1>0, <1>1
<1>2. ASSUME NEW t \in Sinks, Fail(t)
      PROVE  failures[s] \in Nat /\ failures'[s] \in Nat /\ failures'[s] >= failures[s]
  <2>1. failures' = [failures EXCEPT ![t] = @ + 1]  BY <1>2, FailFacts
  <2>. QED  BY <1>0, <2>1
<1>. QED  BY <1>1, <1>2, FailureSteps

\* A flush ends by failing, by its tail, or with its process.
LEMMA RestSteps ==
  ASSUME Counting, Types, PlaceInv, [Next]_vars, NEW t \in Sinks, job'[t] # job[t], Rests(t), job[t].at # "idle"
  PROVE  Fail(t) \/ clear_buffer(t) \/ \E ps : Die(ps) /\ proc[t] \in ps
<1>0. job \in [Sinks -> Jobs]  BY DEF Types
<1>1. ASSUME NEW at, Step(t, at), at \notin {"idle", "gone"} PROVE FALSE
  BY <1>1 DEF Step, Rests, Jobs
<1>2. ~emit_snapshot(t) /\ ~final_flush(t)  BY Zenon DEF emit_snapshot, final_flush
<1>3. acquire_leaf_lock(t) => Fail(t)  BY <1>1 DEF acquire_leaf_lock
<1>4. ~sweep_staging(t)  BY <1>1, Zenon DEF sweep_staging
<1>5. ~write(t)
  <2>1. SUFFICES ASSUME write(t) PROVE FALSE  OBVIOUS
  <2>. DEFINE nm == Staged(t, TRUE).name
  <2>2. job' = [job EXCEPT ![t].at = "fsync", ![t].name = nm]  BY <2>1, Zenon DEF write
  <2>. HIDE DEF nm
  <2>3. job'[t].at = "fsync"  BY <1>0, <2>2 DEF Jobs
  <2>. QED  BY <2>3 DEF Rests
<1>6. fsync_staged(t) => Fail(t)  BY <1>1 DEF fsync_staged
<1>7. rename(t) => Fail(t)
  <2>1. SUFFICES ASSUME rename(t), MyStaged(t) # {} PROVE FALSE  BY Zenon DEF rename
  <2>2. job'[t].at = "dirsync"  BY <2>1, MovedFacts
  <2>. QED  BY <2>2 DEF Rests
<1>8. ~fsync_leaf(t)  BY <1>1 DEF fsync_leaf
<1>9. ~append_entry(t)  BY <1>1, Zenon DEF append_entry
<1>10. ~fsync_index(t)
  <2>1. SUFFICES ASSUME fsync_index(t) PROVE FALSE  OBVIOUS
  <2>. DEFINE n == NextLeaf(buf[t], job[t].leaf + 1)
              at == IF n > Len(Datatypes) THEN "clear" ELSE "lock"
  <2>2. job' = [job EXCEPT ![t].leaf = n, ![t].at = at]  BY <2>1, Zenon DEF fsync_index
  <2>3. at \in {"clear", "lock"}  OBVIOUS
  <2>. HIDE DEF n, at
  <2>4. job'[t].at = at  BY <1>0, <2>2 DEF Jobs
  <2>. QED  BY <2>3, <2>4 DEF Rests
<1>11. IoError(t) => Fail(t)  BY Zenon DEF IoError
<1>. QED
  BY <1>2, <1>3, <1>4, <1>5, <1>6, <1>7, <1>8, <1>9, <1>10, <1>11, OwnSteps, Zenon DEF OwnStep

LEMMA PlacedStays ==
  ASSUME Counting, Types, PlaceInv, [Next]_vars, NEW s \in Sinks, NEW d \in Leaves, Placed(s, d), ~Rests(s)
  PROVE  Placed(s, d)'
<1>0. job \in [Sinks -> Jobs] /\ job[s].leaf \in Nat  BY DEF Types, Jobs
<1>1. PICK j \in DOMAIN Datatypes :
        /\ Datatypes[j] = d
        /\ j \in Done(s) \/ (j = job[s].leaf /\ job[s].at \in {"dirsync", "append", "appendsync"})
  BY Zenon DEF Placed
<1>2. ASSUME j \in Done(s)' \/ (j = job'[s].leaf /\ job'[s].at \in {"dirsync", "append", "appendsync"})
      PROVE  Placed(s, d)'
  BY <1>1, <1>2, Zenon DEF Placed
<1>3. CASE Stays(s)
  <2>1. job'[s] = job[s] /\ Done(s)' = Done(s)  BY <1>3, Zenon DEF Stays, Done
  <2>. QED  BY <1>1, <1>2, <2>1
<1>4. CASE Begins(s)
  <2>1. job[s].at = "idle" /\ Done(s) = {}  BY <1>4 DEF Begins, Done, Working
  <2>. QED  BY <1>1, <2>1
<1>5. CASE Moves(s)
  <2>1. /\ job'[s].leaf = job[s].leaf /\ job'[s].at \in Working /\ job[s].at \in Working
        /\ job[s].at \in {"dirsync", "append", "appendsync"} => job'[s].at \in {"dirsync", "append", "appendsync"}
    BY <1>5 DEF Moves, Order, Working
  <2>2. Done(s)' = Done(s)  BY <2>1, Zenon DEF Done
  <2>. QED  BY <1>1, <1>2, <2>1, <2>2
<1>6. CASE Advances(s)
  <2>. DEFINE n == NextLeaf(buf[s], job[s].leaf + 1)
  <2>1. /\ job[s].at = "appendsync" /\ job'[s].leaf = n
        /\ job'[s].at = IF n > Len(Datatypes) THEN "clear" ELSE "lock"
    BY <1>6, Zenon DEF Advances
  <2>2. job[s].leaf \in 1 .. Len(Datatypes) /\ Len(Datatypes) \in Nat  BY <2>1, LeafOfFacts, Zenon DEF Working
  <2>3. job[s].leaf + 1 \in 1 .. Len(Datatypes) + 1  BY <2>2
  <2>4. n \in job[s].leaf + 1 .. Len(Datatypes) + 1  BY <2>3, NextLeafFacts
  <2>. HIDE DEF n
  <2>5. j \in 1 .. job[s].leaf
    <3>. DEFINE l == job[s].leaf
    <3>1. j \in 1 .. l - 1 \/ j = l  BY <1>1 DEF Done
    <3>2. l \in Nat \ {0}  BY <2>2
    <3>. SUFFICES j \in 1 .. l  OBVIOUS
    <3>. HIDE DEF l
    <3>. QED  BY ONLY <3>1, <3>2
  <2>6. j \in 1 .. n - 1
    <3>. DEFINE l == job[s].leaf
    <3>1. l \in Nat /\ n \in l + 1 .. Len(Datatypes) + 1 /\ j \in 1 .. l  BY <2>2, <2>4, <2>5
    <3>. HIDE DEF l
    <3>. QED  BY <2>2, <3>1, BeforeNext, Zenon
  <2>7. j \in Done(s)'  BY <2>1, <2>6 DEF Done, Working
  <2>. QED  BY <1>2, <2>7
<1>. QED  BY <1>3, <1>4, <1>5, <1>6, JobSteps DEF Goes

\* The rows of a file are snapshots of the sink that named it.
LEMMA OwnersStep ==
  ASSUME Counting, Types, PlaceInv, BufInv, StageInv, CopyInv, [Next]_vars,
         NEW d \in Leaves, NEW h \in files'[d], NEW i \in h.rows
  PROVE  i \in DOMAIN fate /\ fate[i].of = h.name[1]
<1>0. /\ files \in [Leaves -> SUBSET Files] /\ IsFiniteSet(files[d])
      /\ staging \in [Leaves -> SUBSET Files] /\ files[d] \in SUBSET Files
  BY DEF Types
<1>1. \A f \in files[d] : \A k \in f.rows : k \in DOMAIN fate /\ fate[k].of = f.name[1]
  BY Zenon DEF CopyInv
<1>2. CASE \E f \in files[d] : h.name = f.name /\ h.rows = f.rows  BY <1>1, <1>2
<1>3. ASSUME NEW s \in Sinks, rename(s), MyStaged(s) # {}, h \notin files[d]
      PROVE  i \in DOMAIN fate /\ fate[i].of = h.name[1]
  <2>1. /\ LeafOf(s) \in Leaves /\ job[s].at = "rename" /\ job'[s].name[1] = s
        /\ files' = [files EXCEPT ![LeafOf(s)] = @ \cup {[g EXCEPT !.name = job'[s].name] : g \in MyStaged(s)}]
    BY <1>3, MovedFacts
  <2>2. PICK g \in MyStaged(s) : h = [g EXCEPT !.name = job'[s].name]  BY <1>3, <2>1
  <2>3. job[s].name[1] = s  BY <2>1 DEF PlaceInv, Locked, Working
  <2>4. g \in Files /\ g \in Mine(s)  BY <1>0, <2>1, <2>3 DEF MyStaged, Mine
  <2>5. g.rows = Batch(s)  BY <2>1, <2>4, Zenon DEF StageInv
  <2>6. h.rows = Batch(s) /\ h.name[1] = s  BY <2>1, <2>2, <2>5 DEF Files
  <2>7. PICK x \in Range(buf[s]) : x.id = i  BY <2>6 DEF Batch, Rows
  <2>8. PICK k \in DOMAIN buf[s] : x = buf[s][k]  BY DEF Range
  <2>9. BufOk(buf[s], fate, s)  BY DEF BufInv
  <2>. QED  BY <2>6, <2>7, <2>8, <2>9 DEF BufOk
<1>4. ASSUME NEW s \in Sinks, fsync_leaf(s), h \notin files[d]
      PROVE  \E f \in files[d] : h.name = f.name /\ h.rows = f.rows
  <2>1. files' = [files EXCEPT ![LeafOf(s)] = {[g EXCEPT !.linked = TRUE] : g \in @}]
    BY <1>4, Zenon DEF fsync_leaf
  <2>2. files'[d] = {[g EXCEPT !.linked = TRUE] : g \in files[d]}  BY <1>4, <2>1
  <2>3. \A e \in files'[d] : \E f \in files[d] :
          /\ e.name = f.name /\ e.rows = f.rows /\ e.whole = f.whole /\ e.synced = f.synced /\ e.linked
    BY <1>0, <2>2, LinkedFacts, Zenon
  <2>. QED  BY <2>3, Zenon
<1>5. ASSUME PowerLoss PROVE \E f \in files[d] : h.name = f.name /\ h.rows = f.rows
  <2>1. files'[d] \in Surviving(files[d])  BY <1>5 DEF PowerLoss
  <2>. QED  BY <1>0, <2>1, SurvivingFacts, Zenon
<1>. QED  BY <1>2, <1>3, <1>4, <1>5, FileSteps

\* A step adds a copy of the rows of i only by renaming the staged batch of i.
LEMMA CopiesSteps ==
  ASSUME Counting, Types, PlaceInv, StageInv, [Next]_vars, NEW s \in Sinks, NEW d \in Leaves, NEW i
  PROVE  /\ Cardinality(Copies(s, d, i)) \in Nat /\ Cardinality(Copies(s, d, i)') \in Nat
         /\ \/ Cardinality(Copies(s, d, i)') <= Cardinality(Copies(s, d, i))
            \/ /\ rename(s) /\ MyStaged(s) # {} /\ LeafOf(s) = d /\ i \in Batch(s)
               /\ Cardinality(Copies(s, d, i)') <= Cardinality(Copies(s, d, i)) + 1
<1>. DEFINE old == Copies(s, d, i)
            new == Copies(s, d, i)'
            Adds == rename(s) /\ MyStaged(s) # {} /\ LeafOf(s) = d /\ i \in Batch(s)
            Goal == /\ Cardinality(new) \in Nat
                    /\ \/ Cardinality(new) <= Cardinality(old)
                       \/ Adds /\ Cardinality(new) <= Cardinality(old) + 1
<1>0. /\ files \in [Leaves -> SUBSET Files] /\ IsFiniteSet(files[d]) /\ files[d] \in SUBSET Files
      /\ staging \in [Leaves -> SUBSET Files]
  BY DEF Types
<1>1. old = Named(files[d], s, i) /\ new = Named(files'[d], s, i)  BY Zenon DEF Copies, Named
<1>. HIDE DEF old, new
<1>2. IsFiniteSet(old) /\ Cardinality(old) \in Nat
  <2>1. old \subseteq files[d]  BY <1>1 DEF Named
  <2>. QED  BY <1>0, <2>1, Part
<1>3. ASSUME new = old PROVE Goal  BY <1>2, <1>3
<1>4. ASSUME IsFiniteSet(files'[d]), Cardinality(new) <= Cardinality(old) PROVE Goal
  <2>1. new \subseteq files'[d]  BY <1>1 DEF Named
  <2>2. Cardinality(new) \in Nat  BY <1>4, <2>1, Part
  <2>. QED  BY <1>4, <2>2
<1>5. ASSUME files'[d] = files[d] PROVE Goal  BY <1>1, <1>3, <1>5, Zenon
<1>6. ASSUME NEW t \in Sinks, rename(t), MyStaged(t) # {} PROVE Goal
  <2>1. /\ job[t].at = "rename" /\ LeafOf(t) \in Leaves /\ job'[t].name[1] = t
        /\ files' = [files EXCEPT ![LeafOf(t)] = @ \cup {[f EXCEPT !.name = job'[t].name] : f \in MyStaged(t)}]
    BY <1>6, MovedFacts
  <2>. CASE LeafOf(t) # d
    <3>1. files'[d] = files[d]  BY <2>1
    <3>. QED  BY <1>5, <3>1
  <2>. CASE LeafOf(t) = d
    <3>1. PICK f \in MyStaged(t) : TRUE  BY <1>6
    <3>2. job[t].name[1] = t  BY <2>1 DEF PlaceInv, Locked, Working
    <3>3. MyStaged(t) \subseteq Mine(t) /\ f \in Files  BY <1>0, <3>2 DEF MyStaged, Mine
    <3>4. f.rows = Batch(t) /\ \A g \in MyStaged(t) : g = f
      <4>1. /\ \A g \in Mine(t) : g.rows = Batch(t)
            /\ \A g, h \in Mine(t) : g = h
        BY <2>1, Zenon DEF StageInv
      <4>. QED  BY <3>3, <4>1
    <3>. DEFINE h == [f EXCEPT !.name = job'[t].name]
    <3>5. h.name[1] = t /\ h.rows = Batch(t)  BY <2>1, <3>4 DEF Files
    <3>6. files'[d] = files[d] \cup {h}  BY <1>0, <2>1, <3>4
    <3>. HIDE DEF h
    <3>. CASE t # s \/ i \notin Batch(t)
      <4>1. new = old  BY <1>1, <3>5, <3>6 DEF Named
      <4>. QED  BY <1>3, <4>1
    <3>. CASE t = s /\ i \in Batch(t)
      <4>1. new = old \cup {h}  BY <1>1, <3>5, <3>6 DEF Named
      <4>2. Cardinality(old \cup {h}) = IF h \in old THEN Cardinality(old) ELSE Cardinality(old) + 1
        BY <1>2, Added
      <4>3. Adds  BY <1>6
      <4>. QED  BY <1>2, <4>1, <4>2, <4>3
    <3>. QED  OBVIOUS
  <2>. QED  OBVIOUS
<1>7. ASSUME NEW t \in Sinks, fsync_leaf(t) PROVE Goal
  <2>1. files' = [files EXCEPT ![LeafOf(t)] = {[g EXCEPT !.linked = TRUE] : g \in @}]
    BY <1>7, Zenon DEF fsync_leaf
  <2>. CASE LeafOf(t) # d
    <3>1. files'[d] = files[d]  BY <2>1
    <3>. QED  BY <1>5, <3>1
  <2>. CASE LeafOf(t) = d
    <3>1. files'[d] = {[g EXCEPT !.linked = TRUE] : g \in files[d]}  BY <1>0, <2>1
    <3>2. IsFiniteSet(files'[d]) /\ \A a, b : Cardinality(Named(files'[d], a, b)) <= Cardinality(Named(files[d], a, b))
      BY <1>0, <3>1, LinkedFacts, Zenon
    <3>. HIDE DEF Goal
    <3>. QED  BY <1>1, <1>4, <3>2
  <2>. QED  OBVIOUS
<1>8. ASSUME PowerLoss PROVE Goal
  <2>1. files'[d] \in Surviving(files[d])  BY <1>8 DEF PowerLoss
  <2>2. IsFiniteSet(files'[d]) /\ \A a, b : Cardinality(Named(files'[d], a, b)) <= Cardinality(Named(files[d], a, b))
    BY <1>0, <2>1, SurvivingFacts, Zenon
  <2>. HIDE DEF Goal
  <2>. QED  BY <1>1, <1>4, <2>2
<1>9. Goal
  <2>. HIDE DEF Goal
  <2>. QED  BY <1>5, <1>6, <1>7, <1>8, FileSteps
<1>. QED  BY <1>2, <1>9 DEF old, new

\* A copy more is allowed from the rename on, and for good once the flush failed.
LEMMA BoundGrows ==
  ASSUME Counting, Types, PlaceInv, BufInv, [Next]_vars, NEW s \in Sinks, NEW d \in Leaves,
         NEW i \in DOMAIN fate, fate[i].of = s, fate'[i].is = "buffered", ~Placed(s, d)'
  PROVE  /\ fate[i].is = "buffered"
         /\ ~Placed(s, d) \/ failures'[s] = failures[s] + 1
<1>0. job \in [Sinks -> Jobs] /\ failures \in [Sinks -> Nat] /\ buf \in [Sinks -> Seq(Snapshots)]
  BY DEF Types
<1>1. fate[i].is = "buffered"  BY FateSteps
<1>2. SUFFICES ASSUME Placed(s, d) PROVE failures'[s] = failures[s] + 1  BY <1>1
<1>3. Rests(s)  BY <1>2, PlacedStays
<1>4. job[s].at # "idle" /\ job[s].at # "gone"
  <2>1. job[s].at \in {"idle", "gone"} => Done(s) = {}  BY DEF Done, Working
  <2>. QED  BY <1>2, <2>1 DEF Placed
<1>5. job'[s] # job[s]  BY <1>3, <1>4 DEF Rests
<1>6. CASE Fail(s)
  <2>1. failures' = [failures EXCEPT ![s] = @ + 1]  BY <1>6, FailFacts
  <2>. QED  BY <1>0, <2>1
<1>7. CASE clear_buffer(s)
  <2>1. fate' = Settle(buf[s], "flushed")  BY <1>7, Zenon DEF clear_buffer
  <2>2. PICK j \in DOMAIN buf[s] : buf[s][j].id = i
    <3>1. BufOk(buf[s], fate, s)  BY DEF BufInv
    <3>. QED  BY <1>1, <3>1, OpenIsBuffered
  <2>3. \E x \in Range(buf[s]) : x.id = i  BY <2>2 DEF Range
  <2>4. fate'[i].is = "flushed"
    <3>1. buf[s] \in Seq(Snapshots)  BY <1>0
    <3>. QED  BY <2>1, <2>3, <3>1, SettleFacts
  <2>. QED  BY <2>4
<1>8. ASSUME NEW ps, Die(ps), proc[s] \in ps PROVE FALSE
  <2>1. fate'[i].is = "died"  BY <1>8, DieFacts
  <2>. QED  BY <2>1
<1>. QED  BY <1>3, <1>4, <1>5, <1>6, <1>7, <1>8, RestSteps

Bound(s, d, i) ==
  Cardinality(Copies(s, d, i)) <=
    failures[s] + IF fate[i].is = "buffered" /\ ~Placed(s, d) THEN 0 ELSE 1

LEMMA BoundStep ==
  ASSUME Counting, Types, Types', PlaceInv, BufInv, StageInv, CopyInv, [Next]_vars,
         NEW s \in Sinks, NEW d \in Leaves, NEW i \in DOMAIN fate'
  PROVE  Bound(s, d, i)'
<1>. DEFINE old == Cardinality(Copies(s, d, i))
            new == Cardinality(Copies(s, d, i)')
            a == failures[s]
            b == failures'[s]
            open == fate[i].is = "buffered" /\ ~Placed(s, d)
            opens == fate'[i].is = "buffered" /\ ~Placed(s, d)'
<1>. SUFFICES new <= b + IF opens THEN 0 ELSE 1  BY Zenon DEF Bound
<1>1. a \in Nat /\ b \in Nat /\ b >= a  BY FailuresGrow
<1>2. CASE Copies(s, d, i)' = {}
  <2>1. new = 0  BY <1>2 DEF Counting
  <2>. HIDE DEF new, b, opens
  <2>. QED  BY <1>1, <2>1
<1>3. CASE Copies(s, d, i)' # {}
  <2>1. PICK h \in files'[d] : h.name[1] = s /\ i \in h.rows  BY <1>3 DEF Copies
  <2>2. i \in DOMAIN fate /\ fate[i].of = s  BY <2>1, OwnersStep
  <2>3. old <= a + IF open THEN 0 ELSE 1  BY <2>2, Zenon DEF CopyInv
  <2>4. opens => fate[i].is = "buffered" /\ (~Placed(s, d) \/ b = a + 1)  BY <2>2, BoundGrows
  <2>5. /\ old \in Nat /\ new \in Nat
        /\ \/ new <= old
           \/ rename(s) /\ MyStaged(s) # {} /\ LeafOf(s) = d /\ i \in Batch(s) /\ new <= old + 1
    BY CopiesSteps, Zenon
  <2>6. ASSUME rename(s), MyStaged(s) # {}, LeafOf(s) = d, i \in Batch(s)
        PROVE  open /\ ~opens
    <3>1. job[s].at = "rename" /\ job'[s].at = "dirsync"  BY <2>6, MovedFacts
    <3>2. job'[s].leaf = job[s].leaf
      <4>1. ~Rests(s) /\ ~Stays(s) /\ ~Begins(s) /\ ~Advances(s)
        BY <3>1 DEF Rests, Stays, Begins, Advances
      <4>2. Moves(s)  BY <4>1, JobSteps, Zenon DEF Goes
      <4>. QED  BY <4>2 DEF Moves
    <3>3. job[s].leaf \in 1 .. Len(Datatypes) /\ job[s].leaf \in DOMAIN Datatypes
      <4>1. job[s].leaf \in 1 .. Len(Datatypes)  BY <3>1, LeafOfFacts DEF Working
      <4>. QED  BY <4>1
    <3>4. Datatypes[job[s].leaf] = d  BY <2>6 DEF LeafOf
    <3>5. Placed(s, d)'  BY <3>1, <3>2, <3>3, <3>4 DEF Placed
    <3>6. ~Placed(s, d)
      <4>1. \A j \in DOMAIN Datatypes : Datatypes[j] = d => j = job[s].leaf
        BY <3>3, <3>4, LeafFacts
      <4>2. job[s].leaf \notin Done(s)
        <5>1. Done(s) = 1 .. job[s].leaf - 1  BY <3>1 DEF Done, Working
        <5>2. job[s].leaf \in Nat  BY <3>3
        <5>. QED  BY <5>1
      <4>. QED  BY <3>1, <4>1, <4>2, Zenon DEF Placed
    <3>7. fate[i].is = "buffered"
      <4>1. PICK x \in Range(buf[s]) : x.id = i  BY <2>6 DEF Batch, Rows
      <4>2. PICK k \in DOMAIN buf[s] : x = buf[s][k]  BY DEF Range
      <4>3. BufOk(buf[s], fate, s)  BY DEF BufInv
      <4>. QED  BY <4>1, <4>2, <4>3 DEF BufOk
    <3>. QED  BY <3>5, <3>6, <3>7
  <2>7. (open <=> fate[i].is = "buffered" /\ ~Placed(s, d))  OBVIOUS
  <2>. HIDE DEF old, new, a, b, open, opens
  <2>. CASE new <= old  BY <1>1, <2>3, <2>4, <2>5, <2>7
  <2>. CASE open /\ ~opens /\ new <= old + 1  BY <1>1, <2>3, <2>5
  <2>. QED  BY <2>5, <2>6
<1>. QED  BY <1>2, <1>3

LEMMA CopyStep ==
  ASSUME Counting, Types, Types', PlaceInv, BufInv, StageInv, CopyInv, [Next]_vars
  PROVE  CopyInv'
<1>1. \A d \in Leaves : \A f \in files'[d] : \A i \in f.rows : i \in DOMAIN fate' /\ fate'[i].of = f.name[1]
  <2>1. SUFFICES ASSUME NEW d \in Leaves, NEW f \in files'[d], NEW i \in f.rows
                 PROVE  i \in DOMAIN fate' /\ fate'[i].of = f.name[1]
    OBVIOUS
  <2>2. i \in DOMAIN fate /\ fate[i].of = f.name[1]  BY OwnersStep
  <2>. QED  BY <2>2, FateSteps
<1>2. \A s \in Sinks, d \in Leaves : \A i \in DOMAIN fate' : Bound(s, d, i)'  BY BoundStep
<1>. QED  BY <1>1, <1>2, Zenon DEF CopyInv, Bound

-----------------------------------------------------------------------------
(* The theorems                                                            *)

INSTANCE FiniteSetTheorems

LEMMA Counted == Counting
<1>1. ASSUME NEW T \in SUBSET Nat, T # {} PROVE \E k \in T : \A j \in T : k <= j
  <2>. DEFINE Less == {ss \in Nat \X Nat : ss[1] < ss[2]}
  <2>1. IsWellFoundedOn(Less, Nat)  BY NatLessThanWellFounded DEF OpToRel
  <2>2. PICK x \in T : \A y \in T : ~(<<y, x>> \in Less)
    <3>. HIDE DEF Less
    <3>. QED  BY <1>1, <2>1, WFMin
  <2>3. \A y \in T : ~(y < x)
    <3>1. ASSUME NEW y \in T, y < x PROVE FALSE
      <4>1. <<y, x>> \in Less  BY <3>1
      <4>. QED  BY <2>2, <4>1
    <3>. QED  BY <3>1
  <2>. QED  BY <2>3
<1>2. \A n \in Nat : IsFiniteSet(0 .. n) /\ Cardinality(0 .. n) = n + 1  BY FS_Interval
<1>3. ASSUME NEW S, IsFiniteSet(S), NEW T, NEW g, \A y \in T : \E x \in S : y = g[x]
      PROVE  /\ IsFiniteSet(T) /\ Cardinality(T) <= Cardinality(S)
             /\ Cardinality(T) \in Nat /\ Cardinality(S) \in Nat
  <2>. DEFINE U == {x \in S : g[x] \in T}
              h == [x \in U |-> g[x]]
  <2>1. IsFiniteSet(U) /\ Cardinality(U) <= Cardinality(S)
    <3>1. U \in SUBSET S  OBVIOUS
    <3>. QED  BY <1>3, FS_Subset
  <2>2. h \in [U -> T]  OBVIOUS
  <2>3. \A y \in T : \E x \in U : h[x] = y  BY <1>3
  <2>4. h \in Surjection(U, T)
    <3>. HIDE DEF h, U
    <3>. QED  BY <2>2, <2>3, Zenon DEF Surjection
  <2>. HIDE DEF h, U
  <2>5. IsFiniteSet(T) /\ Cardinality(T) <= Cardinality(U)  BY <2>1, <2>4, FS_Surjection, Zenon
  <2>6. Cardinality(T) \in Nat /\ Cardinality(S) \in Nat /\ Cardinality(U) \in Nat
    BY <1>3, <2>1, <2>5, FS_CardinalityType, Zenon
  <2>. QED  BY <2>1, <2>5, <2>6
<1>4. IsFiniteSet({}) /\ Cardinality({}) = 0  BY FS_EmptySet, Zenon
<1>5. \A S, x : IsFiniteSet(S) =>
        /\ IsFiniteSet(S \cup {x})
        /\ Cardinality(S \cup {x}) = IF x \in S THEN Cardinality(S) ELSE Cardinality(S) + 1
  BY FS_AddElement, Zenon
<1>6. \A S, T : IsFiniteSet(S) /\ IsFiniteSet(T) => IsFiniteSet(S \cup T)  BY FS_Union, Zenon
<1>7. \A T \in SUBSET Nat : T # {} => \E k \in T : \A j \in T : k <= j  BY <1>1, Zenon
<1>8. \A S, T, g : IsFiniteSet(S) /\ (\A y \in T : \E x \in S : y = g[x]) =>
        /\ IsFiniteSet(T) /\ Cardinality(T) <= Cardinality(S)
        /\ Cardinality(T) \in Nat /\ Cardinality(S) \in Nat
  BY <1>3, Zenon
<1>. QED  BY <1>2, <1>4, <1>5, <1>6, <1>7, <1>8, Zenon DEF Counting

\* What a sink buffers and what its jobs name are snapshots, files and leaves, and
\* a flush that is under way stands in a leaf for which its batch has rows.
LEMMA Typing == Spec => [](Types /\ PlaceInv)
<1>1. Init => Types /\ PlaceInv
  <2>1. SUFFICES ASSUME Init PROVE Types /\ PlaceInv  OBVIOUS
  <2>2. Idle \in Jobs /\ Idle.at = "idle"
    <3>1. 1 \in Nat /\ "idle" \in Places  BY DEF Places
    <3>. QED  BY <3>1 DEF Idle, Jobs
  <2>3. job \in [Sinks -> Jobs] /\ \A s \in Sinks : job[s].at = "idle"  BY <2>1, <2>2 DEF Init
  <2>4. /\ proc \in Deployments /\ failures \in [Sinks -> Nat] /\ held \in [Processes -> SUBSET Leaves]
        /\ staging \in [Leaves -> SUBSET Files] /\ files \in [Leaves -> SUBSET Files]
    BY <2>1 DEF Init
  <2>5. buf \in [Sinks -> Seq(Snapshots)] /\ fate \in Seq(Fates)
    <3>1. <<>> \in Seq(Snapshots) /\ <<>> \in Seq(Fates)  OBVIOUS
    <3>. QED  BY <2>1 DEF Init
  <2>6. index \in [Leaves -> Indexes]
    <3>1. [pieces |-> <<>>, synced |-> 0] \in Indexes  BY DEF Indexes
    <3>. QED  BY <2>1, <3>1 DEF Init
  <2>7. \A d \in Leaves : IsFiniteSet(staging[d]) /\ IsFiniteSet(files[d])
    BY <2>1, Counted DEF Init, Counting
  <2>8. PlaceInv  BY <2>3 DEF PlaceInv, Working, Locked
  <2>. QED  BY <2>3, <2>4, <2>5, <2>6, <2>7, <2>8 DEF Types
<1>2. Types /\ PlaceInv /\ [Next]_vars => (Types /\ PlaceInv)'
  <2>1. SUFFICES ASSUME Types, PlaceInv, [Next]_vars PROVE (Types /\ PlaceInv)'  OBVIOUS
  <2>2. proc' \in Deployments  BY <2>1, MemStep, Counted DEF Types
  <2>. QED  BY <2>1, PlaceStep, MemStep, Counted, DiskStep, Zenon DEF Types
<1>. QED  BY <1>1, <1>2, PTL DEF Spec

LEMMA Buffers == Spec => []BufInv
<1>1. Init => BufInv
  <2>1. SUFFICES ASSUME Init, NEW s \in Sinks PROVE BufOk(buf[s], fate, s)  BY DEF BufInv
  <2>2. buf[s] = <<>> /\ fate = <<>>  BY <2>1 DEF Init
  <2>3. DOMAIN <<>> = {} /\ Len(<<>>) = 0  OBVIOUS
  <2>4. 0 <= MAX_BUFFERED_SNAPSHOTS  BY LeafAssumption
  <2>. QED  BY <2>2, <2>4 DEF BufOk
<1>2. Types /\ BufInv /\ [Next]_vars => BufInv'  BY BufStep
<1>. QED  BY <1>1, <1>2, Typing, PTL DEF Spec

\* A flush that fails half way loses nothing: the buffer of every sink holds,
\* in order and within MAX_BUFFERED_SNAPSHOTS, exactly the snapshots that were
\* neither written, nor shed, nor lost with their process (BufferedSink).
THEOREM BufferKept == Spec => []BufferKeepsTheRest
BY Keeping, Typing, Buffers, PTL

LEMMA Locks == Spec => []LockInv
<1>1. Init => LockInv
  <2>1. SUFFICES ASSUME Init PROVE LockInv  OBVIOUS
  <2>2. \A s \in Sinks : job[s].at = "idle"  BY <2>1 DEF Init, Idle
  <2>3. \A p \in Processes : held[p] = {}  BY <2>1 DEF Init
  <2>. QED  BY <2>2, <2>3 DEF LockInv, Locked, Working
<1>2. Types /\ PlaceInv /\ LockInv /\ [Next]_vars => LockInv'  BY LockStep, Counted
<1>. QED  BY <1>1, <1>2, Typing, PTL DEF Spec

LEMMA Stages == Spec => []StageInv
<1>1. Init => StageInv
  <2>1. SUFFICES ASSUME Init PROVE StageInv  OBVIOUS
  <2>2. \A s \in Sinks : job[s].at = "idle"  BY <2>1 DEF Init, Idle
  <2>. QED  BY <2>2 DEF StageInv
<1>2. Types /\ PlaceInv /\ StageInv /\ [Next]_vars => StageInv'  BY StageStep, Counted
<1>. QED  BY <1>1, <1>2, Typing, PTL DEF Spec

\* No step of another process removes a staged file that a flush is about to
\* fsync or rename: sweep_staging runs under the leaf lock, and only the sinks of
\* one process share it (acquire_leaf_lock).
THEOREM SweepSpares == Spec => SweepSparesOtherProcesses
<1>1. Types /\ PlaceInv /\ LockInv /\ [Next]_vars =>
        [\A s \in Sinks : Disturbed(s) => \E t \in Sinks \ {s} : proc[t] = proc[s] /\ job[t] # job'[t]]_vars
  BY SweepStep, Counted, Zenon
<1>. QED  BY <1>1, Typing, Locks, PTL DEF Spec, SweepSparesOtherProcesses

LEMMA FilesSound == Spec => []FileInv
<1>1. Init => FileInv
  <2>1. SUFFICES ASSUME Init PROVE FileInv  OBVIOUS
  <2>2. /\ \A s \in Sinks : job[s].at = "idle"
        /\ \A d \in Leaves : files[d] = {} /\ index[d].pieces = <<>> /\ index[d].synced = 0
        /\ fate = <<>>
    BY <2>1 DEF Init, Idle
  <2>3. \A s \in Sinks : Done(s) = {}  BY <2>2 DEF Done, Working
  <2>4. \A d \in Leaves : DOMAIN index[d].pieces = {} /\ Len(index[d].pieces) = 0  BY <2>2
  <2>5. \A d \in Leaves : index[d].synced <= Len(index[d].pieces)  BY <2>2
  <2>6. \A d \in Leaves : /\ index[d].synced <= Len(index[d].pieces)
                         /\ \A j \in DOMAIN index[d].pieces :
                              \E f \in files[d] : f.linked /\ f.name = index[d].pieces[j].name
    BY <2>4, <2>5, Zenon
  <2>7. DOMAIN fate = {}  BY <2>2
  <2>8. \A s \in Sinks : job[s].at \notin {"dirsync", "append", "appendsync"}  BY <2>2
  <2>9. \A d \in Leaves : \A f \in files[d] : f.whole /\ f.synced  BY <2>2
  <2>. QED  BY <2>3, <2>6, <2>7, <2>8, <2>9, Zenon DEF FileInv
<1>2. Types /\ PlaceInv /\ BufInv /\ StageInv /\ FileInv /\ [Next]_vars => FileInv'  BY FileStep, Counted
<1>. QED  BY <1>1, <1>2, Typing, Buffers, Stages, PTL DEF Spec

\* What a flush reported written is in a whole file of every leaf it has rows for,
\* after any failed flush, kill and power loss that follows (flush_snapshots and
\* finalize_into, in the order fsync, rename, directory fsync, append).
THEOREM FlushedIsKept == Spec => []FlushedSurvives
<1>1. ASSUME Types, FileInv PROVE FlushedSurvives
  <2>. SUFFICES ASSUME NEW i \in DOMAIN fate, fate[i].is = "flushed", NEW d \in fate[i].has
                PROVE  \E f \in files[d] : f.whole /\ i \in f.rows
    BY Zenon DEF FlushedSurvives
  <2>1. d \in Leaves
    <3>1. fate[i] \in Fates  BY <1>1 DEF Types
    <3>. QED  BY <3>1 DEF Fates
  <2>2. Kept(d, i)  BY <1>1, Zenon DEF FileInv
  <2>. QED  BY <1>1, <2>1, Zenon DEF FileInv, Kept
<1>. QED  BY <1>1, Typing, FilesSound, PTL

\* Readers of a leaf never see a torn file, and no line of its index that parses
\* names a file that is missing (finalize_into; append_entry only after fsync_leaf).
THEOREM LeavesAreSound == Spec => []LeafIsSound
<1>1. ASSUME FileInv PROVE LeafIsSound
  <2>. SUFFICES ASSUME NEW d \in Leaves
                PROVE  /\ \A f \in files[d] : f.whole
                       /\ read_index(index[d]) \subseteq {f.name : f \in files[d]}
    BY Zenon DEF LeafIsSound
  <2>1. \A f \in files[d] : f.whole  BY <1>1, Zenon DEF FileInv
  <2>2. \A j \in DOMAIN index[d].pieces : \E f \in files[d] : f.linked /\ f.name = index[d].pieces[j].name
    BY <1>1, Zenon DEF FileInv
  <2>3. ASSUME NEW name \in read_index(index[d]) PROVE \E f \in files[d] : f.name = name
    <3>1. PICK j \in DOMAIN index[d].pieces : name = index[d].pieces[j].name
      BY Zenon DEF read_index
    <3>. QED  BY <2>2, <3>1
  <2>. QED  BY <2>1, <2>3
<1>. QED  BY <1>1, FilesSound, PTL

\* Rows are written again only by the retry of a flush that failed: a leaf holds at
\* most one copy of a snapshot's rows more than the failures its sink counted
\* (BufferedSink::flush keeps the buffer and retries every datatype of the batch).
THEOREM CopiesAreRetries == Spec => []CopiesComeFromRetries
<1>1. Init => CopyInv
  <2>1. SUFFICES ASSUME Init PROVE CopyInv  OBVIOUS
  <2>2. /\ \A d \in Leaves : files[d] = {}
        /\ DOMAIN fate = {}
    BY <2>1 DEF Init
  <2>. QED  BY <2>2 DEF CopyInv
<1>2. Types /\ Types' /\ PlaceInv /\ BufInv /\ StageInv /\ CopyInv /\ [Next]_vars => CopyInv'  BY CopyStep, Counted
<1>3. ASSUME Types, CopyInv PROVE CopiesComeFromRetries
  <2>. SUFFICES ASSUME NEW s \in Sinks, NEW d \in Leaves, NEW i \in DOMAIN fate
                PROVE  Cardinality({f \in files[d] : f.name[1] = s /\ i \in f.rows}) <= 1 + failures[s]
    BY Zenon DEF CopiesComeFromRetries
  <2>. DEFINE n == Cardinality(Copies(s, d, i))
  <2>1. n = Cardinality({f \in files[d] : f.name[1] = s /\ i \in f.rows})  BY DEF Copies
  <2>2. n <= failures[s] + IF fate[i].is = "buffered" /\ ~Placed(s, d) THEN 0 ELSE 1
    BY <1>3, Zenon DEF CopyInv
  <2>3. failures[s] \in Nat  BY <1>3 DEF Types
  <2>4. n \in Nat
    <3>1. IsFiniteSet(files[d]) /\ Copies(s, d, i) \subseteq files[d]  BY <1>3, Zenon DEF Types, Copies
    <3>. QED  BY <3>1, Counted, Part
  <2>. HIDE DEF n
  <2>5. n <= 1 + failures[s]  BY <2>2, <2>3, <2>4
  <2>. QED  BY <2>1, <2>5
<1>. QED  BY <1>1, <1>2, <1>3, Typing, Buffers, Stages, PTL DEF Spec

=============================================================================

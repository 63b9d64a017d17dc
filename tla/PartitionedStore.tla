-------------------------- MODULE PartitionedStore --------------------------
(***************************************************************************)
(* The accumulators of a read (PartitionedStore).  Every thread fills a    *)
(* store of its own from the pixels of one stripe of a block, then absorbs *)
(* it: cells are grouped by partition and each group is merged under its   *)
(* partition's lock, in partition order, one lock at a time.               *)
(***************************************************************************)
EXTENDS CellStore, Functions

CONSTANTS
  Cell, Class,
  Column,   \* the output columns
  Part,     \* partitions, 0..2^log2p - 1
  PartOf,   \* partition_of: a hash of the cell
  Thread,
  Cols,     \* each thread's source: its local bands and their columns
  Mapped,   \* the threads whose source needs the column map
  Lengths,  \* lengths of the runs of pixels, and weights of a pixel
  MaxPush,  \* bounds on the runs or pixels each thread pushes
  NoThread  \* holder of a free lock

\* plan_bands: a source's bands go to distinct columns, and no map is kept
\* when they are all the columns in order.
ColumnsAssumption ==
  /\ DOMAIN Cols = Thread
  /\ \A t \in Thread :
       /\ DOMAIN Cols[t] # {}
       /\ \A b \in DOMAIN Cols[t] : Cols[t][b] \in Column
       /\ \A a, b \in DOMAIN Cols[t] : Cols[t][a] = Cols[t][b] => a = b
       /\ t \notin Mapped => DOMAIN Cols[t] = Column /\ \A b \in Column : Cols[t][b] = b

PartsAssumption ==
  /\ Part \subseteq Nat
  /\ PartOf \in [Cell -> Part]
  /\ Lengths \subseteq Nat \ {0}
  /\ NoThread \notin Thread
  /\ IsFiniteSet(Thread)

ASSUME StoreAssumption == ColumnsAssumption /\ PartsAssumption

VARIABLES
  mode,    \* sampling of the read: "centre" or "overlay"
  pc,      \* what each thread is doing
  stripe,  \* each thread's own store
  pushes,  \* runs or pixels each thread has pushed
  merged,  \* the cells of its stripe a thread has merged
  lock,    \* the thread holding each partition's mutex
  parts,   \* the partitions' stores
  given    \* what the pixels read so far weigh, per cell and column

vars == <<mode, pc, stripe, pushes, merged, lock, parts, given>>

Local(t) == DOMAIN Cols[t]

Init ==
  /\ mode \in {"centre", "overlay"}
  /\ pc = [t \in Thread |-> "filling"]
  /\ stripe = [t \in Thread |-> EmptyStore(Local(t))]
  /\ pushes = [t \in Thread |-> 0]
  /\ merged = [t \in Thread |-> {}]
  /\ lock = [p \in Part |-> NoThread]
  /\ parts = [p \in Part |-> EmptyStore(Column)]
  /\ given = [cell \in Cell |-> [c \in Column |-> 0]]

-----------------------------------------------------------------------------
(* Filling a stripe. *)

Push(t, cell, n, ws, k) ==
  /\ pc[t] = "filling"
  /\ pushes[t] < MaxPush[t]
  /\ pushes' = [pushes EXCEPT ![t] = @ + 1]
  /\ \/ /\ PushFails(stripe[t], cell, ws, k)
        /\ pc' = [pc EXCEPT ![t] = "failed"]
        /\ UNCHANGED <<stripe, given>>
     \/ /\ ~PushFails(stripe[t], cell, ws, k)
        /\ stripe' = [stripe EXCEPT ![t] = Pushed(stripe[t], cell, n, ws, k)]
        /\ given' = [given EXCEPT ![cell] = [c \in Column |-> @[c] + Scatter(Cols[t], Column, ws, 0)[c]]]
        /\ UNCHANGED pc
  /\ UNCHANGED <<mode, merged, lock, parts>>

\* process_tile: a run of n pixels of one cell, each valid in some band; ws[b]
\* of them are valid in band b.
PushRun(t, cell, n, ws, k) ==
  /\ mode = "centre"
  /\ n <= SumFunction(ws)
  /\ Push(t, cell, n, ws, k)

\* push_pixel: the part of a pixel that overlaps the cell, some bands valid.
PushPixel(t, cell, w, valid, k) ==
  /\ mode = "overlay"
  /\ valid # {}
  /\ Push(t, cell, w, [b \in Local(t) |-> IF b \in valid THEN w ELSE 0], k)

-----------------------------------------------------------------------------
(* Absorbing it. *)

\* The cells of partition p thread t has still to merge.
Group(t, p) == {cell \in Known(stripe[t]) \ merged[t] : PartOf[cell] = p}

StartAbsorb(t) ==
  /\ pc[t] = "filling"
  /\ pc' = [pc EXCEPT ![t] = IF Known(stripe[t]) = {} THEN "done" ELSE "absorbing"]
  /\ UNCHANGED <<mode, stripe, pushes, merged, lock, parts, given>>

Lock(t, p) ==
  /\ pc[t] = "absorbing"
  /\ \A q \in Part : lock[q] # t
  /\ Group(t, p) # {}
  /\ \A q \in Part : q < p => Group(t, q) = {}
  /\ lock[p] = NoThread
  /\ lock' = [lock EXCEPT ![p] = t]
  /\ UNCHANGED <<mode, pc, stripe, pushes, merged, parts, given>>

\* One cell of the group; the guard is dropped behind the last one.
MergeCell(t, cell) ==
  LET p == PartOf[cell]
  IN /\ pc[t] = "absorbing"
     /\ lock[p] = t
     /\ cell \in Group(t, p)
     /\ ~MergeOverflows(parts[p], stripe[t], cell, Cols[t])
     /\ parts' = [parts EXCEPT ![p] = MergedCell(parts[p], stripe[t], cell, Cols[t], t \in Mapped)]
     /\ merged' = [merged EXCEPT ![t] = @ \cup {cell}]
     /\ lock' = IF Group(t, p) = {cell} THEN [lock EXCEPT ![p] = NoThread] ELSE lock
     /\ pc' = IF Known(stripe[t]) \ merged[t] = {cell} THEN [pc EXCEPT ![t] = "done"] ELSE pc
     /\ UNCHANGED <<mode, stripe, pushes, given>>

\* A slip to tell MergeFails from: the failed merge keeps the guard.
MergeFailsLocked(t, cell) ==
  LET p == PartOf[cell]
  IN /\ pc[t] = "absorbing"
     /\ lock[p] = t
     /\ cell \in Group(t, p)
     /\ MergeOverflows(parts[p], stripe[t], cell, Cols[t])
     /\ parts' = [parts EXCEPT ![p] = WithSums(parts[p], stripe[t], cell, Cols[t])]
     /\ pc' = [pc EXCEPT ![t] = "failed"]
     /\ UNCHANGED <<mode, stripe, pushes, merged, lock, given>>

\* A class too many: the sums are merged, classes and weights are not, and
\* the guard is dropped with the error.  (Classes pushed before the one
\* refused are left out: a read that failed reads no store.)
MergeFails(t, cell) ==
  LET p == PartOf[cell]
  IN /\ pc[t] = "absorbing"
     /\ lock[p] = t
     /\ cell \in Group(t, p)
     /\ MergeOverflows(parts[p], stripe[t], cell, Cols[t])
     /\ parts' = [parts EXCEPT ![p] = WithSums(parts[p], stripe[t], cell, Cols[t])]
     /\ lock' = [lock EXCEPT ![p] = NoThread]
     /\ pc' = [pc EXCEPT ![t] = "failed"]
     /\ UNCHANGED <<mode, stripe, pushes, merged, given>>

\* A slip: the next stripe starts in the store that was just absorbed.
NextStripeKeepsStore(t) ==
  /\ pc[t] = "done"
  /\ pushes[t] < MaxPush[t]
  /\ pc' = [pc EXCEPT ![t] = "filling"]
  /\ merged' = [merged EXCEPT ![t] = {}]
  /\ UNCHANGED <<mode, stripe, pushes, lock, parts, given>>

\* The thread goes on with another stripe, of the same source.
NextStripe(t) ==
  /\ pc[t] = "done"
  /\ pushes[t] < MaxPush[t]
  /\ pc' = [pc EXCEPT ![t] = "filling"]
  /\ stripe' = [stripe EXCEPT ![t] = EmptyStore(Local(t))]
  /\ merged' = [merged EXCEPT ![t] = {}]
  /\ UNCHANGED <<mode, pushes, lock, parts, given>>

-----------------------------------------------------------------------------

FillStep(t) ==
  \E cell \in Cell, n \in Lengths, k \in Class :
    \/ \E ws \in [Local(t) -> 0..n] : PushRun(t, cell, n, ws, k)
    \/ \E valid \in SUBSET Local(t) : PushPixel(t, cell, n, valid, k)

AbsorbStep(t) ==
  \/ \E p \in Part : Lock(t, p)
  \/ \E cell \in Cell : MergeCell(t, cell) \/ MergeFails(t, cell)

Next ==
  \E t \in Thread :
    \/ FillStep(t)
    \/ StartAbsorb(t)
    \/ AbsorbStep(t)
    \/ NextStripe(t)

Spec == Init /\ [][Next]_vars

-----------------------------------------------------------------------------
(* Properties. *)

TypeOK ==
  /\ mode \in {"centre", "overlay"}
  /\ pc \in [Thread -> {"filling", "absorbing", "done", "failed"}]
  /\ lock \in [Part -> Thread \cup {NoThread}]
  /\ \A t \in Thread : Known(stripe[t]) \subseteq Cell /\ merged[t] \subseteq Known(stripe[t])
  /\ \A p \in Part : \A cell \in Known(parts[p]) : cell \in Cell /\ PartOf[cell] = p

NoFailure == \A t \in Thread : pc[t] # "failed"

\* Wherever a cell's weights are kept - shared, split, or split on one side
\* of a merge only - they are the weights of the values its sums hold, so
\* every mean divides by what it added up.
MeansAreExact ==
  /\ \A t \in Thread : WeightsMatchSums(stripe[t])
  /\ NoFailure => \A p \in Part : WeightsMatchSums(parts[p])

\* The weight of a cell's column in a store that has it.
WeightIn(st, cell, c) == IF cell \in Known(st) THEN WeightsOf(st, cell)[c] ELSE 0

\* What a thread still holds for a column.
Unmerged(t, cell, c) ==
  IF cell \in Known(stripe[t]) \ merged[t]
  THEN Scatter(Cols[t], Column, WeightsOf(stripe[t], cell), 0)[c] ELSE 0

\* Every pixel's weight is in its cell's partition or in one stripe, once:
\* concurrent merges neither lose nor double one.  The class weights of a
\* column add up to its weight, so a majority is taken over the same pixels.
WeightConserved ==
  NoFailure =>
    /\ \A cell \in Cell, c \in Column :
         given[cell][c] = WeightIn(parts[PartOf[cell]], cell, c)
                          + SumFunction([t \in Thread |-> Unmerged(t, cell, c)])
    /\ \A p \in Part : \A cell \in Known(parts[p]) : \A c \in Column :
         SumFunction(parts[p].cat[cell][c]) = WeightsOf(parts[p], cell)[c]

\* A thread that holds a lock never waits for another one: it has a cell of
\* that partition to merge, and no lock is left behind by an error or by the
\* last cell of a group.  So no absorb can wait for ever.
HoldersCanMove ==
  \A p \in Part, t \in Thread :
    lock[p] = t =>
      /\ pc[t] = "absorbing"
      /\ Group(t, p) # {}
      /\ \A q \in Part : lock[q] = t => q = p
=============================================================================

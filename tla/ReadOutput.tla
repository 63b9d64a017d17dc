----------------------------- MODULE ReadOutput -----------------------------
(***************************************************************************)
(* From the stripes of a read to its rows and to the file they are written *)
(* to: the stores filled stripe by stripe, Aggregate and composite_output  *)
(* of read.rs, and the writer of parquet_write.rs.                         *)
(*                                                                         *)
(* The stripes of all sources are worked on at once; each is absorbed when *)
(* it is done, so they are absorbed in any order.  (PartitionedStore is    *)
(* about two absorbed at the same time.)                                   *)
(***************************************************************************)
EXTENDS TileIndexing, Compositing

CONSTANTS
  Requests,     \* the reads asked for
  Partitions,   \* how many stores a read's cells are spread over
  RowGroupRows  \* ROW_GROUP_ROWS

VARIABLES
  req,     \* the read
  todo,    \* its stripes not absorbed yet
  parts,   \* its stores: one sequence of partitions per source, or one alone
  phase,
  table,   \* what is to be returned or written
  file,    \* the file at the destination: how far it is, and its row groups
  start,   \* the first row not written
  result
vars == <<req, todo, parts, phase, table, file, start, result>>

-----------------------------------------------------------------------------
(* Filling the stores. *)

StripesOf(q) ==
  UNION {UNION {{[src |-> s, tile |-> t, rows |-> r] : r \in Stripes(q.sources[s].ctx, q.sources[s].tiles[t])}
                : t \in DOMAIN q.sources[s].tiles} : s \in DOMAIN q.sources}

PerSource(q) == q.composite # ""
StoreOf(q, s) == IF PerSource(q) THEN s ELSE 1
PartitionOf(cell) == 1 + (cell % Partitions)

NoFile == [state |-> "absent", groups |-> <<>>]

\* What an earlier read left there: a row of its own.
EarlierFile == [state |-> "closed", groups |-> <<<<<<0>>>>>>]

NoTable == [cells |-> <<>>, columns |-> <<>>, npix |-> <<>>, fractions |-> <<>>]

Init ==
  /\ req \in Requests
  /\ todo = StripesOf(req)
  /\ parts = [s \in 1..(IF PerSource(req) THEN Len(req.sources) ELSE 1) |->
                [p \in 1..Partitions |-> EmptyStore]]
  /\ phase = "reading"
  /\ table = NoTable
  /\ file \in {NoFile} \cup (IF req.dest = "file" THEN {EarlierFile} ELSE {})
  /\ start = 1
  /\ result = "none"

\* The cells of a stripe's store, by partition.
InPartition(delta, p) == Restrict(delta, {c \in DOMAIN delta : PartitionOf(c) = p})

AbsorbStripe(t) ==
  LET src == req.sources[t.src]
      at  == StoreOf(req, t.src)
  IN /\ phase = "reading"
     /\ t \in todo
     /\ \E delta \in {IndexStripe(src.ctx, src.tiles[t.tile], t.rows)} :
          parts' = [parts EXCEPT ![at] = [p \in 1..Partitions |->
                      Absorb(src.ctx, @[p], InPartition(delta, p), req.columns)]]
     /\ todo' = todo \ {t}
     /\ UNCHANGED <<req, phase, table, file, start, result>>

-----------------------------------------------------------------------------
(* The rows. *)

CellsIn(store) == UNION {DOMAIN store[p] : p \in DOMAIN store}
Ascending(cells) == [i \in 1..Cardinality(cells) |-> CHOOSE c \in cells : Cardinality({d \in cells : d < c}) = i - 1]

CellIn(store, cell) == store[PartitionOf(cell)][cell]

Layout == LayoutFor(Range(req.stats))

Value(store, cell, stat, col) ==
  LET rec == CellIn(store, cell)
  IN IF stat = "majority" THEN MajorityAndWeight(rec.cat[col])[1] ELSE Finalise(Layout, rec.cont[col], stat)

\* What a source's value weighs in a composite.
Weight(store, cell, stat, col) ==
  LET rec == CellIn(store, cell)
  IN IF stat = "majority" THEN MajorityAndWeight(rec.cat[col])[2] ELSE rec.cont[col].w

\* Columns go statistic by statistic, and band by band within one.
ColumnKeys == [k \in 1..(Len(req.stats) * req.columns) |->
                 [stat |-> req.stats[((k - 1) \div req.columns) + 1], col |-> ((k - 1) % req.columns) + 1]]

\* A cell's classes in order, and the share of each.
SharesOf(m) ==
  LET tot == Total(LAMBDA c : m[c], DOMAIN m)
      classes == SetToSortSeq(DOMAIN m, Less)
  IN IF Less(Zero, tot) THEN [k \in DOMAIN classes |-> <<classes[k], Over(m[classes[k]], tot)>>] ELSE <<>>

\* For each band, all cells' shares end to end, and where each cell's start.
FractionsOf(store, cells) ==
  [col \in 1..req.columns |->
     LET of(i) == SharesOf(CellIn(store, cells[i]).cat[col])
     IN [shares  |-> FlattenSeq([i \in DOMAIN cells |-> of(i)]),
         offsets |-> [i \in 1..(Len(cells) + 1) |-> MapThenSumSet(LAMBDA j : Len(of(j)), 1..(i - 1))]]]

PooledTable ==
  LET store == parts[1]
      cells == Ascending(CellsIn(store))
  IN [cells     |-> cells,
      columns   |-> [k \in DOMAIN ColumnKeys |-> [i \in DOMAIN cells |->
                       Value(store, cells[i], ColumnKeys[k].stat, ColumnKeys[k].col)]],
      npix      |-> IF req.npix THEN [i \in DOMAIN cells |-> CellIn(store, cells[i]).npix] ELSE <<>>,
      fractions |-> IF req.fractions THEN FractionsOf(store, cells) ELSE <<>>]

\* The values of the sources that have some in the cell, with their weights.
SourceValues(cell, key) ==
  LET has == SelectSeq([s \in DOMAIN parts |-> s], LAMBDA s : cell \in CellsIn(parts[s]))
      all == [k \in DOMAIN has |-> <<Value(parts[has[k]], cell, key.stat, key.col),
                                     Weight(parts[has[k]], cell, key.stat, key.col)>>]
  IN SelectSeq(all, LAMBDA vw : Less(Zero, vw[2]) /\ ~IsNaN(vw[1]))

CompositeTable ==
  LET cells == Ascending(UNION {CellsIn(parts[s]) : s \in DOMAIN parts})
  IN [cells     |-> cells,
      columns   |-> [k \in DOMAIN ColumnKeys |-> [i \in DOMAIN cells |->
                       Reduce(req.composite, SourceValues(cells[i], ColumnKeys[k]))]],
      npix      |-> <<>>,
      fractions |-> <<>>]

Finish ==
  /\ phase = "reading"
  /\ todo = {}
  /\ \E t \in {IF PerSource(req) THEN CompositeTable ELSE PooledTable} : table' = t
  /\ IF req.dest = "file" THEN phase' = "create" /\ result' = result
                          ELSE phase' = "done" /\ result' = "ok"
  /\ UNCHANGED <<req, todo, parts, file, start>>

-----------------------------------------------------------------------------
(* The file. Each call into it may fail, and the writer then stops. *)

\* Whatever is there goes first.
CreateFile ==
  /\ phase = "create"
  /\ file' = [state |-> "open", groups |-> <<>>]
  /\ phase' = "write"
  /\ UNCHANGED <<req, todo, parts, table, start, result>>

\* The file's columns in order; as vectors, one per statistic, whose rows
\* hold the bands.
FileColumns ==
  LET wide == IF req.vector
              THEN [s \in DOMAIN req.stats |-> [i \in DOMAIN table.cells |->
                      [b \in 1..req.columns |-> table.columns[(s - 1) * req.columns + b][i]]]]
              ELSE table.columns
  IN <<table.cells>> \o wide \o (IF req.npix THEN <<table.npix>> ELSE <<>>)

\* A slip: the next group starts a row late.
WriteGroupLate ==
  /\ phase = "write"
  /\ LET len == Min({RowGroupRows, Len(table.cells) - start + 1})
     IN /\ file' = [file EXCEPT !.groups = Append(@,
                      [k \in DOMAIN FileColumns |-> SubSeq(FileColumns[k], start, start + len - 1)])]
        /\ start' = Min({start + len + 1, Len(table.cells) + 1})
        /\ phase' = IF start' > Len(table.cells) THEN "close" ELSE "write"
  /\ UNCHANGED <<req, todo, parts, table, result>>

\* One row group at least, so that an empty read still has its columns.
WriteGroup ==
  /\ phase = "write"
  /\ LET len == Min({RowGroupRows, Len(table.cells) - start + 1})
     IN /\ file' = [file EXCEPT !.groups = Append(@,
                      [k \in DOMAIN FileColumns |-> SubSeq(FileColumns[k], start, start + len - 1)])]
        /\ start' = start + len
        /\ phase' = IF start + len > Len(table.cells) THEN "close" ELSE "write"
  /\ UNCHANGED <<req, todo, parts, table, result>>

\* The footer is what makes the file readable.
CloseFile ==
  /\ phase = "close"
  /\ file' = [file EXCEPT !.state = "closed"]
  /\ phase' = "done"
  /\ result' = "ok"
  /\ UNCHANGED <<req, todo, parts, table, start>>

\* What was written stays.
CallFails ==
  /\ phase \in {"create", "write", "close"}
  /\ phase' = "done"
  /\ result' = "error"
  /\ UNCHANGED <<req, todo, parts, table, file, start>>

Stopped == phase = "done" /\ UNCHANGED vars

Next ==
  \/ \E t \in todo : AbsorbStripe(t)
  \/ Finish \/ CreateFile \/ WriteGroup \/ CloseFile \/ CallFails
  \/ Stopped

Spec == Init /\ [][Next]_vars

-----------------------------------------------------------------------------
(* Properties. *)

\* A write reported as done leaves a readable file (with its footer), whose row
\* groups, none above the limit and at least one, hold end to end every row of
\* the read, once and in order, in the columns of the read's statistics and
\* bands; and a file that is readable otherwise is the one that was there
\* before, untouched (write_columns_parquet, parquet_write.rs:272-320).
FileHoldsTheRead ==
  /\ file.state = "closed" => result = "ok" \/ file = EarlierFile
  /\ \A g \in DOMAIN file.groups : Len(file.groups[g][1]) <= RowGroupRows
  /\ req.dest = "file" /\ result = "ok" =>
       LET whole(k) == FlattenSeq([g \in DOMAIN file.groups |-> file.groups[g][k]])
           n == Len(table.cells)
       IN /\ file.state = "closed"
          /\ Len(file.groups) >= 1
          /\ whole(1) = table.cells
          /\ \A i \in 1..n : \A k \in DOMAIN ColumnKeys :
               LET s == ((k - 1) \div req.columns) + 1
               IN table.columns[k][i] =
                    IF req.vector THEN whole(1 + s)[i][ColumnKeys[k].col] ELSE whole(1 + k)[i]
          /\ req.npix => whole(Len(file.groups[1])) = table.npix
=============================================================================

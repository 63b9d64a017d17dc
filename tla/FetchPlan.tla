----------------------------- MODULE FetchPlan ------------------------------
(***************************************************************************)
(* How the producer groups the planned blocks of every source into fetch   *)
(* units: plan_strips, the cap on the strip length, and the list of units  *)
(* the stream hands out.                                                   *)
(***************************************************************************)
EXTENDS Integers, Sequences, SequencesExt

CONSTANT StripBlocks  \* STRIP_BLOCKS: blocks per fetch task, at most

ASSUME StripBlocksAssumption == StripBlocks \in Nat \ {0}

\* A block of a source's tile grid.
TileAt(x, y) == [tx |-> x, ty |-> y]

\* A slip to tell Extends from: the tile row is not compared.
ExtendsAcrossRows(run, tile, maxLen) ==
  /\ Len(run) < maxLen
  /\ Last(run).tx + 1 = tile.tx

\* Whether tile extends the run: the next column of the same tile row.
Extends(run, tile, maxLen) ==
  /\ Len(run) < maxLen
  /\ Last(run).ty = tile.ty
  /\ Last(run).tx + 1 = tile.tx

\* A slip: the new run takes the place of the last one.
AddTileOverRun(acc, tile) ==
  LET runs == acc.runs
  IN [runs |-> IF runs # <<>> /\ Extends(Last(runs), tile, acc.maxLen)
               THEN ReplaceAt(runs, Len(runs), Append(Last(runs), tile))
               ELSE Append(IF runs = <<>> THEN runs ELSE Front(runs), <<tile>>),
      maxLen |-> acc.maxLen]

\* The loop body of plan_strips: extend the last run or open a new one.
AddTile(acc, tile) ==
  LET runs == acc.runs
  IN [runs |-> IF runs # <<>> /\ Extends(Last(runs), tile, acc.maxLen)
               THEN ReplaceAt(runs, Len(runs), Append(Last(runs), tile))
               ELSE Append(runs, <<tile>>),
      maxLen |-> acc.maxLen]

\* Runs of up to maxLen consecutive blocks of one tile row, in planning order.
PlanStrips(tiles, maxLen) ==
  FoldLeft(AddTile, [runs |-> <<>>, maxLen |-> maxLen], tiles).runs

Clamp(n, lo, hi) == IF n < lo THEN lo ELSE IF n > hi THEN hi ELSE n
DivCeil(n, d) == (n + d - 1) \div d

\* The longest strip of a read of total blocks at this io_concurrency.
StripLength(total, ioConcurrency) ==
  Clamp(DivCeil(total, ioConcurrency), 1, StripBlocks)

\* A source's plan: its blocks, in row-major order, and whether it fetches strips.
UnitsOfPlan(plan, maxLen) ==
  IF plan.strips THEN PlanStrips(plan.tiles, maxLen)
  ELSE [i \in DOMAIN plan.tiles |-> <<plan.tiles[i]>>]

TotalTiles(plans) ==
  FoldLeft(LAMBDA n, plan : n + Len(plan.tiles), 0, plans)

\* The units of every source, source by source; each block tagged with its source.
FetchUnits(plans, ioConcurrency) ==
  LET maxLen == StripLength(TotalTiles(plans), ioConcurrency)
      tagged(s) == [k \in DOMAIN UnitsOfPlan(plans[s], maxLen) |->
                      LET run == UnitsOfPlan(plans[s], maxLen)[k]
                      IN [i \in DOMAIN run |-> <<s, run[i]>>]]
  IN FlattenSeq([s \in DOMAIN plans |-> tagged(s)])
=============================================================================

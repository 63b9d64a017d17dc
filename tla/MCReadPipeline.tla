--------------------------- MODULE MCReadPipeline ---------------------------
(***************************************************************************)
(* A small read for TLC: two sources, one fetched in strips and one block  *)
(* by block, with one block more than the channel and both workers hold.   *)
(***************************************************************************)
EXTENDS ReadPipeline

CONSTANT StripBlocks

FP == INSTANCE FetchPlan

\* A row of n blocks of a tile grid.
Row(n) == [i \in 1..n |-> [tx |-> i - 1, ty |-> 0]]

\* The sources' plans: five blocks in strips, two blocks one by one.
MCPlans == <<[tiles |-> Row(5), strips |-> TRUE], [tiles |-> Row(2), strips |-> FALSE]>>

Block(s, x) == <<s, [tx |-> x, ty |-> 0]>>
MCUnits == << <<Block(1, 0), Block(1, 1)>>, <<Block(1, 2), Block(1, 3)>>, <<Block(1, 4)>>,
              <<Block(2, 0)>>, <<Block(2, 1)>> >>
MCTile == {Block(1, x) : x \in 0..4} \cup {Block(2, x) : x \in 0..1}

\* The units written out above are those the producer builds from the plans.
ASSUME UnitsAreFetchUnits == Units = FP!FetchUnits(MCPlans, IoConcurrency)
=============================================================================

------------------------- MODULE MCPartitionedStore -------------------------
(***************************************************************************)
(* Two cells in two partitions, two columns; one thread reads a source     *)
(* with both, the other one with the second column only.                   *)
(***************************************************************************)
EXTENDS PartitionedStore, TLC

MCPartOf == (1 :> 0) @@ (2 :> 1)
MCCols == ("full" :> (1 :> 1 @@ 2 :> 2)) @@ ("partial" :> (1 :> 2))
MCMaxPush == ("full" :> 2) @@ ("partial" :> 1)
=============================================================================

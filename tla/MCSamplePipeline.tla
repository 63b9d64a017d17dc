-------------------------- MODULE MCSamplePipeline --------------------------
(***************************************************************************)
(* A raster of 6 x 6 pixels in four blocks, three of them cut off by its   *)
(* edge, sampled bicubically in two bands beside a second source.  The     *)
(* centres lie inside a block, across all four, where the bilinear stencil *)
(* crosses them too, at the edge of the raster, and beyond it.             *)
(***************************************************************************)
EXTENDS SamplePipeline, TLC

MCBands == 1..2
MCCells == 1..5
MCCentre == <<<<4, 4>>, <<6, 6>>, <<8, 7>>, <<10, 6>>, <<14, 2>>>>
MCValue == [b \in MCBands |-> [p \in (0..5) \X (0..5) |-> p[1] * p[1] + 3 * p[2] * p[2] + p[1] * p[2] + b]]

MCTile == {<<0, 0>>, <<1, 0>>, <<0, 1>>, <<1, 1>>}
MCUnits == << <<<<1, 0>>>>, <<<<0, 0>>>>, <<<<1, 1>>>>, <<<<0, 1>>>> >>
MCWorkers == Share(3, 2)

\* Nothing missing; a pixel of band 1 missing that outer lobes use; the mask
\* over a corner of the bilinear stencil at the blocks' corner; the bilinear
\* pixels of one centre missing in both bands.
MCScenes ==
  {[masked |-> {}, missing |-> {}],
   [masked |-> {}, missing |-> {<<1, <<1, 2>>>>}],
   [masked |-> {<<4, 3>>}, missing |-> {}],
   [masked |-> {<<2, 2>>}, missing |-> MCBands \X ({4, 5} \X {2, 3})]}

\* The second source has its own sample of cells 3 and 5, of cell 5 in one band.
MCOthers == <<(3 :> <<<<7, 1>>, <<8, 1>>>>) @@ (5 :> <<<<9, 1>>, NoSample>>)>>
MCSlots == <<<<1, 2>>, <<1, 2>>>>
=============================================================================

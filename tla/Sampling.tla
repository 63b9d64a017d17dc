------------------------------ MODULE Sampling ------------------------------
(***************************************************************************)
(* Sampling one source at cell centres (sample.rs), as operators.          *)
(*                                                                         *)
(* A centre's sample is a weighted sum over a stencil of pixels.  The      *)
(* stencil may cross the edges of blocks, of the raster and of what is     *)
(* valid, so a worker leaves one record per centre and block it handled,   *)
(* and the records are added up when every worker is done.  Centres lie on *)
(* half pixels here, where the kernels' weights are exact: sums and        *)
(* weights are integers, in units of 1/16 along each axis.                 *)
(***************************************************************************)
EXTENDS Integers, Sequences, FiniteSets, FiniteSetsExt, Functions

CONSTANTS
  Width, Height,    \* of the raster, in pixels
  TileW, TileH,     \* of a block
  Bands,            \* the selected bands, 1..n_out
  Cells,            \* ids of the cells asked for
  Centre,           \* the pixel coordinates of each cell's centre, in half pixels
  Interp,           \* "nearest", "bilinear", "bicubic" or "lanczos"
  Value,            \* the decoded value of each band and pixel
  NoSample          \* NaN

Pixels == (0..(Width - 1)) \X (0..(Height - 1))
Kernels == {"nearest", "bilinear", "bicubic", "lanczos"}

\* Rasters and blocks have pixels; weights and values can be multiplied exactly.
ASSUME SamplingAssumption ==
  /\ {Width, Height, TileW, TileH} \subseteq Nat \ {0}
  /\ Interp \in Kernels
  /\ Centre \in [Cells -> Int \X Int]
  /\ Value \in [Bands -> [Pixels -> Int]]

-----------------------------------------------------------------------------
(* The kernels. *)

\* Stencil offsets relative to the last pixel centre at or before the point.
Footprint(interp) ==
  CASE interp = "nearest"  -> [first |-> 0, n |-> 1]
    [] interp = "bilinear" -> [first |-> 0, n |-> 2]
    [] interp = "bicubic"  -> [first |-> -1, n |-> 4]
    [] interp = "lanczos"  -> [first |-> -2, n |-> 6]

\* Weights at a pixel centre and halfway between two.  Lanczos's are rounded,
\* with their signs and their sum kept.
Weights(interp, halfway) ==
  CASE interp = "nearest"  -> <<16>>
    [] interp = "bilinear" -> IF halfway THEN <<8, 8>> ELSE <<16, 0>>
    [] interp = "bicubic"  -> IF halfway THEN <<-1, 9, 9, -1>> ELSE <<0, 16, 0, 0>>
    [] interp = "lanczos"  -> IF halfway THEN <<1, -3, 10, 10, -3, 1>> ELSE <<0, 0, 16, 0, 0, 0>>

\* kernel_1d: the first pixel along an axis, and the weights from there on.
Kernel1D(interp, c) ==
  [start |-> IF interp = "nearest" THEN c \div 2 ELSE (c - 1) \div 2 + Footprint(interp).first,
   w     |-> Weights(interp, (c - 1) % 2 = 1)]

\* stencil_start, for the blocks a stencil touches.
StencilStart(interp, c) ==
  [start |-> IF interp = "nearest" THEN c \div 2 ELSE (c - 1) \div 2 + Footprint(interp).first,
   n     |-> Footprint(interp).n]

\* The weight an axis gives to pixel i.
At1D(k, i) == IF i - k.start + 1 \in DOMAIN k.w THEN k.w[i - k.start + 1] ELSE 0

WeightOf(interp, cell, p) ==
  At1D(Kernel1D(interp, Centre[cell][1]), p[1]) * At1D(Kernel1D(interp, Centre[cell][2]), p[2])

Stencil(interp, cell) ==
  LET kx == Kernel1D(interp, Centre[cell][1])
      ky == Kernel1D(interp, Centre[cell][2])
  IN (kx.start..(kx.start + Len(kx.w) - 1)) \X (ky.start..(ky.start + Len(ky.w) - 1))

-----------------------------------------------------------------------------
(* Blocks and the centres whose stencil touches them. *)

\* The centre itself must be on the raster; its stencil need not be.
OnRaster(cell) ==
  /\ Centre[cell][1] >= 0 /\ Centre[cell][1] < 2 * Width
  /\ Centre[cell][2] >= 0 /\ Centre[cell][2] < 2 * Height

AxisTiles(c, size, tile) ==
  LET s  == StencilStart(Interp, c)
      lo == Max({s.start, 0})
      hi == Min({s.start + s.n - 1, size - 1})
  IN (lo \div tile)..(hi \div tile)

TilesOf(cell) ==
  AxisTiles(Centre[cell][1], Width, TileW) \X AxisTiles(Centre[cell][2], Height, TileH)

\* buckets: what to fetch, and which centres each block serves.
Sampled == {cell \in Cells : OnRaster(cell)}
Touched == UNION {TilesOf(cell) : cell \in Sampled}
Entries(tile) == {cell \in Sampled : tile \in TilesOf(cell)}

Owned(tile) ==
  {p \in Pixels : p[1] \div TileW = tile[1] /\ p[2] \div TileH = tile[2]}

-----------------------------------------------------------------------------
(* One record: what a worker adds up for a centre in one block.  A scene    *)
(* says which pixels the mask excludes, and which are NaN, nodata or decode *)
(* to NaN in a band.                                                        *)

Valid(scene, b, p) == p \notin scene.masked /\ <<b, p>> \notin scene.missing
AllValid(scene, p) == \A b \in Bands : Valid(scene, b, p)

WeightedSum(interp, scene, cell, b, pixels) ==
  LET valid == {p \in pixels : Valid(scene, b, p)}
  IN <<SumFunctionOnSet([p \in valid |-> WeightOf(interp, cell, p) * Value[b][p]], valid),
       SumFunctionOnSet([p \in valid |-> WeightOf(interp, cell, p)], valid)>>

\* Kernels with negative lobes are not renormalised over a partial stencil.
NeedsFallback == Interp \in {"bicubic", "lanczos"}

\* A slip: the stencil counts as whole when its pixels in this block are valid.
CompleteInBlock(scene, cell, mine) == \A p \in mine : AllValid(scene, p)

CompleteHere(scene, cell, mine) ==
  /\ Stencil(Interp, cell) \subseteq mine
  /\ \A p \in mine : AllValid(scene, p)

Record(scene, tile, cell) ==
  LET mine == Stencil(Interp, cell) \cap Owned(tile)
  IN [nValid   |-> Cardinality({p \in mine : AllValid(scene, p)}),
      kernel   |-> [b \in Bands |-> WeightedSum(Interp, scene, cell, b, mine)],
      bilinear |-> [b \in Bands |->
                      IF NeedsFallback /\ ~CompleteHere(scene, cell, mine)
                      THEN WeightedSum("bilinear", scene, cell, b,
                                       mine \cap Stencil("bilinear", cell))
                      ELSE <<0, 0>>]]

-----------------------------------------------------------------------------
(* The merge of every worker's records, and the samples. *)

\* The records of a worker, one per block it sampled and entry of the block.
Merge(scene, tiles, cell) ==
  LET mine == {t \in tiles : cell \in Entries(t)}
      rec  == [t \in mine |-> Record(scene, t, cell)]
  IN [nValid   |-> SumFunctionOnSet([t \in mine |-> rec[t].nValid], mine),
      kernel   |-> [b \in Bands |-> <<SumFunctionOnSet([t \in mine |-> rec[t].kernel[b][1]], mine),
                                      SumFunctionOnSet([t \in mine |-> rec[t].kernel[b][2]], mine)>>],
      bilinear |-> [b \in Bands |-> <<SumFunctionOnSet([t \in mine |-> rec[t].bilinear[b][1]], mine),
                                      SumFunctionOnSet([t \in mine |-> rec[t].bilinear[b][2]], mine)>>]]

FullStencil == Footprint(Interp).n * Footprint(Interp).n

UsesKernel(total, cell) == ~NeedsFallback \/ total.nValid >= FullStencil

\* A sample is its sum and the weight to divide it by.
SampleOf(total, cell, b) ==
  LET s == IF UsesKernel(total, cell) THEN total.kernel[b] ELSE total.bilinear[b]
  IN IF s[2] > 0 THEN s ELSE NoSample

Samples(scene, tiles) ==
  [cell \in Sampled |->
     LET total == Merge(scene, tiles, cell) IN [b \in Bands |-> SampleOf(total, cell, b)]]

-----------------------------------------------------------------------------
(* Several sources. *)

DivUp(a, b) == (a + b - 1) \div b

\* Each of n sources that has selected bands gets its share of a budget.
Share(budget, n) == Max({DivUp(budget, n), 1})

\* The valid samples of a cell in an output column, in the order of the
\* sources: slots maps a source's bands to output columns.
ColumnValues(perSource, slots, cell, col) ==
  LET Estimate(k, b) == perSource[k][cell][b]
      have == {kb \in (DOMAIN perSource) \X Bands :
                 /\ cell \in DOMAIN perSource[kb[1]]
                 /\ slots[kb[1]][kb[2]] = col
                 /\ Estimate(kb[1], kb[2]) # NoSample}
  IN {<<kb[1], Estimate(kb[1], kb[2])>> : kb \in have}

\* The answer: cells with a sample in some column, and what each column is
\* the mean, or another composite, of.
Rows(perSource, slots, nOut) ==
  LET all  == [cell \in Cells |-> [col \in 1..nOut |-> ColumnValues(perSource, slots, cell, col)]]
      kept == {cell \in Cells : \E col \in 1..nOut : all[cell][col] # {}}
  IN [cell \in kept |-> all[cell]]
=============================================================================

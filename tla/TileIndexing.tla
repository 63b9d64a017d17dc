---------------------------- MODULE TileIndexing ----------------------------
(***************************************************************************)
(* Adding one row stripe of a decoded tile to a store of cells (read.rs,   *)
(* process_tile and process_tile_overlay).                                 *)
(*                                                                         *)
(* Space is in units, PixelUnits to a pixel's side, so that pixel corners, *)
(* centres and sub-points are whole.  Projects tells whether a point has a *)
(* longitude and latitude, Approx what the projector (grid_proj.rs) says   *)
(* of it without projecting it.  Regions are sets of boxes.  A stored    *)
(* value is a fraction, NaN included.                                      *)
(*                                                                         *)
(* A context has width, height, tw, th (block size), planar, nbands,       *)
(* origin (units by which its raster is shifted east), bands (the source   *)
(* band of each selected one), nodata (or None), float, decode (None or,   *)
(* per selected band, a function), bbox and aoi ({} for none), poly, k   *)
(* (0: by pixel centres), layout and slots.  A tile has tx, ty, data and   *)
(* mask (None or, per pixel of the block, whether it counts).              *)
(***************************************************************************)
EXTENDS Accumulators, PolyMask, Locator

CONSTANTS PixelUnits, StripeRows, Projects(_, _), Approx(_, _), Ancestors(_)

-----------------------------------------------------------------------------
(* The block. *)

Strides(ctx) ==
  IF ctx.planar THEN [row |-> ctx.tw, col |-> 1, band |-> ctx.th * ctx.tw]
  ELSE [row |-> ctx.tw * ctx.nbands, col |-> ctx.nbands, band |-> 1]

ActualDims(ctx, tile) ==
  [w |-> Min({ctx.tw, ctx.width - tile.tx * ctx.tw}), h |-> Min({ctx.th, ctx.height - tile.ty * ctx.th})]

\* The row ranges a tile is worked in.
Stripes(ctx, tile) ==
  LET h == ActualDims(ctx, tile).h
  IN {[first |-> n * StripeRows, last |-> Min({(n + 1) * StripeRows, h}) - 1] : n \in 0..((h - 1) \div StripeRows)}

Columns(ctx, tile) == 0..(ActualDims(ctx, tile).w - 1)

Raw(ctx, tile, r, c, b) ==
  LET s == Strides(ctx) IN tile.data[r * s.row + c * s.col + ctx.bands[b] * s.band]

IsMissing(ctx, x) == IsNaN(x) \/ x = ctx.nodata
Decoded(ctx, b, x) == IF ctx.decode = None \/ IsNaN(x) THEN x ELSE ctx.decode[b][x]
MayYieldNaN(ctx) == ctx.decode # None /\ \E b \in DOMAIN ctx.bands : NaN \in Range(ctx.decode[b])
MaskHas(ctx, tile, r, c) == tile.mask = None \/ tile.mask[r * ctx.tw + c]

-----------------------------------------------------------------------------
(* Regions and cells. *)

\* Boxes are open at their maxima, none being at the globe's edge here.
InBoxes(boxes, x, y) ==
  boxes = {} \/ \E b \in boxes : b.x0 <= x /\ x < b.x1 /\ b.y0 <= y /\ y < b.y1

ClassifyBoxes(boxes, p, m) ==
  CASE \E b \in boxes : p[1] - m >= b.x0 /\ p[1] + m < b.x1 /\ p[2] - m >= b.y0 /\ p[2] + m < b.y1 -> "in"
    [] \A b \in boxes : p[1] + m < b.x0 \/ p[1] - m >= b.x1 \/ p[2] + m < b.y0 \/ p[2] - m >= b.y1 -> "out"
    [] OTHER -> "unknown"

\* A point is tested where it is approximately, and exactly if that does not
\* decide; one that does not project is nowhere.
Located(pt) == pt.approx # Absent /\ pt.approx.known
Settled(said, holds) == said = "in" \/ (said = "unknown" /\ holds)

InRegion(ctx, pt) ==
  ctx.bbox = {} \/
    Settled(IF Located(pt) THEN ClassifyBoxes(ctx.bbox, pt.approx.lonlat, pt.approx.off) ELSE "unknown",
            pt.exact # Absent /\ InBoxes(ctx.bbox, pt.exact[1], pt.exact[2]))

\* No mask keeps every point.
InMask(ctx, pt) ==
  ctx.poly = <<>> \/
    Settled(IF Located(pt) THEN ClassifyPoint(ctx.poly[1], pt.approx.lonlat, pt.approx.off) ELSE "unknown",
            pt.exact # Absent /\ Holds(ctx.poly[1], pt.exact))

\* CellMask: a cell counts if it or an ancestor is listed.
Allows(aoi, cell) == aoi = {} \/ cell \in aoi \/ Ancestors(cell) \cap aoi # {}

\* Column c and row r of the tile, plus an offset in units.
East(ctx, tile, c, d)  == (tile.tx * ctx.tw + c) * PixelUnits + d + ctx.origin
South(ctx, tile, r, d) == (tile.ty * ctx.th + r) * PixelUnits + d
Centre == PixelUnits \div 2

\* Rows first..last of w points each, as <<column, row>>.
RowByRow(w, first, last) == [i \in 1..(w * (last - first + 1)) |-> <<(i - 1) % w, first + ((i - 1) \div w)>>]

PointAt(ctx, tile, r, c, d) ==
  LET x == East(ctx, tile, c, d)
      y == South(ctx, tile, r, d)
  IN [exact |-> IF Projects(x, y) THEN <<x, y>> ELSE Absent, approx |-> Approx(x, y)]

-----------------------------------------------------------------------------
(* A store: for each cell met, its pixel weight and its bands' accumulators *)
(* and class weights, kept here whether a statistic asks for them or not.   *)

EmptyStore == [c \in {} |-> Zero]

NewCell(n) == [npix |-> Zero, cont |-> [b \in 1..n |-> Fresh], cat |-> [b \in 1..n |-> EmptyStore]]

CellOf(store, cell, n) == IF cell \in DOMAIN store THEN store[cell] ELSE NewCell(n)
Put(store, cell, rec) == [c \in DOMAIN store \cup {cell} |-> IF c = cell THEN rec ELSE store[c]]

\* Add to a cell npix and, for each band, the values of vals[b], all of weight w.
AddValues(ctx, store, cell, npix, vals, w) ==
  LET n   == Len(ctx.bands)
      old == CellOf(store, cell, n)
  IN Put(store, cell,
       [npix |-> Plus(old.npix, npix),
        cont |-> [b \in 1..n |-> FoldLeft(LAMBDA a, v : Push(ctx.layout, a, v, w), old.cont[b], vals[b])],
        cat  |-> [b \in 1..n |-> FoldLeft(LAMBDA m, v : CatPush(m, v, w), old.cat[b], vals[b])]])

-----------------------------------------------------------------------------
(* By pixel centres: in a row, the pixels that count, the cell of each, and *)
(* the runs of one cell.                                                    *)

AnyBandValid(ctx, tile, r, c) ==
  \E b \in DOMAIN ctx.bands :
    LET x == Raw(ctx, tile, r, c, b)
    IN ~IsMissing(ctx, x) /\ (MayYieldNaN(ctx) => ~IsNaN(Decoded(ctx, b, x)))

\* Pass 1. Bands are looked at only when one of them can be missing.
AnyValid(ctx, tile, r, c) ==
  /\ ctx.nodata # None \/ ctx.float \/ MayYieldNaN(ctx) => AnyBandValid(ctx, tile, r, c)
  /\ MaskHas(ctx, tile, r, c)

\* Pass 2: the cells of a row's pixels, with the last cell found and the cells
\* of the row above, where a pixel without a cell keeps the one above it.
ScanStart(columns) == [last |-> NoCell, above |-> [c \in columns |-> NoCell]]

CellInScan(scan, pt, c) ==
  Locate(scan.last, pt, [i \in DOMAIN RowHints(scan.above, c) |-> scan.above[RowHints(scan.above, c)[i]]])

Scanned(scan, cell, c) ==
  IF cell = NoCell THEN scan ELSE [last |-> cell, above |-> [scan.above EXCEPT ![c] = cell]]

RowCells(ctx, tile, scan, r) ==
  LET Found(s, c, cell) ==
        [scan |-> Scanned(s.scan, cell, c),
         cells |-> IF cell # NoCell /\ Allows(ctx.aoi, cell) THEN [s.cells EXCEPT ![c] = cell] ELSE s.cells]
      Visit(s, c) ==
        LET pt == PointAt(ctx, tile, r, c, Centre)
        IN IF AnyValid(ctx, tile, r, c) /\ InRegion(ctx, pt) /\ InMask(ctx, pt)
           THEN Found(s, c, CellInScan(s.scan, pt, c)) ELSE s
  IN FoldLeft(Visit, [scan |-> scan, cells |-> [c \in Columns(ctx, tile) |-> NoCell]],
              [i \in 1..ActualDims(ctx, tile).w |-> i - 1])

\* Pass 3: maximal runs of pixels in one cell, as <<first, last>>.
RunsOf(cells) ==
  LET OneCell(p) == \A c \in p[1]..p[2] : cells[c] = cells[p[1]] /\ cells[c] # NoCell
      runs == {p \in (DOMAIN cells) \X (DOMAIN cells) : p[1] <= p[2] /\ OneCell(p)}
  IN {p \in runs : \A q \in runs : q[1] <= p[1] /\ p[2] <= q[2] => q = p}

\* The values of a run that are not missing, decoded.
RunValues(ctx, tile, r, run, b) ==
  LET all  == [k \in 1..(run[2] - run[1] + 1) |-> Raw(ctx, tile, r, run[1] + k - 1, b)]
      kept == SelectSeq(all, LAMBDA x : ~IsMissing(ctx, x))
  IN SelectSeq([k \in DOMAIN kept |-> Decoded(ctx, b, kept[k])], LAMBDA v : ~IsNaN(v))

AddRow(ctx, tile, store, r, row) ==
  LET Add(run, s) == AddValues(ctx, s, row.cells[run[1]], Whole(run[2] - run[1] + 1),
                               [b \in DOMAIN ctx.bands |-> RunValues(ctx, tile, r, run, b)], One)
  IN [scan |-> row.scan, store |-> FoldSet(Add, store, RunsOf(row.cells))]

IndexRows(ctx, tile, stripe) ==
  FoldLeft(LAMBDA s, r : AddRow(ctx, tile, s.store, r, RowCells(ctx, tile, s.scan, r)),
           [scan |-> ScanStart(Columns(ctx, tile)), store |-> EmptyStore],
           [i \in 1..(stripe.last - stripe.first + 1) |-> stripe.first + i - 1]).store

-----------------------------------------------------------------------------
(* By area: a pixel whose corners are in one cell is of that cell; another  *)
(* is split by where its k x k sub-points are.                              *)

\* The valid values of one pixel, by band, as sequences of at most one.
PixelValues(ctx, tile, r, c) ==
  [b \in DOMAIN ctx.bands |->
     LET raw == Raw(ctx, tile, r, c, b)
         v   == Decoded(ctx, b, raw)
     IN IF IsMissing(ctx, raw) \/ IsNaN(v) THEN <<>> ELSE <<v>>]

\* Whether a pixel is looked at: mask, polygons by its centre, some value.
Kept(ctx, tile, r, c) ==
  /\ MaskHas(ctx, tile, r, c)
  /\ InMask(ctx, PointAt(ctx, tile, r, c, Centre))
  /\ \E b \in DOMAIN ctx.bands : PixelValues(ctx, tile, r, c)[b] # <<>>

\* The corners of a stripe's pixels, located row by row: their cells, whether
\* they are in the region, and the last cell found.
CornerLattice(ctx, tile, stripe) ==
  LET columns == 0..ActualDims(ctx, tile).w
      corners == RowByRow(ActualDims(ctx, tile).w + 1, stripe.first, stripe.last + 1)
      Found(s, p, cell) == [scan |-> Scanned(s.scan, cell, p[1]), cell |-> Put(s.cell, p, cell)]
      Visit(s, p) == Found(s, p, CellInScan(s.scan, PointAt(ctx, tile, p[2], p[1], 0), p[1]))
  IN [located |-> FoldLeft(Visit, [scan |-> ScanStart(columns), cell |-> EmptyStore], corners),
      kept    |-> {p \in Range(corners) : InRegion(ctx, PointAt(ctx, tile, p[2], p[1], 0))}]

CornersOf(r, c) == <<<<c, r>>, <<c + 1, r>>, <<c, r + 1>>, <<c + 1, r + 1>>>>

InOneCell(lattice, r, c) ==
  LET cells == {lattice.located.cell[CornersOf(r, c)[i]] : i \in 1..4} IN Cardinality(cells) = 1 /\ NoCell \notin cells

\* A slip: the region is tested at one corner.
InteriorByCorner(lattice, r, c) == InOneCell(lattice, r, c) /\ <<c, r>> \in lattice.kept

Interior(lattice, r, c) == InOneCell(lattice, r, c) /\ \A i \in 1..4 : CornersOf(r, c)[i] \in lattice.kept

SubPoints(ctx, tile, r, c) ==
  LET at(j) == ((2 * j + 1) * PixelUnits) \div (2 * ctx.k)
      grid == RowByRow(ctx.k, 0, ctx.k - 1)
  IN [i \in DOMAIN grid |-> <<East(ctx, tile, c, at(grid[i][1])), South(ctx, tile, r, at(grid[i][2]))>>]

\* The share of a boundary pixel that is in each cell; sub-points that do not
\* project or are not in the region are in none.  The corners' cells are hints.
Shares(ctx, tile, lattice, last, r, c) ==
  LET hints == [i \in 1..4 |-> lattice.located.cell[CornersOf(r, c)[i]]]
      inside == SelectSeq(SubPoints(ctx, tile, r, c), LAMBDA p : Projects(p[1], p[2]) /\ InBoxes(ctx.bbox, p[1], p[2]))
      point == Frac(1, ctx.k * ctx.k)
      Found(s, cell) ==
        IF cell = NoCell THEN s
        ELSE [last |-> cell, part |-> Put(s.part, cell, IF cell \in DOMAIN s.part THEN Plus(s.part[cell], point) ELSE point)]
      Visit(s, p) == Found(s, Locate(s.last, [exact |-> p, approx |-> Absent], hints))
  IN FoldLeft(Visit, [last |-> last, part |-> EmptyStore], inside)

AddShares(ctx, tile, store, r, c, part) ==
  LET Add(cell, s) == AddValues(ctx, s, cell, part[cell], PixelValues(ctx, tile, r, c), part[cell])
  IN FoldSet(Add, store, {cell \in DOMAIN part : Allows(ctx.aoi, cell)})

\* Interior pixels, then the others with the locator where the corners left it.
AddPixels(ctx, tile, lattice, pixels) ==
  LET IsWhole(p) == Interior(lattice, p[2], p[1])
      Inner(s, p) == AddShares(ctx, tile, s, p[2], p[1], [cell \in {lattice.located.cell[p]} |-> One])
      Split(s, p, sh) == [last |-> sh.last, store |-> AddShares(ctx, tile, s.store, p[2], p[1], sh.part)]
      Edge(s, p) == Split(s, p, Shares(ctx, tile, lattice, s.last, p[2], p[1]))
  IN FoldLeft(Edge, [last |-> lattice.located.scan.last, store |-> FoldLeft(Inner, EmptyStore, SelectSeq(pixels, IsWhole))],
              SelectSeq(pixels, LAMBDA p : ~IsWhole(p))).store

OverlayRows(ctx, tile, stripe) ==
  AddPixels(ctx, tile, CornerLattice(ctx, tile, stripe),
            SelectSeq(RowByRow(ActualDims(ctx, tile).w, stripe.first, stripe.last), LAMBDA p : Kept(ctx, tile, p[2], p[1])))

-----------------------------------------------------------------------------
\* A stripe's own store, later absorbed into the read's.
IndexStripe(ctx, tile, stripe) ==
  IF ctx.k = 0 THEN IndexRows(ctx, tile, stripe) ELSE OverlayRows(ctx, tile, stripe)

\* merge_cell_from: local band b goes to column slots[b] of n.
MergeCell(ctx, old, new, n) ==
  LET from(col) == {b \in DOMAIN ctx.slots : ctx.slots[b] = col}
      local(col) == CHOOSE b \in from(col) : TRUE
  IN [npix |-> Plus(old.npix, new.npix),
      cont |-> [col \in 1..n |-> IF from(col) = {} THEN old.cont[col]
                                 ELSE Merge(ctx.layout, old.cont[col], new.cont[local(col)])],
      cat  |-> [col \in 1..n |-> IF from(col) = {} THEN old.cat[col]
                                 ELSE CatMerge(old.cat[col], new.cat[local(col)])]]

Absorb(ctx, store, delta, n) ==
  [c \in DOMAIN store \cup DOMAIN delta |->
     IF c \in DOMAIN delta THEN MergeCell(ctx, CellOf(store, c, n), delta[c], n) ELSE store[c]]
=============================================================================

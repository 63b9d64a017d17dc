------------------------------ MODULE Selection ------------------------------
(***************************************************************************)
(* What a read decides before it fetches anything (read_raster_async_impl  *)
(* up to the pipeline, with plan_bands, the checks of sources pooled into  *)
(* one raster, the choice of level and plan_source): per source, the level *)
(* read, the bands, the output column of each and the tiles.               *)
(*                                                                         *)
(* A source has a label, its bands' names, the scale of each band, the     *)
(* kind of its codes, a ground pixel size, its images, and the place of    *)
(* its full resolution (x0, y0, px, py).  A request has its sources and    *)
(* the arguments of the call; its region is empty without a bbox.          *)
(***************************************************************************)
EXTENDS TileSelection, Overviews, BandPlan

CONSTANTS
  Requests,
  PixelSizeTol,  \* PIXEL_SIZE_TOL, in thousandths
  Points,        \* longitudes and latitudes asked about
  Margin         \* how far off they may be

Images ==
  {im \in [w : Nat \ {0}, h : Nat \ {0}, tw : Nat, th : Nat, bands : Nat,
           kind : {"image", "reduced", "unmarked", "mask", "reduced mask"}] :
     im.tw = 0 <=> im.th = 0}

OpenedSources ==
  [label : STRING, bands : Seq(STRING), scale : Seq(Int), codes : {"small", "large", "real"},
   ground : Nat \ {0}, x0 : Int, y0 : Int, px : Int, py : Int, images : Seq(Images) \ {<<>>}]

\* By index or by name: a call with both is refused (a5_read_raster_rs).
BandChoices ==
  {sel \in [idx : Seq(Int), names : Seq(Seq(STRING))] : sel.idx = <<>> \/ sel.names = <<>>}

Calls ==
  [sources : Seq(OpenedSources) \ {<<>>}, separate : BOOLEAN, sel : BandChoices, target : Nat,
   decode : {"none", "scoff", "lut"}, classes : BOOLEAN, region : SUBSET Boxes, alignBlock : BOOLEAN]

\* A file has an image of full resolution, and images have pixels
\* (open_source); the settings are positive.
ASSUME SelectionAssumption ==
  /\ Requests \subseteq Calls
  /\ Oversample \in Nat \ {0} /\ FactorTol \in Nat
  /\ Points \subseteq Int \X Int /\ Margin \in Nat

VARIABLES
  req,     \* the call
  phase,   \* what is decided next
  bands,   \* the resolved band selection
  levels,  \* per source, the shared level, or 0 where the source picks its own
  next,    \* the source planned next
  plans,   \* the sources planned, in order
  error

vars == <<req, phase, bands, levels, next, plans, error>>

Sources == req.sources
Pooled  == ~req.separate
NoBands == Failure("")

Init ==
  /\ req \in Requests
  /\ phase = "bands"
  /\ bands = NoBands
  /\ levels = <<>>
  /\ next = 1
  /\ plans = <<>>
  /\ error = ""

Fail(why) == phase' = "failed" /\ error' = why

-----------------------------------------------------------------------------
(* Bands and checks over all sources. *)

ResolveBands ==
  /\ phase = "bands"
  /\ bands' = PlanBands(Sources, req.separate, req.sel)
  /\ IF bands'.ok THEN phase' = "check" /\ UNCHANGED error ELSE Fail(bands'.why)
  /\ UNCHANGED <<req, levels, next, plans>>

\* Within PIXEL_SIZE_TOL of the first source's.
SamePixelSize(s) ==
  LET a == s.ground
      b == Sources[1].ground
  IN 1000 * Larger(a - b, b - a) <= PixelSizeTol * Larger(a, b)

\* Codes are pooled as stored only where they mean the same.
SameScale(i) ==
  \A k \in DOMAIN bands.selected[i] :
    LET b == bands.selected[i][k] IN Sources[i].scale[b] = Sources[1].scale[b]

CheckSources ==
  /\ phase = "check"
  /\ IF Pooled /\ \E i \in DOMAIN Sources : ~SamePixelSize(Sources[i])
     THEN Fail("pixel sizes differ")
     ELSE IF Pooled /\ req.decode = "none" /\ \E i \in DOMAIN Sources : ~SameScale(i)
     THEN Fail("scales differ")
     ELSE phase' = "levels" /\ UNCHANGED error
  /\ UNCHANGED <<req, bands, levels, next, plans>>

ChooseLevels ==
  /\ phase = "levels"
  /\ levels' = IF Pooled /\ Len(Sources) > 1
               THEN CommonOverviewLevels(Sources, req.target)
               ELSE [i \in DOMAIN Sources |-> 0]
  /\ phase' = "plan"
  /\ UNCHANGED <<req, bands, next, plans, error>>

-----------------------------------------------------------------------------
(* One source. *)

\* The grid of a level: the same ground, in fewer pixels
\* (derive_level_geotransform).
LevelRaster(s, i) ==
  LET im == s.images[i]
  IN [x0 |-> s.x0, y0 |-> s.y0,
      px |-> (s.px * s.images[1].w) \div im.w, py |-> (s.py * s.images[1].h) \div im.h,
      w |-> im.w, h |-> im.h, tw |-> im.tw, th |-> im.th]

\* find_mask_ifd: the first mask of the level's size, or none (0).
MaskOf(s, i) ==
  LET same == {m \in DOMAIN s.images :
                 /\ s.images[m].kind \in {"mask", "reduced mask"}
                 /\ s.images[m].w = s.images[i].w /\ s.images[m].h = s.images[i].h}
  IN IF same = {} THEN 0 ELSE Min(same)

MaskFits(s, i) ==
  LET m == MaskOf(s, i)
  IN m # 0 => s.images[m].tw = s.images[i].tw /\ s.images[m].th = s.images[i].th

\* Decode tables and class codes need integers of 16 bits or fewer, and the
\* table must reach over all of them; classes are not decoded.
CodesError(s) ==
  IF req.decode = "lut" /\ s.codes # "small" THEN "dequant"
  ELSE IF req.classes /\ s.codes = "real" THEN "classes"
  ELSE IF req.classes /\ req.decode # "none" THEN "classes decoded"
  ELSE ""

IsIdentity(slots) == slots = [k \in 1..Len(bands.names) |-> k]

\* plan_source for the source that is next; sources with no band selected and
\* sources without a tile in the region drop out.
PlanSource ==
  /\ phase = "plan" /\ next <= Len(Sources)
  /\ LET s     == Sources[next]
         level == IF levels[next] # 0 THEN levels[next] ELSE SelectOverviewLevel(s, req.target)
         r     == LevelRaster(s, level)
         tiles == TilesRead(r, req.region, req.alignBlock)
         plan  == [src |-> next, level |-> level, tiles |-> tiles, mask |-> MaskOf(s, level),
                   selected |-> bands.selected[next],
                   columns  |-> IF IsIdentity(bands.slots[next]) THEN <<>> ELSE bands.slots[next]]
     IN IF bands.selected[next] = <<>>
        THEN next' = next + 1 /\ UNCHANGED <<phase, plans, error>>
        ELSE IF CodesError(s) # "" THEN Fail(CodesError(s)) /\ UNCHANGED <<next, plans>>
        ELSE IF r.tw = 0 THEN Fail("not tiled") /\ UNCHANGED <<next, plans>>
        ELSE IF ~MaskFits(s, level) THEN Fail("mask blocks") /\ UNCHANGED <<next, plans>>
        ELSE /\ next' = next + 1
             /\ plans' = IF tiles = {} THEN plans ELSE Append(plans, plan)
             /\ UNCHANGED <<phase, error>>
  /\ UNCHANGED <<req, bands, levels>>

\* No plan at all is an empty result, without a pipeline.
Finish ==
  /\ phase = "plan" /\ next > Len(Sources)
  /\ phase' = IF plans = <<>> THEN "empty" ELSE "run"
  /\ UNCHANGED <<req, bands, levels, next, plans, error>>

Stopped == phase \in {"failed", "empty", "run"} /\ UNCHANGED vars

Next == ResolveBands \/ CheckSources \/ ChooseLevels \/ PlanSource \/ Finish \/ Stopped

Spec == Init /\ [][Next]_vars

-----------------------------------------------------------------------------
(* Properties. *)

Planned == phase \in {"run", "empty"}
PlanOf(i) == {plans[k] : k \in {j \in DOMAIN plans : plans[j].src = i}}
TilesOfSource(i) == UNION {p.tiles : p \in PlanOf(i)}

\* The level a source is read at, or would be.
LevelOf(i) == IF levels[i] # 0 THEN levels[i] ELSE SelectOverviewLevel(Sources[i], req.target)

PixelsIn(region, r) ==
  {p \in (0..(r.w - 1)) \X (0..(r.h - 1)) :
     LET at == CentreOf(r, p[1], p[2]) IN Holds(region, at[1], at[2])}

WholeTurn(r) == East(r) - r.x0 >= Turn

\* Where the longitudes of a whole turn meet, half a turn from the centre.
AtSeam(region, r) ==
  \E b \in region, k \in -1..1 : b.w <= r.x0 + k * Turn /\ r.x0 + k * Turn <= b.e

\* Tiles wider than the step between the samples of any bbox's edge.
WideTiles(r) == r.tw * r.px * EdgeSamples > Turn

\* Rasters over a whole turn must reach a pole, and have wide tiles or be read
\* off their seam.
Ordinary(region, r) ==
  WholeTurn(r) => /\ Reaches(r, Pole) \/ Reaches(r, -Pole)
                  /\ WideTiles(r) \/ ~AtSeam(region, r)

TilesHoldThePixels(i) ==
  LET r == LevelRaster(Sources[i], LevelOf(i))
  IN \A p \in PixelsIn(req.region, r) : TileOf(r, p[1], p[2]) \in TilesOfSource(i)

Read(i) == bands.selected[i] # <<>>

\* Every pixel of the level read whose centre is in the region lies in a tile
\* that is read, in whatever frame the raster stores its longitudes: tile
\* selection is an estimate from outlines, and what it leaves out is never
\* tested again (bbox_tile_range, footprint_lonlat, projected_tile_range).
RegionPixelsAreRead ==
  Planned /\ req.region # {} /\ ~req.alignBlock =>
    \A i \in {j \in DOMAIN Sources : Read(j)} :
      Ordinary(req.region, LevelRaster(Sources[i], LevelOf(i))) => TilesHoldThePixels(i)

\* The same without the exceptions: bbox_tile_range's comment says the range is
\* of the tiles "that may hold pixels in a WGS 84 region, or `Ok(None)` when
\* none can".
EveryRegionPixelIsRead ==
  Planned /\ req.region # {} /\ ~req.alignBlock =>
    \A i \in {j \in DOMAIN Sources : Read(j)} : TilesHoldThePixels(i)

\* The globe cut into four.
Quarters(w, s) ==
  { {Box(-Half, -Pole, w, s)}, {Box(w, -Pole, Half, s)}, {Box(-Half, s, w, Pole)}, {Box(w, s, Half, Pole)} }

\* The globe cut at a corner of the region's: a partition of bboxes as a
\* caller reading in chunks makes it.
Partition == UNION {Quarters(b.w, b.s) : b \in {c \in req.region : c.w > -Half /\ c.s > -Pole}}

OwnersOf(r, t) == {member \in Partition : t \in TilesRead(r, member, TRUE)}

\* Under block alignment each tile belongs to one member of a partition of the
\* globe, wherever a source keeps its longitudes, so partial sums of chunks add
\* up (filter_tiles_by_origin); but for rows centred on the pole itself, which
\* no member owns (GlobeOwnsBlocks in PlanningProofs).
BlocksOwnedOnce ==
  Planned /\ req.alignBlock =>
    \A i \in DOMAIN Sources :
      LET r == LevelRaster(Sources[i], LevelOf(i))
      IN Partition # {} /\ Ordinary(UNION Partition, r) =>
           \A t \in AllTiles(r) :
             OriginOf(r, t)[2] < Pole => Cardinality(OwnersOf(r, t)) = 1

\* What is decided of a point known to within a margin is so for every point
\* within the margin, whose longitude may be on the other side of the
\* antimeridian (Boxes::classify, which spares the exact projection).
ClassifyAgrees ==
  phase = "check" =>
    \A p \in Points : \A dx, dy \in -Margin..Margin :
      LET said == Classify(req.region, p[1], p[2], Margin)
      IN said = "undecided" \/ (said = "in") = Holds(req.region, p[1] + dx, p[2] + dy)

\* Pooled sources are read at one decimation, so that each pixel counts for as
\* much ground: all at full resolution, or all at overviews within the
\* tolerance of the first's, each fit for the cell; and copies of one file are
\* read as the file alone would be (common_overview_levels).
PooledLevelsAgree ==
  Planned /\ Pooled /\ Len(Sources) > 1 =>
    /\ \/ \A i \in DOMAIN Sources : LevelOf(i) = 1
       \/ \A i \in DOMAIN Sources :
            /\ Qualifies(Sources[i], LevelOf(i))
            /\ Close(FactorX(Sources[1], LevelOf(1)), FactorX(Sources[i], LevelOf(i)))
            /\ Close(FactorY(Sources[1], LevelOf(1)), FactorY(Sources[i], LevelOf(i)))
            /\ Fits(Sources[i], LevelOf(i), req.target)
    /\ (\A i \in DOMAIN Sources : Sources[i].images = Sources[1].images /\ Sources[i].ground = Sources[1].ground)
         => LevelOf(1) = SelectOverviewLevel(Sources[1], req.target)

\* Where a planned source puts its selected bands.
Columns(p) == IF p.columns = <<>> THEN [k \in DOMAIN p.selected |-> k] ELSE p.columns

NameOf(i, b) ==
  IF req.separate THEN CombinedName(Sources, <<i, b>>) ELSE <<Sources[i].bands[b]>>

\* Each output column gets the band it is named for: from every source pooled
\* into it, from exactly one where bands are side by side; and a selection by
\* name is answered by columns of those names, in that order (plan_bands and
\* the slots of plan_source).
ColumnsFilled ==
  Planned /\ req.region = {} =>
    /\ req.sel.names # <<>> => bands.names = req.sel.names
    /\ \A c \in DOMAIN bands.names :
         LET into == {x \in (DOMAIN plans) \X (DOMAIN bands.names) :
                        x[2] \in DOMAIN Columns(plans[x[1]]) /\ Columns(plans[x[1]])[x[2]] = c}
         IN /\ \A x \in into : NameOf(plans[x[1]].src, plans[x[1]].selected[x[2]]) = bands.names[c]
            /\ Cardinality(into) = IF req.separate THEN 1 ELSE Len(Sources)
=============================================================================

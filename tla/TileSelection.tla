---------------------------- MODULE TileSelection ----------------------------
(***************************************************************************)
(* Which tiles of a raster a region reads (bbox_tile_range and             *)
(* filter_tiles_by_origin in read.rs), for rasters in longitudes and       *)
(* latitudes: projecting is the identity there, and what is left is the    *)
(* part with the corner cases, the frames of longitude and the grids of    *)
(* pixels and tiles.  A raster may store its longitudes in any frame.      *)
(*                                                                         *)
(* A raster has its origin (x0, y0) at the top left, w x h pixels of       *)
(* px x py and tiles of tw x th.                                           *)
(***************************************************************************)
EXTENDS Regions, FiniteSets, FiniteSetsExt

CONSTANTS
  EdgeSamples,  \* points sampled along each edge of an outline
  PadUnit       \* what is added to each side of a footprint, for each turn it spans

East(r) == r.x0 + r.w * r.px
South(r) == r.y0 - r.h * r.py

\* The centre of a pixel, at an even size of pixels.
CentreOf(r, c, row) == <<r.x0 + c * r.px + r.px \div 2, r.y0 - row * r.py - r.py \div 2>>

TileOf(r, c, row) == <<c \div r.tw, row \div r.th>>
AllTiles(r) == (0..((r.w - 1) \div r.tw)) \X (0..((r.h - 1) \div r.th))

\* rect_edge_samples, along one axis: both opposite edges, from either end.
AxisSamples(a, b) ==
  {a + ((i * (b - a)) \div EdgeSamples) : i \in 0..(EdgeSamples - 1)} \cup
  {b - ((i * (b - a)) \div EdgeSamples) : i \in 0..(EdgeSamples - 1)}

-----------------------------------------------------------------------------
(* The footprint. *)

Span(xs) == Max(xs) - Min(xs)

\* Longitudes are enveloped in two frames and the narrower is kept.
Envelope(xs) ==
  LET wrapped == {WrapLon(x) : x \in xs}
      other   == {x % Turn : x \in wrapped}
      best    == IF Span(other) < Span(wrapped) THEN other ELSE wrapped
      lo      == WrapLon(Min(best))
  IN [w |-> lo, e |-> lo + Span(best)]

\* raster_contains_lonlat at longitude 0, in the raster's own frame.
Reaches(r, lat) == r.x0 <= 0 /\ East(r) >= 0 /\ South(r) <= lat /\ r.y0 >= lat

\* The footprint, with all longitudes when the raster reaches a pole.
Footprint(r) ==
  LET polar == Reaches(r, Pole) \/ Reaches(r, -Pole)
      env   == IF polar THEN [w |-> -Half, e |-> Half] ELSE Envelope(AxisSamples(r.x0, East(r)))
  IN Box(env.w, IF Reaches(r, -Pole) THEN -Pole ELSE South(r),
         env.e, IF Reaches(r, Pole) THEN Pole ELSE r.y0)

Padded(b) ==
  LET pad == ((PadUnit * (b.e - b.w)) \div Turn) + 1
      all == b.e - b.w + 2 * pad >= Turn
  IN Box(IF all THEN -Half ELSE b.w - pad, Larger(b.s - 1, -Pole),
         IF all THEN Half ELSE b.e + pad, Smaller(b.n + 1, Pole))

\* A slip: longitudes beyond the antimeridian are cut off.
FootprintCutOff(r) ==
  LET b == Padded(Footprint(r)) IN {Box(b.w, b.s, Smaller(b.e, Half), b.n)}

FootprintBoxes(r) ==
  LET b == Padded(Footprint(r)) IN OfRange(b.w, b.s, b.e, b.n)

-----------------------------------------------------------------------------
(* The tile range. *)

\* The copy of a longitude nearest to the raster's centre; halves round away
\* from zero.
NearestCopy(r, lon) ==
  LET d == r.x0 + (r.w * r.px) \div 2 - lon
      turns == IF d >= 0 THEN ((2 * d) + Turn) \div (2 * Turn)
               ELSE -((Turn - (2 * d)) \div (2 * Turn))
  IN lon + Turn * turns

CeilDiv(a, b) == -((-a) \div b)

\* projected_tile_range, as the set of the tiles in the range.
ProjectedTileRange(b, r) ==
  LET xs    == {NearestCopy(r, x) : x \in AxisSamples(b.w, b.e)}
      colLo == (Min(xs) - r.x0) \div r.px
      colHi == CeilDiv(Max(xs) - r.x0, r.px)
      rowLo == (r.y0 - b.n) \div r.py
      rowHi == CeilDiv(r.y0 - b.s, r.py)
  IN IF colHi < 0 \/ colLo >= r.w \/ rowHi < 0 \/ rowLo >= r.h THEN {}
     ELSE ((Larger(colLo, 0) \div r.tw)..(Smaller(colHi, r.w - 1) \div r.tw)) \X
          ((Larger(rowLo, 0) \div r.th)..(Smaller(rowHi, r.h - 1) \div r.th))

\* union_range: the smallest range that holds them all.
Hull(tiles) ==
  IF tiles = {} THEN {}
  ELSE LET xs == {t[1] : t \in tiles}
           ys == {t[2] : t \in tiles}
       IN (Min(xs)..Max(xs)) \X (Min(ys)..Max(ys))

BboxTileRange(region, r) ==
  LET fp == FootprintBoxes(r)
  IN IF Covers(region, fp) THEN AllTiles(r)
     ELSE Hull(UNION {ProjectedTileRange(cut, r) : cut \in Intersect(region, fp)})

\* A slip: the max edges count as inside.
OriginInClosed(region, p) ==
  \E b \in region : WrapLon(p[1]) >= b.w /\ WrapLon(p[1]) <= b.e /\ p[2] >= b.s /\ p[2] <= b.n

\* Half-open on the max edges, at the edge of the globe too.
OriginIn(region, p) ==
  \E b \in region : WrapLon(p[1]) >= b.w /\ WrapLon(p[1]) < b.e /\ p[2] >= b.s /\ p[2] < b.n

\* Block alignment: a tile belongs to the region its origin pixel lies in.
\* (In longitudes and latitudes that pixel always projects, so the other
\* candidates for a representative point are never taken.)
OriginOf(r, t) == CentreOf(r, t[1] * r.tw, t[2] * r.th)
FilterTilesByOrigin(tiles, region, r) == {t \in tiles : OriginIn(region, OriginOf(r, t))}

\* The tiles of one source, for a region or, without one, all of them.
TilesRead(r, region, alignBlock) ==
  IF region = {} THEN AllTiles(r)
  ELSE LET range == BboxTileRange(region, r)
       IN IF alignBlock THEN FilterTilesByOrigin(range, region, r) ELSE range
=============================================================================

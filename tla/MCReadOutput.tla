---------------------------- MODULE MCReadOutput ----------------------------
(***************************************************************************)
(* The instances of ReadOutput: one raster of 5 x 4 pixels in four blocks  *)
(* of 3 x 3, all but one partial, or two rasters of 3 x 2 in one block,    *)
(* the second half a pixel to the east; cells of 7 x 7 units, less than    *)
(* two pixels a side.  What a read should give is stated from the rasters' *)
(* pixels alone, without blocks, stripes, runs or accumulators.            *)
(***************************************************************************)
EXTENDS ReadOutput

MCPixelUnits == 4
MCNoCell == -1
MCCellAt(x, y) == (x \div 7) + 10 * (y \div 7)
MCParentOf(cell) == 100 + (cell \div 10)
MCAncestors(cell) == {MCParentOf(cell)}

\* Not all the cells of a parent are below it.
MCCellsBelow(parent) == <<10 * (parent - 100), 10 * (parent - 100) + 1>>

\* Points further east do not project.
MCProjects(x, y) == x < 19

\* Two faces, at two units to one; the second's abscissas are reversed.
MCFaceOf(cell) == IF cell % 10 < 2 THEN 0 ELSE 1
MCOnFace(p, face) == <<IF face = 0 THEN 2 * p[1] ELSE -2 * p[1], 2 * p[2]>>

\* Clockwise with ordinates upward, on either face.
MCVertices(cell) ==
  LET left == IF MCFaceOf(cell) = 0 THEN 14 * (cell % 10) - 1 ELSE -14 * (cell % 10) - 13
      low  == 14 * (cell \div 10) - 1
  IN <<<<left, low>>, <<left, low + 14>>, <<left + 14, low + 14>>, <<left + 14, low>>>>

\* What the projector says: nothing, a face position off by at most the margin,
\* perhaps on another face than the cell's or in the cell of the row before, and
\* perhaps a longitude and latitude.
MCApprox(x, y) ==
  LET face == IF x < 16 THEN 0 ELSE 1
      at == MCOnFace(<<x, y>>, face)
  IN IF x >= 19 \/ (x + y) % 5 = 0 THEN Absent
     ELSE [at |-> <<at[1], at[2] - 4>>, face |-> face, margin |-> 4,
           known |-> y # 10, lonlat |-> <<x - 1, y>>, off |-> 1]

Bands == 0..1
BlockW == 3
BlockH == 3

-----------------------------------------------------------------------------
(* A raster's codes, and the blocks they are stored in. *)

Missing == Whole(2)
CodeAt(q, s, x, y, b) ==
  LET n == ((x * (y + 1) + 2 * y + s + b * (x + 1)) % 3) + 1
  IN IF q.valid = "nan" /\ n = 2 THEN NaN ELSE Whole(n)

MaskedIn(s, x, y) == (x + 2 * y + s) % 4 # 0

\* Room in a block beyond the raster is filled with a code of its own.
BlockData(q, s, tx, ty) ==
  LET at(r, c, b) ==
        LET x == tx * BlockW + c
            y == ty * BlockH + r
        IN IF x < q.width /\ y < q.height THEN CodeAt(q, s, x, y, b) ELSE Whole(9)
  IN [i \in 0..(2 * BlockW * BlockH - 1) |->
        IF q.planar
        THEN at((i % (BlockW * BlockH)) \div BlockW, i % BlockW, i \div (BlockW * BlockH))
        ELSE at((i \div 2) \div BlockW, (i \div 2) % BlockW, i % 2)]

BlockMask(s, tx, ty) ==
  [i \in 0..(BlockW * BlockH - 1) |-> MaskedIn(s, tx * BlockW + (i % BlockW), ty * BlockH + (i \div BlockW))]

TilesFrom(q, s) ==
  SetToSeq({[tx |-> tx, ty |-> ty, data |-> BlockData(q, s, tx, ty),
             mask |-> IF q.valid = "mask" THEN BlockMask(s, tx, ty) ELSE None] :
            tx \in 0..((q.width - 1) \div BlockW), ty \in 0..((q.height - 1) \div BlockH)})

Codes == {Whole(1), Whole(2), Whole(3)}
Origin(s) == (s - 1) * 2

\* The decode of band b of those selected: a table for all, or a scale for each.
Decodes(q) ==
  CASE q.valid = "table" -> [b \in DOMAIN q.bands |-> [x \in Codes |-> IF x = Missing THEN NaN ELSE Times(x, x)]]
    [] q.valid = "scale" -> [b \in DOMAIN q.bands |-> [x \in Codes |-> Plus(Times(Whole(b + 1), x), One)]]
    [] OTHER -> None

ContextOf(q, s) ==
  [width |-> q.width, height |-> q.height, tw |-> BlockW, th |-> BlockH, planar |-> q.planar, nbands |-> 2,
   origin |-> Origin(s), bands |-> q.bands, nodata |-> IF q.valid = "nodata" THEN Missing ELSE None,
   float |-> q.valid = "nan", decode |-> Decodes(q), bbox |-> q.bbox, poly |-> IF q.poly = <<>> THEN <<>> ELSE <<GroupsOf(q.poly, q.together)>>,
   aoi |-> q.aoi, k |-> q.k,
   layout |-> LayoutFor(Range(q.stats)),
   slots |-> [b \in DOMAIN q.bands |-> IF q.separate THEN (s - 1) * Len(q.bands) + b ELSE b]]

\* The request the program is given, with q kept to state what it should return.
Prepared(q) ==
  [of |-> q, sources |-> [s \in 1..q.n |-> [ctx |-> ContextOf(q, s), tiles |-> TilesFrom(q, s)]],
   stats |-> q.stats, columns |-> (IF q.separate THEN q.n ELSE 1) * Len(q.bands), composite |-> q.composite,
   npix |-> q.npix, fractions |-> q.fractions, dest |-> q.dest, vector |-> q.vector]

-----------------------------------------------------------------------------
(* The reads. *)

Plain ==
  [n |-> 1, width |-> 5, height |-> 4, planar |-> FALSE, bands |-> <<1, 0>>, valid |-> "all", bbox |-> {},
   poly |-> <<>>, together |-> TRUE, aoi |-> {}, k |-> 0, stats |-> <<"mean">>, separate |-> FALSE, composite |-> "",
   npix |-> TRUE, fractions |-> FALSE, dest |-> "table", vector |-> FALSE]

Rect(x0, x1, y0, y1) == [x0 |-> x0, x1 |-> x1, y0 |-> y0, y1 |-> y1]

\* Its edges cut cells, and pixels through their sub-points.
Region == {Rect(2, 10, 2, 9), Rect(14, 20, 0, 6)}
Away == {Rect(40, 41, 40, 41)}

\* Masks: a polygon with a hole, listed either way round; one that bends in;
\* two that overlap; two that share an edge, one with a ring of nothing; and
\* two that hold no point.
Quad == <<<<1, 1>>, <<19, 1>>, <<17, 12>>, <<3, 12>>, <<1, 1>>>>
Hole == <<<<7, 3>>, <<11, 5>>, <<9, 9>>>>
Bend == <<<<0, 3>>, <<5, 11>>, <<9, 5>>, <<13, 11>>, <<19, 0>>, <<9, 3>>>>
LeftPart == <<<<1, 1>>, <<9, 1>>, <<9, 11>>, <<1, 8>>>>
RightPart == <<<<9, 1>>, <<9, 11>>, <<19, 7>>>>
Nothing == <<<<11, 5>>, <<11, 5>>>>
Line == <<<<1, 1>>, <<9, 1>>, <<5, 1>>>>
Shapes ==
  << <<<<Quad, Hole>>>>,
     <<<<Bend>>>>,
     <<<<LeftPart>>, <<Hole>>>>,
     <<<<LeftPart>>, <<RightPart, Nothing>>>>,
     <<<<Nothing>>, <<Line>>>> >>

\* Every kind of missing pixel and of selection, by centres and by area.
Selections ==
  {[Plain EXCEPT !.k = k, !.planar = planar, !.valid = v, !.bbox = bbox, !.stats = <<"var", "mean">>] :
     k \in {0, 2}, planar \in BOOLEAN, v \in {"all", "nodata", "nan", "table", "scale", "mask"}, bbox \in {{}, Region}}
  \cup
  {[Plain EXCEPT !.k = k, !.poly = poly, !.aoi = aoi, !.valid = "nodata", !.bands = <<1>>, !.bbox = bbox,
                 !.stats = <<"max", "count">>] :
     k \in {0, 2}, poly \in {<<>>, Shapes[1], Shapes[2]}, aoi \in {{1, 101}, {0, 2, 11}}, bbox \in {{}, Region}}

Masks == {[Plain EXCEPT !.poly = Shapes[i], !.together = t] : i \in DOMAIN Shapes, t \in BOOLEAN}

\* Class statistics.
Classes ==
  {[Plain EXCEPT !.height = 3, !.k = k, !.valid = v, !.stats = st, !.fractions = (st = <<>>), !.npix = (st # <<>>)] :
     k \in {0, 2}, v \in {"all", "nodata"}, st \in {<<>>, <<"majority", "min">>}}

\* Two rasters: pooled, as bands of their own, or composited.
Pair == [Plain EXCEPT !.n = 2, !.width = 3, !.height = 2, !.npix = FALSE, !.valid = "nodata"]
Pairs ==
  {[Pair EXCEPT !.k = k, !.separate = sep, !.stats = st, !.npix = ~sep] :
     k \in {0, 2}, sep \in BOOLEAN, st \in {<<"sum", "min">>, <<"var">>}}
  \cup
  {[Pair EXCEPT !.k = k, !.composite = red, !.stats = st, !.bands = <<0>>] :
     k \in {0, 2}, red \in Reducers, st \in {<<"mean">>, <<"majority">>, <<"sum", "max">>}}

\* Files: of no row, of a part of a group, of several groups.
Files ==
  {[Plain EXCEPT !.bbox = bbox, !.vector = vector, !.stats = st, !.npix = npix, !.dest = "file"] :
     bbox \in {{}, Region, Away}, vector \in BOOLEAN, st \in {<<"mean">>, <<"sum", "count">>}, npix \in BOOLEAN}
  \cup {[Pair EXCEPT !.composite = "median", !.stats = <<"mean", "max">>, !.vector = v, !.dest = "file"] : v \in BOOLEAN}

MCRequests == {Prepared(q) : q \in Selections \cup Masks \cup Classes \cup Pairs \cup Files}

-----------------------------------------------------------------------------
(* What a read should give. *)

Asked == req.of

Pixels == (0..(Asked.width - 1)) \X (0..(Asked.height - 1))
PointIn(boxes, p) == boxes = {} \/ \E b \in boxes : p[1] \in b.x0..(b.x1 - 1) /\ p[2] \in b.y0..(b.y1 - 1)

\* The points a pixel is judged by, of equal weight.
PointsOf(s, px) ==
  LET off == IF Asked.k = 0 THEN {2} ELSE {1, 3}
  IN {<<4 * px[1] + Origin(s) + d, 4 * px[2] + e>> : d \in off, e \in off}
CentreOf(s, px) == <<4 * px[1] + Origin(s) + 2, 4 * px[2] + 2>>

\* The even-odd rule: west of the point, an odd number of a polygon's sides
\* cross the line through it.
SidesOf(poly) ==
  UNION {LET ring == poly[i] IN {<<ring[j], ring[(j % Len(ring)) + 1], i>> : j \in DOMAIN ring} : i \in DOMAIN poly}
WestOf(s, p) ==
  LET a == s[1]
      b == s[2]
      rise == b[2] - a[2]
      cross == (p[1] - a[1]) * rise - (p[2] - a[2]) * (b[1] - a[1])
  IN (a[2] <= p[2]) # (b[2] <= p[2]) /\ (IF rise > 0 THEN cross > 0 ELSE cross < 0)
InPolygons(polys, p) ==
  polys = <<>> \/ \E k \in DOMAIN polys : Cardinality({s \in SidesOf(polys[k]) : WestOf(s, p)}) % 2 = 1

\* A pixel's value in a selected band; NaN when missing.
ValueAt(s, px, b) ==
  LET x == CodeAt(Asked, s, px[1], px[2], Asked.bands[b])
  IN CASE Asked.valid = "nodata" /\ x = Missing -> NaN
       [] Asked.valid = "table" -> IF x = Missing THEN NaN ELSE Times(x, x)
       [] Asked.valid = "scale" -> Plus(Times(Whole(b + 1), x), One)
       [] OTHER -> x

Counts(s, px) ==
  /\ Asked.valid = "mask" => MaskedIn(s, px[1], px[2])
  /\ InPolygons(Asked.poly, CentreOf(s, px))
  /\ \E b \in DOMAIN Asked.bands : ~IsNaN(ValueAt(s, px, b))

\* How much of a pixel is in a cell.
PartIn(cell, s, px) ==
  Frac(Cardinality({p \in PointsOf(s, px) : MCProjects(p[1], p[2]) /\ MCCellAt(p[1], p[2]) = cell /\ PointIn(Asked.bbox, p)}),
       Cardinality(PointsOf(s, px)))

\* The pixels of the sources that count in a cell.
PixelsOf(cell, sources) ==
  {sp \in sources \X Pixels : Counts(sp[1], sp[2]) /\ PartIn(cell, sp[1], sp[2]) # Zero}

InAoi(cell) == Asked.aoi = {} \/ cell \in Asked.aoi \/ MCAncestors(cell) \cap Asked.aoi # {}

ExpectedCells ==
  LET points == UNION {UNION {PointsOf(s, px) : px \in {px \in Pixels : Counts(s, px)}} : s \in 1..Asked.n}
      cells == {MCCellAt(p[1], p[2]) : p \in {p \in points : MCProjects(p[1], p[2])}}
  IN {c \in cells : InAoi(c) /\ PixelsOf(c, 1..Asked.n) # {}}

\* A statistic of the pixels of a cell in one band of some sources, and its weight.
Pooled(cell, sources, b, stat) ==
  LET pix == {sp \in PixelsOf(cell, sources) : ~IsNaN(ValueAt(sp[1], sp[2], b))}
      v(sp) == ValueAt(sp[1], sp[2], b)
      w(sp) == PartIn(cell, sp[1], sp[2])
      weight == Total(w, pix)
      sum == Total(LAMBDA sp : Times(w(sp), v(sp)), pix)
      mean == Over(sum, weight)
      of(c) == Total(w, {sp \in pix : v(sp) = c})
      seen == {v(sp) : sp \in pix}
      winner == Least({c \in seen : \A d \in seen : AtMost(of(d), of(c))})
  IN CASE stat = "sum" -> <<sum, weight>>
       [] stat = "count" -> <<weight, weight>>
       [] stat = "mean" -> <<mean, weight>>
       [] stat = "min" -> <<IF pix = {} THEN NaN ELSE Least(seen), weight>>
       [] stat = "max" -> <<IF pix = {} THEN NaN ELSE Greatest(seen), weight>>
       [] stat = "var" -> <<IF AtMost(weight, One) THEN NaN
                            ELSE Over(Total(LAMBDA sp : Times(w(sp), Times(Minus(v(sp), mean), Minus(v(sp), mean))), pix),
                                      Minus(weight, One)), weight>>
       [] stat = "majority" -> IF pix = {} THEN <<NaN, Zero>> ELSE <<winner, of(winner)>>

\* The value whose lower and upper values each weigh at most half; the mean of
\* the least and greatest of those when there are several.
MedianOf(vw, sources) ==
  LET weight(T) == Total(LAMBDA s : vw[s][2], T)
      half == Times(Frac(1, 2), weight(sources))
      medians == {s \in sources : /\ AtMost(weight({t \in sources : Less(vw[t][1], vw[s][1])}), half)
                                  /\ AtMost(weight({t \in sources : Less(vw[s][1], vw[t][1])}), half)}
      values == {vw[s][1] : s \in medians}
  IN Times(Frac(1, 2), Plus(Least(values), Greatest(values)))

\* The composite of the sources part of two, by value and weight; with two
\* the reliability variance has a closed form.
ComposedOf(vw, part) ==
  LET values == {vw[s][1] : s \in part}
      weight(T) == Total(LAMBDA s : vw[s][2], T)
      red == Asked.composite
  IN CASE red = "count" -> Whole(Cardinality(part))
       [] red = "sum" -> Total(LAMBDA s : vw[s][1], part)
       [] part = {} -> NaN
       [] red = "mean" -> Over(Total(LAMBDA s : Times(vw[s][1], vw[s][2]), part), weight(part))
       [] red = "min" -> Least(values)
       [] red = "max" -> Greatest(values)
       [] red = "median" -> MedianOf(vw, part)
       [] red = "majority" -> Least({v \in values : \A u \in values :
                                       AtMost(weight({s \in part : vw[s][1] = u}), weight({s \in part : vw[s][1] = v}))})
       [] red = "var" -> IF Cardinality(part) < 2 THEN NaN
                         ELSE LET d == Minus(vw[1][1], vw[2][1]) IN Times(Frac(1, 2), Times(d, d))

Composed(cell, b, stat) ==
  LET Valued(vw) == ComposedOf(vw, {s \in DOMAIN vw : vw[s][2] # Zero /\ ~IsNaN(vw[s][1])})
  IN Valued([s \in 1..Asked.n |-> Pooled(cell, {s}, b, stat)])

\* Column col of the read is band b of these sources.
BandOf(col) == ((col - 1) % Len(Asked.bands)) + 1
SourcesOf(col) == IF Asked.separate THEN {((col - 1) \div Len(Asked.bands)) + 1} ELSE 1..Asked.n

Expected(cell, stat, col) ==
  IF Asked.composite # "" THEN Composed(cell, BandOf(col), stat)
  ELSE Pooled(cell, SourcesOf(col), BandOf(col), stat)[1]

TableMade == phase = "create" \/ (phase = "done" /\ req.dest = "table")

-----------------------------------------------------------------------------
(* Properties. *)

\* Whatever the order in which stripes are done, a read has a row for every
\* cell that some valid pixel or part of one is in, each once, by ascending
\* id; and every value, composite and pixel weight of it is the one defined
\* by those pixels alone (process_tile, process_tile_overlay, absorb,
\* Aggregate and composite_output, read.rs:1459-2045, 2175-2240, 2960-3140).
ValuesAreExact ==
  TableMade =>
    /\ Range(table.cells) = ExpectedCells
    /\ \A i, j \in DOMAIN table.cells : i < j => table.cells[i] < table.cells[j]
    /\ \A k \in DOMAIN ColumnKeys : \A i \in DOMAIN table.cells :
         table.columns[k][i] = Expected(table.cells[i], ColumnKeys[k].stat, ColumnKeys[k].col)
    /\ req.npix => \A i \in DOMAIN table.cells :
         table.npix[i] = Total(LAMBDA sp : PartIn(table.cells[i], sp[1], sp[2]), PixelsOf(table.cells[i], 1..Asked.n))

OnSide(p) == \E k \in DOMAIN Asked.poly : \E s \in SidesOf(Asked.poly[k]) : WithinOf(s[1], s[2], p, 0)

\* A point is in a mask exactly when the even-odd rule over one polygon's rings
\* says so, holes, overlaps and shared edges included; and a point known to
\* within a margin is decided only when that decides every point within it
\* (PolyMask::contains and classify, poly_mask.rs:381-398).  A point on an
\* edge may go either way; no cell of the grid has its centre on one.
MaskIsEvenOdd ==
  TableMade /\ Asked.poly # <<>> =>
    LET groups == req.sources[1].ctx.poly[1]
    IN \A x \in -1..21, y \in -1..13 : ~OnSide(<<x, y>>) =>
         /\ Holds(groups, <<x, y>>) = InPolygons(Asked.poly, <<x, y>>)
         /\ \A u \in (x - 1)..(x + 1), v \in (y - 1)..(y + 1) :
              (u = x \/ v = y) /\ ClassifyPoint(groups, <<u, v>>, 1) # "unknown" =>
                (ClassifyPoint(groups, <<u, v>>, 1) = "in") = InPolygons(Asked.poly, <<x, y>>)

\* The fractions of a cell with a valid pixel add up to 1 and those of
\* another are none; a cell's slice holds each of its classes once, in order,
\* with the class's share of the weight (into_output, read.rs:3110-3132).
FractionsAreShares ==
  TableMade /\ req.fractions =>
    \A col \in 1..req.columns : \A i \in DOMAIN table.cells :
      LET fr == table.fractions[col]
          slice == SubSeq(fr.shares, fr.offsets[i] + 1, fr.offsets[i + 1])
          pix == {sp \in PixelsOf(table.cells[i], 1..Asked.n) : ~IsNaN(ValueAt(sp[1], sp[2], col))}
          part(sp) == PartIn(table.cells[i], sp[1], sp[2])
      IN /\ {slice[k][1] : k \in DOMAIN slice} = {ValueAt(sp[1], sp[2], col) : sp \in pix}
         /\ \A j, k \in DOMAIN slice : j < k => Less(slice[j][1], slice[k][1])
         /\ \A k \in DOMAIN slice :
              slice[k][2] = Over(Total(part, {sp \in pix : ValueAt(sp[1], sp[2], col) = slice[k][1]}), Total(part, pix))
=============================================================================

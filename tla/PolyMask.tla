------------------------------ MODULE PolyMask ------------------------------
(***************************************************************************)
(* The pixel mask of polygons (poly_mask.rs): whether a point is inside    *)
(* some polygon, by the even-odd rule over its rings, found with a grid.   *)
(* A grid cell knows the edges that meet it and the polygons that hold its *)
(* centre; a point is inside a polygon when that of the centre and the     *)
(* number of the polygon's edges crossed on the way from it differ.        *)
(*                                                                         *)
(* Points are in the plane of the group, the gnomonic projection done, at  *)
(* whole coordinates <<x, y>>.  A polygon is a sequence of rings, a ring a *)
(* sequence of points.                                                     *)
(***************************************************************************)
EXTENDS Integers, Sequences, FiniteSets, SequencesExt

CellsPerEdge == 4

Clamped(n, lo, hi) == IF n < lo THEN lo ELSE IF n > hi THEN hi ELSE n

-----------------------------------------------------------------------------
(* The edges, the box around them and the grid over it. *)

\* from_rings: a ring is closed if its last point repeats the first, and one
\* of fewer than three points is nothing.
OpenRing(ring) == IF Len(ring) > 1 /\ Last(ring) = Head(ring) THEN Front(ring) ELSE ring
RingsOf(poly) == SelectSeq([i \in DOMAIN poly |-> OpenRing(poly[i])], LAMBDA r : Len(r) >= 3)

RingEdges(ring, k) ==
  SelectSeq([i \in DOMAIN ring |-> [a |-> ring[i], b |-> ring[(i % Len(ring)) + 1], poly |-> k]],
            LAMBDA e : e.a # e.b)

EdgesOf(polys) ==
  FlattenSeq([k \in DOMAIN polys |-> FlattenSeq([i \in DOMAIN RingsOf(polys[k]) |-> RingEdges(RingsOf(polys[k])[i], k)])])

\* The grid's size: about CellsPerEdge cells an edge, nearly square ones.
GridOver(edges) ==
  LET xs == {edges[i].a[1] : i \in DOMAIN edges}
      ys == {edges[i].a[2] : i \in DOMAIN edges}
      w  == Max(xs) - Min(xs)
      h  == Max(ys) - Min(ys)
      n  == CellsPerEdge * Len(edges)
      gx == Min({g \in 1..(n * (w + 1)) : g * g * h >= n * w})
  IN [x0 |-> Min(xs), y0 |-> Min(ys), w |-> w, h |-> h, gx |-> gx, gy |-> (n + gx - 1) \div gx, edges |-> edges]

\* A point stretched so that cell (i, j) is 2w by 2h, its centre whole.
Stretched(g, p) == <<2 * g.gx * (p[1] - g.x0), 2 * g.gy * (p[2] - g.y0)>>
CentreAt(g, cell) == <<g.w * (2 * cell[1] + 1), g.h * (2 * cell[2] + 1)>>
CellsOver(g) == (0..(g.gx - 1)) \X (0..(g.gy - 1))

ColumnAt(g, num, den) == Clamped(num \div (2 * g.w * den), 0, g.gx - 1)
RowAt(g, num) == Clamped(num \div (2 * g.h), 0, g.gy - 1)
CellAtPoint(g, p) == <<ColumnAt(g, Stretched(g, p)[1], 1), RowAt(g, Stretched(g, p)[2])>>

\* The edge's x at height y over its rise, as a fraction of positive
\* denominator; for a level edge, of the end given.
XAt(a, b, y, end) ==
  LET rise == b[2] - a[2]
      s == IF rise < 0 THEN -1 ELSE 1
  IN IF rise = 0 THEN <<end, 1>> ELSE <<s * (a[1] * rise + (y - a[2]) * (b[1] - a[1])), s * rise>>

\* The cells an edge passes through, row by row, from its x extent in the row.
\* The padding against rounding is to count a cell that is only touched.
MeetsOf(g, e) ==
  LET a == Stretched(g, e.a)
      b == Stretched(g, e.b)
      lo == Min({a[2], b[2]})
      hi == Max({a[2], b[2]})
      columns(r) ==
        LET at == {XAt(a, b, Max({2 * g.h * r, lo}), a[1]), XAt(a, b, Min({2 * g.h * (r + 1), hi}), b[1])}
        IN Min({ColumnAt(g, x[1] - 1, x[2]) : x \in at})..Max({ColumnAt(g, x[1], x[2]) : x \in at})
  IN UNION {columns(r) \X {r} : r \in RowAt(g, lo - 1)..RowAt(g, hi)}

Odd(S) == Cardinality(S) % 2 = 1

\* The polygons that hold a cell's centre, by the edges of its row that cross
\* the line through it west of it.
HoldersOf(g, meets, cell) ==
  LET c == CentreAt(g, cell)
      row == {i \in DOMAIN g.edges : \E m \in meets[i] : m[2] = cell[2]}
      west(i) ==
        LET a == Stretched(g, g.edges[i].a)
            b == Stretched(g, g.edges[i].b)
            x == XAt(a, b, c[2], a[1])
        IN (a[2] <= c[2]) # (b[2] <= c[2]) /\ x[1] < c[1] * x[2]
  IN {k \in {g.edges[i].poly : i \in row} : Odd({i \in row : g.edges[i].poly = k /\ west(i)})}

\* Polygons projected about one centre.
Group(polys) ==
  LET g == GridOver(EdgesOf(polys))
      meets == [i \in DOMAIN g.edges |-> MeetsOf(g, g.edges[i])]
  IN [grid |-> g,
      meeting |-> [c \in CellsOver(g) |-> {i \in DOMAIN g.edges : c \in meets[i]}],
      holders |-> [c \in CellsOver(g) |-> HoldersOf(g, meets, c)]]

HasArea(polys) ==
  LET ends == {EdgesOf(polys)[i].a : i \in DOMAIN EdgesOf(polys)}
  IN \A d \in {1, 2} : \E p, q \in ends : p[d] # q[d]

\* Polygons within reach of one centre share a group, others have their own;
\* those without a ring, and groups without an area, are left out.
GroupsOf(polys, together) ==
  LET some == SelectSeq(polys, LAMBDA p : RingsOf(p) # <<>>)
      parts == IF together THEN <<some>> ELSE [k \in DOMAIN some |-> <<some[k]>>]
      large == SelectSeq(parts, HasArea)
  IN [k \in DOMAIN large |-> Group(large[k])]

-----------------------------------------------------------------------------
(* Looking a point up. *)

\* On the left of the line through a and b, or on it.
Side(a, b, c) == (b[1] - a[1]) * (c[2] - a[2]) - (b[2] - a[2]) * (c[1] - a[1]) >= 0
Crosses(r, q, a, b) == Side(r, q, a) # Side(r, q, b) /\ Side(a, b, r) # Side(a, b, q)

\* A slip: crossings of all polygons are counted together.
InsideTogether(gr, p) ==
  LET g == gr.grid
      cell == CellAtPoint(g, p)
      crossed == {i \in gr.meeting[cell] :
                    Crosses(CentreAt(g, cell), Stretched(g, p), Stretched(g, g.edges[i].a), Stretched(g, g.edges[i].b))}
  IN (gr.holders[cell] # {}) # Odd(crossed)

Inside(gr, p) ==
  LET g == gr.grid
      cell == CellAtPoint(g, p)
      crossed(k) == {i \in gr.meeting[cell] : g.edges[i].poly = k /\
                       Crosses(CentreAt(g, cell), Stretched(g, p), Stretched(g, g.edges[i].a), Stretched(g, g.edges[i].b))}
  IN \E k \in {g.edges[i].poly : i \in DOMAIN g.edges} : (k \in gr.holders[cell]) # Odd(crossed(k))

\* Whether the edge from a to b comes within m of p.
WithinOf(a, b, p, m) ==
  LET d == <<b[1] - a[1], b[2] - a[2]>>
      v == <<p[1] - a[1], p[2] - a[2]>>
      along == v[1] * d[1] + v[2] * d[2]
      len2 == d[1] * d[1] + d[2] * d[2]
      off == v[1] * d[2] - v[2] * d[1]
      near(x, y) == (p[1] - x) * (p[1] - x) + (p[2] - y) * (p[2] - y) <= m * m
  IN IF along <= 0 THEN near(a[1], a[2])
     ELSE IF along >= len2 THEN near(b[1], b[2])
     ELSE off * off <= m * m * len2

\* Edges within the margin meet a cell within the margin.
NearEdge(gr, p, m) ==
  LET lo == CellAtPoint(gr.grid, <<p[1] - m, p[2] - m>>)
      hi == CellAtPoint(gr.grid, <<p[1] + m, p[2] + m>>)
      edges == UNION {gr.meeting[c] : c \in (lo[1]..hi[1]) \X (lo[2]..hi[2])}
  IN \E i \in edges : WithinOf(gr.grid.edges[i].a, gr.grid.edges[i].b, p, m)

Beyond(g, p, m) == p[1] < g.x0 - m \/ p[1] > g.x0 + g.w + m \/ p[2] < g.y0 - m \/ p[2] > g.y0 + g.h + m

\* For a point known to within m; with m = 0 it is always decided.
TestPoint(gr, p, m) ==
  IF Beyond(gr.grid, p, m) THEN "out"
  ELSE IF m > 0 /\ NearEdge(gr, p, m) THEN "unknown"
  ELSE IF Inside(gr, p) THEN "in" ELSE "out"

AnyOf(answers) == IF "in" \in answers THEN "in" ELSE IF "unknown" \in answers THEN "unknown" ELSE "out"

ClassifyPoint(groups, p, m) == AnyOf({TestPoint(groups[i], p, m) : i \in DOMAIN groups})

Holds(groups, p) == \E i \in DOMAIN groups : TestPoint(groups[i], p, 0) = "in"
=============================================================================

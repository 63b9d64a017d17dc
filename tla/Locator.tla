------------------------------ MODULE Locator ------------------------------
(***************************************************************************)
(* The cell of a point (locator.rs).  The search, CellAt, is slow, so the  *)
(* cells a scan has just met are tried first: the last one found, the      *)
(* caller's hints, and the cells below the parents of those.  A point may  *)
(* come with an approximate position on one face and a margin; it is       *)
(* projected exactly only if that does not decide.                         *)
(*                                                                         *)
(* A point has exact, its position or Absent if it has none, and           *)
(* approx, Absent or where it is within margin on a face (at, face) and,   *)
(* if known, within off in longitude and latitude (lonlat).                *)
(* Vertices are those of a cell on its face, clockwise with ordinates upward: *)
(* the way round for which Cross is not negative inside, which the code calls *)
(* counter-clockwise.  Kept geometry and the order of the cells below a parent *)
(* are left out: they tell only which of the cells that share an edge has a *)
(* point on it.                                                            *)
(***************************************************************************)
EXTENDS Integers, Sequences, FiniteSets, SequencesExt

CONSTANTS
  NoCell,
  CellAt(_, _),      \* the search
  Direct,            \* cells are smaller than pixels, or of the coarsest levels
  FaceOf(_),         \* the face of a cell
  OnFace(_, _),      \* a position on a face
  Vertices(_),
  ParentOf(_), CellsBelow(_)

Absent == <<>>

\* Twice the area of the triangle of a side from a to b and a point: negative
\* outside the cell.
Cross(a, b, p) == (a[1] - b[1]) * (p[2] - a[2]) - (a[2] - b[2]) * (p[1] - a[1])
SidesOfCell(cell) == LET v == Vertices(cell) IN {<<v[i], v[(i % Len(v)) + 1]>> : i \in DOMAIN v}

CellContains(cell, p) == \A s \in SidesOfCell(cell) : Cross(s[1], s[2], p) >= 0

\* Whether p is further than m from the line of a side.
Clear(s, p, m) ==
  LET d == <<s[1][1] - s[2][1], s[1][2] - s[2][2]>>
  IN Cross(s[1], s[2], p) * Cross(s[1], s[2], p) > m * m * (d[1] * d[1] + d[2] * d[2])

\* A slip: the approximate position is taken for the point.
ClassifyCellHere(cell, p, m) ==
  IF \A s \in SidesOfCell(cell) : Cross(s[1], s[2], p) > 0 THEN "in" ELSE "ambiguous"

\* Where a point known to within m is.
ClassifyCell(cell, p, m) ==
  CASE \E s \in SidesOfCell(cell) : Cross(s[1], s[2], p) < 0 /\ Clear(s, p, m) -> "out"
    [] \A s \in SidesOfCell(cell) : Cross(s[1], s[2], p) > 0 /\ Clear(s, p, m) -> "in"
    [] OTHER -> "ambiguous"

Known(cell, a) ==
  IF a # Absent /\ a.face = FaceOf(cell) THEN ClassifyCell(cell, a.at, a.margin) ELSE "ambiguous"

InsideCell(cell, pt) ==
  CASE Known(cell, pt.approx) = "in" -> TRUE
    [] Known(cell, pt.approx) = "out" -> FALSE
    [] OTHER -> pt.exact # Absent /\ CellContains(cell, OnFace(pt.exact, FaceOf(cell)))

Search(pt) == IF pt.exact = Absent THEN NoCell ELSE CellAt(pt.exact[1], pt.exact[2])

\* The cells below the parents of the cells met, parent by parent.
Relatives(met) == FlattenSeq([i \in DOMAIN met |-> CellsBelow(ParentOf(met[i]))])

\* The cells to try before the search, and the first that holds the point.
Tried(last, hints) ==
  LET met == SelectSeq(<<last>> \o hints, LAMBDA c : c # NoCell)
  IN IF Direct THEN <<>> ELSE met \o Relatives(met)

FirstHit(tried, pt) ==
  LET hits == {i \in DOMAIN tried : InsideCell(tried[i], pt)}
  IN IF hits = {} THEN Search(pt) ELSE tried[Min(hits)]

\* What a locator whose last find is last answers; the answer, unless there
\* is none, is its next last find.
Locate(last, pt, hints) == FirstHit(Tried(last, hints), pt)

\* A row scan moves east: of the row above, the cells from one column to the
\* west to three to the east.
RowHints(row, c) == SelectSeq(<<c, c + 1, c + 2, c + 3, c - 1>>, LAMBDA d : d \in DOMAIN row)
=============================================================================

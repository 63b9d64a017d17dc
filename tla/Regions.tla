------------------------------- MODULE Regions -------------------------------
(***************************************************************************)
(* WGS 84 regions (Boxes in grid_proj.rs), as sets of boxes within         *)
(* longitudes -Half..Half and latitudes -Pole..Pole.  Degrees are counted  *)
(* in whole units.                                                         *)
(***************************************************************************)
EXTENDS Integers

CONSTANTS
  Half,   \* 180 degrees
  Pole    \* 90 degrees

ASSUME GlobeAssumption == Half \in Nat \ {0} /\ Pole \in Nat \ {0}

Turn == 2 * Half

\* A longitude in -Half..(Half - 1).
WrapLon(lon) == ((lon + Half) % Turn) - Half

Larger(m, n) == IF m > n THEN m ELSE n
Smaller(m, n) == IF m < n THEN m ELSE n

Box(w, s, e, n) == [w |-> w, s |-> s, e |-> e, n |-> n]
Boxes == [w : Int, s : Int, e : Int, n : Int]

\* A user's bbox: two boxes when it is across the antimeridian.
FromBbox(w, s, e, n) ==
  IF w > e THEN {Box(w, s, Half, n), Box(-Half, s, e, n)} ELSE {Box(w, s, e, n)}

\* The boxes of the longitudes a..b, in any frame.
OfRange(a, s, b, n) ==
  LET s2 == Larger(s, -Pole)
      n2 == Smaller(n, Pole)
      a2 == WrapLon(a)
      b2 == a2 + (b - a)
  IN IF b - a >= Turn THEN {Box(-Half, s2, Half, n2)}
     ELSE IF b2 <= Half THEN {Box(a2, s2, b2, n2)}
     ELSE {Box(a2, s2, Half, n2), Box(-Half, s2, b2 - Turn, n2)}

-----------------------------------------------------------------------------
(* Points. *)

\* Max edges are open, and closed at the edge of the globe.
PastMax(v, hi, globe) == IF hi >= globe THEN v > hi ELSE v >= hi

InBbox(lon, lat, b) ==
  lon >= b.w /\ lat >= b.s /\ ~PastMax(lon, b.e, Half) /\ ~PastMax(lat, b.n, Pole)

Holds(region, lon, lat) == \E b \in region : InBbox(WrapLon(lon), lat, b)

\* A point known to within a margin: decided inside, decided outside, or not.
SurelyIn(lon, lat, m, b) ==
  /\ lon - m >= b.w /\ lat - m >= b.s
  /\ ~PastMax(lon + m, b.e, Half) /\ ~PastMax(lat + m, b.n, Pole)

SurelyOut(lon, lat, m, b) ==
  \/ lon + m < b.w \/ lat + m < b.s
  \/ PastMax(lon - m, b.e, Half) \/ PastMax(lat - m, b.n, Pole)

\* A slip: the antimeridian is not looked at.
ClassifyAnywhere(region, lon, lat, m) ==
  LET x == WrapLon(lon)
  IN IF \E b \in region : SurelyIn(x, lat, m, b) THEN "in"
     ELSE IF \A b \in region : SurelyOut(x, lat, m, b) THEN "out"
     ELSE "undecided"

Classify(region, lon, lat, m) ==
  LET x == WrapLon(lon)
  IN IF x + m >= Half \/ x - m < -Half THEN "undecided"
     ELSE IF \E b \in region : SurelyIn(x, lat, m, b) THEN "in"
     ELSE IF \A b \in region : SurelyOut(x, lat, m, b) THEN "out"
     ELSE "undecided"

-----------------------------------------------------------------------------
(* Boxes with boxes. *)

Cut(a, b) ==
  Box(Larger(a.w, b.w), Larger(a.s, b.s), Smaller(a.e, b.e), Smaller(a.n, b.n))

Intersect(region, other) ==
  {c \in {Cut(a, b) : a \in region, b \in other} : c.w < c.e /\ c.s < c.n}

\* Every box of other lies in one box of the region.
Covers(region, other) ==
  \A o \in other : \E b \in region : b.w <= o.w /\ b.s <= o.s /\ b.e >= o.e /\ b.n >= o.n
=============================================================================

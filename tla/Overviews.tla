------------------------------ MODULE Overviews ------------------------------
(***************************************************************************)
(* Which resolution level of its file a source is read at.  Decimation     *)
(* factors are counted in thousandths.  A source has its images in the     *)
(* order of the file, the full resolution first; each has its size, its    *)
(* number of bands, its tiles (0 x 0 when it has none), and what its        *)
(* NewSubfileType says.                                                    *)
(***************************************************************************)
EXTENDS Integers, Sequences, FiniteSets, FiniteSetsExt

CONSTANTS
  Oversample,  \* OVERVIEW_MIN_OVERSAMPLE
  FactorTol    \* OVERVIEW_FACTOR_TOL, in thousandths

Factor(full, n) == (1000 * full) \div n

\* The images a read may take instead of full resolution, in file order.
Qualifies(s, i) ==
  LET full == s.images[1]
      im   == s.images[i]
  IN /\ i > 1
     /\ im.kind \in {"reduced", "unmarked"}
     /\ im.w < full.w /\ im.h < full.h
     /\ im.bands = full.bands
     /\ im.tw > 0

OverviewLevels(s) == {i \in DOMAIN s.images : Qualifies(s, i)}

FactorX(s, i) == Factor(s.images[1].w, s.images[i].w)
FactorY(s, i) == Factor(s.images[1].h, s.images[i].h)

\* The longer edge of a level's pixel on the ground.
GroundPixel(s, i) ==
  LET x == s.ground * FactorX(s, i)
      y == s.ground * FactorY(s, i)
  IN IF x > y THEN x ELSE y

\* The pixel edge a target cell edge allows, in the same thousandths.
Fits(s, i, target) == Oversample * GroundPixel(s, i) <= 1000 * target

Coarsest(s, levels) ==
  {i \in levels : \A j \in levels : GroundPixel(s, j) <= GroundPixel(s, i)}

\* select_overview_level: the coarsest that fits, the first of equals, else 1.
SelectOverviewLevel(s, target) ==
  LET fit == {i \in OverviewLevels(s) : Fits(s, i, target)}
  IN IF fit = {} THEN 1 ELSE Min(Coarsest(s, fit))

Close(a, b) ==
  1000 * (IF a > b THEN a - b ELSE b - a) <= FactorTol * (IF a > b THEN a ELSE b)

\* A slip: only the columns' factor is compared.
MatchesAcross(s, i, t, j) == Close(FactorX(s, i), FactorX(t, j))

Matches(s, i, t, j) == Close(FactorX(s, i), FactorX(t, j)) /\ Close(FactorY(s, i), FactorY(t, j))

\* The levels of t that go with level i of s.
Partners(s, i, t, target) ==
  {j \in OverviewLevels(t) : Matches(s, i, t, j) /\ Fits(t, j, target)}

\* common_overview_levels: the coarsest level of the first source that suits
\* the cell and that every other source has, which takes the first it has;
\* else full resolution for all.
CommonOverviewLevels(sources, target) ==
  LET first  == sources[1]
      With(i, j) == Partners(first, i, sources[j], target)
      shared == {i \in OverviewLevels(first) :
                   /\ Fits(first, i, target)
                   /\ \A j \in 2..Len(sources) : With(i, j) # {}}
      chosen == Min(Coarsest(first, shared))
  IN IF target = 0 \/ shared = {} THEN [j \in DOMAIN sources |-> 1]
     ELSE [j \in DOMAIN sources |-> IF j = 1 THEN chosen ELSE Min(With(chosen, j))]
=============================================================================

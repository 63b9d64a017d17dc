----------------------------- MODULE MCSelection -----------------------------
(***************************************************************************)
(* The instances of Selection: one raster at a time under every region of  *)
(* a grid of edges, and two or three sources at a time under the arguments *)
(* that decide bands and levels.  180 degrees are 32 units; pixel centres  *)
(* fall on edges of the regions.                                           *)
(***************************************************************************)
EXTENDS Selection

CONSTANT Cases   \* the sets of requests of this run

Image(w, h, tw, th, kind, n) ==
  [w |-> w, h |-> h, tw |-> tw, th |-> th, kind |-> kind, bands |-> n]

-----------------------------------------------------------------------------
(* One raster, many regions. *)

Placed(x0, y0, px, images) ==
  [label |-> "a", bands |-> <<"x">>, scale |-> <<1>>, codes |-> "small", ground |-> 10,
   x0 |-> x0, y0 |-> y0, px |-> px, py |-> px, images |-> images]

\* Around the globe, in either frame, with an overview of half the size.
Globes ==
  {Placed(x0, Pole, 4, <<Image(16, 8, 6, 4, "image", 1), Image(8, 4, 3, 2, "reduced", 1)>>) : x0 \in {-Half, 0}}

\* Across the antimeridian, from either side and in the frame 0 to 360; around
\* longitude 0; with a mask.
Pieces ==
  {Placed(x0, 8, 4, <<Image(6, 4, 2, 2, "image", 1)>>) : x0 \in {20, -44, 52, -12}} \cup
  {Placed(20, 8, 4, <<Image(6, 4, 4, 4, "image", 1), Image(6, 4, 4, 4, "mask", 1)>>)}

\* Pixels centred on the edges of a grid: the first row is on the pole.
PoleRows == {Placed(-10, Pole + 2, 4, <<Image(6, 4, 2, 2, "image", 1)>>)}

\* Around the globe to both poles, in narrow tiles.
NarrowGlobes == {Placed(-Half, Pole, 4, <<Image(16, 8, 1, 4, "image", 1)>>)}

LonEdges == {-Half, -18, -2, 14, 21, Half}
LatEdges == {-Pole, -6, 2, 5, Pole}

\* A bbox across the antimeridian has w > e.
BboxRegions ==
  {FromBbox(x[1], y[1], x[2], y[2]) :
     x \in {p \in LonEdges \X LonEdges : p[1] # p[2] /\ p[1] # Half /\ p[2] # -Half},
     y \in {p \in LatEdges \X LatEdges : p[1] < p[2]}}

Ask(sources, separate, sel, target, decode, classes, region, alignBlock) ==
  [sources |-> sources, separate |-> separate, sel |-> sel, target |-> target, decode |-> decode,
   classes |-> classes, region |-> region, alignBlock |-> alignBlock]

Every         == [idx |-> <<>>, names |-> <<>>]
ByIndex(idx)  == [idx |-> idx, names |-> <<>>]
ByName(names) == [idx |-> <<>>, names |-> names]

RegionRequests(rasters) ==
  {Ask(<<s>>, FALSE, Every, target, "none", FALSE, region, align) :
     s \in rasters, target \in {0, 40}, region \in BboxRegions, align \in BOOLEAN}

-----------------------------------------------------------------------------
(* Several sources. *)

File(label, names, scale, codes, ground, images) ==
  [label |-> label, bands |-> names, scale |-> scale, codes |-> codes, ground |-> ground,
   x0 |-> 0, y0 |-> 8, px |-> 4, py |-> 4, images |-> images]

\* Sizes that round up when they halve; a level the other file lacks; levels
\* of equal pixels; a mask among them; a level without tiles; one level
\* squeezed along one side.
Even(n)     == <<Image(8, 8, 2, 2, "image", n), Image(4, 4, 2, 2, "reduced", n), Image(2, 2, 2, 2, "unmarked", n)>>
Odd(n)      == <<Image(9, 9, 2, 2, "image", n), Image(5, 5, 2, 2, "reduced", n)>>
Squeezed(n) == <<Image(8, 8, 2, 2, "image", n), Image(4, 7, 2, 2, "reduced", n)>>
Masked(n)   == <<Image(8, 8, 2, 2, "image", n), Image(8, 8, 1, 1, "mask", 1), Image(4, 4, 2, 2, "reduced", n)>>
Striped(n)  == <<Image(8, 8, 0, 0, "image", n), Image(4, 4, 2, 2, "reduced", n)>>
Twins(n)    == <<Image(8, 8, 2, 2, "image", n), Image(4, 4, 2, 2, "reduced", n), Image(4, 4, 4, 4, "reduced", n)>>

TwoBands == <<"x", "y">>
Files(label) ==
  {File(label, TwoBands, <<1, 1>>, "small", 10, f) : f \in {Even(2), Odd(2), Squeezed(2), Masked(2), Striped(2), Twins(2)}} \cup
  {File(label, <<"x">>, <<1>>, "small", 10, Even(1)), File(label, TwoBands, <<1, 2>>, "real", 10, Even(2)),
   File(label, TwoBands, <<1, 1>>, "small", 11, Even(2))}

\* Every band, a subset out of order, one band twice, a band there is not; by
\* the names of pooled bands, of sources and of a source's bands.
Selections ==
  {Every} \cup {ByIndex(idx) : idx \in {<<2, 1>>, <<1, 1>>, <<4>>}} \cup
  {ByName(names) : names \in {<<<<"y">>, <<"x">>>>, <<<<"x">>, <<"x">>>>, <<<<"b">>, <<"a", "y">>>>,
                              <<<<"b", "y">>, <<"a", "x">>, <<"b", "x">>>>}}

SourceLists ==
  {<<a, b>> : a \in Files("a"), b \in Files("b")} \cup
  {<<a, a>> : a \in Files("a")} \cup
  {<<a, b, c>> : a \in {File("a", TwoBands, <<1, 1>>, "small", 10, Even(2))},
                 b \in {File("b", <<"x">>, <<1>>, "small", 10, Even(1)), File("b", TwoBands, <<1, 1>>, "small", 10, Odd(2))},
                 c \in Files("c")}

SourceRequests ==
  {Ask(sources, separate, sel, target, decode, FALSE, {}, FALSE) :
     sources \in SourceLists, separate \in BOOLEAN, sel \in Selections, target \in {0, 40, 80},
     decode \in {"none", "scoff"}} \cup
  {Ask(<<f>>, FALSE, Every, 0, decode, classes, {}, FALSE) :
     f \in Files("a"), decode \in {"none", "lut"}, classes \in BOOLEAN} \cup
  {Ask(<<f, g>>, TRUE, ByIndex(<<2, 3>>), 40, "none", FALSE, FromBbox(14, -6, 18, 2), FALSE) :
     f \in Files("a"), g \in Files("b")}

MCRequests ==
  (IF "regions" \in Cases THEN RegionRequests(Globes \cup Pieces \cup PoleRows) ELSE {}) \cup
  (IF "sources" \in Cases THEN SourceRequests ELSE {}) \cup
  (IF "seam" \in Cases THEN RegionRequests(NarrowGlobes) ELSE {})

-----------------------------------------------------------------------------
(* Points on the regions' edges, and on either side of them. *)

MCPoints ==
  ({e + d : e \in LonEdges, d \in -2..1} \cup {Turn - 1}) \X {-Pole, -7, 0, 2, Pole - 1}
=============================================================================

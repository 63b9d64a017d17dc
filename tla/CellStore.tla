----------------------------- MODULE CellStore ------------------------------
(***************************************************************************)
(* The store of per-cell accumulators (CellStore) under the layout whose   *)
(* bands share one weight per cell (AccMean), as operators on its value.   *)
(*                                                                         *)
(* A slot is named by its cell: slots are never removed, and their order   *)
(* only decides the order of additions.  A weighted sum is abstracted to   *)
(* the weight of the values pushed into it, so that it can be compared     *)
(* with the weight the store keeps apart from it.                          *)
(***************************************************************************)
EXTENDS Integers, FiniteSets

CONSTANT MaxClasses  \* MAX_CLASSES_PER_CELL

\* cont: weight of each band's sum; cat: weight per class of each band;
\* npix: weight of the pixels with any valid band; bw: the weight all bands
\* of a cell share; split: a weight per band for the cells whose bands differ.
StoreOf(bands, cont, cat, npix, bw, split) ==
  [bands |-> bands, cont |-> cont, cat |-> cat, npix |-> npix, bw |-> bw, split |-> split]

EmptyStore(bands) == StoreOf(bands, << >>, << >>, << >>, << >>, << >>)

Known(st) == DOMAIN st.bw

\* f with cell mapped to v.
With(f, cell, v) == [c \in DOMAIN f \cup {cell} |-> IF c = cell THEN v ELSE f[c]]

\* slot: the store with the cell in it.
WithCell(st, cell) ==
  IF cell \in Known(st) THEN st
  ELSE StoreOf(st.bands,
               With(st.cont, cell, [b \in st.bands |-> 0]),
               With(st.cat, cell, [b \in st.bands |-> << >>]),
               With(st.npix, cell, 0), With(st.bw, cell, 0), st.split)

\* shared_weight, for every band of a cell.
WeightsOf(st, cell) ==
  IF cell \in DOMAIN st.split THEN st.split[cell] ELSE [b \in st.bands |-> st.bw[cell]]

\* A slip to tell AddBandWeights from: a split cell's equal weights go to the
\* shared weight.
AddSharedWeights(st, cell, ws) ==
  IF \A a, b \in st.bands : ws[a] = ws[b]
  THEN StoreOf(st.bands, st.cont, st.cat, st.npix,
               With(st.bw, cell, st.bw[cell] + ws[CHOOSE b \in st.bands : TRUE]), st.split)
  ELSE StoreOf(st.bands, st.cont, st.cat, st.npix, st.bw,
               With(st.split, cell, [b \in st.bands |-> WeightsOf(st, cell)[b] + ws[b]]))

\* add_band_weights: equal weights go to the shared one unless the cell is
\* split already.  add_pixel_weight is the case of weights 0 and w.
AddBandWeights(st, cell, ws) ==
  IF cell \notin DOMAIN st.split /\ \A a, b \in st.bands : ws[a] = ws[b]
  THEN StoreOf(st.bands, st.cont, st.cat, st.npix,
               With(st.bw, cell, st.bw[cell] + ws[CHOOSE b \in st.bands : TRUE]), st.split)
  ELSE StoreOf(st.bands, st.cont, st.cat, st.npix, st.bw,
               With(st.split, cell, [b \in st.bands |-> WeightsOf(st, cell)[b] + ws[b]]))

-----------------------------------------------------------------------------
(* Class weights: a map from the classes seen to their weights. *)

ClassWeight(m, k) == IF k \in DOMAIN m THEN m[k] ELSE 0
CatSum(m, o) == [k \in DOMAIN m \cup DOMAIN o |-> ClassWeight(m, k) + ClassWeight(o, k)]
\* cat_push refuses a class beyond the cap.
TooMany(m, o) == Cardinality(DOMAIN m \cup DOMAIN o) > MaxClasses
\* One class, not recorded without a weight.
ClassOf(k, w) == IF w > 0 THEN [c \in {k} |-> w] ELSE << >>

-----------------------------------------------------------------------------
(* Pixels into a store: n of them have a valid band, their weight in band  *)
(* b is ws[b], and they are of class k.                                    *)

Pushed(st, cell, n, ws, k) ==
  LET s == WithCell(st, cell)
  IN AddBandWeights(
       StoreOf(s.bands,
               With(s.cont, cell, [b \in s.bands |-> s.cont[cell][b] + ws[b]]),
               With(s.cat, cell, [b \in s.bands |-> CatSum(s.cat[cell][b], ClassOf(k, ws[b]))]),
               With(s.npix, cell, s.npix[cell] + n), s.bw, s.split),
       cell, ws)

PushFails(st, cell, ws, k) ==
  \E b \in st.bands : TooMany(WithCell(st, cell).cat[cell][b], ClassOf(k, ws[b]))

-----------------------------------------------------------------------------
(* A cell of one store into another, its band b becoming column cols[b]. *)

\* What the columns receive; a column the other store does not cover gets none.
Scatter(cols, columns, f, none) ==
  [c \in columns |-> IF \E b \in DOMAIN cols : cols[b] = c
                     THEN f[CHOOSE b \in DOMAIN cols : cols[b] = c] ELSE none]

\* A slip: whether the other store has split the cell is not looked at.
MergeSharedWeights(st, other, cell, cols, mapped) ==
  IF ~mapped /\ cell \notin DOMAIN st.split
  THEN StoreOf(st.bands, st.cont, st.cat, st.npix,
               With(st.bw, cell, st.bw[cell] + other.bw[cell]), st.split)
  ELSE LET got == Scatter(cols, st.bands, WeightsOf(other, cell), 0)
       IN StoreOf(st.bands, st.cont, st.cat, st.npix, st.bw,
                  With(st.split, cell, [c \in st.bands |-> WeightsOf(st, cell)[c] + got[c]]))

\* merge_weights: without a column map and with neither side split, the
\* shared weights add up; else the cell is split.
MergeWeights(st, other, cell, cols, mapped) ==
  IF ~mapped /\ cell \notin DOMAIN other.split /\ cell \notin DOMAIN st.split
  THEN StoreOf(st.bands, st.cont, st.cat, st.npix,
               With(st.bw, cell, st.bw[cell] + other.bw[cell]), st.split)
  ELSE LET got == Scatter(cols, st.bands, WeightsOf(other, cell), 0)
       IN StoreOf(st.bands, st.cont, st.cat, st.npix, st.bw,
                  With(st.split, cell, [c \in st.bands |-> WeightsOf(st, cell)[c] + got[c]]))

\* The sums are merged first, then the classes.
WithSums(st, other, cell, cols) ==
  LET s == WithCell(st, cell)
      got == Scatter(cols, s.bands, other.cont[cell], 0)
  IN StoreOf(s.bands, With(s.cont, cell, [c \in s.bands |-> s.cont[cell][c] + got[c]]),
             s.cat, s.npix, s.bw, s.split)

ClassesOf(other, cell, cols, columns) == Scatter(cols, columns, other.cat[cell], << >>)

\* merge_cell_from and merge_cell_from_mapped.
MergedCell(st, other, cell, cols, mapped) ==
  LET s == WithSums(st, other, cell, cols)
      got == ClassesOf(other, cell, cols, s.bands)
  IN MergeWeights(
       StoreOf(s.bands, s.cont,
               With(s.cat, cell, [c \in s.bands |-> CatSum(s.cat[cell][c], got[c])]),
               With(s.npix, cell, s.npix[cell] + other.npix[cell]), s.bw, s.split),
       other, cell, cols, mapped)

MergeOverflows(st, other, cell, cols) ==
  \E c \in st.bands :
    TooMany(WithCell(st, cell).cat[cell][c], ClassesOf(other, cell, cols, st.bands)[c])

-----------------------------------------------------------------------------

\* The weight a band's sum is divided by is the weight of what was summed,
\* and no band outweighs the pixels of its cell.
WeightsMatchSums(st) ==
  \A cell \in Known(st) : \A b \in st.bands :
    /\ st.cont[cell][b] = WeightsOf(st, cell)[b]
    /\ st.cont[cell][b] <= st.npix[cell]
=============================================================================

----------------------- MODULE PartitionedStoreProofs -----------------------
(***************************************************************************)
(* For all cells, columns, partitions, threads and column maps: the weight *)
(* a mean divides by is the weight of what was summed, wherever it is      *)
(* kept, under every interleaving of stripes and merges; no pixel's weight *)
(* is lost or counted twice between stripes and partitions; and a thread   *)
(* that holds a partition's lock can always go on.                         *)
(***************************************************************************)
EXTENDS PartitionedStore, FiniteSetTheorems, TLAPS

-----------------------------------------------------------------------------
(* One store. *)

\* Every cell of the store has all its fields.
Shaped(st) ==
  /\ DOMAIN st.cont = Known(st)
  /\ DOMAIN st.npix = Known(st)
  /\ DOMAIN st.split \subseteq Known(st)

\* The fields of a cell are weights, and they match.
CellSound(st, cell) ==
  /\ st.npix[cell] \in Nat
  /\ st.bw[cell] \in Nat
  /\ \A b \in st.bands :
       /\ st.cont[cell][b] \in Nat
       /\ st.cont[cell][b] = WeightsOf(st, cell)[b]
       /\ st.cont[cell][b] <= st.npix[cell]

Sound(st) == Shaped(st) /\ \A cell \in Known(st) : CellSound(st, cell)

\* Two stores hold the same of a cell.
Same(s, st, cell) ==
  /\ s.cont[cell] = st.cont[cell] /\ s.npix[cell] = st.npix[cell] /\ s.bw[cell] = st.bw[cell]
  /\ cell \in DOMAIN s.split <=> cell \in DOMAIN st.split
  /\ cell \in DOMAIN st.split => s.split[cell] = st.split[cell]

\* The weights of a cell, band by band.
LEMMA WeightsByCase ==
  ASSUME NEW st, NEW cell, NEW b \in st.bands
  PROVE  /\ cell \in DOMAIN st.split => WeightsOf(st, cell)[b] = st.split[cell][b]
         /\ cell \notin DOMAIN st.split => WeightsOf(st, cell)[b] = st.bw[cell]
BY DEF WeightsOf

\* An update of one cell need only be sound at that cell.
LEMMA FrameSound ==
  ASSUME NEW st, NEW s, NEW cell, Sound(st), Shaped(s), s.bands = st.bands,
         Known(s) = Known(st) \cup {cell},
         \A c \in Known(st) \ {cell} : Same(s, st, c),
         CellSound(s, cell)
  PROVE  Sound(s)
<1> SUFFICES ASSUME NEW c \in Known(s), c # cell PROVE CellSound(s, c)
  BY DEF Sound
<1>1. c \in Known(st) /\ CellSound(st, c) /\ Same(s, st, c)
  BY DEF Sound
<1>2. WeightsOf(s, c) = WeightsOf(st, c)
  BY <1>1 DEF Same, WeightsOf
<1>3. QED
  BY <1>1, <1>2 DEF CellSound, Same

LEMMA EmptySound ==
  ASSUME NEW bands
  PROVE  Sound(EmptyStore(bands)) /\ EmptyStore(bands).bands = bands /\ Known(EmptyStore(bands)) = {}
BY DEF Sound, Shaped, EmptyStore, StoreOf, Known

\* A new cell has weight zero everywhere; no other cell changes.
LEMMA WithCellSound ==
  ASSUME NEW st, NEW cell, Sound(st)
  PROVE  LET s == WithCell(st, cell)
         IN Sound(s) /\ s.bands = st.bands /\ Known(s) = Known(st) \cup {cell}
<1>1. CASE cell \in Known(st)
  BY <1>1 DEF WithCell
<1>2. CASE cell \notin Known(st)
  <2> DEFINE s == WithCell(st, cell)
             zeros == [b \in st.bands |-> 0]
  <2>1. /\ s.bands = st.bands /\ s.split = st.split
        /\ s.cont = With(st.cont, cell, zeros)
        /\ s.npix = With(st.npix, cell, 0) /\ s.bw = With(st.bw, cell, 0)
    BY <1>2 DEF WithCell, StoreOf
  <2> HIDE DEF s
  <2>2. Known(s) = Known(st) \cup {cell}
    BY <2>1 DEF With, Known
  <2>3. /\ DOMAIN s.cont = Known(s) /\ DOMAIN s.npix = Known(s)
        /\ \A b \in st.bands : s.cont[cell][b] = 0
        /\ s.npix[cell] = 0 /\ s.bw[cell] = 0
        /\ \A c \in Known(st) : c # cell =>
             s.cont[c] = st.cont[c] /\ s.npix[c] = st.npix[c] /\ s.bw[c] = st.bw[c]
    BY <2>1, <2>2 DEF With, Known, Sound, Shaped
  <2>4. cell \notin DOMAIN s.split
    BY <1>2, <2>1 DEF Sound, Shaped
  <2>5. Shaped(s)
    BY <2>1, <2>2, <2>3 DEF Sound, Shaped
  <2>6. CellSound(s, cell)
    <3>1. \A b \in s.bands : WeightsOf(s, cell)[b] = 0
      BY <2>3, <2>4, WeightsByCase
    <3>2. QED
      BY <2>1, <2>3, <3>1 DEF CellSound
  <2>7. \A c \in Known(st) \ {cell} : Same(s, st, c)
    BY <2>1, <2>3 DEF Same
  <2>8. Sound(s)
    BY <2>1, <2>2, <2>5, <2>6, <2>7, FrameSound
  <2>9. QED
    BY <2>1, <2>2, <2>8 DEF s
<1>3. QED
  BY <1>1, <1>2


\* add_band_weights after the sums and npix of a cell have taken the weights.
LEMMA AddBandWeightsSound ==
  ASSUME NEW st, NEW s, NEW cell \in Known(st), NEW n \in Nat, NEW ws,
         Sound(st), st.bands # {}, \A b \in st.bands : ws[b] \in 0..n,
         Shaped(s), s.bands = st.bands, Known(s) = Known(st),
         s.bw = st.bw, s.split = st.split,
         \A b \in st.bands : s.cont[cell][b] = st.cont[cell][b] + ws[b],
         s.npix[cell] = st.npix[cell] + n,
         \A c \in Known(st) \ {cell} : s.cont[c] = st.cont[c] /\ s.npix[c] = st.npix[c]
  PROVE  LET a == AddBandWeights(s, cell, ws)
         IN Sound(a) /\ a.bands = st.bands /\ Known(a) = Known(st)
<1> DEFINE a == AddBandWeights(s, cell, ws)
<1>0. /\ CellSound(st, cell)
      /\ WeightsOf(s, cell) = WeightsOf(st, cell)
      /\ \A b \in st.bands : ws[b] \in Nat /\ ws[b] <= n
  BY DEF Sound, WeightsOf
<1>1. CASE cell \notin DOMAIN s.split /\ \A b, c \in s.bands : ws[b] = ws[c]
  <2> DEFINE w0 == ws[CHOOSE b \in s.bands : TRUE]
  <2>1. \A b \in s.bands : ws[b] = w0
    BY <1>1
  <2>2. w0 \in Nat
    BY <1>0, <2>1
  <2>3. /\ a.bands = s.bands /\ a.cont = s.cont /\ a.npix = s.npix /\ a.split = s.split
        /\ a.bw = With(s.bw, cell, s.bw[cell] + w0)
    BY <1>1 DEF AddBandWeights, StoreOf
  <2> HIDE DEF a, w0
  <2>4. /\ Known(a) = Known(st) /\ a.bw[cell] = s.bw[cell] + w0
        /\ \A c \in Known(st) \ {cell} : a.bw[c] = s.bw[c]
    BY <2>3 DEF With, Known
  <2>5. CellSound(a, cell)
    <3>1. ASSUME NEW b \in a.bands
          PROVE  /\ a.cont[cell][b] \in Nat
                 /\ a.cont[cell][b] = WeightsOf(a, cell)[b]
                 /\ a.cont[cell][b] <= a.npix[cell]
      <4>1. WeightsOf(a, cell)[b] = a.bw[cell] /\ WeightsOf(st, cell)[b] = st.bw[cell]
        BY <1>1, <2>3, <3>1, WeightsByCase
      <4>2. /\ st.cont[cell][b] \in Nat /\ st.cont[cell][b] = st.bw[cell]
            /\ st.cont[cell][b] <= st.npix[cell] /\ st.npix[cell] \in Nat
            /\ ws[b] = w0 /\ w0 <= n
        BY <1>0, <2>1, <2>3, <4>1 DEF CellSound
      <4>3. a.cont[cell][b] = st.cont[cell][b] + w0 /\ a.npix[cell] = st.npix[cell] + n
        BY <2>3, <4>2
      <4>4. QED
        BY <2>2, <2>4, <4>1, <4>2, <4>3
    <3>2. a.npix[cell] \in Nat /\ a.bw[cell] \in Nat
      BY <1>0, <2>2, <2>3, <2>4 DEF CellSound
    <3>3. QED
      BY <3>1, <3>2 DEF CellSound
  <2>6. \A c \in Known(st) \ {cell} : Same(a, st, c)
    BY <2>3, <2>4 DEF Same
  <2>7. Shaped(a)
    BY <2>3, <2>4 DEF Shaped
  <2>8. Known(a) = Known(st) \cup {cell}
    BY <2>4
  <2>9. Sound(a)
    BY <2>3, <2>5, <2>6, <2>7, <2>8, FrameSound
  <2>10. QED
    BY <2>3, <2>4, <2>9 DEF a
<1>2. CASE ~(cell \notin DOMAIN s.split /\ \A b, c \in s.bands : ws[b] = ws[c])
  <2> DEFINE e == [b \in s.bands |-> WeightsOf(s, cell)[b] + ws[b]]
  <2>1. /\ a.bands = s.bands /\ a.cont = s.cont /\ a.npix = s.npix /\ a.bw = s.bw
        /\ a.split = With(s.split, cell, e)
    BY <1>2 DEF AddBandWeights, StoreOf
  <2> HIDE DEF a
  <2>2. /\ DOMAIN a.split = DOMAIN s.split \cup {cell} /\ a.split[cell] = e
        /\ \A c \in DOMAIN s.split : c # cell => a.split[c] = s.split[c]
    BY <2>1 DEF With
  <2>3. Known(a) = Known(st)
    BY <2>1 DEF Known
  <2>4. CellSound(a, cell)
    <3>1. ASSUME NEW b \in a.bands
          PROVE  /\ a.cont[cell][b] \in Nat
                 /\ a.cont[cell][b] = WeightsOf(a, cell)[b]
                 /\ a.cont[cell][b] <= a.npix[cell]
      <4>1. WeightsOf(a, cell)[b] = WeightsOf(st, cell)[b] + ws[b]
        BY <1>0, <2>1, <2>2, <3>1, WeightsByCase
      <4>2. /\ st.cont[cell][b] \in Nat /\ st.cont[cell][b] = WeightsOf(st, cell)[b]
            /\ st.cont[cell][b] <= st.npix[cell] /\ st.npix[cell] \in Nat
            /\ ws[b] \in Nat /\ ws[b] <= n
        BY <1>0, <2>1 DEF CellSound
      <4>3. a.cont[cell][b] = st.cont[cell][b] + ws[b] /\ a.npix[cell] = st.npix[cell] + n
        BY <2>1
      <4>4. QED
        BY <4>1, <4>2, <4>3
    <3>2. a.npix[cell] \in Nat /\ a.bw[cell] \in Nat
      BY <1>0, <2>1 DEF CellSound
    <3>3. QED
      BY <3>1, <3>2 DEF CellSound
  <2>5. \A c \in Known(st) \ {cell} : Same(a, st, c)
    BY <2>1, <2>2 DEF Same
  <2>6. Shaped(a)
    BY <2>1, <2>2, <2>3 DEF Shaped
  <2>7. Known(a) = Known(st) \cup {cell}
    BY <2>3
  <2>8. Sound(a)
    BY <2>1, <2>4, <2>5, <2>6, <2>7, FrameSound
  <2>9. QED
    BY <2>1, <2>3, <2>8 DEF a
<1>3. QED
  BY <1>1, <1>2


\* A push keeps a store sound.
LEMMA PushedSound ==
  ASSUME NEW st, NEW cell, NEW n, NEW ws, NEW k,
         n \in Nat, Sound(st), st.bands # {}, \A b \in st.bands : ws[b] \in 0..n
  PROVE  LET a == Pushed(st, cell, n, ws, k)
         IN Sound(a) /\ a.bands = st.bands /\ Known(a) = Known(st) \cup {cell}
<1> DEFINE u == WithCell(st, cell)
           s == StoreOf(u.bands,
                        With(u.cont, cell, [b \in u.bands |-> u.cont[cell][b] + ws[b]]),
                        With(u.cat, cell, [b \in u.bands |-> CatSum(u.cat[cell][b], ClassOf(k, ws[b]))]),
                        With(u.npix, cell, u.npix[cell] + n), u.bw, u.split)
<1>1. Sound(u) /\ u.bands = st.bands /\ Known(u) = Known(st) \cup {cell}
  BY WithCellSound
<1>2. Pushed(st, cell, n, ws, k) = AddBandWeights(s, cell, ws)
  BY DEF Pushed
<1> HIDE DEF u
<1>3. /\ s.bands = u.bands /\ s.bw = u.bw /\ s.split = u.split /\ Known(s) = Known(u)
      /\ s.cont = With(u.cont, cell, [b \in u.bands |-> u.cont[cell][b] + ws[b]])
      /\ s.npix = With(u.npix, cell, u.npix[cell] + n)
  BY DEF StoreOf, Known
<1> HIDE DEF s
<1>4. /\ \A b \in u.bands : s.cont[cell][b] = u.cont[cell][b] + ws[b]
      /\ s.npix[cell] = u.npix[cell] + n
  BY <1>3 DEF With
<1>5. cell \in Known(u)
  BY <1>1
<1>6. Shaped(s)
  BY <1>1, <1>3, <1>5 DEF Shaped, Sound, With
<1>7. \A c \in Known(u) \ {cell} : s.cont[c] = u.cont[c] /\ s.npix[c] = u.npix[c]
  BY <1>1, <1>3 DEF Shaped, Sound, With
<1>8. u.bands # {} /\ \A b \in u.bands : ws[b] \in 0..n
  BY <1>1
<1> DEFINE a == AddBandWeights(s, cell, ws)
<1>9. Sound(a) /\ a.bands = u.bands /\ Known(a) = Known(u)
  <2>1. /\ Sound(u) /\ s.bands = u.bands /\ s.bw = u.bw /\ s.split = u.split /\ Known(s) = Known(u)
    BY <1>1, <1>3
  <2>2. QED
    BY <2>1, <1>4, <1>5, <1>6, <1>7, <1>8, AddBandWeightsSound
<1>10. QED
  BY <1>1, <1>2, <1>9

\* What a column receives from a sound cell: as much weight as sum.
LEMMA ScatterSound ==
  ASSUME NEW other, NEW cell, NEW cols, NEW columns, NEW c \in columns,
         CellSound(other, cell), DOMAIN cols = other.bands
  PROVE  LET sum == Scatter(cols, columns, other.cont[cell], 0)[c]
             weight == Scatter(cols, columns, WeightsOf(other, cell), 0)[c]
         IN sum \in Nat /\ sum = weight /\ sum <= other.npix[cell]
<1>1. CASE \E b \in DOMAIN cols : cols[b] = c
  <2> DEFINE b == CHOOSE b \in DOMAIN cols : cols[b] = c
  <2>1. b \in other.bands
    BY <1>1
  <2>2. /\ Scatter(cols, columns, other.cont[cell], 0)[c] = other.cont[cell][b]
        /\ Scatter(cols, columns, WeightsOf(other, cell), 0)[c] = WeightsOf(other, cell)[b]
    BY <1>1 DEF Scatter
  <2> HIDE DEF b
  <2>3. QED
    BY <2>1, <2>2 DEF CellSound
<1>2. CASE ~\E b \in DOMAIN cols : cols[b] = c
  <2>1. /\ Scatter(cols, columns, other.cont[cell], 0)[c] = 0
        /\ Scatter(cols, columns, WeightsOf(other, cell), 0)[c] = 0
    BY <1>2 DEF Scatter
  <2>2. other.npix[cell] \in Nat
    BY DEF CellSound
  <2>3. QED
    BY <2>1, <2>2
<1>3. QED
  BY <1>1, <1>2

\* Under the identity a column receives its own band.
LEMMA ScatterIdentity ==
  ASSUME NEW cols, NEW columns, NEW f, NEW none, NEW c \in columns,
         DOMAIN cols = columns, \A b \in columns : cols[b] = b
  PROVE  Scatter(cols, columns, f, none)[c] = f[c]
BY DEF Scatter

\* merge_weights after the sums and npix of a cell have been merged.
LEMMA MergeWeightsSound ==
  ASSUME NEW st, NEW s, NEW other, NEW cell \in Known(st), NEW cols, NEW mapped,
         Sound(st), CellSound(other, cell), DOMAIN cols = other.bands,
         ~mapped => other.bands = st.bands /\ \A b \in st.bands : cols[b] = b,
         Shaped(s), s.bands = st.bands, Known(s) = Known(st),
         s.bw = st.bw, s.split = st.split,
         \A c \in st.bands :
           s.cont[cell][c] = st.cont[cell][c] + Scatter(cols, st.bands, other.cont[cell], 0)[c],
         s.npix[cell] = st.npix[cell] + other.npix[cell],
         \A c \in Known(st) \ {cell} : s.cont[c] = st.cont[c] /\ s.npix[c] = st.npix[c]
  PROVE  LET a == MergeWeights(s, other, cell, cols, mapped)
         IN Sound(a) /\ a.bands = st.bands /\ Known(a) = Known(st)
<1> DEFINE a == MergeWeights(s, other, cell, cols, mapped)
           sums == Scatter(cols, s.bands, other.cont[cell], 0)
           got == Scatter(cols, s.bands, WeightsOf(other, cell), 0)
           shared == ~mapped /\ cell \notin DOMAIN other.split /\ cell \notin DOMAIN s.split
<1>0. /\ CellSound(st, cell)
      /\ WeightsOf(s, cell) = WeightsOf(st, cell)
      /\ \A c \in s.bands : sums[c] \in Nat /\ sums[c] = got[c] /\ sums[c] <= other.npix[cell]
      /\ other.npix[cell] \in Nat /\ other.bw[cell] \in Nat
  <2>1. \A c \in s.bands : sums[c] \in Nat /\ sums[c] = got[c] /\ sums[c] <= other.npix[cell]
    BY ScatterSound
  <2>2. QED
    BY <2>1 DEF Sound, WeightsOf, CellSound
<1>1. CASE shared
  <2>1. /\ a.bands = s.bands /\ a.cont = s.cont /\ a.npix = s.npix /\ a.split = s.split
        /\ a.bw = With(s.bw, cell, s.bw[cell] + other.bw[cell])
    BY <1>1 DEF MergeWeights, StoreOf
  <2>2. ASSUME NEW c \in s.bands PROVE got[c] = other.bw[cell]
    <3>1. got[c] = WeightsOf(other, cell)[c]
      BY <1>1, ScatterIdentity
    <3>2. c \in other.bands
      BY <1>1
    <3>3. QED
      BY <1>1, <3>1, <3>2, WeightsByCase
  <2> HIDE DEF a, sums, got
  <2>3. /\ Known(a) = Known(st) /\ a.bw[cell] = s.bw[cell] + other.bw[cell]
        /\ \A c \in Known(st) \ {cell} : a.bw[c] = s.bw[c]
    BY <2>1 DEF With, Known
  <2>4. CellSound(a, cell)
    <3>1. ASSUME NEW b \in a.bands
          PROVE  /\ a.cont[cell][b] \in Nat
                 /\ a.cont[cell][b] = WeightsOf(a, cell)[b]
                 /\ a.cont[cell][b] <= a.npix[cell]
      <4>1. WeightsOf(a, cell)[b] = a.bw[cell] /\ WeightsOf(st, cell)[b] = st.bw[cell]
        BY <1>1, <2>1, <3>1, WeightsByCase
      <4>2. /\ st.cont[cell][b] \in Nat /\ st.cont[cell][b] = st.bw[cell]
            /\ st.cont[cell][b] <= st.npix[cell] /\ st.npix[cell] \in Nat
            /\ sums[b] \in Nat /\ sums[b] = other.bw[cell] /\ sums[b] <= other.npix[cell]
        BY <1>0, <2>1, <2>2, <4>1 DEF CellSound
      <4>3. a.cont[cell][b] = st.cont[cell][b] + sums[b] /\ a.npix[cell] = st.npix[cell] + other.npix[cell]
        BY <2>1 DEF sums
      <4>4. QED
        BY <1>0, <2>3, <4>1, <4>2, <4>3
    <3>2. a.npix[cell] \in Nat /\ a.bw[cell] \in Nat
      BY <1>0, <2>1, <2>3 DEF CellSound
    <3>3. QED
      BY <3>1, <3>2 DEF CellSound
  <2>5. \A c \in Known(st) \ {cell} : Same(a, st, c)
    BY <2>1, <2>3 DEF Same
  <2>6. Shaped(a)
    BY <2>1, <2>3 DEF Shaped
  <2>7. Known(a) = Known(st) \cup {cell}
    BY <2>3
  <2>8. Sound(a)
    BY <2>1, <2>4, <2>5, <2>6, <2>7, FrameSound
  <2>9. QED
    BY <2>1, <2>3, <2>8 DEF a
<1>2. CASE ~shared
  <2> DEFINE e == [c \in s.bands |-> WeightsOf(s, cell)[c] + got[c]]
  <2>1. /\ a.bands = s.bands /\ a.cont = s.cont /\ a.npix = s.npix /\ a.bw = s.bw
        /\ a.split = With(s.split, cell, e)
    BY <1>2 DEF MergeWeights, StoreOf
  <2> HIDE DEF a, sums, got
  <2>2. /\ DOMAIN a.split = DOMAIN s.split \cup {cell} /\ a.split[cell] = e
        /\ \A c \in DOMAIN s.split : c # cell => a.split[c] = s.split[c]
    BY <2>1 DEF With
  <2>3. Known(a) = Known(st)
    BY <2>1 DEF Known
  <2>4. CellSound(a, cell)
    <3>1. ASSUME NEW b \in a.bands
          PROVE  /\ a.cont[cell][b] \in Nat
                 /\ a.cont[cell][b] = WeightsOf(a, cell)[b]
                 /\ a.cont[cell][b] <= a.npix[cell]
      <4>1. WeightsOf(a, cell)[b] = WeightsOf(st, cell)[b] + got[b]
        BY <1>0, <2>1, <2>2, <3>1, WeightsByCase
      <4>2. /\ st.cont[cell][b] \in Nat /\ st.cont[cell][b] = WeightsOf(st, cell)[b]
            /\ st.cont[cell][b] <= st.npix[cell] /\ st.npix[cell] \in Nat
            /\ sums[b] \in Nat /\ sums[b] = got[b] /\ sums[b] <= other.npix[cell]
        BY <1>0, <2>1 DEF CellSound
      <4>3. a.cont[cell][b] = st.cont[cell][b] + sums[b] /\ a.npix[cell] = st.npix[cell] + other.npix[cell]
        BY <2>1 DEF sums
      <4>4. QED
        BY <1>0, <4>1, <4>2, <4>3
    <3>2. a.npix[cell] \in Nat /\ a.bw[cell] \in Nat
      BY <1>0, <2>1 DEF CellSound
    <3>3. QED
      BY <3>1, <3>2 DEF CellSound
  <2>5. \A c \in Known(st) \ {cell} : Same(a, st, c)
    BY <2>1, <2>2 DEF Same
  <2>6. Shaped(a)
    BY <2>1, <2>2, <2>3 DEF Shaped
  <2>7. Known(a) = Known(st) \cup {cell}
    BY <2>3
  <2>8. Sound(a)
    BY <2>1, <2>4, <2>5, <2>6, <2>7, FrameSound
  <2>9. QED
    BY <2>1, <2>3, <2>8 DEF a
<1>3. QED
  BY <1>1, <1>2


\* A merge of a sound cell keeps a store sound.
LEMMA MergedSound ==
  ASSUME NEW st, NEW other, NEW cell \in Known(other), NEW cols, NEW mapped,
         Sound(st), Sound(other), DOMAIN cols = other.bands,
         ~mapped => other.bands = st.bands /\ \A b \in st.bands : cols[b] = b
  PROVE  LET a == MergedCell(st, other, cell, cols, mapped)
         IN Sound(a) /\ a.bands = st.bands /\ Known(a) = Known(st) \cup {cell}
<1> DEFINE u == WithCell(st, cell)
           v == WithSums(st, other, cell, cols)
           got == ClassesOf(other, cell, cols, v.bands)
           s == StoreOf(v.bands, v.cont,
                        With(v.cat, cell, [c \in v.bands |-> CatSum(v.cat[cell][c], got[c])]),
                        With(v.npix, cell, v.npix[cell] + other.npix[cell]), v.bw, v.split)
           sums == Scatter(cols, u.bands, other.cont[cell], 0)
           a == MergeWeights(s, other, cell, cols, mapped)
<1>1. Sound(u) /\ u.bands = st.bands /\ Known(u) = Known(st) \cup {cell}
  BY WithCellSound
<1>2. MergedCell(st, other, cell, cols, mapped) = a
  BY DEF MergedCell
<1>3. /\ v.bands = u.bands /\ v.bw = u.bw /\ v.split = u.split /\ v.npix = u.npix
      /\ v.cont = With(u.cont, cell, [c \in u.bands |-> u.cont[cell][c] + sums[c]])
  BY DEF WithSums, StoreOf
<1>4. /\ s.bands = v.bands /\ s.bw = v.bw /\ s.split = v.split /\ s.cont = v.cont
      /\ s.npix = With(v.npix, cell, v.npix[cell] + other.npix[cell])
  BY DEF StoreOf
<1> HIDE DEF u, v, got, s
<1>5. /\ \A c \in u.bands : s.cont[cell][c] = u.cont[cell][c] + sums[c]
      /\ s.npix[cell] = u.npix[cell] + other.npix[cell]
  BY <1>3, <1>4 DEF With
<1>6. s.bands = u.bands /\ s.bw = u.bw /\ s.split = u.split /\ Known(s) = Known(u)
  BY <1>3, <1>4 DEF Known
<1>7. cell \in Known(u)
  BY <1>1
<1>8. Shaped(s)
  BY <1>1, <1>3, <1>4, <1>6, <1>7 DEF Shaped, Sound, With
<1>9. \A c \in Known(u) \ {cell} : s.cont[c] = u.cont[c] /\ s.npix[c] = u.npix[c]
  BY <1>1, <1>3, <1>4 DEF Shaped, Sound, With
<1>10. CellSound(other, cell)
  BY DEF Sound
<1>11. ~mapped => other.bands = u.bands /\ \A b \in u.bands : cols[b] = b
  BY <1>1
<1>12. Sound(a) /\ a.bands = u.bands /\ Known(a) = Known(u)
  <2>1. Sound(u)
    BY <1>1
  <2>2. QED
    BY <2>1, <1>5, <1>6, <1>7, <1>8, <1>9, <1>10, <1>11, MergeWeightsSound DEF sums
<1>13. QED
  BY <1>1, <1>2, <1>12

LEMMA SumsKeepBands ==
  ASSUME NEW st, NEW other, NEW cell, NEW cols
  PROVE  WithSums(st, other, cell, cols).bands = st.bands
BY DEF WithSums, WithCell, StoreOf

-----------------------------------------------------------------------------
(* The partitioned store. *)

\* Every thread and every partition has its entry.
Indexed ==
  /\ pc \in [Thread -> {"filling", "absorbing", "done", "failed"}]
  /\ DOMAIN stripe = Thread
  /\ DOMAIN merged = Thread
  /\ DOMAIN lock = Part
  /\ DOMAIN parts = Part

StripesSound == \A t \in Thread : Sound(stripe[t]) /\ stripe[t].bands = Local(t)

PartsSound ==
  \A p \in Part : parts[p].bands = Column /\ (NoFailure => Sound(parts[p]))

IInv == Indexed /\ StripesSound /\ PartsSound /\ HoldersCanMove

LEMMA InitIInv == ASSUME StoreAssumption, Init PROVE IInv
<1>1. \A t \in Thread, p \in Part : lock[p] # t
  BY DEF Init, StoreAssumption, PartsAssumption
<1>2. Indexed
  BY DEF Init, Indexed
<1>3. StripesSound
  BY EmptySound DEF Init, StripesSound
<1>4. PartsSound
  BY EmptySound DEF Init, PartsSound
<1>5. HoldersCanMove
  BY <1>1 DEF HoldersCanMove
<1>6. QED
  BY <1>2, <1>3, <1>4, <1>5 DEF IInv

\* Who holds a lock is absorbing, so a thread that does anything else holds none.
LEMMA OthersHoldNothing ==
  ASSUME HoldersCanMove, NEW t \in Thread, pc[t] # "absorbing", NEW p \in Part
  PROVE  lock[p] # t
BY DEF HoldersCanMove

\* A step of thread t outside its absorb leaves the holders as they are.
LEMMA HoldersUndisturbed ==
  ASSUME HoldersCanMove, NEW t \in Thread, pc[t] # "absorbing",
         lock' = lock,
         \A v \in Thread \ {t} : pc'[v] = pc[v] /\ stripe'[v] = stripe[v] /\ merged'[v] = merged[v]
  PROVE  HoldersCanMove'
<1> SUFFICES ASSUME NEW p \in Part, NEW v \in Thread, lock[p] = v
             PROVE  /\ pc'[v] = "absorbing"
                    /\ Group(v, p)' # {}
                    /\ \A q \in Part : lock[q] = v => q = p
  BY DEF HoldersCanMove
<1>1. v # t
  BY OthersHoldNothing
<1>2. pc[v] = "absorbing" /\ Group(v, p) # {} /\ \A q \in Part : lock[q] = v => q = p
  BY DEF HoldersCanMove
<1>3. Group(v, p)' = Group(v, p)
  BY <1>1 DEF Group
<1>4. QED
  BY <1>1, <1>2, <1>3

LEMMA PushStep ==
  ASSUME StoreAssumption, IInv,
         NEW t \in Thread, NEW cell \in Cell, NEW n \in Lengths, NEW ws, NEW k,
         \A b \in Local(t) : ws[b] \in 0..n, Push(t, cell, n, ws, k)
  PROVE  IInv'
<1>1. /\ n \in Nat /\ Local(t) # {}
      /\ Sound(stripe[t]) /\ stripe[t].bands = Local(t)
  BY DEF StoreAssumption, ColumnsAssumption, PartsAssumption, Local, IInv, StripesSound
<1>2. CASE PushFails(stripe[t], cell, ws, k)
  <2>1. /\ pc' = [pc EXCEPT ![t] = "failed"] /\ UNCHANGED <<stripe, merged, lock, parts>>
        /\ pc[t] = "filling"
    BY <1>2 DEF Push
  <2>2. Indexed' /\ StripesSound'
    BY <2>1 DEF IInv, Indexed, StripesSound, Local
  <2>3. ~NoFailure'
    BY <2>1 DEF IInv, Indexed, NoFailure
  <2>4. PartsSound'
    BY <2>1, <2>3 DEF IInv, PartsSound
  <2>5. /\ \A v \in Thread \ {t} : pc'[v] = pc[v] /\ stripe'[v] = stripe[v] /\ merged'[v] = merged[v]
        /\ lock' = lock /\ pc[t] # "absorbing"
    BY <2>1 DEF IInv, Indexed
  <2>6. HoldersCanMove'
    BY <2>5, HoldersUndisturbed DEF IInv
  <2>7. QED
    BY <2>2, <2>4, <2>6 DEF IInv
<1>3. CASE ~PushFails(stripe[t], cell, ws, k)
  <2>1. /\ stripe' = [stripe EXCEPT ![t] = Pushed(stripe[t], cell, n, ws, k)]
        /\ UNCHANGED <<pc, merged, lock, parts>>
        /\ pc[t] = "filling"
    BY <1>3 DEF Push
  <2>2. Sound(stripe'[t]) /\ stripe'[t].bands = Local(t)
    <3>1. stripe[t].bands # {} /\ \A b \in stripe[t].bands : ws[b] \in 0..n
      BY <1>1
    <3> DEFINE after == Pushed(stripe[t], cell, n, ws, k)
    <3>2. Sound(after) /\ after.bands = stripe[t].bands
      <4>1. ASSUME NEW st, Sound(st), st.bands # {}, \A b \in st.bands : ws[b] \in 0..n
            PROVE  Sound(Pushed(st, cell, n, ws, k)) /\ Pushed(st, cell, n, ws, k).bands = st.bands
        BY <1>1, <4>1, PushedSound
      <4>2. QED
        BY <1>1, <3>1, <4>1
    <3> HIDE DEF after
    <3>3. stripe'[t] = after
      BY <2>1 DEF IInv, Indexed, after
    <3>4. QED
      BY <1>1, <3>2, <3>3
  <2>3. \A v \in Thread \ {t} : stripe'[v] = stripe[v]
    BY <2>1 DEF IInv, Indexed
  <2>4. Indexed' /\ StripesSound'
    BY <2>1, <2>2, <2>3 DEF IInv, Indexed, StripesSound, Local
  <2>5. PartsSound'
    BY <2>1 DEF IInv, PartsSound, NoFailure
  <2>6. HoldersCanMove'
    BY <2>1, <2>3, HoldersUndisturbed DEF IInv
  <2>7. QED
    BY <2>4, <2>5, <2>6 DEF IInv
<1>4. QED
  BY <1>2, <1>3


LEMMA StartAbsorbStep ==
  ASSUME IInv, NEW t \in Thread, StartAbsorb(t)
  PROVE  IInv'
<1>1. /\ pc[t] = "filling" /\ UNCHANGED <<stripe, merged, lock, parts>>
      /\ pc' = [pc EXCEPT ![t] = IF Known(stripe[t]) = {} THEN "done" ELSE "absorbing"]
  BY DEF StartAbsorb
<1>2. /\ \A v \in Thread \ {t} : pc'[v] = pc[v] /\ stripe'[v] = stripe[v] /\ merged'[v] = merged[v]
      /\ lock' = lock /\ pc[t] # "absorbing"
  BY <1>1 DEF IInv, Indexed
<1>3. Indexed' /\ StripesSound'
  BY <1>1 DEF IInv, Indexed, StripesSound, Local
<1>4. NoFailure' => NoFailure
  BY <1>1, <1>2 DEF NoFailure
<1>5. PartsSound'
  BY <1>1, <1>4 DEF IInv, PartsSound
<1>6. HoldersCanMove'
  BY <1>2, HoldersUndisturbed DEF IInv
<1>7. QED
  BY <1>3, <1>5, <1>6 DEF IInv

LEMMA NextStripeStep ==
  ASSUME IInv, NEW t \in Thread, NextStripe(t)
  PROVE  IInv'
<1>1. /\ pc[t] = "done" /\ UNCHANGED <<lock, parts>>
      /\ pc' = [pc EXCEPT ![t] = "filling"]
      /\ stripe' = [stripe EXCEPT ![t] = EmptyStore(Local(t))]
      /\ merged' = [merged EXCEPT ![t] = {}]
  BY DEF NextStripe
<1>2. /\ \A v \in Thread \ {t} : pc'[v] = pc[v] /\ stripe'[v] = stripe[v] /\ merged'[v] = merged[v]
      /\ lock' = lock /\ pc[t] # "absorbing"
  BY <1>1 DEF IInv, Indexed
<1>3. Sound(stripe'[t]) /\ stripe'[t].bands = Local(t)
  BY <1>1, EmptySound DEF IInv, Indexed
<1>4. Indexed' /\ StripesSound'
  BY <1>1, <1>2, <1>3 DEF IInv, Indexed, StripesSound, Local
<1>5. NoFailure' => NoFailure
  BY <1>1, <1>2 DEF NoFailure
<1>6. PartsSound'
  BY <1>1, <1>5 DEF IInv, PartsSound
<1>7. HoldersCanMove'
  BY <1>2, HoldersUndisturbed DEF IInv
<1>8. QED
  BY <1>4, <1>6, <1>7 DEF IInv

LEMMA LockStep ==
  ASSUME StoreAssumption, IInv, NEW t \in Thread, NEW p \in Part, Lock(t, p)
  PROVE  IInv'
<1>1. /\ pc[t] = "absorbing" /\ Group(t, p) # {}
      /\ \A q \in Part : lock[q] # t
      /\ lock[p] = NoThread
      /\ lock' = [lock EXCEPT ![p] = t]
      /\ UNCHANGED <<pc, stripe, merged, parts>>
  BY DEF Lock
<1>2. Indexed' /\ StripesSound' /\ PartsSound'
  BY <1>1 DEF IInv, Indexed, StripesSound, PartsSound, NoFailure, Local
<1>3. lock'[p] = t /\ \A q \in Part \ {p} : lock'[q] = lock[q]
  BY <1>1 DEF IInv, Indexed
<1>4. ASSUME NEW q \in Part, NEW v \in Thread, lock'[q] = v
      PROVE  pc'[v] = "absorbing" /\ Group(v, q)' # {} /\ \A r \in Part : lock'[r] = v => r = q
  <2>1. Group(v, q)' = Group(v, q)
    BY <1>1 DEF Group
  <2>2. CASE q = p
    BY <1>1, <1>3, <1>4, <2>1, <2>2
  <2>3. CASE q # p
    <3>1. lock[q] = v /\ v # t
      BY <1>1, <1>3, <1>4, <2>3
    <3>2. pc[v] = "absorbing" /\ Group(v, q) # {} /\ \A r \in Part : lock[r] = v => r = q
      BY <3>1 DEF IInv, HoldersCanMove
    <3>3. QED
      BY <1>1, <1>3, <2>1, <3>1, <3>2
  <2>4. QED
    BY <2>2, <2>3
<1>5. HoldersCanMove'
  BY <1>4 DEF HoldersCanMove
<1>6. QED
  BY <1>2, <1>5 DEF IInv

\* The holder of p leaves p or stays in it; the other holders see no change.
LEMMA HolderSteps ==
  ASSUME StoreAssumption, IInv, NEW t \in Thread, NEW p \in Part, lock[p] = t,
         stripe' = stripe,
         \A v \in Thread \ {t} : pc'[v] = pc[v] /\ merged'[v] = merged[v],
         \A q \in Part \ {p} : lock'[q] = lock[q],
         \/ lock'[p] = NoThread
         \/ lock'[p] = t /\ pc'[t] = "absorbing" /\ Group(t, p)' # {}
  PROVE  HoldersCanMove'
<1> SUFFICES ASSUME NEW q \in Part, NEW v \in Thread, lock'[q] = v
             PROVE  pc'[v] = "absorbing" /\ Group(v, q)' # {} /\ \A r \in Part : lock'[r] = v => r = q
  BY DEF HoldersCanMove
<1>1. NoThread \notin Thread
  BY DEF StoreAssumption, PartsAssumption
<1>2. \A r \in Part : lock[r] = t => r = p
  BY DEF IInv, HoldersCanMove
<1>3. CASE q = p
  <2>1. v = t /\ pc'[t] = "absorbing" /\ Group(t, p)' # {}
    BY <1>1, <1>3
  <2>2. QED
    BY <1>2, <1>3, <2>1
<1>4. CASE q # p
  <2>1. lock[q] = v /\ v # t
    BY <1>2, <1>4
  <2>2. pc[v] = "absorbing" /\ Group(v, q) # {} /\ \A r \in Part : lock[r] = v => r = q
    BY <2>1 DEF IInv, HoldersCanMove
  <2>3. Group(v, q)' = Group(v, q)
    BY <2>1 DEF Group
  <2>4. lock'[p] # v
    BY <1>1, <2>1
  <2>5. QED
    BY <2>1, <2>2, <2>3, <2>4
<1>5. QED
  BY <1>3, <1>4

LEMMA MergeCellStep ==
  ASSUME StoreAssumption, IInv, NEW t \in Thread, NEW cell \in Cell, MergeCell(t, cell)
  PROVE  IInv'
<1> DEFINE p == PartOf[cell]
           after == MergedCell(parts[p], stripe[t], cell, Cols[t], t \in Mapped)
<1>1. /\ pc[t] = "absorbing" /\ lock[p] = t /\ cell \in Group(t, p)
      /\ parts' = [parts EXCEPT ![p] = after]
      /\ merged' = [merged EXCEPT ![t] = @ \cup {cell}]
      /\ lock' = IF Group(t, p) = {cell} THEN [lock EXCEPT ![p] = NoThread] ELSE lock
      /\ pc' = IF Known(stripe[t]) \ merged[t] = {cell} THEN [pc EXCEPT ![t] = "done"] ELSE pc
      /\ stripe' = stripe
  BY DEF MergeCell
<1>2. p \in Part
  BY DEF StoreAssumption, PartsAssumption
<1> HIDE DEF p
<1>3. /\ \A v \in Thread \ {t} : pc'[v] = pc[v] /\ merged'[v] = merged[v]
      /\ \A q \in Part \ {p} : lock'[q] = lock[q] /\ parts'[q] = parts[q]
      /\ parts'[p] = after
      /\ merged'[t] = merged[t] \cup {cell}
  BY <1>1, <1>2 DEF IInv, Indexed
<1>4. Indexed'
  BY <1>1 DEF IInv, Indexed
<1>5. StripesSound'
  BY <1>1 DEF IInv, StripesSound, Local
<1>6. NoFailure' => NoFailure
  BY <1>1, <1>3 DEF NoFailure
<1>7. after.bands = Column /\ (NoFailure => Sound(after))
  <2>1. /\ cell \in Known(stripe[t]) /\ Sound(stripe[t]) /\ stripe[t].bands = Local(t)
        /\ parts[p].bands = Column /\ (NoFailure => Sound(parts[p]))
    BY <1>1, <1>2 DEF Group, IInv, StripesSound, PartsSound
  <2>2. t \notin Mapped => Local(t) = Column /\ \A b \in Column : Cols[t][b] = b
    BY DEF StoreAssumption, ColumnsAssumption, Local
  <2>3. DOMAIN Cols[t] = stripe[t].bands
    BY <2>1 DEF Local
  <2>4. ~(t \in Mapped) => stripe[t].bands = parts[p].bands /\ \A b \in parts[p].bands : Cols[t][b] = b
    BY <2>1, <2>2
  <2>5. NoFailure => Sound(after)
    BY <2>1, <2>3, <2>4, MergedSound
  <2>6. after.bands = Column
    BY <2>1 DEF MergedCell, MergeWeights, WithSums, WithCell, StoreOf
  <2>7. QED
    BY <2>5, <2>6
<1>8. PartsSound'
  BY <1>3, <1>6, <1>7 DEF IInv, PartsSound
<1>9. \/ lock'[p] = NoThread
      \/ lock'[p] = t /\ pc'[t] = "absorbing" /\ Group(t, p)' # {}
  <2>1. CASE Group(t, p) = {cell}
    BY <1>1, <1>2, <2>1 DEF IInv, Indexed
  <2>2. CASE Group(t, p) # {cell}
    <3>1. lock' = lock
      BY <1>1, <2>2
    <3>2. PICK other \in Group(t, p) : other # cell
      BY <1>1, <2>2
    <3>3. other \in Known(stripe[t]) \ merged[t] /\ PartOf[other] = p
      BY <3>2 DEF Group
    <3>4. Known(stripe[t]) \ merged[t] # {cell}
      BY <3>2, <3>3
    <3>5. pc' = pc
      BY <1>1, <3>4
    <3>6. other \in Group(t, p)'
      BY <1>1, <1>3, <3>2, <3>3 DEF Group
    <3>7. QED
      BY <1>1, <3>1, <3>5, <3>6
  <2>3. QED
    BY <2>1, <2>2
<1>10. HoldersCanMove'
  BY <1>1, <1>2, <1>3, <1>9, HolderSteps
<1>11. QED
  BY <1>4, <1>5, <1>8, <1>10 DEF IInv

LEMMA MergeFailsStep ==
  ASSUME StoreAssumption, IInv, NEW t \in Thread, NEW cell \in Cell, MergeFails(t, cell)
  PROVE  IInv'
<1> DEFINE p == PartOf[cell]
           after == WithSums(parts[p], stripe[t], cell, Cols[t])
<1>1. /\ lock[p] = t
      /\ parts' = [parts EXCEPT ![p] = after]
      /\ lock' = [lock EXCEPT ![p] = NoThread]
      /\ pc' = [pc EXCEPT ![t] = "failed"]
      /\ UNCHANGED <<stripe, merged>>
  BY DEF MergeFails
<1>2. p \in Part
  BY DEF StoreAssumption, PartsAssumption
<1> HIDE DEF p
<1>3. /\ \A v \in Thread \ {t} : pc'[v] = pc[v] /\ merged'[v] = merged[v]
      /\ \A q \in Part \ {p} : lock'[q] = lock[q] /\ parts'[q] = parts[q]
      /\ parts'[p] = after
      /\ lock'[p] = NoThread
  BY <1>1, <1>2 DEF IInv, Indexed
<1>4. Indexed'
  BY <1>1 DEF IInv, Indexed
<1>5. StripesSound'
  BY <1>1 DEF IInv, StripesSound, Local
<1>6. ~NoFailure'
  BY <1>1 DEF IInv, Indexed, NoFailure
<1>7. after.bands = Column
  BY <1>2, SumsKeepBands DEF IInv, PartsSound
<1>8. PartsSound'
  BY <1>3, <1>6, <1>7 DEF IInv, PartsSound
<1>9. HoldersCanMove'
  BY <1>1, <1>2, <1>3, HolderSteps
<1>10. QED
  BY <1>4, <1>5, <1>8, <1>9 DEF IInv

LEMMA FillStepKeeps ==
  ASSUME StoreAssumption, IInv, NEW t \in Thread, FillStep(t)
  PROVE  IInv'
<1>1. PICK cell \in Cell, n \in Lengths, k \in Class :
        \/ \E ws \in [Local(t) -> 0..n] : PushRun(t, cell, n, ws, k)
        \/ \E valid \in SUBSET Local(t) : PushPixel(t, cell, n, valid, k)
  BY DEF FillStep
<1>2. ASSUME NEW ws \in [Local(t) -> 0..n], PushRun(t, cell, n, ws, k) PROVE IInv'
  BY <1>2, PushStep DEF PushRun
<1>3. ASSUME NEW valid \in SUBSET Local(t), PushPixel(t, cell, n, valid, k) PROVE IInv'
  <2> DEFINE ws == [b \in Local(t) |-> IF b \in valid THEN n ELSE 0]
  <2>1. n \in Nat
    BY DEF StoreAssumption, PartsAssumption
  <2>2. \A b \in Local(t) : ws[b] \in 0..n
    BY <2>1
  <2>3. Push(t, cell, n, ws, k)
    BY <1>3 DEF PushPixel
  <2> HIDE DEF ws
  <2>4. QED
    BY <2>2, <2>3, PushStep
<1>4. QED
  BY <1>1, <1>2, <1>3

LEMMA StepKeepsIInv ==
  ASSUME StoreAssumption, IInv, [Next]_vars
  PROVE  IInv'
<1>1. ASSUME NEW t \in Thread, AbsorbStep(t) PROVE IInv'
  BY <1>1, LockStep, MergeCellStep, MergeFailsStep DEF AbsorbStep
<1>2. CASE UNCHANGED vars
  BY <1>2 DEF vars, IInv, Indexed, StripesSound, PartsSound, HoldersCanMove, NoFailure, Group, Local
<1>3. QED
  BY <1>1, <1>2, FillStepKeeps, StartAbsorbStep, NextStripeStep DEF Next

LEMMA SoundMatches == ASSUME NEW st, Sound(st) PROVE WeightsMatchSums(st)
BY DEF Sound, CellSound, WeightsMatchSums

-----------------------------------------------------------------------------
(* Types: a store has cells of its own only. *)

\* Pushing and merging add the cell they are about and no other.
LEMMA PushedKnows ==
  ASSUME NEW st, NEW cell, NEW n, NEW ws, NEW k
  PROVE  Known(Pushed(st, cell, n, ws, k)) = Known(st) \cup {cell}
<1>1. Known(WithCell(st, cell)) = Known(st) \cup {cell}
  BY DEF WithCell, Known, StoreOf, With
<1>2. ASSUME NEW s, cell \in Known(s)
      PROVE  Known(AddBandWeights(s, cell, ws)) = Known(s)
  BY <1>2 DEF AddBandWeights, Known, StoreOf, With
<1>3. ASSUME NEW s, NEW cont, NEW cat, NEW npix
      PROVE  Known(StoreOf(s.bands, cont, cat, npix, s.bw, s.split)) = Known(s)
  BY DEF Known, StoreOf
<1> QED BY <1>1, <1>2, <1>3 DEF Pushed

\* Nor does summing its values do so.
LEMMA SumsKnow ==
  ASSUME NEW st, NEW other, NEW cell, NEW cols
  PROVE  Known(WithSums(st, other, cell, cols)) = Known(st) \cup {cell}
<1>1. Known(WithCell(st, cell)) = Known(st) \cup {cell}
  BY DEF WithCell, Known, StoreOf, With
<1> QED BY <1>1 DEF WithSums, Known, StoreOf

\* Merging a cell adds that cell and no other.
LEMMA MergedKnows ==
  ASSUME NEW st, NEW other, NEW cell, NEW cols, NEW mapped
  PROVE  Known(MergedCell(st, other, cell, cols, mapped)) = Known(st) \cup {cell}
<1>. DEFINE s == WithSums(st, other, cell, cols)
            got == ClassesOf(other, cell, cols, s.bands)
            u == StoreOf(s.bands, s.cont,
                         With(s.cat, cell, [c \in s.bands |-> CatSum(s.cat[cell][c], got[c])]),
                         With(s.npix, cell, s.npix[cell] + other.npix[cell]), s.bw, s.split)
<1>1. MergedCell(st, other, cell, cols, mapped) = MergeWeights(u, other, cell, cols, mapped)
  BY DEF MergedCell
<1>2. Known(u) = Known(s)
  BY DEF Known, StoreOf
<1>3. Known(s) = Known(st) \cup {cell}
  BY SumsKnow
<1> HIDE DEF u, s
<1>4. Known(MergeWeights(u, other, cell, cols, mapped)) = Known(u) \cup {cell}
      \/ Known(MergeWeights(u, other, cell, cols, mapped)) = Known(u)
  BY DEF MergeWeights, Known, StoreOf, With
<1> QED BY <1>1, <1>2, <1>3, <1>4

\* No step puts a cell where it does not belong.
LEMMA TypesKept ==
  ASSUME StoreAssumption, IInv, TypeOK, [Next]_vars
  PROVE  TypeOK'
<1>1. CASE UNCHANGED vars
  BY <1>1 DEF vars, TypeOK, Known
<1>2. ASSUME NEW t \in Thread, NEW cell \in Cell, NEW n, NEW ws, NEW k, Push(t, cell, n, ws, k)
      PROVE  TypeOK'
  <2>1. Known(stripe'[t]) \subseteq Known(stripe[t]) \cup {cell} /\ Known(stripe[t]) \subseteq Known(stripe'[t])
    BY <1>2, PushedKnows DEF Push, IInv, Indexed
  <2>2. \A v \in Thread \ {t} : stripe'[v] = stripe[v]
    BY <1>2 DEF Push, IInv, Indexed
  <2>3. mode' = mode /\ merged' = merged /\ lock' = lock /\ parts' = parts
    BY <1>2 DEF Push
  <2>4. pc' \in [Thread -> {"filling", "absorbing", "done", "failed"}]
    BY <1>2 DEF Push, TypeOK
  <2>5. \A v \in Thread : Known(stripe'[v]) \subseteq Cell /\ merged'[v] \subseteq Known(stripe'[v])
    BY <2>1, <2>2, <2>3 DEF TypeOK
  <2> QED BY <2>3, <2>4, <2>5 DEF TypeOK
<1>3. ASSUME NEW t \in Thread, StartAbsorb(t)
      PROVE  TypeOK'
  BY <1>3 DEF StartAbsorb, TypeOK
<1>4. ASSUME NEW t \in Thread, NextStripe(t)
      PROVE  TypeOK'
  <2>1. Known(stripe'[t]) = {} /\ merged'[t] = {}
    BY <1>4 DEF NextStripe, IInv, Indexed, EmptyStore, StoreOf, Known
  <2>2. \A v \in Thread \ {t} : stripe'[v] = stripe[v] /\ merged'[v] = merged[v]
    BY <1>4 DEF NextStripe, IInv, Indexed
  <2>3. mode' = mode /\ lock' = lock /\ parts' = parts
    BY <1>4 DEF NextStripe
  <2>4. pc' \in [Thread -> {"filling", "absorbing", "done", "failed"}]
    BY <1>4 DEF NextStripe, TypeOK
  <2>5. \A v \in Thread : Known(stripe'[v]) \subseteq Cell /\ merged'[v] \subseteq Known(stripe'[v])
    BY <2>1, <2>2 DEF TypeOK
  <2> QED BY <2>3, <2>4, <2>5 DEF TypeOK
<1>5. ASSUME NEW t \in Thread, NEW p \in Part, Lock(t, p)
      PROVE  TypeOK'
  BY <1>5 DEF Lock, TypeOK
<1>6. ASSUME NEW t \in Thread, NEW cell \in Cell, MergeCell(t, cell) \/ MergeFails(t, cell)
      PROVE  TypeOK'
  <2>. DEFINE p == PartOf[cell]
  <2>1. p \in Part /\ cell \in Known(stripe[t])
    BY <1>6 DEF StoreAssumption, PartsAssumption, MergeCell, MergeFails, Group
  <2>2. Known(parts'[p]) = Known(parts[p]) \cup {cell} /\ \A q \in Part \ {p} : parts'[q] = parts[q]
    BY <1>6, <2>1, SumsKnow, MergedKnows DEF MergeCell, MergeFails, IInv, Indexed
  <2>3. \A q \in Part : \A c \in Known(parts'[q]) : c \in Cell /\ PartOf[c] = q
    <3>1. TAKE q \in Part
    <3>2. CASE q = p
      BY <2>2, <3>2 DEF TypeOK
    <3>3. CASE q # p
      BY <2>2, <3>3 DEF TypeOK
    <3> QED BY <3>2, <3>3
  <2>4. mode' = mode /\ stripe' = stripe
    BY <1>6 DEF MergeCell, MergeFails
  <2>5. \A v \in Thread : merged'[v] \subseteq Known(stripe[v])
    BY <1>6, <2>1 DEF MergeCell, MergeFails, TypeOK, IInv, Indexed
  <2>6. pc' \in [Thread -> {"filling", "absorbing", "done", "failed"}]
    BY <1>6 DEF MergeCell, MergeFails, TypeOK
  <2>7. lock' \in [Part -> Thread \cup {NoThread}]
    BY <1>6 DEF MergeCell, MergeFails, TypeOK
  <2> QED BY <2>3, <2>4, <2>5, <2>6, <2>7 DEF TypeOK
<1>7. ASSUME NEW t \in Thread, FillStep(t)
      PROVE  TypeOK'
  BY <1>2, <1>7 DEF FillStep, PushRun, PushPixel
<1>8. ASSUME NEW t \in Thread, AbsorbStep(t)
      PROVE  TypeOK'
  BY <1>5, <1>6, <1>8 DEF AbsorbStep
<1> QED BY <1>1, <1>3, <1>4, <1>7, <1>8 DEF Next

-----------------------------------------------------------------------------
(* Sums of weights, over threads and over classes. *)

Pick(S) == CHOOSE x \in S : TRUE
Sums == INSTANCE Folding WITH Op <- +, Choose <- Pick, Numbers <- Nat

\* What the lemmas about folds say, they say of sums.
LEMMA SumsAreFolds ==
  /\ Sums!Adds
  /\ \A S : Sums!Chooses(S)
  /\ \A f, S : SumFunctionOnSet(f, S) = Sums!Fold(0, f, S)
  /\ \A f, S : Sums!Summable(f, S) <=> IsFiniteSet(S) /\ \A s \in S : f[s] \in Nat
<1>1. Sums!Adds
  BY DEF Sums!Adds
<1>2. \A S : Sums!Chooses(S)
  BY DEF Sums!Chooses, Pick
<1>3. \A f, S : SumFunctionOnSet(f, S) = Sums!Fold(0, f, S)
  BY DEF SumFunctionOnSet, FoldFunctionOnSet, MapThenFoldSet, Sums!Fold, Sums!MapThenFoldSet, Pick
<1>4. \A S : Sums!IsFiniteSet(S) <=> IsFiniteSet(S)
  BY DEF IsFiniteSet, Sums!IsFiniteSet
<1>5. \A f, S : Sums!Summable(f, S) <=> IsFiniteSet(S) /\ \A s \in S : f[s] \in Nat
  BY <1>2, <1>4 DEF Sums!Summable
<1> QED BY <1>1, <1>2, <1>3, <1>5

\* One thread's weight changes, and the sum over the threads as much.
LEMMA ThreadSums ==
  ASSUME StoreAssumption, NEW t \in Thread, NEW f \in [Thread -> Nat], NEW g \in [Thread -> Nat],
         \A v \in Thread \ {t} : g[v] = f[v]
  PROVE  /\ SumFunction(f) \in Nat /\ SumFunction(g) \in Nat
         /\ SumFunction(g) + f[t] = SumFunction(f) + g[t]
<1>1. IsFiniteSet(Thread)
  BY DEF StoreAssumption, PartsAssumption
<1>2. Sums!Summable(f, Thread) /\ Sums!Summable(g, Thread)
  BY <1>1, SumsAreFolds
<1>3. /\ Sums!Fold(0, f, Thread) \in Nat /\ Sums!Fold(0, g, Thread) \in Nat
      /\ Sums!Fold(0, g, Thread) + f[t] = Sums!Fold(0, f, Thread) + g[t]
  BY <1>2, SumsAreFolds, Sums!SumChange
<1> QED BY <1>3, SumsAreFolds DEF SumFunction

LEMMA NoThreadSum ==
  ASSUME StoreAssumption, NEW f \in [Thread -> Nat], \A v \in Thread : f[v] = 0
  PROVE  SumFunction(f) = 0
<1>1. IsFiniteSet(Thread)
  BY DEF StoreAssumption, PartsAssumption
<1>2. Sums!Summable(f, Thread)
  BY <1>1, SumsAreFolds
<1>3. Sums!Fold(0, f, Thread) = 0
  BY <1>2, SumsAreFolds, Sums!SumZero
<1> QED BY <1>3, SumsAreFolds DEF SumFunction

\* Weights per class that add up to w.
ClassMap(m, w) ==
  /\ IsFiniteSet(DOMAIN m)
  /\ \A k \in DOMAIN m : m[k] \in Nat
  /\ SumFunction(m) = w

LEMMA NoClasses == ClassMap(<< >>, 0)
<1>1. DOMAIN << >> = {} /\ IsFiniteSet({})
  BY FS_EmptySet
<1>2. Sums!Summable(<< >>, {})
  BY <1>1, SumsAreFolds
<1>3. Sums!Fold(0, << >>, {}) = 0
  BY <1>2, SumsAreFolds, Sums!SumAny
<1> QED BY <1>1, <1>3, SumsAreFolds DEF ClassMap, SumFunction

LEMMA OneClass ==
  ASSUME NEW k, NEW w \in Nat
  PROVE  ClassMap(ClassOf(k, w), w)
<1>1. CASE w = 0
  BY <1>1, NoClasses DEF ClassOf
<1>2. CASE w > 0
  <2> DEFINE m == [c \in {k} |-> w]
  <2>1. ClassOf(k, w) = m /\ DOMAIN m = {k} /\ m[k] = w
    BY <1>2 DEF ClassOf
  <2> HIDE DEF m
  <2>2. Sums!Summable(m, {k}) /\ Sums!Summable(m, {})
    BY <2>1, FS_Singleton, FS_EmptySet, SumsAreFolds
  <2>3. Sums!Fold(0, m, {}) = 0
    BY <2>2, SumsAreFolds, Sums!SumAny
  <2>4. Sums!Fold(0, m, {k}) = m[k] + Sums!Fold(0, m, {k} \ {k})
    <3>1. k \in {k}
      OBVIOUS
    <3> QED BY <2>2, <3>1, SumsAreFolds, Sums!SumAny
  <2>5. {k} \ {k} = {}
    OBVIOUS
  <2>6. Sums!Fold(0, m, {k}) = w
    BY <2>1, <2>3, <2>4, <2>5
  <2> QED BY <2>1, <2>6, FS_Singleton, SumsAreFolds DEF ClassMap, SumFunction
<1> QED BY <1>1, <1>2

\* A map summed over more classes than its own, the others weighing nothing.
LEMMA SumOverMore ==
  ASSUME NEW m, NEW w, ClassMap(m, w), NEW S, IsFiniteSet(S), DOMAIN m \subseteq S,
         NEW f, \A k \in S : f[k] = ClassWeight(m, k)
  PROVE  Sums!Summable(f, S) /\ Sums!Fold(0, f, S) = w
<1> DEFINE D == DOMAIN m
<1>1. \A k \in S : f[k] \in Nat
  BY DEF ClassMap, ClassWeight
<1>2. Sums!Summable(f, S) /\ Sums!Summable(f, D) /\ Sums!Summable(f, S \ D) /\ Sums!Summable(m, D)
  <2>1. IsFiniteSet(D) /\ IsFiniteSet(S \ D)
    BY FS_Subset DEF ClassMap
  <2>2. \A k \in D : f[k] \in Nat /\ m[k] \in Nat
    BY <1>1 DEF ClassMap
  <2> QED BY <1>1, <2>1, <2>2, SumsAreFolds
<1>3. \A k \in D : f[k] = m[k]
  BY DEF ClassWeight
<1>4. \A k \in S \ D : f[k] = 0
  BY DEF ClassWeight
<1> HIDE DEF D
<1>5. Sums!Fold(0, f, S) = Sums!Fold(0, f, D) + Sums!Fold(0, f, S \ D)
  <2>1. D \in SUBSET S
    BY DEF D
  <2> QED BY <1>2, <2>1, SumsAreFolds, Sums!SumSplit
<1>6. Sums!Fold(0, f, D) = Sums!Fold(0, m, D)
  BY <1>2, <1>3, SumsAreFolds, Sums!SumSame
<1>7. Sums!Fold(0, f, S \ D) = 0
  BY <1>2, <1>4, SumsAreFolds, Sums!SumZero
<1>8. Sums!Fold(0, f, D) \in Nat
  BY <1>2, SumsAreFolds, Sums!SumAny
<1>9. Sums!Fold(0, m, D) = w
  BY SumsAreFolds DEF ClassMap, SumFunction, D
<1> QED BY <1>2, <1>5, <1>6, <1>7, <1>8, <1>9

\* Class weights merged weigh as much as the two together.
LEMMA ClassesAddUp ==
  ASSUME NEW m, NEW w, NEW o, NEW v, ClassMap(m, w), ClassMap(o, v)
  PROVE  ClassMap(CatSum(m, o), w + v)
<1> DEFINE S == DOMAIN m \cup DOMAIN o
           f == [k \in S |-> ClassWeight(m, k)]
           g == [k \in S |-> ClassWeight(o, k)]
           h == [k \in S |-> ClassWeight(m, k) + ClassWeight(o, k)]
<1>1. IsFiniteSet(S)
  BY FS_Union DEF ClassMap
<1>2. Sums!Summable(f, S) /\ Sums!Fold(0, f, S) = w
  <2>1. \A k \in S : f[k] = ClassWeight(m, k)
    OBVIOUS
  <2> HIDE DEF f
  <2> QED BY <1>1, <2>1, SumOverMore
<1>3. Sums!Summable(g, S) /\ Sums!Fold(0, g, S) = v
  <2>1. \A k \in S : g[k] = ClassWeight(o, k)
    OBVIOUS
  <2> HIDE DEF g
  <2> QED BY <1>1, <2>1, SumOverMore
<1>4. CatSum(m, o) = h /\ DOMAIN h = S
  BY DEF CatSum
<1>5. \A k \in S : h[k] = f[k] + g[k]
  OBVIOUS
<1> HIDE DEF f, g, h, S
<1>6. Sums!Summable(h, S) /\ Sums!Fold(0, h, S) = w + v
  <2>1. Sums!Summable(f, S) /\ Sums!Summable(g, S) /\ Sums!Adds
    BY <1>2, <1>3, SumsAreFolds
  <2>2. Sums!Summable(h, S) /\ Sums!Fold(0, h, S) = Sums!Fold(0, f, S) + Sums!Fold(0, g, S)
    BY <1>5, <2>1, Sums!SumPlus
  <2> QED BY <1>2, <1>3, <2>2
<1>7. \A k \in S : h[k] \in Nat
  BY <1>6, SumsAreFolds
<1> QED BY <1>1, <1>4, <1>6, <1>7, SumsAreFolds DEF ClassMap, SumFunction

-----------------------------------------------------------------------------
(* What a store takes in, band by band and class by class. *)

\* The sum, and the class weights, of a band of a cell the store may have.
SumIn(st, cell, b) == IF cell \in Known(st) THEN st.cont[cell][b] ELSE 0
ClassesIn(st, cell, b) == IF cell \in Known(st) THEN st.cat[cell][b] ELSE << >>

\* Store a is store st with weights ws, and classes ks, more in a cell.
Takes(st, a, cell, ws, ks) ==
  /\ a.bands = st.bands
  /\ Known(a) = Known(st) \cup {cell}
  /\ DOMAIN a.cat = Known(a)
  /\ \A b \in st.bands : a.cont[cell][b] = SumIn(st, cell, b) + ws[b]
  /\ \A b \in st.bands : a.cat[cell][b] = CatSum(ClassesIn(st, cell, b), ks[b])
  /\ \A c \in Known(st) \ {cell} : a.cont[c] = st.cont[c] /\ a.cat[c] = st.cat[c]

\* The classes of every band of every cell weigh what its sum weighs.
ClassesSound(st) ==
  /\ DOMAIN st.cat = Known(st)
  /\ \A cell \in Known(st), b \in st.bands : ClassMap(st.cat[cell][b], st.cont[cell][b])

LEMMA TakesClasses ==
  ASSUME NEW st, NEW a, NEW cell, NEW ws, NEW ks, ClassesSound(st), Takes(st, a, cell, ws, ks),
         \A b \in st.bands : ClassMap(ks[b], ws[b])
  PROVE  ClassesSound(a)
<1> SUFFICES ASSUME NEW c \in Known(a), NEW b \in st.bands
             PROVE  ClassMap(a.cat[c][b], a.cont[c][b])
  BY DEF Takes, ClassesSound
<1>1. CASE c = cell
  <2>1. ClassMap(ClassesIn(st, cell, b), SumIn(st, cell, b))
    BY NoClasses DEF ClassesSound, ClassesIn, SumIn
  <2>2. ClassMap(CatSum(ClassesIn(st, cell, b), ks[b]), SumIn(st, cell, b) + ws[b])
    BY <2>1, ClassesAddUp
  <2> QED BY <1>1, <2>2 DEF Takes
<1>2. CASE c # cell
  <2>1. c \in Known(st) \ {cell}
    BY <1>2 DEF Takes
  <2> QED BY <2>1 DEF Takes, ClassesSound
<1> QED BY <1>1, <1>2

\* A new cell has neither sum nor class.
LEMMA WithCellHolds ==
  ASSUME NEW st, NEW cell, Shaped(st), DOMAIN st.cat = Known(st)
  PROVE  LET u == WithCell(st, cell)
         IN /\ u.bands = st.bands /\ Known(u) = Known(st) \cup {cell}
            /\ DOMAIN u.cont = Known(u) /\ DOMAIN u.cat = Known(u)
            /\ \A b \in st.bands : u.cont[cell][b] = SumIn(st, cell, b)
            /\ \A b \in st.bands : u.cat[cell][b] = ClassesIn(st, cell, b)
            /\ \A c \in Known(st) \ {cell} : u.cont[c] = st.cont[c] /\ u.cat[c] = st.cat[c]
<1> DEFINE u == WithCell(st, cell)
<1>1. CASE cell \in Known(st)
  <2>1. u = st
    BY <1>1 DEF WithCell
  <2> QED BY <1>1, <2>1 DEF Shaped, SumIn, ClassesIn
<1>2. CASE cell \notin Known(st)
  <2>1. /\ u.bands = st.bands
        /\ u.cont = With(st.cont, cell, [b \in st.bands |-> 0])
        /\ u.cat = With(st.cat, cell, [b \in st.bands |-> << >>])
        /\ u.bw = With(st.bw, cell, 0)
    BY <1>2 DEF WithCell, StoreOf
  <2> HIDE DEF u
  <2>2. /\ Known(u) = Known(st) \cup {cell} /\ DOMAIN u.cont = Known(u) /\ DOMAIN u.cat = Known(u)
    BY <2>1 DEF With, Known, Shaped
  <2>3. \A b \in st.bands : u.cont[cell][b] = 0 /\ u.cat[cell][b] = << >>
    BY <2>1 DEF With
  <2>4. \A c \in Known(st) \ {cell} : u.cont[c] = st.cont[c] /\ u.cat[c] = st.cat[c]
    BY <2>1 DEF With, Shaped
  <2> QED BY <1>2, <2>1, <2>2, <2>3, <2>4 DEF SumIn, ClassesIn, u
<1> QED BY <1>1, <1>2

\* Pixels pushed: their weights and their class.
LEMMA PushedTakes ==
  ASSUME NEW st, NEW cell, NEW n, NEW ws, NEW k, Shaped(st), DOMAIN st.cat = Known(st)
  PROVE  Takes(st, Pushed(st, cell, n, ws, k), cell, ws, [b \in st.bands |-> ClassOf(k, ws[b])])
<1> DEFINE u == WithCell(st, cell)
           sums == [b \in u.bands |-> u.cont[cell][b] + ws[b]]
           cats == [b \in u.bands |-> CatSum(u.cat[cell][b], ClassOf(k, ws[b]))]
           s == StoreOf(u.bands, With(u.cont, cell, sums), With(u.cat, cell, cats),
                        With(u.npix, cell, u.npix[cell] + n), u.bw, u.split)
           a == AddBandWeights(s, cell, ws)
           ks == [b \in st.bands |-> ClassOf(k, ws[b])]
<1>1. /\ u.bands = st.bands /\ Known(u) = Known(st) \cup {cell}
      /\ DOMAIN u.cont = Known(u) /\ DOMAIN u.cat = Known(u)
      /\ \A b \in st.bands : u.cont[cell][b] = SumIn(st, cell, b)
      /\ \A b \in st.bands : u.cat[cell][b] = ClassesIn(st, cell, b)
      /\ \A c \in Known(st) \ {cell} : u.cont[c] = st.cont[c] /\ u.cat[c] = st.cat[c]
  BY WithCellHolds
<1>2. Pushed(st, cell, n, ws, k) = a
  BY DEF Pushed
<1>3. Known(a) = Known(st) \cup {cell}
  BY <1>2, PushedKnows
<1>4. a.bands = u.bands /\ a.cont = With(u.cont, cell, sums) /\ a.cat = With(u.cat, cell, cats)
  BY DEF AddBandWeights, StoreOf
<1>5. \A b \in u.bands : sums[b] = u.cont[cell][b] + ws[b] /\ cats[b] = CatSum(u.cat[cell][b], ClassOf(k, ws[b]))
  OBVIOUS
<1>6. \A b \in st.bands : ks[b] = ClassOf(k, ws[b])
  OBVIOUS
<1> HIDE DEF u, a, s, sums, cats, ks
<1>7. a.cont[cell] = sums /\ a.cat[cell] = cats /\ DOMAIN a.cat = DOMAIN u.cat \cup {cell}
  BY <1>4 DEF With
<1>8. \A c \in Known(st) \ {cell} : a.cont[c] = st.cont[c] /\ a.cat[c] = st.cat[c]
  BY <1>1, <1>4 DEF With
<1>9. \A b \in st.bands : /\ a.cont[cell][b] = SumIn(st, cell, b) + ws[b]
                          /\ a.cat[cell][b] = CatSum(ClassesIn(st, cell, b), ks[b])
  BY <1>1, <1>5, <1>6, <1>7
<1>10. Takes(st, a, cell, ws, ks)
  BY <1>1, <1>3, <1>4, <1>7, <1>8, <1>9 DEF Takes
<1> QED BY <1>2, <1>10 DEF ks

\* A cell merged: what its columns receive.
LEMMA MergedTakes ==
  ASSUME NEW st, NEW other, NEW cell, NEW cols, NEW mapped, Shaped(st), DOMAIN st.cat = Known(st)
  PROVE  Takes(st, MergedCell(st, other, cell, cols, mapped), cell,
               Scatter(cols, st.bands, other.cont[cell], 0), ClassesOf(other, cell, cols, st.bands))
<1> DEFINE u == WithCell(st, cell)
           ws == Scatter(cols, u.bands, other.cont[cell], 0)
           sums == [c \in u.bands |-> u.cont[cell][c] + ws[c]]
           v == WithSums(st, other, cell, cols)
           ks == ClassesOf(other, cell, cols, v.bands)
           cats == [c \in v.bands |-> CatSum(v.cat[cell][c], ks[c])]
           s == StoreOf(v.bands, v.cont, With(v.cat, cell, cats),
                        With(v.npix, cell, v.npix[cell] + other.npix[cell]), v.bw, v.split)
           a == MergeWeights(s, other, cell, cols, mapped)
<1>1. /\ u.bands = st.bands /\ Known(u) = Known(st) \cup {cell}
      /\ DOMAIN u.cont = Known(u) /\ DOMAIN u.cat = Known(u)
      /\ \A b \in st.bands : u.cont[cell][b] = SumIn(st, cell, b)
      /\ \A b \in st.bands : u.cat[cell][b] = ClassesIn(st, cell, b)
      /\ \A c \in Known(st) \ {cell} : u.cont[c] = st.cont[c] /\ u.cat[c] = st.cat[c]
  BY WithCellHolds
<1>2. MergedCell(st, other, cell, cols, mapped) = a
  BY DEF MergedCell
<1>3. Known(a) = Known(st) \cup {cell}
  BY <1>2, MergedKnows
<1>4. v.bands = u.bands /\ v.cont = With(u.cont, cell, sums) /\ v.cat = u.cat
  BY DEF WithSums, StoreOf
<1>5. a.bands = v.bands /\ a.cont = v.cont /\ a.cat = With(v.cat, cell, cats)
  BY DEF MergeWeights, StoreOf
<1>6. /\ \A b \in u.bands : sums[b] = u.cont[cell][b] + ws[b]
      /\ \A b \in v.bands : cats[b] = CatSum(v.cat[cell][b], ks[b])
  OBVIOUS
<1> HIDE DEF u, a, s, v, sums, cats
<1>7. a.cont[cell] = sums /\ a.cat[cell] = cats /\ DOMAIN a.cat = DOMAIN u.cat \cup {cell}
  BY <1>4, <1>5 DEF With
<1>8. \A c \in Known(st) \ {cell} : a.cont[c] = st.cont[c] /\ a.cat[c] = st.cat[c]
  BY <1>1, <1>4, <1>5 DEF With
<1>9. ws = Scatter(cols, st.bands, other.cont[cell], 0) /\ ks = ClassesOf(other, cell, cols, st.bands)
  BY <1>1, <1>4
<1> HIDE DEF ws, ks
<1>10. \A b \in st.bands : /\ a.cont[cell][b] = SumIn(st, cell, b) + ws[b]
                           /\ a.cat[cell][b] = CatSum(ClassesIn(st, cell, b), ks[b])
  BY <1>1, <1>4, <1>6, <1>7
<1>11. Takes(st, a, cell, ws, ks)
  BY <1>1, <1>3, <1>4, <1>5, <1>7, <1>8, <1>10 DEF Takes
<1> QED BY <1>2, <1>9, <1>11

\* A column's classes weigh what it receives.
LEMMA ScatteredClasses ==
  ASSUME NEW other, NEW cell \in Known(other), NEW cols, NEW columns, NEW c \in columns,
         ClassesSound(other), DOMAIN cols = other.bands
  PROVE  ClassMap(ClassesOf(other, cell, cols, columns)[c], Scatter(cols, columns, other.cont[cell], 0)[c])
<1>1. CASE \E b \in DOMAIN cols : cols[b] = c
  BY <1>1 DEF Scatter, ClassesOf, ClassesSound
<1>2. CASE ~\E b \in DOMAIN cols : cols[b] = c
  BY <1>2, NoClasses DEF Scatter, ClassesOf
<1> QED BY <1>1, <1>2

\* What a column receives of a sum of weights is the sum of what it receives.
LEMMA ScatterAdds ==
  ASSUME NEW cols, NEW columns, NEW c \in columns, NEW f, NEW g, NEW h,
         \A b \in DOMAIN cols : f[b] \in Nat /\ g[b] \in Nat /\ h[b] = f[b] + g[b]
  PROVE  /\ Scatter(cols, columns, f, 0)[c] \in Nat
         /\ Scatter(cols, columns, g, 0)[c] \in Nat
         /\ Scatter(cols, columns, h, 0)[c]
              = Scatter(cols, columns, f, 0)[c] + Scatter(cols, columns, g, 0)[c]
<1>1. CASE \E b \in DOMAIN cols : cols[b] = c
  <2> DEFINE b == CHOOSE b \in DOMAIN cols : cols[b] = c
  <2>1. b \in DOMAIN cols
    BY <1>1
  <2>2. /\ Scatter(cols, columns, f, 0)[c] = f[b] /\ Scatter(cols, columns, g, 0)[c] = g[b]
        /\ Scatter(cols, columns, h, 0)[c] = h[b]
    BY <1>1 DEF Scatter
  <2> HIDE DEF b
  <2> QED BY <2>1, <2>2
<1>2. CASE ~\E b \in DOMAIN cols : cols[b] = c
  <2>1. /\ Scatter(cols, columns, f, 0)[c] = 0 /\ Scatter(cols, columns, g, 0)[c] = 0
        /\ Scatter(cols, columns, h, 0)[c] = 0
    BY <1>2 DEF Scatter
  <2> QED BY <2>1
<1> QED BY <1>1, <1>2

-----------------------------------------------------------------------------
(* The weight given to the read is in its partitions or still in stripes. *)

\* What a column has to receive yet of a cell of a stripe.
Owed(st, done, cols, cell, c) ==
  IF cell \in Known(st) \ done THEN Scatter(cols, Column, st.cont[cell], 0)[c] ELSE 0

OwedBy(t, cell, c) == Owed(stripe[t], merged[t], Cols[t], cell, c)
OwedInAll(cell, c) == SumFunction([t \in Thread |-> OwedBy(t, cell, c)])

\* A stripe being filled has merged nothing, one done has merged everything.
Phases ==
  /\ \A t \in Thread : pc[t] = "filling" => merged[t] = {}
  /\ \A t \in Thread : pc[t] = "done" => Known(stripe[t]) \subseteq merged[t]

Balance ==
  NoFailure =>
    \A cell \in Cell, c \in Column :
      given[cell][c] = SumIn(parts[PartOf[cell]], cell, c) + OwedInAll(cell, c)

Classed ==
  /\ \A t \in Thread : ClassesSound(stripe[t])
  /\ NoFailure => \A p \in Part : ClassesSound(parts[p])

WInv == IInv /\ DOMAIN given = Cell /\ Phases /\ Balance /\ Classed

LEMMA OwedIsNat ==
  ASSUME NEW st, NEW done, NEW cols, NEW cell, NEW c \in Column, Sound(st), DOMAIN cols = st.bands
  PROVE  Owed(st, done, cols, cell, c) \in Nat
<1>1. CASE cell \in Known(st) \ done
  <2>1. CellSound(st, cell)
    BY <1>1 DEF Sound
  <2> QED BY <1>1, <2>1, ScatterSound DEF Owed
<1> QED BY <1>1 DEF Owed

\* One thread's stripe changes.
LEMMA OwedChanges ==
  ASSUME StoreAssumption, StripesSound, StripesSound', NEW t \in Thread, NEW cell \in Cell, NEW c \in Column,
         \A v \in Thread \ {t} : stripe'[v] = stripe[v] /\ merged'[v] = merged[v]
  PROVE  /\ OwedInAll(cell, c) \in Nat /\ OwedInAll(cell, c)' \in Nat
         /\ OwedBy(t, cell, c) \in Nat /\ OwedBy(t, cell, c)' \in Nat
         /\ OwedInAll(cell, c)' + OwedBy(t, cell, c) = OwedInAll(cell, c) + OwedBy(t, cell, c)'
<1> DEFINE f == [v \in Thread |-> OwedBy(v, cell, c)]
           g == [v \in Thread |-> Owed(stripe'[v], merged'[v], Cols[v], cell, c)]
<1>1. \A v \in Thread : OwedBy(v, cell, c) \in Nat
  BY OwedIsNat DEF StripesSound, OwedBy, Local
<1>2. \A v \in Thread : Owed(stripe'[v], merged'[v], Cols[v], cell, c) \in Nat
  <2>1. \A v \in Thread : Sound(stripe'[v]) /\ DOMAIN Cols[v] = stripe'[v].bands
    BY DEF StripesSound, Local
  <2> QED BY <2>1, OwedIsNat
<1>3. \A v \in Thread \ {t} : g[v] = f[v]
  BY DEF OwedBy
<1>4. f \in [Thread -> Nat] /\ g \in [Thread -> Nat]
  BY <1>1, <1>2
<1>5. /\ OwedInAll(cell, c) = SumFunction(f) /\ OwedInAll(cell, c)' = SumFunction(g)
      /\ OwedBy(t, cell, c) = f[t] /\ OwedBy(t, cell, c)' = g[t]
  BY DEF OwedInAll, OwedBy
<1> HIDE DEF f, g
<1>6. /\ SumFunction(f) \in Nat /\ SumFunction(g) \in Nat
      /\ SumFunction(g) + f[t] = SumFunction(f) + g[t]
  BY <1>3, <1>4, ThreadSums
<1> QED BY <1>4, <1>5, <1>6

LEMMA WInit == ASSUME StoreAssumption, Init PROVE WInv
<1>1. DOMAIN given = Cell
  BY DEF Init
<1>2. \A t \in Thread : Known(stripe[t]) = {} /\ merged[t] = {} /\ DOMAIN stripe[t].cat = {}
  BY DEF Init, EmptyStore, StoreOf, Known
<1>3. \A p \in Part : Known(parts[p]) = {} /\ DOMAIN parts[p].cat = {}
  BY DEF Init, EmptyStore, StoreOf, Known
<1>4. Phases
  BY <1>2 DEF Phases
<1>5. Classed
  BY <1>2, <1>3 DEF Classed, ClassesSound
<1>6. ASSUME NEW cell \in Cell, NEW c \in Column
      PROVE  given[cell][c] = SumIn(parts[PartOf[cell]], cell, c) + OwedInAll(cell, c)
  <2> DEFINE f == [t \in Thread |-> OwedBy(t, cell, c)]
  <2>1. \A t \in Thread : OwedBy(t, cell, c) = 0
    BY <1>2 DEF OwedBy, Owed
  <2>2. f \in [Thread -> Nat] /\ \A t \in Thread : f[t] = 0
    BY <2>1
  <2> HIDE DEF f
  <2>3. SumFunction(f) = 0
    BY <2>2, NoThreadSum
  <2>4. PartOf[cell] \in Part
    BY DEF StoreAssumption, PartsAssumption
  <2>5. SumIn(parts[PartOf[cell]], cell, c) = 0
    BY <1>3, <2>4 DEF SumIn
  <2>6. given[cell][c] = 0
    BY DEF Init
  <2> QED BY <2>3, <2>5, <2>6 DEF OwedInAll, f
<1> QED BY <1>1, <1>4, <1>5, <1>6, InitIInv DEF WInv, Balance

LEMMA WPush ==
  ASSUME StoreAssumption, WInv, IInv',
         NEW t \in Thread, NEW cell \in Cell, NEW n \in Lengths, NEW ws, NEW k,
         \A b \in Local(t) : ws[b] \in Nat, Push(t, cell, n, ws, k)
  PROVE  WInv'
<1>1. CASE PushFails(stripe[t], cell, ws, k)
  <2>1. /\ pc' = [pc EXCEPT ![t] = "failed"] /\ UNCHANGED <<stripe, merged, parts, given>>
    BY <1>1 DEF Push
  <2>2. ~NoFailure'
    BY <2>1 DEF WInv, IInv, Indexed, NoFailure
  <2>3. Phases'
    BY <2>1 DEF WInv, IInv, Indexed, Phases
  <2> QED BY <2>1, <2>2, <2>3 DEF WInv, Balance, Classed
<1>2. CASE ~PushFails(stripe[t], cell, ws, k)
  <2> DEFINE ks == [b \in stripe[t].bands |-> ClassOf(k, ws[b])]
             received(c) == Scatter(Cols[t], Column, ws, 0)[c]
  <2>1. /\ stripe' = [stripe EXCEPT ![t] = Pushed(stripe[t], cell, n, ws, k)]
        /\ given' = [given EXCEPT ![cell] = [c \in Column |-> @[c] + received(c)]]
        /\ pc[t] = "filling" /\ UNCHANGED <<pc, merged, parts>>
    BY <1>2 DEF Push
  <2>2. /\ \A v \in Thread \ {t} : stripe'[v] = stripe[v] /\ merged'[v] = merged[v]
        /\ stripe'[t] = Pushed(stripe[t], cell, n, ws, k)
        /\ merged[t] = {} /\ merged'[t] = {}
    BY <2>1 DEF WInv, IInv, Indexed, Phases
  <2>3. Sound(stripe[t]) /\ ClassesSound(stripe[t]) /\ stripe[t].bands = Local(t)
    BY DEF WInv, IInv, StripesSound, Classed
  <2> HIDE DEF ks, received
  <2>4. Takes(stripe[t], stripe'[t], cell, ws, ks)
    BY <2>2, <2>3, PushedTakes DEF Sound, ClassesSound, ks
  <2>5. ClassesSound(stripe'[t])
    <3>1. \A b \in stripe[t].bands : ClassMap(ks[b], ws[b])
      BY <2>3, OneClass DEF ks
    <3> QED BY <2>3, <2>4, <3>1, TakesClasses
  <2>6. Classed'
    BY <2>1, <2>2, <2>5 DEF WInv, Classed, NoFailure
  <2>7. Phases'
    BY <2>1, <2>2 DEF WInv, Phases
  <2>8. ASSUME NoFailure, NEW d \in Cell, NEW c \in Column
        PROVE  given'[d][c] = SumIn(parts[PartOf[d]], d, c) + OwedInAll(d, c)'
    <3>1. /\ OwedInAll(d, c) \in Nat /\ OwedInAll(d, c)' \in Nat
          /\ OwedBy(t, d, c) \in Nat /\ OwedBy(t, d, c)' \in Nat
          /\ OwedInAll(d, c)' + OwedBy(t, d, c) = OwedInAll(d, c) + OwedBy(t, d, c)'
      BY <2>2, OwedChanges DEF WInv, IInv
    <3>2. given[d][c] = SumIn(parts[PartOf[d]], d, c) + OwedInAll(d, c)
      BY <2>8 DEF WInv, Balance
    <3>3. SumIn(parts[PartOf[d]], d, c) \in Nat
      <4>1. PartOf[d] \in Part
        BY DEF StoreAssumption, PartsAssumption
      <4>2. Sound(parts[PartOf[d]]) /\ parts[PartOf[d]].bands = Column
        BY <2>8, <4>1 DEF WInv, IInv, PartsSound
      <4> QED BY <4>2 DEF SumIn, Sound, CellSound
    <3>4. CASE d = cell
      <4>1. given'[d][c] = given[d][c] + received(c)
        BY <2>1, <3>4 DEF WInv
      <4> DEFINE had == [b \in Local(t) |-> SumIn(stripe[t], cell, b)]
                 has == stripe'[t].cont[cell]
      <4>2. \A b \in Local(t) : had[b] \in Nat /\ ws[b] \in Nat /\ has[b] = had[b] + ws[b]
        <5>1. \A b \in Local(t) : SumIn(stripe[t], cell, b) \in Nat
          BY <2>3 DEF SumIn, Sound, CellSound
        <5> QED BY <2>3, <2>4, <5>1 DEF Takes
      <4>3. had \in [Local(t) -> Nat] /\ \A b \in Local(t) : had[b] = SumIn(stripe[t], cell, b)
        BY <4>2
      <4>4. OwedBy(t, d, c)' = Scatter(Cols[t], Column, has, 0)[c]
        BY <2>2, <2>4, <3>4 DEF OwedBy, Owed, Takes
      <4> HIDE DEF had, has
      <4>5. OwedBy(t, d, c) = Scatter(Cols[t], Column, had, 0)[c]
        <5>1. CASE cell \in Known(stripe[t])
          <6>1. \A b \in DOMAIN Cols[t] : had[b] = stripe[t].cont[cell][b]
            BY <4>3, <5>1 DEF SumIn, Local
          <6> QED BY <2>2, <3>4, <5>1, <6>1 DEF OwedBy, Owed, Scatter
        <5>2. CASE cell \notin Known(stripe[t])
          <6>1. \A b \in DOMAIN Cols[t] : had[b] = 0
            BY <4>3, <5>2 DEF SumIn, Local
          <6> QED BY <2>2, <3>4, <5>2, <6>1 DEF OwedBy, Owed, Scatter
        <5> QED BY <5>1, <5>2
      <4>6. \A b \in DOMAIN Cols[t] : had[b] \in Nat /\ ws[b] \in Nat /\ has[b] = had[b] + ws[b]
        BY <4>2 DEF Local
      <4>7. /\ received(c) \in Nat
            /\ OwedBy(t, d, c)' = OwedBy(t, d, c) + received(c)
        BY <4>4, <4>5, <4>6, ScatterAdds DEF received
      <4> QED BY <3>1, <3>2, <3>3, <4>1, <4>7
    <3>5. CASE d # cell
      <4>1. given'[d][c] = given[d][c]
        BY <2>1, <3>5 DEF WInv
      <4>2. OwedBy(t, d, c)' = OwedBy(t, d, c)
        <5>1. d \in Known(stripe'[t]) <=> d \in Known(stripe[t])
          BY <2>4, <3>5 DEF Takes
        <5>2. d \in Known(stripe[t]) => stripe'[t].cont[d] = stripe[t].cont[d]
          BY <2>4, <3>5 DEF Takes
        <5> QED BY <2>2, <5>1, <5>2 DEF OwedBy, Owed
      <4> QED BY <3>1, <3>2, <3>3, <4>1, <4>2
    <3> QED BY <3>4, <3>5
  <2>9. Balance'
    <3>1. NoFailure' <=> NoFailure
      BY <2>1 DEF NoFailure
    <3> QED BY <2>1, <2>8, <3>1 DEF Balance
  <2>10. DOMAIN given' = Cell
    BY <2>1 DEF WInv
  <2> QED BY <2>6, <2>7, <2>9, <2>10 DEF WInv
<1> QED BY <1>1, <1>2

\* A step that moves no weight.
LEMMA WStays ==
  ASSUME WInv, IInv', Phases', UNCHANGED <<stripe, merged, parts, given>>, NoFailure' => NoFailure
  PROVE  WInv'
<1>1. \A cell \in Cell, c \in Column : OwedInAll(cell, c)' = OwedInAll(cell, c)
  BY DEF OwedInAll, OwedBy
<1>2. Balance'
  BY <1>1 DEF WInv, Balance
<1>3. Classed'
  BY DEF WInv, Classed
<1> QED BY <1>2, <1>3 DEF WInv

LEMMA WStartAbsorb ==
  ASSUME WInv, IInv', NEW t \in Thread, StartAbsorb(t)
  PROVE  WInv'
<1>1. /\ pc' = [pc EXCEPT ![t] = IF Known(stripe[t]) = {} THEN "done" ELSE "absorbing"]
      /\ UNCHANGED <<stripe, merged, parts, given>>
  BY DEF StartAbsorb
<1>2. Phases'
  BY <1>1 DEF WInv, IInv, Indexed, Phases
<1>3. NoFailure' => NoFailure
  BY <1>1 DEF WInv, IInv, Indexed, NoFailure, StartAbsorb
<1> QED BY <1>1, <1>2, <1>3, WStays

LEMMA WLock ==
  ASSUME WInv, IInv', NEW t \in Thread, NEW p \in Part, Lock(t, p)
  PROVE  WInv'
<1>1. UNCHANGED <<pc, stripe, merged, parts, given>>
  BY DEF Lock
<1>2. Phases' /\ (NoFailure' => NoFailure)
  BY <1>1 DEF WInv, Phases, NoFailure
<1> QED BY <1>1, <1>2, WStays

\* A stripe that is dropped owes nothing.
LEMMA WNextStripe ==
  ASSUME StoreAssumption, WInv, IInv', NEW t \in Thread, NextStripe(t)
  PROVE  WInv'
<1>1. /\ pc[t] = "done" /\ UNCHANGED <<parts, given>>
      /\ pc' = [pc EXCEPT ![t] = "filling"]
      /\ stripe' = [stripe EXCEPT ![t] = EmptyStore(Local(t))]
      /\ merged' = [merged EXCEPT ![t] = {}]
  BY DEF NextStripe
<1>2. /\ \A v \in Thread \ {t} : stripe'[v] = stripe[v] /\ merged'[v] = merged[v] /\ pc'[v] = pc[v]
      /\ stripe'[t] = EmptyStore(Local(t)) /\ merged'[t] = {} /\ pc'[t] = "filling"
  BY <1>1 DEF WInv, IInv, Indexed
<1>3. Known(stripe'[t]) = {} /\ DOMAIN stripe'[t].cat = {}
  BY <1>2 DEF EmptyStore, StoreOf, Known
<1>4. Phases'
  BY <1>2 DEF WInv, Phases
<1>5. NoFailure' <=> NoFailure
  BY <1>1, <1>2 DEF NoFailure
<1>6. Classed'
  <2>1. ClassesSound(stripe'[t])
    BY <1>3 DEF ClassesSound
  <2> QED BY <1>1, <1>2, <1>5, <2>1 DEF WInv, Classed
<1>7. ASSUME NEW d \in Cell, NEW c \in Column
      PROVE  OwedInAll(d, c)' = OwedInAll(d, c)
  <2>1. OwedBy(t, d, c) = 0
    BY <1>1 DEF OwedBy, Owed, WInv, Phases
  <2>2. OwedBy(t, d, c)' = 0
    BY <1>3 DEF OwedBy, Owed
  <2>3. /\ OwedInAll(d, c) \in Nat /\ OwedInAll(d, c)' \in Nat
        /\ OwedInAll(d, c)' + OwedBy(t, d, c) = OwedInAll(d, c) + OwedBy(t, d, c)'
    BY <1>2, OwedChanges DEF WInv, IInv
  <2> QED BY <2>1, <2>2, <2>3
<1>8. Balance'
  BY <1>1, <1>5, <1>7 DEF WInv, Balance
<1> QED BY <1>1, <1>4, <1>6, <1>8 DEF WInv

\* What a merge takes out of a stripe it puts into the cell's partition.
LEMMA WMergeCell ==
  ASSUME StoreAssumption, WInv, IInv', NEW t \in Thread, NEW cell \in Cell, MergeCell(t, cell)
  PROVE  WInv'
<1> DEFINE p == PartOf[cell]
           got == Scatter(Cols[t], Column, stripe[t].cont[cell], 0)
           ks == ClassesOf(stripe[t], cell, Cols[t], Column)
<1>1. /\ pc[t] = "absorbing" /\ cell \in Group(t, p)
      /\ parts' = [parts EXCEPT ![p] = MergedCell(parts[p], stripe[t], cell, Cols[t], t \in Mapped)]
      /\ merged' = [merged EXCEPT ![t] = @ \cup {cell}]
      /\ pc' = IF Known(stripe[t]) \ merged[t] = {cell} THEN [pc EXCEPT ![t] = "done"] ELSE pc
      /\ stripe' = stripe /\ given' = given
  BY DEF MergeCell
<1>2. p \in Part /\ cell \in Known(stripe[t]) \ merged[t]
  BY <1>1 DEF StoreAssumption, PartsAssumption, Group
<1>3. /\ \A v \in Thread \ {t} : stripe'[v] = stripe[v] /\ merged'[v] = merged[v] /\ pc'[v] = pc[v]
      /\ merged'[t] = merged[t] \cup {cell}
      /\ \A q \in Part \ {p} : parts'[q] = parts[q]
      /\ parts'[p] = MergedCell(parts[p], stripe[t], cell, Cols[t], t \in Mapped)
  BY <1>1, <1>2 DEF WInv, IInv, Indexed
<1>4. NoFailure' <=> NoFailure
  BY <1>1, <1>3 DEF NoFailure, WInv, IInv, Indexed
<1>5. Phases'
  BY <1>1, <1>3 DEF WInv, IInv, Indexed, Phases
<1>6. Sound(stripe[t]) /\ ClassesSound(stripe[t]) /\ DOMAIN Cols[t] = stripe[t].bands
  BY DEF WInv, IInv, StripesSound, Classed, Local
<1>7. NoFailure => \A q \in Part : Sound(parts[q]) /\ ClassesSound(parts[q]) /\ parts[q].bands = Column
  BY DEF WInv, IInv, PartsSound, Classed
<1> HIDE DEF p, got, ks
<1>8. NoFailure => Takes(parts[p], parts'[p], cell, got, ks)
  <2> SUFFICES ASSUME NoFailure PROVE Takes(parts[p], parts'[p], cell, got, ks)
    OBVIOUS
  <2>1. Shaped(parts[p]) /\ DOMAIN parts[p].cat = Known(parts[p]) /\ parts[p].bands = Column
    BY <1>2, <1>7 DEF Sound, ClassesSound
  <2> QED BY <1>3, <2>1, MergedTakes DEF got, ks
<1>9. Classed'
  <2>1. NoFailure => ClassesSound(parts'[p])
    <3>1. \A c \in Column : ClassMap(ks[c], got[c])
      BY <1>2, <1>6, ScatteredClasses DEF ks, got
    <3> QED BY <1>2, <1>7, <1>8, <3>1, TakesClasses
  <2> QED BY <1>1, <1>3, <1>4, <2>1 DEF WInv, Classed
<1>10. ASSUME NoFailure, NEW d \in Cell, NEW c \in Column
       PROVE  given'[d][c] = SumIn(parts'[PartOf[d]], d, c) + OwedInAll(d, c)'
  <2>1. /\ OwedInAll(d, c) \in Nat /\ OwedInAll(d, c)' \in Nat
        /\ OwedBy(t, d, c) \in Nat /\ OwedBy(t, d, c)' \in Nat
        /\ OwedInAll(d, c)' + OwedBy(t, d, c) = OwedInAll(d, c) + OwedBy(t, d, c)'
    BY <1>3, OwedChanges DEF WInv, IInv
  <2>2. given'[d][c] = SumIn(parts[PartOf[d]], d, c) + OwedInAll(d, c)
    BY <1>1, <1>10 DEF WInv, Balance
  <2>3. PartOf[d] \in Part
    BY DEF StoreAssumption, PartsAssumption
  <2>4. SumIn(parts[PartOf[d]], d, c) \in Nat
    BY <1>7, <1>10, <2>3 DEF SumIn, Sound, CellSound
  <2>5. CASE d = cell
    <3>1. OwedBy(t, d, c) = got[c]
      BY <1>2, <2>5 DEF OwedBy, Owed, got
    <3>2. OwedBy(t, d, c)' = 0
      BY <1>3, <2>5 DEF OwedBy, Owed
    <3>3. SumIn(parts'[p], d, c) = SumIn(parts[p], d, c) + got[c]
      <4>1. c \in parts[p].bands
        BY <1>2, <1>7, <1>10
      <4> QED BY <1>8, <1>10, <2>5, <4>1 DEF Takes, SumIn
    <3>4. PartOf[d] = p
      BY <2>5 DEF p
    <3> QED BY <2>1, <2>2, <2>4, <3>1, <3>2, <3>3, <3>4
  <2>6. CASE d # cell
    <3>1. OwedBy(t, d, c)' = OwedBy(t, d, c)
      BY <1>1, <1>3, <2>6 DEF OwedBy, Owed
    <3>2. SumIn(parts'[PartOf[d]], d, c) = SumIn(parts[PartOf[d]], d, c)
      <4>1. CASE PartOf[d] = p
        BY <1>8, <1>10, <2>6, <4>1 DEF Takes, SumIn
      <4>2. CASE PartOf[d] # p
        BY <1>3, <2>3, <4>2
      <4> QED BY <4>1, <4>2
    <3> QED BY <2>1, <2>2, <2>4, <3>1, <3>2
  <2> QED BY <2>5, <2>6
<1>11. Balance'
  BY <1>4, <1>10 DEF Balance
<1> QED BY <1>1, <1>5, <1>9, <1>11 DEF WInv

LEMMA WMergeFails ==
  ASSUME StoreAssumption, WInv, IInv', NEW t \in Thread, NEW cell \in Cell, MergeFails(t, cell)
  PROVE  WInv'
<1>1. pc' = [pc EXCEPT ![t] = "failed"] /\ UNCHANGED <<stripe, merged, given>>
  BY DEF MergeFails
<1>2. ~NoFailure'
  BY <1>1 DEF WInv, IInv, Indexed, NoFailure
<1>3. Phases'
  BY <1>1 DEF WInv, IInv, Indexed, Phases
<1> QED BY <1>1, <1>2, <1>3 DEF WInv, Balance, Classed

LEMMA WStep ==
  ASSUME StoreAssumption, WInv, [Next]_vars
  PROVE  WInv'
<1>1. IInv'
  BY StepKeepsIInv DEF WInv
<1>2. CASE UNCHANGED vars
  <2>1. Phases' /\ (NoFailure' => NoFailure) /\ UNCHANGED <<stripe, merged, parts, given>>
    BY <1>2 DEF vars, WInv, Phases, NoFailure
  <2> QED BY <1>1, <2>1, WStays
<1>3. ASSUME NEW t \in Thread, FillStep(t) PROVE WInv'
  <2>1. PICK cell \in Cell, n \in Lengths, k \in Class :
          \/ \E ws \in [Local(t) -> 0..n] : PushRun(t, cell, n, ws, k)
          \/ \E valid \in SUBSET Local(t) : PushPixel(t, cell, n, valid, k)
    BY <1>3 DEF FillStep
  <2>2. n \in Nat
    BY DEF StoreAssumption, PartsAssumption
  <2>3. ASSUME NEW ws \in [Local(t) -> 0..n], PushRun(t, cell, n, ws, k) PROVE WInv'
    <3>1. Push(t, cell, n, ws, k) /\ \A b \in Local(t) : ws[b] \in Nat
      BY <2>2, <2>3 DEF PushRun
    <3> QED BY <1>1, <3>1, WPush
  <2>4. ASSUME NEW valid \in SUBSET Local(t), PushPixel(t, cell, n, valid, k) PROVE WInv'
    <3> DEFINE ws == [b \in Local(t) |-> IF b \in valid THEN n ELSE 0]
    <3>1. Push(t, cell, n, ws, k)
      BY <2>4 DEF PushPixel
    <3>2. \A b \in Local(t) : ws[b] \in Nat
      BY <2>2
    <3> HIDE DEF ws
    <3> QED BY <1>1, <3>1, <3>2, WPush
  <2> QED BY <2>1, <2>3, <2>4
<1>4. ASSUME NEW t \in Thread, AbsorbStep(t) PROVE WInv'
  BY <1>1, <1>4, WLock, WMergeCell, WMergeFails DEF AbsorbStep
<1> QED BY <1>1, <1>2, <1>3, <1>4, WStartAbsorb, WNextStripe DEF Next

\* What the invariant says of sums it says of weights.
LEMMA WInvConserves == ASSUME StoreAssumption, WInv PROVE WeightConserved
<1> SUFFICES ASSUME NoFailure
             PROVE  /\ \A cell \in Cell, c \in Column :
                         given[cell][c] = WeightIn(parts[PartOf[cell]], cell, c)
                                          + SumFunction([t \in Thread |-> Unmerged(t, cell, c)])
                    /\ \A p \in Part : \A cell \in Known(parts[p]) : \A c \in Column :
                         SumFunction(parts[p].cat[cell][c]) = WeightsOf(parts[p], cell)[c]
  BY DEF WeightConserved
<1>1. \A p \in Part : Sound(parts[p]) /\ ClassesSound(parts[p]) /\ parts[p].bands = Column
  BY DEF WInv, IInv, PartsSound, Classed
<1>2. ASSUME NEW cell \in Cell, NEW c \in Column
      PROVE  given[cell][c] = WeightIn(parts[PartOf[cell]], cell, c)
                              + SumFunction([t \in Thread |-> Unmerged(t, cell, c)])
  <2>1. SumIn(parts[PartOf[cell]], cell, c) = WeightIn(parts[PartOf[cell]], cell, c)
    <3>1. PartOf[cell] \in Part
      BY DEF StoreAssumption, PartsAssumption
    <3> QED BY <1>1, <3>1 DEF SumIn, WeightIn, Sound, CellSound
  <2>2. ASSUME NEW t \in Thread PROVE OwedBy(t, cell, c) = Unmerged(t, cell, c)
    <3>1. Sound(stripe[t]) /\ DOMAIN Cols[t] = stripe[t].bands
      BY DEF WInv, IInv, StripesSound, Local
    <3>2. CASE cell \in Known(stripe[t]) \ merged[t]
      <4>1. CellSound(stripe[t], cell)
        BY <3>1, <3>2 DEF Sound
      <4>2. Scatter(Cols[t], Column, stripe[t].cont[cell], 0)[c]
              = Scatter(Cols[t], Column, WeightsOf(stripe[t], cell), 0)[c]
        BY <3>1, <4>1, ScatterSound
      <4> QED BY <3>2, <4>2 DEF OwedBy, Owed, Unmerged
    <3> QED BY <3>2 DEF OwedBy, Owed, Unmerged
  <2>3. [t \in Thread |-> Unmerged(t, cell, c)] = [t \in Thread |-> OwedBy(t, cell, c)]
    BY <2>2
  <2>4. given[cell][c] = SumIn(parts[PartOf[cell]], cell, c) + OwedInAll(cell, c)
    BY DEF WInv, Balance
  <2> QED BY <2>1, <2>3, <2>4 DEF OwedInAll
<1>3. ASSUME NEW p \in Part, NEW cell \in Known(parts[p]), NEW c \in Column
      PROVE  SumFunction(parts[p].cat[cell][c]) = WeightsOf(parts[p], cell)[c]
  BY <1>1 DEF Sound, CellSound, ClassesSound, ClassMap
<1> QED BY <1>2, <1>3

-----------------------------------------------------------------------------
(* The theorems. *)

\* Whatever threads do, a stripe has merged only cells it has, and a partition
\* holds only the cells that belong to it: no cell is in two partitions, so
\* the rows of a read are one per cell (PartitionedStore::absorb,
\* read.rs:1093-1147).
THEOREM TypeCorrect == Spec => []TypeOK
<1>1. Init => IInv /\ TypeOK
  <2>1. Init => TypeOK
    BY StoreAssumption DEF Init, TypeOK, EmptyStore, StoreOf, Known
  <2> QED BY <2>1, InitIInv, StoreAssumption
<1>2. IInv /\ TypeOK /\ [Next]_vars => (IInv /\ TypeOK)'
  BY StepKeepsIInv, TypesKept, StoreAssumption
<1> QED BY <1>1, <1>2, PTL DEF Spec

\* Every mean divides by the weight of the values its sum holds, in stripes
\* and in partitions, for any mix of sources, stripes and merge orders.
THEOREM MeansStayExact == Spec => []MeansAreExact
<1>1. Init => IInv
  BY InitIInv, StoreAssumption
<1>2. IInv /\ [Next]_vars => IInv'
  BY StepKeepsIInv, StoreAssumption
<1>3. IInv => MeansAreExact
  BY SoundMatches DEF IInv, StripesSound, PartsSound, MeansAreExact
<1>4. QED
  BY <1>1, <1>2, <1>3, PTL DEF Spec

\* A thread that holds the lock of a partition can always merge its next
\* cell there, so absorbing threads never wait for each other in a circle.
THEOREM LockHoldersCanMove == Spec => []HoldersCanMove
<1>1. Init => IInv
  BY InitIInv, StoreAssumption
<1>2. IInv /\ [Next]_vars => IInv'
  BY StepKeepsIInv, StoreAssumption
<1>3. IInv => HoldersCanMove
  BY DEF IInv
<1>4. QED
  BY <1>1, <1>2, <1>3, PTL DEF Spec

\* However threads fill, absorb and start stripes over, and whichever columns
\* their sources feed, every pixel's weight is in the partition of its cell or
\* in one stripe, once, and the class weights of a column add up to its weight
\* (process_tile, push_pixel and PartitionedStore::absorb, read.rs:1093-1147).
THEOREM WeightNeitherLostNorDoubled == Spec => []WeightConserved
<1>1. Init => WInv
  BY WInit, StoreAssumption
<1>2. WInv /\ [Next]_vars => WInv'
  BY WStep, StoreAssumption
<1>3. WInv => WeightConserved
  BY WInvConserves, StoreAssumption
<1> QED BY <1>1, <1>2, <1>3, PTL DEF Spec
=============================================================================

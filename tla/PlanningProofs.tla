---------------------------- MODULE PlanningProofs ----------------------------
(***************************************************************************)
(* What a read decides and plans to fetch.                                 *)
(*                                                                         *)
(* For any tile grid, strip cap and io_concurrency, and for any ranges:    *)
(* the strips of a plan are its blocks, cut where plan_strips must cut,    *)
(* and coalesce answers every range inside one tight request.  For globes, *)
(* boxes and rasters of any size: what classify decides of a point (Boxes  *)
(* in grid_proj.rs), and which region owns a block.  The library has no    *)
(* facts on remainders, so the lemmas about regions start from those.      *)
(*                                                                         *)
(* For any sources: the levels pooled sources share, and the columns their *)
(* bands go to.  Those two are about operators first (LevelsInCommon,      *)
(* PooledBands, SeparateBands); Decided carries them through the steps of  *)
(* a read, each source planned at most once and, without a region, at      *)
(* least once if a band of it is selected.                                 *)
(***************************************************************************)
EXTENDS Planning, Selection, CoalesceProofs, SequenceTheorems

-----------------------------------------------------------------------------
(* Flattening a sequence of sequences. *)

Follow(s, flat) == flat \o s
Joining == INSTANCE Folding WITH Op <- Follow, Choose <- Max, Numbers <- Nat

Flat(ss, n) == Joining!Fold(<<>>, ss, 1..n)

\* FlattenSeq joins one sequence after the other.
LEMMA FlatRounds ==
  ASSUME NEW T, NEW ss \in Seq(Seq(T))
  PROVE  /\ Flat(ss, 0) = <<>>
         /\ \A n \in 1..Len(ss) : Flat(ss, n) = Flat(ss, n - 1) \o ss[n]
         /\ FlattenSeq(ss) = Flat(ss, Len(ss))
<1> DEFINE L == Len(ss)
<1>1. L \in Nat
  OBVIOUS
<1>2. Joining!LastFirst /\ Joining!Chooses(1..L)
  BY <1>1, LastIsFirst DEF Joining!LastFirst, Joining!Chooses
<1>3. /\ Flat(ss, 0) = <<>>
      /\ \A n \in 1..L : Flat(ss, n) = Follow(ss[n], Flat(ss, n - 1))
  BY <1>1, <1>2, Joining!FoldOfPrefix DEF Flat
<1>4. \A n \in 1..L : Flat(ss, n) = Flat(ss, n - 1) \o ss[n]
  BY <1>3 DEF Follow
<1>5. CASE L = 0
  BY <1>3, <1>5 DEF FlattenSeq
<1>6. CASE L # 0
  <2> DEFINE Is(g) == g = [i \in 1..L |-> IF i = 1 THEN ss[i] ELSE g[i - 1] \o ss[i]]
             f == [i \in 1..L |-> Flat(ss, i)]
             h == CHOOSE g : Is(g)
  <2>r. ASSUME NEW g, Is(g), NEW i \in 1..L
        PROVE  g[i] = IF i = 1 THEN ss[i] ELSE g[i - 1] \o ss[i]
    <3>1. g = [j \in 1..L |-> IF j = 1 THEN ss[j] ELSE g[j - 1] \o ss[j]]
      BY <2>r
    <3> HIDE DEF L
    <3> QED BY <3>1
  <2>1. FlattenSeq(ss) = h[L]
    BY <1>6 DEF FlattenSeq
  <2>2. Is(f)
    <3>1. ASSUME NEW i \in 1..L
          PROVE  f[i] = IF i = 1 THEN ss[i] ELSE f[i - 1] \o ss[i]
      <4>1. CASE i = 1
        <5>1. ss[1] \in Seq(T)
          BY <1>6
        <5>2. Flat(ss, 1) = Flat(ss, 0) \o ss[1]
          <6>1. Flat(ss, i) = Flat(ss, i - 1) \o ss[i] /\ i - 1 = 0
            <7>1. Flat(ss, i) = Flat(ss, i - 1) \o ss[i]
              <8> HIDE DEF L
              <8> QED BY <1>4
            <7> QED BY <4>1, <7>1
          <6> QED BY <4>1, <6>1
        <5>3. <<>> \o ss[1] = ss[1]
          BY <5>1, ConcatEmptySeq
        <5> QED BY <1>3, <4>1, <5>2, <5>3
      <4>2. CASE i # 1
        <5>1. i - 1 \in 1..L
          BY <1>1, <4>2
        <5> QED BY <1>4, <4>2, <5>1
      <4> QED BY <4>1, <4>2
    <3>2. f = [i \in 1..L |-> f[i]]
      OBVIOUS
    <3> HIDE DEF f, L
    <3> QED BY <3>1, <3>2
  <2>3. Is(h)
    <3>1. \E g : Is(g)
      <4> HIDE DEF f
      <4> QED BY <2>2
    <3> HIDE DEF Is
    <3> QED BY <3>1
  <2> DEFINE S == {i \in 0..L : i # 0 => h[i] = Flat(ss, i)}
  <2>4. ASSUME NEW i \in 0..(L - 1), i \in S
        PROVE  i + 1 \in S
    <3>0. i + 1 \in 1..L
      BY <1>1
    <3>1. h[i + 1] = IF i + 1 = 1 THEN ss[i + 1] ELSE h[(i + 1) - 1] \o ss[i + 1]
      BY <2>r, <2>3, <3>0
    <3>2. f[i + 1] = IF i + 1 = 1 THEN ss[i + 1] ELSE f[(i + 1) - 1] \o ss[i + 1]
      BY <2>r, <2>2, <3>0
    <3>3. i # 0 => h[i] = f[i]
      <4> HIDE DEF h
      <4> QED BY <1>1, <2>4
    <3>4. h[i + 1] = f[i + 1]
      <4> HIDE DEF f, h
      <4> QED BY <1>1, <3>1, <3>2, <3>3
    <3>5. f[i + 1] = Flat(ss, i + 1)
      BY <1>1
    <3> HIDE DEF f, h
    <3> QED BY <1>1, <3>4, <3>5
  <2>5. 0..L \subseteq S
    <3>1. 0 \in S
      BY <1>1
    <3> HIDE DEF S
    <3> QED BY <1>1, <2>4, <3>1, Joining!CountUp
  <2>6. h[L] = Flat(ss, L)
    <3> HIDE DEF h
    <3> QED BY <1>1, <1>6, <2>5
  <2>7. FlattenSeq(ss) = Flat(ss, Len(ss))
    BY <2>1, <2>6
  <2> QED BY <1>3, <1>4, <2>7
<1> QED BY <1>3, <1>4, <1>5, <1>6

\* A prefix joins to the same however the sequence goes on.
LEMMA FlatSame ==
  ASSUME NEW T, NEW ss \in Seq(Seq(T)), NEW tt \in Seq(Seq(T)),
         NEW n \in 0..Len(ss), n <= Len(tt), \A i \in 1..n : ss[i] = tt[i]
  PROVE  Flat(ss, n) = Flat(tt, n)
<1> DEFINE S == {i \in 0..n : Flat(ss, i) = Flat(tt, i)}
<1>1. n \in Nat
  OBVIOUS
<1>2. 0 \in S
  <2>1. Flat(ss, 0) = <<>> /\ Flat(tt, 0) = <<>>
    BY FlatRounds
  <2> QED BY <1>1, <2>1
<1>3. ASSUME NEW i \in 0..(n - 1), i \in S
      PROVE  i + 1 \in S
  <2>1. i + 1 \in 1..Len(ss) /\ i + 1 \in 1..Len(tt) /\ (i + 1) - 1 = i /\ i + 1 \in 1..n
    OBVIOUS
  <2>2. /\ Flat(ss, i + 1) = Flat(ss, i) \o ss[i + 1]
        /\ Flat(tt, i + 1) = Flat(tt, i) \o tt[i + 1]
    <3> HIDE DEF S
    <3>1. \A j \in 1..Len(ss) : Flat(ss, j) = Flat(ss, j - 1) \o ss[j]
      BY FlatRounds
    <3>2. \A j \in 1..Len(tt) : Flat(tt, j) = Flat(tt, j - 1) \o tt[j]
      BY FlatRounds
    <3> QED BY <2>1, <3>1, <3>2
  <2>3. Flat(ss, i) = Flat(tt, i)
    BY <1>3
  <2>4. Flat(ss, i + 1) = Flat(tt, i + 1)
    <3> HIDE DEF S
    <3> QED BY <2>1, <2>2, <2>3
  <2> QED BY <2>1, <2>4
<1>4. 0..n \subseteq S
  <2> HIDE DEF S
  <2> QED BY <1>1, <1>2, <1>3, Joining!CountUp
<1> QED BY <1>1, <1>4

\* What is joined is a sequence.
LEMMA FlatType ==
  ASSUME NEW T, NEW ss \in Seq(Seq(T)), NEW n \in 0..Len(ss)
  PROVE  Flat(ss, n) \in Seq(T)
<1> DEFINE S == {i \in 0..n : Flat(ss, i) \in Seq(T)}
<1>1. n \in Nat
  OBVIOUS
<1>2. 0 \in S
  <2>1. Flat(ss, 0) = <<>>
    BY FlatRounds
  <2>2. Flat(ss, 0) \in Seq(T)
    BY <2>1, EmptySeq
  <2> QED BY <1>1, <2>2
<1>3. ASSUME NEW i \in 0..(n - 1), i \in S
      PROVE  i + 1 \in S
  <2>1. i + 1 \in 1..Len(ss) /\ (i + 1) - 1 = i /\ i + 1 \in 0..n
    OBVIOUS
  <2>2. Flat(ss, i + 1) = Flat(ss, i) \o ss[i + 1]
    <3> HIDE DEF S
    <3>1. \A j \in 1..Len(ss) : Flat(ss, j) = Flat(ss, j - 1) \o ss[j]
      BY FlatRounds
    <3> QED BY <2>1, <3>1
  <2>3. ss[i + 1] \in Seq(T)
    BY <2>1
  <2>4. Flat(ss, i) \in Seq(T)
    BY <1>3
  <2>5. Flat(ss, i + 1) \in Seq(T)
    <3> HIDE DEF S
    <3> QED BY <2>2, <2>3, <2>4, ConcatProperties
  <2> QED BY <2>1, <2>5
<1>4. 0..n \subseteq S
  <2> HIDE DEF S
  <2> QED BY <1>1, <1>2, <1>3, Joining!CountUp
<1> QED BY <1>1, <1>4

\* Joining one more sequence, and one more element of the last one.
THEOREM FlattenGrows ==
  ASSUME NEW T, NEW ss \in Seq(Seq(T))
  PROVE  /\ FlattenSeq(<<>>) = <<>>
         /\ FlattenSeq(ss) \in Seq(T)
         /\ \A s \in Seq(T) : FlattenSeq(Append(ss, s)) = FlattenSeq(ss) \o s
         /\ ss # <<>> => \A t \in T :
              FlattenSeq(ReplaceAt(ss, Len(ss), Append(Last(ss), t))) = Append(FlattenSeq(ss), t)
<1> DEFINE L == Len(ss)
<1>1. L \in Nat
  OBVIOUS
<1>2. FlattenSeq(<<>>) = <<>>
  BY DEF FlattenSeq
<1>3. FlattenSeq(ss) \in Seq(T)
  <2>1. Flat(ss, L) \in Seq(T)
    <3>1. L \in 0..Len(ss)
      BY <1>1
    <3> QED BY <3>1, FlatType
  <2> QED BY <2>1, FlatRounds
<1>4. ASSUME NEW s \in Seq(T)
      PROVE  FlattenSeq(Append(ss, s)) = FlattenSeq(ss) \o s
  <2> DEFINE tt == Append(ss, s)
  <2>1. tt \in Seq(Seq(T)) /\ Len(tt) = L + 1 /\ tt[L + 1] = s /\ \A i \in 1..L : ss[i] = tt[i]
    OBVIOUS
  <2> HIDE DEF tt
  <2>2. Flat(tt, L + 1) = Flat(tt, L) \o s
    <3>1. L + 1 \in 1..Len(tt) /\ (L + 1) - 1 = L
      BY <1>1, <2>1
    <3> QED BY <2>1, <3>1, FlatRounds
  <2>3. Flat(ss, L) = Flat(tt, L)
    <3>1. L \in 0..Len(ss) /\ L <= Len(tt)
      BY <1>1, <2>1
    <3> HIDE DEF L
    <3> QED BY <2>1, <3>1, FlatSame
  <2>4. FlattenSeq(tt) = Flat(tt, L + 1) /\ FlattenSeq(ss) = Flat(ss, L)
    BY <2>1, FlatRounds
  <2> QED BY <2>2, <2>3, <2>4 DEF tt
<1>5. ASSUME ss # <<>>, NEW t \in T
      PROVE  FlattenSeq(ReplaceAt(ss, Len(ss), Append(Last(ss), t))) = Append(FlattenSeq(ss), t)
  <2> DEFINE tt == ReplaceAt(ss, L, Append(Last(ss), t))
  <2>0. L \in 1..L /\ ss[L] \in Seq(T) /\ L - 1 \in 0..L
    BY <1>5
  <2>1. /\ tt \in Seq(Seq(T)) /\ Len(tt) = L /\ tt[L] = Append(ss[L], t)
        /\ \A i \in 1..(L - 1) : ss[i] = tt[i]
    BY <2>0 DEF ReplaceAt, Last
  <2> HIDE DEF tt
  <2>2. /\ Flat(tt, L) = Flat(tt, L - 1) \o Append(ss[L], t)
        /\ Flat(ss, L) = Flat(ss, L - 1) \o ss[L]
    BY <2>0, <2>1, FlatRounds
  <2>3. Flat(ss, L - 1) = Flat(tt, L - 1)
    <3>1. L - 1 <= Len(tt) /\ L - 1 \in 0..Len(ss)
      BY <1>1, <2>0, <2>1
    <3> QED BY <2>1, <3>1, FlatSame
  <2>4. FlattenSeq(tt) = Flat(tt, L) /\ FlattenSeq(ss) = Flat(ss, L)
    BY <2>1, FlatRounds
  <2>5. Flat(ss, L - 1) \in Seq(T)
    BY <2>0, FlatType
  <2>6. Flat(ss, L - 1) \o Append(ss[L], t) = Append(Flat(ss, L - 1) \o ss[L], t)
    <3> DEFINE a == Flat(ss, L - 1)
               b == ss[L]
    <3>1. a \in Seq(T) /\ b \in Seq(T) /\ <<t>> \in Seq(T)
      BY <2>0, <2>5
    <3> HIDE DEF a, b
    <3>2. Append(b, t) = b \o <<t>> /\ a \o b \in Seq(T)
      BY <3>1, AppendIsConcat, ConcatProperties
    <3>3. Append(a \o b, t) = (a \o b) \o <<t>>
      BY <3>2, AppendIsConcat
    <3>4. (a \o b) \o <<t>> = a \o (b \o <<t>>)
      BY <3>1, ConcatAssociative
    <3> QED BY <3>2, <3>3, <3>4 DEF a, b
  <2> QED BY <2>2, <2>3, <2>4, <2>6 DEF tt
<1> QED BY <1>2, <1>3, <1>4, <1>5

-----------------------------------------------------------------------------
(* The loop of plan_strips. *)

Tiles == [tx : Nat, ty : Nat]

AddNext(tile, acc) == AddTile(acc, tile)
Adding == INSTANCE Folding WITH Op <- AddNext, Choose <- Max, Numbers <- Nat

NoRuns(maxLen) == [runs |-> <<>>, maxLen |-> maxLen]

\* The accumulator when the first n blocks are added.
Added(seq, maxLen, n) == Adding!Fold(NoRuns(maxLen), seq, 1..n)

\* Each round adds one more block.
LEMMA StripRounds ==
  ASSUME NEW seq \in Seq(Tiles), NEW maxLen
  PROVE  /\ Added(seq, maxLen, 0) = NoRuns(maxLen)
         /\ \A n \in 1..Len(seq) : Added(seq, maxLen, n) = AddTile(Added(seq, maxLen, n - 1), seq[n])
         /\ PlanStrips(seq, maxLen) = Added(seq, maxLen, Len(seq)).runs
<1>1. Len(seq) \in Nat /\ DOMAIN seq = 1..Len(seq)
  OBVIOUS
<1>2. Adding!LastFirst /\ Adding!Chooses(1..Len(seq))
  BY <1>1, LastIsFirst DEF Adding!LastFirst, Adding!Chooses
<1>3. /\ Added(seq, maxLen, 0) = NoRuns(maxLen)
      /\ \A n \in 1..Len(seq) : Added(seq, maxLen, n) = AddNext(seq[n], Added(seq, maxLen, n - 1))
  BY <1>1, <1>2, Adding!FoldOfPrefix DEF Added
<1>4. PlanStrips(seq, maxLen) = Adding!Fold(NoRuns(maxLen), seq, DOMAIN seq).runs
  BY DEF PlanStrips, FoldLeft, MapThenFoldSet, Adding!Fold, Adding!MapThenFoldSet, AddNext, NoRuns
<1> QED BY <1>1, <1>3, <1>4 DEF AddNext, Added

\* A run: consecutive blocks of one tile row, at most maxLen.
Run(run, maxLen) ==
  /\ run \in Seq(Tiles) /\ Len(run) \in 1..maxLen
  /\ \A i \in DOMAIN run : run[i] = TileAt(run[1].tx + i - 1, run[1].ty)

\* The run could not take the block that comes next.
Stops(run, tile, maxLen) ==
  \/ Len(run) = maxLen
  \/ tile # TileAt(run[1].tx + Len(run), run[1].ty)

\* What holds when the first n blocks are in their runs.
Strips(seq, maxLen, n, acc) ==
  /\ acc.maxLen = maxLen
  /\ acc = [runs |-> acc.runs, maxLen |-> maxLen]
  /\ acc.runs \in Seq(Seq(Tiles))
  /\ FlattenSeq(acc.runs) = SubSeq(seq, 1, n)
  /\ \A u \in DOMAIN acc.runs : Run(acc.runs[u], maxLen)
  /\ \A u \in 1..(Len(acc.runs) - 1) : Stops(acc.runs[u], acc.runs[u + 1][1], maxLen)

\* A block that Extends accepts goes on where the run ends, and one it refuses
\* does not.
LEMMA ExtendsIsNext ==
  ASSUME NEW maxLen \in Nat, NEW run, Run(run, maxLen), NEW tile \in Tiles
  PROVE  /\ Extends(run, tile, maxLen) => Run(Append(run, tile), maxLen)
         /\ ~Extends(run, tile, maxLen) => Stops(run, tile, maxLen)
<1> DEFINE k == Len(run)
<1>1. /\ k \in Nat /\ k \in 1..maxLen /\ DOMAIN run = 1..k
      /\ run[1] \in Tiles /\ run \in Seq(Tiles)
      /\ run[k] = TileAt(run[1].tx + k - 1, run[1].ty)
  BY DEF Run
<1>2. run[1].tx \in Nat /\ run[1].ty \in Nat /\ tile.tx \in Nat /\ tile.ty \in Nat
  BY <1>1 DEF Tiles
<1>3. tile = TileAt(tile.tx, tile.ty)
  BY DEF Tiles, TileAt
<1>4. Last(run).tx = run[1].tx + k - 1 /\ Last(run).ty = run[1].ty
  BY <1>1 DEF Last, TileAt
<1>5. ASSUME Extends(run, tile, maxLen)
      PROVE  Run(Append(run, tile), maxLen)
  <2>1. k < maxLen /\ tile = TileAt(run[1].tx + k, run[1].ty)
    BY <1>1, <1>2, <1>3, <1>4, <1>5 DEF Extends
  <2> DEFINE longer == Append(run, tile)
  <2>2. /\ longer \in Seq(Tiles) /\ Len(longer) = k + 1 /\ DOMAIN longer = 1..(k + 1)
        /\ longer[k + 1] = tile /\ \A i \in 1..k : longer[i] = run[i]
    BY <1>1
  <2> HIDE DEF longer, k
  <2>3. longer[1] = run[1]
    BY <1>1, <2>2
  <2>4. ASSUME NEW i \in 1..(k + 1)
        PROVE  longer[i] = TileAt(longer[1].tx + i - 1, longer[1].ty)
    <3>1. CASE i = k + 1
      <4>1. run[1].tx + k = run[1].tx + i - 1
        BY <1>1, <1>2, <3>1
      <4> QED BY <2>1, <2>2, <2>3, <3>1, <4>1
    <3>2. CASE i # k + 1
      <4>1. i \in 1..k
        BY <1>1, <3>2
      <4> QED BY <1>1, <2>2, <2>3, <4>1 DEF Run
    <3> QED BY <3>1, <3>2
  <2>5. k + 1 \in 1..maxLen
    BY <1>1, <2>1
  <2> QED BY <2>2, <2>4, <2>5 DEF Run, longer
<1>6. ASSUME ~Extends(run, tile, maxLen), tile = TileAt(run[1].tx + k, run[1].ty)
      PROVE  k = maxLen
  <2>1. tile.ty = run[1].ty /\ tile.tx = run[1].tx + k
    BY <1>6 DEF TileAt
  <2>2. ~(k < maxLen)
    BY <1>1, <1>2, <1>4, <1>6, <2>1 DEF Extends
  <2> QED BY <1>1, <2>2
<1> QED BY <1>5, <1>6 DEF Stops

\* A round keeps it.
LEMMA RoundStrips ==
  ASSUME NEW seq \in Seq(Tiles), NEW maxLen \in Nat \ {0}, NEW n \in 1..Len(seq),
         NEW acc, Strips(seq, maxLen, n - 1, acc)
  PROVE  Strips(seq, maxLen, n, AddTile(acc, seq[n]))
<1> DEFINE runs == acc.runs
           tile == seq[n]
           K == Len(runs)
           after == AddTile(acc, tile)
<1>1. /\ tile \in Tiles /\ maxLen \in Nat
      /\ runs \in Seq(Seq(Tiles)) /\ K \in Nat /\ DOMAIN runs = 1..K
      /\ acc = [runs |-> runs, maxLen |-> maxLen] /\ acc.maxLen = maxLen
      /\ FlattenSeq(runs) = SubSeq(seq, 1, n - 1)
      /\ \A u \in 1..K : Run(runs[u], maxLen)
      /\ \A u \in 1..(K - 1) : Stops(runs[u], runs[u + 1][1], maxLen)
  BY DEF Strips
<1>2. SubSeq(seq, 1, n) = Append(SubSeq(seq, 1, n - 1), tile)
  BY SubSeqRecursiveSecond
<1>3. CASE runs # <<>> /\ Extends(Last(runs), tile, maxLen)
  <2> DEFINE longer == Append(Last(runs), tile)
             grown == ReplaceAt(runs, Len(runs), longer)
  <2>1. K \in 1..K /\ Last(runs) = runs[K] /\ runs[K] \in Seq(Tiles) /\ Run(runs[K], maxLen)
    <3>1. runs # <<>>
      BY <1>3
    <3>2. K \in 1..K
      BY <1>1, <3>1
    <3>3. Last(runs) = runs[K]
      BY DEF Last
    <3> HIDE DEF K, runs, longer, grown
    <3> QED BY <1>1, <3>2, <3>3
  <2>2. Run(longer, maxLen) /\ longer \in Seq(Tiles) /\ longer[1] = runs[K][1]
    <3>1. Run(longer, maxLen)
      BY <1>1, <1>3, <2>1, ExtendsIsNext
    <3>2. 1 \in 1..Len(runs[K])
      BY <2>1 DEF Run
    <3>3. longer[1] = runs[K][1]
      BY <1>1, <2>1, <3>2
    <3> QED BY <3>1, <3>3 DEF Run
  <2> HIDE DEF longer
  <2>3. /\ grown \in Seq(Seq(Tiles)) /\ Len(grown) = K /\ DOMAIN grown = 1..K
        /\ grown[K] = longer /\ \A u \in 1..(K - 1) : grown[u] = runs[u]
    BY <1>1, <2>1, <2>2 DEF ReplaceAt
  <2>4. FlattenSeq(grown) = SubSeq(seq, 1, n)
    BY <1>1, <1>2, <1>3, FlattenGrows DEF longer
  <2>5. after = [runs |-> grown, maxLen |-> maxLen]
    BY <1>1, <1>3 DEF AddTile, longer
  <2> HIDE DEF grown, after, runs, tile, K
  <2>6. \A u \in DOMAIN grown : Run(grown[u], maxLen)
    <3> TAKE u \in DOMAIN grown
    <3>1. u = K \/ u \in 1..(K - 1)
      BY <1>1, <2>3
    <3> QED BY <1>1, <2>2, <2>3, <3>1
  <2>7. \A u \in 1..(Len(grown) - 1) : Stops(grown[u], grown[u + 1][1], maxLen)
    <3> TAKE u \in 1..(Len(grown) - 1)
    <3>1. u \in 1..(K - 1) /\ grown[u] = runs[u] /\ (u + 1 = K \/ u + 1 \in 1..(K - 1))
      BY <1>1, <2>3
    <3>2. grown[u + 1][1] = runs[u + 1][1]
      BY <2>2, <2>3, <3>1
    <3> QED BY <1>1, <3>1, <3>2
  <2>8. after.runs = grown /\ after.maxLen = maxLen
    BY <2>5
  <2>9. Strips(seq, maxLen, n, after)
    BY <2>3, <2>4, <2>5, <2>6, <2>7, <2>8 DEF Strips
  <2> QED BY <2>9 DEF after, tile
<1>4. CASE ~(runs # <<>> /\ Extends(Last(runs), tile, maxLen))
  <2> DEFINE grown == Append(runs, <<tile>>)
  <2>1. <<tile>> \in Seq(Tiles) /\ Run(<<tile>>, maxLen)
    <3>1. tile.tx \in Nat /\ tile.ty \in Nat /\ tile = TileAt(tile.tx, tile.ty)
      BY <1>1 DEF Tiles, TileAt
    <3>2. tile.tx + 1 - 1 = tile.tx
      BY <3>1
    <3> HIDE DEF tile
    <3>3. \A i \in DOMAIN <<tile>> : i = 1
      OBVIOUS
    <3>4. <<tile>>[1] = tile /\ Len(<<tile>>) = 1 /\ 1 \in 1..maxLen /\ <<tile>> \in Seq(Tiles)
      BY <1>1
    <3> QED BY <3>1, <3>2, <3>3, <3>4 DEF Run
  <2>2. /\ grown \in Seq(Seq(Tiles)) /\ Len(grown) = K + 1 /\ DOMAIN grown = 1..(K + 1)
        /\ grown[K + 1] = <<tile>> /\ \A u \in 1..K : grown[u] = runs[u]
    BY <1>1, <2>1
  <2>3. FlattenSeq(grown) = SubSeq(seq, 1, n)
    <3>1. FlattenSeq(grown) = SubSeq(seq, 1, n - 1) \o <<tile>>
      BY <1>1, <2>1, FlattenGrows
    <3>2. SubSeq(seq, 1, n - 1) \in Seq(Tiles)
      BY <1>1, FlattenGrows
    <3> QED BY <1>1, <1>2, <3>1, <3>2, AppendIsConcat
  <2>4. after = [runs |-> grown, maxLen |-> maxLen]
    BY <1>1, <1>4 DEF AddTile
  <2>a. <<tile>>[1] = tile
    OBVIOUS
  <2> HIDE DEF grown, after, tile, runs, K
  <2>5. \A u \in DOMAIN grown : Run(grown[u], maxLen)
    <3> TAKE u \in DOMAIN grown
    <3>1. u = K + 1 \/ u \in 1..K
      BY <1>1, <2>2
    <3> QED BY <1>1, <2>1, <2>2, <3>1
  <2>6. \A u \in 1..(Len(grown) - 1) : Stops(grown[u], grown[u + 1][1], maxLen)
    <3> TAKE u \in 1..(Len(grown) - 1)
    <3>1. u \in 1..K
      BY <1>1, <2>2
    <3>2. CASE u = K
      <4>1. Last(runs) = runs[K] /\ runs # <<>>
        BY <1>1, <3>1, <3>2 DEF Last, K
      <4>2. Run(runs[K], maxLen) /\ ~Extends(runs[K], tile, maxLen)
        BY <1>1, <1>4, <3>1, <3>2, <4>1
      <4>3. Stops(runs[K], tile, maxLen)
        BY <1>1, <4>2, ExtendsIsNext
      <4> QED BY <2>2, <2>a, <3>1, <3>2, <4>3
    <3>3. CASE u # K
      <4>1. u \in 1..(K - 1) /\ u + 1 \in 1..K
        BY <1>1, <3>1, <3>3
      <4> QED BY <1>1, <2>2, <3>1, <4>1
    <3> QED BY <3>2, <3>3
  <2>7. after.runs = grown /\ after.maxLen = maxLen
    BY <2>4
  <2>8. Strips(seq, maxLen, n, after)
    BY <2>2, <2>3, <2>4, <2>5, <2>6, <2>7 DEF Strips
  <2> QED BY <2>8 DEF after, tile
<1> QED BY <1>3, <1>4

\* What plan_strips returns for any blocks and any cap.
THEOREM StripsOfPlan ==
  ASSUME NEW seq \in Seq(Tiles), NEW maxLen \in Nat \ {0}
  PROVE  /\ FlattenSeq(PlanStrips(seq, maxLen)) = seq
         /\ \A u \in DOMAIN PlanStrips(seq, maxLen) : Run(PlanStrips(seq, maxLen)[u], maxLen)
         /\ \A u \in 1..(Len(PlanStrips(seq, maxLen)) - 1) :
              Stops(PlanStrips(seq, maxLen)[u], PlanStrips(seq, maxLen)[u + 1][1], maxLen)
<1> DEFINE L == Len(seq)
           S == {n \in 0..L : Strips(seq, maxLen, n, Added(seq, maxLen, n))}
<1>1. L \in Nat /\ SubSeq(seq, 1, L) = seq
  BY SubSeqFull
<1>2. 0 \in S
  <2>1. Strips(seq, maxLen, 0, NoRuns(maxLen))
    <3>1. SubSeq(seq, 1, 0) = <<>>
      OBVIOUS
    <3>2. FlattenSeq(<<>>) = <<>>
      BY DEF FlattenSeq
    <3>3. DOMAIN <<>> = {} /\ 1..(Len(<<>>) - 1) = {} /\ <<>> \in Seq(Seq(Tiles))
      OBVIOUS
    <3>4. NoRuns(maxLen).runs = <<>> /\ NoRuns(maxLen).maxLen = maxLen
          /\ NoRuns(maxLen) = [runs |-> NoRuns(maxLen).runs, maxLen |-> maxLen]
      BY DEF NoRuns
    <3> HIDE DEF L, S
    <3> QED BY <3>1, <3>2, <3>3, <3>4 DEF Strips
  <2> QED BY <1>1, <2>1, StripRounds
<1>3. ASSUME NEW n \in 0..(L - 1), n \in S
      PROVE  n + 1 \in S
  <2>1. n + 1 \in 1..L /\ n + 1 \in 0..L /\ (n + 1) - 1 = n
    BY <1>1
  <2>2. Strips(seq, maxLen, n + 1, AddTile(Added(seq, maxLen, n), seq[n + 1]))
    BY <1>3, <2>1, RoundStrips
  <2>3. Added(seq, maxLen, n + 1) = AddTile(Added(seq, maxLen, n), seq[n + 1])
    <3>1. Added(seq, maxLen, n + 1) = AddTile(Added(seq, maxLen, (n + 1) - 1), seq[n + 1])
      <4> HIDE DEF S
      <4> QED BY <2>1, StripRounds
    <3> QED BY <2>1, <3>1
  <2> QED BY <2>1, <2>2, <2>3
<1>4. L \in S
  <2> HIDE DEF S, L
  <2>1. 0..L \subseteq S
    BY <1>1, <1>2, <1>3, Adding!CountUp
  <2> QED BY <1>1, <2>1
<1>5. Strips(seq, maxLen, L, Added(seq, maxLen, L))
  BY <1>4
<1>6. PlanStrips(seq, maxLen) = Added(seq, maxLen, L).runs
  BY StripRounds
<1> HIDE DEF L, S
<1> QED BY <1>1, <1>5, <1>6 DEF Strips

-----------------------------------------------------------------------------
(* The two groupings of a fetch. *)

Typed == tiles \in Seq(Tiles) /\ ranges \in Seq(ByteRanges)

\* The blocks planned and the ranges asked for are of the right kinds.
LEMMA InputsAreTyped == Inputs => []Typed
<1>1. NoInput => Typed
  BY EmptySeq DEF NoInput, Typed
<1>2. Typed /\ [MoreInput]_inputs => Typed'
  <2> SUFFICES ASSUME Typed, [MoreInput]_inputs PROVE Typed'
    OBVIOUS
  <2>1. ASSUME NEW x \in 0..(Cols - 1), NEW y \in 0..(Rows - 1), PlanTile(TileAt(x, y))
        PROVE  Typed'
    <3>1. TileAt(x, y) \in Tiles
      BY PlanningAssumption DEF TileAt, Tiles
    <3> QED BY <2>1, <3>1 DEF PlanTile, Typed
  <2>2. ASSUME NEW lo \in Offsets, NEW hi \in Offsets, lo <= hi, AskRange(ByteRange(lo, hi))
        PROVE  Typed'
    <3>1. ByteRange(lo, hi) \in ByteRanges
      BY <2>2, PlanningAssumption DEF ByteRange, ByteRanges
    <3> QED BY <2>2, <3>1 DEF AskRange, Typed
  <2>3. CASE UNCHANGED inputs
    BY <2>3 DEF inputs, Typed
  <2> QED BY <2>1, <2>2, <2>3 DEF MoreInput
<1> QED BY <1>1, <1>2, PTL DEF Inputs

\* The cap on a strip is positive: div_ceil may give 0, clamp does not.
LEMMA CapIsPositive ==
  ASSUME NEW total \in Nat, NEW n \in IoConcurrencies
  PROVE  StripLength(total, n) \in Nat \ {0}
<1>1. n \in Nat /\ n > 0
  BY PlanningAssumption
<1>2. (total + n - 1) \div n \in Int
  BY <1>1
<1> QED BY <1>2, StripBlocksAssumption DEF StripLength, Clamp, DivCeil

\* Whatever the grid, the blocks skipped and the settings, the strips hold
\* the planned blocks in order.
THEOREM PlanIsKept == Inputs => []StripsKeepThePlan
<1>1. Typed => StripsKeepThePlan
  BY CapIsPositive, StripsOfPlan, LenProperties DEF Typed, StripsKeepThePlan
<1> QED BY <1>1, InputsAreTyped, PTL

\* And each is as long a run of one tile row as the cap lets it be.
THEOREM RunsAreLongest == Inputs => []StripsAreLongestRuns
<1>1. ASSUME Typed, NEW n \in IoConcurrencies
      PROVE  LET maxLen == StripLength(Len(tiles), n)
                 strips == PlanStrips(tiles, maxLen)
             IN /\ \A u \in DOMAIN strips :
                     /\ Len(strips[u]) \in 1..maxLen
                     /\ \A i \in DOMAIN strips[u] :
                          strips[u][i] = TileAt(strips[u][1].tx + i - 1, strips[u][1].ty)
                /\ \A u \in 1..(Len(strips) - 1) :
                     \/ Len(strips[u]) = maxLen
                     \/ strips[u + 1][1] # TileAt(strips[u][1].tx + Len(strips[u]), strips[u][1].ty)
  <2> DEFINE maxLen == StripLength(Len(tiles), n)
             strips == PlanStrips(tiles, maxLen)
  <2>1. tiles \in Seq(Tiles) /\ maxLen \in Nat \ {0}
    BY <1>1, CapIsPositive, LenProperties DEF Typed
  <2> HIDE DEF maxLen
  <2>2. /\ \A u \in DOMAIN strips : Run(strips[u], maxLen)
        /\ \A u \in 1..(Len(strips) - 1) : Stops(strips[u], strips[u + 1][1], maxLen)
    BY <2>1, StripsOfPlan
  <2> HIDE DEF strips
  <2>3. /\ \A u \in DOMAIN strips :
             /\ Len(strips[u]) \in 1..maxLen
             /\ \A i \in DOMAIN strips[u] :
                  strips[u][i] = TileAt(strips[u][1].tx + i - 1, strips[u][1].ty)
        /\ \A u \in 1..(Len(strips) - 1) :
             \/ Len(strips[u]) = maxLen
             \/ strips[u + 1][1] # TileAt(strips[u][1].tx + Len(strips[u]), strips[u][1].ty)
    BY <2>2 DEF Run, Stops
  <2> QED BY <2>3 DEF strips, maxLen
<1>2. Typed => StripsAreLongestRuns
  BY <1>1 DEF StripsAreLongestRuns
<1> QED BY <1>2, InputsAreTyped, PTL

\* Whatever ranges a call asks for, each lies in the request it is placed in.
THEOREM EveryRangeIsPlaced == Inputs => []RangesArePlaced
<1>1. ASSUME Typed, NEW i \in DOMAIN ranges
      PROVE  Inside(Merged, ranges, i)
  BY <1>1, MergePlaces DEF Typed, Merged
<1>2. Typed => RangesArePlaced
  BY <1>1 DEF RangesArePlaced, Inside
<1> QED BY <1>2, InputsAreTyped, PTL

\* And no request is longer, or reads over more, than the settings allow.
THEOREM EveryRequestIsTight == Inputs => []RequestsAreTight
<1>1. ASSUME Typed, NEW k \in DOMAIN Merged.reqs
      PROVE  Tight(Merged.reqs[k], ranges)
  BY <1>1, MergePlaces DEF Typed, Merged
<1>2. Typed => RequestsAreTight
  BY <1>1 DEF RequestsAreTight, Tight
<1> QED BY <1>2, InputsAreTyped, PTL

-----------------------------------------------------------------------------
(* Remainders. *)

\* A remainder is unique.
LEMMA Quotient ==
  ASSUME NEW t \in Nat, t > 0, NEW a \in Int, NEW b \in Int, NEW r \in Int, NEW s \in Int,
         0 <= r, r < t, 0 <= s, s < t, (a * t) + r = (b * t) + s
  PROVE  r = s
<1>1. (a - b) * t = s - r
  BY SMT
<1>2. CASE a - b >= 1
  <2>1. (a - b) * t >= t
    BY <1>2
  <2> QED BY <1>1, <2>1
<1>3. CASE a - b <= -1
  <2>1. (a - b) * t <= -t
    BY <1>3
  <2> QED BY <1>1, <2>1
<1>4. CASE a = b
  BY <1>4
<1> QED BY <1>2, <1>3, <1>4

\* What is left of a multiple and a rest.
LEMMA RemainderOf ==
  ASSUME NEW t \in Nat, t > 0, NEW q \in Int, NEW s \in Int, 0 <= s, s < t
  PROVE  ((q * t) + s) % t = s
<1>. DEFINE y == (q * t) + s
<1>1. y \in Int
  OBVIOUS
<1>2. (y % t) \in Int /\ 0 <= y % t /\ y % t < t
  <2>. HIDE DEF y
  <2> QED BY <1>1
<1>3. (y \div t) \in Int /\ y = ((y \div t) * t) + (y % t)
  <2>. HIDE DEF y
  <2> QED BY <1>1
<1>4. (q * t) + s = ((y \div t) * t) + (y % t)
  BY <1>3
<1>. HIDE DEF y
<1>5. s = y % t
  BY <1>1, <1>2, <1>3, <1>4, Quotient
<1> QED BY <1>5 DEF y

-----------------------------------------------------------------------------
(* Longitudes. *)

\* Any longitude has a copy on the globe.
LEMMA WrapInGlobe ==
  ASSUME NEW x \in Int
  PROVE  WrapLon(x) \in -Half..(Half - 1)
BY GlobeAssumption DEF WrapLon, Turn

\* It differs by whole turns.
LEMMA WrapByTurns ==
  ASSUME NEW x \in Int
  PROVE  \E k \in Int : x = (k * Turn) + WrapLon(x)
<1>. DEFINE y == x + Half
<1>1. y \in Int /\ Turn \in Nat /\ Turn > 0
  BY GlobeAssumption DEF Turn
<1>2. (y \div Turn) \in Int /\ y = ((y \div Turn) * Turn) + (y % Turn)
  <2>. HIDE DEF y
  <2> QED BY <1>1
<1>3. WrapLon(x) = (y % Turn) - Half
  BY DEF WrapLon
<1>. HIDE DEF y
<1>4. x = y - Half
  BY GlobeAssumption DEF y
<1>5. (y % Turn) \in Int
  BY <1>1
<1>6. x = ((y \div Turn) * Turn) + WrapLon(x)
  <2>. DEFINE p == (y \div Turn) * Turn
  <2>1. p \in Int
    BY <1>1, <1>2
  <2>2. y = p + (y % Turn)
    BY <1>2
  <2>. HIDE DEF p
  <2>3. x = p + ((y % Turn) - Half)
    BY <2>1, <2>2, <1>4, <1>5, GlobeAssumption
  <2> QED BY <2>3, <1>3 DEF p
<1> QED BY <1>2, <1>6

\* The copy on the globe of what is on it, whole turns away, is the same.
LEMMA WrapOf ==
  ASSUME NEW k \in Int, NEW v \in -Half..(Half - 1)
  PROVE  WrapLon((k * Turn) + v) = v
<1>. DEFINE p == k * Turn
<1>1. Turn \in Nat /\ Turn > 0 /\ Turn = 2 * Half
  BY GlobeAssumption DEF Turn
<1>2. p \in Int
  BY <1>1
<1>3. v + Half \in Int /\ 0 <= v + Half /\ v + Half < Turn
  BY <1>1, GlobeAssumption
<1>4. (p + (v + Half)) % Turn = v + Half
  BY <1>1, <1>3, RemainderOf
<1>. HIDE DEF p
<1>5. (p + v) + Half = p + (v + Half)
  BY <1>2, GlobeAssumption
<1>6. WrapLon(p + v) = v
  BY <1>4, <1>5, GlobeAssumption DEF WrapLon
<1> QED BY <1>6 DEF p

\* Moving a point moves its copy, as long as that stays on the globe.
LEMMA WrapMoves ==
  ASSUME NEW x \in Int, NEW d \in Int, WrapLon(x) + d \in -Half..(Half - 1)
  PROVE  WrapLon(x + d) = WrapLon(x) + d
<1>1. PICK k \in Int : x = (k * Turn) + WrapLon(x)
  BY WrapByTurns
<1>2. WrapLon(x) \in Int
  BY WrapInGlobe, GlobeAssumption
<1>. DEFINE p == k * Turn
<1>3. p \in Int
  BY GlobeAssumption DEF Turn
<1>4. x = p + WrapLon(x)
  BY <1>1
<1>5. WrapLon(p + (WrapLon(x) + d)) = WrapLon(x) + d
  BY WrapOf
<1>. HIDE DEF p
<1>6. x + d = p + (WrapLon(x) + d)
  BY <1>2, <1>3, <1>4
<1> QED BY <1>5, <1>6

-----------------------------------------------------------------------------
(* Points known to within a margin. *)

\* The open and closed max edges, for a value and one no more than m away.
LEMMA PastMaxMoves ==
  ASSUME NEW v \in Int, NEW m \in Nat, NEW d \in -m..m, NEW hi \in Int, NEW globe \in Int
  PROVE  /\ ~PastMax(v + m, hi, globe) => ~PastMax(v + d, hi, globe)
         /\ PastMax(v - m, hi, globe) => PastMax(v + d, hi, globe)
BY DEF PastMax

\* A point known to within a margin is decided only where every point within
\* the margin, its longitude wrapped, is decided the same way: no answer of
\* Boxes::classify (grid_proj.rs:400-414) differs from the exact test it
\* spares, for any region, boxes split at the antimeridian included.
THEOREM ClassifyIsExact ==
  ASSUME NEW region \in SUBSET Boxes, NEW lon \in Int, NEW lat \in Int, NEW m \in Nat,
         NEW dx \in -m..m, NEW dy \in -m..m
  PROVE  /\ Classify(region, lon, lat, m) = "in" => Holds(region, lon + dx, lat + dy)
         /\ Classify(region, lon, lat, m) = "out" => ~Holds(region, lon + dx, lat + dy)
<1>. DEFINE x == WrapLon(lon)
<1>1. x \in Int /\ x >= -Half
  BY WrapInGlobe, GlobeAssumption
<1>2. CASE x + m >= Half \/ x - m < -Half
  BY <1>2 DEF Classify
<1>3. CASE ~(x + m >= Half \/ x - m < -Half)
  <2>1. x + dx \in -Half..(Half - 1)
    BY <1>1, <1>3, GlobeAssumption
  <2>2. WrapLon(lon + dx) = x + dx
    BY <2>1, WrapMoves
  <2>. HIDE DEF x
  <2>3. \A b \in region : b.w \in Int /\ b.s \in Int /\ b.e \in Int /\ b.n \in Int
    BY DEF Boxes
  <2>4. ASSUME NEW b \in region
        PROVE  /\ ~PastMax(x + m, b.e, Half) => ~PastMax(x + dx, b.e, Half)
               /\ PastMax(x - m, b.e, Half) => PastMax(x + dx, b.e, Half)
               /\ ~PastMax(lat + m, b.n, Pole) => ~PastMax(lat + dy, b.n, Pole)
               /\ PastMax(lat - m, b.n, Pole) => PastMax(lat + dy, b.n, Pole)
    <3>1. Half \in Int /\ Pole \in Int
      BY GlobeAssumption
    <3>2. b.e \in Int /\ b.n \in Int
      BY <2>3
    <3>3. /\ ~PastMax(x + m, b.e, Half) => ~PastMax(x + dx, b.e, Half)
          /\ PastMax(x - m, b.e, Half) => PastMax(x + dx, b.e, Half)
      BY <1>1, <3>1, <3>2, PastMaxMoves
    <3>4. /\ ~PastMax(lat + m, b.n, Pole) => ~PastMax(lat + dy, b.n, Pole)
          /\ PastMax(lat - m, b.n, Pole) => PastMax(lat + dy, b.n, Pole)
      BY <3>1, <3>2, PastMaxMoves
    <3> QED BY <3>3, <3>4
  <2>5. ASSUME NEW b \in region, SurelyIn(x, lat, m, b)
        PROVE  InBbox(x + dx, lat + dy, b)
    <3>1. ~PastMax(x + dx, b.e, Half) /\ ~PastMax(lat + dy, b.n, Pole)
      BY <2>5, <2>4 DEF SurelyIn
    <3>2. x + dx >= b.w /\ lat + dy >= b.s
      BY <1>1, <2>3, <2>5 DEF SurelyIn
    <3> QED BY <3>1, <3>2 DEF InBbox
  <2>6. ASSUME NEW b \in region, SurelyOut(x, lat, m, b)
        PROVE  ~InBbox(x + dx, lat + dy, b)
    <3>1. CASE x + m < b.w \/ lat + m < b.s
      BY <1>1, <2>3, <3>1 DEF InBbox
    <3>2. CASE PastMax(x - m, b.e, Half) \/ PastMax(lat - m, b.n, Pole)
      <4>1. PastMax(x + dx, b.e, Half) \/ PastMax(lat + dy, b.n, Pole)
        BY <3>2, <2>4
      <4> QED BY <4>1 DEF InBbox
    <3> QED BY <2>6, <3>1, <3>2 DEF SurelyOut
  <2>7. Classify(region, lon, lat, m) = "in" => \E b \in region : SurelyIn(x, lat, m, b)
    BY DEF Classify, x
  <2>8. Classify(region, lon, lat, m) = "out" => \A b \in region : SurelyOut(x, lat, m, b)
    BY DEF Classify, x
  <2> QED BY <2>2, <2>5, <2>6, <2>7, <2>8 DEF Holds
<1> QED BY <1>2, <1>3

-----------------------------------------------------------------------------
(* Regions given by a range of longitudes. *)

\* A range of longitudes in any frame, across the antimeridian or not, holds
\* every point between its ends, in whatever frame the point is given
\* (Boxes::of_range, grid_proj.rs:365-377, from which footprints are made).
THEOREM RangeHoldsItsPoints ==
  ASSUME NEW a \in Int, NEW b \in Int, NEW s \in Int, NEW n \in Int,
         NEW x \in Int, NEW y \in Int, a <= x, x < b, s <= y, y < n, -Pole <= y, y <= Pole
  PROVE  Holds(OfRange(a, s, b, n), x, y)
<1>. DEFINE a2 == WrapLon(a)
            d  == x - a
            s2 == Larger(s, -Pole)
            n2 == Smaller(n, Pole)
<1>1. a2 \in -Half..(Half - 1) /\ WrapLon(x) \in -Half..(Half - 1)
  BY WrapInGlobe
<1>2. Half \in Int /\ Pole \in Int /\ Half > 0 /\ Pole > 0 /\ Turn = 2 * Half /\ Turn \in Int
  BY GlobeAssumption DEF Turn
<1>3. s2 \in Int /\ s2 <= y /\ n2 \in Int /\ ~PastMax(y, n2, Pole)
  BY <1>2 DEF Larger, Smaller, PastMax
<1>. HIDE DEF s2, n2
<1>4. CASE b - a >= Turn
  <2>1. OfRange(a, s, b, n) = {Box(-Half, s2, Half, n2)}
    BY <1>4 DEF OfRange, s2, n2
  <2>2. InBbox(WrapLon(x), y, Box(-Half, s2, Half, n2))
    BY <1>1, <1>2, <1>3 DEF InBbox, Box, PastMax
  <2> QED BY <2>1, <2>2 DEF Holds
<1>5. CASE ~(b - a >= Turn) /\ a2 + d < Half
  <2>1. x = a + d /\ d \in Int /\ a2 + d \in -Half..(Half - 1)
    BY <1>1, <1>2, <1>5
  <2>2. WrapLon(x) = a2 + d
    BY <2>1, WrapMoves
  <2>3. a2 <= a2 + d /\ a2 + d < a2 + (b - a)
    BY <1>1, <1>2
  <2>4. CASE a2 + (b - a) <= Half
    <3>1. OfRange(a, s, b, n) = {Box(a2, s2, a2 + (b - a), n2)}
      BY <1>5, <2>4 DEF OfRange, s2, n2
    <3>2. InBbox(a2 + d, y, Box(a2, s2, a2 + (b - a), n2))
      BY <1>1, <1>2, <1>3, <1>5, <2>1, <2>3 DEF InBbox, Box, PastMax
    <3> QED BY <2>2, <3>1, <3>2 DEF Holds
  <2>5. CASE ~(a2 + (b - a) <= Half)
    <3>1. Box(a2, s2, Half, n2) \in OfRange(a, s, b, n)
      BY <1>5, <2>5 DEF OfRange, s2, n2
    <3>2. InBbox(a2 + d, y, Box(a2, s2, Half, n2))
      BY <1>1, <1>2, <1>3, <1>5, <2>1, <2>3 DEF InBbox, Box, PastMax
    <3> QED BY <2>2, <3>1, <3>2 DEF Holds
  <2> QED BY <2>4, <2>5
<1>6. CASE ~(b - a >= Turn) /\ ~(a2 + d < Half)
  <2>1. x = a + d /\ d \in Int /\ d < b - a /\ ~(a2 + (b - a) <= Half)
    BY <1>1, <1>2, <1>6
  <2>2. a2 + d - Turn \in -Half..(Half - 1) /\ a2 + d - Turn < a2 + (b - a) - Turn
    BY <1>1, <1>2, <1>6, <2>1
  <2>3. WrapLon(x) = a2 + d - Turn
    <3>1. PICK k \in Int : a = (k * Turn) + a2
      BY WrapByTurns
    <3>2. x = ((k + 1) * Turn) + (a2 + d - Turn)
      <4>. DEFINE p == k * Turn
      <4>1. (k + 1) * Turn = p + Turn /\ p \in Int
        BY <1>2
      <4>2. a = p + a2
        BY <3>1
      <4>. HIDE DEF p
      <4>3. x = (p + Turn) + (a2 + d - Turn)
        BY <1>1, <1>2, <2>1, <4>1, <4>2
      <4> QED BY <4>1, <4>3
    <3>3. k + 1 \in Int
      OBVIOUS
    <3> QED BY <2>2, <3>2, <3>3, WrapOf
  <2>4. Box(-Half, s2, a2 + (b - a) - Turn, n2) \in OfRange(a, s, b, n)
    <3>1. OfRange(a, s, b, n) = {Box(a2, s2, Half, n2), Box(-Half, s2, a2 + (b - a) - Turn, n2)}
      BY <1>1, <1>2, <1>6, <2>1 DEF OfRange, s2, n2
    <3> QED BY <3>1
  <2>5. InBbox(a2 + d - Turn, y, Box(-Half, s2, a2 + (b - a) - Turn, n2))
    BY <1>1, <1>2, <1>3, <2>1, <2>2 DEF InBbox, Box, PastMax
  <2> QED BY <2>3, <2>4, <2>5 DEF Holds
<1> QED BY <1>4, <1>5, <1>6

-----------------------------------------------------------------------------
(* Owners of blocks. *)

Owns(b, p) == OriginIn({b}, p)

\* A block is owned by a box exactly when its origin is in the half-open box.
LEMMA OwnsExpanded ==
  ASSUME NEW w, NEW s, NEW e, NEW n, NEW p
  PROVE  Owns(Box(w, s, e, n), p) <=> WrapLon(p[1]) >= w /\ WrapLon(p[1]) < e /\ p[2] >= s /\ p[2] < n
BY DEF Owns, OriginIn, Box

\* Cutting a bbox in two, along a meridian or a parallel, hands each of its
\* blocks to exactly one of the two and no other block to either
\* (filter_tiles_by_origin, read.rs:3404-3410): by any number of cuts, a bbox
\* read in chunks is read once.
THEOREM CutsShareBlocks ==
  ASSUME NEW w \in Int, NEW e \in Int, NEW s \in Int, NEW n \in Int, NEW p \in Int \X Int,
         NEW x \in w..e, NEW y \in s..n
  PROVE  /\ Owns(Box(w, s, e, n), p) <=> Owns(Box(w, s, x, n), p) \/ Owns(Box(x, s, e, n), p)
         /\ ~(Owns(Box(w, s, x, n), p) /\ Owns(Box(x, s, e, n), p))
         /\ Owns(Box(w, s, e, n), p) <=> Owns(Box(w, s, e, y), p) \/ Owns(Box(w, y, e, n), p)
         /\ ~(Owns(Box(w, s, e, y), p) /\ Owns(Box(w, y, e, n), p))
<1>1. WrapLon(p[1]) \in Int /\ p[2] \in Int
  BY WrapInGlobe, GlobeAssumption
<1> QED BY <1>1, OwnsExpanded

\* And the globe owns every block but those whose origin is centred on the
\* north pole, at whatever longitude a raster keeps it; so does any partition
\* of it by cuts.
THEOREM GlobeOwnsBlocks ==
  ASSUME NEW p \in Int \X Int, p[2] \in -Pole..Pole
  PROVE  Owns(Box(-Half, -Pole, Half, Pole), p) <=> p[2] # Pole
<1>1. WrapLon(p[1]) \in -Half..(Half - 1)
  BY WrapInGlobe
<1> QED BY <1>1, OwnsExpanded, GlobeAssumption

\* The grids of rasters.
Grids == [x0 : Int, y0 : Int, px : Int, py : Int, w : Int, h : Int, tw : Int, th : Int]

\* Four chunks of the globe read a block at most once between them, and one of
\* them owns it unless its origin is centred on the north pole
\* (filter_tiles_by_origin, read.rs:3404-3410), whatever tiles each is thought
\* to need.
THEOREM QuartersShareNoBlock ==
  ASSUME NEW w \in -Half..Half, NEW s \in -Pole..Pole, NEW r \in Grids, NEW t \in Int \X Int
  PROVE  /\ \A a, b \in Quarters(w, s) : t \in TilesRead(r, a, TRUE) /\ t \in TilesRead(r, b, TRUE) => a = b
         /\ OriginOf(r, t)[2] \in -Pole..(Pole - 1) => \E a \in Quarters(w, s) : OriginIn(a, OriginOf(r, t))
<1> DEFINE p == OriginOf(r, t)
           x == WrapLon(p[1])
<1>1. p \in Int \X Int
  <2>1. \A m, n \in Int : m * n \in Int /\ m \div 2 \in Int
    OBVIOUS
  <2>2. r.x0 \in Int /\ r.y0 \in Int /\ r.px \in Int /\ r.py \in Int /\ r.tw \in Int /\ r.th \in Int
    BY DEF Grids
  <2>3. t[1] * r.tw \in Int /\ t[2] * r.th \in Int
    BY <2>1, <2>2
  <2>4. (t[1] * r.tw) * r.px \in Int /\ (t[2] * r.th) * r.py \in Int /\ r.px \div 2 \in Int /\ r.py \div 2 \in Int
    BY <2>1, <2>2, <2>3
  <2>5. p = <<r.x0 + (t[1] * r.tw) * r.px + r.px \div 2, r.y0 - (t[2] * r.th) * r.py - r.py \div 2>>
    BY DEF OriginOf, CentreOf
  <2> HIDE DEF p
  <2>6. p[1] \in Int /\ p[2] \in Int /\ p = <<p[1], p[2]>>
    BY <2>2, <2>4, <2>5
  <2> QED BY <2>6
<1>2. x \in -Half..(Half - 1) /\ Half \in Int /\ Pole \in Int /\ p[2] \in Int
  BY <1>1, WrapInGlobe, GlobeAssumption
<1> HIDE DEF p, x
<1>3. \A a \in Quarters(w, s) : a # {}
  BY DEF Quarters
<1>4. ASSUME NEW a \in Quarters(w, s), t \in TilesRead(r, a, TRUE)
      PROVE  OriginIn(a, p)
  BY <1>3, <1>4 DEF TilesRead, FilterTilesByOrigin, p
<1> DEFINE sw == {Box(-Half, -Pole, w, s)}
           se == {Box(w, -Pole, Half, s)}
           nw == {Box(-Half, s, w, Pole)}
           ne == {Box(w, s, Half, Pole)}
<1>5. /\ OriginIn(sw, p) <=> x < w /\ -Pole <= p[2] /\ p[2] < s
      /\ OriginIn(se, p) <=> x >= w /\ -Pole <= p[2] /\ p[2] < s
      /\ OriginIn(nw, p) <=> x < w /\ s <= p[2] /\ p[2] < Pole
      /\ OriginIn(ne, p) <=> x >= w /\ s <= p[2] /\ p[2] < Pole
  BY <1>2, OwnsExpanded DEF Owns, x
<1>6. Quarters(w, s) = {sw, se, nw, ne}
  BY DEF Quarters
<1> HIDE DEF sw, se, nw, ne
<1>7. \A a, b \in Quarters(w, s) : OriginIn(a, p) /\ OriginIn(b, p) => a = b
  <2>1. x \in Int /\ p[2] \in Int /\ w \in Int /\ s \in Int
    BY <1>2
  <2>2. /\ OriginIn(sw, p) => ~OriginIn(se, p) /\ ~OriginIn(nw, p) /\ ~OriginIn(ne, p)
        /\ OriginIn(se, p) => ~OriginIn(nw, p) /\ ~OriginIn(ne, p)
        /\ OriginIn(nw, p) => ~OriginIn(ne, p)
    BY <1>5, <2>1
  <2> QED BY <1>6, <2>2
<1>8. p[2] \in -Pole..(Pole - 1) => \E a \in Quarters(w, s) : OriginIn(a, p)
  BY <1>2, <1>5, <1>6
<1> QED BY <1>4, <1>7, <1>8 DEF p

-----------------------------------------------------------------------------
(* Levels. *)

\* The least of some naturals.
LEMMA MinThere ==
  ASSUME NEW S \in SUBSET Nat, S # {}
  PROVE  Min(S) \in S /\ \A y \in S : Min(S) <= y
<1>1. \E m \in S : \A y \in S : m <= y
  BY Adding!LeastNatural
<1> QED BY <1>1 DEF Min

\* Some level is coarsest, if there is one at all.
LEMMA CoarsestThere ==
  ASSUME NEW s, NEW S, IsFiniteSet(S), S # {}, \A i \in S : GroundPixel(s, i) \in Int
  PROVE  Coarsest(s, S) # {}
<1> DEFINE Above(i) == {j \in S : GroundPixel(s, i) < GroundPixel(s, j)}
           F == {Above(i) : i \in S}
<1>1. \A m \in F : IsFiniteSet(m)
  BY FS_Subset
<1>2. PICK m \in F : \A t \in F : Cardinality(m) <= Cardinality(t)
  <2>1. \A m \in F : Adding!IsFiniteSet(m)
    BY <1>1 DEF IsFiniteSet, Adding!IsFiniteSet
  <2>2. \E m \in F : \A t \in F : Adding!Cardinality(m) <= Adding!Cardinality(t)
    <3>1. F # {}
      OBVIOUS
    <3> HIDE DEF F
    <3> QED BY <2>1, <3>1, Adding!SmallestSet
  <2> QED BY <2>2 DEF Cardinality, Adding!Cardinality
<1>3. PICK i \in S : m = Above(i)
  OBVIOUS
<1>4. Above(i) = {}
  <2>1. SUFFICES ASSUME NEW j \in Above(i) PROVE FALSE
    OBVIOUS
  <2>2. Above(j) \in SUBSET Above(i) /\ j \notin Above(j) /\ j \in S
    OBVIOUS
  <2>3. IsFiniteSet(Above(i)) /\ Above(j) # Above(i)
    BY <1>1, <2>2
  <2>4. Above(i) \in F /\ Above(j) \in F
    BY <2>2
  <2> HIDE DEF Above, F
  <2>5. /\ Cardinality(Above(j)) < Cardinality(Above(i))
        /\ Cardinality(Above(j)) \in Nat /\ Cardinality(Above(i)) \in Nat
    BY <2>2, <2>3, ProperPart
  <2> QED BY <1>2, <1>3, <2>4, <2>5
<1> QED BY <1>4 DEF Coarsest

\* The images of a source have positive factors, and a level's is at least one.
LEMMA LevelShape ==
  ASSUME NEW s \in OpenedSources
  PROVE  /\ Len(s.images) \in Nat \ {0} /\ DOMAIN s.images = 1..Len(s.images)
         /\ \A i \in DOMAIN s.images : s.images[i] \in Images
         /\ \A i \in DOMAIN s.images :
              FactorX(s, i) \in Nat /\ FactorY(s, i) \in Nat /\ GroundPixel(s, i) \in Nat
         /\ OverviewLevels(s) \subseteq DOMAIN s.images /\ 1 \notin OverviewLevels(s)
         /\ IsFiniteSet(OverviewLevels(s))
         /\ \A i \in OverviewLevels(s) : GroundPixel(s, i) > 0
<1>1. /\ Len(s.images) \in Nat \ {0} /\ DOMAIN s.images = 1..Len(s.images)
      /\ \A i \in DOMAIN s.images : s.images[i] \in Images
      /\ s.ground \in Nat \ {0}
  BY DEF OpenedSources
<1>2. \A f \in Nat, n \in Nat \ {0} : Factor(f, n) \in Nat /\ (n < f => Factor(f, n) > 0)
  <2> TAKE f \in Nat, n \in Nat \ {0}
  <2> DEFINE q == (1000 * f) \div n
  <2>1. q \in Nat /\ 1000 * f < n * (q + 1)
    OBVIOUS
  <2>2. Factor(f, n) = q
    BY DEF Factor
  <2> HIDE DEF q
  <2>3. n < f => q # 0
    BY <2>1
  <2> QED BY <2>1, <2>2, <2>3
<1>3. \A a, b \in Nat : a * b \in Nat /\ (a > 0 /\ b > 0 => a * b > 0)
  OBVIOUS
<1>4. ASSUME NEW i \in DOMAIN s.images
      PROVE  /\ FactorX(s, i) \in Nat /\ FactorY(s, i) \in Nat /\ GroundPixel(s, i) \in Nat
             /\ s.images[i].w < s.images[1].w => GroundPixel(s, i) > 0
  <2>1. /\ s.images[1].w \in Nat \ {0} /\ s.images[1].h \in Nat \ {0}
        /\ s.images[i].w \in Nat \ {0} /\ s.images[i].h \in Nat \ {0}
    <3>1. \A im \in Images : im.w \in Nat \ {0} /\ im.h \in Nat \ {0}
      BY DEF Images
    <3>2. 1 \in DOMAIN s.images
      BY <1>1
    <3>3. s.images[1] \in Images /\ s.images[i] \in Images
      BY <1>1, <3>2
    <3> QED BY <3>1, <3>3
  <2>2. /\ FactorX(s, i) \in Nat /\ FactorY(s, i) \in Nat
        /\ s.images[i].w < s.images[1].w => FactorX(s, i) > 0
    BY <1>2, <2>1 DEF FactorX, FactorY
  <2> DEFINE x == s.ground * FactorX(s, i)
             y == s.ground * FactorY(s, i)
  <2>3. /\ x \in Nat /\ y \in Nat
        /\ s.images[i].w < s.images[1].w => x > 0
    BY <1>1, <1>3, <2>2
  <2>4. GroundPixel(s, i) = IF x > y THEN x ELSE y
    BY DEF GroundPixel
  <2> HIDE DEF x, y
  <2> QED BY <2>2, <2>3, <2>4
<1>5. /\ OverviewLevels(s) \subseteq DOMAIN s.images /\ 1 \notin OverviewLevels(s)
      /\ \A i \in OverviewLevels(s) : s.images[i].w < s.images[1].w
  BY <1>1 DEF OverviewLevels, Qualifies
<1>6. IsFiniteSet(OverviewLevels(s))
  <2>1. IsFiniteSet(1..Len(s.images))
    BY <1>1, FS_Interval
  <2> QED BY <1>1, <1>5, <2>1, FS_Subset
<1> QED BY <1>1, <1>4, <1>5, <1>6

\* A level is as close to itself as any tolerance asks.
LEMMA CloseToItself ==
  ASSUME NEW a \in Nat
  PROVE  Close(a, a)
<1>1. FactorTol * a \in Nat
  BY SelectionAssumption
<1>2. 1000 * (a - a) = 0
  OBVIOUS
<1> QED BY <1>1, <1>2 DEF Close

\* The files of a list are all of one file's images and pixels.
Copies(sources) ==
  \A i \in DOMAIN sources :
    sources[i].images = sources[1].images /\ sources[i].ground = sources[1].ground

\* Pooled sources share a decimation, or are all read at full resolution;
\* copies of one file are read as that file alone would be.
THEOREM LevelsInCommon ==
  ASSUME NEW sources \in Seq(OpenedSources) \ {<<>>}, NEW target \in Nat
  PROVE  LET l == CommonOverviewLevels(sources, target)
         IN /\ DOMAIN l = DOMAIN sources
            /\ \/ \A i \in DOMAIN sources : l[i] = 1
               \/ \A i \in DOMAIN sources :
                    /\ l[i] \in OverviewLevels(sources[i])
                    /\ Matches(sources[1], l[1], sources[i], l[i])
                    /\ Fits(sources[i], l[i], target)
            /\ Copies(sources) => l[1] = SelectOverviewLevel(sources[1], target)
<1> DEFINE l == CommonOverviewLevels(sources, target)
           first == sources[1]
           With(i, j) == Partners(first, i, sources[j], target)
           shared == {i \in OverviewLevels(first) :
                        /\ Fits(first, i, target)
                        /\ \A j \in 2..Len(sources) : With(i, j) # {}}
           chosen == Min(Coarsest(first, shared))
           fit == {i \in OverviewLevels(first) : Fits(first, i, target)}
<1>1. /\ Len(sources) \in Nat \ {0} /\ DOMAIN sources = 1..Len(sources)
      /\ \A j \in DOMAIN sources : sources[j] \in OpenedSources
  OBVIOUS
<1>2. first \in OpenedSources
  BY <1>1
<1>3. l = IF target = 0 \/ shared = {} THEN [j \in DOMAIN sources |-> 1]
          ELSE [j \in DOMAIN sources |-> IF j = 1 THEN chosen ELSE Min(With(chosen, j))]
  BY DEF CommonOverviewLevels
<1>4. SelectOverviewLevel(first, target) = IF fit = {} THEN 1 ELSE Min(Coarsest(first, fit))
  BY DEF SelectOverviewLevel
<1>5. \A i \in OverviewLevels(first) : Matches(first, i, first, i)
  BY <1>2, LevelShape, CloseToItself DEF Matches
<1>6. target = 0 => fit = {}
  <2>1. ASSUME NEW i \in OverviewLevels(first), Fits(first, i, 0) PROVE FALSE
    <3>1. GroundPixel(first, i) \in Nat \ {0}
      BY <1>2, LevelShape
    <3>2. Oversample * GroundPixel(first, i) > 0
      BY <3>1, SelectionAssumption
    <3> QED BY <2>1, <3>1, <3>2, SelectionAssumption DEF Fits
  <2> QED BY <2>1
<1>7. ASSUME Copies(sources), NEW i \in OverviewLevels(first), Fits(first, i, target),
             NEW j \in 2..Len(sources)
      PROVE  i \in With(i, j)
  <2>1. sources[j].images = first.images /\ sources[j].ground = first.ground
    BY <1>1, <1>7 DEF Copies
  <2>2. i \in OverviewLevels(sources[j])
    BY <2>1 DEF OverviewLevels, Qualifies
  <2>3. Matches(first, i, sources[j], i)
    BY <1>5, <2>1 DEF Matches, FactorX, FactorY
  <2>4. Fits(sources[j], i, target)
    BY <1>7, <2>1 DEF Fits, GroundPixel, FactorX, FactorY
  <2> QED BY <2>2, <2>3, <2>4 DEF Partners
<1>8. Copies(sources) => shared = fit
  BY <1>7
<1>9. Copies(sources) => l[1] = SelectOverviewLevel(first, target)
  <2> SUFFICES ASSUME Copies(sources) PROVE l[1] = SelectOverviewLevel(first, target)
    OBVIOUS
  <2>1. shared = fit /\ 1 \in DOMAIN sources
    BY <1>1, <1>8
  <2> HIDE DEF shared, fit, l
  <2> QED BY <1>3, <1>4, <1>6, <2>1
<1>10. CASE target = 0 \/ shared = {}
  <2>1. l = [j \in DOMAIN sources |-> 1]
    BY <1>3, <1>10
  <2> HIDE DEF l
  <2> QED BY <1>9, <2>1 DEF l
<1>11. CASE ~(target = 0 \/ shared = {})
  <2>1. chosen \in shared
    <3>1. IsFiniteSet(shared) /\ \A i \in shared : GroundPixel(first, i) \in Int
      <4>1. IsFiniteSet(OverviewLevels(first)) /\ shared \subseteq OverviewLevels(first)
        BY <1>2, LevelShape
      <4>2. \A i \in OverviewLevels(first) : GroundPixel(first, i) \in Int
        BY <1>2, LevelShape
      <4> HIDE DEF shared
      <4> QED BY <4>1, <4>2, FS_Subset
    <3>2. shared \subseteq Nat
      BY <1>2, LevelShape
    <3> HIDE DEF shared
    <3>3. Coarsest(first, shared) # {}
      BY <1>11, <3>1, CoarsestThere
    <3>4. Coarsest(first, shared) \subseteq shared
      BY DEF Coarsest
    <3> QED BY <3>2, <3>3, <3>4, MinThere
  <2>2. ASSUME NEW j \in 2..Len(sources)
        PROVE  Min(With(chosen, j)) \in With(chosen, j)
    <3>1. With(chosen, j) # {}
      BY <2>1
    <3>2. sources[j] \in OpenedSources
      BY <1>1
    <3>3. With(chosen, j) \subseteq Nat
      BY <3>2, LevelShape DEF Partners
    <3> HIDE DEF With, chosen
    <3> QED BY <3>1, <3>3, MinThere
  <2>3. l = [j \in DOMAIN sources |-> IF j = 1 THEN chosen ELSE Min(With(chosen, j))]
    BY <1>3, <1>11
  <2>4. chosen \in OverviewLevels(first) /\ Fits(first, chosen, target)
    BY <2>1
  <2>5. Matches(first, chosen, first, chosen)
    BY <1>5, <2>4
  <2> HIDE DEF l, chosen, shared, With
  <2>6. DOMAIN l = DOMAIN sources /\ l[1] = chosen
    BY <1>1, <2>3
  <2>7. ASSUME NEW i \in DOMAIN sources
        PROVE  /\ l[i] \in OverviewLevels(sources[i])
               /\ Matches(first, l[1], sources[i], l[i])
               /\ Fits(sources[i], l[i], target)
    <3>1. CASE i = 1
      BY <2>4, <2>5, <2>6, <3>1
    <3>2. CASE i # 1
      <4>1. i \in 2..Len(sources)
        BY <1>1, <3>2
      <4>2. l[i] \in With(chosen, i)
        BY <2>2, <2>3, <3>2, <4>1
      <4> QED BY <2>6, <4>2 DEF With, Partners
    <3> QED BY <3>1, <3>2
  <2> QED BY <1>9, <2>6, <2>7 DEF l
<1> QED BY <1>10, <1>11


-----------------------------------------------------------------------------
(* Bands. *)

\* Numbers listed from the least on: each once.
LEMMA AscendingOrder ==
  ASSUME NEW S \in SUBSET Int, IsFiniteSet(S)
  PROVE  /\ Ascending(S) \in Seq(S) /\ Len(Ascending(S)) = Cardinality(S)
         /\ \A x \in S : \E n \in DOMAIN Ascending(S) : Ascending(S)[n] = x
         /\ \A m, n \in DOMAIN Ascending(S) : Ascending(S)[m] = Ascending(S)[n] => m = n
<1> DEFINE before == {p \in S \X S : p[1] < p[2]}
           L == Cardinality(S)
           s == Ranked(S, before)
<1>1. LinesUp(S, before)
  BY DEF LinesUp
<1>2. Ascending(S) = s
  BY DEF Ascending
<1> HIDE DEF before
<1>3. /\ L \in Nat /\ DOMAIN s = 1..L
      /\ \A n \in 1..L : s[n] \in S
      /\ \A x \in S : \E n \in 1..L : s[n] = x
      /\ \A m, n \in 1..L : m < n => <<s[m], s[n]>> \in before
  BY <1>1, RankedInOrder
<1>4. s \in Seq(S) /\ Len(s) = L
  <2>1. s = [n \in 1..L |-> s[n]]
    BY <1>3 DEF Ranked
  <2> HIDE DEF s, L
  <2> QED BY <1>3, <2>1
<1>5. \A m, n \in 1..L : m < n => s[m] < s[n]
  BY <1>3 DEF before
<1>6. \A m, n \in 1..L : s[m] = s[n] => m = n
  <2> SUFFICES ASSUME NEW m \in 1..L, NEW n \in 1..L, s[m] = s[n], m # n PROVE FALSE
    OBVIOUS
  <2>1. m < n \/ n < m
    BY <1>3
  <2>2. s[m] < s[n] \/ s[n] < s[m]
    BY <1>5, <2>1
  <2>3. s[m] \in Int /\ s[n] \in Int
    BY <1>3
  <2> HIDE DEF s
  <2> QED BY <2>2, <2>3
<1> HIDE DEF s, L
<1> QED BY <1>2, <1>3, <1>4, <1>6 DEF L

\* A source's bands have names.
LEMMA BandNames == \A s \in OpenedSources : s.bands \in Seq(STRING)
BY DEF OpenedSources

\* The combined list of bands names a source and a band of it at each place.
LEMMA CombinedShape ==
  ASSUME NEW sources \in Seq(OpenedSources)
  PROVE  Combined(sources) \in Seq((DOMAIN sources) \X Int)
<1> DEFINE T  == (DOMAIN sources) \X Int
           ss == [s \in DOMAIN sources |-> [b \in DOMAIN sources[s].bands |-> <<s, b>>]]
<1>1. DOMAIN sources = 1..Len(sources) /\ Len(sources) \in Nat
  OBVIOUS
<1>2. ASSUME NEW s \in DOMAIN sources
      PROVE  [b \in DOMAIN sources[s].bands |-> <<s, b>>] \in Seq(T)
  <2>1. sources[s].bands \in Seq(STRING)
    BY BandNames
  <2>2. DOMAIN sources[s].bands = 1..Len(sources[s].bands) /\ Len(sources[s].bands) \in Nat
    BY <2>1
  <2>3. \A b \in 1..Len(sources[s].bands) : <<s, b>> \in T
    OBVIOUS
  <2> HIDE DEF T
  <2> QED BY <2>2, <2>3
<1>3. ss \in Seq(Seq(T))
  <2> HIDE DEF T
  <2> QED BY <1>1, <1>2
<1>4. FlattenSeq(ss) \in Seq(T)
  <2> HIDE DEF ss, T
  <2> QED BY <1>3, FlattenGrows
<1> QED BY <1>4 DEF Combined

\* A selection resolves to places of the list it is made from.
LEMMA ResolvedShape ==
  ASSUME NEW T, NEW all \in Seq(T), NEW sel \in BandChoices, Offered(all, sel)
  PROVE  /\ Resolved(all, sel) \in Seq(DOMAIN all)
         /\ sel.names # <<>> => /\ DOMAIN Resolved(all, sel) = DOMAIN sel.names
                               /\ \A k \in DOMAIN sel.names : all[Resolved(all, sel)[k]] = sel.names[k]
<1>1. /\ sel.idx \in Seq(Int) /\ sel.names \in Seq(Seq(STRING)) /\ (sel.idx = <<>> \/ sel.names = <<>>)
      /\ DOMAIN all = 1..Len(all) /\ Len(all) \in Nat
  BY DEF BandChoices
<1>2. CASE sel.idx # <<>>
  <2> DEFINE idx == sel.idx
             places == DOMAIN all
  <2>1. /\ \A k \in DOMAIN idx : idx[k] \in places
        /\ idx \in Seq(Int)
    BY <1>1, <1>2 DEF Offered, Range
  <2> HIDE DEF idx, places
  <2>2. idx \in Seq(places)
    BY <2>1
  <2> QED BY <1>1, <1>2, <2>2 DEF Resolved, idx, places
<1>3. CASE sel.idx = <<>> /\ sel.names # <<>>
  <2> DEFINE first == [k \in DOMAIN sel.names |-> Min(Places(all, sel.names[k]))]
  <2>1. ASSUME NEW k \in DOMAIN sel.names
        PROVE  first[k] \in DOMAIN all /\ all[first[k]] = sel.names[k]
    <3>1. Places(all, sel.names[k]) # {} /\ Places(all, sel.names[k]) \subseteq DOMAIN all
      BY <1>3 DEF Offered, Places
    <3>2. Places(all, sel.names[k]) \in SUBSET Nat
      BY <1>1, <3>1
    <3>3. first[k] \in Places(all, sel.names[k])
      BY <3>1, <3>2, MinThere
    <3> QED BY <3>3 DEF Places
  <2>2. first \in [1..Len(sel.names) -> DOMAIN all] /\ Len(sel.names) \in Nat
    <3>1. DOMAIN sel.names = 1..Len(sel.names) /\ Len(sel.names) \in Nat
      BY <1>1
    <3>2. first \in [DOMAIN sel.names -> DOMAIN all]
      BY <2>1
    <3> QED BY <3>1, <3>2
  <2>3. DOMAIN first = DOMAIN sel.names
    OBVIOUS
  <2>4. Resolved(all, sel) = first
    BY <1>3 DEF Resolved
  <2> HIDE DEF first
  <2>5. first \in Seq(DOMAIN all)
    BY <2>2
  <2> QED BY <2>1, <2>3, <2>4, <2>5
<1>4. CASE sel.idx = <<>> /\ sel.names = <<>>
  <2>1. [k \in DOMAIN all |-> k] \in Seq(DOMAIN all)
    OBVIOUS
  <2> QED BY <1>4, <2>1 DEF Resolved
<1> QED BY <1>2, <1>3, <1>4

\* Bands selected by name are named as asked.
LEMMA NamesAsAsked ==
  ASSUME NEW T, NEW all \in Seq(T), NEW sel \in BandChoices, Offered(all, sel), sel.names # <<>>
  PROVE  [k \in DOMAIN Resolved(all, sel) |-> all[Resolved(all, sel)[k]]] = sel.names
<1>1. sel.names \in Seq(Seq(STRING))
  BY DEF BandChoices
<1>2. sel.names = [k \in DOMAIN sel.names |-> sel.names[k]]
  BY <1>1
<1> QED BY <1>2, ResolvedShape

\* The band a plan puts at place k of source i goes by the name of its column.
NamedFor(p, sources, separate, i, k) ==
  p.names[p.slots[i][k]] =
    IF separate THEN CombinedName(sources, <<i, p.selected[i][k]>>)
    ELSE <<sources[i].bands[p.selected[i][k]]>>

\* A plan of bands has a column for each selected band.
PlanShape(p, sources) ==
  /\ Len(p.names) \in Nat /\ DOMAIN p.names = 1..Len(p.names)
  /\ \A i \in DOMAIN sources :
       /\ p.selected[i] \in Seq(Int) /\ p.slots[i] \in Seq(DOMAIN p.names)
       /\ Len(p.slots[i]) = Len(p.selected[i]) /\ Len(p.slots[i]) <= Len(p.names)

\* Pooled, every source reads the columns in their order.
LEMMA PooledBands ==
  ASSUME NEW sources \in Seq(OpenedSources) \ {<<>>}, NEW sel \in BandChoices,
         PooledPlan(sources, sel).ok
  PROVE  LET p == PooledPlan(sources, sel)
         IN /\ PlanShape(p, sources)
            /\ \A i \in DOMAIN sources : \A k \in DOMAIN p.slots[i] : NamedFor(p, sources, FALSE, i, k)
            /\ \A i \in DOMAIN sources : p.slots[i] = [k \in 1..Len(p.names) |-> k]
            /\ sel.names # <<>> => p.names = sel.names
<1> DEFINE own == sources[1].bands
           all == [k \in DOMAIN own |-> <<own[k]>>]
           use == Resolved(all, sel)
           p   == PooledPlan(sources, sel)
<1>1. ~(\E s \in DOMAIN sources : sources[s].bands # own) /\ Offered(all, sel)
  BY DEF PooledPlan, Failure
<1>2. /\ p.selected = [s \in DOMAIN sources |-> use]
      /\ p.slots = [s \in DOMAIN sources |-> [k \in DOMAIN use |-> k]]
      /\ p.names = [k \in DOMAIN use |-> all[use[k]]]
  BY <1>1 DEF PooledPlan
<1>3. own \in Seq(STRING)
  <2>1. sources[1] \in OpenedSources
    OBVIOUS
  <2> QED BY <2>1, BandNames
<1>a. all \in Seq(Seq(STRING))
  <2>1. own \in [1..Len(own) -> STRING] /\ Len(own) \in Nat
    BY <1>3
  <2>2. \A k \in 1..Len(own) : <<own[k]>> \in Seq(STRING)
    BY <2>1
  <2>3. all \in [1..Len(own) -> Seq(STRING)]
    BY <2>1, <2>2
  <2> HIDE DEF all, own
  <2> QED BY <2>1, <2>3
<1>n. \A k \in DOMAIN all : all[k] = <<own[k]>>
  OBVIOUS
<1>4. use \in Seq(DOMAIN all)
  <2> HIDE DEF all
  <2> QED BY <1>1, <1>a, ResolvedShape
<1>q. sel.names # <<>> => p.names = sel.names
  <2> HIDE DEF all, p
  <2> QED BY <1>1, <1>2, <1>a, NamesAsAsked
<1> HIDE DEF p, use
<1> HIDE DEF all
<1>5. /\ Len(use) \in Nat /\ DOMAIN use = 1..Len(use) /\ \A k \in DOMAIN use : use[k] \in DOMAIN all
      /\ DOMAIN all \subseteq Int
  BY <1>a, <1>4
<1> HIDE DEF own
<1>6. Len(p.names) = Len(use) /\ DOMAIN p.names = 1..Len(use)
  BY <1>2, <1>5
<1>7. ASSUME NEW i \in DOMAIN sources
      PROVE  /\ p.selected[i] \in Seq(Int) /\ p.slots[i] \in Seq(DOMAIN p.names)
             /\ Len(p.slots[i]) = Len(use) /\ Len(p.selected[i]) = Len(use)
             /\ p.slots[i] = [k \in 1..Len(use) |-> k]
  <2>1. p.selected[i] = use /\ p.slots[i] = [k \in 1..Len(use) |-> k]
    BY <1>2, <1>5
  <2> QED BY <1>4, <1>5, <1>6, <2>1
<1>8. ASSUME NEW i \in DOMAIN sources, NEW k \in DOMAIN p.slots[i]
      PROVE  NamedFor(p, sources, FALSE, i, k)
  <2>1. k \in DOMAIN use /\ p.slots[i][k] = k /\ p.selected[i] = use
    BY <1>2, <1>5, <1>7
  <2>2. sources[i].bands = own
    BY <1>1
  <2>3. p.names[k] = <<own[use[k]]>>
    BY <1>2, <1>5, <1>n, <2>1
  <2> QED BY <2>1, <2>2, <2>3 DEF NamedFor
<1>9. PlanShape(p, sources)
  <2>1. Len(p.names) \in Nat /\ DOMAIN p.names = 1..Len(p.names)
    BY <1>5, <1>6
  <2>2. ASSUME NEW i \in DOMAIN sources
        PROVE  /\ p.selected[i] \in Seq(Int) /\ p.slots[i] \in Seq(DOMAIN p.names)
               /\ Len(p.slots[i]) = Len(p.selected[i]) /\ Len(p.slots[i]) <= Len(p.names)
    <3>1. /\ p.selected[i] \in Seq(Int) /\ p.slots[i] \in Seq(DOMAIN p.names)
          /\ Len(p.slots[i]) = Len(use) /\ Len(p.selected[i]) = Len(use)
      BY <1>7
    <3>2. Len(use) <= Len(p.names)
      BY <1>5, <1>6
    <3> QED BY <3>1, <3>2
  <2> QED BY <2>1, <2>2 DEF PlanShape
<1>10. \A i \in DOMAIN sources : p.slots[i] = [k \in 1..Len(p.names) |-> k]
  BY <1>6, <1>7
<1> QED BY <1>8, <1>9, <1>10, <1>q DEF p

\* Side by side, every column is one band of one source.
LEMMA SeparateBands ==
  ASSUME NEW sources \in Seq(OpenedSources) \ {<<>>}, NEW sel \in BandChoices,
         SeparatePlan(sources, sel).ok
  PROVE  LET p == SeparatePlan(sources, sel)
         IN /\ PlanShape(p, sources)
            /\ \A i \in DOMAIN sources : \A k \in DOMAIN p.slots[i] : NamedFor(p, sources, TRUE, i, k)
            /\ \A c \in DOMAIN p.names :
                 \E i \in DOMAIN sources : \E k \in DOMAIN p.slots[i] : p.slots[i][k] = c
            /\ \A i, j \in DOMAIN sources : \A k \in DOMAIN p.slots[i], m \in DOMAIN p.slots[j] :
                 p.slots[i][k] = p.slots[j][m] => i = j /\ k = m
            /\ sel.names # <<>> => p.names = sel.names
<1> DEFINE all   == Combined(sources)
           named == [k \in DOMAIN all |-> CombinedName(sources, all[k])]
           use   == Resolved(named, sel)
           p     == SeparatePlan(sources, sel)
           Mine(s) == {k \in DOMAIN use : all[use[k]][1] = s}
           Out(s) == Ascending(Mine(s))
<1>1. IsInjective(named) /\ Offered(named, sel)
  BY DEF SeparatePlan, Failure
<1>2. /\ p.selected = [s \in DOMAIN sources |-> [k \in DOMAIN Out(s) |-> all[use[Out(s)[k]]][2]]]
      /\ p.slots = [s \in DOMAIN sources |-> Out(s)]
      /\ p.names = [k \in DOMAIN use |-> named[use[k]]]
  BY <1>1 DEF SeparatePlan, SlotsOf
<1>3. all \in Seq((DOMAIN sources) \X Int)
  BY CombinedShape
<1>n. DOMAIN named = DOMAIN all
  OBVIOUS
<1>a. \E T : named \in Seq(T)
  <2> DEFINE T == {CombinedName(sources, all[k]) : k \in DOMAIN all}
  <2>1. DOMAIN all = 1..Len(all) /\ Len(all) \in Nat
    BY <1>3
  <2>2. named \in [1..Len(all) -> T]
    BY <2>1
  <2> HIDE DEF T, all, named
  <2>3. named \in Seq(T)
    BY <2>1, <2>2
  <2> QED BY <2>3
<1>4. use \in Seq(DOMAIN all)
  <2> HIDE DEF all, named
  <2> QED BY <1>1, <1>a, <1>n, ResolvedShape
<1>q. sel.names # <<>> => p.names = sel.names
  <2> HIDE DEF all, named, p, Out
  <2> QED BY <1>1, <1>2, <1>a, NamesAsAsked
<1> HIDE DEF p, use
<1>5. /\ Len(use) \in Nat /\ DOMAIN use = 1..Len(use) /\ \A k \in DOMAIN use : use[k] \in DOMAIN all
  BY <1>3, <1>4
<1>6. \A k \in DOMAIN all : all[k] = <<all[k][1], all[k][2]>> /\ all[k][1] \in DOMAIN sources /\ all[k][2] \in Int
  BY <1>3
<1>7. \A k \in DOMAIN use : named[use[k]] = CombinedName(sources, all[use[k]])
  BY <1>5
<1> HIDE DEF all, named
<1>8. Len(p.names) = Len(use) /\ DOMAIN p.names = DOMAIN use
  <2>1. p.names = [k \in 1..Len(use) |-> named[use[k]]]
    BY <1>2, <1>5
  <2> HIDE DEF Mine, Out
  <2> QED BY <1>5, <2>1
<1>9. ASSUME NEW s \in DOMAIN sources
      PROVE  /\ Out(s) \in Seq(DOMAIN use) /\ Len(Out(s)) <= Len(use)
             /\ \A k \in DOMAIN Out(s) : Out(s)[k] \in Mine(s)
             /\ \A c \in Mine(s) : \E k \in DOMAIN Out(s) : Out(s)[k] = c
             /\ \A k, m \in DOMAIN Out(s) : Out(s)[k] = Out(s)[m] => k = m
  <2>1. Mine(s) \subseteq DOMAIN use /\ Mine(s) \in SUBSET Int
    BY <1>5
  <2>2. IsFiniteSet(DOMAIN use) /\ Cardinality(DOMAIN use) = Len(use)
    <3>1. \A n \in Nat : IsFiniteSet(1..n) /\ Cardinality(1..n) = n
      BY FS_Interval
    <3> HIDE DEF Mine, Out
    <3> QED BY <1>5, <3>1
  <2> HIDE DEF Mine
  <2>3. IsFiniteSet(Mine(s)) /\ Cardinality(Mine(s)) <= Len(use)
    BY <2>1, <2>2, FS_Subset
  <2>4. /\ Out(s) \in Seq(Mine(s)) /\ Len(Out(s)) = Cardinality(Mine(s))
        /\ \A c \in Mine(s) : \E k \in DOMAIN Out(s) : Out(s)[k] = c
        /\ \A k, m \in DOMAIN Out(s) : Out(s)[k] = Out(s)[m] => k = m
    BY <2>1, <2>3, AscendingOrder
  <2> HIDE DEF Out
  <2>5. Out(s) \in Seq(DOMAIN use) /\ \A k \in DOMAIN Out(s) : Out(s)[k] \in Mine(s)
    BY <2>1, <2>4
  <2> QED BY <2>3, <2>4, <2>5
<1>10. ASSUME NEW s \in DOMAIN sources
       PROVE  /\ p.slots[s] = Out(s)
              /\ p.selected[s] = [k \in DOMAIN Out(s) |-> p.selected[s][k]]
              /\ \A k \in DOMAIN Out(s) : p.selected[s][k] = all[use[Out(s)[k]]][2]
  <2> HIDE DEF Out
  <2> QED BY <1>2
<1>11. ASSUME NEW s \in DOMAIN sources, NEW k \in DOMAIN Out(s)
       PROVE  /\ Out(s)[k] \in DOMAIN use /\ p.selected[s][k] \in Int
              /\ all[use[Out(s)[k]]] = <<s, p.selected[s][k]>>
  <2>1. Out(s)[k] \in DOMAIN use /\ all[use[Out(s)[k]]][1] = s
    BY <1>9
  <2> HIDE DEF Out
  <2>2. p.selected[s][k] = all[use[Out(s)[k]]][2]
    BY <1>10
  <2> QED BY <1>5, <1>6, <2>1, <2>2
<1> HIDE DEF Out
<1>12. ASSUME NEW i \in DOMAIN sources
       PROVE  /\ p.selected[i] \in Seq(Int) /\ p.slots[i] \in Seq(DOMAIN p.names)
              /\ Len(p.slots[i]) = Len(p.selected[i]) /\ Len(p.slots[i]) <= Len(p.names)
  <2>1. DOMAIN Out(i) = 1..Len(Out(i)) /\ Len(Out(i)) \in Nat
    BY <1>9
  <2>2. p.selected[i] \in Seq(Int) /\ Len(p.selected[i]) = Len(Out(i))
    <3> DEFINE n == Len(Out(i))
               f == p.selected[i]
    <3>1. n \in Nat /\ f \in [1..n -> Int]
      BY <1>10, <1>11, <2>1
    <3> HIDE DEF n, f
    <3>2. f \in Seq(Int) /\ Len(f) = n
      BY <3>1
    <3> QED BY <3>2 DEF n, f
  <2>3. p.slots[i] = Out(i)
    BY <1>10
  <2>4. Out(i) \in Seq(DOMAIN use) /\ Len(Out(i)) <= Len(use)
    BY <1>9
  <2> QED BY <1>8, <2>2, <2>3, <2>4
<1>13. ASSUME NEW i \in DOMAIN sources, NEW k \in DOMAIN p.slots[i]
       PROVE  NamedFor(p, sources, TRUE, i, k)
  <2>1. k \in DOMAIN Out(i) /\ p.slots[i] = Out(i)
    BY <1>10
  <2>2. p.names[Out(i)[k]] = CombinedName(sources, all[use[Out(i)[k]]])
    BY <1>2, <1>7, <1>11, <2>1
  <2> QED BY <1>11, <2>1, <2>2 DEF NamedFor
<1>14. ASSUME NEW c \in DOMAIN p.names
       PROVE  \E i \in DOMAIN sources : \E k \in DOMAIN p.slots[i] : p.slots[i][k] = c
  <2>1. c \in DOMAIN use
    BY <1>8
  <2> DEFINE i == all[use[c]][1]
  <2>2. i \in DOMAIN sources
    BY <1>5, <1>6, <2>1
  <2>3. c \in Mine(i)
    BY <2>1
  <2> HIDE DEF i, Mine
  <2>4. \E k \in DOMAIN Out(i) : Out(i)[k] = c
    BY <1>9, <2>2, <2>3
  <2>5. p.slots[i] = Out(i)
    BY <1>10, <2>2
  <2> QED BY <2>2, <2>4, <2>5
<1>15. ASSUME NEW i \in DOMAIN sources, NEW j \in DOMAIN sources,
              NEW k \in DOMAIN p.slots[i], NEW m \in DOMAIN p.slots[j], p.slots[i][k] = p.slots[j][m]
       PROVE  i = j /\ k = m
  <2>1. k \in DOMAIN Out(i) /\ m \in DOMAIN Out(j) /\ Out(i)[k] = Out(j)[m]
    BY <1>10, <1>15
  <2>2. Out(i)[k] \in Mine(i) /\ Out(j)[m] \in Mine(j)
    BY <1>9, <2>1
  <2>3. i = j
    BY <2>1, <2>2
  <2> HIDE DEF Mine
  <2> QED BY <1>9, <2>1, <2>3
<1>16. PlanShape(p, sources)
  BY <1>5, <1>8, <1>12 DEF PlanShape
<1> QED BY <1>13, <1>14, <1>15, <1>16, <1>q DEF p


-----------------------------------------------------------------------------
(* What has been decided so far. *)

IsSequence(s) == \E S : s \in Seq(S)

ChosenLevels ==
  IF Pooled /\ Len(Sources) > 1 THEN CommonOverviewLevels(Sources, req.target)
  ELSE [i \in DOMAIN Sources |-> 0]

\* The plan of source i says what the plan of bands does.
PlannedAsSelected(p) ==
  /\ p.src \in 1..(next - 1) /\ Read(p.src)
  /\ p.selected = bands.selected[p.src]
  /\ p.columns = IF IsIdentity(bands.slots[p.src]) THEN <<>> ELSE bands.slots[p.src]

\* The sources before the next one are planned, each once; all that have a
\* selected band are, when no region leaves any out.
PlannedInOrder ==
  /\ next \in 1..(Len(Sources) + 1)
  /\ \A j \in DOMAIN plans : PlannedAsSelected(plans[j])
  /\ \A j, k \in DOMAIN plans : plans[j].src = plans[k].src => j = k
  /\ req.region = {} =>
       \A i \in 1..(next - 1) : Read(i) => \E j \in DOMAIN plans : plans[j].src = i

\* Each phase relies on what those before it decided.
Decided ==
  /\ req \in Requests /\ IsSequence(plans)
  /\ phase \in {"bands", "check", "levels", "plan", "failed", "empty", "run"}
  /\ phase \in {"bands", "check", "levels"} => next = 1 /\ plans = <<>>
  /\ phase \notin {"bands", "failed"} =>
       bands = PlanBands(Sources, req.separate, req.sel) /\ bands.ok
  /\ phase \in {"plan", "empty", "run"} => levels = ChosenLevels /\ PlannedInOrder
  /\ phase \in {"empty", "run"} => next = Len(Sources) + 1

\* The parts of a call.
LEMMA CallShape ==
  ASSUME req \in Requests
  PROVE  /\ Sources \in Seq(OpenedSources) \ {<<>>} /\ req.target \in Nat
         /\ req.sel \in BandChoices /\ req.separate \in BOOLEAN
         /\ Len(Sources) \in Nat \ {0} /\ DOMAIN Sources = 1..Len(Sources)
<1>1. req \in Calls
  BY SelectionAssumption
<1>2. /\ req.sources \in Seq(OpenedSources) \ {<<>>} /\ req.target \in Nat
      /\ req.sel \in BandChoices /\ req.separate \in BOOLEAN
  BY <1>1 DEF Calls
<1> QED BY <1>2 DEF Sources

\* A source's own choice is one of its images.
LEMMA SelectedInFile ==
  ASSUME NEW s \in OpenedSources, NEW target \in Nat
  PROVE  SelectOverviewLevel(s, target) \in DOMAIN s.images
<1> DEFINE fit == {i \in OverviewLevels(s) : Fits(s, i, target)}
<1>1. SelectOverviewLevel(s, target) = IF fit = {} THEN 1 ELSE Min(Coarsest(s, fit))
  BY DEF SelectOverviewLevel
<1>2. 1 \in DOMAIN s.images /\ fit \subseteq DOMAIN s.images /\ fit \subseteq Nat
  BY LevelShape
<1>3. IsFiniteSet(fit) /\ \A i \in fit : GroundPixel(s, i) \in Int
  <2>1. IsFiniteSet(OverviewLevels(s)) /\ fit \subseteq OverviewLevels(s)
    BY LevelShape
  <2>2. \A i \in OverviewLevels(s) : GroundPixel(s, i) \in Int
    BY LevelShape
  <2> HIDE DEF fit
  <2> QED BY <2>1, <2>2, FS_Subset
<1> HIDE DEF fit
<1>4. fit # {} => Min(Coarsest(s, fit)) \in fit
  <2>1. Coarsest(s, fit) \subseteq fit
    BY DEF Coarsest
  <2>2. fit # {} => Coarsest(s, fit) # {}
    BY <1>3, CoarsestThere
  <2> QED BY <1>2, <2>1, <2>2, MinThere
<1> QED BY <1>1, <1>2, <1>4

\* The level the next source is read at is one of its images.
LEMMA LevelInFile ==
  ASSUME Decided, phase = "plan", NEW i \in DOMAIN Sources
  PROVE  LevelOf(i) \in DOMAIN Sources[i].images
<1>1. /\ Sources \in Seq(OpenedSources) \ {<<>>} /\ req.target \in Nat
      /\ Sources[i] \in OpenedSources /\ i \in DOMAIN Sources
  BY CallShape DEF Decided
<1>2. levels = ChosenLevels
  BY DEF Decided
<1>3. SelectOverviewLevel(Sources[i], req.target) \in DOMAIN Sources[i].images
  BY <1>1, SelectedInFile
<1>4. 1 \in DOMAIN Sources[i].images /\ OverviewLevels(Sources[i]) \subseteq DOMAIN Sources[i].images
  BY <1>1, LevelShape
<1>5. CASE Pooled /\ Len(Sources) > 1
  <2>1. levels = CommonOverviewLevels(Sources, req.target)
    BY <1>2, <1>5 DEF ChosenLevels
  <2>2. levels[i] = 1 \/ levels[i] \in OverviewLevels(Sources[i])
    BY <1>1, <2>1, LevelsInCommon
  <2> QED BY <1>3, <1>4, <2>2 DEF LevelOf
<1>6. CASE ~(Pooled /\ Len(Sources) > 1)
  <2>1. levels[i] = 0
    BY <1>1, <1>2, <1>6 DEF ChosenLevels
  <2> QED BY <1>3, <2>1 DEF LevelOf
<1> QED BY <1>5, <1>6

\* Without a region, a tiled image has tiles to read.
LEMMA TilesThere ==
  ASSUME NEW s \in OpenedSources, NEW i \in DOMAIN s.images, NEW align,
         LevelRaster(s, i).tw # 0
  PROVE  TilesRead(LevelRaster(s, i), {}, align) # {}
<1> DEFINE im == s.images[i]
           r  == LevelRaster(s, i)
<1>1. im \in Images
  BY LevelShape
<1>2. r.w = im.w /\ r.h = im.h /\ r.tw = im.tw /\ r.th = im.th
  BY DEF LevelRaster
<1>3. /\ im.w \in Nat \ {0} /\ im.h \in Nat \ {0} /\ im.tw \in Nat /\ im.th \in Nat
      /\ im.tw = 0 <=> im.th = 0
  BY <1>1 DEF Images
<1> HIDE DEF im, r
<1>4. /\ r.w - 1 \in Nat /\ r.h - 1 \in Nat /\ r.tw \in Nat \ {0} /\ r.th \in Nat \ {0}
  BY <1>2, <1>3 DEF r
<1>5. \A n \in Nat, d \in Nat \ {0} : n \div d \in Nat
  OBVIOUS
<1>6. <<0, 0>> \in AllTiles(r)
  <2>1. (r.w - 1) \div r.tw \in Nat /\ (r.h - 1) \div r.th \in Nat
    BY <1>4, <1>5
  <2> QED BY <2>1 DEF AllTiles
<1>7. TilesRead(r, {}, align) = AllTiles(r)
  BY DEF TilesRead
<1> QED BY <1>6, <1>7 DEF r

-----------------------------------------------------------------------------
(* The steps. *)

\* Nothing is decided at first.
LEMMA InitDecided == Init => Decided
<1> SUFFICES ASSUME Init PROVE Decided
  OBVIOUS
<1>1. IsSequence(<<>>)
  BY EmptySeq DEF IsSequence
<1> QED BY <1>1 DEF Init, Decided

\* The bands are those of plan_bands, or the read fails.
LEMMA ResolveBandsDecides == Decided /\ ResolveBands => Decided'
<1> SUFFICES ASSUME Decided, ResolveBands PROVE Decided'
  OBVIOUS
<1>1. /\ bands' = PlanBands(Sources, req.separate, req.sel) /\ next = 1 /\ plans = <<>>
      /\ (bands'.ok /\ phase' = "check") \/ phase' = "failed"
  BY DEF ResolveBands, Decided, Fail
<1>2. UNCHANGED <<req, levels, next, plans>>
  BY DEF ResolveBands
<1> QED BY <1>1, <1>2 DEF Decided, IsSequence, Sources

\* The checks of pooled sources decide nothing but whether to go on.
LEMMA CheckSourcesDecides == Decided /\ CheckSources => Decided'
<1> SUFFICES ASSUME Decided, CheckSources PROVE Decided'
  OBVIOUS
<1>1. phase = "check" /\ phase' \in {"levels", "failed"} /\ UNCHANGED <<req, bands, levels, next, plans>>
  BY DEF CheckSources, Fail
<1> QED BY <1>1 DEF Decided, IsSequence, Sources

\* The levels are chosen before the first source is planned.
LEMMA ChooseLevelsDecides == Decided /\ ChooseLevels => Decided'
<1> SUFFICES ASSUME Decided, ChooseLevels PROVE Decided'
  OBVIOUS
<1>1. phase = "levels" /\ phase' = "plan" /\ UNCHANGED <<req, bands, next, plans>> /\ levels' = ChosenLevels
  BY DEF ChooseLevels, ChosenLevels
<1>2. Len(Sources) \in Nat
  BY CallShape DEF Decided
<1>3. PlannedInOrder'
  BY <1>1, <1>2 DEF Decided, PlannedInOrder, Sources
<1> QED BY <1>1, <1>3 DEF Decided, IsSequence, Sources, ChosenLevels, Pooled

\* A read is planned once its last source is.
LEMMA FinishDecides == Decided /\ Finish => Decided'
<1> SUFFICES ASSUME Decided, Finish PROVE Decided'
  OBVIOUS
<1>1. /\ phase = "plan" /\ next > Len(Sources) /\ phase' \in {"empty", "run"}
      /\ UNCHANGED <<req, bands, levels, next, plans>>
  BY DEF Finish
<1>2. Len(Sources) \in Nat /\ next = Len(Sources) + 1
  BY <1>1, CallShape DEF Decided, PlannedInOrder
<1>3. PlannedInOrder'
  BY <1>1 DEF Decided, PlannedInOrder, PlannedAsSelected, Read, IsIdentity, Sources
<1> QED BY <1>1, <1>2, <1>3 DEF Decided, IsSequence, Sources, ChosenLevels, Pooled

\* The next source is planned, unless no band of it is selected or the region
\* has no tile of it.
LEMMA PlanSourceDecides == Decided /\ PlanSource => Decided'
<1> SUFFICES ASSUME Decided, PlanSource PROVE Decided'
  OBVIOUS
<1> DEFINE s  == Sources[next]
           lv == LevelOf(next)
           r  == LevelRaster(s, lv)
           got == TilesRead(r, req.region, req.alignBlock)
           plan == [src |-> next, level |-> lv, tiles |-> got, mask |-> MaskOf(s, lv),
                    selected |-> bands.selected[next],
                    columns  |-> IF IsIdentity(bands.slots[next]) THEN <<>> ELSE bands.slots[next]]
<1>1. /\ phase = "plan" /\ next <= Len(Sources) /\ UNCHANGED <<req, bands, levels>>
      /\ \/ ~Read(next) /\ next' = next + 1 /\ UNCHANGED <<phase, plans>>
         \/ phase' = "failed" /\ UNCHANGED plans
         \/ /\ Read(next) /\ r.tw # 0 /\ next' = next + 1 /\ UNCHANGED phase
            /\ plans' = IF got = {} THEN plans ELSE Append(plans, plan)
  BY DEF PlanSource, Fail, LevelOf, Read
<1>2. /\ Len(Sources) \in Nat /\ DOMAIN Sources = 1..Len(Sources) /\ next \in 1..Len(Sources)
      /\ s \in OpenedSources
  BY <1>1, CallShape DEF Decided, PlannedInOrder
<1>3. req.region = {} /\ r.tw # 0 => got # {}
  BY <1>1, <1>2, LevelInFile, TilesThere
<1>4. PICK S : plans \in Seq(S)
  BY DEF Decided, IsSequence
<1>5. Len(plans) \in Nat /\ DOMAIN plans = 1..Len(plans)
  BY <1>4
<1>6. /\ plan.src = next /\ plan.selected = bands.selected[next]
      /\ plan.columns = IF IsIdentity(bands.slots[next]) THEN <<>> ELSE bands.slots[next]
  OBVIOUS
<1> HIDE DEF plan, got, r, lv, s
<1>7. /\ IsSequence(Append(plans, plan)) /\ DOMAIN Append(plans, plan) = 1..(Len(plans) + 1)
      /\ Append(plans, plan)[Len(plans) + 1] = plan
      /\ \A j \in 1..Len(plans) : Append(plans, plan)[j] = plans[j]
  <2>1. plans \in Seq(S \cup {plan})
    BY <1>4
  <2>2. Append(plans, plan) \in Seq(S \cup {plan})
    BY <2>1
  <2> QED BY <1>5, <2>1, <2>2 DEF IsSequence
<1>8. CASE phase' = "failed"
  BY <1>1, <1>8 DEF Decided, IsSequence
<1>9. CASE phase' = "plan"
  <2>1. next' = next + 1 /\ next' \in 1..(Len(Sources) + 1)
    BY <1>1, <1>2, <1>9
  <2>2. \A p : PlannedAsSelected(p) => p.src \in 1..(next - 1) /\ Read(p.src)
    BY DEF PlannedAsSelected
  <2>3. \A j \in DOMAIN plans : PlannedAsSelected(plans[j])
    BY <1>1 DEF Decided, PlannedInOrder
  <2>4. ASSUME NEW p, PlannedAsSelected(p)
        PROVE  /\ p.src \in 1..(next' - 1) /\ Read(p.src)'
               /\ p.selected = bands'.selected[p.src]
               /\ p.columns = IF IsIdentity(bands.slots[p.src])' THEN <<>> ELSE bands'.slots[p.src]
    BY <1>1, <1>2, <2>1, <2>4 DEF PlannedAsSelected, Read, IsIdentity
  <2>5. CASE plans' = plans
    <3>1. \A j \in DOMAIN plans' : PlannedAsSelected(plans[j])'
      BY <1>1, <2>3, <2>4, <2>5 DEF PlannedAsSelected
    <3>2. req.region = {} => ~Read(next)
      <4>1. Append(plans, plan) # plans
        <5> SUFFICES ASSUME Append(plans, plan) = plans PROVE FALSE
          OBVIOUS
        <5>1. Len(plans) + 1 \in 1..Len(plans)
          BY <1>5, <1>7
        <5> QED BY <1>5, <5>1
      <4> QED BY <1>1, <1>3, <1>9, <2>5, <4>1
    <3>3. \A i \in 1..next : i \in 1..(next - 1) \/ i = next
      BY <1>2
    <3>4. req'.region = {} => \A i \in 1..(next' - 1) : Read(i)' => \E j \in DOMAIN plans' : plans'[j].src = i
      BY <1>1, <1>2, <2>1, <2>5, <3>2, <3>3 DEF Decided, PlannedInOrder, Read
    <3>5. PlannedInOrder'
      BY <1>1, <2>1, <2>5, <3>1, <3>4 DEF Decided, PlannedInOrder, Sources
    <3> QED BY <1>1, <1>9, <2>5, <3>5 DEF Decided, IsSequence, Sources, ChosenLevels, Pooled
  <2>6. CASE plans' = Append(plans, plan) /\ Read(next)
    <3>1. ASSUME NEW j \in DOMAIN plans'
          PROVE  (j \in DOMAIN plans /\ plans'[j] = plans[j]) \/ (j = Len(plans) + 1 /\ plans'[j] = plan)
      <4>1. j \in 1..Len(plans) \/ j = Len(plans) + 1
        BY <1>5, <1>7, <2>6
      <4> QED BY <1>5, <1>7, <2>6, <4>1
    <3>2. ASSUME NEW j \in DOMAIN plans', plans'[j] = plan PROVE PlannedAsSelected(plans[j])'
      <4>1. plans'[j].src = next /\ next \in 1..(next' - 1)
        BY <1>2, <1>6, <2>1, <3>2
      <4>2. bands' = bands /\ bands.selected[next] # <<>>
        BY <1>1, <2>6 DEF Read
      <4> QED BY <1>6, <3>2, <4>1, <4>2 DEF PlannedAsSelected, Read, IsIdentity
    <3>3. ASSUME NEW j \in DOMAIN plans' PROVE PlannedAsSelected(plans[j])'
      <4>1. ASSUME j \in DOMAIN plans, plans'[j] = plans[j] PROVE PlannedAsSelected(plans[j])'
        <5>1. PlannedAsSelected(plans[j])
          BY <2>3, <4>1
        <5>2. plans[j].src \in 1..(next' - 1)
          BY <1>2, <2>1, <2>2, <5>1
        <5> QED BY <1>1, <4>1, <5>1, <5>2 DEF PlannedAsSelected, Read, IsIdentity
      <4> QED BY <3>1, <3>2, <4>1
    <3>4. \A j \in DOMAIN plans : plans[j].src # next
      BY <1>2, <2>2, <2>3
    <3>5. \A j, k \in DOMAIN plans' : plans'[j].src = plans'[k].src => j = k
      BY <1>1, <1>6, <3>1, <3>4 DEF Decided, PlannedInOrder
    <3>6. /\ \A j \in DOMAIN plans : j \in DOMAIN plans' /\ plans'[j] = plans[j]
          /\ Len(plans) + 1 \in DOMAIN plans' /\ plans'[Len(plans) + 1].src = next
      BY <1>5, <1>6, <1>7, <2>6
    <3>7. ASSUME req'.region = {}, NEW i \in 1..(next' - 1), Read(i)'
          PROVE  \E j \in DOMAIN plans' : plans'[j].src = i
      <4>1. CASE i = next
        BY <3>6, <4>1
      <4>2. CASE i \in 1..(next - 1)
        <5>1. req.region = {} /\ Read(i)
          BY <1>1, <3>7 DEF Read
        <5>2. PICK j \in DOMAIN plans : plans[j].src = i
          BY <1>1, <4>2, <5>1 DEF Decided, PlannedInOrder
        <5> QED BY <3>6, <5>2
      <4> QED BY <1>2, <2>1, <4>1, <4>2
    <3>9. PlannedInOrder'
      BY <1>1, <2>1, <3>3, <3>5, <3>7 DEF PlannedInOrder, Sources
    <3> QED BY <1>1, <1>7, <1>9, <2>6, <3>9 DEF Decided, Sources, ChosenLevels, Pooled
  <2> QED BY <1>1, <1>9, <2>5, <2>6
<1> QED BY <1>1, <1>8, <1>9

\* The steps of a read together.
LEMMA StepDecides == Decided /\ [Next]_vars => Decided'
<1> SUFFICES ASSUME Decided, [Next]_vars PROVE Decided'
  OBVIOUS
<1>1. CASE UNCHANGED vars
  BY <1>1 DEF vars, Decided, IsSequence, PlannedInOrder, PlannedAsSelected, Read, IsIdentity, Sources, ChosenLevels, Pooled
<1> QED BY <1>1, ResolveBandsDecides, CheckSourcesDecides, ChooseLevelsDecides, PlanSourceDecides, FinishDecides
        DEF Next, Stopped

\* So what is decided stays so.
LEMMA SelectionInvariant == Spec => []Decided
BY InitDecided, StepDecides, PTL DEF Spec


\* Pooled sources are read at one decimation, once the levels are chosen.
THEOREM LevelsAgree == Spec => []PooledLevelsAgree
<1>1. Decided => PooledLevelsAgree
  <2> SUFFICES ASSUME Decided, Planned, Pooled, Len(Sources) > 1
               PROVE  /\ \/ \A i \in DOMAIN Sources : LevelOf(i) = 1
                         \/ \A i \in DOMAIN Sources :
                              /\ Qualifies(Sources[i], LevelOf(i))
                              /\ Matches(Sources[1], LevelOf(1), Sources[i], LevelOf(i))
                              /\ Fits(Sources[i], LevelOf(i), req.target)
                      /\ Copies(Sources) => LevelOf(1) = SelectOverviewLevel(Sources[1], req.target)
    BY DEF PooledLevelsAgree, Matches, Copies
  <2>1. /\ Sources \in Seq(OpenedSources) \ {<<>>} /\ req.target \in Nat /\ 1 \in DOMAIN Sources
        /\ \A i \in DOMAIN Sources : Sources[i] \in OpenedSources
    BY CallShape DEF Decided
  <2>2. levels = CommonOverviewLevels(Sources, req.target)
    BY DEF Decided, Planned, ChosenLevels
  <2>3. /\ \/ \A i \in DOMAIN Sources : levels[i] = 1
           \/ \A i \in DOMAIN Sources :
                /\ levels[i] \in OverviewLevels(Sources[i])
                /\ Matches(Sources[1], levels[1], Sources[i], levels[i])
                /\ Fits(Sources[i], levels[i], req.target)
        /\ Copies(Sources) => levels[1] = SelectOverviewLevel(Sources[1], req.target)
    BY <2>1, <2>2, LevelsInCommon
  <2>4. ASSUME NEW i \in DOMAIN Sources PROVE LevelOf(i) = levels[i]
    <3>1. \A l \in OverviewLevels(Sources[i]) : l # 0
      BY <2>1, LevelShape
    <3>2. levels[i] # 0
      BY <2>3, <3>1
    <3> QED BY <3>2 DEF LevelOf
  <2>5. \A i \in DOMAIN Sources : \A l \in OverviewLevels(Sources[i]) : Qualifies(Sources[i], l)
    BY DEF OverviewLevels
  <2> QED BY <2>1, <2>3, <2>4, <2>5
<1> QED BY <1>1, SelectionInvariant, PTL

\* The plan of bands a read goes by.
LEMMA BandsAsPlanned ==
  ASSUME Decided, Planned
  PROVE  /\ PlanShape(bands, Sources)
         /\ \A i \in DOMAIN Sources : \A k \in DOMAIN bands.slots[i] :
              NamedFor(bands, Sources, req.separate, i, k)
         /\ ~req.separate => \A i \in DOMAIN Sources : bands.slots[i] = [k \in 1..Len(bands.names) |-> k]
         /\ req.separate =>
              /\ \A c \in DOMAIN bands.names :
                   \E i \in DOMAIN Sources : \E k \in DOMAIN bands.slots[i] : bands.slots[i][k] = c
              /\ \A i, j \in DOMAIN Sources :
                   \A k \in DOMAIN bands.slots[i], m \in DOMAIN bands.slots[j] :
                     bands.slots[i][k] = bands.slots[j][m] => i = j /\ k = m
         /\ req.sel.names # <<>> => bands.names = req.sel.names
<1>1. /\ Sources \in Seq(OpenedSources) \ {<<>>} /\ req.sel \in BandChoices /\ req.separate \in BOOLEAN
  BY CallShape DEF Decided
<1>2. bands = PlanBands(Sources, req.separate, req.sel) /\ bands.ok
  BY DEF Decided, Planned
<1>3. CASE req.separate = FALSE
  <2>1. bands = PooledPlan(Sources, req.sel)
    BY <1>2, <1>3 DEF PlanBands
  <2>2. PooledPlan(Sources, req.sel).ok
    BY <1>2, <2>1
  <2>3. /\ PlanShape(bands, Sources)
        /\ \A i \in DOMAIN Sources : \A k \in DOMAIN bands.slots[i] : NamedFor(bands, Sources, FALSE, i, k)
        /\ \A i \in DOMAIN Sources : bands.slots[i] = [k \in 1..Len(bands.names) |-> k]
        /\ req.sel.names # <<>> => bands.names = req.sel.names
    BY <1>1, <2>1, <2>2, PooledBands
  <2> QED BY <1>3, <2>3
<1>4. CASE req.separate = TRUE
  <2>1. bands = SeparatePlan(Sources, req.sel)
    BY <1>2, <1>4 DEF PlanBands
  <2>2. SeparatePlan(Sources, req.sel).ok
    BY <1>2, <2>1
  <2> DEFINE Apart(p) ==
        /\ PlanShape(p, Sources)
        /\ \A i \in DOMAIN Sources : \A k \in DOMAIN p.slots[i] : NamedFor(p, Sources, TRUE, i, k)
        /\ \A c \in DOMAIN p.names :
             \E i \in DOMAIN Sources : \E k \in DOMAIN p.slots[i] : p.slots[i][k] = c
        /\ \A i, j \in DOMAIN Sources :
             \A k \in DOMAIN p.slots[i], m \in DOMAIN p.slots[j] :
               p.slots[i][k] = p.slots[j][m] => i = j /\ k = m
        /\ req.sel.names # <<>> => p.names = req.sel.names
  <2>3. Apart(SeparatePlan(Sources, req.sel))
    BY <1>1, <2>2, SeparateBands
  <2>4. Apart(bands)
    <3> HIDE DEF Apart
    <3> QED BY <2>1, <2>3
  <2> QED BY <1>4, <2>4
<1> QED BY <1>1, <1>3, <1>4

\* A planned source's bands go where the plan of bands has them.
LEMMA ColumnsAreSlots ==
  ASSUME Decided, Planned, NEW j \in DOMAIN plans
  PROVE  /\ plans[j].src \in DOMAIN Sources
         /\ plans[j].selected = bands.selected[plans[j].src]
         /\ Columns(plans[j]) = bands.slots[plans[j].src]
<1> DEFINE i == plans[j].src
           slots == bands.slots[i]
<1>1. PlannedAsSelected(plans[j]) /\ next = Len(Sources) + 1
  BY DEF Decided, Planned, PlannedInOrder
<1>2. DOMAIN Sources = 1..Len(Sources) /\ Len(Sources) \in Nat
  BY CallShape DEF Decided
<1>3. i \in DOMAIN Sources
  BY <1>1, <1>2 DEF PlannedAsSelected
<1>4. /\ bands.selected[i] # <<>> /\ plans[j].selected = bands.selected[i]
      /\ plans[j].columns = IF IsIdentity(slots) THEN <<>> ELSE slots
  BY <1>1 DEF PlannedAsSelected, Read
<1>5. /\ bands.selected[i] \in Seq(Int) /\ slots \in Seq(DOMAIN bands.names)
      /\ Len(slots) = Len(bands.selected[i]) /\ Len(bands.names) \in Nat
  BY <1>3, BandsAsPlanned DEF PlanShape
<1> HIDE DEF i, slots
<1>6. slots # <<>> /\ DOMAIN slots = DOMAIN bands.selected[i] /\ DOMAIN slots = 1..Len(slots)
  BY <1>4, <1>5
<1>7. IsIdentity(slots) => slots = [k \in DOMAIN slots |-> k]
  BY <1>5, <1>6 DEF IsIdentity
<1>8. Columns(plans[j]) = slots
  BY <1>4, <1>6, <1>7 DEF Columns
<1> QED BY <1>3, <1>4, <1>8 DEF i, slots

\* Each output column gets the band it is named for: from every source pooled
\* into it, from exactly one where bands are side by side; and bands selected by
\* name are the columns of those names.
THEOREM ColumnsAreFilled == Spec => []ColumnsFilled
<1>1. Decided => ColumnsFilled
  <2> DEFINE Into(c) == {x \in (DOMAIN plans) \X (DOMAIN bands.names) :
                           x[2] \in DOMAIN Columns(plans[x[1]]) /\ Columns(plans[x[1]])[x[2]] = c}
             PutAt(i, k, c) == k \in DOMAIN bands.slots[i] /\ bands.slots[i][k] = c
  <2> SUFFICES ASSUME Decided, Planned, req.region = {}, NEW c \in DOMAIN bands.names
               PROVE  /\ \A x \in Into(c) : NameOf(plans[x[1]].src, plans[x[1]].selected[x[2]]) = bands.names[c]
                      /\ Cardinality(Into(c)) = IF req.separate THEN 1 ELSE Len(Sources)
    BY BandsAsPlanned DEF ColumnsFilled
  <2>1. /\ Len(bands.names) \in Nat /\ DOMAIN bands.names = 1..Len(bands.names)
        /\ \A i \in DOMAIN Sources :
             /\ bands.selected[i] \in Seq(Int) /\ bands.slots[i] \in Seq(DOMAIN bands.names)
             /\ Len(bands.slots[i]) = Len(bands.selected[i]) /\ Len(bands.slots[i]) <= Len(bands.names)
    BY BandsAsPlanned DEF PlanShape
  <2>2. /\ \A j \in DOMAIN plans :
             /\ plans[j].src \in DOMAIN Sources
             /\ plans[j].selected = bands.selected[plans[j].src]
             /\ Columns(plans[j]) = bands.slots[plans[j].src]
        /\ \A j, k \in DOMAIN plans : plans[j].src = plans[k].src => j = k
    BY ColumnsAreSlots DEF Decided, Planned, PlannedInOrder
  <2>3. DOMAIN Sources = 1..Len(Sources) /\ Len(Sources) \in Nat /\ req.separate \in BOOLEAN
    BY CallShape DEF Decided
  <2>4. ASSUME NEW i \in DOMAIN Sources, NEW k, PutAt(i, k, c)
        PROVE  k \in DOMAIN bands.names /\ \E j \in DOMAIN plans : plans[j].src = i
    <3>1. k \in 1..Len(bands.slots[i])
      BY <2>1, <2>4
    <3>2. k \in DOMAIN bands.names /\ Len(bands.selected[i]) > 0
      BY <2>1, <3>1
    <3>3. Read(i)
      BY <3>2 DEF Read
    <3>4. i \in 1..(next - 1)
      BY <2>3 DEF Decided, Planned
    <3> QED BY <3>2, <3>3, <3>4 DEF Decided, Planned, PlannedInOrder
  <2>5. \A j, k : <<j, k>> \in Into(c) <=> j \in DOMAIN plans /\ k \in DOMAIN bands.names /\ PutAt(plans[j].src, k, c)
    BY <2>2
  <2>6. \A x \in Into(c) : x = <<x[1], x[2]>>
    OBVIOUS
  <2>7. ASSUME NEW x \in Into(c)
        PROVE  NameOf(plans[x[1]].src, plans[x[1]].selected[x[2]]) = bands.names[c]
    <3>1. x[1] \in DOMAIN plans /\ PutAt(plans[x[1]].src, x[2], c)
      BY <2>5, <2>6
    <3>2. NamedFor(bands, Sources, req.separate, plans[x[1]].src, x[2])
      BY <2>2, <3>1, BandsAsPlanned
    <3> QED BY <2>2, <3>1, <3>2 DEF NamedFor, NameOf
  <2> HIDE DEF Into
  <2>8. CASE req.separate = TRUE
    <3>p. PICK i \in DOMAIN Sources : \E k : PutAt(i, k, c)
      BY <2>8, BandsAsPlanned
    <3>1. PICK k : PutAt(i, k, c)
      BY <3>p
    <3>2. PICK j \in DOMAIN plans : plans[j].src = i
      BY <2>4, <3>1
    <3>3. <<j, k>> \in Into(c)
      BY <2>4, <2>5, <3>1, <3>2
    <3>4. ASSUME NEW x \in Into(c) PROVE x = <<j, k>>
      <4>1. x[1] \in DOMAIN plans /\ PutAt(plans[x[1]].src, x[2], c)
        BY <2>5, <2>6
      <4>2. plans[x[1]].src = i /\ x[2] = k
        BY <2>2, <2>8, <3>1, <4>1, BandsAsPlanned
      <4> QED BY <2>2, <2>6, <3>2, <4>1, <4>2
    <3>5. Into(c) = {<<j, k>>}
      BY <3>3, <3>4
    <3> QED BY <2>7, <2>8, <3>5, FS_Singleton
  <2>9. CASE req.separate = FALSE
    <3> DEFINE f == [x \in Into(c) |-> plans[x[1]].src]
    <3>1. \A i \in DOMAIN Sources : \A k : PutAt(i, k, c) <=> k = c
      BY <2>1, <2>9, BandsAsPlanned
    <3>2. f \in [Into(c) -> DOMAIN Sources]
      BY <2>2, <2>5, <2>6
    <3>3. ASSUME NEW x \in Into(c), NEW y \in Into(c), f[x] = f[y] PROVE x = y
      <4>1. /\ x[1] \in DOMAIN plans /\ PutAt(plans[x[1]].src, x[2], c)
            /\ y[1] \in DOMAIN plans /\ PutAt(plans[y[1]].src, y[2], c)
        BY <2>5, <2>6
      <4>2. x[2] = c /\ y[2] = c
        BY <2>2, <3>1, <4>1
      <4>3. x[1] = y[1]
        BY <2>2, <3>3, <4>1
      <4> QED BY <2>6, <4>2, <4>3
    <3>4. ASSUME NEW i \in DOMAIN Sources PROVE \E x \in Into(c) : f[x] = i
      <4>1. PICK j \in DOMAIN plans : plans[j].src = i
        BY <2>4, <3>1
      <4>2. <<j, c>> \in Into(c)
        BY <2>5, <3>1, <4>1
      <4>3. f[<<j, c>>] = i
        BY <4>1, <4>2
      <4> QED BY <4>2, <4>3
    <3> HIDE DEF f
    <3>5. f \in Injection(Into(c), DOMAIN Sources) /\ f \in Surjection(Into(c), DOMAIN Sources)
      BY <3>2, <3>3, <3>4 DEF Injection, Surjection, IsInjective
    <3>6. IsFiniteSet(DOMAIN Sources) /\ Cardinality(DOMAIN Sources) = Len(Sources)
      BY <2>3, FS_Interval
    <3>7. Cardinality(Into(c)) = Cardinality(DOMAIN Sources)
      BY <3>5, <3>6, FS_Injection
    <3> QED BY <2>7, <2>9, <3>6, <3>7
  <2> QED BY <2>3, <2>8, <2>9
<1> QED BY <1>1, SelectionInvariant, PTL

\* Whatever region a read asks for, a point known to within a margin is decided
\* as every point within the margin would be.
THEOREM PointsDecidedExactly == Spec => []ClassifyAgrees
<1>1. Decided => ClassifyAgrees
  <2> SUFFICES ASSUME Decided, NEW p \in Points, NEW dx \in -Margin..Margin, NEW dy \in -Margin..Margin
               PROVE  LET said == Classify(req.region, p[1], p[2], Margin)
                      IN said = "undecided" \/ (said = "in") = Holds(req.region, p[1] + dx, p[2] + dy)
    BY DEF ClassifyAgrees
  <2> DEFINE said == Classify(req.region, p[1], p[2], Margin)
  <2>1. req.region \in SUBSET Boxes
    BY SelectionAssumption DEF Decided, Calls
  <2>2. p[1] \in Int /\ p[2] \in Int /\ Margin \in Nat
    BY SelectionAssumption
  <2>3. said \in {"in", "out", "undecided"}
    BY DEF Classify
  <2>4. /\ said = "in" => Holds(req.region, p[1] + dx, p[2] + dy)
        /\ said = "out" => ~Holds(req.region, p[1] + dx, p[2] + dy)
    BY <2>1, <2>2, ClassifyIsExact
  <2>5. Holds(req.region, p[1] + dx, p[2] + dy) \in BOOLEAN
    BY DEF Holds
  <2> HIDE DEF said
  <2>6. said = "undecided" \/ (said = "in") = Holds(req.region, p[1] + dx, p[2] + dy)
    <3>1. CASE said = "in"
      BY <2>4, <2>5, <3>1
    <3>2. CASE said = "out"
      BY <2>4, <2>5, <3>2
    <3> QED BY <2>3, <3>1, <3>2
  <2> QED BY <2>6 DEF said
<1> QED BY <1>1, SelectionInvariant, PTL
=============================================================================

--------------------------- MODULE CoalesceProofs ---------------------------
(***************************************************************************)
(* For every list of byte ranges, any gap and any cap: coalesce places     *)
(* each range inside one of its requests, and its requests are no longer   *)
(* and read over no more than the two settings allow.                      *)
(***************************************************************************)
EXTENDS Coalesce, FiniteSetTheorems, TLAPS

-----------------------------------------------------------------------------
(* Listing a finite set in order. *)

\* before puts the elements of S in a line.
LinesUp(S, before) ==
  /\ \A x \in S : <<x, x>> \notin before
  /\ \A x, y, z \in S : <<x, y>> \in before /\ <<y, z>> \in before => <<x, z>> \in before
  /\ \A x, y \in S : x = y \/ <<x, y>> \in before \/ <<y, x>> \in before

\* A proper part of a finite set is smaller.
LEMMA ProperPart ==
  ASSUME NEW T, IsFiniteSet(T), NEW U \in SUBSET T, U # T
  PROVE  /\ IsFiniteSet(U)
         /\ Cardinality(U) \in Nat /\ Cardinality(T) \in Nat
         /\ Cardinality(U) < Cardinality(T)
<1>1. IsFiniteSet(U) /\ Cardinality(U) <= Cardinality(T)
  BY FS_Subset
<1>2. Cardinality(U) # Cardinality(T)
  BY FS_Subset
<1> QED BY <1>1, <1>2, FS_CardinalityType

\* The list holds every element once, in order.
THEOREM RankedInOrder ==
  ASSUME NEW S, IsFiniteSet(S), NEW before, LinesUp(S, before)
  PROVE  /\ Cardinality(S) \in Nat
         /\ DOMAIN Ranked(S, before) = 1..Cardinality(S)
         /\ \A n \in 1..Cardinality(S) : Ranked(S, before)[n] \in S
         /\ \A x \in S : \E n \in 1..Cardinality(S) : Ranked(S, before)[n] = x
         /\ \A m, n \in 1..Cardinality(S) :
              m < n => <<Ranked(S, before)[m], Ranked(S, before)[n]>> \in before
<1> DEFINE L == Cardinality(S)
           Less(x) == {y \in S : <<y, x>> \in before}
           rank == [x \in S |-> Cardinality(Less(x))]
           s == Ranked(S, before)
<1>1. L \in Nat
  BY FS_CardinalityType
<1>2. \A x \in S : rank[x] = Cardinality(Less(x))
  OBVIOUS
<1>3. /\ \A x \in S : Less(x) \in SUBSET S /\ Less(x) # S
      /\ \A x, y \in S : <<x, y>> \in before => Less(x) \in SUBSET Less(y) /\ Less(x) # Less(y)
  BY DEF LinesUp
<1>4. /\ DOMAIN s = 1..L
      /\ \A n \in 1..L : s[n] = CHOOSE x \in S : rank[x] = n - 1
  BY DEF Ranked
<1>a. DOMAIN rank = S /\ rank = [x \in S |-> rank[x]]
  OBVIOUS
<1> HIDE DEF L, Less, rank, s
<1>5. ASSUME NEW x \in S
      PROVE  IsFiniteSet(Less(x)) /\ rank[x] \in 0..(L - 1)
  <2>1. /\ IsFiniteSet(Less(x))
        /\ Cardinality(Less(x)) \in Nat /\ Cardinality(Less(x)) < L
    BY <1>3, ProperPart DEF L
  <2> QED BY <1>1, <1>2, <2>1
<1>6. ASSUME NEW x \in S, NEW y \in S, <<x, y>> \in before
      PROVE  rank[x] < rank[y]
  <2>1. Less(x) \in SUBSET Less(y) /\ Less(x) # Less(y) /\ IsFiniteSet(Less(y))
    BY <1>3, <1>5, <1>6
  <2>2. Cardinality(Less(x)) < Cardinality(Less(y))
    BY <2>1, ProperPart
  <2> QED BY <1>2, <2>2
<1>7. ASSUME NEW x \in S, NEW y \in S, rank[x] = rank[y]
      PROVE  x = y
  <2>1. SUFFICES ASSUME x # y PROVE FALSE
    OBVIOUS
  <2>2. rank[x] < rank[y] \/ rank[y] < rank[x]
    BY <1>6, <2>1 DEF LinesUp
  <2>3. rank[x] \in 0..(L - 1) /\ rank[y] \in 0..(L - 1)
    BY <1>5
  <2> QED BY <1>1, <1>7, <2>2, <2>3
<1>8. ASSUME NEW n \in 1..L
      PROVE  \E x \in S : rank[x] = n - 1
  <2> DEFINE all == 0..(L - 1)
             T == all \ {n - 1}
  <2>1. SUFFICES ASSUME \A x \in S : rank[x] # n - 1 PROVE FALSE
    OBVIOUS
  <2>2. rank \in [S -> T]
    BY <1>5, <1>a, <2>1
  <2>3. IsFiniteSet(all) /\ Cardinality(all) = L /\ n - 1 \in all
    <3>1. 0 \in Int /\ L - 1 \in Int /\ n - 1 \in all
      BY <1>1
    <3>2. IsFiniteSet(all) /\ Cardinality(all) = IF 0 > L - 1 THEN 0 ELSE (L - 1) - 0 + 1
      BY <3>1, FS_Interval
    <3> QED BY <1>1, <3>1, <3>2
  <2>4. T \in SUBSET all /\ T # all
    BY <2>3
  <2> HIDE DEF all, T
  <2>5. IsFiniteSet(T) /\ Cardinality(T) < Cardinality(S)
    BY <2>3, <2>4, ProperPart DEF L
  <2>6. PICK x \in S, y \in S : x # y /\ rank[x] = rank[y]
    BY <2>2, <2>5, FS_PigeonHole
  <2> QED BY <1>7, <2>6
<1>9. ASSUME NEW n \in 1..L
      PROVE  s[n] \in S /\ rank[s[n]] = n - 1
  BY <1>4, <1>8
<1>10. ASSUME NEW x \in S
       PROVE  \E n \in 1..L : s[n] = x
  <2>1. PICK n \in 1..L : n - 1 = rank[x]
    <3>1. rank[x] + 1 \in 1..L
      BY <1>1, <1>5
    <3> WITNESS rank[x] + 1 \in 1..L
    <3> QED BY <1>1, <1>5
  <2>2. s[n] \in S /\ rank[s[n]] = rank[x]
    BY <1>9, <2>1
  <2> QED BY <1>7, <2>2
<1>11. ASSUME NEW m \in 1..L, NEW n \in 1..L, m < n
       PROVE  <<s[m], s[n]>> \in before
  <2>1. s[m] \in S /\ s[n] \in S /\ rank[s[m]] = m - 1 /\ rank[s[n]] = n - 1
    BY <1>9
  <2>2. s[m] # s[n] /\ ~(rank[s[n]] < rank[s[m]])
    BY <1>1, <1>11, <2>1
  <2> QED BY <1>6, <2>1, <2>2 DEF LinesUp
<1> QED BY <1>1, <1>4, <1>9, <1>10, <1>11 DEF s, L

-----------------------------------------------------------------------------
(* The order of the ranges. *)

\* The list holds every position once, by start.
LEMMA InStartOrder ==
  ASSUME NEW ranges \in Seq(ByteRanges)
  PROVE  LET s == InOrder(ranges)
         IN /\ DOMAIN s = 1..Len(ranges)
            /\ \A n \in 1..Len(ranges) :
                 s[n].pos \in DOMAIN ranges /\ s[n].range = ranges[s[n].pos]
            /\ \A i \in DOMAIN ranges : \E n \in 1..Len(ranges) : s[n].pos = i
            /\ \A m, n \in 1..Len(ranges) : m < n =>
                 s[m].pos # s[n].pos /\ s[m].range.start <= s[n].range.start
<1> DEFINE pos == DOMAIN ranges
           before == {p \in pos \X pos : StartsBefore(ranges, p[1], p[2])}
           L == Len(ranges)
           s == InOrder(ranges)
<1>1. L \in Nat /\ pos = 1..L /\ \A i \in pos : ranges[i] \in ByteRanges
  OBVIOUS
<1>2. \A i \in pos : ranges[i].start \in Nat
  BY DEF ByteRanges
<1>3. \A i, j \in pos : <<i, j>> \in before <=> StartsBefore(ranges, i, j)
  OBVIOUS
<1>4. \A n \in DOMAIN ByStart(ranges) :
        DOMAIN s = DOMAIN ByStart(ranges)
        /\ s[n] = [pos |-> ByStart(ranges)[n], range |-> ranges[ByStart(ranges)[n]]]
  BY DEF InOrder
<1>5. DOMAIN s = DOMAIN ByStart(ranges) /\ ByStart(ranges) = Ranked(pos, before)
  BY DEF InOrder, ByStart
<1> HIDE DEF L, pos, before, s
<1>6. LinesUp(pos, before)
  <2>1. \A i \in pos : i \in Nat
    BY <1>1
  <2> QED BY <1>2, <1>3, <2>1 DEF LinesUp, StartsBefore
<1>7. IsFiniteSet(pos) /\ Cardinality(pos) = L
  <2>1. IsFiniteSet(1..L) /\ Cardinality(1..L) = IF 1 > L THEN 0 ELSE L - 1 + 1
    BY <1>1, FS_Interval
  <2> QED BY <1>1, <2>1
<1>8. /\ DOMAIN s = 1..L
      /\ \A n \in 1..L : s[n].pos \in pos /\ s[n].range = ranges[s[n].pos]
      /\ \A i \in pos : \E n \in 1..L : s[n].pos = i
      /\ \A m, n \in 1..L : m < n => <<s[m].pos, s[n].pos>> \in before
  <2>1. /\ DOMAIN ByStart(ranges) = 1..L
        /\ \A n \in 1..L : ByStart(ranges)[n] \in pos
        /\ \A i \in pos : \E n \in 1..L : ByStart(ranges)[n] = i
        /\ \A m, n \in 1..L : m < n => <<ByStart(ranges)[m], ByStart(ranges)[n]>> \in before
    BY <1>5, <1>6, <1>7, RankedInOrder
  <2>2. DOMAIN s = 1..L /\ \A n \in 1..L : s[n].pos = ByStart(ranges)[n] /\ s[n].range = ranges[s[n].pos]
    BY <1>4, <1>5, <2>1
  <2>3. \A n \in 1..L : s[n].pos \in pos
    BY <2>1, <2>2
  <2>4. \A i \in pos : \E n \in 1..L : s[n].pos = i
    BY <2>1, <2>2
  <2>5. \A m, n \in 1..L : m < n => <<s[m].pos, s[n].pos>> \in before
    BY <2>1, <2>2
  <2> QED BY <2>2, <2>3, <2>4, <2>5
<1>9. ASSUME NEW m \in 1..L, NEW n \in 1..L, m < n
      PROVE  s[m].pos # s[n].pos /\ s[m].range.start <= s[n].range.start
  <2>1. s[m].pos \in pos /\ s[n].pos \in pos /\ StartsBefore(ranges, s[m].pos, s[n].pos)
    BY <1>3, <1>8, <1>9
  <2>2. /\ s[m].range = ranges[s[m].pos] /\ s[n].range = ranges[s[n].pos]
        /\ ranges[s[m].pos].start \in Nat /\ ranges[s[n].pos].start \in Nat
    BY <1>2, <1>8, <2>1
  <2>3. s[m].pos \in Nat /\ s[n].pos \in Nat
    BY <1>1, <2>1
  <2> QED BY <2>1, <2>2, <2>3 DEF StartsBefore
<1> QED BY <1>8, <1>9 DEF s, L, pos

-----------------------------------------------------------------------------
(* The fold of coalesce. *)

PlaceNext(x, acc) == PlaceRange(acc, x)

Placing == INSTANCE Folding WITH Op <- PlaceNext, Choose <- Max, Numbers <- Nat

\* The fold takes the greatest index first, the last range of the list.
LEMMA LastIsFirst ==
  ASSUME NEW n \in Nat
  PROVE  /\ \A T \in SUBSET (1..n) : T # {} => Max(T) \in T
         /\ n # 0 => Max(1..n) = n
<1>1. ASSUME NEW T \in SUBSET (1..n), T # {} PROVE Max(T) \in T
  <2>1. T \in SUBSET (0..n)
    OBVIOUS
  <2>2. PICK m \in T : \A i \in T : i <= m
    BY <1>1, <2>1, Placing!GreatestNatural
  <2>3. \A i \in T : m >= i
    BY <2>2
  <2> QED BY <2>3 DEF Max
<1>2. n # 0 => Max(1..n) = n
  BY DEF Max
<1> QED BY <1>1, <1>2

\* The accumulator when the first n ranges, in order, are placed.
PlacedFirst(ranges, n) == Placing!Fold(Unplaced(ranges), InOrder(ranges), 1..n)

\* The loop of coalesce: it starts with nothing placed, and each round places
\* one more range.
LEMMA MergeRounds ==
  ASSUME NEW ranges \in Seq(ByteRanges)
  PROVE  /\ PlacedFirst(ranges, 0) = Unplaced(ranges)
         /\ \A n \in 1..Len(ranges) :
              PlacedFirst(ranges, n) = PlaceRange(PlacedFirst(ranges, n - 1), InOrder(ranges)[n])
         /\ Merge(ranges) = PlacedFirst(ranges, Len(ranges))
<1>1. Len(ranges) \in Nat
  OBVIOUS
<1>2. Placing!LastFirst /\ Placing!Chooses(1..Len(ranges))
  BY <1>1, LastIsFirst DEF Placing!LastFirst, Placing!Chooses
<1>3. /\ PlacedFirst(ranges, 0) = Unplaced(ranges)
      /\ \A n \in 1..Len(ranges) :
           PlacedFirst(ranges, n) = PlaceNext(InOrder(ranges)[n], PlacedFirst(ranges, n - 1))
  BY <1>1, <1>2, Placing!FoldOfPrefix DEF PlacedFirst
<1>4. DOMAIN InOrder(ranges) = 1..Len(ranges)
  BY InStartOrder
<1>5. Merge(ranges) = Placing!Fold(Unplaced(ranges), InOrder(ranges), DOMAIN InOrder(ranges))
  BY DEF Merge, FoldLeft, MapThenFoldSet, Placing!Fold, Placing!MapThenFoldSet, PlaceNext
<1> QED BY <1>3, <1>4, <1>5 DEF PlaceNext, PlacedFirst

-----------------------------------------------------------------------------
(* What a round keeps. *)

\* Range i lies inside the request it is placed in, at its offset.
Inside(merged, ranges, i) ==
  LET p == merged.place[i]
  IN /\ p.req \in DOMAIN merged.reqs /\ p.off \in Nat
     /\ merged.reqs[p.req].start + p.off = ranges[i].start
     /\ ranges[i].end <= merged.reqs[p.req].end

\* Request q is over the cap only if it is a range, its end is that of a range,
\* and a range meets each of its holes that is too wide.
Tight(q, ranges) ==
  /\ q.end - q.start > MaxMerged => \E i \in DOMAIN ranges : ranges[i] = q
  /\ \E i \in DOMAIN ranges : ranges[i].end = q.end
  /\ \A lo, hi \in q.start..q.end :
       hi - lo > CoalesceGap => \E i \in DOMAIN ranges : ranges[i].start < hi /\ ranges[i].end > lo

\* The n ranges that start first are placed.
Good(ranges, n, acc) ==
  /\ acc.reqs \in Seq(ByteRanges) /\ DOMAIN acc.place = DOMAIN ranges
  /\ IF n = 0 THEN acc.reqs = <<>>
     ELSE acc.reqs # <<>> /\ Last(acc.reqs).start <= InOrder(ranges)[n].range.start
  /\ \A m \in 1..n : Inside(acc, ranges, InOrder(ranges)[m].pos)
  /\ \A k \in DOMAIN acc.reqs : Tight(acc.reqs[k], ranges)

\* A range on its own is a tight request.
LEMMA RangeIsTight ==
  ASSUME NEW ranges \in Seq(ByteRanges), NEW i \in DOMAIN ranges
  PROVE  Tight(ranges[i], ranges)
<1> DEFINE r == ranges[i]
<1>1. r.start \in Nat /\ r.end \in Nat
  BY DEF ByteRanges
<1>2. ASSUME NEW lo \in r.start..r.end, NEW hi \in r.start..r.end, hi - lo > CoalesceGap
      PROVE  r.start < hi /\ r.end > lo
  BY <1>1, <1>2, CoalesceAssumption
<1> QED BY <1>2 DEF Tight

\* A tight request stays tight when it is extended to the end of a range that
\* may join it.
LEMMA ExtendedIsTight ==
  ASSUME NEW ranges \in Seq(ByteRanges), NEW i \in DOMAIN ranges,
         NEW q \in ByteRanges, Tight(q, ranges), Joins(q, ranges[i]),
         q.start <= ranges[i].start
  PROVE  LET e == ByteRange(q.start, Later(q.end, ranges[i].end))
         IN e \in ByteRanges /\ Tight(e, ranges)
<1> DEFINE r == ranges[i]
           e == ByteRange(q.start, Later(q.end, r.end))
<1>1. /\ r.start \in Nat /\ r.end \in Nat /\ r.start <= r.end
      /\ q.start \in Nat /\ q.end \in Nat /\ q.start <= q.end
      /\ \A j \in DOMAIN ranges : ranges[j].start \in Nat /\ ranges[j].end \in Nat
                                    /\ ranges[j].start <= ranges[j].end
  BY DEF ByteRanges
<1>2. /\ e.start = q.start /\ e.end \in Nat
      /\ e.end = IF q.end > r.end THEN q.end ELSE r.end
      /\ e \in [start : Nat, end : Nat]
  BY <1>1 DEF ByteRange, Later
<1>3. r.start <= q.end + CoalesceGap /\ e.end - e.start <= MaxMerged
  BY <1>1, <1>2 DEF Joins, Later
<1> HIDE DEF e
<1>4. e \in ByteRanges
  BY <1>1, <1>2 DEF ByteRanges
<1>5. ~(e.end - e.start > MaxMerged)
  BY <1>1, <1>2, <1>3, CoalesceAssumption
<1>6. PICK j \in DOMAIN ranges : ranges[j].end = q.end
  BY DEF Tight
<1>7. \E k \in DOMAIN ranges : ranges[k].end = e.end
  BY <1>2, <1>6
<1>8. ASSUME NEW lo \in e.start..e.end, NEW hi \in e.start..e.end, hi - lo > CoalesceGap
      PROVE  \E k \in DOMAIN ranges : ranges[k].start < hi /\ ranges[k].end > lo
  <2>1. CASE hi <= q.end
    <3>1. lo \in q.start..q.end /\ hi \in q.start..q.end
      BY <1>1, <1>2, <1>8, <2>1, CoalesceAssumption
    <3> QED BY <1>8, <3>1 DEF Tight
  <2>2. CASE hi > q.end /\ r.start < hi
    <3>1. r.end > lo
      BY <1>1, <1>2, <1>8, <2>2, CoalesceAssumption
    <3> QED BY <2>2, <3>1
  <2>3. CASE hi > q.end /\ r.start >= hi
    <3>1. lo < q.end
      BY <1>1, <1>2, <1>3, <1>8, <2>3, CoalesceAssumption
    <3>2. ranges[j].start < hi /\ ranges[j].end > lo
      BY <1>1, <1>2, <1>6, <1>8, <2>3, <3>1
    <3> QED BY <3>2
  <2> QED BY <1>1, <1>2, <1>8, <2>1, <2>2, <2>3
<1>9. Tight(e, ranges)
  BY <1>5, <1>7, <1>8 DEF Tight
<1> QED BY <1>4, <1>9 DEF e

\* Requests only grow at their ends, so what lies inside one stays inside.
LEMMA StillInside ==
  ASSUME NEW ranges \in Seq(ByteRanges), NEW i \in DOMAIN ranges, NEW acc, NEW after,
         acc.reqs \in Seq(ByteRanges), after.reqs \in Seq(ByteRanges),
         Inside(acc, ranges, i), after.place[i] = acc.place[i],
         DOMAIN acc.reqs \subseteq DOMAIN after.reqs,
         \A k \in DOMAIN acc.reqs :
           after.reqs[k].start = acc.reqs[k].start /\ after.reqs[k].end >= acc.reqs[k].end
  PROVE  Inside(after, ranges, i)
<1> DEFINE k == acc.place[i].req
<1>1. /\ k \in DOMAIN acc.reqs /\ acc.place[i].off \in Nat
      /\ acc.reqs[k].start + acc.place[i].off = ranges[i].start
      /\ ranges[i].end <= acc.reqs[k].end
  BY DEF Inside
<1>2. ranges[i] \in ByteRanges
  OBVIOUS
<1> HIDE DEF k
<1>3. acc.reqs[k] \in ByteRanges /\ after.reqs[k] \in ByteRanges
  BY <1>1
<1>4. ranges[i].end \in Nat /\ acc.reqs[k].end \in Nat /\ after.reqs[k].end \in Nat
  BY <1>2, <1>3 DEF ByteRanges
<1>5. ranges[i].end <= after.reqs[k].end
  BY <1>1, <1>4
<1> QED BY <1>1, <1>5 DEF Inside, k

\* A round that leaves the accumulator `after`, with the n-th range placed at
\* the start of its last request or beyond, keeps all of it.
LEMMA RoundKeeps ==
  ASSUME NEW ranges \in Seq(ByteRanges), NEW n \in 1..Len(ranges), NEW acc, NEW after,
         Good(ranges, n - 1, acc),
         after.reqs \in Seq(ByteRanges), after.reqs # <<>>,
         DOMAIN acc.reqs \subseteq DOMAIN after.reqs,
         \A k \in DOMAIN acc.reqs :
           after.reqs[k].start = acc.reqs[k].start /\ after.reqs[k].end >= acc.reqs[k].end,
         \A k \in DOMAIN after.reqs : Tight(after.reqs[k], ranges),
         Last(after.reqs).start <= InOrder(ranges)[n].range.start,
         InOrder(ranges)[n].range.end <= Last(after.reqs).end,
         after.place = [acc.place EXCEPT ![InOrder(ranges)[n].pos] =
                          [req |-> Len(after.reqs),
                           off |-> InOrder(ranges)[n].range.start - Last(after.reqs).start]]
  PROVE  Good(ranges, n, after)
<1> DEFINE s == InOrder(ranges)
           L == Len(ranges)
           last == Last(after.reqs)
<1>1. /\ \A m \in 1..L : s[m].pos \in DOMAIN ranges /\ s[m].range = ranges[s[m].pos]
      /\ \A m \in 1..L : \A j \in 1..L : m < j => s[m].pos # s[j].pos
  BY InStartOrder
<1>2. n \in Nat /\ n # 0 /\ n \in 1..L /\ \A m \in 1..n : m = n \/ (m \in 1..(n - 1) /\ m < n /\ m \in 1..L)
  OBVIOUS
<1>3. /\ acc.reqs \in Seq(ByteRanges) /\ DOMAIN acc.place = DOMAIN ranges
      /\ \A m \in 1..(n - 1) : Inside(acc, ranges, s[m].pos)
  BY DEF Good
<1>4. /\ Len(after.reqs) \in DOMAIN after.reqs /\ last = after.reqs[Len(after.reqs)]
      /\ last \in ByteRanges
  BY DEF Last
<1> HIDE DEF s, L, last
<1>5. last.start \in Nat /\ s[n].range.start \in Nat /\ ranges[s[n].pos].start = s[n].range.start
      /\ ranges[s[n].pos].end = s[n].range.end
  <2>1. s[n].range \in ByteRanges
    BY <1>1, <1>2
  <2> QED BY <1>1, <1>2, <1>4, <2>1 DEF ByteRanges
<1>6. Inside(after, ranges, s[n].pos)
  <2> DEFINE p == after.place[s[n].pos]
  <2>1. p = [req |-> Len(after.reqs), off |-> s[n].range.start - last.start]
    BY <1>1, <1>2, <1>3 DEF s, last
  <2>2. p.off \in Nat /\ last.start + p.off = s[n].range.start
    <3>1. last.start <= s[n].range.start
      BY DEF s, last
    <3> QED BY <1>5, <2>1, <3>1
  <2>3. s[n].range.end <= last.end
    BY DEF s, last
  <2>4. p.req \in DOMAIN after.reqs /\ after.reqs[p.req] = last
    BY <1>4, <2>1
  <2> HIDE DEF p
  <2> QED BY <1>5, <2>2, <2>3, <2>4 DEF Inside, p
<1>7. ASSUME NEW m \in 1..(n - 1), m < n, m \in 1..L
      PROVE  Inside(after, ranges, s[m].pos)
  <2>1. Inside(acc, ranges, s[m].pos) /\ s[m].pos \in DOMAIN ranges /\ s[m].pos # s[n].pos
    BY <1>1, <1>2, <1>3, <1>7
  <2>2. after.place[s[m].pos] = acc.place[s[m].pos]
    BY <1>3, <2>1 DEF s
  <2> QED BY <1>3, <2>1, <2>2, StillInside
<1>8. \A m \in 1..n : Inside(after, ranges, s[m].pos)
  BY <1>2, <1>6, <1>7
<1>9. DOMAIN after.place = DOMAIN ranges
  BY <1>3
<1> QED BY <1>2, <1>8, <1>9 DEF Good, s, last

\* The loop body places the next range and keeps the others in place.
LEMMA RoundPlaces ==
  ASSUME NEW ranges \in Seq(ByteRanges), NEW n \in 1..Len(ranges), NEW acc,
         Good(ranges, n - 1, acc)
  PROVE  Good(ranges, n, PlaceRange(acc, InOrder(ranges)[n]))
<1> DEFINE x == InOrder(ranges)[n]
           r == x.range
           i == x.pos
           K == Len(acc.reqs)
           q == Last(acc.reqs)
           after == PlaceRange(acc, x)
<1>1. /\ i \in DOMAIN ranges /\ r = ranges[i] /\ n \in Nat /\ n # 0
      /\ n # 1 => n - 1 \in 1..Len(ranges) /\ n - 1 < n
      /\ \A m \in 1..Len(ranges) : m < n => InOrder(ranges)[m].range.start <= r.start
      /\ \A m \in 1..Len(ranges) : InOrder(ranges)[m].range \in ByteRanges
  <2> DEFINE s == InOrder(ranges)
  <2>1. /\ \A m \in 1..Len(ranges) : s[m].pos \in DOMAIN ranges /\ s[m].range = ranges[s[m].pos]
        /\ \A m \in 1..Len(ranges) : m < n => s[m].range.start <= s[n].range.start
    BY InStartOrder
  <2>2. \A j \in DOMAIN ranges : ranges[j] \in ByteRanges
    OBVIOUS
  <2>3. \A m \in 1..Len(ranges) : s[m].range \in ByteRanges
    BY <2>1, <2>2
  <2> QED BY <2>1, <2>3
<1>2. r \in ByteRanges /\ r.start \in Nat /\ r.end \in Nat /\ r.start <= r.end
  BY <1>1 DEF ByteRanges
<1>3. /\ acc.reqs \in Seq(ByteRanges) /\ DOMAIN acc.place = DOMAIN ranges
      /\ \A k \in DOMAIN acc.reqs : Tight(acc.reqs[k], ranges)
  BY DEF Good
<1>4. K \in Nat /\ DOMAIN acc.reqs = 1..K /\ \A k \in 1..K : acc.reqs[k] \in ByteRanges
  BY <1>3
<1>5. \A k \in 1..K : acc.reqs[k].start \in Nat /\ acc.reqs[k].end \in Nat
  BY <1>4 DEF ByteRanges
<1>6. CASE acc.reqs # <<>> /\ Joins(q, r)
  <2> DEFINE e == ByteRange(q.start, Later(q.end, r.end))
             reqs == [acc.reqs EXCEPT ![K] = e]
  <2>1. K \in 1..K /\ q = acc.reqs[K]
    BY <1>3, <1>4, <1>6 DEF Last
  <2>2. q.start <= r.start
    <3>1. n # 1 /\ q.start <= InOrder(ranges)[n - 1].range.start
      BY <1>6 DEF Good
    <3>2. InOrder(ranges)[n - 1].range.start <= r.start
      BY <1>1, <3>1
    <3>3. InOrder(ranges)[n - 1].range.start \in Nat
      BY <1>1, <3>1 DEF ByteRanges
    <3> QED BY <1>2, <1>5, <2>1, <3>1, <3>2, <3>3
  <2>3. e \in ByteRanges /\ Tight(e, ranges)
    <3>1. q \in ByteRanges /\ Tight(q, ranges) /\ Joins(q, ranges[i])
      BY <1>1, <1>3, <1>4, <1>6, <2>1
    <3> HIDE DEF q, r, i
    <3> QED BY <1>1, <2>2, <3>1, ExtendedIsTight
  <2>4. e.start = q.start /\ e.end >= q.end /\ e.end >= r.end
    BY <1>2, <1>5, <2>1 DEF ByteRange, Later
  <2>5. after.reqs = reqs
    BY <1>6 DEF PlaceRange, ReplaceAt
  <2>6. after.place = [acc.place EXCEPT ![i] = [req |-> Len(after.reqs), off |-> r.start - Last(after.reqs).start]]
    BY <2>5 DEF PlaceRange
  <2> HIDE DEF e, x, r, i, q, after
  <2>7. /\ reqs \in Seq(ByteRanges) /\ Len(reqs) = K /\ DOMAIN reqs = 1..K
        /\ reqs[K] = e /\ \A k \in 1..K : k # K => reqs[k] = acc.reqs[k]
    BY <1>3, <1>4, <2>1, <2>3
  <2> HIDE DEF reqs, K
  <2>8. Last(after.reqs) = e /\ after.reqs # <<>>
    BY <2>1, <2>5, <2>7 DEF Last
  <2>9. \A k \in DOMAIN acc.reqs : after.reqs[k].start = acc.reqs[k].start /\ after.reqs[k].end >= acc.reqs[k].end
    <3> TAKE k \in DOMAIN acc.reqs
    <3>1. k \in 1..K /\ acc.reqs[k].end \in Nat
      BY <1>4, <1>5
    <3>2. CASE k = K
      BY <2>1, <2>4, <2>5, <2>7, <3>2
    <3>3. CASE k # K
      <4>1. after.reqs[k] = acc.reqs[k]
        BY <2>5, <2>7, <3>1, <3>3
      <4> QED BY <3>1, <4>1
    <3> QED BY <3>2, <3>3
  <2>10. \A k \in DOMAIN after.reqs : Tight(after.reqs[k], ranges)
    BY <1>3, <1>4, <2>3, <2>5, <2>7
  <2>11. DOMAIN acc.reqs \subseteq DOMAIN after.reqs
    BY <1>4, <2>5, <2>7
  <2>12. Last(after.reqs).start <= r.start /\ r.end <= Last(after.reqs).end
    <3>1. e.end \in Nat
      BY <2>3 DEF ByteRanges
    <3> QED BY <1>2, <2>2, <2>4, <2>8, <3>1
  <2>13. after.reqs \in Seq(ByteRanges)
    BY <2>5, <2>7
  <2>14. Good(ranges, n, after)
    BY <2>6, <2>8, <2>9, <2>10, <2>11, <2>12, <2>13, RoundKeeps DEF i, r, x
  <2> QED BY <2>14 DEF after, x
<1>7. CASE ~(acc.reqs # <<>> /\ Joins(q, r))
  <2> DEFINE reqs == Append(acc.reqs, r)
  <2>1. after.reqs = reqs
    BY <1>7 DEF PlaceRange
  <2>2. after.place = [acc.place EXCEPT ![i] = [req |-> Len(after.reqs), off |-> r.start - Last(after.reqs).start]]
    BY <2>1 DEF PlaceRange
  <2> HIDE DEF x, r, i, q, after
  <2>3. /\ reqs \in Seq(ByteRanges) /\ Len(reqs) = K + 1 /\ DOMAIN reqs = 1..(K + 1)
        /\ reqs[K + 1] = r /\ \A k \in 1..K : reqs[k] = acc.reqs[k]
    BY <1>2, <1>3
  <2> HIDE DEF reqs, K
  <2>4. Last(after.reqs) = r /\ after.reqs # <<>>
    BY <1>4, <2>1, <2>3 DEF Last
  <2>5. \A k \in DOMAIN acc.reqs : after.reqs[k].start = acc.reqs[k].start /\ after.reqs[k].end >= acc.reqs[k].end
    BY <1>4, <1>5, <2>1, <2>3
  <2>6. Tight(r, ranges)
    BY <1>1, RangeIsTight
  <2>7. \A k \in DOMAIN after.reqs : Tight(after.reqs[k], ranges)
    <3> TAKE k \in DOMAIN after.reqs
    <3>1. k = K + 1 \/ k \in 1..K
      BY <1>4, <2>1, <2>3
    <3> QED BY <1>3, <1>4, <2>1, <2>3, <2>6, <3>1
  <2>8. DOMAIN acc.reqs \subseteq DOMAIN after.reqs
    BY <1>4, <2>1, <2>3
  <2>9. Last(after.reqs).start <= r.start /\ r.end <= Last(after.reqs).end
    BY <1>2, <2>4
  <2>10. after.reqs \in Seq(ByteRanges)
    BY <2>1, <2>3
  <2>11. Good(ranges, n, after)
    BY <2>2, <2>4, <2>5, <2>7, <2>8, <2>9, <2>10, RoundKeeps DEF i, r, x
  <2> QED BY <2>11 DEF after, x
<1> QED BY <1>6, <1>7

\* What coalesce returns for any list of ranges: requests that hold each range
\* where `place` says, and that are tight.
THEOREM MergePlaces ==
  ASSUME NEW ranges \in Seq(ByteRanges)
  PROVE  /\ Merge(ranges).reqs \in Seq(ByteRanges)
         /\ DOMAIN Merge(ranges).place = DOMAIN ranges
         /\ \A i \in DOMAIN ranges : Inside(Merge(ranges), ranges, i)
         /\ \A k \in DOMAIN Merge(ranges).reqs : Tight(Merge(ranges).reqs[k], ranges)
<1> DEFINE L == Len(ranges)
           T == {n \in 0..L : Good(ranges, n, PlacedFirst(ranges, n))}
<1>1. L \in Nat /\ DOMAIN ranges = 1..L
  OBVIOUS
<1>2. 0 \in T
  <2>1. Good(ranges, 0, Unplaced(ranges))
    BY DEF Good, Unplaced
  <2> QED BY <1>1, <2>1, MergeRounds
<1>3. ASSUME NEW n \in 0..(L - 1), n \in T
      PROVE  n + 1 \in T
  <2>1. n + 1 \in 1..L /\ n + 1 \in 0..L /\ (n + 1) - 1 = n
    BY <1>1
  <2>2. Good(ranges, n + 1, PlaceRange(PlacedFirst(ranges, n), InOrder(ranges)[n + 1]))
    BY <1>3, <2>1, RoundPlaces
  <2>3. PlacedFirst(ranges, n + 1) = PlaceRange(PlacedFirst(ranges, n), InOrder(ranges)[n + 1])
    BY <2>1, MergeRounds
  <2> QED BY <2>1, <2>2, <2>3
<1>4. L \in T
  <2> HIDE DEF T, L
  <2>1. 0..L \subseteq T
    BY <1>1, <1>2, <1>3, Placing!CountUp
  <2> QED BY <1>1, <2>1
<1>5. Good(ranges, L, Merge(ranges))
  BY <1>4, MergeRounds
<1>6. \A i \in DOMAIN ranges : \E n \in 1..L : InOrder(ranges)[n].pos = i
  BY InStartOrder
<1> QED BY <1>5, <1>6 DEF Good
=============================================================================

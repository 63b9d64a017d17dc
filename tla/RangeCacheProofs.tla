-------------------------- MODULE RangeCacheProofs --------------------------
(***************************************************************************)
(* For every set of keys, lengths and budgets: the cache's two indexes     *)
(* stay inverse to each other, the bytes counted are the bytes kept and    *)
(* within the budget, and an accepted range is kept by its own insertion.  *)
(***************************************************************************)
EXTENDS RangeCache, SequenceTheorems, FiniteSetTheorems, TLAPS

\* Ticks are numbers, so that a new one differs from all that are in use.
Ticking(c) == c.tick \in Nat /\ Ticks(c) \subseteq Nat

Matched(c) == Ticking(c) /\ OrderMatchesMap(c)

\* An emptied cache has nothing to match.
LEMMA EmptiedMatches ==
  ASSUME NEW tick \in Nat, NEW budget
  PROVE  Matched(Emptied(tick, budget))
BY DEF Matched, Ticking, OrderMatchesMap, Emptied, CacheOf, Keys, Ticks

\* Matching is about the two maps and the tick only.
LEMMA MatchedRecord ==
  ASSUME NEW c, Matched(c), NEW n \in Nat, n >= c.tick, NEW bytes, NEW budget
  PROVE  Matched(CacheOf(c.map, c.order, n, bytes, budget))
BY DEF Matched, Ticking, OrderMatchesMap, CacheOf, Keys, Ticks

\* Whatever set of ticks an eviction keeps, the two indexes lose the same
\* entries.
LEMMA EvictMatches ==
  ASSUME NEW c, Matched(c)
  PROVE  Matched(Evict(c)) /\ Evict(c).tick = c.tick
<1> DEFINE kept == Survivors(c)
           after == Evict(c)
<1>1. kept \subseteq Ticks(c)
  BY DEF Survivors
<1>2. /\ after.order = [t \in kept |-> c.order[t]]
      /\ after.map = [k \in {c.order[t] : t \in kept} |-> c.map[k]]
      /\ after.tick = c.tick
  BY DEF Evict, Restrict, CacheOf
<1> HIDE DEF kept, after
<1>3. Matched(after)
  BY <1>1, <1>2 DEF Matched, Ticking, Keys, Ticks, OrderMatchesMap
<1>4. QED
  BY <1>2, <1>3 DEF after

\* A hit moves its entry to a tick no other entry has.
LEMMA TouchMatches ==
  ASSUME NEW c, NEW key, Matched(c)
  PROVE  Matched(Touch(c, key))
<1> DEFINE now == c.tick + 1
           old == c.map[key].tick
           after == Touch(c, key)
<1>1. now \in Nat /\ now \notin Ticks(c) /\ now > c.tick
  BY DEF Matched, Ticking, OrderMatchesMap
<1>2. CASE key \notin Keys(c)
  <2>1. now \in Nat /\ now >= c.tick
    BY <1>1 DEF Matched, Ticking
  <2> HIDE DEF now
  <2>2. Matched(CacheOf(c.map, c.order, now, c.bytes, c.budget))
    BY <2>1, MatchedRecord
  <2>3. after = CacheOf(c.map, c.order, now, c.bytes, c.budget)
    BY <1>2 DEF Touch, now
  <2>4. QED
    BY <2>2, <2>3
<1>3. CASE key \in Keys(c)
  <2>1. /\ after.tick = now
        /\ after.order = [t \in (Ticks(c) \ {old}) \cup {now} |-> IF t = now THEN key ELSE c.order[t]]
        /\ after.map = [k \in Keys(c) |-> IF k = key THEN [b |-> c.map[k].b, tick |-> now] ELSE c.map[k]]
    BY <1>3 DEF Touch, CacheOf, Reordered
  <2>2. old \in Ticks(c) /\ c.order[old] = key
    BY <1>3 DEF Matched, OrderMatchesMap
  <2> HIDE DEF after, now, old
  <2>3. Ticking(after)
    BY <1>1, <2>1 DEF Matched, Ticking, Ticks
  <2>4. ASSUME NEW k \in Keys(after)
        PROVE  after.map[k].tick \in Ticks(after) /\ after.order[after.map[k].tick] = k
    BY <1>1, <1>3, <2>1, <2>2, <2>4 DEF Matched, OrderMatchesMap, Keys, Ticks, old
  <2>5. ASSUME NEW t \in Ticks(after)
        PROVE  after.order[t] \in Keys(after) /\ after.map[after.order[t]].tick = t /\ t <= after.tick
    BY <1>1, <1>3, <2>1, <2>2, <2>5 DEF Matched, OrderMatchesMap, Ticking, Keys, Ticks, old
  <2>6. QED
    BY <2>3, <2>4, <2>5 DEF Matched, OrderMatchesMap, after
<1>4. QED
  BY <1>2, <1>3

\* A new key goes to a tick no entry has.
LEMMA AddedMatches ==
  ASSUME NEW c, NEW key, NEW b, Matched(c), key \notin Keys(c)
  PROVE  Matched(Added(c, key, b, c.tick + 1))
<1> DEFINE now == c.tick + 1
           full == Added(c, key, b, now)
<1>1. now \in Nat /\ now \notin Ticks(c) /\ now > c.tick
  BY DEF Matched, Ticking, OrderMatchesMap
<1>2. /\ full.tick = now
      /\ full.order = [t \in Ticks(c) \cup {now} |-> IF t = now THEN key ELSE c.order[t]]
      /\ full.map = [k \in Keys(c) \cup {key} |-> IF k = key THEN [b |-> b, tick |-> now] ELSE c.map[k]]
  BY DEF Added, CacheOf
<1> HIDE DEF full, now
<1>3. Matched(full)
  BY <1>1, <1>2 DEF Matched, Ticking, OrderMatchesMap, Keys, Ticks
<1> QED BY <1>3 DEF full, now

-----------------------------------------------------------------------------
(* Sums of lengths. *)

Pick(S) == CHOOSE x \in S : TRUE
Sums == INSTANCE Folding WITH Op <- +, Choose <- Pick, Numbers <- Nat

\* What the lemmas about folds say, they say of sums.
LEMMA SumsAreFolds ==
  /\ Sums!Adds
  /\ \A S : Sums!Chooses(S)
  /\ \A f, S : SumFunctionOnSet(f, S) = Sums!Fold(0, f, S)
  /\ \A f, S : Sums!Summable(f, S) <=> IsFiniteSet(S) /\ \A s \in S : f[s] \in Nat
<1>1. Sums!Adds
  BY DEF Sums!Adds
<1>2. \A S : Sums!Chooses(S)
  BY DEF Sums!Chooses, Pick
<1>3. \A f, S : SumFunctionOnSet(f, S) = Sums!Fold(0, f, S)
  BY DEF SumFunctionOnSet, FoldFunctionOnSet, MapThenFoldSet, Sums!Fold, Sums!MapThenFoldSet, Pick
<1>4. \A S : Sums!IsFiniteSet(S) <=> IsFiniteSet(S)
  BY DEF IsFiniteSet, Sums!IsFiniteSet
<1>5. \A f, S : Sums!Summable(f, S) <=> IsFiniteSet(S) /\ \A s \in S : f[s] \in Nat
  BY <1>2, <1>4 DEF Sums!Summable
<1> QED BY <1>1, <1>2, <1>3, <1>5

\* Lengths are numbers, and there are finitely many entries.
Sized(c) == Matched(c) /\ \A k \in Keys(c) : c.map[k].b.len \in Nat

\* The lengths can be summed by tick.
LEMMA LensSummable ==
  ASSUME NEW c, Sized(c), NEW T \in SUBSET Ticks(c)
  PROVE  Sums!Summable(LensAt(c), T)
<1>1. IsFiniteSet(T)
  <2>1. T \in SUBSET (0..c.tick) /\ c.tick \in Nat
    BY DEF Sized, Matched, Ticking, OrderMatchesMap
  <2>2. IsFiniteSet(0..c.tick)
    BY <2>1, FS_Interval
  <2> QED BY <2>1, <2>2, FS_Subset
<1>2. \A t \in T : LensAt(c)[t] \in Nat
  BY DEF LensAt, Sized, Matched, OrderMatchesMap
<1> QED BY <1>1, <1>2, SumsAreFolds

\* The total of all entries is that of one and of the others.
LEMMA TotalOfAll ==
  ASSUME NEW c, Sized(c), NEW t \in Ticks(c)
  PROVE  TotalAt(c, Ticks(c)) = c.map[c.order[t]].b.len + TotalAt(c, Ticks(c) \ {t})
<1>1. TotalAt(c, Ticks(c)) = LensAt(c)[t] + TotalAt(c, Ticks(c) \ {t})
  BY LensSummable, SumsAreFolds, Sums!SumAny DEF TotalAt
<1> QED BY <1>1 DEF LensAt

\* Totals are numbers; one of several ticks is that of some and of the others.
LEMMA Totals ==
  ASSUME NEW c, Sized(c)
  PROVE  /\ \A T \in SUBSET Ticks(c) : TotalAt(c, T) \in Nat
         /\ \A T \in SUBSET Ticks(c) : \A U \in SUBSET T : TotalAt(c, T) = TotalAt(c, U) + TotalAt(c, T \ U)
         /\ TotalAt(c, {}) = 0
<1>1. \A T \in SUBSET Ticks(c) : TotalAt(c, T) \in Nat
  BY LensSummable, SumsAreFolds, Sums!SumAny DEF TotalAt
<1>2. ASSUME NEW T \in SUBSET Ticks(c), NEW U \in SUBSET T
      PROVE  TotalAt(c, T) = TotalAt(c, U) + TotalAt(c, T \ U)
  BY LensSummable, SumsAreFolds, Sums!SumSplit DEF TotalAt
<1>3. TotalAt(c, {}) = 0
  BY LensSummable, SumsAreFolds, Sums!SumAny DEF TotalAt
<1> QED BY <1>1, <1>2, <1>3

\* Entries that two caches share at their ticks count the same.
LEMMA TotalsAgree ==
  ASSUME NEW c, NEW d, Sized(c), NEW T \in SUBSET Ticks(c), T \subseteq Ticks(d),
         \A t \in T : d.map[d.order[t]].b = c.map[c.order[t]].b
  PROVE  TotalAt(d, T) = TotalAt(c, T)
<1>1. \A t \in T : LensAt(c)[t] = LensAt(d)[t]
  BY DEF LensAt
<1> QED BY <1>1, LensSummable, SumsAreFolds, Sums!SumSame DEF TotalAt

\* Entries have one tick each, so their bytes may be counted by key.
LEMMA CountedByKey ==
  ASSUME NEW c, Sized(c)
  PROVE  TotalAt(c, Ticks(c)) = SumFunction([k \in Keys(c) |-> c.map[k].b.len])
<1> DEFINE f == [k \in Keys(c) |-> c.map[k].b.len]
           names == {c.order[t] : t \in Ticks(c)}
<1>1. names = Keys(c)
  BY DEF Sized, Matched, OrderMatchesMap
<1>2. \A s, t \in Ticks(c) : c.order[s] = c.order[t] => s = t
  BY DEF Sized, Matched, OrderMatchesMap
<1>3. \A t \in Ticks(c) : LensAt(c)[t] = f[c.order[t]]
  BY <1>1 DEF LensAt
<1>4. IsFiniteSet(Ticks(c))
  BY LensSummable, SumsAreFolds
<1>5. Sums!Summable(f, names)
  <2>1. IsFiniteSet(names)
    <3>1. [t \in Ticks(c) |-> c.order[t]] \in Surjection(Ticks(c), names)
      BY DEF Surjection
    <3> QED BY <1>4, <3>1, FS_Surjection
  <2>2. \A k \in names : f[k] \in Nat
    BY <1>1 DEF Sized
  <2> HIDE DEF f, names
  <2> QED BY <2>1, <2>2, SumsAreFolds
<1> HIDE DEF f
<1>6. Sums!Fold(0, LensAt(c), Ticks(c)) = Sums!Fold(0, f, names)
  <2>1. Sums!Chooses(Ticks(c)) /\ Sums!Adds /\ Sums!IsFiniteSet(Ticks(c))
    BY LensSummable, SumsAreFolds DEF Sums!Summable
  <2> QED BY <1>2, <1>3, <1>5, <2>1, Sums!SumRenamed
<1>7. DOMAIN f = Keys(c)
  BY DEF f
<1> QED BY <1>1, <1>6, <1>7, SumsAreFolds DEF TotalAt, SumFunction, f

-----------------------------------------------------------------------------
(* The bytes counted. *)

Counted(c) == Sized(c) /\ c.budget \in Nat /\ c.bytes = TotalAt(c, Ticks(c))
Fits(c) == Counted(c) /\ c.bytes <= c.budget

\* Changing the budget or the tick counts nothing.
LEMMA CountedRecord ==
  ASSUME NEW c, Counted(c), NEW n \in Nat, n >= c.tick, NEW budget \in Nat
  PROVE  Counted(CacheOf(c.map, c.order, n, c.bytes, budget))
<1> DEFINE d == CacheOf(c.map, c.order, n, c.bytes, budget)
<1>1. d.map = c.map /\ d.order = c.order /\ d.bytes = c.bytes /\ d.budget = budget
      /\ Keys(d) = Keys(c) /\ Ticks(d) = Ticks(c)
  BY DEF CacheOf, Keys, Ticks
<1>2. Matched(d)
  BY MatchedRecord DEF Counted, Sized
<1> HIDE DEF d
<1>3. TotalAt(d, Ticks(d)) = TotalAt(c, Ticks(c))
  BY <1>1, TotalsAgree DEF Counted
<1>4. Counted(d)
  BY <1>1, <1>2, <1>3 DEF Counted, Sized
<1> QED BY <1>4 DEF d

\* What an eviction keeps is all that is not older than something kept.
LEMMA KeptAreLatest ==
  ASSUME NEW c, Counted(c), NEW t \in Survivors(c), NEW u \in Ticks(c), t <= u
  PROVE  u \in Survivors(c)
<1> DEFINE Old(n) == {s \in Ticks(c) : s < n}
<1>1. Old(t) \subseteq Old(u)
  BY DEF Counted, Sized, Matched, Ticking, Survivors
<1>2. /\ TotalAt(c, Old(u)) = TotalAt(c, Old(t)) + TotalAt(c, Old(u) \ Old(t))
      /\ TotalAt(c, Old(u)) \in Nat /\ TotalAt(c, Old(t)) \in Nat /\ TotalAt(c, Old(u) \ Old(t)) \in Nat
  <2>1. Sized(c) /\ Old(u) \in SUBSET Ticks(c) /\ Old(t) \in SUBSET Old(u)
    BY <1>1 DEF Counted
  <2> HIDE DEF Old
  <2> QED BY <2>1, Totals
<1>3. c.bytes \in Nat /\ c.budget \in Nat
  BY Totals DEF Counted
<1>4. c.bytes - TotalAt(c, Old(t)) <= c.budget
  BY DEF Survivors
<1>5. c.bytes - TotalAt(c, Old(u)) <= c.budget
  <2> HIDE DEF Old
  <2> QED BY <1>2, <1>3, <1>4
<1> QED BY <1>5 DEF Survivors

\* An eviction counts what it keeps, and that is within the budget.
LEMMA EvictFits ==
  ASSUME NEW c, Counted(c)
  PROVE  Fits(Evict(c))
<1> DEFINE kept == Survivors(c)
           gone == Ticks(c) \ kept
           after == Evict(c)
<1>1. kept \subseteq Ticks(c)
  BY DEF Survivors
<1>2. /\ after.order = [t \in kept |-> c.order[t]]
      /\ after.map = [k \in {c.order[t] : t \in kept} |-> c.map[k]]
      /\ after.bytes = c.bytes - TotalAt(c, gone)
      /\ after.budget = c.budget
  BY DEF Evict, Restrict, CacheOf
<1>3. Matched(after)
  BY EvictMatches DEF Counted, Sized
<1> HIDE DEF after, kept
<1>4. Ticks(after) = kept /\ \A t \in kept : after.map[after.order[t]].b = c.map[c.order[t]].b
  BY <1>2 DEF Ticks
<1>5. Sized(after)
  <2>1. \A k \in Keys(after) : after.map[k] = c.map[k] /\ k \in Keys(c)
    BY <1>1, <1>2 DEF Keys, Counted, Sized, Matched, OrderMatchesMap
  <2> QED BY <1>3, <2>1 DEF Sized, Counted
<1>6. TotalAt(after, kept) = TotalAt(c, kept)
  BY <1>1, <1>4, TotalsAgree DEF Counted
<1>7. /\ TotalAt(c, Ticks(c)) = TotalAt(c, gone) + TotalAt(c, Ticks(c) \ gone)
      /\ Ticks(c) \ gone = kept
      /\ TotalAt(c, gone) \in Nat /\ TotalAt(c, kept) \in Nat
  BY <1>1, Totals DEF Counted
<1>8. after.bytes = TotalAt(after, Ticks(after))
  <2>1. c.bytes = TotalAt(c, gone) + TotalAt(c, kept)
    BY <1>7 DEF Counted
  <2>2. after.bytes = TotalAt(c, kept)
    <3> HIDE DEF gone
    <3> QED BY <1>2, <1>7, <2>1
  <2> QED BY <1>4, <1>6, <2>2
<1>9. after.bytes <= after.budget
  <2>1. CASE kept = {}
    BY <1>2, <1>4, <1>8, <1>5, <2>1, Totals DEF Counted
  <2>2. CASE kept # {}
    <3>1. PICK m \in kept : \A t \in kept : m <= t
      <4>1. kept \in SUBSET Nat
        BY <1>1 DEF Counted, Sized, Matched, Ticking
      <4> QED BY <2>2, <4>1, Sums!LeastNatural
    <3>2. gone = {s \in Ticks(c) : s < m}
      <4>1. \A s \in Ticks(c) : s \in Nat
        BY DEF Counted, Sized, Matched, Ticking
      <4>2. ASSUME NEW s \in Ticks(c), m <= s PROVE s \in kept
        BY <4>2, KeptAreLatest DEF kept
      <4>3. m \in Nat
        BY <1>1, <4>1
      <4> QED BY <3>1, <4>1, <4>2, <4>3
    <3>3. c.bytes - TotalAt(c, {s \in Ticks(c) : s < m}) <= c.budget
      BY DEF Survivors, kept
    <3> QED BY <1>2, <3>2, <3>3
  <2> QED BY <2>1, <2>2
<1>10. Fits(after)
  BY <1>2, <1>5, <1>8, <1>9 DEF Fits, Counted
<1> QED BY <1>10 DEF after

\* A hit moves bytes from one tick to another.
LEMMA TouchFits ==
  ASSUME NEW c, NEW key, Fits(c)
  PROVE  Fits(Touch(c, key))
<1> DEFINE now == c.tick + 1
           old == c.map[key].tick
           after == Touch(c, key)
<1>1. now \in Nat /\ now \notin Ticks(c) /\ now > c.tick /\ c.tick \in Nat
  BY DEF Fits, Counted, Sized, Matched, Ticking, OrderMatchesMap
<1>2. CASE key \notin Keys(c)
  <2> HIDE DEF now
  <2>1. Counted(CacheOf(c.map, c.order, now, c.bytes, c.budget))
    BY <1>1, CountedRecord DEF Fits, Counted
  <2>2. after = CacheOf(c.map, c.order, now, c.bytes, c.budget)
    BY <1>2 DEF Touch, now
  <2>3. after.bytes = c.bytes /\ after.budget = c.budget
    BY <2>2 DEF CacheOf
  <2> QED BY <2>1, <2>2, <2>3 DEF Fits
<1>3. CASE key \in Keys(c)
  <2>1. /\ after.order = [t \in (Ticks(c) \ {old}) \cup {now} |-> IF t = now THEN key ELSE c.order[t]]
        /\ after.map = [k \in Keys(c) |-> IF k = key THEN [b |-> c.map[k].b, tick |-> now] ELSE c.map[k]]
        /\ after.bytes = c.bytes /\ after.budget = c.budget
    BY <1>3 DEF Touch, CacheOf, Reordered
  <2>2. old \in Ticks(c) /\ c.order[old] = key
    BY <1>3 DEF Fits, Counted, Sized, Matched, OrderMatchesMap
  <2>3. Matched(after)
    BY TouchMatches DEF Fits, Counted, Sized
  <2> HIDE DEF after, now, old
  <2> DEFINE rest == Ticks(c) \ {old}
  <2>4. /\ Ticks(after) = rest \cup {now} /\ now \notin rest
        /\ after.map[after.order[now]].b = c.map[c.order[old]].b
        /\ \A k \in Keys(after) : k \in Keys(c) /\ after.map[k].b = c.map[k].b
    BY <1>1, <1>3, <2>1, <2>2 DEF Ticks, Keys
  <2>5. Sized(after)
    BY <2>3, <2>4 DEF Sized, Fits, Counted
  <2>6. \A t \in rest : after.map[after.order[t]].b = c.map[c.order[t]].b
    BY <2>1, <2>4, <1>1 DEF Fits, Counted, Sized, Matched, OrderMatchesMap
  <2>7. TotalAt(after, rest) = TotalAt(c, rest)
    BY <2>4, <2>6, TotalsAgree DEF Fits, Counted
  <2>8. TotalAt(after, Ticks(after)) = after.map[after.order[now]].b.len + TotalAt(after, Ticks(after) \ {now})
    <3> now \in Ticks(after)
      BY <2>4
    <3> QED BY <2>5, TotalOfAll
  <2>9. TotalAt(c, Ticks(c)) = c.map[c.order[old]].b.len + TotalAt(c, rest)
    BY <2>2, TotalOfAll DEF Fits, Counted
  <2>10. Ticks(after) \ {now} = rest
    BY <2>4
  <2>11. TotalAt(after, Ticks(after)) = TotalAt(c, Ticks(c))
    BY <2>4, <2>7, <2>8, <2>9, <2>10
  <2>12. Fits(after)
    BY <2>1, <2>5, <2>11 DEF Fits, Counted
  <2> QED BY <2>12 DEF after
<1> QED BY <1>2, <1>3

\* A new entry is counted before what does not fit is evicted.
LEMMA AddedCounted ==
  ASSUME NEW c, NEW key, NEW b, Fits(c), Accepts(c, key, b), b.len \in Nat
  PROVE  LET full == Added(c, key, b, c.tick + 1)
         IN /\ Counted(full)
            /\ full.bytes = c.bytes + b.len /\ full.budget = c.budget
            /\ Ticks(full) = Ticks(c) \cup {c.tick + 1} /\ c.tick + 1 \notin Ticks(c)
            /\ full.order[c.tick + 1] = key
            /\ TotalAt(full, Ticks(c)) = c.bytes
<1> DEFINE now == c.tick + 1
           full == Added(c, key, b, now)
<1>1. now \in Nat /\ now \notin Ticks(c) /\ now > c.tick
  BY DEF Fits, Counted, Sized, Matched, Ticking, OrderMatchesMap
<1>2. /\ full.order = [t \in Ticks(c) \cup {now} |-> IF t = now THEN key ELSE c.order[t]]
      /\ full.map = [k \in Keys(c) \cup {key} |-> IF k = key THEN [b |-> b, tick |-> now] ELSE c.map[k]]
      /\ full.bytes = c.bytes + b.len /\ full.budget = c.budget
  BY DEF Added, CacheOf
<1>3. key \notin Keys(c)
  BY DEF Accepts
<1>4. Matched(full)
  BY <1>3, AddedMatches DEF Fits, Counted, Sized
<1> HIDE DEF full, now
<1>5. /\ Ticks(full) = Ticks(c) \cup {now}
      /\ full.order[now] = key /\ full.map[key].b = b
      /\ Keys(full) = Keys(c) \cup {key}
      /\ \A k \in Keys(c) : full.map[k] = c.map[k]
  BY <1>2, <1>3 DEF Ticks, Keys
<1>6. Sized(full)
  BY <1>4, <1>5 DEF Sized, Fits, Counted
<1>7. \A t \in Ticks(c) : full.map[full.order[t]].b = c.map[c.order[t]].b
  BY <1>1, <1>2, <1>5 DEF Fits, Counted, Sized, Matched, OrderMatchesMap
<1>8. TotalAt(full, Ticks(c)) = TotalAt(c, Ticks(c))
  BY <1>5, <1>7, TotalsAgree DEF Fits, Counted
<1>9. TotalAt(full, Ticks(full)) = b.len + TotalAt(full, Ticks(full) \ {now})
  <2>1. now \in Ticks(full) /\ full.map[full.order[now]].b = b
    BY <1>5
  <2> QED BY <1>6, <2>1, TotalOfAll
<1>10. Ticks(full) \ {now} = Ticks(c)
  BY <1>1, <1>5
<1>11. c.bytes = TotalAt(c, Ticks(c)) /\ c.bytes \in Nat /\ c.budget \in Nat
  BY Totals DEF Fits, Counted
<1>12. full.bytes = TotalAt(full, Ticks(full))
  <2>1. TotalAt(full, Ticks(full)) = b.len + c.bytes
    BY <1>8, <1>9, <1>10, <1>11
  <2> QED BY <1>2, <1>11, <2>1
<1>13. Counted(full)
  BY <1>2, <1>6, <1>11, <1>12 DEF Counted
<1> QED BY <1>1, <1>2, <1>5, <1>8, <1>11, <1>13 DEF full, now

\* So an insertion fits.
LEMMA InsertFits ==
  ASSUME NEW c, NEW key, NEW b, Fits(c), b.len \in Nat
  PROVE  Fits(Insert(c, key, b))
<1>1. CASE Accepts(c, key, b)
  BY <1>1, AddedCounted, EvictFits DEF Insert
<1>2. CASE ~Accepts(c, key, b)
  BY <1>2 DEF Insert
<1> QED BY <1>1, <1>2

\* Without all that was there before it, the new entry is within the budget.
LEMMA InsertKeeps ==
  ASSUME NEW c, NEW key, NEW b, Fits(c), Accepts(c, key, b), b.len \in Nat
  PROVE  key \in Keys(Insert(c, key, b))
<1> DEFINE now == c.tick + 1
           full == Added(c, key, b, now)
<1>1. /\ Counted(full) /\ full.bytes = c.bytes + b.len /\ full.budget = c.budget
      /\ Ticks(full) = Ticks(c) \cup {now} /\ now \notin Ticks(c)
      /\ full.order[now] = key
      /\ TotalAt(full, Ticks(c)) = c.bytes
  BY AddedCounted
<1>2. Insert(c, key, b) = Evict(full)
  BY DEF Insert
<1>3. now \in Nat /\ \A t \in Ticks(c) : t < now
  BY DEF Fits, Counted, Sized, Matched, Ticking, OrderMatchesMap
<1> HIDE DEF now, full
<1>4. {s \in Ticks(full) : s < now} = Ticks(c)
  BY <1>1, <1>3
<1>5. full.bytes - TotalAt(full, Ticks(c)) <= full.budget
  <2>1. c.bytes \in Nat /\ b.len <= c.budget
    BY Totals DEF Fits, Counted, Accepts
  <2> QED BY <1>1, <2>1
<1>6. now \in Survivors(full)
  BY <1>1, <1>4, <1>5 DEF Survivors
<1>7. Keys(Evict(full)) = {full.order[t] : t \in Survivors(full)}
  BY DEF Evict, CacheOf, Restrict, Keys
<1> QED BY <1>1, <1>2, <1>6, <1>7

-----------------------------------------------------------------------------
(* The cache's machine. *)

\* Every call of the lock's holder leaves the cache matched, counted and
\* within its budget.
IInv == Fits(cache)

\* The empty cache of a session.
LEMMA InitFits ==
  ASSUME NEW tick \in Nat, NEW budget \in Nat
  PROVE  Fits(Emptied(tick, budget))
<1> DEFINE c == Emptied(tick, budget)
<1>1. Matched(c)
  BY EmptiedMatches
<1>2. c.bytes = 0 /\ c.budget = budget /\ Keys(c) = {} /\ Ticks(c) = {}
  BY DEF Emptied, CacheOf, Keys, Ticks
<1> HIDE DEF c
<1>3. Sized(c)
  BY <1>1, <1>2 DEF Sized
<1>4. Fits(c)
  BY <1>2, <1>3, Totals DEF Fits, Counted
<1> QED BY <1>4 DEF c

\* No call breaks it.
LEMMA StepFits == IInv /\ [Next]_cache => IInv'
<1> SUFFICES ASSUME IInv, [Next]_cache PROVE IInv'
  OBVIOUS
<1>1. ASSUME NEW k \in Key, DoGet(k) PROVE IInv'
  BY <1>1, TouchFits DEF DoGet, IInv
<1>2. ASSUME NEW k \in Key, NEW n \in Lens, DoInsert(k, n) PROVE IInv'
  <2>1. [len |-> n].len \in Nat
    BY LensAssumption
  <2> QED BY <1>2, <2>1, InsertFits DEF DoInsert, IInv
<1>3. ASSUME NEW n \in Budgets, DoSetBudget(n) PROVE IInv'
  <2>1. cache.tick \in Nat /\ cache.tick >= cache.tick /\ n \in Nat
    BY BudgetsAssumption DEF IInv, Fits, Counted, Sized, Matched, Ticking
  <2>2. Counted(CacheOf(cache.map, cache.order, cache.tick, cache.bytes, n))
    BY <2>1, CountedRecord DEF IInv, Fits
  <2> QED BY <1>3, <2>2, EvictFits DEF DoSetBudget, SetBudget, IInv
<1>4. ASSUME DoClear PROVE IInv'
  BY <1>4, InitFits DEF DoClear, Clear, IInv, Fits, Counted, Sized, Matched, Ticking
<1>5. CASE UNCHANGED cache
  BY <1>5 DEF IInv
<1> QED BY <1>1, <1>2, <1>3, <1>4, <1>5 DEF Next

\* It holds from the start.
LEMMA StartFits == Init => IInv
BY InitFits, BudgetsAssumption DEF Init, IInv

\* Under any sequence of gets, inserts, budget changes and clears, the two
\* indexes of the cache (map and order) name the same entries.
THEOREM IndexesMatch == Spec => []OrderMatches
<1>1. IInv => OrderMatches
  BY DEF IInv, Fits, Counted, Sized, Matched, OrderMatches
<1> QED BY <1>1, StartFits, StepFits, PTL DEF Spec

\* Under any such sequence, the count kept by adding and subtracting is the
\* number of bytes the entries hold, and never more than the budget: the loop
\* of evict (range_cache.rs) neither stops early nor takes too little off.
THEOREM BudgetKept == Spec => []WithinBudget
<1>1. IInv => WithinBudget
  BY CountedByKey DEF IInv, Fits, Counted, WithinBudget, BytesAreCounted
<1> QED BY <1>1, StartFits, StepFits, PTL DEF Spec

\* A range within the budget is in the cache when insert returns: the eviction
\* it causes takes older entries only.  Any other is refused, and evicts nothing.
THEOREM AcceptedIsKept == Spec => []InsertKeepsItsRange
<1>1. IInv => InsertKeepsItsRange
  <2> SUFFICES ASSUME IInv, NEW k \in Key, NEW n \in Lens
               PROVE  LET after == Insert(cache, k, [len |-> n])
                      IN IF n \in 1..cache.budget THEN k \in Keys(after) ELSE after = cache
    BY DEF InsertKeepsItsRange
  <2> DEFINE b == [len |-> n]
  <2>1. b.len = n /\ n \in Nat
    BY LensAssumption
  <2>2. CASE Accepts(cache, k, b)
    <3>1. k \in Keys(Insert(cache, k, b))
      BY <2>1, <2>2, InsertKeeps DEF IInv
    <3>2. n \in 1..cache.budget
      BY <2>1, <2>2 DEF IInv, Accepts
    <3> QED BY <3>1, <3>2
  <2>3. CASE ~Accepts(cache, k, b)
    <3>1. Insert(cache, k, b) = cache
      BY <2>3 DEF Insert
    <3>2. n \in 1..cache.budget => k \in Keys(cache)
      BY <2>1, <2>3 DEF Accepts
    <3> QED BY <3>1, <3>2
  <2> QED BY <2>2, <2>3
<1> QED BY <1>1, StartFits, StepFits, PTL DEF Spec
-----------------------------------------------------------------------------
(* Listing numbers in ascending order. *)

\* s lists the numbers T, each once, in ascending order.
Ascends(s, T) ==
  /\ s \in Seq(Nat)
  /\ {s[i] : i \in 1..Len(s)} = T
  /\ \A i, j \in 1..Len(s) : i < j => s[i] < s[j]

\* Two such lists begin alike.
LEMMA AscendAlike ==
  ASSUME NEW T, NEW s, NEW t, Ascends(s, T), Ascends(t, T)
  PROVE  Len(s) <= Len(t) /\ \A i \in 1..Len(s) : s[i] = t[i]
<1> DEFINE L == Len(s)
           M == Len(t)
           Alike == {n \in 0..L : n <= M /\ \A i \in 1..n : s[i] = t[i]}
<1>1. /\ L \in Nat /\ M \in Nat
      /\ \A i \in 1..L : s[i] \in Nat /\ \E k \in 1..M : s[i] = t[k]
      /\ \A i \in 1..M : t[i] \in Nat /\ \E k \in 1..L : t[i] = s[k]
  <2>1. L \in Nat /\ \A i \in 1..L : s[i] \in Nat
    BY ElementOfSeq, LenProperties DEF Ascends
  <2>2. M \in Nat /\ \A i \in 1..M : t[i] \in Nat
    BY ElementOfSeq, LenProperties DEF Ascends
  <2>3. {s[i] : i \in 1..L} = {t[i] : i \in 1..M}
    BY DEF Ascends
  <2> HIDE DEF L, M
  <2> QED BY <2>1, <2>2, <2>3
<1>2. /\ \A i, j \in 1..L : i < j => s[i] < s[j]
      /\ \A i, j \in 1..M : i < j => t[i] < t[j]
  BY DEF Ascends
<1> HIDE DEF L, M
<1>3. 0 \in Alike
  BY <1>1
<1>4. ASSUME NEW n \in 0..(L - 1), n \in Alike
      PROVE  n + 1 \in Alike
  <2> DEFINE i == n + 1
  <2>1. i \in 1..L /\ i \in 0..L /\ n <= M /\ n \in Nat /\ \A j \in 1..n : s[j] = t[j]
    BY <1>1, <1>4
  <2>2. PICK k \in 1..M : s[i] = t[k]
    BY <1>1, <2>1
  <2>3. k >= i
    <3>1. SUFFICES ASSUME k < i PROVE FALSE
      BY <2>1
    <3>2. k \in 1..n /\ k \in 1..L
      BY <1>1, <2>1, <2>2, <3>1
    <3>3. s[k] = s[i] /\ s[k] < s[i] /\ s[i] \in Nat
      BY <1>1, <1>2, <2>1, <2>2, <3>1, <3>2
    <3> QED BY <3>3
  <2>4. i \in 1..M
    BY <1>1, <2>1, <2>2, <2>3
  <2>5. t[i] <= s[i]
    <3>1. t[i] \in Nat /\ t[k] \in Nat
      BY <1>1, <2>2, <2>4
    <3>2. t[i] < t[k] \/ i = k
      BY <1>2, <2>2, <2>3, <2>4
    <3> QED BY <2>2, <3>1, <3>2
  <2>6. PICK m \in 1..L : t[i] = s[m]
    BY <1>1, <2>4
  <2>7. m >= i
    <3>1. SUFFICES ASSUME m < i PROVE FALSE
      BY <2>1
    <3>2. m \in 1..n /\ m \in 1..M
      BY <1>1, <2>1, <2>4, <2>6, <3>1
    <3>3. t[m] = t[i] /\ t[m] < t[i] /\ t[i] \in Nat
      BY <1>1, <1>2, <2>1, <2>4, <2>6, <3>1, <3>2
    <3> QED BY <3>3
  <2>8. s[i] <= t[i]
    <3>1. s[i] \in Nat /\ s[m] \in Nat
      BY <1>1, <2>1, <2>6
    <3>2. s[i] < s[m] \/ i = m
      BY <1>2, <2>1, <2>6, <2>7
    <3> QED BY <2>6, <3>1, <3>2
  <2>9. s[i] = t[i]
    <3>1. s[i] \in Nat
      BY <1>1, <2>1
    <3>2. t[i] \in Nat
      BY <1>1, <2>4
    <3> HIDE DEF i
    <3> QED BY <2>5, <2>8, <3>1, <3>2
  <2>10. \A j \in 1..i : j \in 1..n \/ j = i
    BY <2>1
  <2> QED BY <2>1, <2>4, <2>9, <2>10
<1> HIDE DEF Alike
<1>5. L \in Alike
  <2>1. 0..L \subseteq Alike
    BY <1>1, <1>3, <1>4, Sums!CountUp
  <2> QED BY <1>1, <2>1
<1> QED BY <1>5 DEF Alike, L, M

\* So there is one such list.
LEMMA AscendUnique ==
  ASSUME NEW T, NEW s, NEW t, Ascends(s, T), Ascends(t, T)
  PROVE  s = t
<1>1. Len(s) \in Nat /\ Len(t) \in Nat
  BY DEF Ascends
<1>a. Len(s) <= Len(t) /\ Len(t) <= Len(s)
  BY AscendAlike
<1>2. \A i \in 1..Len(s) : s[i] = t[i]
  BY AscendAlike
<1> QED BY <1>1, <1>a, <1>2, SeqEqual DEF Ascends

\* And there is one for every set of numbers with a bound.
LEMMA SomeAscends ==
  ASSUME NEW n \in Nat, NEW T0 \in SUBSET (0..n)
  PROVE  \E s \in [1..Cardinality(T0) -> T0] : \A i, j \in DOMAIN s : i < j => s[i] < s[j]
<1> DEFINE Listed(T) == \E s \in [1..Cardinality(T) -> T] : \A i, j \in DOMAIN s : i < j => s[i] < s[j]
           F == {T \in SUBSET T0 : ~Listed(T)}
<1>1. SUFFICES ASSUME F # {} PROVE FALSE
  OBVIOUS
<1>2. \A T \in SUBSET T0 : IsFiniteSet(T) /\ Cardinality(T) \in Nat
  <2>1. IsFiniteSet(T0)
    <3>1. 0 \in Int /\ n \in Int
      OBVIOUS
    <3>2. IsFiniteSet(0..n)
      BY <3>1, FS_Interval
    <3> QED BY <3>2, FS_Subset
  <2> QED BY <2>1, FS_Subset, FS_CardinalityType
<1>3. PICK T \in F : \A U \in F : Cardinality(T) <= Cardinality(U)
  <2>1. \A U \in F : Sums!IsFiniteSet(U)
    BY <1>2 DEF IsFiniteSet, Sums!IsFiniteSet
  <2>2. \A U : Sums!Cardinality(U) = Cardinality(U)
    BY DEF Cardinality, Sums!Cardinality
  <2> HIDE DEF F
  <2> QED BY <1>1, <2>1, <2>2, Sums!SmallestSet
<1>4. T # {}
  <2>1. SUFFICES ASSUME T = {} PROVE Listed(T)
    BY <1>3
  <2>2. Cardinality(T) = 0
    BY <2>1, FS_EmptySet
  <2> DEFINE s == [i \in 1..0 |-> 0]
  <2>3. s \in [1..Cardinality(T) -> T] /\ DOMAIN s = {}
    BY <2>2
  <2> QED BY <2>3
<1>5. T \in SUBSET (0..n)
  OBVIOUS
<1>6. PICK m \in T : \A x \in T : x <= m
  BY <1>4, <1>5, Sums!GreatestNatural
<1> DEFINE U == T \ {m}
           K == Cardinality(T)
<1>7. /\ IsFiniteSet(U) /\ Cardinality(U) = K - 1 /\ K \in Nat /\ Cardinality(U) \in Nat
      /\ U \in SUBSET T0 /\ m \in Nat /\ \A x \in U : x < m /\ x \in Nat
  <2>1. \A x \in U : x # m /\ x <= m /\ x \in Nat /\ m \in Nat
    BY <1>6
  <2> QED BY <1>2, <1>6, <2>1, FS_RemoveElement
<1>8. Listed(U)
  <2>1. ~(K <= K - 1)
    BY <1>7
  <2> HIDE DEF Listed
  <2> QED BY <1>3, <1>7, <2>1
<1>9. PICK s \in [1..(K - 1) -> U] : \A i, j \in DOMAIN s : i < j => s[i] < s[j]
  BY <1>7, <1>8
<1> DEFINE w == [i \in 1..K |-> IF i = K THEN m ELSE s[i]]
<1> HIDE DEF K
<1>10. \A i \in 1..K : i = K \/ i \in 1..(K - 1)
  BY <1>7
<1>11. w \in [1..K -> T]
  BY <1>6, <1>9, <1>10
<1>12. \A i, j \in DOMAIN w : i < j => w[i] < w[j]
  <2> SUFFICES ASSUME NEW i \in 1..K, NEW j \in 1..K, i < j PROVE w[i] < w[j]
    BY DEF w
  <2>1. i # K /\ i \in 1..(K - 1) /\ w[i] = s[i] /\ s[i] \in U /\ DOMAIN s = 1..(K - 1)
    BY <1>7, <1>9, <1>10
  <2>2. CASE j = K
    BY <1>7, <2>1, <2>2
  <2>3. CASE j # K
    BY <1>9, <1>10, <2>1, <2>3
  <2> QED BY <2>2, <2>3
<1>13. Listed(T)
  <2> HIDE DEF w
  <2> QED BY <1>11, <1>12 DEF K
<1> QED BY <1>3, <1>13

\* The ticks of a cache are listed.
LEMMA ByAgeAscends ==
  ASSUME NEW c, Sized(c)
  PROVE  Ascends(ByAge(c), Ticks(c))
<1> DEFINE T == Ticks(c)
           K == Cardinality(T)
           s == ByAge(c)
<1>1. T \in SUBSET (0..c.tick) /\ c.tick \in Nat
  BY DEF Sized, Matched, Ticking, OrderMatchesMap
<1>2. IsFiniteSet(T) /\ K \in Nat
  BY LensSummable, SumsAreFolds, FS_CardinalityType
<1>3. s \in [1..K -> T] /\ \A i, j \in DOMAIN s : i < j => s[i] < s[j]
  <2>1. \E w \in [1..K -> T] : \A i, j \in DOMAIN w : i < j => w[i] < w[j]
    BY <1>1, SomeAscends
  <2> QED BY <2>1 DEF ByAge
<1> HIDE DEF T, K, s
<1>4. \A t \in T : t \in Nat
  BY <1>1
<1>5. s \in Seq(Nat) /\ Len(s) = K
  BY <1>2, <1>3, <1>4
<1>6. s \in Injection(1..K, T)
  <2>1. \A i, j \in 1..K : i < j \/ j < i \/ i = j
    BY <1>2
  <2>2. \A i, j \in 1..K : i < j => s[i] # s[j]
    BY <1>3, <1>4
  <2>3. \A i, j \in 1..K : s[i] = s[j] => i = j
    BY <2>1, <2>2
  <2> QED BY <1>3, <2>3 DEF Injection, IsInjective
<1>7. s \in Surjection(1..K, T)
  <2>1. 1 \in Int /\ K \in Int
    BY <1>2
  <2>2. Cardinality(1..K) = K
    BY <1>2, <2>1, FS_Interval
  <2> QED BY <1>2, <1>6, <2>2, FS_Injection DEF K
<1>8. {s[i] : i \in 1..Len(s)} = T
  BY <1>5, <1>7 DEF Surjection
<1>9. Ascends(s, T)
  BY <1>3, <1>5, <1>8 DEF Ascends
<1> QED BY <1>9 DEF s, T

\* A sequence without its i-th element.
LEMMA RemoveAtIs ==
  ASSUME NEW X, NEW s \in Seq(X), NEW i \in 1..Len(s)
  PROVE  /\ RemoveAt(s, i) \in Seq(X)
         /\ Len(RemoveAt(s, i)) = Len(s) - 1
         /\ \A j \in 1..(Len(s) - 1) : RemoveAt(s, i)[j] = IF j < i THEN s[j] ELSE s[j + 1]
<1> DEFINE L == Len(s)
           a == SubSeq(s, 1, i - 1)
           b == SubSeq(s, i + 1, L)
<1>1. L \in Nat /\ i \in 1..L /\ \A j \in 1..L : s[j] \in X
  OBVIOUS
<1>2. 1 \in Int /\ i - 1 \in Int /\ i + 1 \in Int /\ L \in Int
  BY <1>1
<1>3. /\ \A j \in 1..(i - 1) : s[j] \in X
      /\ \A j \in (i + 1)..L : s[j] \in X
  <2>1. /\ \A j \in 1..(i - 1) : j \in 1..L
        /\ \A j \in (i + 1)..L : j \in 1..L
    BY <1>1
  <2> QED BY <1>1, <2>1
<1> HIDE DEF L
<1>4. /\ a \in Seq(X) /\ Len(a) = i - 1
      /\ \A j \in 1..(i - 1) : a[j] = s[j]
  <2>1. /\ a \in Seq(X)
        /\ Len(a) = IF 1 <= i - 1 THEN (i - 1) - 1 + 1 ELSE 0
        /\ \A j \in 1..((i - 1) - 1 + 1) : a[j] = s[1 + j - 1]
    BY <1>2, <1>3, SubSeqProperties
  <2>2. (i - 1) - 1 + 1 = i - 1 /\ \A j \in 1..(i - 1) : 1 + j - 1 = j
    BY <1>1
  <2>3. Len(a) = i - 1
    BY <1>1, <2>1, <2>2
  <2> HIDE DEF a
  <2> QED BY <2>1, <2>2, <2>3
<1>5. /\ b \in Seq(X) /\ Len(b) = L - i
      /\ \A j \in 1..(L - i) : b[j] = s[i + j]
  <2>1. /\ b \in Seq(X)
        /\ Len(b) = IF i + 1 <= L THEN L - (i + 1) + 1 ELSE 0
        /\ \A j \in 1..(L - (i + 1) + 1) : b[j] = s[(i + 1) + j - 1]
    BY <1>2, <1>3, SubSeqProperties
  <2>2. L - (i + 1) + 1 = L - i /\ \A j \in 1..(L - i) : (i + 1) + j - 1 = i + j
    BY <1>1
  <2>3. Len(b) = L - i
    BY <1>1, <2>1, <2>2
  <2> HIDE DEF b
  <2> QED BY <2>1, <2>2, <2>3
<1>6. RemoveAt(s, i) = a \o b
  BY DEF RemoveAt, L
<1> HIDE DEF a, b
<1>7. /\ a \o b \in Seq(X)
      /\ Len(a \o b) = Len(a) + Len(b)
      /\ \A j \in 1..(Len(a) + Len(b)) :
           (a \o b)[j] = IF j <= Len(a) THEN a[j] ELSE b[j - Len(a)]
  BY <1>4, <1>5, ConcatProperties
<1>8. Len(a) + Len(b) = L - 1
  BY <1>1, <1>4, <1>5
<1>9. ASSUME NEW j \in 1..(L - 1)
      PROVE  (a \o b)[j] = IF j < i THEN s[j] ELSE s[j + 1]
  <2>1. CASE j < i
    <3>1. j \in 1..(i - 1) /\ j <= Len(a) /\ j \in 1..(Len(a) + Len(b))
      BY <1>1, <1>4, <1>8, <2>1
    <3> QED BY <1>4, <1>7, <2>1, <3>1
  <2>2. CASE ~(j < i)
    <3>1. /\ j - Len(a) \in 1..(L - i) /\ ~(j <= Len(a)) /\ j \in 1..(Len(a) + Len(b))
          /\ i + (j - Len(a)) = j + 1
      BY <1>1, <1>4, <1>8, <2>2
    <3> QED BY <1>5, <1>7, <2>2, <3>1
  <2> QED BY <2>1, <2>2
<1> QED BY <1>6, <1>7, <1>8, <1>9 DEF L

\* The end of a sequence.
LEMMA SuffixIs ==
  ASSUME NEW X, NEW s \in Seq(X), NEW m \in 1..(Len(s) + 1)
  PROVE  /\ SubSeq(s, m, Len(s)) \in Seq(X)
         /\ Len(SubSeq(s, m, Len(s))) = Len(s) + 1 - m
         /\ \A j \in 1..(Len(s) + 1 - m) : SubSeq(s, m, Len(s))[j] = s[m + j - 1]
<1> DEFINE L == Len(s)
<1>1. L \in Nat /\ m \in 1..(L + 1) /\ \A j \in 1..L : s[j] \in X
  OBVIOUS
<1> HIDE DEF L
<1>2. m \in Int /\ L \in Int /\ \A j \in m..L : s[j] \in X
  <2>1. \A j \in m..L : j \in 1..L
    BY <1>1
  <2> QED BY <1>1, <2>1
<1>3. /\ SubSeq(s, m, L) \in Seq(X)
      /\ Len(SubSeq(s, m, L)) = IF m <= L THEN L - m + 1 ELSE 0
      /\ \A j \in 1..(L - m + 1) : SubSeq(s, m, L)[j] = s[m + j - 1]
  BY <1>2, SubSeqProperties
<1>4. L - m + 1 = L + 1 - m /\ (~(m <= L) => 0 = L + 1 - m)
  BY <1>1
<1> QED BY <1>3, <1>4 DEF L

\* A later number goes to the end of the list.
LEMMA AscendAppend ==
  ASSUME NEW T, NEW s, Ascends(s, T), NEW n \in Nat, \A t \in T : t < n
  PROVE  Ascends(Append(s, n), T \cup {n})
<1> DEFINE L == Len(s)
           w == Append(s, n)
<1>1. L \in Nat /\ s \in Seq(Nat) /\ \A i \in 1..L : s[i] \in T
  BY DEF Ascends
<1>2. /\ w \in Seq(Nat) /\ Len(w) = L + 1 /\ w[L + 1] = n
      /\ \A i \in 1..L : w[i] = s[i]
  BY <1>1, AppendProperties
<1>3. {s[i] : i \in 1..L} = T /\ \A i, j \in 1..L : i < j => s[i] < s[j]
  BY DEF Ascends
<1> HIDE DEF L, w
<1>4. \A i \in 1..(L + 1) : i = L + 1 \/ i \in 1..L
  BY <1>1
<1>5. L + 1 \in 1..(L + 1) /\ \A i \in 1..L : i \in 1..(L + 1)
  BY <1>1
<1>6. {w[i] : i \in 1..(L + 1)} = T \cup {n}
  BY <1>2, <1>3, <1>4, <1>5
<1>7. ASSUME NEW i \in 1..(L + 1), NEW j \in 1..(L + 1), i < j
      PROVE  w[i] < w[j]
  <2>1. i \in 1..L
    BY <1>1, <1>7
  <2>2. CASE j = L + 1
    BY <1>1, <1>2, <2>1, <2>2
  <2>3. CASE j \in 1..L
    BY <1>2, <1>3, <1>7, <2>1, <2>3
  <2> QED BY <1>4, <2>2, <2>3
<1> QED BY <1>2, <1>6, <1>7 DEF Ascends, w

\* One number less.
LEMMA AscendRemove ==
  ASSUME NEW T, NEW s, Ascends(s, T), NEW i \in 1..Len(s)
  PROVE  Ascends(RemoveAt(s, i), T \ {s[i]})
<1> DEFINE L == Len(s)
           w == RemoveAt(s, i)
<1>1. L \in Nat /\ i \in 1..L /\ s \in Seq(Nat) /\ \A j \in 1..L : s[j] \in Nat
  BY DEF Ascends
<1>2. /\ w \in Seq(Nat) /\ Len(w) = L - 1
      /\ \A j \in 1..(L - 1) : w[j] = IF j < i THEN s[j] ELSE s[j + 1]
  BY <1>1, RemoveAtIs
<1>3. {s[j] : j \in 1..L} = T /\ \A j, k \in 1..L : j < k => s[j] < s[k]
  BY DEF Ascends
<1> HIDE DEF L, w
<1>4. \A j \in 1..(L - 1) : j \in 1..L /\ j + 1 \in 1..L
  BY <1>1
<1>5. ASSUME NEW j \in 1..L, NEW k \in 1..L, s[j] = s[k]
      PROVE  j = k
  <2>1. j < k \/ k < j \/ j = k
    BY <1>1
  <2> QED BY <1>1, <1>3, <1>5, <2>1
<1>6. {w[j] : j \in 1..(L - 1)} = T \ {s[i]}
  <2>1. ASSUME NEW j \in 1..(L - 1) PROVE w[j] \in T /\ w[j] # s[i]
    <3>1. CASE j < i
      <4>1. j # i /\ w[j] = s[j]
        BY <1>1, <1>2, <3>1
      <4> QED BY <1>1, <1>3, <1>4, <1>5, <4>1
    <3>2. CASE ~(j < i)
      <4>1. j + 1 # i /\ w[j] = s[j + 1]
        BY <1>1, <1>2, <3>2
      <4> QED BY <1>1, <1>3, <1>4, <1>5, <4>1
    <3> QED BY <3>1, <3>2
  <2>2. ASSUME NEW x \in T, x # s[i] PROVE \E j \in 1..(L - 1) : w[j] = x
    <3>1. PICK k \in 1..L : s[k] = x
      BY <1>3
    <3>2. CASE k < i
      <4>1. k \in 1..(L - 1)
        BY <1>1, <3>2
      <4> QED BY <1>2, <3>1, <3>2, <4>1
    <3>3. CASE k > i
      <4>1. k - 1 \in 1..(L - 1) /\ ~(k - 1 < i) /\ (k - 1) + 1 = k
        BY <1>1, <3>3
      <4> QED BY <1>2, <3>1, <4>1
    <3> QED BY <1>1, <2>2, <3>1, <3>2, <3>3
  <2> QED BY <2>1, <2>2
<1>7. ASSUME NEW j \in 1..(L - 1), NEW k \in 1..(L - 1), j < k
      PROVE  w[j] < w[k]
  <2>1. /\ w[j] = s[j] \/ w[j] = s[j + 1]
        /\ w[k] = s[k] \/ w[k] = s[k + 1]
        /\ w[k] = s[k] => w[j] = s[j]
    <3>1. k < i => j < i
      BY <1>1, <1>7
    <3>2. s[k] = s[k + 1] => k = k + 1
      BY <1>4, <1>5
    <3>3. k # k + 1
      OBVIOUS
    <3> QED BY <1>2, <3>1, <3>2, <3>3
  <2>2. j < k + 1 /\ j + 1 < k + 1
    BY <1>7
  <2> QED BY <1>3, <1>4, <1>7, <2>1, <2>2
<1> QED BY <1>2, <1>6, <1>7 DEF Ascends, w

\* The latest numbers are the end of the list.
LEMMA AscendSuffix ==
  ASSUME NEW T, NEW s, Ascends(s, T), NEW m \in 1..(Len(s) + 1)
  PROVE  Ascends(SubSeq(s, m, Len(s)), {s[j] : j \in m..Len(s)})
<1> DEFINE L == Len(s)
           w == SubSeq(s, m, L)
           R == L + 1 - m
<1>1. L \in Nat /\ m \in 1..(L + 1) /\ s \in Seq(Nat)
  BY DEF Ascends
<1>2. w \in Seq(Nat) /\ Len(w) = R /\ \A j \in 1..R : w[j] = s[m + j - 1]
  BY <1>1, SuffixIs
<1>3. \A j, k \in 1..L : j < k => s[j] < s[k]
  BY DEF Ascends
<1> HIDE DEF L, w
<1>4. /\ \A j \in 1..R : m + j - 1 \in m..L /\ m + j - 1 \in 1..L
      /\ \A k \in m..L : k + 1 - m \in 1..R /\ m + (k + 1 - m) - 1 = k
      /\ \A j, k \in 1..R : j < k => m + j - 1 < m + k - 1
  BY <1>1
<1> HIDE DEF R
<1>5. {w[j] : j \in 1..R} = {s[j] : j \in m..L}
  BY <1>2, <1>4
<1>6. \A j, k \in 1..R : j < k => w[j] < w[k]
  BY <1>2, <1>3, <1>4
<1>7. Ascends(w, {s[j] : j \in m..L})
  BY <1>2, <1>5, <1>6 DEF Ascends
<1> QED BY <1>7 DEF w, L

-----------------------------------------------------------------------------
(* The entries by last use. *)

\* What e has for each number listed.
Through(e, s) == [i \in 1..Len(s) |-> e[s[i]]]

Entries(c) == [t \in Ticks(c) |-> EntryAt(c, t)]

\* The entries are those at the ticks, in whatever way these are listed.
LEMMA RecencyIs ==
  ASSUME NEW c, Sized(c), NEW s, Ascends(s, Ticks(c))
  PROVE  Recency(c) = Through(Entries(c), s)
<1>1. ByAge(c) = s
  BY ByAgeAscends, AscendUnique
<1>2. DOMAIN s = 1..Len(s) /\ \A i \in 1..Len(s) : s[i] \in Ticks(c)
  BY DEF Ascends
<1> QED BY <1>1, <1>2 DEF Recency, Through, Entries

\* An entry for every number listed.
LEMMA ThroughSeq ==
  ASSUME NEW T, NEW s, Ascends(s, T), NEW E, NEW e, \A t \in T : e[t] \in E
  PROVE  /\ Through(e, s) \in Seq(E)
         /\ Len(Through(e, s)) = Len(s) /\ DOMAIN Through(e, s) = 1..Len(s)
         /\ \A i \in 1..Len(s) : Through(e, s)[i] = e[s[i]] /\ s[i] \in T
<1> DEFINE L == Len(s)
           w == Through(e, s)
<1>1. L \in Nat /\ \A i \in 1..L : s[i] \in T
  BY DEF Ascends
<1>2. w = [i \in 1..L |-> e[s[i]]]
  BY DEF Through
<1> HIDE DEF L, w
<1>3. w \in [1..L -> E] /\ \A i \in 1..L : w[i] = e[s[i]]
  BY <1>1, <1>2
<1>4. w \in Seq(E) /\ Len(w) = L
  BY <1>1, <1>3
<1> QED BY <1>1, <1>3, <1>4 DEF w, L

\* Maps and orders that are the same list the same entries.
LEMMA RecencySame ==
  ASSUME NEW c, NEW d, c.map = d.map, c.order = d.order
  PROVE  Recency(c) = Recency(d)
BY DEF Recency, ByAge, EntryAt, LensAt, Ticks

\* A hit moves its entry to the end.
LEMMA RecencyTouched ==
  ASSUME NEW c, NEW key, Fits(c), key \in Keys(c)
  PROVE  \E i \in DOMAIN Recency(c) :
           /\ Recency(c)[i].key = key
           /\ Recency(Touch(c, key)) = Append(RemoveAt(Recency(c), i), Recency(c)[i])
<1> DEFINE now == c.tick + 1
           old == c.map[key].tick
           after == Touch(c, key)
           s == ByAge(c)
           e == Entries(c)
           d == Entries(after)
           L == Len(s)
<1>1. now \in Nat /\ now \notin Ticks(c) /\ \A t \in Ticks(c) : t < now /\ t \in Nat
  BY DEF Fits, Counted, Sized, Matched, Ticking, OrderMatchesMap
<1>2. /\ after.order = [t \in (Ticks(c) \ {old}) \cup {now} |-> IF t = now THEN key ELSE c.order[t]]
      /\ after.map = [k \in Keys(c) |-> IF k = key THEN [b |-> c.map[k].b, tick |-> now] ELSE c.map[k]]
  BY DEF Touch, CacheOf, Reordered
<1>3. old \in Ticks(c) /\ c.order[old] = key /\ \A t \in Ticks(c) : c.order[t] \in Keys(c)
  BY DEF Fits, Counted, Sized, Matched, OrderMatchesMap
<1>4. Sized(c) /\ Sized(after)
  BY TouchFits DEF Fits, Counted
<1>5. Ascends(s, Ticks(c))
  BY <1>4, ByAgeAscends
<1> HIDE DEF after, s, now, old
<1>6. Ticks(after) = (Ticks(c) \ {old}) \cup {now}
  BY <1>2 DEF Ticks
<1>7. /\ DOMAIN e = Ticks(c) /\ DOMAIN d = Ticks(after)
      /\ \A t \in Ticks(c) \ {old} : d[t] = e[t]
      /\ d[now] = e[old] /\ e[old].key = key
  <2>1. /\ \A t \in Ticks(c) : e[t] = [key |-> c.order[t], len |-> c.map[c.order[t]].b.len]
        /\ \A t \in Ticks(after) : d[t] = [key |-> after.order[t], len |-> after.map[after.order[t]].b.len]
    BY DEF Entries, EntryAt, LensAt
  <2>2. ASSUME NEW t \in Ticks(c) \ {old}
        PROVE  after.order[t] = c.order[t] /\ c.order[t] \in Keys(c) /\ t \in Ticks(after)
    BY <1>1, <1>2, <1>3, <1>6
  <2>3. \A k \in Keys(c) : after.map[k].b.len = c.map[k].b.len
    BY <1>2
  <2>4. after.order[now] = key /\ now \in Ticks(after)
    BY <1>2, <1>6
  <2>5. DOMAIN e = Ticks(c) /\ DOMAIN d = Ticks(after)
    BY DEF Entries
  <2> HIDE DEF e, d
  <2>6. ASSUME NEW t \in Ticks(c) \ {old}
        PROVE  d[t] = e[t]
    <3>1. d[t] = [key |-> c.order[t], len |-> after.map[c.order[t]].b.len]
      BY <2>1, <2>2
    <3>2. e[t] = [key |-> c.order[t], len |-> c.map[c.order[t]].b.len]
      BY <2>1
    <3> QED BY <2>2, <2>3, <3>1, <3>2
  <2>7. d[now] = e[old] /\ e[old].key = key
    <3>1. d[now] = [key |-> key, len |-> after.map[key].b.len]
      BY <2>1, <2>4
    <3>2. e[old] = [key |-> key, len |-> c.map[key].b.len]
      BY <1>3, <2>1
    <3> QED BY <2>3, <3>1, <3>2
  <2> QED BY <2>5, <2>6, <2>7
<1>8. PICK i \in 1..L : s[i] = old
  BY <1>3, <1>5 DEF Ascends
<1> DEFINE r == RemoveAt(s, i)
           w == Append(r, now)
<1>9. Ascends(r, Ticks(c) \ {old})
  BY <1>5, <1>8, AscendRemove
<1>10. Ascends(w, Ticks(after))
  <2> HIDE DEF r
  <2> QED BY <1>1, <1>6, <1>9, AscendAppend
<1>11. /\ s \in Seq(Nat) /\ r \in Seq(Nat) /\ L \in Nat /\ Len(r) = L - 1
       /\ \A j \in 1..(L - 1) : r[j] = IF j < i THEN s[j] ELSE s[j + 1]
       /\ Len(w) = L /\ w[L] = now /\ \A j \in 1..(L - 1) : w[j] = r[j]
  <2>1. s \in Seq(Nat) /\ L \in Nat
    BY <1>5 DEF Ascends
  <2>2. /\ r \in Seq(Nat) /\ Len(r) = L - 1
        /\ \A j \in 1..(L - 1) : r[j] = IF j < i THEN s[j] ELSE s[j + 1]
    BY <2>1, RemoveAtIs
  <2> HIDE DEF r, L
  <2>3. /\ Len(w) = (L - 1) + 1 /\ w[(L - 1) + 1] = now
        /\ \A j \in 1..(L - 1) : w[j] = r[j]
    BY <1>1, <2>2, AppendProperties
  <2>4. (L - 1) + 1 = L
    BY <2>1
  <2> QED BY <2>1, <2>2, <2>3, <2>4
<1> DEFINE E == {e[t] : t \in Ticks(c)}
           before == Through(e, s)
           moved == Append(RemoveAt(before, i), before[i])
<1>12. /\ before \in Seq(E) /\ Len(before) = L /\ DOMAIN before = 1..L
       /\ \A j \in 1..L : before[j] = e[s[j]] /\ s[j] \in Ticks(c) /\ before[j] \in E
  <2>1. \A t \in Ticks(c) : e[t] \in E
    OBVIOUS
  <2> HIDE DEF e, E
  <2>2. /\ before \in Seq(E) /\ Len(before) = L /\ DOMAIN before = 1..L
        /\ \A j \in 1..L : before[j] = e[s[j]] /\ s[j] \in Ticks(c)
    BY <1>5, <2>1, ThroughSeq
  <2> QED BY <2>1, <2>2
<1> HIDE DEF r, w, e, d, before, E, L
<1>13. /\ RemoveAt(before, i) \in Seq(E) /\ Len(RemoveAt(before, i)) = L - 1
       /\ \A j \in 1..(L - 1) : RemoveAt(before, i)[j] = IF j < i THEN before[j] ELSE before[j + 1]
  BY <1>8, <1>12, RemoveAtIs
<1>14. /\ moved \in Seq(E) /\ Len(moved) = L /\ moved[L] = before[i]
       /\ \A j \in 1..(L - 1) : moved[j] = RemoveAt(before, i)[j]
  <2> DEFINE q == RemoveAt(before, i)
  <2>1. q \in Seq(E) /\ Len(q) = L - 1 /\ before[i] \in E /\ (L - 1) + 1 = L
    BY <1>8, <1>11, <1>12, <1>13
  <2> HIDE DEF q
  <2>2. /\ Append(q, before[i]) \in Seq(E) /\ Len(Append(q, before[i])) = Len(q) + 1
        /\ Append(q, before[i])[Len(q) + 1] = before[i]
        /\ \A j \in 1..Len(q) : Append(q, before[i])[j] = q[j]
    BY <2>1, AppendProperties
  <2> QED BY <2>1, <2>2 DEF q
<1> HIDE DEF moved
<1>15. ASSUME NEW j \in 1..(L - 1)
       PROVE  d[w[j]] = moved[j]
  <2>1. j \in 1..L /\ j + 1 \in 1..L
    BY <1>11
  <2>2. r[j] \in Ticks(c) \ {old}
    BY <1>9, <1>11 DEF Ascends
  <2>3. moved[j] = IF j < i THEN before[j] ELSE before[j + 1]
    BY <1>13, <1>14
  <2>4. before[j] = e[s[j]] /\ before[j + 1] = e[s[j + 1]]
    BY <1>12, <2>1
  <2>5. r[j] = IF j < i THEN s[j] ELSE s[j + 1]
    BY <1>11
  <2>6. moved[j] = e[r[j]]
    BY <2>3, <2>4, <2>5
  <2> QED BY <1>7, <1>11, <2>2, <2>6
<1>16. d[w[L]] = moved[L]
  BY <1>7, <1>8, <1>11, <1>12, <1>14
<1>17. Through(d, w) = moved
  <2>1. \A j \in 1..L : j = L \/ j \in 1..(L - 1)
    BY <1>11
  <2>2. moved = [j \in 1..L |-> moved[j]]
    BY <1>14
  <2>3. Through(d, w) = [j \in 1..L |-> d[w[j]]]
    BY <1>11 DEF Through
  <2>4. \A j \in 1..L : d[w[j]] = moved[j]
    BY <1>15, <1>16, <2>1
  <2> QED BY <2>2, <2>3, <2>4
<1>18. Recency(after) = moved
  BY <1>4, <1>10, <1>17, RecencyIs DEF d
<1>19. Recency(c) = before
  BY <1>4, <1>5, RecencyIs DEF before, e
<1>20. before[i].key = key /\ i \in DOMAIN before
  BY <1>7, <1>8, <1>12
<1> QED BY <1>18, <1>19, <1>20 DEF moved, after

\* A new entry goes to the end.
LEMMA RecencyAdded ==
  ASSUME NEW c, NEW key, NEW b, Fits(c), Accepts(c, key, b), b.len \in Nat
  PROVE  Recency(Added(c, key, b, c.tick + 1)) = Append(Recency(c), [key |-> key, len |-> b.len])
<1> DEFINE now == c.tick + 1
           full == Added(c, key, b, now)
           s == ByAge(c)
           e == Entries(c)
           d == Entries(full)
           L == Len(s)
           x == [key |-> key, len |-> b.len]
<1>1. now \in Nat /\ now \notin Ticks(c) /\ \A t \in Ticks(c) : t < now /\ t \in Nat
  BY DEF Fits, Counted, Sized, Matched, Ticking, OrderMatchesMap
<1>2. /\ full.order = [t \in Ticks(c) \cup {now} |-> IF t = now THEN key ELSE c.order[t]]
      /\ full.map = [k \in Keys(c) \cup {key} |-> IF k = key THEN [b |-> b, tick |-> now] ELSE c.map[k]]
  BY DEF Added, CacheOf
<1>3. key \notin Keys(c) /\ \A t \in Ticks(c) : c.order[t] \in Keys(c)
  BY DEF Accepts, Fits, Counted, Sized, Matched, OrderMatchesMap
<1>4. Sized(c) /\ Sized(full)
  BY AddedCounted DEF Fits, Counted
<1>5. Ascends(s, Ticks(c))
  BY <1>4, ByAgeAscends
<1> HIDE DEF full, s, now
<1>6. Ticks(full) = Ticks(c) \cup {now}
  BY <1>2 DEF Ticks
<1>7. (\A t \in Ticks(c) : d[t] = e[t]) /\ d[now] = x
  <2>1. /\ \A t \in Ticks(c) : e[t] = [key |-> c.order[t], len |-> c.map[c.order[t]].b.len]
        /\ \A t \in Ticks(full) : d[t] = [key |-> full.order[t], len |-> full.map[full.order[t]].b.len]
    BY DEF Entries, EntryAt, LensAt
  <2> HIDE DEF e, d
  <2>2. ASSUME NEW t \in Ticks(c)
        PROVE  d[t] = e[t]
    <3>1. full.order[t] = c.order[t] /\ t \in Ticks(full)
      BY <1>1, <1>2, <1>6
    <3>2. full.map[c.order[t]] = c.map[c.order[t]]
      BY <1>2, <1>3
    <3> QED BY <2>1, <3>1, <3>2
  <2>3. d[now] = x
    <3>1. full.order[now] = key /\ now \in Ticks(full) /\ full.map[key].b = b
      BY <1>2, <1>6
    <3> QED BY <2>1, <3>1
  <2> QED BY <2>2, <2>3
<1> DEFINE w == Append(s, now)
<1>8. Ascends(w, Ticks(full))
  BY <1>1, <1>5, <1>6, AscendAppend
<1>9. /\ L \in Nat /\ Len(w) = L + 1 /\ w[L + 1] = now
      /\ \A j \in 1..L : w[j] = s[j] /\ s[j] \in Ticks(c)
  <2>1. s \in Seq(Nat) /\ \A j \in 1..L : s[j] \in Ticks(c)
    BY <1>5 DEF Ascends
  <2> QED BY <1>1, <2>1, AppendProperties
<1> DEFINE E == {e[t] : t \in Ticks(c)} \cup {x}
           before == Through(e, s)
           longer == Append(before, x)
<1>10. /\ before \in Seq(E) /\ Len(before) = L
       /\ \A j \in 1..L : before[j] = e[s[j]]
  <2>1. \A t \in Ticks(c) : e[t] \in E
    OBVIOUS
  <2> HIDE DEF e, E
  <2> QED BY <1>5, <2>1, ThroughSeq
<1>11. x \in E
  OBVIOUS
<1> HIDE DEF w, e, d, before, E, L, x
<1>12. /\ longer \in Seq(E) /\ Len(longer) = L + 1 /\ longer[L + 1] = x
       /\ \A j \in 1..L : longer[j] = before[j]
  BY <1>10, <1>11, AppendProperties
<1> HIDE DEF longer
<1>13. Through(d, w) = longer
  <2>1. \A j \in 1..(L + 1) : j = L + 1 \/ j \in 1..L
    BY <1>9
  <2>2. longer = [j \in 1..(L + 1) |-> longer[j]]
    BY <1>12
  <2>3. Through(d, w) = [j \in 1..(L + 1) |-> d[w[j]]]
    BY <1>9 DEF Through
  <2>4. \A j \in 1..(L + 1) : d[w[j]] = longer[j]
    BY <1>7, <1>9, <1>10, <1>12, <2>1
  <2> QED BY <2>2, <2>3, <2>4
<1>14. Recency(full) = longer
  BY <1>4, <1>8, <1>13, RecencyIs DEF d
<1>15. Recency(c) = before
  BY <1>4, <1>5, RecencyIs DEF before, e
<1> QED BY <1>14, <1>15 DEF longer, full, x, now

\* The bytes from an entry on are those at the ticks from its own on.
LEMMA TotalsFrom ==
  ASSUME NEW c, Sized(c), NEW i \in 1..(Len(ByAge(c)) + 1)
  PROVE  Lru!TotalFrom(Recency(c), i) = TotalAt(c, {ByAge(c)[j] : j \in i..Len(ByAge(c))})
<1> DEFINE s == ByAge(c)
           L == Len(s)
           f == LensAt(c)
           g == [j \in DOMAIN Recency(c) |-> Recency(c)[j].len]
           J == i..L
           T == {s[j] : j \in J}
<1>1. Ascends(s, Ticks(c))
  BY ByAgeAscends
<1>2. /\ L \in Nat /\ i \in 1..(L + 1) /\ \A j \in 1..L : s[j] \in Ticks(c) /\ s[j] \in Nat
      /\ \A j, k \in 1..L : j < k => s[j] < s[k]
  BY <1>1 DEF Ascends
<1> HIDE DEF s, L
<1>3. J \in SUBSET (1..L) /\ IsFiniteSet(J)
  <2>1. \A j \in i..L : j \in 1..L
    BY <1>2
  <2>2. i \in Int /\ L \in Int
    BY <1>2
  <2> QED BY <2>1, <2>2, FS_Interval
<1>4. DOMAIN Recency(c) = 1..L /\ Len(Recency(c)) = L /\ \A j \in 1..L : Recency(c)[j].len = f[s[j]]
  <2>1. Recency(c) = [j \in 1..L |-> Entries(c)[s[j]]]
    BY <1>1, RecencyIs DEF Through, L
  <2>2. \A j \in 1..L : Entries(c)[s[j]].len = f[s[j]]
    BY <1>2 DEF Entries, EntryAt
  <2> HIDE DEF f
  <2> QED BY <1>2, <2>1, <2>2
<1> HIDE DEF J
<1>5. \A j \in J : g[j] = f[s[j]]
  BY <1>3, <1>4
<1>6. Lru!TotalFrom(Recency(c), i) = Sums!Fold(0, g, J)
  BY <1>4 DEF Lru!TotalFrom, Lru!SumFunctionOnSet, Lru!FoldFunctionOnSet, Lru!MapThenFoldSet,
              Sums!Fold, Sums!MapThenFoldSet, Pick, J
<1>7. \A j, k \in J : s[j] = s[k] => j = k
  <2>1. \A j, k \in 1..L : j < k \/ k < j \/ j = k
    BY <1>2
  <2>2. \A j, k \in 1..L : j < k => s[j] # s[k]
    BY <1>2
  <2> QED BY <1>3, <2>1, <2>2
<1>8. T \in SUBSET Ticks(c)
  BY <1>2, <1>3
<1>9. Sums!Summable(f, T)
  BY <1>8, LensSummable
<1>10. Sums!IsFiniteSet(J)
  BY <1>3 DEF IsFiniteSet, Sums!IsFiniteSet
<1> HIDE DEF f, g
<1>11. Sums!Fold(0, g, J) = Sums!Fold(0, f, T)
  BY <1>5, <1>7, <1>9, <1>10, SumsAreFolds, Sums!SumRenamed
<1> QED BY <1>6, <1>11, SumsAreFolds DEF TotalAt, T, f, J, L, s

\* An eviction leaves the longest end of the list that fits.
LEMMA RecencyEvicted ==
  ASSUME NEW c, Counted(c)
  PROVE  Recency(Evict(c)) = Lru!Fitting(Recency(c), c.budget)
<1> DEFINE s == ByAge(c)
           L == Len(s)
           R == Recency(c)
           kept == Survivors(c)
           fits == {i \in 1..(L + 1) : Lru!TotalFrom(R, i) <= c.budget}
           From(i) == {s[j] : j \in i..L}
<1>1. Sized(c) /\ Ascends(s, Ticks(c)) /\ c.budget \in Nat /\ c.bytes = TotalAt(c, Ticks(c))
  BY ByAgeAscends DEF Counted
<1>2. /\ L \in Nat /\ s \in Seq(Nat)
      /\ \A j \in 1..L : s[j] \in Ticks(c) /\ s[j] \in Nat
      /\ \A j, k \in 1..L : j < k => s[j] < s[k]
      /\ \A t \in Ticks(c) : \E j \in 1..L : s[j] = t
  BY <1>1 DEF Ascends
<1>3. \A i \in 1..(L + 1) : Lru!TotalFrom(R, i) = TotalAt(c, From(i))
  BY <1>1, TotalsFrom
<1> HIDE DEF s, L, R
<1>4. ASSUME NEW i \in 1..L
      PROVE  s[i] \in kept <=> i \in fits
  <2> DEFINE old == {t \in Ticks(c) : t < s[i]}
  <2>1. From(i) = Ticks(c) \ old
    <3>1. ASSUME NEW j \in i..L PROVE s[j] \in Ticks(c) \ old
      <4>1. j \in 1..L /\ (i < j \/ i = j)
        BY <1>2
      <4>2. ~(s[j] < s[i])
        BY <1>2, <4>1
      <4> QED BY <1>2, <4>1, <4>2
    <3>2. ASSUME NEW t \in Ticks(c) \ old PROVE \E j \in i..L : s[j] = t
      <4>1. PICK j \in 1..L : s[j] = t
        BY <1>2
      <4>2. ~(j < i)
        BY <1>2, <4>1
      <4>3. j \in i..L
        BY <1>2, <4>2
      <4> QED BY <4>1, <4>3
    <3> QED BY <3>1, <3>2
  <2>2. old \in SUBSET Ticks(c)
    OBVIOUS
  <2> HIDE DEF From, kept, fits
  <2>3. /\ TotalAt(c, Ticks(c)) = TotalAt(c, old) + TotalAt(c, Ticks(c) \ old)
        /\ TotalAt(c, old) \in Nat /\ TotalAt(c, Ticks(c) \ old) \in Nat
    <3> HIDE DEF old
    <3> QED BY <1>1, <2>2, Totals
  <2>4. s[i] \in kept <=> c.bytes - TotalAt(c, old) <= c.budget
    BY <1>2 DEF kept, Survivors
  <2>5. i \in 1..(L + 1)
    BY <1>2
  <2>6. i \in fits <=> TotalAt(c, Ticks(c) \ old) <= c.budget
    BY <1>3, <2>1, <2>5 DEF fits
  <2> HIDE DEF old
  <2> QED BY <1>1, <2>3, <2>4, <2>6
<1>5. L + 1 \in fits
  <2>1. L + 1 \in 1..(L + 1) /\ (L + 1)..L = {}
    BY <1>2
  <2>2. From(L + 1) = {}
    BY <2>1
  <2> HIDE DEF From
  <2>3. Lru!TotalFrom(R, L + 1) = 0
    BY <1>1, <1>3, <2>1, <2>2, Totals
  <2> QED BY <1>1, <2>1, <2>3
<1> DEFINE m == CHOOSE i \in fits : \A j \in fits : i <= j
<1>6. m \in fits /\ \A j \in fits : m <= j
  <2>1. fits \in SUBSET Nat
    BY <1>2
  <2> HIDE DEF fits
  <2> QED BY <1>5, <2>1, Sums!LeastNatural
<1> HIDE DEF m
<1>7. m \in 1..(L + 1)
  BY <1>6
<1>8. kept = From(m)
  <2>1. ASSUME NEW t \in kept PROVE \E j \in m..L : s[j] = t
    <3>1. PICK j \in 1..L : s[j] = t
      BY <1>2 DEF Survivors
    <3>2. j \in fits
      BY <1>4, <2>1, <3>1
    <3>3. j \in m..L
      BY <1>2, <1>6, <1>7, <3>1, <3>2
    <3> QED BY <3>1, <3>3
  <2>2. ASSUME NEW j \in m..L PROVE s[j] \in kept
    <3>1. j \in 1..L /\ m \in 1..L /\ (m < j \/ m = j)
      BY <1>2, <1>7
    <3>2. s[m] \in kept /\ s[m] <= s[j] /\ s[j] \in Ticks(c)
      BY <1>2, <1>4, <1>6, <3>1
    <3> QED BY <3>2, KeptAreLatest
  <2> HIDE DEF kept
  <2> QED BY <2>1, <2>2
<1> DEFINE after == Evict(c)
           e == Entries(c)
           d == Entries(after)
           w == SubSeq(s, m, L)
           before == Through(e, s)
           cut == SubSeq(before, m, L)
           N == L + 1 - m
           E == {e[t] : t \in Ticks(c)}
<1>9. /\ after.order = [t \in kept |-> c.order[t]]
      /\ after.map = [k \in {c.order[t] : t \in kept} |-> c.map[k]]
  BY DEF Evict, Restrict, CacheOf
<1>10. Sized(after)
  BY EvictFits DEF Fits, Counted
<1> HIDE DEF after, kept
<1>11. Ticks(after) = kept
  BY <1>9 DEF Ticks
<1>12. \A t \in kept : t \in Ticks(c) /\ d[t] = e[t]
  <2>1. /\ \A t \in Ticks(c) : e[t] = [key |-> c.order[t], len |-> c.map[c.order[t]].b.len]
        /\ \A t \in Ticks(after) : d[t] = [key |-> after.order[t], len |-> after.map[after.order[t]].b.len]
    BY DEF Entries, EntryAt, LensAt
  <2> HIDE DEF e, d
  <2> TAKE t \in kept
  <2>2. t \in Ticks(c) /\ t \in Ticks(after)
    BY <1>11 DEF kept, Survivors
  <2>3. after.order[t] = c.order[t] /\ after.map[c.order[t]] = c.map[c.order[t]]
    BY <1>9
  <2> QED BY <2>1, <2>2, <2>3
<1>13. Ascends(w, Ticks(after))
  BY <1>1, <1>7, <1>8, <1>11, AscendSuffix DEF L
<1>14. Len(w) = N /\ N \in Nat /\ \A j \in 1..N : w[j] = s[m + j - 1]
  BY <1>2, <1>7, SuffixIs DEF L
<1>15. /\ before \in Seq(E) /\ Len(before) = L
       /\ \A j \in 1..L : before[j] = e[s[j]]
  <2>1. \A t \in Ticks(c) : e[t] \in E
    OBVIOUS
  <2> HIDE DEF e, E
  <2>2. /\ Through(e, s) \in Seq(E) /\ Len(Through(e, s)) = Len(s)
        /\ \A j \in 1..Len(s) : Through(e, s)[j] = e[s[j]]
    <3>1. Ascends(s, Ticks(c))
      BY <1>1
    <3> HIDE DEF w, before, cut, N, d, fits, From, L
    <3> QED BY <2>1, <3>1, ThroughSeq
  <2> QED BY <2>2 DEF L
<1> HIDE DEF e, d, w, before, E
<1>16. /\ cut \in Seq(E) /\ Len(cut) = N
       /\ \A j \in 1..N : cut[j] = before[m + j - 1]
  BY <1>7, <1>15, SuffixIs
<1>17. Through(d, w) = cut
  <2>1. \A j \in 1..N : m + j - 1 \in 1..L
    BY <1>2, <1>7
  <2>2. \A j \in 1..N : w[j] \in kept
    BY <1>11, <1>13, <1>14 DEF Ascends
  <2> HIDE DEF cut, N
  <2>3. cut = [j \in 1..N |-> cut[j]]
    BY <1>16
  <2>4. Through(d, w) = [j \in 1..N |-> d[w[j]]]
    BY <1>14 DEF Through
  <2>5. \A j \in 1..N : d[w[j]] = cut[j]
    BY <1>12, <1>14, <1>15, <1>16, <2>1, <2>2
  <2> QED BY <2>3, <2>4, <2>5
<1>18. Recency(after) = cut
  BY <1>10, <1>13, <1>17, RecencyIs DEF d
<1>19. R = before
  BY <1>1, RecencyIs DEF before, e, R
<1>20. Lru!Fitting(R, c.budget) = SubSeq(R, m, L)
  BY <1>15, <1>19 DEF Lru!Fitting, m
<1> QED BY <1>18, <1>19, <1>20 DEF after, R

\* An empty cache lists nothing.
LEMMA EmptiedLists ==
  ASSUME NEW tick \in Nat, NEW budget
  PROVE  Recency(Emptied(tick, budget)) = <<>>
<1> DEFINE c == Emptied(tick, budget)
<1>1. Ticks(c) = {} /\ Keys(c) = {}
  BY DEF Emptied, CacheOf, Ticks, Keys
<1>2. Sized(c)
  BY <1>1, EmptiedMatches DEF Sized
<1> HIDE DEF c
<1>3. Ascends(<<>>, Ticks(c))
  BY <1>1 DEF Ascends
<1>4. Recency(c) = <<>>
  BY <1>2, <1>3, RecencyIs DEF Through
<1> QED BY <1>4 DEF c

-----------------------------------------------------------------------------
(* The cache as a list. *)

\* The list starts empty.
LEMMA StartsAsLru == Init => Lru!Init
<1> SUFFICES ASSUME NEW n \in Budgets, cache = Emptied(0, n)
             PROVE  Lru!Init
  BY DEF Init
<1>1. cache.budget = n
  BY DEF Emptied, CacheOf
<1>2. Recency(cache) = <<>>
  BY EmptiedLists
<1> QED BY <1>1, <1>2 DEF Lru!Init

\* Every call of the lock's holder is one of the list's operations, or leaves
\* the list as it is.
LEMMA StepsAsLru == IInv /\ [Next]_cache => [Lru!Next]_(Lru!vars)
<1> SUFFICES ASSUME IInv, [Next]_cache
             PROVE  Lru!Next \/ UNCHANGED Lru!vars
  OBVIOUS
<1>1. Fits(cache) /\ Counted(cache) /\ cache.tick \in Nat
  BY DEF IInv, Fits, Counted, Sized, Matched, Ticking
<1>2. ASSUME NEW k \in Key, DoGet(k)
      PROVE  Lru!Next \/ UNCHANGED Lru!vars
  <2>1. cache' = Touch(cache, k)
    BY <1>2 DEF DoGet
  <2>2. cache'.budget = cache.budget
    BY <2>1 DEF Touch, CacheOf
  <2>3. CASE k \in Keys(cache)
    <3>1. PICK i \in DOMAIN Recency(cache) :
            /\ Recency(cache)[i].key = k
            /\ Recency(Touch(cache, k)) = Append(RemoveAt(Recency(cache), i), Recency(cache)[i])
      BY <1>1, <2>3, RecencyTouched
    <3>2. Recency(cache)' = Append(Lru!RemoveAt(Recency(cache), i), Recency(cache)[i])
      BY <2>1, <3>1 DEF RemoveAt, Lru!RemoveAt
    <3>3. Lru!Use(k)
      BY <2>2, <3>1, <3>2 DEF Lru!Use
    <3> QED BY <3>3 DEF Lru!Next
  <2>4. CASE k \notin Keys(cache)
    <3>1. cache'.map = cache.map /\ cache'.order = cache.order
      BY <2>1, <2>4 DEF Touch, CacheOf
    <3>2. Recency(cache)' = Recency(cache)
      BY <3>1, RecencySame
    <3> QED BY <2>2, <3>2 DEF Lru!vars
  <2> QED BY <2>3, <2>4
<1>3. ASSUME NEW k \in Key, NEW n \in Lens, DoInsert(k, n)
      PROVE  Lru!Next \/ UNCHANGED Lru!vars
  <2> DEFINE b == [len |-> n]
             full == Added(cache, k, b, cache.tick + 1)
  <2>1. b.len = n /\ n \in Nat
    BY LensAssumption
  <2>2. cache' = Insert(cache, k, b)
    BY <1>3 DEF DoInsert
  <2>3. CASE Accepts(cache, k, b)
    <3> HIDE DEF b
    <3>1. cache' = Evict(full)
      BY <2>2, <2>3 DEF Insert
    <3>2. Counted(full) /\ full.budget = cache.budget
      BY <1>1, <2>1, <2>3, AddedCounted
    <3>3. Recency(full) = Append(Recency(cache), [key |-> k, len |-> n])
      BY <1>1, <2>1, <2>3, RecencyAdded
    <3> HIDE DEF full
    <3>4. Recency(cache)' = Lru!Fitting(Append(Recency(cache), Lru!Entry(k, n)), cache.budget)
      BY <3>1, <3>2, <3>3, RecencyEvicted DEF Lru!Entry
    <3>5. cache'.budget = cache.budget
      BY <3>1, <3>2 DEF Evict, CacheOf
    <3>6. n # 0 /\ n <= cache.budget
      BY <2>1, <2>3 DEF Accepts
    <3>7. ~Lru!Holds(k)
      <4>1. k \notin Keys(cache) /\ \A t \in Ticks(cache) : cache.order[t] \in Keys(cache)
        BY <1>1, <2>3 DEF Accepts, Counted, Sized, Matched, OrderMatchesMap
      <4>2. Sized(cache) /\ Ascends(ByAge(cache), Ticks(cache))
        BY <1>1, ByAgeAscends DEF Counted
      <4>3. /\ DOMAIN Recency(cache) = 1..Len(ByAge(cache))
            /\ \A i \in 1..Len(ByAge(cache)) :
                 Recency(cache)[i] = Entries(cache)[ByAge(cache)[i]] /\ ByAge(cache)[i] \in Ticks(cache)
        BY <4>2, RecencyIs DEF Through, Ascends
      <4>4. \A t \in Ticks(cache) : Entries(cache)[t].key = cache.order[t]
        BY DEF Entries, EntryAt
      <4> QED BY <4>1, <4>3, <4>4 DEF Lru!Holds
    <3>8. Lru!Store(k, n)
      BY <3>4, <3>5, <3>6, <3>7 DEF Lru!Store
    <3> QED BY <3>8 DEF Lru!Next
  <2>4. CASE ~Accepts(cache, k, b)
    <3>1. cache' = cache
      BY <2>2, <2>4 DEF Insert
    <3> QED BY <3>1 DEF Lru!vars
  <2> QED BY <2>3, <2>4
<1>4. ASSUME NEW n \in Budgets, DoSetBudget(n)
      PROVE  Lru!Next \/ UNCHANGED Lru!vars
  <2> DEFINE c == CacheOf(cache.map, cache.order, cache.tick, cache.bytes, n)
  <2>1. cache' = Evict(c)
    BY <1>4 DEF DoSetBudget, SetBudget
  <2>2. Counted(c)
    <3>1. n \in Nat /\ cache.tick >= cache.tick
      BY <1>1, BudgetsAssumption
    <3> QED BY <1>1, <3>1, CountedRecord
  <2>3. c.budget = n /\ c.map = cache.map /\ c.order = cache.order
    BY DEF CacheOf
  <2> HIDE DEF c
  <2>4. Recency(c) = Recency(cache)
    BY <2>3, RecencySame
  <2>5. Recency(cache)' = Lru!Fitting(Recency(cache), n)
    BY <2>1, <2>2, <2>3, <2>4, RecencyEvicted
  <2>6. cache'.budget = n
    BY <2>1, <2>3 DEF Evict, CacheOf
  <2>7. Lru!Resize(n)
    BY <2>5, <2>6 DEF Lru!Resize
  <2> QED BY <2>7 DEF Lru!Next
<1>5. ASSUME DoClear
      PROVE  Lru!Next \/ UNCHANGED Lru!vars
  <2>1. cache' = Emptied(cache.tick, cache.budget)
    BY <1>5 DEF DoClear, Clear
  <2>2. cache'.budget = cache.budget
    BY <2>1 DEF Emptied, CacheOf
  <2>3. Recency(cache)' = <<>>
    BY <1>1, <2>1, EmptiedLists
  <2>4. Lru!Clear
    BY <2>2, <2>3 DEF Lru!Clear
  <2> QED BY <2>4 DEF Lru!Next
<1>6. ASSUME UNCHANGED cache
      PROVE  UNCHANGED Lru!vars
  BY <1>6 DEF Lru!vars
<1> QED BY <1>2, <1>3, <1>4, <1>5, <1>6 DEF Next

\* Two maps, ticks and a byte count do what a list of entries in order of last
\* use does: get moves an entry to its end, and what exceeds the budget goes
\* from its front, no entry too many (struct RangeCache, range_cache.rs).
THEOREM IsAnLru == Spec => LruSpec
BY StartFits, StepFits, StartsAsLru, StepsAsLru, PTL DEF Spec, LruSpec, Lru!Spec
=============================================================================

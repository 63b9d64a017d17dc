--------------------------- MODULE RangeCacheOps ----------------------------
(***************************************************************************)
(* The session cache of remote byte ranges (struct RangeCache) as          *)
(* operators on its value, so that the machine of the cache alone and the  *)
(* reader that calls it under the lock share one definition.               *)
(*                                                                         *)
(* A cached range is what a remote returned: a record with at least the    *)
(* field len, its number of bytes.                                         *)
(***************************************************************************)
EXTENDS Integers, FiniteSets, Functions

\* map: key -> bytes and tick of last use; order: that tick -> key.
CacheOf(map, order, tick, bytes, budget) ==
  [map |-> map, order |-> order, tick |-> tick, bytes |-> bytes, budget |-> budget]

\* A cache without entries.  `tick` survives: it only ever grows.
Emptied(tick, budget) == CacheOf(<< >>, << >>, tick, 0, budget)

Keys(c) == DOMAIN c.map
Ticks(c) == DOMAIN c.order

\* How many bytes each entry holds, by the tick of its last use; those of the
\* entries used at some ticks.
LensAt(c) == [t \in Ticks(c) |-> c.map[c.order[t]].b.len]
TotalAt(c, ticks) == SumFunctionOnSet(LensAt(c), ticks)

\* A slip: the most recent entry goes first.
NewestFirst(c) ==
  {t \in Ticks(c) : c.bytes - TotalAt(c, {s \in Ticks(c) : s > t}) <= c.budget}

\* evict pops the least recently used entry while bytes exceeds budget: an
\* entry survives if, without all the older ones, bytes is within budget.
Survivors(c) ==
  {t \in Ticks(c) : c.bytes - TotalAt(c, {s \in Ticks(c) : s < t}) <= c.budget}

\* A slip to tell Evict from: the evicted bytes stay counted.
EvictUncounted(c) ==
  LET kept == Survivors(c)
  IN CacheOf(Restrict(c.map, {c.order[t] : t \in kept}), Restrict(c.order, kept),
             c.tick, c.bytes, c.budget)

Evict(c) ==
  LET kept == Survivors(c)
  IN CacheOf(Restrict(c.map, {c.order[t] : t \in kept}), Restrict(c.order, kept),
             c.tick, c.bytes - TotalAt(c, Ticks(c) \ kept), c.budget)

\* A slip: the entry keeps its place in the order as well.
ReorderedTwice(c, key, old, now) ==
  [t \in Ticks(c) \cup {now} |-> IF t = now THEN key ELSE c.order[t]]

\* The order after key is used at tick now and no longer at the tick old.
Reordered(c, key, old, now) ==
  [t \in (Ticks(c) \ {old}) \cup {now} |-> IF t = now THEN key ELSE c.order[t]]

\* get: a hit makes the entry the most recent one; a miss only takes a tick.
Touch(c, key) ==
  LET now == c.tick + 1
  IN IF key \in Keys(c)
     THEN CacheOf([k \in Keys(c) |-> IF k = key THEN [b |-> c.map[k].b, tick |-> now] ELSE c.map[k]],
                  Reordered(c, key, c.map[key].tick, now), now, c.bytes, c.budget)
     ELSE CacheOf(c.map, c.order, now, c.bytes, c.budget)

\* A slip: a range that takes the whole budget is refused.
AcceptsSmaller(c, key, b) == b.len # 0 /\ b.len < c.budget /\ key \notin Keys(c)

\* insert refuses an empty range, one over the budget, and a key it holds.
Accepts(c, key, b) == b.len # 0 /\ b.len <= c.budget /\ key \notin Keys(c)

\* The cache with one more entry, before eviction.
Added(c, key, b, now) ==
  CacheOf([k \in Keys(c) \cup {key} |-> IF k = key THEN [b |-> b, tick |-> now] ELSE c.map[k]],
          [t \in Ticks(c) \cup {now} |-> IF t = now THEN key ELSE c.order[t]],
          now, c.bytes + b.len, c.budget)

Insert(c, key, b) == IF Accepts(c, key, b) THEN Evict(Added(c, key, b, c.tick + 1)) ELSE c

SetBudget(c, n) == Evict(CacheOf(c.map, c.order, c.tick, c.bytes, n))

Clear(c) == Emptied(c.tick, c.budget)

-----------------------------------------------------------------------------
(* What holds of a cache whenever the lock is free. *)

\* order and the ticks in map are inverse to each other, and no tick is from
\* the future: every entry can be found by its key and reached by eviction.
OrderMatchesMap(c) ==
  /\ \A k \in Keys(c) : c.map[k].tick \in Ticks(c) /\ c.order[c.map[k].tick] = k
  /\ \A t \in Ticks(c) : c.order[t] \in Keys(c) /\ c.map[c.order[t]].tick = t
  /\ \A t \in Ticks(c) : t <= c.tick

\* bytes, kept by adding and subtracting, is what the entries hold, and never
\* exceeds the budget.
BytesAreCounted(c) ==
  /\ c.bytes = SumFunction([k \in Keys(c) |-> c.map[k].b.len])
  /\ c.bytes <= c.budget
=============================================================================

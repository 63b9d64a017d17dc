----------------------------- MODULE RangeCache -----------------------------
(***************************************************************************)
(* The range cache on its own, under any sequence of the calls its lock    *)
(* serialises: get, insert, set_budget and clear.                          *)
(***************************************************************************)
EXTENDS RangeCacheOps, SequencesExt

CONSTANTS
  Key,      \* cache keys: a source and an exact range
  Lens,     \* lengths of the byte strings inserted; a remote may return none
  Budgets,  \* budgets the session sets; 0 disables the cache
  MaxTick   \* bound on the number of gets and inserts

ASSUME LensAssumption == Lens \subseteq Nat
ASSUME BudgetsAssumption == Budgets \subseteq Nat /\ Budgets # {}

VARIABLE cache

Init == \E n \in Budgets : cache = Emptied(0, n)

DoGet(k) == cache.tick < MaxTick /\ cache' = Touch(cache, k)
DoInsert(k, n) == cache.tick < MaxTick /\ cache' = Insert(cache, k, [len |-> n])
DoSetBudget(n) == cache' = SetBudget(cache, n)
DoClear == cache' = Clear(cache)

Next ==
  \/ \E k \in Key : DoGet(k)
  \/ \E k \in Key, n \in Lens : DoInsert(k, n)
  \/ \E n \in Budgets : DoSetBudget(n)
  \/ DoClear

Spec == Init /\ [][Next]_cache

-----------------------------------------------------------------------------

\* Every entry is reachable by key and by eviction, across gets that move it,
\* evictions, budget changes and clears.
OrderMatches == OrderMatchesMap(cache)

\* The running byte count never drifts from the entries and stays in budget.
WithinBudget == BytesAreCounted(cache)

\* At any time, a range that fits the budget, exactly or with room to spare,
\* would be cached after its insertion and the eviction that causes; one that
\* does not fit would cost no entry its place.
InsertKeepsItsRange ==
  \A k \in Key, n \in Lens :
    LET after == Insert(cache, k, [len |-> n])
    IN IF n \in 1..cache.budget THEN k \in Keys(after) ELSE after = cache

-----------------------------------------------------------------------------
(* The cache is a least recently used cache. *)

\* The ticks in use, in ascending order.
ByAge(c) ==
  CHOOSE s \in [1..Cardinality(Ticks(c)) -> Ticks(c)] : \A i, j \in DOMAIN s : i < j => s[i] < s[j]

\* The entries in that order.
EntryAt(c, t) == [key |-> c.order[t], len |-> LensAt(c)[t]]
Recency(c) == [i \in DOMAIN ByAge(c) |-> EntryAt(c, ByAge(c)[i])]

Lru == INSTANCE LruCache WITH recency <- Recency(cache), budget <- cache.budget

LruSpec == Lru!Spec
=============================================================================

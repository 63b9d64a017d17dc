------------------------- MODULE CachedReaderProofs -------------------------
(***************************************************************************)
(* For any calls, ranges, budgets, file length, gap and cap, and for every *)
(* order of answers, faults and drops: no permit of the request limit is   *)
(* lost or given twice, the cache holds the file's bytes under their       *)
(* ranges, and an answer holds the bytes asked for.                        *)
(***************************************************************************)
EXTENDS CachedReader, CoalesceProofs

-----------------------------------------------------------------------------
(* The inductive invariant. *)

AllRanges == RangesOf(BlockLists) \cup MetaRanges

\* The bytes b are those of the file at r, all of them unless r is a header's.
Truthful(r, b) == b = Remote(r) /\ (r \notin MetaRanges => b.len = r.end - r.start)

\* A cache of true bytes, whose recency index names entries it has.
TrueCache(d) ==
  /\ Keys(d) \subseteq AllRanges
  /\ \A r \in Keys(d) : Truthful(r, d.map[r].b)
  /\ \A t \in Ticks(d) : d.order[t] \in Keys(d)

\* What a call's fields are, whatever their values.
Shaped(w) ==
  w = [pc |-> w.pc, kind |-> w.kind, asked |-> w.asked, out |-> w.out,
       missing |-> w.missing, reqs |-> w.reqs, place |-> w.place, at |-> w.at]

\* The answer to range i of a call is exact, or is one it still misses.
Exact(r) == Bytes(r.start, r.end - r.start)
Settled(w, out, i) == out[i] = Exact(w.asked[i]) \/ \E m \in DOMAIN w.missing : w.missing[m] = i

\* Each range a call misses starts in the request it is placed in, where the
\* placement says.
CutsRight(w) ==
  /\ \E n \in Nat : DOMAIN w.missing = 1..n
  /\ \A m \in DOMAIN w.missing :
       /\ w.missing[m] \in DOMAIN w.asked
       /\ w.place[m].off \in Nat
       /\ w.reqs[w.place[m].req] \in ByteRanges
       /\ w.reqs[w.place[m].req].start + w.place[m].off = w.asked[w.missing[m]].start
  /\ DOMAIN w.out = DOMAIN w.asked
  /\ \A i \in DOMAIN w.asked : Settled(w, w.out, i)

Pending(w) ==
  /\ w.kind \in {"bytes", "ranges"}
  /\ w.kind = "bytes" => \E r \in MetaRanges : w.asked = <<r>>
  /\ w.kind = "ranges" => w.asked \in BlockLists /\ CutsRight(w)

\* A call's requests are counted, and none flies once it has returned.
Known(w) ==
  /\ Shaped(w)
  /\ DOMAIN w.at = DOMAIN w.reqs
  /\ w.pc = "fetching" => Pending(w)
  /\ w.pc # "fetching" => \A k \in DOMAIN w.reqs : w.at[k] # "flying"

IInv ==
  /\ TypeOK
  /\ TrueCache(cache)
  /\ DOMAIN call = Call
  /\ \A c \in Call : Known(call[c])
  /\ AnswersAreExact
  /\ IsFiniteSet(InFlight) /\ PermitsConserved

-----------------------------------------------------------------------------
(* The cache. *)

\* True bytes of a range that is no header's are those of the whole range.
LEMMA TruthIsExact ==
  ASSUME NEW r, NEW b, Truthful(r, b), r \notin MetaRanges
  PROVE  b = Exact(r)
<1>1. b = [from |-> r.start, len |-> Smaller(r.end, FileSize) - r.start]
  BY DEF Truthful, Remote, Bytes
<1>2. b.len = r.end - r.start
  BY DEF Truthful
<1> QED BY <1>1, <1>2 DEF Exact, Bytes

LEMMA EmptiedIsTrue ==
  ASSUME NEW tick, NEW budget
  PROVE  TrueCache(Emptied(tick, budget))
BY DEF TrueCache, Emptied, CacheOf, Keys, Ticks

\* Eviction keeps entries as they are.
LEMMA EvictIsTrue ==
  ASSUME NEW d, TrueCache(d)
  PROVE  TrueCache(Evict(d))
<1> DEFINE kept == Survivors(d)
           after == Evict(d)
<1>1. kept \subseteq Ticks(d)
  BY DEF Survivors
<1>2. /\ after.order = [t \in kept |-> d.order[t]]
      /\ after.map = [r \in {d.order[t] : t \in kept} |-> d.map[r]]
  BY DEF Evict, Restrict, CacheOf
<1> HIDE DEF kept, after
<1>3. {d.order[t] : t \in kept} \subseteq Keys(d)
  BY <1>1 DEF TrueCache
<1>4. /\ Keys(after) = {d.order[t] : t \in kept} /\ Ticks(after) = kept
      /\ \A t \in kept : after.order[t] = d.order[t]
      /\ \A r \in Keys(after) : after.map[r] = d.map[r]
  BY <1>2 DEF Keys, Ticks
<1>5. TrueCache(after)
  BY <1>3, <1>4 DEF TrueCache
<1> QED BY <1>5 DEF after

\* A lookup changes ticks only.
LEMMA TouchIsTrue ==
  ASSUME NEW d, NEW key, TrueCache(d)
  PROVE  TrueCache(Touch(d, key))
<1> DEFINE now == d.tick + 1
           after == Touch(d, key)
<1>1. CASE key \notin Keys(d)
  BY <1>1 DEF Touch, CacheOf, TrueCache, Keys, Ticks
<1>2. CASE key \in Keys(d)
  <2> DEFINE old == d.map[key].tick
  <2>1. /\ after.map = [k \in Keys(d) |-> IF k = key THEN [b |-> d.map[k].b, tick |-> now] ELSE d.map[k]]
        /\ after.order = [t \in (Ticks(d) \ {old}) \cup {now} |-> IF t = now THEN key ELSE d.order[t]]
    BY <1>2 DEF Touch, Reordered, CacheOf
  <2> HIDE DEF now, old, after
  <2>2. /\ Keys(after) = Keys(d)
        /\ \A k \in Keys(d) : after.map[k].b = d.map[k].b
        /\ \A t \in Ticks(after) : after.order[t] = key \/ (t \in Ticks(d) /\ after.order[t] = d.order[t])
    BY <2>1 DEF Keys, Ticks
  <2> QED BY <1>2, <2>2 DEF TrueCache, after
<1> QED BY <1>1, <1>2

\* True bytes go in under their range.
LEMMA InsertIsTrue ==
  ASSUME NEW d, NEW r \in AllRanges, NEW b, TrueCache(d), Truthful(r, b)
  PROVE  TrueCache(Insert(d, r, b))
<1> DEFINE now == d.tick + 1
           full == Added(d, r, b, now)
<1>1. /\ full.map = [k \in Keys(d) \cup {r} |-> IF k = r THEN [b |-> b, tick |-> now] ELSE d.map[k]]
      /\ full.order = [t \in Ticks(d) \cup {now} |-> IF t = now THEN r ELSE d.order[t]]
  BY DEF Added, CacheOf
<1> HIDE DEF full, now
<1>2. /\ Keys(full) = Keys(d) \cup {r}
      /\ \A k \in Keys(full) : (k = r /\ full.map[k].b = b) \/ (k \in Keys(d) /\ full.map[k] = d.map[k])
      /\ \A t \in Ticks(full) : full.order[t] = r \/ (t \in Ticks(d) /\ full.order[t] = d.order[t])
  BY <1>1 DEF Keys, Ticks
<1>3. TrueCache(full)
  BY <1>2 DEF TrueCache
<1>4. TrueCache(Evict(full))
  BY <1>3, EvictIsTrue
<1> QED BY <1>4 DEF Insert, full, now

LEMMA ResizedIsTrue ==
  ASSUME NEW d, NEW n, TrueCache(d)
  PROVE  TrueCache(SetBudget(d, n))
<1>1. TrueCache(CacheOf(d.map, d.order, d.tick, d.bytes, n))
  BY DEF TrueCache, CacheOf, Keys, Ticks
<1> QED BY <1>1, EvictIsTrue DEF SetBudget

-----------------------------------------------------------------------------
(* Looking a call's ranges up. *)

TouchNext(key, acc) == Touch(acc, key)

Lookups == INSTANCE Folding WITH Op <- TouchNext, Choose <- Max, Numbers <- Nat

\* Looking up any list of ranges leaves a true cache.
LEMMA LookUpIsTrue ==
  ASSUME NEW d, NEW rs, NEW n \in Nat, DOMAIN rs = 1..n, TrueCache(d)
  PROVE  TrueCache(FoldLeft(Touch, d, rs))
<1> DEFINE After(i) == Lookups!Fold(d, rs, 1..i)
           T == {i \in 0..n : TrueCache(After(i))}
<1>1. Lookups!LastFirst /\ Lookups!Chooses(1..n)
  BY LastIsFirst DEF Lookups!LastFirst, Lookups!Chooses
<1>2. /\ After(0) = d
      /\ \A i \in 1..n : After(i) = TouchNext(rs[i], After(i - 1))
  BY <1>1, Lookups!FoldOfPrefix
<1>3. FoldLeft(Touch, d, rs) = After(n)
  BY DEF FoldLeft, MapThenFoldSet, Lookups!Fold, Lookups!MapThenFoldSet, TouchNext
<1> HIDE DEF After
<1>4. 0 \in T
  BY <1>2
<1>5. ASSUME NEW i \in 0..(n - 1), i \in T
      PROVE  i + 1 \in T
  <2>1. i + 1 \in 1..n /\ (i + 1) - 1 = i /\ i + 1 \in 0..n
    OBVIOUS
  <2>2. After(i + 1) = Touch(After(i), rs[i + 1])
    BY <1>2, <2>1 DEF TouchNext
  <2> QED BY <1>5, <2>1, <2>2, TouchIsTrue
<1> HIDE DEF T
<1>6. n \in T
  <2>1. 0..n \subseteq T
    BY <1>4, <1>5, Lookups!CountUp
  <2> QED BY <2>1
<1> QED BY <1>3, <1>6 DEF T

-----------------------------------------------------------------------------
(* The requests in flight. *)

\* Those of one call, and of all.
Flies(w) == {k \in DOMAIN w.reqs : w.at[k] = "flying"}
Flights(cl) == UNION {{c} \X Flies(cl[c]) : c \in Call}

LEMMA InFlightAre ==
  /\ InFlight = Flights(call)
  /\ \A c \in Call : Flying(c) = Flies(call[c])
BY DEF InFlight, Flights, Flying, At, Flies

\* As many pairs of a call and a request as requests.
LEMMA PairsCounted ==
  ASSUME NEW c, NEW K, IsFiniteSet({c} \X K) \/ IsFiniteSet(K)
  PROVE  /\ IsFiniteSet({c} \X K) /\ IsFiniteSet(K)
         /\ Cardinality({c} \X K) = Cardinality(K)
<1> DEFINE f == [k \in K |-> <<c, k>>]
           g == [p \in {c} \X K |-> p[2]]
<1>1. ExistsBijection(K, {c} \X K)
  <2>1. f \in Bijection(K, {c} \X K)
    BY DEF Bijection, Injection, Surjection, IsInjective
  <2> QED BY <2>1 DEF ExistsBijection
<1>2. ExistsBijection({c} \X K, K)
  <2>1. \A p \in {c} \X K : p[2] \in K /\ p = <<c, p[2]>> /\ g[p] = p[2]
    OBVIOUS
  <2>2. \A k \in K : <<c, k>> \in {c} \X K /\ g[<<c, k>>] = k
    OBVIOUS
  <2>3. g \in [{c} \X K -> K]
    BY <2>1
  <2> HIDE DEF g
  <2>4. \A p, q \in {c} \X K : g[p] = g[q] => p = q
    BY <2>1
  <2>5. g \in Bijection({c} \X K, K)
    BY <2>2, <2>3, <2>4 DEF Bijection, Injection, Surjection, IsInjective
  <2> QED BY <2>5 DEF ExistsBijection
<1> QED BY <1>1, <1>2, FS_Bijection

\* One call's requests change, and the others' are as many as before.
LEMMA FlightsChange ==
  ASSUME NEW cl, DOMAIN cl = Call, IsFiniteSet(Flights(cl)), NEW c \in Call,
         NEW w, IsFiniteSet(Flies(w))
  PROVE  /\ IsFiniteSet(Flights([cl EXCEPT ![c] = w]))
         /\ Cardinality(Flights([cl EXCEPT ![c] = w])) =
              Cardinality(Flights(cl)) - Cardinality(Flies(cl[c])) + Cardinality(Flies(w))
         /\ IsFiniteSet(Flies(cl[c])) /\ Cardinality(Flies(cl[c])) \in Nat
         /\ Cardinality(Flights(cl)) \in Nat /\ Cardinality(Flies(w)) \in Nat
<1> DEFINE next == [cl EXCEPT ![c] = w]
           old == {c} \X Flies(cl[c])
           new == {c} \X Flies(w)
           others == Flights(cl) \ old
<1>1. next[c] = w /\ \A d \in Call : d # c => next[d] = cl[d]
  OBVIOUS
<1> HIDE DEF next
<1>2. \A d, k : /\ <<d, k>> \in Flights(cl) <=> d \in Call /\ k \in Flies(cl[d])
                /\ <<d, k>> \in Flights(next) <=> d \in Call /\ k \in Flies(next[d])
  BY DEF Flights
<1>3. \A p : p \in Flights(cl) \/ p \in Flights(next) => p = <<p[1], p[2]>>
  BY DEF Flights
<1>4. old \in SUBSET Flights(cl) /\ old \cap others = {} /\ Flights(cl) = old \cup others
  BY <1>2
<1>5. Flights(next) = others \cup new
  <2>1. ASSUME NEW p \in Flights(next) PROVE p \in others \cup new
    <3>1. p = <<p[1], p[2]>> /\ p[1] \in Call /\ p[2] \in Flies(next[p[1]])
      BY <1>2, <1>3
    <3>2. CASE p[1] = c
      <4>1. p \in new
        BY <1>1, <3>1, <3>2
      <4> QED BY <4>1
    <3>3. CASE p[1] # c
      <4>1. p \in Flights(cl) /\ p \notin old
        BY <1>1, <1>2, <3>1, <3>3
      <4> QED BY <4>1
    <3> QED BY <3>2, <3>3
  <2>2. ASSUME NEW p \in others PROVE p \in Flights(next)
    <3>1. p = <<p[1], p[2]>> /\ p[1] \in Call /\ p[2] \in Flies(cl[p[1]])
      BY <1>2, <1>3
    <3>2. p[1] # c
      BY <3>1
    <3> QED BY <1>1, <1>2, <3>1, <3>2
  <2>3. ASSUME NEW p \in new PROVE p \in Flights(next)
    <3>1. p = <<c, p[2]>> /\ p[2] \in Flies(w)
      OBVIOUS
    <3> QED BY <1>1, <1>2, <3>1
  <2> QED BY <2>1, <2>2, <2>3
<1>6. others \cap new = {}
  <2>1. ASSUME NEW p \in others, p \in new PROVE FALSE
    <3>1. p = <<c, p[2]>>
      BY <2>1
    <3>2. p[2] \in Flies(cl[c])
      BY <1>2, <2>1, <3>1
    <3> QED BY <2>1, <3>1, <3>2
  <2> QED BY <2>1
<1>7. IsFiniteSet(old) /\ IsFiniteSet(others)
  BY <1>4, FS_Subset
<1>8. /\ IsFiniteSet(Flies(cl[c])) /\ Cardinality(old) = Cardinality(Flies(cl[c]))
      /\ IsFiniteSet(new) /\ Cardinality(new) = Cardinality(Flies(w))
  BY <1>7, PairsCounted
<1> HIDE DEF old, new, others
<1>9. Cardinality(Flights(cl)) = Cardinality(old) + Cardinality(others)
  <2>1. Cardinality(old \cup others) = Cardinality(old) + Cardinality(others) - Cardinality({})
    BY <1>4, <1>7, FS_Union
  <2> QED BY <1>4, <1>7, <2>1, FS_EmptySet, FS_CardinalityType
<1>10. /\ IsFiniteSet(Flights(next))
       /\ Cardinality(Flights(next)) = Cardinality(others) + Cardinality(new)
  <2>1. /\ IsFiniteSet(others \cup new)
        /\ Cardinality(others \cup new) = Cardinality(others) + Cardinality(new) - Cardinality({})
    BY <1>6, <1>7, <1>8, FS_Union
  <2> QED BY <1>5, <1>7, <1>8, <2>1, FS_EmptySet, FS_CardinalityType
<1>11. /\ Cardinality(old) \in Nat /\ Cardinality(others) \in Nat /\ Cardinality(new) \in Nat
       /\ Cardinality(Flights(cl)) \in Nat
  BY <1>7, <1>8, FS_CardinalityType
<1> QED BY <1>8, <1>9, <1>10, <1>11 DEF next

-----------------------------------------------------------------------------
(* What a call asks for. *)

\* The ranges of a call are byte ranges, and its list has positions 1 to n.
LEMMA AskedRanges ==
  /\ \A rs \in BlockLists : rs \in Seq(ByteRanges)
  /\ \A rs \in BlockLists : \A i \in DOMAIN rs : rs[i] \in AllRanges /\ rs[i] \notin MetaRanges
  /\ \A r \in MetaRanges : r \in AllRanges
<1>1. \A rs \in BlockLists : rs \in Seq(ByteRanges)
  BY ReaderAssumption DEF RequestsAssumption
<1>2. ASSUME NEW rs \in BlockLists, NEW i \in DOMAIN rs
      PROVE  rs[i] \in AllRanges /\ rs[i] \notin MetaRanges
  <2>1. rs[i] \in RangesOf(BlockLists)
    BY DEF RangesOf, ToSet
  <2> QED BY <2>1, ReaderAssumption DEF RequestsAssumption, AllRanges
<1> QED BY <1>1, <1>2 DEF AllRanges

\* The positions a lookup misses are listed once each.
LEMMA MissingListed ==
  ASSUME NEW rs, NEW n \in Nat, DOMAIN rs = 1..n
  PROVE  /\ \E m \in Nat : DOMAIN Missing(rs) = 1..m
         /\ \A m \in DOMAIN Missing(rs) : Missing(rs)[m] \in DOMAIN rs
         /\ \A i \in DOMAIN rs : rs[i] \in Keys(cache) \/ \E m \in DOMAIN Missing(rs) : Missing(rs)[m] = i
<1> DEFINE pos == {i \in DOMAIN rs : rs[i] \notin Keys(cache)}
           before == {p \in pos \X pos : p[1] < p[2]}
           list == Missing(rs)
<1>1. list = Ranked(pos, before)
  BY DEF Missing
<1>2. pos \in SUBSET (1..n)
  OBVIOUS
<1>3. IsFiniteSet(pos)
  BY <1>2, FS_Interval, FS_Subset
<1>4. \A i, j \in pos : <<i, j>> \in before <=> i < j
  OBVIOUS
<1>5. \A i \in DOMAIN rs : i \in pos \/ rs[i] \in Keys(cache)
  OBVIOUS
<1>6. \A i \in pos : i \in DOMAIN rs
  OBVIOUS
<1> HIDE DEF pos, before, list
<1>7. LinesUp(pos, before)
  <2>1. \A i \in pos : i \in Nat
    BY <1>2
  <2> QED BY <1>4, <2>1 DEF LinesUp
<1>8. /\ Cardinality(pos) \in Nat /\ DOMAIN list = 1..Cardinality(pos)
      /\ \A m \in DOMAIN list : list[m] \in pos
      /\ \A i \in pos : \E m \in DOMAIN list : list[m] = i
  BY <1>1, <1>3, <1>7, RankedInOrder
<1> QED BY <1>5, <1>6, <1>8 DEF list

\* A call that starts has each missing range where coalesce placed it.
LEMMA CutsStartRight ==
  ASSUME TrueCache(cache), NEW rs \in BlockLists, NEW w,
         w.asked = rs, w.out = Answers(rs), w.missing = Missing(rs),
         w.reqs = Merge(Wanted(rs)).reqs, w.place = Merge(Wanted(rs)).place
  PROVE  CutsRight(w)
<1> DEFINE list == Missing(rs)
           want == Wanted(rs)
           L == Len(rs)
<1>1. rs \in Seq(ByteRanges) /\ L \in Nat /\ DOMAIN rs = 1..L
  BY AskedRanges
<1>2. \A i \in DOMAIN rs : rs[i] \in ByteRanges
  BY <1>1
<1>3. PICK n \in Nat : DOMAIN list = 1..n
  BY <1>1, MissingListed
<1>4. /\ \A m \in 1..n : list[m] \in DOMAIN rs
      /\ \A i \in DOMAIN rs : rs[i] \in Keys(cache) \/ \E m \in 1..n : list[m] = i
  BY <1>1, <1>3, MissingListed
<1>5. want = [m \in 1..n |-> rs[list[m]]]
  BY <1>3 DEF Wanted
<1> HIDE DEF list, want, L
<1>6. want \in Seq(ByteRanges) /\ DOMAIN want = 1..n
  <2>1. \A m \in 1..n : rs[list[m]] \in ByteRanges
    BY <1>2, <1>4
  <2> QED BY <1>5, <2>1
<1>7. ASSUME NEW m \in 1..n
      PROVE  /\ w.place[m].off \in Nat
             /\ w.reqs[w.place[m].req] \in ByteRanges
             /\ w.reqs[w.place[m].req].start + w.place[m].off = rs[list[m]].start
  <2>1. Inside(Merge(want), want, m) /\ Merge(want).reqs \in Seq(ByteRanges)
    BY <1>6, MergePlaces
  <2>2. w.reqs = Merge(want).reqs /\ w.place = Merge(want).place
    BY DEF want
  <2>3. want[m] = rs[list[m]]
    BY <1>5
  <2>4. /\ w.place[m].req \in DOMAIN w.reqs /\ w.place[m].off \in Nat
        /\ w.reqs[w.place[m].req].start + w.place[m].off = rs[list[m]].start
    BY <2>1, <2>2, <2>3 DEF Inside
  <2>5. w.reqs \in Seq(ByteRanges)
    BY <2>1, <2>2
  <2> QED BY <2>4, <2>5
<1>8. DOMAIN Answers(rs) = DOMAIN rs
  BY DEF Answers
<1>9. ASSUME NEW i \in DOMAIN rs, rs[i] \in Keys(cache)
      PROVE  Answers(rs)[i] = Exact(rs[i])
  <2>1. Answers(rs)[i] = cache.map[rs[i]].b
    BY <1>9 DEF Answers
  <2>2. Truthful(rs[i], cache.map[rs[i]].b) /\ rs[i] \notin MetaRanges
    BY <1>9, AskedRanges DEF TrueCache
  <2> QED BY <2>1, <2>2, TruthIsExact
<1>10. \A i \in DOMAIN w.asked : Settled(w, w.out, i)
  BY <1>3, <1>4, <1>9 DEF Settled, list
<1> QED BY <1>3, <1>4, <1>7, <1>8, <1>10 DEF CutsRight, list

-----------------------------------------------------------------------------
(* The fill. *)

FillNext(x, acc) == FillOne(acc, x)

Fills == INSTANCE Folding WITH Op <- FillNext, Choose <- Max, Numbers <- Nat

Unfilled(d, w) == [cache |-> d, out |-> w.out, failed |-> FALSE]

\* The accumulator after n rounds: unless a range fell short, every answer is
\* exact but those of the missing ranges to come.
FilledTo(w, n, acc) ==
  /\ acc = [cache |-> acc.cache, out |-> acc.out, failed |-> acc.failed]
  /\ acc.failed \in BOOLEAN
  /\ TrueCache(acc.cache)
  /\ DOMAIN acc.out = DOMAIN w.asked
  /\ ~acc.failed => \A i \in DOMAIN w.asked :
       acc.out[i] = Exact(w.asked[i]) \/ \E m \in DOMAIN w.missing : m > n /\ w.missing[m] = i

\* A round caches and answers the file's bytes at a range, or fails.
LEMMA FillRound ==
  ASSUME NEW w, w.asked \in BlockLists, CutsRight(w),
         NEW n \in DOMAIN w.missing, NEW acc, FilledTo(w, n - 1, acc)
  PROVE  FilledTo(w, n, FillOne(acc, Cuts(w)[n]))
<1> DEFINE i == w.missing[n]
           r == w.asked[i]
           q == w.reqs[w.place[n].req]
           off == w.place[n].off
           x == Cuts(w)[n]
           b == Bytes(x.got.from + x.off, x.range.end - x.range.start)
           after == FillOne(acc, x)
<1>1. x.pos = i /\ x.range = r /\ x.got = Remote(q) /\ x.off = off
  BY DEF Cuts
<1>2. /\ i \in DOMAIN w.asked /\ off \in Nat /\ q \in ByteRanges
      /\ q.start + off = r.start
  BY DEF CutsRight
<1>3. /\ after = IF acc.failed \/ x.off + b.len > x.got.len
                 THEN [acc EXCEPT !.failed = TRUE]
                 ELSE [acc EXCEPT !.cache = Insert(@, x.range, b), !.out[x.pos] = b]
  BY DEF FillOne
<1>4. w.asked \in Seq(ByteRanges) /\ r \in AllRanges /\ r \notin MetaRanges
  BY <1>2, AskedRanges
<1>5. r \in ByteRanges
  <2> HIDE DEF i
  <2> QED BY <1>2, <1>4
<1>6. /\ q.start \in Nat /\ q.end \in Nat /\ r.start \in Nat /\ r.end \in Nat /\ FileSize \in Nat
      /\ r.start <= r.end
  BY <1>2, <1>5, ReaderAssumption DEF ByteRanges
<1>7. b = Exact(r)
  BY <1>1, <1>2, <1>6 DEF Exact, Bytes, Remote
<1>8. b.len = r.end - r.start /\ x.got.len = Smaller(q.end, FileSize) - q.start
  BY <1>1, <1>7 DEF Exact, Bytes, Remote
<1> HIDE DEF x, b, after, i, r, q, off
<1>9. ASSUME ~(acc.failed \/ x.off + b.len > x.got.len)
      PROVE  Truthful(r, b)
  <2>1. r.end <= FileSize
    <3>1. off + (r.end - r.start) <= Smaller(q.end, FileSize) - q.start
      <4>1. Smaller(q.end, FileSize) \in Nat
        BY <1>6 DEF Smaller
      <4> QED BY <1>1, <1>2, <1>6, <1>8, <1>9, <4>1
    <3>2. Smaller(q.end, FileSize) \in Nat /\ Smaller(q.end, FileSize) <= FileSize
      BY <1>6 DEF Smaller
    <3> QED BY <1>2, <1>6, <3>1, <3>2
  <2>2. Smaller(r.end, FileSize) = r.end
    BY <1>6, <2>1 DEF Smaller
  <2>3. b = Remote(r)
    BY <1>7, <2>2 DEF Exact, Remote
  <2> QED BY <1>8, <2>3 DEF Truthful
<1>10. /\ acc = [cache |-> acc.cache, out |-> acc.out, failed |-> acc.failed]
       /\ acc.failed \in BOOLEAN /\ TrueCache(acc.cache) /\ DOMAIN acc.out = DOMAIN w.asked
  BY DEF FilledTo
<1>11. CASE acc.failed \/ x.off + b.len > x.got.len
  <2>1. after = [cache |-> acc.cache, out |-> acc.out, failed |-> TRUE]
    BY <1>3, <1>10, <1>11
  <2> QED BY <1>10, <2>1 DEF FilledTo, after, x
<1>12. CASE ~(acc.failed \/ x.off + b.len > x.got.len)
  <2> DEFINE out == [acc.out EXCEPT ![i] = b]
  <2>1. after = [cache |-> Insert(acc.cache, r, b), out |-> out, failed |-> acc.failed]
    BY <1>1, <1>3, <1>10, <1>12
  <2>2. TrueCache(Insert(acc.cache, r, b))
    BY <1>4, <1>9, <1>10, <1>12, InsertIsTrue
  <2>3. DOMAIN out = DOMAIN w.asked /\ out[i] = b
        /\ \A j \in DOMAIN w.asked : j # i => out[j] = acc.out[j]
    BY <1>2, <1>10
  <2> HIDE DEF out
  <2>4. ASSUME NEW j \in DOMAIN w.asked
        PROVE  out[j] = Exact(w.asked[j]) \/ \E m \in DOMAIN w.missing : m > n /\ w.missing[m] = j
    <3>1. CASE j = i
      BY <1>7, <2>3, <3>1 DEF r
    <3>2. CASE j # i
      <4>1. acc.out[j] = Exact(w.asked[j]) \/ \E m \in DOMAIN w.missing : m > n - 1 /\ w.missing[m] = j
        BY <1>12 DEF FilledTo
      <4>2. \A m \in DOMAIN w.missing : m > n - 1 => m = n \/ m > n
        BY DEF CutsRight
      <4> QED BY <2>3, <3>2, <4>1, <4>2 DEF i
    <3> QED BY <3>1, <3>2
  <2>5. FilledTo(w, n, after)
    BY <1>10, <2>1, <2>2, <2>3, <2>4 DEF FilledTo
  <2> QED BY <2>5 DEF after, x
<1> QED BY <1>11, <1>12

\* The whole fill leaves a true cache and, unless it fails, exact answers.
LEMMA FillIsExact ==
  ASSUME NEW w, w.asked \in BlockLists, CutsRight(w), NEW d, TrueCache(d)
  PROVE  LET f == FoldLeft(FillOne, Unfilled(d, w), Cuts(w))
         IN /\ f.failed \in BOOLEAN /\ TrueCache(f.cache)
            /\ DOMAIN f.out = DOMAIN w.asked
            /\ ~f.failed => \A i \in DOMAIN w.asked : f.out[i] = Exact(w.asked[i])
<1>1. PICK n \in Nat : DOMAIN w.missing = 1..n
  BY DEF CutsRight
<1> DEFINE After(m) == Fills!Fold(Unfilled(d, w), Cuts(w), 1..m)
           T == {m \in 0..n : FilledTo(w, m, After(m))}
           f == FoldLeft(FillOne, Unfilled(d, w), Cuts(w))
<1>2. DOMAIN Cuts(w) = 1..n
  BY <1>1 DEF Cuts
<1>3. Fills!LastFirst /\ Fills!Chooses(1..n)
  BY LastIsFirst DEF Fills!LastFirst, Fills!Chooses
<1>4. /\ After(0) = Unfilled(d, w)
      /\ \A m \in 1..n : After(m) = FillNext(Cuts(w)[m], After(m - 1))
  BY <1>3, Fills!FoldOfPrefix
<1>5. f = After(n)
  BY <1>2 DEF FoldLeft, MapThenFoldSet, Fills!Fold, Fills!MapThenFoldSet, FillNext
<1> HIDE DEF After, f
<1>6. 0 \in T
  <2>1. FilledTo(w, 0, Unfilled(d, w))
    <3>1. \A m \in DOMAIN w.missing : m > 0
      BY <1>1
    <3> QED BY <3>1 DEF FilledTo, Unfilled, CutsRight, Settled
  <2> QED BY <1>4, <2>1
<1>7. ASSUME NEW m \in 0..(n - 1), m \in T
      PROVE  m + 1 \in T
  <2>1. m + 1 \in 1..n /\ (m + 1) - 1 = m /\ m + 1 \in 0..n
    OBVIOUS
  <2>2. After(m + 1) = FillOne(After(m), Cuts(w)[m + 1])
    BY <1>4, <2>1 DEF FillNext
  <2>3. FilledTo(w, m + 1, FillOne(After(m), Cuts(w)[m + 1]))
    BY <1>1, <1>7, <2>1, FillRound
  <2> QED BY <2>1, <2>2, <2>3
<1> HIDE DEF T
<1>8. n \in T
  <2>1. 0..n \subseteq T
    BY <1>6, <1>7, Fills!CountUp
  <2> QED BY <2>1
<1>9. FilledTo(w, n, f)
  BY <1>5, <1>8 DEF T
<1>10. \A m \in DOMAIN w.missing : ~(m > n)
  BY <1>1
<1> QED BY <1>9, <1>10 DEF FilledTo, f

-----------------------------------------------------------------------------
(* Steps. *)

ExactAnswer(w) ==
  w.pc = "answered" =>
    /\ DOMAIN w.out = DOMAIN w.asked
    /\ \A i \in DOMAIN w.asked :
         w.out[i] = IF w.kind = "bytes" THEN Remote(w.asked[i]) ELSE Exact(w.asked[i])

LEMMA AnswersAre == AnswersAreExact <=> \A c \in Call : ExactAnswer(call[c])
BY DEF AnswersAreExact, ExactAnswer, Exact

\* A step that changes one call, and the permits by as much as its requests in
\* flight, keeps the invariant.
LEMMA OneCall ==
  ASSUME IInv, NEW c \in Call, NEW w, call' = [call EXCEPT ![c] = w],
         w.pc \in {"idle", "fetching", "answered", "failed"},
         Known(w), ExactAnswer(w), IsFiniteSet(Flies(w)), TrueCache(cache'),
         permits' = permits + Cardinality(Flies(call[c])) - Cardinality(Flies(w)),
         permits' >= 0, calls' \in 0..MaxCalls
  PROVE  IInv'
<1>1. DOMAIN call = Call /\ IsFiniteSet(Flights(call)) /\ permits + Cardinality(Flights(call)) = Limit
      /\ permits \in 0..Limit
  BY InFlightAre DEF IInv, PermitsConserved, TypeOK
<1>2. Limit \in Nat
  BY ReaderAssumption DEF LimitAssumption
<1>3. /\ IsFiniteSet(Flights(call'))
      /\ Cardinality(Flights(call')) = Cardinality(Flights(call)) - Cardinality(Flies(call[c])) + Cardinality(Flies(w))
      /\ Cardinality(Flies(call[c])) \in Nat /\ Cardinality(Flights(call)) \in Nat
      /\ Cardinality(Flies(w)) \in Nat /\ Cardinality(Flights(call')) \in Nat
  <2>1. /\ IsFiniteSet(Flights(call'))
        /\ Cardinality(Flights(call')) = Cardinality(Flights(call)) - Cardinality(Flies(call[c])) + Cardinality(Flies(w))
        /\ Cardinality(Flies(call[c])) \in Nat /\ Cardinality(Flights(call)) \in Nat
        /\ Cardinality(Flies(w)) \in Nat
    BY <1>1, FlightsChange
  <2> QED BY <2>1, FS_CardinalityType
<1>4. permits' + Cardinality(Flights(call')) = Limit /\ permits' \in 0..Limit
  BY <1>1, <1>2, <1>3
<1>5. InFlight' = Flights(call')
  BY InFlightAre DEF InFlight, Flights, Flying, At, Flies
<1>6. IsFiniteSet(InFlight') /\ PermitsConserved'
  BY <1>3, <1>4, <1>5 DEF PermitsConserved
<1>7. DOMAIN call' = Call /\ \A d \in Call : call'[d] = w \/ call'[d] = call[d]
  BY <1>1
<1>8. /\ \A d \in Call : Known(call'[d]) /\ ExactAnswer(call'[d])
      /\ \A d \in Call : call'[d].pc \in {"idle", "fetching", "answered", "failed"}
  BY <1>7, AnswersAre DEF IInv, TypeOK
<1>9. AnswersAreExact'
  BY <1>8 DEF AnswersAreExact, ExactAnswer, Exact
<1>10. TypeOK'
  BY <1>4, <1>8 DEF TypeOK, TrueCache, AllRanges
<1> QED BY <1>6, <1>7, <1>8, <1>9, <1>10 DEF IInv

\* A call's requests in flight can be counted.
LEMMA FlightsCounted ==
  ASSUME IInv, NEW c \in Call
  PROVE  IsFiniteSet(Flies(call[c])) /\ Cardinality(Flies(call[c])) \in Nat
<1> DEFINE mine == {c} \X Flies(call[c])
<1>1. IsFiniteSet(Flights(call))
  BY InFlightAre DEF IInv
<1>2. mine \in SUBSET Flights(call)
  BY DEF Flights
<1>3. IsFiniteSet(mine)
  <2> HIDE DEF mine
  <2> QED BY <1>1, <1>2, FS_Subset
<1> QED BY <1>3, PairsCounted, FS_CardinalityType

\* A call that is not fetching has nothing in flight.
LEMMA NoneFlies ==
  ASSUME NEW w, Known(w), w.pc # "fetching"
  PROVE  IsFiniteSet(Flies(w)) /\ Cardinality(Flies(w)) = 0
<1>1. Flies(w) = {}
  BY DEF Known, Flies
<1> QED BY <1>1, FS_EmptySet

LEMMA FailedIsKnown ==
  LET w == [NoCall EXCEPT !.pc = "failed"]
  IN Known(w) /\ ExactAnswer(w) /\ w.pc = "failed"
BY DEF Known, Shaped, NoCall, ExactAnswer

\* Starting a call: what it asks for is known, and nothing flies yet.
LEMMA BeginKeeps ==
  ASSUME IInv, NEW c \in Call, NEW kind \in {"bytes", "ranges"}, NEW rs, NEW requests,
         NEW n \in Nat, DOMAIN rs = 1..n, Begin(c, kind, rs, requests),
         kind = "bytes" => \E r \in MetaRanges : rs = <<r>>,
         kind = "ranges" => rs \in BlockLists /\ requests = Merge(Wanted(rs))
  PROVE  IInv'
<1> DEFINE w == [pc |-> IF Missing(rs) = <<>> THEN "answered" ELSE "fetching",
                 kind |-> kind, asked |-> rs, out |-> Answers(rs), missing |-> Missing(rs),
                 reqs |-> requests.reqs, place |-> requests.place,
                 at |-> [k \in DOMAIN requests.reqs |-> "waiting"]]
<1>1. /\ call' = [call EXCEPT ![c] = w] /\ permits' = permits /\ calls' = calls + 1
      /\ calls < MaxCalls /\ call[c].pc # "fetching" /\ cache' = FoldLeft(Touch, cache, rs)
  BY DEF Begin, LookUp
<1>2. TrueCache(cache')
  BY <1>1, LookUpIsTrue DEF IInv
<1>3. /\ w.pc \in {"answered", "fetching"} /\ w.kind = kind /\ w.asked = rs /\ w.out = Answers(rs)
      /\ w.missing = Missing(rs) /\ w.reqs = requests.reqs /\ w.place = requests.place
      /\ DOMAIN w.at = DOMAIN w.reqs /\ \A k \in DOMAIN w.reqs : w.at[k] = "waiting"
      /\ Shaped(w)
      /\ w.pc = "answered" <=> Missing(rs) = <<>>
  BY DEF Shaped
<1> HIDE DEF w
<1>4. Flies(w) = {}
  BY <1>3 DEF Flies
<1>5. Pending(w)
  <2>1. kind = "ranges" => CutsRight(w)
    BY <1>3, CutsStartRight DEF IInv
  <2> QED BY <1>3, <2>1 DEF Pending
<1>6. Known(w)
  BY <1>3, <1>5 DEF Known
<1>7. ExactAnswer(w)
  <2> SUFFICES ASSUME Missing(rs) = <<>> PROVE ExactAnswer(w)
    BY <1>3 DEF ExactAnswer
  <2>1. \A i \in DOMAIN rs : rs[i] \in Keys(cache)
    <3>1. \A i \in DOMAIN rs : rs[i] \in Keys(cache) \/ \E m \in DOMAIN Missing(rs) : Missing(rs)[m] = i
      BY MissingListed
    <3> QED BY <3>1
  <2>2. DOMAIN w.out = DOMAIN rs /\ \A i \in DOMAIN rs : w.out[i] = cache.map[rs[i]].b
    BY <1>3, <2>1 DEF Answers
  <2>3. \A i \in DOMAIN rs : Truthful(rs[i], w.out[i])
    BY <2>1, <2>2 DEF IInv, TrueCache
  <2>4. CASE kind = "bytes"
    BY <1>3, <2>2, <2>3, <2>4 DEF ExactAnswer, Truthful
  <2>5. CASE kind = "ranges"
    <3>1. \A i \in DOMAIN rs : rs[i] \notin MetaRanges
      BY <2>5, AskedRanges
    <3>2. \A i \in DOMAIN rs : w.out[i] = Exact(rs[i])
      BY <2>3, <3>1, TruthIsExact
    <3> QED BY <1>3, <2>2, <2>5, <3>2 DEF ExactAnswer
  <2> QED BY <2>4, <2>5
<1>8. /\ permits' = permits + Cardinality(Flies(call[c])) - Cardinality(Flies(w))
      /\ permits' >= 0 /\ calls' \in 0..MaxCalls
  <2>1. Cardinality(Flies(call[c])) = 0 /\ Cardinality(Flies(w)) = 0
    BY <1>1, <1>4, NoneFlies, FS_EmptySet DEF IInv
  <2>2. permits \in Nat /\ calls \in Nat /\ MaxCalls \in Nat
    BY ReaderAssumption DEF IInv, TypeOK
  <2> QED BY <1>1, <2>1, <2>2
<1>9. IsFiniteSet(Flies(w)) /\ w.pc \in {"idle", "fetching", "answered", "failed"}
  BY <1>3, <1>4, FS_EmptySet
<1> QED BY <1>1, <1>2, <1>6, <1>7, <1>8, <1>9, OneCall

\* A request gets a permit.
LEMMA AcquireKeeps ==
  ASSUME IInv, NEW c \in Call, NEW k, Acquire(c, k)
  PROVE  IInv'
<1> DEFINE v == call[c]
           w == [call[c] EXCEPT !.at[k] = "flying"]
<1>1. /\ v.pc = "fetching" /\ k \in DOMAIN v.reqs /\ v.at[k] = "waiting"
      /\ permits > 0 /\ permits' = permits - 1 /\ call' = [call EXCEPT ![c] = w]
      /\ cache' = cache /\ calls' = calls
  BY DEF Acquire, Fetching, At
<1>2. Known(v) /\ Shaped(v) /\ DOMAIN v.at = DOMAIN v.reqs /\ Pending(v)
  BY <1>1 DEF IInv, Known
<1>3. w = [pc |-> v.pc, kind |-> v.kind, asked |-> v.asked, out |-> v.out, missing |-> v.missing,
           reqs |-> v.reqs, place |-> v.place, at |-> [v.at EXCEPT ![k] = "flying"]]
  BY <1>2 DEF Shaped
<1> HIDE DEF w, v
<1>4. /\ w.pc = "fetching" /\ w.reqs = v.reqs /\ w.at = [v.at EXCEPT ![k] = "flying"]
      /\ Shaped(w) /\ Pending(w)
  BY <1>1, <1>2, <1>3 DEF Shaped, Pending, CutsRight, Settled
<1>5. Known(w) /\ ExactAnswer(w)
  BY <1>2, <1>4 DEF Known, ExactAnswer
<1>6. Flies(w) = Flies(v) \cup {k} /\ k \notin Flies(v)
  BY <1>1, <1>2, <1>4 DEF Flies
<1>7. IsFiniteSet(Flies(v)) /\ Cardinality(Flies(v)) \in Nat
  BY FlightsCounted DEF v
<1>8. IsFiniteSet(Flies(w)) /\ Cardinality(Flies(w)) = Cardinality(Flies(v)) + 1
  BY <1>6, <1>7, FS_AddElement
<1>9. permits \in Nat /\ calls \in 0..MaxCalls
  BY DEF IInv, TypeOK
<1>10. permits' = permits + Cardinality(Flies(v)) - Cardinality(Flies(w)) /\ permits' >= 0
  BY <1>1, <1>7, <1>8, <1>9
<1>11. TrueCache(cache') /\ calls' \in 0..MaxCalls
  BY <1>1, <1>9 DEF IInv
<1> QED BY <1>1, <1>4, <1>5, <1>8, <1>10, <1>11, OneCall DEF v

\* A request's answer arrives and frees its permit.
LEMMA ArriveKeeps ==
  ASSUME IInv, NEW c \in Call, NEW k, Arrive(c, k)
  PROVE  IInv'
<1> DEFINE v == call[c]
           w == [call[c] EXCEPT !.at[k] = "arrived"]
<1>1. /\ v.pc = "fetching" /\ k \in Flies(v)
      /\ permits' = permits + 1 /\ call' = [call EXCEPT ![c] = w]
      /\ cache' = cache /\ calls' = calls
  BY DEF Arrive, Fetching, Flying, At, Flies
<1>2. Known(v) /\ Shaped(v) /\ DOMAIN v.at = DOMAIN v.reqs /\ Pending(v)
  BY <1>1 DEF IInv, Known
<1>3. w = [pc |-> v.pc, kind |-> v.kind, asked |-> v.asked, out |-> v.out, missing |-> v.missing,
           reqs |-> v.reqs, place |-> v.place, at |-> [v.at EXCEPT ![k] = "arrived"]]
  BY <1>2 DEF Shaped
<1> HIDE DEF w, v
<1>4. /\ w.pc = "fetching" /\ w.reqs = v.reqs /\ w.at = [v.at EXCEPT ![k] = "arrived"]
      /\ Shaped(w) /\ Pending(w)
  BY <1>1, <1>2, <1>3 DEF Shaped, Pending, CutsRight, Settled
<1>5. Known(w) /\ ExactAnswer(w)
  BY <1>2, <1>4 DEF Known, ExactAnswer
<1>6. Flies(w) = Flies(v) \ {k}
  BY <1>1, <1>2, <1>4 DEF Flies
<1>7. IsFiniteSet(Flies(v)) /\ Cardinality(Flies(v)) \in Nat
  BY FlightsCounted DEF v
<1>8. IsFiniteSet(Flies(w)) /\ Cardinality(Flies(w)) = Cardinality(Flies(v)) - 1
  BY <1>1, <1>6, <1>7, FS_RemoveElement
<1>9. permits \in Nat /\ calls \in 0..MaxCalls
  BY DEF IInv, TypeOK
<1>10. permits' = permits + Cardinality(Flies(v)) - Cardinality(Flies(w)) /\ permits' >= 0
  BY <1>1, <1>7, <1>8, <1>9
<1>11. TrueCache(cache') /\ calls' \in 0..MaxCalls
  BY <1>1, <1>9 DEF IInv
<1> QED BY <1>1, <1>4, <1>5, <1>8, <1>10, <1>11, OneCall DEF v

\* A call that ends early gives back the permits of its requests in flight.
LEMMA FaultKeeps ==
  ASSUME IInv, NEW c \in Call, NEW k, Fault(c, k)
  PROVE  IInv'
<1> DEFINE w == [NoCall EXCEPT !.pc = "failed"]
<1>1. /\ call' = [call EXCEPT ![c] = w] /\ permits' = permits + Cardinality(Flies(call[c]))
      /\ cache' = cache /\ calls' = calls
  BY InFlightAre DEF Fault, Abandon
<1>2. Known(w) /\ ExactAnswer(w) /\ w.pc = "failed"
  BY FailedIsKnown
<1> HIDE DEF w
<1>3. IsFiniteSet(Flies(w)) /\ Cardinality(Flies(w)) = 0
  BY <1>2, NoneFlies
<1>4. Cardinality(Flies(call[c])) \in Nat /\ permits \in Nat /\ calls \in 0..MaxCalls
  BY FlightsCounted DEF IInv, TypeOK
<1>5. permits' = permits + Cardinality(Flies(call[c])) - Cardinality(Flies(w)) /\ permits' >= 0
  BY <1>1, <1>3, <1>4
<1>6. TrueCache(cache') /\ calls' \in 0..MaxCalls
  BY <1>1, <1>4 DEF IInv
<1> QED BY <1>1, <1>2, <1>3, <1>5, <1>6, OneCall

\* A dropped read gives back every permit.
LEMMA DropKeeps ==
  ASSUME IInv, DropRead
  PROVE  IInv'
<1> DEFINE w == [NoCall EXCEPT !.pc = "failed"]
<1>1. /\ call' = [c \in Call |-> IF call[c].pc = "fetching" THEN w ELSE call[c]]
      /\ permits' = Limit /\ cache' = cache /\ calls' = calls
  BY DEF DropRead, Fetching
<1>2. Known(w) /\ ExactAnswer(w) /\ w.pc = "failed"
  BY FailedIsKnown
<1> HIDE DEF w
<1>3. /\ DOMAIN call' = Call
      /\ \A c \in Call : call'[c] = w \/ (call'[c] = call[c] /\ call[c].pc # "fetching")
  BY <1>1
<1>4. /\ \A c \in Call : Known(call'[c]) /\ ExactAnswer(call'[c]) /\ call'[c].pc # "fetching"
      /\ \A c \in Call : call'[c].pc \in {"idle", "fetching", "answered", "failed"}
  BY <1>2, <1>3, AnswersAre DEF IInv, TypeOK
<1>5. InFlight' = {}
  <2>1. \A c \in Call : Flies(call'[c]) = {}
    BY <1>4 DEF Known, Flies
  <2>2. InFlight' = UNION {{c} \X Flies(call'[c]) : c \in Call}
    BY DEF InFlight, Flying, At, Flies
  <2>3. \A c \in Call : {c} \X Flies(call'[c]) = {}
    BY <2>1
  <2> QED BY <2>2, <2>3
<1>6. Limit \in Nat
  BY ReaderAssumption DEF LimitAssumption
<1>7. IsFiniteSet(InFlight') /\ PermitsConserved'
  <2>1. IsFiniteSet(InFlight') /\ Cardinality(InFlight') = 0
    BY <1>5, FS_EmptySet
  <2>2. permits' + Cardinality(InFlight') = Limit
    BY <1>1, <1>6, <2>1
  <2> QED BY <2>1, <2>2 DEF PermitsConserved
<1>8. AnswersAreExact'
  BY <1>4 DEF AnswersAreExact, ExactAnswer, Exact
<1>9. TypeOK'
  BY <1>1, <1>4, <1>6 DEF IInv, TypeOK
<1> QED BY <1>1, <1>3, <1>4, <1>7, <1>8, <1>9 DEF IInv

\* Once all of a call's requests have arrived, none is in flight.
LEMMA ArrivedNoneFlies ==
  ASSUME NEW c \in Call, AllArrived(c)
  PROVE  \A k \in DOMAIN call[c].reqs : call[c].at[k] # "flying"
BY DEF AllArrived, At

\* An answered call keeps its other fields.
LEMMA AnsweredFields ==
  ASSUME NEW v, NEW out, Shaped(v)
  PROVE  [v EXCEPT !.pc = "answered", !.out = out] =
           [pc |-> "answered", kind |-> v.kind, asked |-> v.asked, out |-> out, missing |-> v.missing,
            reqs |-> v.reqs, place |-> v.place, at |-> v.at]
<1> DEFINE w == [v EXCEPT !.pc = "answered", !.out = out]
<1>1. DOMAIN v = {"pc", "kind", "asked", "out", "missing", "reqs", "place", "at"}
  BY DEF Shaped
<1>2. /\ w.pc = "answered" /\ w.out = out /\ DOMAIN w = DOMAIN v
      /\ w.kind = v.kind /\ w.asked = v.asked /\ w.missing = v.missing
      /\ w.reqs = v.reqs /\ w.place = v.place /\ w.at = v.at
  BY <1>1
<1>3. w = [f \in DOMAIN v |-> w[f]]
  OBVIOUS
<1> HIDE DEF w
<1>4. w = [pc |-> w.pc, kind |-> w.kind, asked |-> w.asked, out |-> w.out,
           missing |-> w.missing, reqs |-> w.reqs, place |-> w.place, at |-> w.at]
  BY <1>1, <1>3
<1> QED BY <1>2, <1>4 DEF w

\* get_bytes caches and answers what arrived.
LEMMA DeliverBytesKeeps ==
  ASSUME IInv, NEW c \in Call, DeliverBytes(c)
  PROVE  IInv'
<1> DEFINE v == call[c]
           b == Remote(v.asked[1])
           w == [v EXCEPT !.pc = "answered", !.out = <<b>>]
<1>1. /\ v.pc = "fetching" /\ v.kind = "bytes"
      /\ cache' = Insert(cache, v.asked[1], b) /\ call' = [call EXCEPT ![c] = w]
      /\ permits' = permits /\ calls' = calls
      /\ \A k \in DOMAIN v.reqs : v.at[k] # "flying"
  BY ArrivedNoneFlies DEF DeliverBytes, Fetching
<1>2. Known(v) /\ Shaped(v) /\ DOMAIN v.at = DOMAIN v.reqs /\ Pending(v)
  BY <1>1 DEF IInv, Known
<1>3. PICK r \in MetaRanges : v.asked = <<r>>
  BY <1>1, <1>2 DEF Pending
<1>4. w = [pc |-> "answered", kind |-> v.kind, asked |-> v.asked, out |-> <<b>>, missing |-> v.missing,
           reqs |-> v.reqs, place |-> v.place, at |-> v.at]
  BY <1>2, AnsweredFields
<1>5. v.asked[1] = r /\ b = Remote(r) /\ DOMAIN v.asked = {1}
  BY <1>3
<1> HIDE DEF v, w, b
<1>6. /\ w.pc = "answered" /\ w.kind = "bytes" /\ w.asked = v.asked /\ w.out = <<b>>
      /\ w.reqs = v.reqs /\ w.at = v.at /\ Shaped(w)
  BY <1>1, <1>4 DEF Shaped
<1>7. Known(w)
  BY <1>1, <1>2, <1>6 DEF Known
<1>8. ExactAnswer(w)
  <2>1. DOMAIN w.out = {1} /\ w.out[1] = b
    BY <1>6
  <2> QED BY <1>5, <1>6, <2>1 DEF ExactAnswer
<1>9. TrueCache(cache')
  <2>1. Truthful(r, b) /\ r \in AllRanges /\ TrueCache(cache)
    BY <1>5, AskedRanges DEF Truthful, IInv
  <2> QED BY <1>1, <1>5, <2>1, InsertIsTrue
<1>10. Flies(w) = {} /\ Flies(v) = {}
  BY <1>1, <1>6 DEF Flies
<1>11. permits \in Nat /\ calls \in 0..MaxCalls
  BY DEF IInv, TypeOK
<1>12. permits' = permits + Cardinality(Flies(v)) - Cardinality(Flies(w)) /\ permits' >= 0
  BY <1>1, <1>10, <1>11, FS_EmptySet
<1> QED BY <1>1, <1>6, <1>7, <1>8, <1>9, <1>10, <1>11, <1>12, FS_EmptySet, OneCall DEF v

\* get_byte_ranges fills the cache and answers, or fails on a range it fell
\* short of.
LEMMA DeliverRangesKeeps ==
  ASSUME IInv, NEW c \in Call, DeliverRanges(c)
  PROVE  IInv'
<1> DEFINE v == call[c]
           f == Filled(v)
           w == IF f.failed THEN [NoCall EXCEPT !.pc = "failed"]
                ELSE [v EXCEPT !.pc = "answered", !.out = f.out]
<1>1. /\ v.pc = "fetching" /\ v.kind = "ranges"
      /\ cache' = f.cache /\ call' = [call EXCEPT ![c] = w]
      /\ permits' = permits /\ calls' = calls
      /\ \A k \in DOMAIN v.reqs : v.at[k] # "flying"
  BY ArrivedNoneFlies DEF DeliverRanges, Fetching
<1>2. Known(v) /\ Shaped(v) /\ DOMAIN v.at = DOMAIN v.reqs /\ Pending(v) /\ TrueCache(cache)
  BY <1>1 DEF IInv, Known
<1>3. v.asked \in BlockLists /\ CutsRight(v)
  BY <1>1, <1>2 DEF Pending
<1>4. /\ f.failed \in BOOLEAN /\ TrueCache(f.cache)
      /\ DOMAIN f.out = DOMAIN v.asked
      /\ ~f.failed => \A i \in DOMAIN v.asked : f.out[i] = Exact(v.asked[i])
  <2>1. f = FoldLeft(FillOne, Unfilled(cache, v), Cuts(v))
    BY DEF Filled, Unfilled
  <2> HIDE DEF f, v
  <2> QED BY <1>2, <1>3, <2>1, FillIsExact
<1>5. CASE f.failed
  <2>1. Known(w) /\ ExactAnswer(w) /\ w.pc = "failed"
    BY <1>5, FailedIsKnown
  <2> HIDE DEF w, f, v
  <2>2. IsFiniteSet(Flies(w)) /\ Cardinality(Flies(w)) = 0
    BY <2>1, NoneFlies
  <2>3. permits \in Nat /\ calls \in 0..MaxCalls
    BY DEF IInv, TypeOK
  <2>4. Flies(v) = {}
    BY <1>1 DEF Flies
  <2>5. permits' = permits + Cardinality(Flies(v)) - Cardinality(Flies(w)) /\ permits' >= 0
    BY <1>1, <2>2, <2>3, <2>4, FS_EmptySet
  <2> QED BY <1>1, <1>4, <2>1, <2>2, <2>3, <2>5, OneCall DEF v
<1>6. CASE ~f.failed
  <2>1. w = [pc |-> "answered", kind |-> v.kind, asked |-> v.asked, out |-> f.out, missing |-> v.missing,
             reqs |-> v.reqs, place |-> v.place, at |-> v.at]
    BY <1>2, <1>6, AnsweredFields
  <2> HIDE DEF w, f, v
  <2>2. /\ w.pc = "answered" /\ w.kind = "ranges" /\ w.asked = v.asked /\ w.out = f.out
        /\ w.reqs = v.reqs /\ w.at = v.at /\ Shaped(w)
    BY <1>1, <2>1 DEF Shaped
  <2>3. Known(w) /\ ExactAnswer(w)
    BY <1>1, <1>2, <1>4, <1>6, <2>2 DEF Known, ExactAnswer
  <2>4. Flies(w) = {} /\ Flies(v) = {}
    BY <1>1, <2>2 DEF Flies
  <2>5. permits \in Nat /\ calls \in 0..MaxCalls
    BY DEF IInv, TypeOK
  <2>6. permits' = permits + Cardinality(Flies(v)) - Cardinality(Flies(w)) /\ permits' >= 0
    BY <1>1, <2>4, <2>5, FS_EmptySet
  <2> QED BY <1>1, <1>4, <2>2, <2>3, <2>4, <2>5, <2>6, FS_EmptySet, OneCall DEF v
<1> QED BY <1>4, <1>5, <1>6

\* Between reads, or when nothing happens, the calls stay as they are.
LEMMA CallsStay ==
  ASSUME IInv, UNCHANGED <<permits, call, calls>>, TrueCache(cache')
  PROVE  IInv'
BY DEF IInv, TypeOK, TrueCache, AllRanges, AnswersAreExact, PermitsConserved, InFlight, Flying, At

LEMMA StepKeeps == IInv /\ [Next]_vars => IInv'
<1> SUFFICES ASSUME IInv, [Next]_vars PROVE IInv'
  OBVIOUS
<1>1. ASSUME NEW c \in Call, NEW r \in MetaRanges, GetBytes(c, r) PROVE IInv'
  <2>1. DOMAIN <<r>> = 1..1
    OBVIOUS
  <2> QED BY <1>1, <2>1, BeginKeeps DEF GetBytes
<1>2. ASSUME NEW c \in Call, NEW rs \in BlockLists, GetByteRanges(c, rs) PROVE IInv'
  <2>1. Len(rs) \in Nat /\ DOMAIN rs = 1..Len(rs)
    BY AskedRanges
  <2> QED BY <1>2, <2>1, BeginKeeps DEF GetByteRanges
<1>3. ASSUME NEW c \in Call, CallStep(c) PROVE IInv'
  BY <1>3, AcquireKeeps, ArriveKeeps, FaultKeeps, DeliverBytesKeeps, DeliverRangesKeeps DEF CallStep
<1>4. CASE DropRead
  BY <1>4, DropKeeps
<1>5. ASSUME NEW n \in Budgets, CacheSet(n) PROVE IInv'
  BY <1>5, ResizedIsTrue, CallsStay DEF CacheSet, IInv
<1>6. CASE CacheClear
  BY <1>6, EmptiedIsTrue, CallsStay DEF CacheClear, Clear
<1>7. CASE UNCHANGED vars
  BY <1>7, CallsStay DEF vars, IInv
<1> QED BY <1>1, <1>2, <1>3, <1>4, <1>5, <1>6, <1>7 DEF Next

LEMMA StartKnown == Init => IInv
<1> SUFFICES ASSUME Init PROVE IInv
  OBVIOUS
<1>1. /\ TrueCache(cache) /\ permits = Limit /\ calls = 0 /\ DOMAIN call = Call
      /\ \A c \in Call : call[c] = NoCall
  BY EmptiedIsTrue DEF Init
<1>2. Limit \in Nat /\ MaxCalls \in Nat
  BY ReaderAssumption DEF LimitAssumption
<1>3. Known(NoCall) /\ ExactAnswer(NoCall) /\ NoCall.pc = "idle" /\ Flies(NoCall) = {}
  BY DEF Known, Shaped, NoCall, ExactAnswer, Flies
<1>4. TypeOK
  BY <1>1, <1>2, <1>3 DEF TypeOK, TrueCache, AllRanges
<1>5. InFlight = {}
  BY <1>1, <1>3, InFlightAre DEF Flights
<1>6. IsFiniteSet(InFlight) /\ PermitsConserved
  BY <1>1, <1>2, <1>5, FS_EmptySet DEF PermitsConserved
<1> QED BY <1>1, <1>3, <1>4, <1>6, AnswersAre DEF IInv

-----------------------------------------------------------------------------
(* What holds of every read. *)

\* The permits stay between none and the limit, the calls within their bound,
\* and only ranges that were asked for are cached.
THEOREM TypeCorrect == Spec => []TypeOK
<1>1. IInv => TypeOK
  BY DEF IInv
<1> QED BY <1>1, StartKnown, StepKeeps, PTL DEF Spec

\* Whatever calls share the limit, and however their requests are answered,
\* fail or are dropped, each permit is free or with one request in flight.
THEOREM NoPermitLost == Spec => []PermitsConserved
<1>1. IInv => PermitsConserved
  BY DEF IInv
<1> QED BY <1>1, StartKnown, StepKeeps, PTL DEF Spec

\* The cache answers a range with the file's bytes at it, whatever requests
\* its entries were cut out of and whatever was evicted between.
THEOREM CacheStaysTrue == Spec => []CacheTruthful
<1>1. IInv => CacheTruthful
  BY DEF IInv, TrueCache, Truthful, CacheTruthful
<1> QED BY <1>1, StartKnown, StepKeeps, PTL DEF Spec

\* An answered call has, range by range, the bytes it asked for, from the cache
\* or cut out of merged requests.
THEOREM AnswersExact == Spec => []AnswersAreExact
<1>1. IInv => AnswersAreExact
  BY DEF IInv
<1> QED BY <1>1, StartKnown, StepKeeps, PTL DEF Spec
=============================================================================

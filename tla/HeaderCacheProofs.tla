-------------------------- MODULE HeaderCacheProofs --------------------------
(***************************************************************************)
(* Proofs about HeaderCache: what calls are answered is what the file has, *)
(* and the chunks only grow, for every chunk length, file and number of    *)
(* calls.                                                                  *)
(***************************************************************************)
EXTENDS HeaderCache, TLAPS

Pcs == {"idle", "locking", "checking", "chunk", "needed", "slicing", "answered", "failed"}
Held == {"checking", "chunk", "needed", "slicing"}
Record == [pc : Pcs, lo : 0..MaxAsked, hi : 0..MaxAsked, at : Nat, faulty : BOOLEAN]

Typed ==
  /\ DOMAIN chunks \subseteq Nat
  /\ \A k \in DOMAIN chunks : chunks[k] \in Nat /\ chunks[k] <= InFile(k)
  /\ call \in [Call -> Record]

\* Calls that hold the lock are one at most.
LockHeld == \A c \in Call : call[c].pc \in Held <=> holder = c

\* Where a call is in its range.
InRange ==
  \A c \in Call :
    /\ call[c].pc \in Held \cup {"locking"} => call[c].lo < call[c].hi
    /\ call[c].pc \in {"checking", "chunk", "needed"} =>
         First(call[c]) <= call[c].at /\ call[c].at <= Last(call[c])
    /\ call[c].pc = "slicing" => call[c].at = Last(call[c]) + 1

\* A call that waits for the lock has not begun.
AtFirst == \A c \in Call : call[c].pc = "locking" => call[c].at = First(call[c])

\* What a call has left behind it is cached, if the file has it.
Visited ==
  \A c \in Call : call[c].pc \in Held =>
    \A k \in Nat : First(call[c]) <= k /\ k < call[c].at =>
      Need(call[c], k) <= Cached(k) \/ call[c].hi > FileSize

\* A call asks the reader only while it lacks something.
Lacking ==
  \A c \in Call : call[c].pc \in {"chunk", "needed"} =>
    (call[c].at \in DOMAIN chunks => chunks[call[c].at] < Need(call[c], call[c].at))

IInv == Typed /\ LockHeld /\ InRange /\ AtFirst /\ Visited /\ Lacking /\ AnswersAreExact

-----------------------------------------------------------------------------
(* Chunks and ranges. *)

\* The chunk of a byte holds it.
LEMMA ChunkOfByte ==
  ASSUME NEW x \in Nat
  PROVE  x \div Chunk \in Nat /\ Base(x \div Chunk) <= x /\ x < Base(x \div Chunk) + Chunk
<1>. Chunk \in Nat /\ Chunk > 0
  BY HeaderAssumption
<1>. QED BY DEF Base

\* Later chunks start later.
LEMMA BaseMonotone ==
  ASSUME NEW j \in Nat, NEW k \in Nat, j <= k
  PROVE  Base(j) \in Nat /\ Base(k) \in Nat /\ Base(j) <= Base(k)
<1>1. Chunk \in Nat
  BY HeaderAssumption
<1>2. PICK d \in Nat : k = j + d
  <2>1. k - j \in Nat /\ k = j + (k - j)
    OBVIOUS
  <2>. QED BY <2>1
<1>3. k * Chunk = j * Chunk + d * Chunk
  BY <1>1, <1>2
<1>4. j * Chunk \in Nat /\ d * Chunk \in Nat
  BY <1>1
<1>. QED BY <1>3, <1>4 DEF Base

\* The chunks of a byte range, in order.
LEMMA RangeOfChunks ==
  ASSUME NEW r \in Record, r.lo < r.hi
  PROVE  First(r) \in Nat /\ Last(r) \in Nat /\ First(r) <= Last(r)
<1>1. Chunk \in Nat /\ Chunk > 0 /\ MaxAsked \in Nat
  BY HeaderAssumption
<1>2. r.lo \in Nat /\ r.hi \in Nat /\ r.hi - 1 \in Nat /\ r.lo <= r.hi - 1
  BY <1>1 DEF Record
<1>3. First(r) \in Nat /\ Base(First(r)) <= r.lo
  BY <1>2, ChunkOfByte DEF First
<1>4. Last(r) \in Nat /\ r.hi - 1 < Base(Last(r)) + Chunk
  BY <1>2, ChunkOfByte DEF Last
<1>5. First(r) <= Last(r)
  <2>1. SUFFICES ASSUME Last(r) + 1 <= First(r) PROVE FALSE
    BY <1>3, <1>4
  <2>2. Base(Last(r) + 1) <= Base(First(r))
    BY <2>1, <1>3, <1>4, BaseMonotone
  <2>3. Base(Last(r) + 1) = Base(Last(r)) + Chunk
    BY <1>1, <1>4 DEF Base
  <2>4. Base(Last(r)) \in Nat /\ Base(First(r)) \in Nat
    BY <1>3, <1>4, BaseMonotone
  <2>. QED BY <1>1, <1>2, <1>3, <1>4, <2>2, <2>3, <2>4
<1>. QED BY <1>3, <1>4, <1>5

\* What a call needs of a chunk of its range: something, no more than a chunk,
\* none of it beyond the range; of the last chunk all up to the range's end.
LEMMA NeedOfChunk ==
  ASSUME NEW r \in Record, r.lo < r.hi, NEW k \in Nat, First(r) <= k, k <= Last(r)
  PROVE  /\ Base(k) \in Nat
         /\ Need(r, k) \in 1..Chunk
         /\ Base(k) + Need(r, k) <= r.hi
         /\ k = Last(r) => Base(k) + Need(r, k) = r.hi
<1>1. Chunk \in Nat /\ Chunk > 0 /\ MaxAsked \in Nat
  BY HeaderAssumption
<1>2. r.hi \in Nat /\ r.hi - 1 \in Nat
  BY <1>1 DEF Record
<1>3. Last(r) \in Nat /\ Base(Last(r)) <= r.hi - 1 /\ r.hi - 1 < Base(Last(r)) + Chunk
  BY <1>2, ChunkOfByte DEF Last
<1>4. Base(k) \in Nat /\ Base(Last(r)) \in Nat /\ Base(k) <= Base(Last(r))
  BY <1>3, BaseMonotone
<1>. QED BY <1>1, <1>2, <1>3, <1>4 DEF Need, Smaller

\* What the file has of a chunk ends in the file, and short of the chunk's end
\* only where the file ends.
LEMMA FileInChunk ==
  ASSUME NEW k \in Nat
  PROVE  /\ InFile(k) \in 0..Chunk
         /\ InFile(k) > 0 => Base(k) + InFile(k) <= FileSize
         /\ InFile(k) < Chunk => FileSize <= Base(k) + InFile(k)
<1>1. Chunk \in Nat /\ Chunk > 0 /\ FileSize \in Nat
  BY HeaderAssumption
<1>2. Base(k) \in Nat
  BY BaseMonotone
<1>. QED BY <1>1, <1>2 DEF InFile, Smaller

\* If a chunk has less in the file than a call needs, the range runs past the end.
LEMMA ShortChunk ==
  ASSUME NEW r \in Record, r.lo < r.hi, NEW k \in Nat, First(r) <= k, k <= Last(r),
         InFile(k) < Need(r, k)
  PROVE  r.hi > FileSize
<1>1. Chunk \in Nat /\ FileSize \in Nat /\ r.hi \in Nat
  BY HeaderAssumption DEF Record
<1>2. Base(k) \in Nat /\ Need(r, k) \in 1..Chunk /\ Base(k) + Need(r, k) <= r.hi
  BY NeedOfChunk
<1>. QED BY <1>1, <1>2, FileInChunk

\* If the file has what a call needs of its last chunk, it has all of the range.
LEMMA WholeRange ==
  ASSUME NEW r \in Record, r.lo < r.hi, Need(r, Last(r)) <= InFile(Last(r))
  PROVE  r.hi <= FileSize
<1>1. Chunk \in Nat /\ FileSize \in Nat /\ r.hi \in Nat
  BY HeaderAssumption DEF Record
<1>2. First(r) <= Last(r) /\ Last(r) \in Nat
  BY RangeOfChunks
<1>3. Base(Last(r)) \in Nat /\ Need(r, Last(r)) \in 1..Chunk /\ Base(Last(r)) + Need(r, Last(r)) = r.hi
  BY <1>2, NeedOfChunk
<1>. QED BY <1>1, <1>2, <1>3, FileInChunk

-----------------------------------------------------------------------------
(* The steps. *)

\* No call, no chunk: the invariant holds.
LEMMA InitHolds == Init => IInv
<1>. SUFFICES ASSUME Init PROVE IInv
  OBVIOUS
<1>1. MaxAsked \in Nat /\ Nobody \notin Call
  BY HeaderAssumption
<1>2. \A c \in Call : call[c] = Idle
  BY DEF Init
<1>3. DOMAIN chunks = {}
  BY DEF Init
<1>4. Idle \in Record /\ Idle.pc = "idle"
  BY <1>1 DEF Idle, Record, Pcs
<1>5. Typed
  BY <1>3, <1>4 DEF Init, Typed
<1>6. LockHeld /\ InRange /\ AtFirst /\ Visited /\ Lacking /\ AnswersAreExact
  BY <1>1, <1>2, <1>4 DEF Init, LockHeld, InRange, AtFirst, Visited, Lacking, AnswersAreExact, At, Held
<1>. QED BY <1>5, <1>6 DEF IInv

\* A call that begins does not hold the lock yet.
LEMMA AskKeeps ==
  ASSUME IInv, NEW c \in Call, NEW lo \in 0..MaxAsked, NEW hi \in 0..MaxAsked, lo <= hi, Ask(c, lo, hi)
  PROVE  IInv'
<1>. DEFINE r == [pc |-> IF lo = hi THEN "answered" ELSE "locking",
                  lo |-> lo, hi |-> hi, at |-> lo \div Chunk, faulty |-> FALSE]
<1>1. MaxAsked \in Nat /\ lo \in Nat /\ hi \in Nat /\ Nobody \notin Call
  BY HeaderAssumption
<1>2. call' = [call EXCEPT ![c] = r] /\ chunks' = chunks /\ holder' = holder
  BY DEF Ask
<1>3. call[c].pc \in {"idle", "answered", "failed"}
  BY DEF Ask
<1>4. r \in Record
  BY <1>1, ChunkOfByte DEF Record, Pcs
<1>5. call \in [Call -> Record]
  BY DEF IInv, Typed
<1>6. call'[c] = r /\ \A d \in Call : d # c => call'[d] = call[d]
  BY <1>2, <1>5
<1>7. Typed'
  BY <1>2, <1>4 DEF IInv, Typed, InFile, Base, Smaller
<1>8. LockHeld'
  BY <1>2, <1>3, <1>6 DEF IInv, LockHeld, Held
<1>9. InRange' /\ AtFirst'
  <2>1. r.pc = "locking" => r.lo < r.hi
    BY <1>1
  <2>2. r.at = First(r) /\ r.pc \notin Held
    BY DEF First, Held
  <2>. HIDE DEF r
  <2>. QED BY <1>6, <2>1, <2>2 DEF IInv, InRange, AtFirst, Held
<1>10. Visited' /\ Lacking'
  BY <1>2, <1>6 DEF IInv, Visited, Lacking, Held, Cached
<1>11. AnswersAreExact'
  BY <1>6 DEF IInv, AnswersAreExact, At
<1>. QED BY <1>7, <1>8, <1>9, <1>10, <1>11 DEF IInv

\* The lock goes to a call at its first chunk, with nothing behind it.
LEMMA LockKeeps ==
  ASSUME IInv, NEW c \in Call, Lock(c)
  PROVE  IInv'
<1>1. Nobody \notin Call
  BY HeaderAssumption
<1>2. call' = [call EXCEPT ![c].pc = "checking"] /\ chunks' = chunks /\ holder' = c
  BY DEF Lock
<1>3. call[c].pc = "locking" /\ holder = Nobody
  BY DEF Lock, At
<1>4. call \in [Call -> Record]
  BY DEF IInv, Typed
<1>5. call'[c] = [call[c] EXCEPT !.pc = "checking"] /\ \A d \in Call : d # c => call'[d] = call[d]
  BY <1>2, <1>4
<1>6. call'[c] \in Record /\ call'[c].pc = "checking" /\ call'[c].at = call[c].at
      /\ call'[c].lo = call[c].lo /\ call'[c].hi = call[c].hi
  BY <1>4, <1>5 DEF Record, Pcs
<1>7. Typed'
  BY <1>2, <1>4, <1>6 DEF IInv, Typed, InFile, Base, Smaller
<1>8. LockHeld'
  BY <1>1, <1>2, <1>3, <1>5, <1>6 DEF IInv, LockHeld, Held
<1>9. InRange'
  <2>1. call[c].lo < call[c].hi /\ call[c].at = First(call[c])
    BY <1>3 DEF IInv, InRange, AtFirst, Held
  <2>2. First(call'[c]) \in Nat /\ First(call'[c]) <= Last(call'[c])
    BY <1>6, <2>1, RangeOfChunks
  <2>3. call'[c].at = First(call'[c]) /\ call'[c].lo < call'[c].hi
    BY <1>6, <2>1 DEF First
  <2>4. First(call'[c]) <= call'[c].at /\ call'[c].at <= Last(call'[c])
    BY <2>2, <2>3
  <2>. QED BY <1>5, <1>6, <2>3, <2>4 DEF IInv, InRange, Held
<1>10. Visited'
  <2>1. call[c].at = First(call[c])
    BY <1>3 DEF IInv, AtFirst
  <2>2. First(call[c]) \in Nat
    BY <1>3, <1>4, RangeOfChunks DEF IInv, InRange, Held
  <2>3. \A k \in Nat : ~(First(call'[c]) <= k /\ k < call'[c].at)
    BY <1>6, <2>1, <2>2 DEF First
  <2>4. \A d \in Call : d # c => call'[d].pc \notin Held
    BY <1>1, <1>3, <1>5 DEF IInv, LockHeld
  <2>. QED BY <1>2, <1>5, <2>3, <2>4 DEF Visited
<1>11. Lacking' /\ AtFirst' /\ AnswersAreExact'
  BY <1>2, <1>5, <1>6 DEF IInv, Lacking, AtFirst, AnswersAreExact, At, First, Need
<1>. QED BY <1>7, <1>8, <1>9, <1>10, <1>11 DEF IInv

\* Going on to the next chunk, when what is needed of this one is cached or the
\* file does not have it.
LEMMA AfterKeeps ==
  ASSUME IInv, NEW c \in Call, call[c].pc \in Held \ {"slicing"},
         holder' = holder,
         call' = [call EXCEPT ![c] = After(c, call[c].at)],
         DOMAIN chunks' \subseteq Nat,
         \A k \in DOMAIN chunks' : chunks'[k] \in Nat /\ chunks'[k] <= InFile(k),
         \A k \in DOMAIN chunks \ {call[c].at} : k \in DOMAIN chunks' /\ chunks'[k] = chunks[k],
         \/ call[c].at \in DOMAIN chunks' /\ Need(call[c], call[c].at) <= chunks'[call[c].at]
         \/ call[c].hi > FileSize
  PROVE  IInv'
<1>. DEFINE r == call[c]
            s == After(c, r.at)
<1>1. call \in [Call -> Record] /\ r \in Record
  BY DEF IInv, Typed
<1>2. call'[c] = s /\ \A d \in Call : d # c => call'[d] = call[d]
  BY <1>1
<1>3. r.lo < r.hi /\ First(r) <= r.at /\ r.at <= Last(r) /\ r.at \in Nat
  BY <1>1 DEF IInv, InRange, Held, Record
<1>4. First(r) \in Nat /\ Last(r) \in Nat
  BY <1>1, <1>3, RangeOfChunks
<1>5. /\ s \in Record
      /\ s.pc = IF r.at = Last(r) THEN "slicing" ELSE "checking"
      /\ s.at = r.at + 1 /\ s.lo = r.lo /\ s.hi = r.hi
  <2>. DEFINE pc == IF r.at = Last(r) THEN "slicing" ELSE "checking"
              n  == r.at + 1
  <2>1. s = [r EXCEPT !.pc = pc, !.at = n]
    BY DEF After
  <2>2. pc \in Pcs /\ n \in Nat
    BY <1>3 DEF Pcs
  <2>. HIDE DEF pc, n, r, s
  <2>3. s \in Record /\ s.pc = pc /\ s.at = n /\ s.lo = r.lo /\ s.hi = r.hi
    BY <1>1, <2>1, <2>2 DEF Record
  <2>. QED BY <2>3 DEF pc, n
<1>6. First(s) = First(r) /\ Last(s) = Last(r) /\ \A k : Need(s, k) = Need(r, k)
  BY <1>5 DEF First, Last, Need
<1>7. r.pc \in Held /\ s.pc \in Held
  BY <1>5 DEF Held
<1>8. \A d \in Call : d # c => call'[d].pc \notin Held
  BY <1>2, <1>7 DEF IInv, LockHeld
<1>. HIDE DEF r, s
<1>9. Typed'
  BY <1>1, <1>2, <1>5 DEF IInv, Typed, InFile, Base, Smaller, r, s
<1>10. LockHeld'
  BY <1>2, <1>7 DEF IInv, LockHeld, r
<1>11. InRange'
  BY <1>2, <1>3, <1>4, <1>5, <1>6, <1>8 DEF IInv, InRange, Held
<1>12. Visited'
  <2>1. \A k \in Nat : First(r) <= k /\ k < s.at => Need(r, k) <= Cached(k)' \/ r.hi > FileSize
    <3>1. SUFFICES ASSUME NEW k \in Nat, First(r) <= k, k < s.at
                   PROVE  Need(r, k) <= Cached(k)' \/ r.hi > FileSize
      OBVIOUS
    <3>2. CASE k = r.at
      BY <3>2 DEF Cached, r
    <3>3. CASE k # r.at
      <4>1. k < r.at
        BY <1>3, <1>5, <3>1, <3>3
      <4>2. Need(r, k) <= Cached(k) \/ r.hi > FileSize
        BY <1>7, <3>1, <4>1 DEF IInv, Visited, r
      <4>3. k \in DOMAIN chunks => Cached(k)' = Cached(k)
        BY <3>3 DEF Cached, r
      <4>4. k \notin DOMAIN chunks => ~(Need(r, k) <= Cached(k))
        <5>1. Need(r, k) \in 1..Chunk
          BY <1>1, <1>3, <1>4, <3>1, <4>1, NeedOfChunk
        <5>. QED BY <5>1, HeaderAssumption DEF Cached
      <4>. QED BY <4>2, <4>3, <4>4
    <3>. QED BY <3>2, <3>3
  <2>. QED BY <1>2, <1>5, <1>6, <1>8, <2>1 DEF Visited
<1>13. Lacking' /\ AtFirst'
  BY <1>2, <1>5, <1>8 DEF IInv, Lacking, AtFirst, First, Held
<1>14. AnswersAreExact'
  BY <1>2, <1>5 DEF IInv, AnswersAreExact, At
<1>. QED BY <1>9, <1>10, <1>11, <1>12, <1>13, <1>14 DEF IInv

\* A step that only moves a call from one request to the next, or ends it.
LEMMA MoveKeeps ==
  ASSUME IInv, NEW c \in Call, call[c].pc \in Held, NEW r \in Record,
         chunks' = chunks, call' = [call EXCEPT ![c] = r],
         r.lo = call[c].lo, r.hi = call[c].hi, r.at = call[c].at,
         \/ /\ r.pc \in {"chunk", "needed"}
            /\ call[c].pc # "slicing"
            /\ holder' = holder
            /\ call[c].at \in DOMAIN chunks => chunks[call[c].at] < Need(call[c], call[c].at)
         \/ /\ r.pc \in {"answered", "failed"}
            /\ holder' = Nobody
            /\ r.pc = "answered" => r.hi <= FileSize
            /\ r.pc = "failed" => r.hi > FileSize \/ r.faulty
  PROVE  IInv'
<1>1. Nobody \notin Call /\ call \in [Call -> Record] /\ holder = c
  BY HeaderAssumption DEF IInv, Typed, LockHeld
<1>2. call'[c] = r /\ \A d \in Call : d # c => call'[d] = call[d]
  BY <1>1
<1>3. First(r) = First(call[c]) /\ Last(r) = Last(call[c]) /\ \A k : Need(r, k) = Need(call[c], k)
  BY DEF First, Last, Need
<1>4. \A d \in Call : d # c => call'[d].pc \notin Held
  BY <1>1, <1>2 DEF IInv, LockHeld
<1>5. Typed'
  BY <1>1, <1>2 DEF IInv, Typed, InFile, Base, Smaller
<1>6. LockHeld'
  BY <1>1, <1>2, <1>4 DEF LockHeld, Held
<1>7. InRange'
  BY <1>2, <1>3, <1>4 DEF IInv, InRange, Held
<1>8. Visited'
  BY <1>2, <1>3, <1>4 DEF IInv, Visited, Cached
<1>9. Lacking' /\ AtFirst'
  BY <1>2, <1>3, <1>4 DEF IInv, Lacking, AtFirst, Held
<1>10. AnswersAreExact'
  BY <1>2 DEF IInv, AnswersAreExact, At
<1>. QED BY <1>5, <1>6, <1>7, <1>8, <1>9, <1>10 DEF IInv

\* The chunk a call is at, and what it needs of it.
LEMMA NeededHere ==
  ASSUME IInv, NEW c \in Call, call[c].pc \in Held \ {"slicing"}
  PROVE  call[c].at \in Nat /\ Need(call[c], call[c].at) \in Nat
<1>1. call[c] \in Record /\ call[c].at \in Nat
  BY DEF IInv, Typed, Record
<1>2. call[c].lo < call[c].hi /\ First(call[c]) <= call[c].at /\ call[c].at <= Last(call[c])
  BY DEF IInv, InRange, Held
<1>3. Need(call[c], call[c].at) \in 1..Chunk
  BY <1>1, <1>2, NeedOfChunk
<1>. QED BY <1>1, <1>3, HeaderAssumption

\* If the file does not have that, the call's range runs past its end.
LEMMA PastEnd ==
  ASSUME IInv, NEW c \in Call, call[c].pc \in Held \ {"slicing"},
         InFile(call[c].at) < Need(call[c], call[c].at)
  PROVE  call[c].hi > FileSize
<1>1. call[c] \in Record /\ call[c].at \in Nat
  BY DEF IInv, Typed, Record
<1>2. call[c].lo < call[c].hi /\ First(call[c]) <= call[c].at /\ call[c].at <= Last(call[c])
  BY DEF IInv, InRange, Held
<1>. QED BY <1>1, <1>2, ShortChunk

\* A chunk with enough in it is passed over.
LEMMA SkipKeeps ==
  ASSUME IInv, NEW c \in Call, Skip(c)
  PROVE  IInv'
<1>1. call[c].pc \in Held \ {"slicing"}
  BY DEF Skip, At, Held
<1>2. chunks' = chunks /\ holder' = holder /\ call' = [call EXCEPT ![c] = After(c, call[c].at)]
  BY DEF Skip
<1>3. call[c].at \in DOMAIN chunks' /\ Need(call[c], call[c].at) <= chunks'[call[c].at]
  <2>1. call[c].at \in DOMAIN chunks /\ chunks[call[c].at] >= Need(call[c], call[c].at)
    BY DEF Skip, Enough
  <2>2. Need(call[c], call[c].at) \in Nat /\ chunks[call[c].at] \in Nat
    BY <1>1, <2>1, NeededHere DEF IInv, Typed
  <2>. QED BY <1>2, <2>1, <2>2
<1>. QED BY <1>1, <1>2, <1>3, AfterKeeps DEF IInv, Typed

\* The chunk is asked for because it lacks what the call needs.
LEMMA AskChunkKeeps ==
  ASSUME IInv, NEW c \in Call, AskChunk(c)
  PROVE  IInv'
<1>. DEFINE r == [call[c] EXCEPT !.pc = "chunk"]
<1>1. call[c].pc = "checking" /\ chunks' = chunks /\ holder' = holder /\ call' = [call EXCEPT ![c] = r]
  BY DEF AskChunk, At
<1>2. r \in Record /\ r.pc = "chunk" /\ r.lo = call[c].lo /\ r.hi = call[c].hi /\ r.at = call[c].at
  BY DEF IInv, Typed, Record, Pcs
<1>3. call[c].at \in DOMAIN chunks => chunks[call[c].at] < Need(call[c], call[c].at)
  BY <1>1, NeededHere DEF AskChunk, Enough, IInv, Typed, Held
<1>. HIDE DEF r
<1>. QED BY <1>1, <1>2, <1>3, MoveKeeps DEF Held

\* Keeping what came of a chunk, which is what the call needs or all there is.
LEMMA KeepKeeps ==
  ASSUME IInv, NEW c \in Call, call[c].pc \in {"chunk", "needed"}, holder' = holder,
         NEW m \in Nat, m <= InFile(call[c].at), Keep(c, call[c].at, m),
         m >= Need(call[c], call[c].at) \/ m = InFile(call[c].at)
  PROVE  IInv' /\ \A k \in DOMAIN chunks : k \in DOMAIN chunks' /\ chunks'[k] >= chunks[k]
<1>. DEFINE k == call[c].at
<1>1. call[c].pc \in Held \ {"slicing"}
  BY DEF Held
<1>2. k \in Nat /\ Need(call[c], k) \in Nat
  BY <1>1, NeededHere
<1>3. /\ call' = [call EXCEPT ![c] = After(c, k)]
      /\ chunks' = [i \in DOMAIN chunks \cup {k} |-> IF i = k THEN m ELSE chunks[i]]
  BY DEF Keep
<1>4. /\ DOMAIN chunks' \subseteq Nat
      /\ \A i \in DOMAIN chunks' : chunks'[i] \in Nat /\ chunks'[i] <= InFile(i)
      /\ \A i \in DOMAIN chunks \ {k} : i \in DOMAIN chunks' /\ chunks'[i] = chunks[i]
      /\ k \in DOMAIN chunks' /\ chunks'[k] = m
  BY <1>2, <1>3 DEF IInv, Typed
<1>5. Need(call[c], k) <= chunks'[k] \/ call[c].hi > FileSize
  <2>1. CASE m >= Need(call[c], k)
    BY <1>2, <1>4, <2>1
  <2>2. CASE ~(m >= Need(call[c], k))
    <3>1. InFile(k) < Need(call[c], k)
      BY <1>2, <2>2
    <3>. QED BY <1>1, <3>1, PastEnd
  <2>. QED BY <2>1, <2>2
<1>6. IInv'
  BY <1>1, <1>3, <1>4, <1>5, AfterKeeps
<1>7. k \in DOMAIN chunks => m >= chunks[k]
  BY <1>2 DEF IInv, Lacking, Typed
<1>8. \A i \in DOMAIN chunks : i \in DOMAIN chunks' /\ chunks'[i] >= chunks[i]
  BY <1>4, <1>7 DEF IInv, Typed
<1>. QED BY <1>6, <1>8

\* A chunk that came in full, or as far as the file goes, is kept; one too
\* short for the call leads to a second request.
LEMMA ChunkAnsweredKeeps ==
  ASSUME IInv, NEW c \in Call, ChunkAnswered(c)
  PROVE  IInv' /\ \A k \in DOMAIN chunks : k \in DOMAIN chunks' /\ chunks'[k] >= chunks[k]
<1>. DEFINE r == [call[c] EXCEPT !.pc = "needed"]
<1>1. call[c].pc = "chunk" /\ holder' = holder
  BY DEF ChunkAnswered, At
<1>2. call[c].at \in Nat /\ Need(call[c], call[c].at) \in Nat
  BY <1>1, NeededHere DEF Held
<1>3. PICK m \in MayAnswer(call[c].at, Chunk) :
        \/ m >= Need(call[c], call[c].at) /\ Keep(c, call[c].at, m)
        \/ /\ m < Need(call[c], call[c].at)
           /\ call' = [call EXCEPT ![c] = r]
           /\ UNCHANGED chunks
  BY DEF ChunkAnswered
<1>4. m = InFile(call[c].at) /\ m \in Nat
  BY <1>2, <1>3, FileInChunk, HeaderAssumption DEF MayAnswer, Smaller
<1>5. CASE m >= Need(call[c], call[c].at) /\ Keep(c, call[c].at, m)
  BY <1>1, <1>4, <1>5, KeepKeeps
<1>6. CASE call' = [call EXCEPT ![c] = r] /\ UNCHANGED chunks
  <2>1. r \in Record /\ r.pc = "needed" /\ r.lo = call[c].lo /\ r.hi = call[c].hi /\ r.at = call[c].at
    BY DEF IInv, Typed, Record, Pcs
  <2>2. call[c].at \in DOMAIN chunks => chunks[call[c].at] < Need(call[c], call[c].at)
    BY <1>1 DEF IInv, Lacking
  <2>. HIDE DEF r
  <2>3. IInv'
    BY <1>1, <1>6, <2>1, <2>2, MoveKeeps DEF Held
  <2>. QED BY <1>6, <2>3 DEF IInv, Typed
<1>. QED BY <1>3, <1>5, <1>6

\* Without the chunk, the part that is needed is asked for.
LEMMA ChunkRejectedKeeps ==
  ASSUME IInv, NEW c \in Call, ChunkRejected(c)
  PROVE  IInv'
<1>. DEFINE r == [call[c] EXCEPT !.pc = "needed"]
<1>1. call[c].pc = "chunk" /\ holder' = holder /\ chunks' = chunks /\ call' = [call EXCEPT ![c] = r]
  BY DEF ChunkRejected, At
<1>2. r \in Record /\ r.pc = "needed" /\ r.lo = call[c].lo /\ r.hi = call[c].hi /\ r.at = call[c].at
  BY DEF IInv, Typed, Record, Pcs
<1>3. call[c].at \in DOMAIN chunks => chunks[call[c].at] < Need(call[c], call[c].at)
  BY <1>1 DEF IInv, Lacking
<1>. HIDE DEF r
<1>. QED BY <1>1, <1>2, <1>3, MoveKeeps DEF Held

\* That part, or as far as the file goes, is kept.
LEMMA NeededAnsweredKeeps ==
  ASSUME IInv, NEW c \in Call, NeededAnswered(c)
  PROVE  IInv' /\ \A k \in DOMAIN chunks : k \in DOMAIN chunks' /\ chunks'[k] >= chunks[k]
<1>1. call[c].pc = "needed" /\ holder' = holder
  BY DEF NeededAnswered, At
<1>2. call[c].at \in Nat /\ Need(call[c], call[c].at) \in Nat
  BY <1>1, NeededHere DEF Held
<1>3. PICK m \in MayAnswer(call[c].at, Need(call[c], call[c].at)) : Keep(c, call[c].at, m)
  BY DEF NeededAnswered
<1>4. InFile(call[c].at) \in Nat
  BY <1>2, FileInChunk, HeaderAssumption
<1>5. /\ m \in Nat /\ m <= InFile(call[c].at)
      /\ m >= Need(call[c], call[c].at) \/ m = InFile(call[c].at)
  BY <1>2, <1>3, <1>4 DEF MayAnswer, Smaller
<1>. QED BY <1>1, <1>3, <1>5, KeepKeeps

\* A call fails because a request inside the file did, or because its range
\* runs past the end.
LEMMA NeededRejectedKeeps ==
  ASSUME IInv, NEW c \in Call, NeededRejected(c)
  PROVE  IInv'
<1>. DEFINE inside == MustAnswer(call[c].at, Need(call[c], call[c].at))
            r == [call[c] EXCEPT !.pc = "failed", !.faulty = inside]
<1>1. call[c].pc = "needed" /\ holder' = Nobody /\ chunks' = chunks
  BY DEF NeededRejected, At
<1>2. call \in [Call -> Record]
  BY DEF IInv, Typed
<1>3. call' = [call EXCEPT ![c] = r]
  <2>1. call' = [call EXCEPT ![c].pc = "failed", ![c].faulty = inside]
    BY DEF NeededRejected
  <2>. QED BY <1>2, <2>1
<1>4. call[c].at \in Nat /\ Need(call[c], call[c].at) \in Nat /\ InFile(call[c].at) \in Nat
  BY <1>1, NeededHere, FileInChunk, HeaderAssumption DEF Held
<1>5. inside \in BOOLEAN /\ (~inside => call[c].hi > FileSize)
  <2>1. ~inside => InFile(call[c].at) < Need(call[c], call[c].at)
    BY <1>4 DEF MustAnswer
  <2>. QED BY <1>1, <2>1, PastEnd DEF MustAnswer, Held
<1>. HIDE DEF inside
<1>6. /\ r \in Record /\ r.pc = "failed" /\ r.faulty = inside
      /\ r.lo = call[c].lo /\ r.hi = call[c].hi /\ r.at = call[c].at
  BY <1>2, <1>5 DEF Record, Pcs
<1>. HIDE DEF r
<1>. QED BY <1>1, <1>3, <1>5, <1>6, MoveKeeps DEF Held

\* A range is put together when all its chunks are there, and then the file
\* has it; if one falls short, the range runs past the end.
LEMMA SliceKeeps ==
  ASSUME IInv, NEW c \in Call, Slice(c)
  PROVE  IInv'
<1>. DEFINE there == \A k \in First(call[c])..Last(call[c]) : Need(call[c], k) <= Cached(k)
            r == [call[c] EXCEPT !.pc = IF there THEN "answered" ELSE "failed"]
<1>1. call[c].pc = "slicing" /\ holder' = Nobody /\ chunks' = chunks /\ call' = [call EXCEPT ![c] = r]
  BY DEF Slice, At
<1>2. call[c] \in Record /\ call[c].lo < call[c].hi /\ call[c].at = Last(call[c]) + 1
  BY <1>1 DEF IInv, Typed, InRange, Held
<1>3. First(call[c]) \in Nat /\ Last(call[c]) \in Nat /\ First(call[c]) <= Last(call[c])
  BY <1>2, RangeOfChunks
<1>4. there => call[c].hi <= FileSize
  <2>1. Need(call[c], Last(call[c])) \in 1..Chunk
    BY <1>2, <1>3, NeedOfChunk
  <2>2. there => Need(call[c], Last(call[c])) <= Cached(Last(call[c]))
    BY <1>3
  <2>3. Cached(Last(call[c])) > 0 => Cached(Last(call[c])) \in Nat /\ Cached(Last(call[c])) <= InFile(Last(call[c]))
    BY DEF Cached, IInv, Typed
  <2>4. Cached(Last(call[c])) \in Nat /\ InFile(Last(call[c])) \in Nat
    BY <1>3, FileInChunk, HeaderAssumption DEF Cached, IInv, Typed
  <2>5. there => Need(call[c], Last(call[c])) <= InFile(Last(call[c]))
    BY <2>1, <2>2, <2>3, <2>4, HeaderAssumption
  <2>. QED BY <1>2, <2>5, WholeRange
<1>5. ~there => call[c].hi > FileSize
  <2>1. SUFFICES ASSUME NEW k \in First(call[c])..Last(call[c]), ~(Need(call[c], k) <= Cached(k))
                 PROVE  call[c].hi > FileSize
    OBVIOUS
  <2>2. k \in Nat /\ First(call[c]) <= k /\ k < call[c].at
    BY <1>2, <1>3
  <2>. QED BY <1>1, <2>1, <2>2 DEF IInv, Visited, Held
<1>. HIDE DEF there
<1>6. /\ r \in Record /\ r.pc = (IF there THEN "answered" ELSE "failed")
      /\ r.lo = call[c].lo /\ r.hi = call[c].hi /\ r.at = call[c].at
  BY <1>2 DEF Record, Pcs
<1>. HIDE DEF r
<1>. QED BY <1>1, <1>4, <1>5, <1>6, MoveKeeps DEF Held

\* A call that is dropped lets go of the lock if it has it.
LEMMA DropKeeps ==
  ASSUME IInv, NEW c \in Call, Drop(c)
  PROVE  IInv'
<1>1. Nobody \notin Call /\ MaxAsked \in Nat
  BY HeaderAssumption
<1>2. /\ chunks' = chunks /\ call' = [call EXCEPT ![c] = Idle]
      /\ holder' = IF holder = c THEN Nobody ELSE holder
  BY DEF Drop
<1>3. Idle \in Record /\ Idle.pc = "idle"
  BY <1>1 DEF Idle, Record, Pcs
<1>4. call'[c] = Idle /\ \A d \in Call : d # c => call'[d] = call[d]
  BY <1>2 DEF IInv, Typed
<1>5. Typed'
  BY <1>2, <1>3 DEF IInv, Typed, InFile, Base, Smaller
<1>6. LockHeld'
  BY <1>1, <1>2, <1>3, <1>4 DEF IInv, LockHeld, Held
<1>7. InRange' /\ AtFirst'
  BY <1>3, <1>4 DEF IInv, InRange, AtFirst, Held
<1>8. Visited' /\ Lacking'
  BY <1>2, <1>3, <1>4 DEF IInv, Visited, Lacking, Held, Cached
<1>9. AnswersAreExact'
  BY <1>3, <1>4 DEF IInv, AnswersAreExact, At
<1>. QED BY <1>5, <1>6, <1>7, <1>8, <1>9 DEF IInv

\* No step of the cache breaks the invariant or shortens a chunk.
LEMMA StepKeeps ==
  ASSUME IInv, [Next]_vars
  PROVE  IInv' /\ \A k \in DOMAIN chunks : k \in DOMAIN chunks' /\ chunks'[k] >= chunks[k]
<1>. DEFINE Grown == \A k \in DOMAIN chunks : k \in DOMAIN chunks' /\ chunks'[k] >= chunks[k]
<1>1. chunks' = chunks => Grown
  BY DEF IInv, Typed
<1>2. CASE UNCHANGED vars
  <2>1. chunks' = chunks /\ holder' = holder /\ call' = call
    BY <1>2 DEF vars
  <2>2. IInv'
    BY <2>1 DEF IInv, Typed, LockHeld, InRange, AtFirst, Visited, Lacking, AnswersAreExact, At, Cached, InFile,
                Base, Smaller, First, Last, Need, Held
  <2>. QED BY <1>1, <2>1, <2>2
<1>3. ASSUME NEW c \in Call, NEW lo \in 0..MaxAsked, NEW hi \in 0..MaxAsked, lo <= hi, Ask(c, lo, hi)
      PROVE  IInv' /\ Grown
  <2>1. chunks' = chunks
    BY <1>3 DEF Ask
  <2>. HIDE DEF Grown
  <2>. QED BY <1>1, <1>3, <2>1, AskKeeps
<1>4. ASSUME NEW c \in Call, CallStep(c)
      PROVE  IInv' /\ Grown
  <2>1. CASE Lock(c)
    <3>1. chunks' = chunks
      BY <2>1 DEF Lock
    <3>. QED BY <1>1, <2>1, <3>1, LockKeeps
  <2>2. CASE Skip(c)
    <3>1. chunks' = chunks
      BY <2>2 DEF Skip
    <3>. QED BY <1>1, <2>2, <3>1, SkipKeeps
  <2>3. CASE AskChunk(c)
    <3>1. chunks' = chunks
      BY <2>3 DEF AskChunk
    <3>. QED BY <1>1, <2>3, <3>1, AskChunkKeeps
  <2>4. CASE ChunkAnswered(c)
    BY <2>4, ChunkAnsweredKeeps
  <2>5. CASE ChunkRejected(c)
    <3>1. chunks' = chunks
      BY <2>5 DEF ChunkRejected
    <3>. QED BY <1>1, <2>5, <3>1, ChunkRejectedKeeps
  <2>6. CASE NeededAnswered(c)
    BY <2>6, NeededAnsweredKeeps
  <2>7. CASE NeededRejected(c)
    <3>1. chunks' = chunks
      BY <2>7 DEF NeededRejected
    <3>. QED BY <1>1, <2>7, <3>1, NeededRejectedKeeps
  <2>8. CASE Slice(c)
    <3>1. chunks' = chunks
      BY <2>8 DEF Slice
    <3>. QED BY <1>1, <2>8, <3>1, SliceKeeps
  <2>. QED BY <1>4, <2>1, <2>2, <2>3, <2>4, <2>5, <2>6, <2>7, <2>8 DEF CallStep
<1>5. ASSUME NEW c \in Call, Drop(c)
      PROVE  IInv' /\ Grown
  <2>1. chunks' = chunks
    BY <1>5 DEF Drop
  <2>. QED BY <1>1, <1>5, <2>1, DropKeeps
<1>. QED BY <1>2, <1>3, <1>4, <1>5 DEF Next

-----------------------------------------------------------------------------
(* The types that the invariant does not need. *)

Counted ==
  /\ DOMAIN chunks \subseteq ChunkIds
  /\ holder \in Call \cup {Nobody}
  /\ gets \in [ChunkIds -> Nat]
  /\ calls \in 0..MaxCalls
  /\ faults \in 0..MaxFaults

\* The chunk a call is at is one of those that ranges touch.
LEMMA AtAChunk ==
  ASSUME IInv, NEW c \in Call, call[c].pc \in {"checking", "chunk", "needed"}
  PROVE  call[c].at \in ChunkIds
<1>. DEFINE r == call[c]
            m == MaxAsked \div Chunk
<1>1. Chunk \in Nat /\ Chunk > 0 /\ MaxAsked \in Nat
  BY HeaderAssumption
<1>2. r \in Record /\ r.lo < r.hi /\ r.at \in Nat /\ r.at <= Last(r)
  BY DEF IInv, Typed, InRange, Held, Record
<1>. HIDE DEF r
<1>3. r.hi \in Nat /\ r.hi - 1 \in Nat /\ r.hi <= MaxAsked
  BY <1>1, <1>2 DEF Record
<1>4. Last(r) \in Nat /\ Base(Last(r)) <= r.hi - 1
  BY <1>3, ChunkOfByte DEF Last
<1>5. m \in Nat /\ MaxAsked < Base(m) + Chunk
  BY <1>1, ChunkOfByte
<1>. HIDE DEF m
<1>6. Last(r) <= m
  <2>1. SUFFICES ASSUME m + 1 <= Last(r) PROVE FALSE
    BY <1>4, <1>5
  <2>2. Base(m + 1) <= Base(Last(r)) /\ Base(m + 1) \in Nat /\ Base(Last(r)) \in Nat
    BY <2>1, <1>4, <1>5, BaseMonotone
  <2>3. Base(m + 1) = Base(m) + Chunk
    BY <1>1, <1>5 DEF Base
  <2>. QED BY <1>1, <1>3, <1>4, <1>5, <2>2, <2>3
<1>7. r.at \in 0..m
  BY <1>2, <1>4, <1>5, <1>6
<1>. QED BY <1>7 DEF ChunkIds, r, m

\* Nor does a step leave the other types.
LEMMA CountedKept ==
  ASSUME IInv, Counted, [Next]_vars
  PROVE  Counted'
<1>1. MaxCalls \in Nat /\ MaxFaults \in Nat
  BY HeaderAssumption
<1>2. CASE UNCHANGED vars
  BY <1>2 DEF vars, Counted, ChunkIds
<1>3. ASSUME NEW c \in Call, NEW lo, NEW hi, Ask(c, lo, hi)
      PROVE  Counted'
  BY <1>1, <1>3 DEF Ask, Counted, ChunkIds
<1>4. ASSUME NEW c \in Call, CallStep(c)
      PROVE  Counted'
  <2>1. CASE Lock(c)
    BY <2>1 DEF Lock, Counted, ChunkIds
  <2>2. CASE Skip(c)
    BY <2>2 DEF Skip, Counted, ChunkIds
  <2>3. CASE AskChunk(c)
    <3>1. call[c].at \in ChunkIds
      BY <2>3, AtAChunk DEF AskChunk, At
    <3>. QED BY <2>3, <3>1 DEF AskChunk, Counted, ChunkIds
  <2>4. CASE ChunkAnswered(c)
    <3>1. call[c].at \in ChunkIds
      BY <2>4, AtAChunk DEF ChunkAnswered, At
    <3>2. DOMAIN chunks' \subseteq DOMAIN chunks \cup {call[c].at}
      BY <2>4 DEF ChunkAnswered, Keep
    <3>. QED BY <2>4, <3>1, <3>2 DEF ChunkAnswered, Counted, ChunkIds
  <2>5. CASE ChunkRejected(c)
    BY <1>1, <2>5 DEF ChunkRejected, Counted, ChunkIds
  <2>6. CASE NeededAnswered(c)
    <3>1. call[c].at \in ChunkIds
      BY <2>6, AtAChunk DEF NeededAnswered, At
    <3>2. DOMAIN chunks' \subseteq DOMAIN chunks \cup {call[c].at}
      BY <2>6 DEF NeededAnswered, Keep
    <3>. QED BY <2>6, <3>1, <3>2 DEF NeededAnswered, Counted, ChunkIds
  <2>7. CASE NeededRejected(c)
    <3>1. faults' \in 0..MaxFaults
      BY <1>1, <2>7 DEF NeededRejected, Counted
    <3>. QED BY <2>7, <3>1 DEF NeededRejected, Counted, ChunkIds
  <2>8. CASE Slice(c)
    BY <2>8 DEF Slice, Counted, ChunkIds
  <2>. QED BY <1>4, <2>1, <2>2, <2>3, <2>4, <2>5, <2>6, <2>7, <2>8 DEF CallStep
<1>5. ASSUME NEW c \in Call, Drop(c)
      PROVE  Counted'
  BY <1>1, <1>5 DEF Drop, Counted, ChunkIds
<1>. QED BY <1>2, <1>3, <1>4, <1>5 DEF Next

-----------------------------------------------------------------------------
(* What a whole chunk is asked for. *)

Whole(k) == k \in DOMAIN chunks /\ chunks[k] = Chunk
Asking(k) == \E c \in Call : call[c].pc = "chunk" /\ call[c].at = k

\* A fault pays for each request for a chunk but one, and that one has either
\* left the chunk or is on its way.
PaidFor(k) ==
  /\ gets[k] <= 1 + faults
  /\ gets[k] <= faults \/ Whole(k) \/ Asking(k)
Paid == \A k \in ChunkIds : InFile(k) = Chunk => PaidFor(k)

\* A chunk that is there whole stays so.
LEMMA WholeStays ==
  ASSUME IInv, [Next]_vars, NEW k, Whole(k)
  PROVE  Whole(k)'
<1>1. /\ k \in DOMAIN chunks' /\ chunks'[k] >= Chunk
      /\ k \in Nat /\ chunks'[k] \in Nat /\ chunks'[k] <= InFile(k)'
  BY StepKeeps DEF Whole, IInv, Typed
<1>2. InFile(k)' = InFile(k)
  BY DEF InFile, Base, Smaller
<1>3. InFile(k) \in 0..Chunk /\ Chunk \in Nat
  BY <1>1, FileInChunk, HeaderAssumption
<1>. QED BY <1>1, <1>2, <1>3 DEF Whole

\* A step that makes no request, and in which no call gives one up, keeps what is paid.
LEMMA PaidAsBefore ==
  ASSUME IInv, Counted, Paid, [Next]_vars, NEW k \in ChunkIds, InFile(k) = Chunk,
         gets' = gets, faults' \in Nat, faults' >= faults,
         \A c \in Call : call[c].pc = "chunk" /\ call[c].at = k => faults' > faults \/ call'[c] = call[c]
  PROVE  PaidFor(k)'
<1>1. gets[k] \in Nat /\ faults \in Nat
  BY HeaderAssumption DEF Counted
<1>2. PaidFor(k)
  BY DEF Paid
<1>3. CASE faults' > faults
  BY <1>1, <1>2, <1>3 DEF PaidFor
<1>4. CASE faults' = faults
  <2>1. Whole(k) => Whole(k)'
    BY WholeStays
  <2>2. Asking(k) => Asking(k)'
    BY <1>4, <1>1 DEF Asking
  <2>. QED BY <1>1, <1>2, <1>4, <2>1, <2>2 DEF PaidFor
<1>. QED BY <1>1, <1>3, <1>4

\* Only the call that holds the lock asks, and not for a chunk that is whole.
LEMMA AskIsPaid ==
  ASSUME IInv, Counted, Paid, [Next]_vars, NEW k \in ChunkIds, InFile(k) = Chunk,
         NEW c \in Call, AskChunk(c)
  PROVE  PaidFor(k)'
<1>1. /\ gets[k] \in Nat /\ faults \in Nat /\ faults' = faults /\ gets \in [ChunkIds -> Nat]
      /\ call[c].pc = "checking" /\ gets' = [gets EXCEPT ![call[c].at] = @ + 1]
      /\ call' = [call EXCEPT ![c].pc = "chunk"] /\ call \in [Call -> Record]
  BY HeaderAssumption DEF Counted, AskChunk, At, IInv, Typed
<1>2. ~Asking(k)
  <2>1. \A d \in Call : call[d].pc = "chunk" => d = c
    BY <1>1 DEF IInv, LockHeld, Held
  <2>. QED BY <1>1, <2>1 DEF Asking
<1>3. PaidFor(k)
  BY DEF Paid
<1>4. CASE call[c].at = k
  <2>1. ~Whole(k)
    <3>1. call[c].at \in Nat /\ Need(call[c], call[c].at) <= Chunk
      <4>1. /\ call[c] \in Record /\ call[c].lo < call[c].hi
            /\ First(call[c]) <= call[c].at /\ call[c].at <= Last(call[c])
        BY <1>1 DEF IInv, Typed, InRange, Held
      <4>2. call[c].at \in Nat
        BY <4>1 DEF Record
      <4>. QED BY <4>1, <4>2, NeedOfChunk, HeaderAssumption
    <3>2. ~(call[c].at \in DOMAIN chunks /\ chunks[call[c].at] >= Need(call[c], call[c].at))
      BY DEF AskChunk, Enough
    <3>3. Need(call[c], call[c].at) \in Nat /\ Chunk \in Nat
      BY <1>1, NeededHere, HeaderAssumption DEF Held
    <3>. QED BY <1>4, <3>1, <3>2, <3>3 DEF Whole
  <2>2. gets'[k] = gets[k] + 1 /\ gets[k] <= faults
    BY <1>1, <1>2, <1>3, <1>4, <2>1 DEF PaidFor
  <2>3. Asking(k)'
    <3>1. call'[c].pc = "chunk" /\ call'[c].at = k
      BY <1>1, <1>4 DEF Record
    <3>. QED BY <3>1 DEF Asking
  <2>. QED BY <1>1, <2>2, <2>3 DEF PaidFor
<1>5. CASE call[c].at # k
  <2>1. gets'[k] = gets[k]
    BY <1>1, <1>5
  <2>2. Whole(k) => Whole(k)'
    BY WholeStays
  <2>. QED BY <1>1, <1>2, <1>3, <2>1, <2>2 DEF PaidFor
<1>. QED BY <1>4, <1>5

\* The answer to a request for a chunk that the file has whole is that chunk.
LEMMA AnswerIsWhole ==
  ASSUME IInv, NEW c \in Call, ChunkAnswered(c), NEW k, k = call[c].at, InFile(k) = Chunk
  PROVE  Whole(k)'
<1>1. call[c].pc = "chunk"
  BY DEF ChunkAnswered, At
<1>2. call[c].at \in Nat /\ Chunk \in Nat /\ Need(call[c], call[c].at) \in Nat
  BY <1>1, NeededHere, HeaderAssumption DEF Held
<1>3. Need(call[c], call[c].at) <= Chunk
  <2>1. /\ call[c] \in Record /\ call[c].lo < call[c].hi
        /\ First(call[c]) <= call[c].at /\ call[c].at <= Last(call[c])
    BY <1>1 DEF IInv, Typed, InRange, Held
  <2>. QED BY <1>2, <2>1, NeedOfChunk
<1>4. Keep(c, call[c].at, Chunk)
  BY <1>2, <1>3 DEF ChunkAnswered, MayAnswer, Smaller
<1>. QED BY <1>4 DEF Keep, Whole

\* No step leaves a request unpaid.
LEMMA PaidKept ==
  ASSUME IInv, Counted, Paid, [Next]_vars
  PROVE  Paid'
<1>1. /\ ChunkIds' = ChunkIds
      /\ \A k : InFile(k)' = InFile(k)
  BY DEF ChunkIds, InFile, Base, Smaller
<1>2. SUFFICES ASSUME NEW k \in ChunkIds, InFile(k) = Chunk
               PROVE  PaidFor(k)'
  BY <1>1 DEF Paid
<1>3. faults \in Nat /\ call \in [Call -> Record] /\ k \in Nat
  BY HeaderAssumption DEF Counted, IInv, Typed, ChunkIds
<1>4. ASSUME gets' = gets, faults' = faults, NEW c \in Call, NEW r, call' = [call EXCEPT ![c] = r],
             call[c].pc # "chunk"
      PROVE  PaidFor(k)'
  BY <1>2, <1>3, <1>4, PaidAsBefore
<1>5. CASE UNCHANGED vars
  <2>1. gets' = gets /\ faults' = faults /\ call' = call
    BY <1>5 DEF vars
  <2>. QED BY <1>2, <1>3, <2>1, PaidAsBefore
<1>6. ASSUME NEW c \in Call, NEW lo, NEW hi, Ask(c, lo, hi)
      PROVE  PaidFor(k)'
  BY <1>4, <1>6 DEF Ask
<1>7. ASSUME NEW c \in Call, CallStep(c)
      PROVE  PaidFor(k)'
  <2>1. CASE Lock(c)
    BY <1>3, <1>4, <2>1 DEF Lock, At
  <2>2. CASE Skip(c)
    BY <1>4, <2>2 DEF Skip, At
  <2>3. CASE AskChunk(c)
    BY <1>2, <2>3, AskIsPaid
  <2>4. CASE ChunkAnswered(c)
    <3>1. gets' = gets /\ faults' = faults /\ \A d \in Call : d # c => call'[d] = call[d]
      BY <1>3, <2>4 DEF ChunkAnswered, Keep
    <3>2. CASE call[c].at = k
      <4>1. Whole(k)'
        BY <1>2, <2>4, <3>2, AnswerIsWhole
      <4>. QED BY <1>2, <3>1, <4>1 DEF Paid, PaidFor
    <3>3. CASE call[c].at # k
      <4>1. \A d \in Call : call[d].pc = "chunk" /\ call[d].at = k => call'[d] = call[d]
        BY <3>1, <3>3
      <4>. QED BY <1>2, <1>3, <3>1, <4>1, PaidAsBefore
    <3>. QED BY <3>2, <3>3
  <2>5. CASE ChunkRejected(c)
    <3>1. gets' = gets /\ \A d \in Call : d # c => call'[d] = call[d]
      BY <1>3, <2>5 DEF ChunkRejected
    <3>2. faults' = faults \/ faults' = faults + 1
      BY <2>5 DEF ChunkRejected
    <3>3. call[c].at = k => faults' = faults + 1
      BY <1>2, <2>5, HeaderAssumption DEF ChunkRejected, MustAnswer
    <3>4. \A d \in Call : call[d].pc = "chunk" /\ call[d].at = k => faults' > faults \/ call'[d] = call[d]
      BY <1>3, <3>1, <3>3
    <3>. QED BY <1>2, <1>3, <3>1, <3>2, <3>4, PaidAsBefore
  <2>6. CASE NeededAnswered(c)
    <3>1. PICK m : Keep(c, call[c].at, m)
      BY <2>6 DEF NeededAnswered
    <3>. QED BY <1>4, <2>6, <3>1 DEF NeededAnswered, At, Keep
  <2>7. CASE NeededRejected(c)
    <3>1. gets' = gets /\ \A d \in Call : d # c => call'[d] = call[d]
      BY <1>3, <2>7 DEF NeededRejected
    <3>2. call[c].pc = "needed" /\ (faults' = faults \/ faults' = faults + 1)
      BY <2>7 DEF NeededRejected, At
    <3>3. \A d \in Call : call[d].pc = "chunk" => call'[d] = call[d]
      BY <3>1, <3>2
    <3>. QED BY <1>2, <1>3, <3>1, <3>2, <3>3, PaidAsBefore
  <2>8. CASE Slice(c)
    <3>1. call[c].pc = "slicing" /\ gets' = gets /\ faults' = faults
          /\ \A d \in Call : d # c => call'[d] = call[d]
      BY <1>3, <2>8 DEF Slice, At
    <3>2. \A d \in Call : call[d].pc = "chunk" => call'[d] = call[d]
      BY <3>1
    <3>. QED BY <1>2, <1>3, <3>1, <3>2, PaidAsBefore
  <2>. QED BY <1>7, <2>1, <2>2, <2>3, <2>4, <2>5, <2>6, <2>7, <2>8 DEF CallStep
<1>8. ASSUME NEW c \in Call, Drop(c)
      PROVE  PaidFor(k)'
  <2>1. gets' = gets /\ faults' = faults + 1
    BY <1>8 DEF Drop
  <2>. QED BY <1>2, <1>3, <2>1, PaidAsBefore
<1>. QED BY <1>5, <1>6, <1>7, <1>8 DEF Next

-----------------------------------------------------------------------------
(* The theorems. *)

\* The invariant holds in every reachable state.
LEMMA Invariant == Spec => []IInv
<1>1. IInv /\ [Next]_vars => IInv'
  BY StepKeeps
<1>. QED BY <1>1, InitHolds, PTL DEF Spec

\* The counters stay in their ranges.
LEMMA CountedAlways == Spec => []Counted
<1>1. Init => Counted
  BY HeaderAssumption DEF Init, Counted
<1>2. IInv /\ Counted /\ [Next]_vars => Counted'
  BY CountedKept
<1>. QED BY <1>1, <1>2, Invariant, PTL DEF Spec

\* The types hold of any number of calls of any ranges: no chunk is kept that
\* no range touches, and none longer than the file has of it.
THEOREM TypeCorrect == Spec => []TypeOK
<1>1. IInv /\ Counted => TypeOK
  <2>1. \A k \in DOMAIN chunks : IInv => chunks[k] \in 0..InFile(k)
    BY FileInChunk, HeaderAssumption DEF IInv, Typed
  <2>. QED BY <2>1 DEF IInv, Typed, Counted, TypeOK, Record, Pcs
<1>. QED BY <1>1, CountedAlways, Invariant, PTL

\* Whatever calls run at once, however short the reader's answers, and
\* whatever fails or is dropped: a call is answered only if the file has its
\* range, and fails only if its range runs past the end or a request of its
\* own failed (ChunkedMetadataCache::fetch, meta_cache.rs:35-84).
THEOREM AnswersExact == Spec => []AnswersAreExact
<1>1. IInv => AnswersAreExact
  BY DEF IInv
<1>. QED BY <1>1, Invariant, PTL

\* However many calls want a chunk at once, and however many of its bytes each
\* of them needs: it is asked for in full once, and once more for each request
\* that failed and each call that was dropped ("a COG's header costs one chunk").
THEOREM OneRequestPerChunk == Spec => []AskedForOnce
<1>1. Init => Paid
  BY HeaderAssumption DEF Init, Paid, PaidFor
<1>2. IInv /\ Counted /\ Paid /\ [Next]_vars => Paid'
  BY PaidKept
<1>3. Paid => AskedForOnce
  BY DEF Paid, PaidFor, AskedForOnce
<1>. QED BY <1>1, <1>2, <1>3, Invariant, CountedAlways, PTL DEF Spec

\* No step drops a chunk or replaces it by a shorter one, so what a call has
\* checked is still there when it slices (meta_cache.rs:42-83).
THEOREM ChunksGrow == Spec => ChunksOnlyGrow
<1>1. IInv /\ [Next]_vars => [\A k \in DOMAIN chunks : k \in DOMAIN chunks' /\ chunks'[k] >= chunks[k]]_vars
  BY StepKeeps
<1>. QED BY <1>1, Invariant, PTL DEF Spec, ChunksOnlyGrow
=============================================================================

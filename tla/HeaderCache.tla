----------------------------- MODULE HeaderCache -----------------------------
(***************************************************************************)
(* The cache a file's header is read through (ChunkedMetadataCache).       *)
(*                                                                         *)
(* A call takes the lock, makes sure that it has enough of every chunk its *)
(* range touches, and slices its answer out of them.  The lock is a tokio  *)
(* mutex: it is held while the call awaits the reader, other calls queue   *)
(* behind it, and a call that is dropped at an await lets go of it.        *)
(*                                                                         *)
(* A chunk's bytes are known by their number: byte i of a cached chunk is  *)
(* byte i of that chunk of the file, for i below the chunk's length.       *)
(***************************************************************************)
EXTENDS Integers

CONSTANTS
  Call,       \* concurrent calls of fetch
  Chunk,      \* length of a chunk
  FileSize,   \* length of the file
  MaxAsked,   \* bound on where a range may end
  MaxCalls,   \* bound on the calls made
  MaxFaults,  \* bound on the requests that fail, and calls that are dropped, for
              \* no fault of the range
  Nobody      \* no call holds the lock

ASSUME HeaderAssumption ==
  /\ Chunk \in Nat \ {0}
  /\ FileSize \in Nat
  /\ MaxAsked \in Nat /\ MaxCalls \in Nat /\ MaxFaults \in Nat
  /\ Nobody \notin Call

VARIABLES
  chunks,   \* length of the prefix cached of each chunk that is cached
  holder,   \* the call that holds the lock
  call,     \* the state of each call
  gets,     \* how often each chunk was asked for in full
  calls,    \* calls made so far
  faults    \* requests failed and calls dropped so far

vars == <<chunks, holder, call, gets, calls, faults>>

ChunkIds == 0..(MaxAsked \div Chunk)

Idle == [pc |-> "idle", lo |-> 0, hi |-> 0, at |-> 0, faulty |-> FALSE]

Init ==
  /\ chunks = <<>>
  /\ holder = Nobody
  /\ call = [c \in Call |-> Idle]
  /\ gets = [k \in ChunkIds |-> 0]
  /\ calls = 0
  /\ faults = 0

Smaller(m, n) == IF m < n THEN m ELSE n

Base(k) == k * Chunk
First(r) == r.lo \div Chunk
Last(r) == (r.hi - 1) \div Chunk

\* Bytes of chunk k that a call for r needs.
Need(r, k) == Smaller(r.hi, Base(k) + Chunk) - Base(k)

Cached(k) == IF k \in DOMAIN chunks THEN chunks[k] ELSE 0

\* What is left of chunk k in the file.
InFile(k) == IF Base(k) >= FileSize THEN 0 ELSE Smaller(FileSize - Base(k), Chunk)

-----------------------------------------------------------------------------
(* The reader: a request inside the file is answered in full.  One that    *)
(* runs past the end is rejected, or answered up to the end: that depends  *)
(* on the store.  Any request may fail.                                    *)

MayAnswer(k, n) == {m \in {Smaller(n, InFile(k))} : InFile(k) > 0}
MustAnswer(k, n) == n <= InFile(k)

-----------------------------------------------------------------------------
(* One call. *)

At(c, pc) == call[c].pc = pc

\* The next chunk of c's range, or the answer once all of them are there.
After(c, k) == [call[c] EXCEPT !.pc = IF k = Last(call[c]) THEN "slicing" ELSE "checking", !.at = k + 1]

\* An empty range is answered at once; any other waits for the lock.
Ask(c, lo, hi) ==
  /\ call[c].pc \in {"idle", "answered", "failed"}
  /\ calls < MaxCalls
  /\ calls' = calls + 1
  /\ call' = [call EXCEPT ![c] = [pc |-> IF lo = hi THEN "answered" ELSE "locking",
                                  lo |-> lo, hi |-> hi, at |-> lo \div Chunk, faulty |-> FALSE]]
  /\ UNCHANGED <<chunks, holder, gets, faults>>

\* A slip: the lock is not waited for.
LockAnyway(c) ==
  /\ At(c, "locking")
  /\ holder' = c
  /\ call' = [call EXCEPT ![c].pc = "checking"]
  /\ UNCHANGED <<chunks, gets, calls, faults>>

Lock(c) ==
  /\ At(c, "locking")
  /\ holder = Nobody
  /\ holder' = c
  /\ call' = [call EXCEPT ![c].pc = "checking"]
  /\ UNCHANGED <<chunks, gets, calls, faults>>

\* A slip: any part of a chunk will do.
EnoughIfCached(c) == call[c].at \in DOMAIN chunks

\* A slip: off by one.
EnoughStrictly(c) == call[c].at \in DOMAIN chunks /\ chunks[call[c].at] > Need(call[c], call[c].at)

\* Enough of the chunk is cached.
Enough(c) == call[c].at \in DOMAIN chunks /\ chunks[call[c].at] >= Need(call[c], call[c].at)

Skip(c) ==
  /\ At(c, "checking")
  /\ Enough(c)
  /\ call' = [call EXCEPT ![c] = After(c, call[c].at)]
  /\ UNCHANGED <<chunks, holder, gets, calls, faults>>

\* The whole chunk is asked for.
AskChunk(c) ==
  /\ At(c, "checking")
  /\ ~Enough(c)
  /\ call' = [call EXCEPT ![c].pc = "chunk"]
  /\ gets' = [gets EXCEPT ![call[c].at] = @ + 1]
  /\ UNCHANGED <<chunks, holder, calls, faults>>

\* Keep chunk k as the m bytes that came.
Keep(c, k, m) ==
  /\ chunks' = [i \in DOMAIN chunks \cup {k} |-> IF i = k THEN m ELSE chunks[i]]
  /\ call' = [call EXCEPT ![c] = After(c, k)]

\* It came, with at least what the call needs; else only that is asked for.
ChunkAnswered(c) ==
  /\ At(c, "chunk")
  /\ LET k == call[c].at
     IN \E m \in MayAnswer(k, Chunk) :
          \/ m >= Need(call[c], k) /\ Keep(c, k, m)
          \/ /\ m < Need(call[c], k)
             /\ call' = [call EXCEPT ![c].pc = "needed"]
             /\ UNCHANGED chunks
  /\ UNCHANGED <<holder, gets, calls, faults>>

\* The chunk runs past the end of the file and is rejected, or the request
\* fails: either way only what the call needs is asked for.
ChunkRejected(c) ==
  /\ At(c, "chunk")
  /\ \/ ~MustAnswer(call[c].at, Chunk) /\ UNCHANGED faults
     \/ MustAnswer(call[c].at, Chunk) /\ faults < MaxFaults /\ faults' = faults + 1
  /\ call' = [call EXCEPT ![c].pc = "needed"]
  /\ UNCHANGED <<chunks, holder, gets, calls>>

\* What came is kept, even when it ends before what the call needs.
NeededAnswered(c) ==
  /\ At(c, "needed")
  /\ LET k == call[c].at
     IN \E m \in MayAnswer(k, Need(call[c], k)) : Keep(c, k, m)
  /\ UNCHANGED <<holder, gets, calls, faults>>

\* The error is the call's; returning it drops the lock.
NeededRejected(c) ==
  /\ At(c, "needed")
  /\ LET inside == MustAnswer(call[c].at, Need(call[c], call[c].at))
     IN /\ inside => faults < MaxFaults
        /\ faults' = IF inside THEN faults + 1 ELSE faults
        /\ call' = [call EXCEPT ![c].pc = "failed", ![c].faulty = inside]
  /\ holder' = Nobody
  /\ UNCHANGED <<chunks, gets, calls>>

\* The range is put together from its chunks, or ends beyond one of them.
Slice(c) ==
  /\ At(c, "slicing")
  /\ LET there == \A k \in First(call[c])..Last(call[c]) : Need(call[c], k) <= Cached(k)
     IN call' = [call EXCEPT ![c].pc = IF there THEN "answered" ELSE "failed"]
  /\ holder' = Nobody
  /\ UNCHANGED <<chunks, gets, calls, faults>>

\* A slip: the dropped call's guard outlives it.
DropHoldsLock(c) ==
  /\ call[c].pc \in {"locking", "chunk", "needed"}
  /\ faults < MaxFaults
  /\ faults' = faults + 1
  /\ call' = [call EXCEPT ![c] = Idle]
  /\ UNCHANGED <<chunks, holder, gets, calls>>

\* The open is interrupted: a call is dropped while it waits for the lock or
\* for the reader, and its guard with it.
Drop(c) ==
  /\ call[c].pc \in {"locking", "chunk", "needed"}
  /\ faults < MaxFaults
  /\ faults' = faults + 1
  /\ call' = [call EXCEPT ![c] = Idle]
  /\ holder' = IF holder = c THEN Nobody ELSE holder
  /\ UNCHANGED <<chunks, gets, calls>>

CallStep(c) ==
  \/ Lock(c) \/ Skip(c) \/ AskChunk(c)
  \/ ChunkAnswered(c) \/ ChunkRejected(c)
  \/ NeededAnswered(c) \/ NeededRejected(c)
  \/ Slice(c)

Next ==
  \E c \in Call :
    \/ \E lo \in 0..MaxAsked, hi \in 0..MaxAsked : lo <= hi /\ Ask(c, lo, hi)
    \/ CallStep(c)
    \/ Drop(c)

\* The task that opens the file is polled while a call of it can move; tokio's
\* mutex is fair to the calls that queue for it.
Fairness == \A c \in Call : WF_vars(CallStep(c)) /\ SF_vars(Lock(c))

Spec == Init /\ [][Next]_vars /\ Fairness

-----------------------------------------------------------------------------
(* Properties. *)

\* Variables hold what the code can store in them; a cached chunk is never
\* longer than what the file has of it.
TypeOK ==
  /\ DOMAIN chunks \subseteq ChunkIds
  /\ \A k \in DOMAIN chunks : chunks[k] \in 0..InFile(k)
  /\ holder \in Call \cup {Nobody}
  /\ call \in [Call -> [pc : {"idle", "locking", "checking", "chunk", "needed", "slicing",
                              "answered", "failed"},
                        lo : 0..MaxAsked, hi : 0..MaxAsked, at : Nat, faulty : BOOLEAN]]
  /\ gets \in [ChunkIds -> Nat]
  /\ calls \in 0..MaxCalls
  /\ faults \in 0..MaxFaults

\* A call is answered with bytes the cache has, and fails only for a reason:
\* its range runs past the end of the file, or a request of its own failed.
\* What other calls have left in the cache, short chunks included, never
\* turns a good range into an error nor a bad one into an answer.
AnswersAreExact ==
  \A c \in Call :
    /\ At(c, "answered") => call[c].hi <= FileSize \/ call[c].lo = call[c].hi
    /\ At(c, "failed") => call[c].hi > FileSize \/ call[c].faulty

\* "A COG's header costs one chunk": calls that run at once never ask the
\* reader twice for a chunk that comes in full, but for requests that failed
\* and calls that were dropped.
AskedForOnce == \A k \in ChunkIds : InFile(k) = Chunk => gets[k] <= 1 + faults

\* A chunk is asked for again only when a longer piece of it is needed, and
\* never replaced by a shorter one: what a call has checked stays there.
ChunksOnlyGrow ==
  [][\A k \in DOMAIN chunks : k \in DOMAIN chunks' /\ chunks'[k] >= chunks[k]]_vars

\* Every call is answered, fails or is dropped: no order of calls, faults and
\* drops leaves the lock held by a call that is gone.
CallsReturn == \A c \in Call : At(c, "locking") ~> call[c].pc \in {"answered", "failed", "idle"}
=============================================================================

---------------------------- MODULE CachedReader ----------------------------
(***************************************************************************)
(* The reader every remote source is read through (CachedReader): calls    *)
(* for byte ranges look in the session cache, merge what is missing into   *)
(* requests, run those concurrently under the read's request limit, and    *)
(* put what arrives into the cache.                                        *)
(*                                                                         *)
(* The calls of one read are futures of the same task: the header reads of *)
(* its sources and the fetch units in flight.  The cache's lock is held    *)
(* for a whole lookup and for a whole fill, never across an await, so each *)
(* is one step and everything else interleaves.                            *)
(*                                                                         *)
(* Bytes are told apart by where in the file they come from: a byte string *)
(* is its offset `from` and its length `len`.                              *)
(***************************************************************************)
EXTENDS RangeCacheOps, Coalesce

CONSTANTS
  Call,        \* concurrent calls
  FileSize,    \* length of the remote file
  BlockLists,  \* the range lists get_byte_ranges is called with
  MetaRanges,  \* the ranges get_bytes is called with
  Limit,       \* permits of the request limit: io_concurrency
  Budgets,     \* cache budgets the session sets
  MaxCalls,    \* bound on the calls made
  NoBytes      \* a range that is not answered yet

RangesOf(lists) == UNION {ToSet(rs) : rs \in lists}

\* A file's blocks are never the aligned chunks its header is read in, so a
\* block range and a header range are different cache keys.
RequestsAssumption ==
  /\ BlockLists \subseteq Seq(ByteRanges)
  /\ MetaRanges \subseteq ByteRanges
  /\ RangesOf(BlockLists) \cap MetaRanges = {}

\* request_limit holds n.max(1) permits.
LimitAssumption == Limit \in Nat \ {0}

ASSUME ReaderAssumption ==
  RequestsAssumption /\ LimitAssumption /\ Budgets \subseteq Nat /\ {FileSize, MaxCalls} \subseteq Nat

VARIABLES
  cache,    \* the session cache, as the lock's holder leaves it
  permits,  \* free permits of the request limit
  call,     \* the state of each call
  calls     \* calls made so far

vars == <<cache, permits, call, calls>>

NoCall == [pc |-> "idle", kind |-> "none", asked |-> <<>>, out |-> <<>>,
           missing |-> <<>>, reqs |-> <<>>, place |-> <<>>, at |-> <<>>]

Init ==
  /\ \E n \in Budgets : cache = Emptied(0, n)
  /\ permits = Limit
  /\ call = [c \in Call |-> NoCall]
  /\ calls = 0

-----------------------------------------------------------------------------
(* The remote. *)

Bytes(from, len) == [from |-> from, len |-> len]
Smaller(m, n) == IF m < n THEN m ELSE n

\* A request that starts within the file is answered up to the file's end.
Remote(r) == Bytes(r.start, Smaller(r.end, FileSize) - r.start)
Answerable(r) == r.start < FileSize

Fetching(c) == call[c].pc = "fetching"
\* Requests holding a permit, and requests that may hold one.
At(c, where) == {k \in DOMAIN call[c].reqs : call[c].at[k] = where}
Flying(c) == At(c, "flying")
AllArrived(c) == At(c, "arrived") = DOMAIN call[c].reqs

-----------------------------------------------------------------------------
(* One call. *)

\* Look every range up, in order, under one lock.
LookUp(rs) == FoldLeft(Touch, cache, rs)

\* What the cache answers; the positions it does not, and their ranges.
Answers(rs) == [i \in DOMAIN rs |-> IF rs[i] \in Keys(cache) THEN cache.map[rs[i]].b ELSE NoBytes]
Missing(rs) ==
  LET pos == {i \in DOMAIN rs : rs[i] \notin Keys(cache)}
  IN Ranked(pos, {p \in pos \X pos : p[1] < p[2]})
Wanted(rs) == LET missing == Missing(rs) IN [m \in DOMAIN missing |-> rs[missing[m]]]

\* A call looks its ranges up and answers, or starts the requests for the rest.
Begin(c, kind, rs, requests) ==
  /\ call[c].pc # "fetching"
  /\ calls < MaxCalls
  /\ calls' = calls + 1
  /\ cache' = LookUp(rs)
  /\ call' = [call EXCEPT ![c] =
       [pc |-> IF Missing(rs) = <<>> THEN "answered" ELSE "fetching",
        kind |-> kind, asked |-> rs, out |-> Answers(rs), missing |-> Missing(rs),
        reqs |-> requests.reqs, place |-> requests.place,
        at |-> [k \in DOMAIN requests.reqs |-> "waiting"]]]
  /\ UNCHANGED permits

\* get_bytes makes one request of its range, as it is.
AsIs(want) == [reqs |-> want, place |-> [i \in DOMAIN want |-> [req |-> i, off |-> 0]]]

GetBytes(c, r) == Begin(c, "bytes", <<r>>, AsIs(Wanted(<<r>>)))
GetByteRanges(c, rs) == Begin(c, "ranges", rs, Merge(Wanted(rs)))

\* A slip to tell Acquire from: the permit is counted and not waited for.
AcquireAtOnce(c, k) ==
  /\ Fetching(c)
  /\ k \in At(c, "waiting")
  /\ permits' = permits - 1
  /\ call' = [call EXCEPT ![c].at[k] = "flying"]
  /\ UNCHANGED <<cache, calls>>

\* fetch: a request gets a permit and goes out.
Acquire(c, k) ==
  /\ Fetching(c)
  /\ k \in At(c, "waiting")
  /\ permits > 0
  /\ permits' = permits - 1
  /\ call' = [call EXCEPT ![c].at[k] = "flying"]
  /\ UNCHANGED <<cache, calls>>

\* Its answer arrives; leaving fetch drops the permit.
Arrive(c, k) ==
  /\ Fetching(c)
  /\ k \in Flying(c)
  /\ Answerable(call[c].reqs[k])
  /\ call' = [call EXCEPT ![c].at[k] = "arrived"]
  /\ permits' = permits + 1
  /\ UNCHANGED <<cache, calls>>

\* A slip: the permits of dropped requests are forgotten.
AbandonForgets(c) ==
  /\ call' = [call EXCEPT ![c] = [NoCall EXCEPT !.pc = "failed"]]
  /\ UNCHANGED <<permits, cache, calls>>

\* A call that ends early drops the futures of all its requests, and with
\* those the permits they hold.
Abandon(c) ==
  /\ call' = [call EXCEPT ![c] = [NoCall EXCEPT !.pc = "failed"]]
  /\ permits' = permits + Cardinality(Flying(c))
  /\ UNCHANGED <<cache, calls>>

\* A request fails: try_join_all drops its siblings.
Fault(c, k) ==
  /\ Fetching(c)
  /\ k \in Flying(c)
  /\ Abandon(c)

\* The whole read is dropped: another source failed, or the user interrupted.
DropRead ==
  /\ \E c \in Call : Fetching(c)
  /\ call' = [c \in Call |-> IF Fetching(c) THEN [NoCall EXCEPT !.pc = "failed"] ELSE call[c]]
  /\ permits' = Limit
  /\ UNCHANGED <<cache, calls>>

\* A slip: what arrived is cached as if it were all that was asked for.
DeliverAskedBytes(c) ==
  /\ Fetching(c)
  /\ call[c].kind = "bytes"
  /\ AllArrived(c)
  /\ \E r \in {call[c].asked[1]} :
       /\ cache' = Insert(cache, r, Bytes(r.start, r.end - r.start))
       /\ call' = [call EXCEPT ![c].pc = "answered", ![c].out = <<Remote(r)>>]
  /\ UNCHANGED <<permits, calls>>

\* get_bytes: cache what arrived and answer it.
DeliverBytes(c) ==
  /\ Fetching(c)
  /\ call[c].kind = "bytes"
  /\ AllArrived(c)
  /\ cache' = Insert(cache, call[c].asked[1], Remote(call[c].asked[1]))
  /\ call' = [call EXCEPT ![c].pc = "answered", ![c].out = <<Remote(call[c].asked[1])>>]
  /\ UNCHANGED <<permits, calls>>

\* A slip: the m-th missing range answers the m-th range asked for.
CutsInOrder(w) ==
  [m \in DOMAIN w.missing |->
     [pos |-> m, range |-> w.asked[w.missing[m]],
      got |-> Remote(w.reqs[w.place[m].req]), off |-> w.place[m].off]]

\* What the fill loop goes over: the position each missing range answers, the
\* range, what its request got, and how far into that it starts.
Cuts(w) ==
  [m \in DOMAIN w.missing |->
     [pos |-> w.missing[m], range |-> w.asked[w.missing[m]],
      got |-> Remote(w.reqs[w.place[m].req]), off |-> w.place[m].off]]

\* The loop body: cut the range out of what its request got, cache it and
\* answer it; a range the request fell short of ends the loop.
FillOne(acc, x) ==
  LET b == Bytes(x.got.from + x.off, x.range.end - x.range.start)
  IN IF acc.failed \/ x.off + b.len > x.got.len
     THEN [acc EXCEPT !.failed = TRUE]
     ELSE [acc EXCEPT !.cache = Insert(@, x.range, b), !.out[x.pos] = b]

Filled(w) == FoldLeft(FillOne, [cache |-> cache, out |-> w.out, failed |-> FALSE], Cuts(w))

\* get_byte_ranges: fill the cache and the answer under one lock.
DeliverRanges(c) ==
  /\ Fetching(c)
  /\ call[c].kind = "ranges"
  /\ AllArrived(c)
  /\ \E f \in {Filled(call[c])} :
        /\ cache' = f.cache
        /\ call' = [call EXCEPT ![c] =
             IF f.failed THEN [NoCall EXCEPT !.pc = "failed"]
             ELSE [@ EXCEPT !.pc = "answered", !.out = f.out]]
  /\ UNCHANGED <<permits, calls>>

-----------------------------------------------------------------------------
(* Between reads R's only thread may empty or resize the cache. *)

BetweenReads == \A c \in Call : ~Fetching(c)

CacheSet(n) ==
  /\ BetweenReads
  /\ cache' = SetBudget(cache, n)
  /\ UNCHANGED <<permits, call, calls>>

CacheClear ==
  /\ BetweenReads
  /\ cache' = Clear(cache)
  /\ UNCHANGED <<permits, call, calls>>

-----------------------------------------------------------------------------

CallStep(c) ==
  \/ \E k \in DOMAIN call[c].reqs : Acquire(c, k) \/ Arrive(c, k) \/ Fault(c, k)
  \/ DeliverBytes(c)
  \/ DeliverRanges(c)

Next ==
  \/ \E c \in Call :
       \/ \E r \in MetaRanges : GetBytes(c, r)
       \/ \E rs \in BlockLists : GetByteRanges(c, rs)
       \/ CallStep(c)
  \/ DropRead
  \/ \E n \in Budgets : CacheSet(n)
  \/ CacheClear

\* The task polls every call that can move, and every request is answered or
\* fails.  Nobody is obliged to call, to drop a read or to touch the cache.
Fairness == \A c \in Call : WF_vars(CallStep(c))

Spec == Init /\ [][Next]_vars /\ Fairness

-----------------------------------------------------------------------------
(* Properties. *)

TypeOK ==
  /\ permits \in 0..Limit
  /\ calls \in 0..MaxCalls
  /\ \A c \in Call : call[c].pc \in {"idle", "fetching", "answered", "failed"}
  /\ Keys(cache) \subseteq RangesOf(BlockLists) \cup MetaRanges

\* The requests in flight, of all calls.
InFlight == UNION {{c} \X Flying(c) : c \in Call}

\* Every permit is free or with one request in flight: no order of answers,
\* failures and dropped calls loses one, or lets more than Limit requests fly.
PermitsConserved == permits + Cardinality(InFlight) = Limit

\* A cached range is the file's bytes at its key, though it was cut out of a
\* request that another mix of ranges had merged; a header range may end with
\* the file.
CacheTruthful ==
  \A r \in Keys(cache) :
    LET b == cache.map[r].b
    IN b = Remote(r) /\ (r \notin MetaRanges => b.len = r.end - r.start)

\* An answer holds exactly the bytes asked for, range by range.
AnswersAreExact ==
  \A c \in Call : call[c].pc = "answered" =>
    /\ DOMAIN call[c].out = DOMAIN call[c].asked
    /\ \A i \in DOMAIN call[c].asked :
         LET r == call[c].asked[i]
         IN call[c].out[i] = IF call[c].kind = "bytes" THEN Remote(r) ELSE Bytes(r.start, r.end - r.start)

\* A call that started is answered or fails, however many calls share the
\* permits and whichever of them fail.
CallsReturn == \A c \in Call : Fetching(c) ~> ~Fetching(c)
=============================================================================

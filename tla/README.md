# A TLA+ model of a5px

a5px reads rasters (GeoTIFF, COG) from disk or object stores and aggregates
their pixels into A5 cells.  An R package wraps a Rust core; everything that
runs concurrently, fails halfway, or keeps state between calls is in the core.
This directory holds TLA+ modules that model that core, TLC configurations that
check them on small instances, and proofs for TLAPS.

`PROJECT.json` lists components, runs, hazards, findings and theorems, and maps
every definition to the lines it was translated from.  Paths below are relative
to `src/rust/src/` in the repository, unless they start with `R/`.

## The system

```
 R (one thread)  --- block_on_interruptible --------------------------------+
                                                                             |
  sources.rs   open headers (meta_cache.rs), plan bands                      |
  read.rs      plan_source: overview, tiles of the bbox, strips or blocks    |
                     |  fetch units                                          |
               producer: <= io_concurrency futures                           |
                     |       fetch  --> band_fetch.rs --> range_cache.rs --> object store
                     |  bounded channel
               cpu_workers threads: decode, split into stripes (rayon)
                     |       locate cells, push pixels into a stripe store
                     |  absorb, one partition lock at a time
               partitioned store  --> aggregate --> composite --> R / Parquet
```

| component | state | operations | hard part | modelled in |
|---|---|---|---|---|
| block pipeline (`read.rs` 2605-2932, `runtime.rs`) | futures, channel, worker threads, joins | fetch, send, receive, fold, fail, join, abort, interrupt | who waits for whom when something fails | `ReadPipeline` |
| fetch units (`read.rs` 2073-2091, 2785-2799) | none | `plan_strips`, strip cap | boundaries of rows and caps | `FetchPlan`, `Planning` |
| range cache (`range_cache.rs` 53-193) | two maps, a byte count, a budget | `get`, `insert`, `evict`, `set_budget`, `clear` | redundant state that must agree | `RangeCacheOps`, `RangeCache`; partly |
| request merging (`range_cache.rs` 214-235) | none | `coalesce` | ranges in any order, overlapping | `Coalesce`, `Planning` |
| cached reader (`range_cache.rs` 237-331) | calls in flight, permits | `get_bytes`, `get_byte_ranges`, drop | lookups and fills of different calls interleave, siblings are dropped | `CachedReader` |
| header cache (`meta_cache.rs`) | chunks, an async lock | `fetch` | short chunks, a lock held across awaits | `HeaderCache` |
| centroid sampling (`sample.rs`) | sparse partials per worker | the pipeline again, stencils over blocks | a stencil's parts meet only at the end | `Sampling`, `SamplePipeline` |
| tile selection (`read.rs` 3218-3640, `grid_proj.rs` boxes) | none | overview levels, footprints, tile range, origin rule | longitudes in several frames, partitions of the globe | `Regions`, `TileSelection`, `Overviews`, `Selection` |
| sources and bands (`sources.rs`) | none | `resolve_selection`, `plan_bands`, checks | bands to columns over sources | `BandPlan`, `Selection`; partly |
| pixel indexing (`read.rs` 1190-2050) | a stripe's store | `process_tile`, `process_tile_overlay` | masks, missing pixels, runs, shares of pixels | `TileIndexing` |
| projection and location (`locator.rs`, `grid_proj.rs`) | the last cell found, hints | `locate`, `classify` | accepting a candidate without a search | `Locator`, `Regions`, `TileIndexing`; partly |
| area of interest (`cell_mask.rs`, `poly_mask.rs`) | a grid over edges | build, `contains`, `classify` | two rules for one point | `PolyMask`, `TileIndexing`; partly |
| cell store (`read.rs` 774-1058) | sums, extremes, variances, class weights, shared and split weights | push, merge | the same weight kept in two forms | `CellStore`, `Accumulators` |
| partitioned store (`read.rs` 1060-1147) | stores behind locks | `absorb` | concurrent merges, errors under a lock | `PartitionedStore`, `ReadOutput`; partly |
| aggregate, composite (`read.rs` 2934-3140, `composite.rs`) | finished stores | finalise, shares, reduce | weights of partial sources | `Accumulators`, `Compositing`, `ReadOutput` |
| Parquet writer (`parquet_write.rs`) | a file | row groups, close | failure halfway | `ReadOutput`; partly |
| block assembly, runtime ownership, session settings, aggregation of cells, object stores, decode tables, R surface | | | | see "Not modelled" |

What makes each of them correct, in a sentence:

* pipeline: every selected block is folded exactly once or the read reports an
  error, the right one; the read returns; its threads end;
* units and requests: nothing is dropped, doubled or paired with the wrong
  bytes, and sizes stay within their caps;
* cache and reader: what is answered is what is in the file, the accounting
  never drifts, permits never leak;
* stores: every pixel's weight arrives exactly once, under any interleaving,
  and the weight a mean divides by is the weight of what was summed;
* sampling: a cell's value is that of its whole stencil, however that is split
  over blocks and workers;
* selection: the blocks read hold every pixel of the region, each band goes to
  the column named for it, and pooled sources are read at one decimation;
* output: a row for every cell with a valid pixel, its values those pixels',
  whatever the order in which stripes were done, and a finished file holds all
  the rows.

## Modules

**`ReadPipeline`** models one read.  A fetch unit's future is in `task`
(`waiting`, `fetching`, `sending`, `done`, `dropped`), how far it has sent is in
`sent`, the channel is `chan`, and `outer` is the sender the main task's scope
owns (`tx_chan`).  A worker is in `worker` with the block it received in
`hand`.  `folded` stands for the statistics: how often each block reached
them.  `main`, `joined`, `cause` and `result` are the main task: polling the
producer, aborting, draining, or returned.  One action per step that another
task can observe: `StartFetch`, `FetchDone`, `FetchFails`, `Send`, `SendFails`
(every receiver gone), `ProducerDone`, `StartWorker`, `Receive`,
`ReceiveClosed`, `Fold`, `WorkerFails` (an error or a panic), `JoinAborted`,
`ReportCause`, `JoinDraining`, `Finish`, `Interrupt`.  Dropping the stream
drops every future and its sender in one step, as Rust's drop does.
`abort()` on a blocking task only stops one the pool has not started, so
`ProducerFails` cancels the workers that are `spawned` and no others.

**`ReadContract`** is what the caller may rely on: a block is folded at most
once, the read answers once, and a good answer implies every block.
`ReadPipeline` implements it under the mapping `count <- folded`,
`outcome <- result` with all errors alike.

**`FetchPlan`** and **`Coalesce`** are pure: `plan_strips` and the strip cap,
and `coalesce`.  `MCReadPipeline` computes its units with `FetchPlan` and
checks them against the ones written out there; `CachedReader` merges its
requests with `Coalesce`.  **`Planning`** is a machine that grows every short
input to both (its specification is `Inputs`), so that TLC states the failing
input when a property breaks.  **`Ranking`** lists a set in an order; `Coalesce`
sorts ranges with it, `BandPlan` bands.

**`RangeCacheOps`** has the cache's methods as operators on its value.  `evict`
pops the least recent entry while the count exceeds the budget; the operator
names the entries that survive that loop directly.  **`RangeCache`** applies
them in any order; **`LruCache`** is a list of entries in order of last use, of
which the longest suffix fitting the budget is kept.

**`CachedReader`** runs several calls over one cache and one request limit.  A
call takes the lock for its whole lookup (`GetBytes`, `GetByteRanges`), starts
requests that wait for a permit (`Acquire`), receives (`Arrive`) or fails
(`Fault`, which drops the siblings), and takes the lock again for its whole
fill (`DeliverBytes`, `DeliverRanges`).  `DropRead` drops every call of a read,
`CacheSet` and `CacheClear` happen between reads.  A byte string is the place
it came from and its length, so a wrong cut is a wrong value.

**`CellStore`** has the methods of a store of accumulators for the layout whose
bands share a weight per cell; a weighted sum is the weight it holds.
**`PartitionedStore`** runs threads that fill a stripe's store
(`PushRun` for pixel centres, `PushPixel` for overlay sampling), group its
cells by partition, and merge each group under its lock (`StartAbsorb`, `Lock`,
`MergeCell`, `MergeFails`), then go on (`NextStripe`).  `given` is a history
variable: what all pixels so far weigh.

**`HeaderCache`** runs concurrent calls of `fetch` for the bytes of a header.  A
call queues for the lock (`Lock`), walks the chunks its range touches, asks the
reader for those it has too little of and stores the longer answer, waits there
with the lock held, and slices its answer; requests fail, answers are short at
the file's end, and a call can be dropped at any await, which lets go of the
lock.  The lock is tokio's, whose queue is fair.

**`Sampling`** has the kernels of `sample.rs`, what a block contributes to a
centre's sums, and the bilinear sums kept beside those of a kernel with
negative weights.  **`SamplePipeline`** extends `ReadPipeline`: its steps are
those of a read, and folding a block puts its records into the worker's list.
When the main task has joined every worker it merges the lists and places the
samples in rows with those of the other sources.

**`Regions`** are boxes of longitude and latitude, split at the antimeridian,
with the tests on points (`Holds`, and `Classify` for a point known to within a
margin).  **`TileSelection`** is `bbox_tile_range`: footprint, its padding, the
boxes projected into a raster by samples along their edges, and the origin rule
of block alignment.  **`Overviews`** chooses the image of a file to read, for
one source and for pooled ones; **`BandPlan`** resolves a band selection, by
index or by name.
**`Selection`** composes them in the order of a call, one step per decision, any
of which may end it with an error: `ResolveBands`, `CheckSources`,
`ChooseLevels`, `PlanSource` (once per source), `Finish`.

**`TileIndexing`** takes a stripe of a decoded block to a stripe's store: which
pixels are valid, decoded how, held by which masks and regions; runs of pixels
of one cell by their centres (`process_tile`), or the shares of a pixel in each
cell by sub-points, with the short cut for pixels whose corners are in one cell
(`process_tile_overlay`).  It looks cells up with **`Locator`**, which tries the
last cell found, the hints and their relatives before it searches, and skips
the exact projection when an approximate position decides; and tests points
with **`PolyMask`**, the grid of edges and centres of `poly_mask.rs`.
**`Accumulators`** has the running statistics with their pushes, merges and
results, **`Compositing`** the reducers over sources, both on the exact fractions
of **`Rationals`**.

**`ReadOutput`** composes these from the stripes to the file: `AbsorbStripe` (in
any order), `Finish` (partitions by ascending cell, statistics, shares,
composites) and, for a read to a file, `CreateFile`, `WriteGroup` and `CloseFile`
with a failure at each (`CallFails`).  The destination may hold the file of an
earlier read, which `CreateFile` replaces.  `MCReadOutput` gives it small rasters, and defines what the rows should
be from the rasters' pixels alone, without blocks, stripes, runs or
accumulators.

Definitions introduced as "a slip" are wrong versions of the definition below
them, of the kind a change to the code could introduce.  No specification uses
them; putting one in place of its neighbour must break the property that
PROJECT.json pairs it with, which shows that the property can fail.

## Runs

Run TLC in this directory, for instance
`tlc -workers 2 -config pipeline.cfg MCReadPipeline.tla`.

| run | instance | distinct states | what it shows |
|---|---|---|---|
| `pipeline` | 7 blocks of two sources in 5 units, 2 workers, 2 fetches in flight, channel of 4 | 188,230 | all pipeline properties below |
| `planning` | all plans on a 5 x 2 grid, strips of up to 3, io 1 to 4; all lists of up to 3 ranges over 7 offsets | 23,788 | strips and requests |
| `range_cache` | 3 keys, lengths 0 to 3, budgets 0, 2, 4, six gets and inserts | 2,286 | cache alone, and that it is an LRU cache |
| `cached_reader` | file of 10 bytes, 2 concurrent calls, 3 in all, 2 permits, budgets 0 and 4 | 25,196 | reader, permits, cache |
| `header_cache` | file of 3 bytes in chunks of 2, ranges up to byte 5, 2 concurrent calls, 3 in all, 2 faults or drops | 210,387 | header reads |
| `cell_store` | 2 cells in 2 partitions, 2 columns, 2 classes (cap 1), a source with both bands and one with the second only, 3 pushes | 85,620 | stores and locks |
| `sampling` | 6 x 6 pixels in 4 blocks, bicubic, 2 bands, 5 centres, 4 scenes of missing pixels, 2 workers, a second source | 87,540 | samples, and the refinement of the read |
| `selection` | 8 rasters, every bbox over a grid of 6 longitudes and 5 latitudes; 9 files with different levels, bands, scales and pixel sizes, in lists of 1 to 3, with bands selected by index and by name | 85,610 | tiles, levels, columns |
| `output` | a raster of 5 x 4 pixels in 4 blocks, or two of 3 x 2; 172 reads in their options, to a file where there is none or an earlier one | 9,132 | rows, shares, masks, files |
| `fetch_failure_hangs`, `interrupted_workers`, `v_EveryRegionPixelIsRead` | as the run of the same module; a globe in narrow tiles | | the findings below |

Properties worth naming:

* `Conservation`: a block is unsent, queued, in one hand, or folded, and only
  one of these.  `OkIsComplete`: a good answer has folded every block and left
  no worker running.  `WorkerErrorsWin`: no good answer and no producer's error
  hides a worker that failed; `UnreachableAnswers`: the two answers the code
  takes for impossible (the channel found closed with no worker to blame, the
  store still shared after the joins) are.  `DrainedBeforeAnswer`: a worker's
  error is not an answer while another worker still folds.
* `ReturnsUnlessFetchFails` and `WorkersExit`: nobody waits for ever, and no
  thread outlives its read for ever, in whatever way it ended.
* `StripsAreLongestRuns`, `RequestsAreTight`: strips and merged requests end
  where a cap, a row or a gap says, and nowhere else.
* `LruSpec`: the two maps, the tick and the byte count amount to a list.
  `CacheTruthful`, `AnswersAreExact`: what is cached and answered is the file's
  content, although requests are merged differently by every call.
  `InsertKeepsItsRange`: in any state of the cache, a range that fits the budget,
  exactly even, is there after its insert, and any other changes nothing.
  `PermitsConserved`, `CallsReturn`: faults and drops leak no permit.
* `AskedForOnce`, `ChunksOnlyGrow`: a header chunk is fetched again only when a
  call needs more of it than was cached, and is never replaced by less.
* `MeansAreExact`: the shared weight, or the split one where there is one, is
  the weight of the sums in every stripe and partition.  `WeightConserved`: what
  pixels weigh is in the partitions or still in one stripe.  `HoldersCanMove`:
  whoever holds a lock has something to merge under it and waits for nothing.
* `SamplesAreWhole`: every sample is the one a reader of the whole raster at
  once would take.  `ImplementsRead`: a sampling is a read in the sense of `ReadPipeline`,
  fairness included, so what holds of reads holds of samplings.
* `RegionPixelsAreRead`: no pixel of a region is lost to an estimate from
  outlines.  `BlocksOwnedOnce`: over a partition of the globe each block is read
  by one bbox.  `PooledLevelsAgree`, `ColumnsFilled`: sources pooled or side by
  side are read alike and land where their names say, those asked for by name
  under it.  `ClassifyAgrees`: what is
  decided of an approximate position holds of every position within the margin.
* `ValuesAreExact`, `FractionsAreShares`, `MaskIsEvenOdd`, `FileHoldsTheRead`:
  rows, class shares, polygon masks and files against their definitions, for
  every order of stripes and every failure of the file.

**Bounds.**  The pipeline's channel holds at least four blocks, so seven blocks
are one more than channel and both hands hold together: futures do block on a
full channel, and some of them are blocked there when the workers fail.  Two sources give strips
and single blocks.  Two workers are the least for which one can fail while the
other lives, and for which handle order matters.  In `cached_reader` lists
merge, split, repeat a range, and end beyond the file, there are more requests
than permits, and one budget evicts while a call fills.  In `cell_store` the
first source pushes twice and so absorbs twice, and the sources share
a column.  In `header_cache` the last chunk is short and ranges end before, in
and after it, so a chunk is stored short, found short and asked for again.  In
`sampling` centres lie inside a block, across two and four, at the edge of the
raster and beyond it, and what is missing hits outer lobes, inner stencils, or
everything.  In `selection` rasters cross the antimeridian from either side,
keep longitudes from 0 to 360, go around the globe, and have pixel centres on
the edges of regions; files have levels that round, lack, repeat or squeeze
their sizes.  In `output` every block but one is cut off by the raster's edge,
cells are less than two pixels wide, regions cut pixels through their
sub-points, and polygons have holes, bends, overlaps and shared edges.  The
projector's positions are off by their margin, into the row before, and its
longitudes by one unit, so a candidate cell is accepted, refused or left
undecided by the position alone and then tested exactly, and a candidate is
taken that is not the last one found.

**Premises.**  Some properties are stated with an exception, each because the
code does otherwise there:

* `RegionPixelsAreRead` asks of a raster over a whole turn of longitudes that it
  reach a pole and that its tiles be wide or the region stay off its seam
  (`Ordinary`); without the second it is the finding below, without the first
  the gap noted after it.  `BlocksOwnedOnce` leaves out rows centred on the
  pole, which no bbox owns.
* `MaskIsEvenOdd` is about points off every edge, for masks whose grid has no
  cell centred on an edge.
* The instances of `ValuesAreExact` give the projector true margins: an
  approximate position is never off by more than it says.

**Fairness.**  Weak fairness of the producer, of each worker and of the main
task: the runtime polls a task that can move and the operating system runs its
threads.  A fetch is assumed to end, well or badly, as the HTTP client's
timeouts provide.  Nobody is obliged to interrupt, and no run relies on a
failure happening.  `SamplePipeline` assumes the same of the same steps.  In
`cached_reader` each call is weakly fair; permits need no
strong fairness because the runs are of finitely many calls (`MaxCalls`), as a
read has finitely many units.  `HeaderCache` adds strong fairness of taking the
lock, whose waiters tokio serves in order.  `PartitionedStore` has no fairness:
its liveness is stated as the invariant `HoldersCanMove`.  `Selection` and
`ReadOutput` are sequences of decisions and have none.

**Deadlock** is checked where the system cannot stop (`range_cache`) and where
the end of a call is a step of its own (`Stopped` in `selection` and `output`):
there, no state but an end is without a next step.  The others end in a state
where the read has returned, the input is complete, no calls are left or the
threads have failed or have nothing left to do.

## Findings

1. *A failed fetch can hang a read* (`FetchFailureReturns`, code bug).  On the
   error path (`read.rs` 2880-2894) the workers' handles are awaited inside the
   block that owns `tx_chan`.  `abort()` does not stop a blocking task that has
   started, and such a worker sits in `recv_blocking` until the last sender is
   dropped.  So the read waits for the worker and the worker for the read, until
   the user interrupts.  The comment (2874-2876) expects the error to reach R.
   `sample.rs` 711-728 has the same shape.
2. *Workers of an interrupted read take more blocks* (`InterruptedWorkersStop`).
   `runtime.rs` 64-65 says they finish the block in hand and exit; a closed
   channel still hands out what it holds.
3. *A bbox on the seam of a raster around the globe can miss blocks*
   (`EveryRegionPixelIsRead`, code bug).  `projected_tile_range` samples a box's
   edges and moves each longitude to the copy nearest the raster's centre
   (`read.rs` 3529).  An edge on the seam jumps to the other side, so the range
   ends at the last sample before it, and blocks narrower than the step between
   samples are not read.  The comments (3430-3431, 3505-3506) say the range
   holds every pixel and the exact filter comes later.

Differences between code and comments that no run is about:

* Blocks at the pole belong to nobody: `read.rs` 2465-2467 says every tile belongs
  to exactly one bbox of any partition, but the test at 3409 is half-open at
  latitude 90 as well, so a block whose origin pixel is centred on the north
  pole is read by no chunk.  `GlobeOwnsBlocks` proves that these are the only
  ones, and `BlocksOwnedOnce` leaves them out.
* Fewer tasks than `io_concurrency`: `read.rs` 2781 says the cap on the strip
  length leaves at least that many; the quotient is rounded up, so nine blocks
  in a row at 8 make five tasks.
* The comment on padding a footprint (`read.rs` 4407-4410) has it cover what the
  samples along the outline miss, but a raster over 360 degrees that reaches no
  pole keeps an uncovered gap at its seam.
* `poly_mask.rs` 213 and `side` treat a point on an edge differently, so a grid
  cell whose centre is on an edge may flip the points in it; the documentation
  (319-321) has one rule.
* The vertices of a cell are said to be counter-clockwise (`locator.rs` 70), but
  `contains` (116) takes the other side of each edge as the inside: what is
  meant is clockwise with ordinates upward, which is how `MCReadOutput` gives
  them.
* The comment on `Aggregate` (near `read.rs` 2936) promises rows in partition
  order, then first seen; the code sorts cells in ascending order.

## Proofs

`tlapm PipelineProofs.tla`, and so on.  All theorems are about the modules' own
specifications or operators, for every value of the constants that meets the named
assumptions, which TLC evaluates in the runs.

* **`Folding`** has what the other modules cite about the folds of the community
  modules: the fold of a sequence's first values is built value by value
  (`FoldOfPrefix`), and sums over finite sets can be taken in any order
  (`SumAny`), split in two or into parts (`SumByParts`), added, renamed, and
  follow a change of one value.  A module
  instantiates it with its own operator.  Induction rules take a predicate as a
  parameter, which the provers cannot instantiate, so each of these facts is
  proved from a least counterexample instead: among the prefixes, or the finite
  sets, for which it fails, one is the smallest.
* **`PipelineProofs`** (from `PipelineAssumption`: units are non-empty runs
  that partition the blocks, both settings are at least one).  The inductive
  invariant `IInv` is `Typed`, `Conservation` and `InStep` with the properties
  on answers.  `Conservation` alone is not inductive: that a received block was
  not folded before needs to know that hands, queue and folded blocks are
  disjoint *and* that every sent block is one of them; that nothing is sent twice
  needs `sent[u] < Size(u)` while sending, which is in `TasksInStep`.
  `OkIsComplete` needs `WorkersInStep`: a worker that exited well has seen the
  channel closed and empty, and `MainInStep`: draining starts when all
  units are done.  `WorkerErrorsWin` needs `JoinedInStep`: the handles already
  passed over have ended without failure.  `UnreachableAnswers` needs that a
  channel is found closed only after a worker failed, and that the last join
  leaves the store with one owner.  One lemma per action and conjunct
  group; then `TypeCorrect`, `BlocksConserved`, `OkReadsAreComplete`,
  `ErrorsReported`, `NeverAnswered` follow, `TypeCorrect` with the bound on the
  futures, which only a new one could exceed, and `DrainsFirst`, since draining
  ends with the last handle and no worker comes back to life; and `ImplementsContract`: each step
  is a step of `ReadContract` or leaves its variables alone.
  Every sampling step is a step of the read or leaves it alone
  (`SamplesAsARead`), so the read's `IInv` holds of samplings without a second
  proof, and with it its safety (`SamplingIsSafe`).  `RecordsOnce` is then inductive
  together with `Conservation`: a block in a hand is in no list yet.
  `SamplesWhole` (from `SamplingAssumption`: rasters and blocks have pixels,
  weights and values are integers, the kernel is one of the four) says that a
  good answer's rows are those of the whole raster.  The blocks partition each
  stencil, so a sum over it is the sum of its blocks' sums (`SumByParts`), for
  each band by itself.  A stencil inside one block is settled when the block is
  folded and leaves no sums to merge; any other is settled at the merge, from the
  same sums and with the same fallbacks, bilinear and then nearest.  That every
  block is in the merged lists, once, is `Conservation` and `RecordsOnce`.
* **`CoalesceProofs`** (from `CoalesceAssumption`: gap and cap are naturals).
  `MergePlaces`: for every list of ranges, empty ones, repeated ones and
  overlapping ones included, each range lies in the request it is placed in, at
  the offset given, and every request is tight.  `RankedInOrder` lists a finite
  set in order; the loop's invariant `Good` says of the ranges seen so far that
  they are placed, and that no later one starts before the last request does.
* **`CachedReaderProofs`** (from `ReaderAssumption` and the one on coalescing).
  `TypeCorrect`, `NoPermitLost`, `CacheStaysTrue` and `AnswersExact` come from
  one invariant.  `CacheTruthful` is inductive only with `TrueCache`: the recency
  index names cached entries, or an eviction could bring back a range without
  bytes.  `AnswersAreExact` says nothing of a call under way; `CutsRight` does:
  while a call fetches, each range it asked for is answered exactly or is among
  those it misses, and each of these starts in its request where `place` says,
  which `MergePlaces` gives at the start of the call and nobody changes later.
  `PermitsConserved` is a count of requests in flight over all calls; a call that
  has returned has none.
* **`RangeCacheProofs`** (from `LensAssumption` and `BudgetsAssumption`: lengths
  and budgets are naturals).  `IndexesMatch` adds to
  `OrderMatchesMap` that the domains are sets of keys and of naturals, so a
  new tick is fresh; `Evict` keeps it because the survivors are removed from
  both maps together.  `BudgetKept` adds that the bytes counted are the sum of
  the lengths, by tick and by key alike since the indexes are inverse; the sum of
  the survivors is within the budget because they are the latest entries that
  fit.  `AcceptedIsKept`: the new entry alone fits, and nothing is later, and what
  does not fit leaves the cache as it is.
  `IsAnLru`, the refinement of `LruCache`, maps the cache to its entries by
  ascending tick.  There is one ascending list of a set of numbers
  (`AscendUnique`), so it is enough to show one: a hit takes its tick out and
  appends the new one (`RecencyTouched`), an eviction drops a beginning of the
  list, and that is the shortest that must go since the bytes of an end of the
  list are the count less what is older (`RecencyEvicted`).
* **`PlanningProofs`** (from `PlanningAssumption`: sizes and offsets are
  naturals, `io_concurrency` is at least one, as the code makes it; a positive
  strip cap).  `PlanIsKept`, `RunsAreLongest`: the loop of `plan_strips` keeps
  that the strips so far, joined, are the blocks so far, and that each but the
  last ends where it must.  `EveryRangeIsPlaced` and `EveryRequestIsTight` are
  `MergePlaces`.  Then, from `GlobeAssumption` (half a turn and a quarter are
  positive), facts about the operators of `Regions` for any boxes and points at
  whole coordinates:
  `ClassifyIsExact`, `RangeHoldsItsPoints`, and that cutting a bbox shares out its
  blocks, `CutsShareBlocks`, down from a globe that owns all but those at the
  pole, `GlobeOwnsBlocks`; for the four quarters of a globe and the blocks of any
  raster, `QuartersShareNoBlock`.  All rest on `WrapMoves`: moving a longitude
  moves its copy on the globe as long as that stays there.

  Last, from `SelectionAssumption` (every request is one of `Calls`: it names at
  least one file, a file has an image, images have pixels), the decisions of a
  read.  `LevelsInCommon`: the levels chosen for pooled sources are all the full
  image, or overviews whose decimations agree within the tolerance.  `PooledBands`, `SeparateBands`:
  each column of a plan is filled from the sources it should be, by bands of its
  name, which is the one asked for where bands are selected by name.  These are about operators on any list of sources; the inductive
  invariant `Decided` carries them through a call: bands and levels, once chosen,
  are what the operators gave, and (`PlannedInOrder`) the sources passed are
  planned at most once, with the bands selected for them, and all of those that
  have any when there is no region to leave a source out.  `LevelsAgree`,
  `ColumnsAreFilled` and `PointsDecidedExactly` follow.
* **`PartitionedStoreProofs`** (from `StoreAssumption`: a source's bands go to
  distinct columns, a source without a column map fills all of them, and
  threads are finitely many).
  `MeansStayExact`: shape invariants of every store, and for each operator a
  lemma that it keeps "weight equals sum" for the cell it changes and for the
  others.  The two ways of merging weights meet in the lemma on
  `MergeWeights`: with a map the cell is split on the receiving side, else the
  shared weights add up only if neither side is split.  `LockHoldersCanMove`:
  the holder of a lock is absorbing, has a cell of that partition left, and
  holds no other lock.  `TypeCorrect`: pushing and merging add the cell they
  are about and no other, so a partition has its own cells only.
  `WeightNeitherLostNorDoubled`: for each cell and column, what pixels gave is
  what the partition has plus the sum over threads of what each stripe still
  owes (`Balance`).  A push raises one thread's debt as much as `given`, a merge
  moves it to the partition; that a cell is not merged twice needs `merged`, and
  that a new stripe starts without debt needs `Phases`: a thread that is done
  has merged all its cells.  Class weights are beside it (`Classed`): those of a
  column add up to its sum, the overflow class included.
* **`HeaderCacheProofs`** (from `HeaderAssumption`: a positive
  chunk size, natural bounds).
  `AnswersExact` needs more than what it states: that a call past the lock is
  its only holder (`LockHeld`), where in its range it is (`InRange`, `AtFirst`),
  and that every chunk before that place is cached as far as the range needs or
  the file goes (`Visited`).  Other calls keep `Visited` because chunks do not
  shrink; that they do not, `ChunksGrow`, rests on `Lacking`: the holder asks
  only for a chunk of which it has too little, and no other call can have
  stored more meanwhile.  `TypeCorrect` adds that only chunks
  which ranges touch are kept.  `OneRequestPerChunk`: a fault pays for each
  request for a chunk but one, and that one has left the chunk or is on its way
  (`Paid`); the lock lets no second call ask meanwhile.

**Only model-checked.**  Liveness (`ReturnsUnlessFetchFails`, `WorkersExit`,
`CallsReturn`) and the fairness part of `ImplementsRead`, which the proof system
cannot express, and the violations.  Of the invariants:

* `RegionPixelsAreRead`: the outlines are sampled, and what lies between two
  samples is an estimate that depends on the raster.
* `BlocksOwnedOnce`: that no block has two owners is `QuartersShareNoBlock`; that
  the owner's range of tiles contains the block is that estimate again.
* `ValuesAreExact`, `FractionsAreShares`, `MaskIsEvenOdd`, `FileHoldsTheRead`:
  rows against pixels, through stores that are folds over a block's pixels, on
  recursively defined fractions and grids.  What such a fold computes for every
  block needs induction over data, even that it leaves finitely many cells, which
  the last one rests on.

## Abstractions

* In `ReadPipeline` a block is a token; what it holds is in `TileIndexing`.
  Profiling counters, hit and request counters, and log output are left out.
* In `CellStore` a floating-point sum is the weight it holds; in `Accumulators`
  numbers are exact fractions.  That the order of additions can change the last
  bit (`read.rs` 1068) is outside the model.
* Kernel weights of `Sampling` are integers with the signs and sums of the
  kernel's, at centres on half pixels.
* Sources of `Selection` are in longitudes and latitudes, in whole units, so
  projecting is the identity; coordinate systems are compared by pixel size.
* Names of bands are sequences of parts: that a label with an underscore may
  spell the same name as a label and a band together (`sources.rs` 203) is left
  out.
* `Locator` and `TileIndexing` take what the projector says of a point as given,
  and boxes of `TileIndexing` end before the edge of the globe.
* `PolyMask` works in the plane of a group's projection, at whole coordinates.
* Offsets are far from the width of `u64`, so `saturating_add` is addition.
  The cache's tick is a 64-bit counter of calls and does not wrap.
* A panic is a worker's end.  A panic *under a lock*, which would poison a
  partition, is left out: nothing inside a merge panics.
* `MergeFails` keeps the sums merged but none of the classes before the one
  refused: a failed read never looks at a store.
* A remote file does not change during a session: the code would not notice.

## Not modelled

* *Block assembly* (`band_fetch.rs`, `decoders.rs`): tile indices of a planar
  file, without state; fetching and decoding are libraries' work.
* *Runtime ownership* (`runtime.rs` 23-39): one value rebuilt when the process id
  differs; what a fork leaves of a thread pool is the operating system's.
* *Session settings* (`R/concurrency.R`, `R/utils.R`): two options and checks of
  arguments.  The pipeline assumes that both settings are at least one.
* *Aggregation of cells* (`R/aggregate.R`), *decode tables* (`R/dequant.R`): a
  grouped mean and tables of numbers, in vectorised R.
* *Object stores* (`store.rs`): configuration of a library.
* *R surface* (`R/read.R`, `R/info.R`, `a5r_api.rs`, `error.rs`, `lib.rs`):
  arguments, formatting and bindings.
* Within the parts that are "partly" modelled: opening sources and parsing
  headers, the error bounds of the bilinear projector and the gnomonic
  projection of polygons (floating-point estimates), the encoding of columns,
  the cgroup default of the cache budget, and what R does with an area of
  interest before it hands over cells or rings.

What would add most next: projected sources in `Selection`, with a projection
that bends outlines; the composition of `HeaderCache` with `CachedReader`; and
a proof that a finished file holds all the rows.

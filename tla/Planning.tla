------------------------------ MODULE Planning ------------------------------
(***************************************************************************)
(* The two groupings of a fetch, on every short input: the blocks of a     *)
(* plan grow row-major into PlanStrips, and the byte ranges of a call grow *)
(* into Merge.  A step appends one block or one range.                     *)
(***************************************************************************)
EXTENDS FetchPlan, Coalesce

CONSTANTS
  Cols, Rows,     \* size of the tile grid
  Offsets,        \* offsets at which ranges start and end
  MaxRanges,      \* bound on the ranges of one call
  IoConcurrencies \* io_concurrency settings

\* io_concurrency is at least 1 (read.rs:2785).
ASSUME PlanningAssumption ==
  /\ {Cols, Rows} \subseteq Nat
  /\ Offsets \subseteq Nat
  /\ IoConcurrencies \subseteq Nat \ {0}

VARIABLES
  tiles,   \* the blocks planned so far
  ranges   \* the ranges asked for so far

inputs == <<tiles, ranges>>

NoInput == tiles = <<>> /\ ranges = <<>>

\* plan_source enumerates the blocks row by row and skips some of them.
Before(a, b) == a.ty < b.ty \/ (a.ty = b.ty /\ a.tx < b.tx)

PlanTile(t) ==
  /\ ranges = <<>>
  /\ \A i \in DOMAIN tiles : Before(tiles[i], t)
  /\ tiles' = Append(tiles, t)
  /\ UNCHANGED ranges

\* Ranges come in any order, overlap, and are empty for sparse blocks.
AskRange(r) ==
  /\ tiles = <<>>
  /\ Len(ranges) < MaxRanges
  /\ ranges' = Append(ranges, r)
  /\ UNCHANGED tiles

MoreInput ==
  \/ \E x \in 0..(Cols - 1), y \in 0..(Rows - 1) : PlanTile(TileAt(x, y))
  \/ \E lo, hi \in Offsets : lo <= hi /\ AskRange(ByteRange(lo, hi))

Inputs == NoInput /\ [][MoreInput]_inputs

-----------------------------------------------------------------------------
(* plan_strips *)

\* Unit lists for every setting: no block is dropped, doubled or moved.
StripsKeepThePlan ==
  \A n \in IoConcurrencies : FlattenSeq(PlanStrips(tiles, StripLength(Len(tiles), n))) = tiles

\* Each run is a contiguous piece of one tile row, which fetch_blocks_bytes
\* turns into one request per band, and ends only where it must: at the cap, or
\* before a block that does not follow its last one (plan_strips, read.rs:2078).
StripsAreLongestRuns ==
  \A n \in IoConcurrencies :
    LET maxLen == StripLength(Len(tiles), n)
        strips == PlanStrips(tiles, maxLen)
    IN /\ \A u \in DOMAIN strips :
            /\ Len(strips[u]) \in 1..maxLen
            /\ \A i \in DOMAIN strips[u] : strips[u][i] = TileAt(strips[u][1].tx + i - 1, strips[u][1].ty)
       /\ \A u \in 1..(Len(strips) - 1) :
            \/ Len(strips[u]) = maxLen
            \/ strips[u + 1][1] # TileAt(strips[u][1].tx + Len(strips[u]), strips[u][1].ty)

-----------------------------------------------------------------------------
(* coalesce *)

Merged == Merge(ranges)

\* Every range lies inside the request it is placed in, at its offset.
RangesArePlaced ==
  \A i \in DOMAIN ranges :
    LET p == Merged.place[i]
    IN /\ p.req \in DOMAIN Merged.reqs
       /\ p.off >= 0 /\ Merged.reqs[p.req].start + p.off = ranges[i].start
       /\ ranges[i].end <= Merged.reqs[p.req].end

\* A request over the cap is one range on its own, and bytes nobody asked for
\* are read only to bridge a gap of at most CoalesceGap (coalesce, range_cache.rs:214).
RequestsAreTight ==
  \A k \in DOMAIN Merged.reqs :
    LET q == Merged.reqs[k]
    IN /\ q.end - q.start > MaxMerged => \E i \in DOMAIN ranges : ranges[i] = q
       /\ \A lo, hi \in q.start..q.end :
            hi - lo > CoalesceGap => \E i \in DOMAIN ranges : ranges[i].start < hi /\ ranges[i].end > lo
=============================================================================

------------------------------ MODULE Coalesce ------------------------------
(***************************************************************************)
(* How the byte ranges one call asks for become remote requests: coalesce  *)
(* sorts them by offset and merges neighbours.  A range is [start, end),   *)
(* offsets are far from the width of u64, so `saturating_add` is +.        *)
(***************************************************************************)
EXTENDS Integers, Sequences, SequencesExt, Ranking

CONSTANTS
  CoalesceGap,  \* COALESCE_GAP: the widest hole a merged request may read over
  MaxMerged     \* MAX_MERGED: the longest merged request

ASSUME CoalesceAssumption == CoalesceGap \in Nat /\ MaxMerged \in Nat

ByteRange(lo, hi) == [start |-> lo, end |-> hi]
ByteRanges == {r \in [start : Nat, end : Nat] : r.start <= r.end}

Later(m, n) == IF m > n THEN m ELSE n

\* A slip: any hole may be read over.
JoinsOverAnyGap(req, r) == Later(r.end, req.end) - req.start <= MaxMerged

\* Whether range r may join the request: it starts near enough to its end and
\* the union is not too long.
Joins(req, r) ==
  /\ r.start <= req.end + CoalesceGap
  /\ Later(r.end, req.end) - req.start <= MaxMerged

\* A slip: a range inside the request shortens it to its own end.
PlaceRangeShrinking(acc, x) ==
  LET r == x.range
      joins == acc.reqs # <<>> /\ Joins(Last(acc.reqs), r)
      reqs == IF joins
              THEN ReplaceAt(acc.reqs, Len(acc.reqs), ByteRange(Last(acc.reqs).start, r.end))
              ELSE Append(acc.reqs, r)
  IN [reqs |-> reqs,
      place |-> [acc.place EXCEPT ![x.pos] = [req |-> Len(reqs), off |-> r.start - Last(reqs).start]]]

\* The loop body, for the range at position x.pos: extend the last request or
\* open one, and note in which request, and how far into it, the range lies.
PlaceRange(acc, x) ==
  LET r == x.range
      last == Last(acc.reqs)
      reqs == IF acc.reqs # <<>> /\ Joins(last, r)
              THEN ReplaceAt(acc.reqs, Len(acc.reqs),
                             ByteRange(last.start, Later(last.end, r.end)))
              ELSE Append(acc.reqs, r)
  IN [reqs |-> reqs,
      place |-> [acc.place EXCEPT ![x.pos] = [req |-> Len(reqs), off |-> r.start - Last(reqs).start]]]

\* Whether the sort puts position i before j: by start, and as they are if that
\* is the same, sort_by_key being stable.
StartsBefore(ranges, i, j) ==
  ranges[i].start < ranges[j].start \/ (ranges[i].start = ranges[j].start /\ i < j)

\* Positions by start offset.
ByStart(ranges) ==
  LET pos == DOMAIN ranges
  IN Ranked(pos, {p \in pos \X pos : StartsBefore(ranges, p[1], p[2])})

InOrder(ranges) ==
  LET order == ByStart(ranges)
  IN [n \in DOMAIN order |-> [pos |-> order[n], range |-> ranges[order[n]]]]

Unplaced(ranges) == [reqs |-> <<>>, place |-> [i \in DOMAIN ranges |-> [req |-> 0, off |-> 0]]]

\* The requests in offset order and, per input range, its request and offset.
Merge(ranges) == FoldLeft(PlaceRange, Unplaced(ranges), InOrder(ranges))
=============================================================================

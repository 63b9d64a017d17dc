------------------------------ MODULE BandPlan ------------------------------
(***************************************************************************)
(* The band selection resolved over all sources (plan_bands).  A source    *)
(* has a label and its bands' names; an output name is the sequence of its *)
(* parts.  The selection is by index into the bands offered or by name,    *)
(* and of all of them when both are empty.                                 *)
(***************************************************************************)
EXTENDS Integers, Sequences, SequencesExt, Ranking

Places(names, name) == {k \in DOMAIN names : names[k] = name}

\* What is asked for is there.
Offered(names, sel) ==
  IF sel.idx # <<>> THEN Range(sel.idx) \subseteq DOMAIN names
  ELSE \A k \in DOMAIN sel.names : Places(names, sel.names[k]) # {}

\* A name stands for the first band that has it.
Resolved(names, sel) ==
  IF sel.idx # <<>> THEN sel.idx
  ELSE IF sel.names # <<>> THEN [k \in DOMAIN sel.names |-> Min(Places(names, sel.names[k]))]
  ELSE [k \in DOMAIN names |-> k]

\* The bands of every source in one list, each a source and a local band.
Combined(sources) ==
  FlattenSeq([s \in DOMAIN sources |-> [b \in DOMAIN sources[s].bands |-> <<s, b>>]])

\* A single band goes by its source's label.
CombinedName(sources, sb) ==
  LET src == sources[sb[1]]
  IN IF Len(src.bands) = 1 THEN <<src.label>> ELSE <<src.label, src.bands[sb[2]]>>

Failure(why) == [ok |-> FALSE, why |-> why, selected |-> <<>>, slots |-> <<>>, names |-> <<>>]

\* Pieces of one raster: each reads the same bands into the same columns.
PooledPlan(sources, sel) ==
  LET names == [k \in DOMAIN sources[1].bands |-> <<sources[1].bands[k]>>]
      use   == Resolved(names, sel)
  IN IF \E s \in DOMAIN sources : sources[s].bands # sources[1].bands THEN Failure("bands differ")
     ELSE IF ~Offered(names, sel) THEN Failure("no such band")
     ELSE [ok |-> TRUE, why |-> "",
           selected |-> [s \in DOMAIN sources |-> use],
           slots    |-> [s \in DOMAIN sources |-> [k \in DOMAIN use |-> k]],
           names    |-> [k \in DOMAIN use |-> names[use[k]]]]

\* A slip: a band's column is its place among its source's bands.
SlotsLocal(out, use, all, s) == [k \in DOMAIN out |-> k]

SlotsOf(out, use, all, s) == out

\* Bands side by side: a source's columns are where its bands were selected.
SeparatePlan(sources, sel) ==
  LET all   == Combined(sources)
      names == [k \in DOMAIN all |-> CombinedName(sources, all[k])]
      use   == Resolved(names, sel)
      Out(s) == Ascending({k \in DOMAIN use : all[use[k]][1] = s})
  IN IF ~IsInjective(names) THEN Failure("name repeated")
     ELSE IF ~Offered(names, sel) THEN Failure("no such band")
     ELSE [ok |-> TRUE, why |-> "",
           selected |-> [s \in DOMAIN sources |-> [k \in DOMAIN Out(s) |-> all[use[Out(s)[k]]][2]]],
           slots    |-> [s \in DOMAIN sources |-> SlotsOf(Out(s), use, all, s)],
           names    |-> [k \in DOMAIN use |-> names[use[k]]]]

PlanBands(sources, separate, sel) ==
  IF separate THEN SeparatePlan(sources, sel) ELSE PooledPlan(sources, sel)
=============================================================================

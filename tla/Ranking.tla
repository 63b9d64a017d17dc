------------------------------- MODULE Ranking -------------------------------
(***************************************************************************)
(* A finite set listed in an order that puts its elements in a line: what  *)
(* a loop over them in that order meets, one after the other.              *)
(***************************************************************************)
EXTENDS Integers, FiniteSets

\* The elements of S, by the number of others that `before` puts first.
Ranked(S, before) ==
  [n \in 1..Cardinality(S) |->
     CHOOSE x \in S : Cardinality({y \in S : <<y, x>> \in before}) = n - 1]

\* Numbers from the least on.
Ascending(S) == Ranked(S, {p \in S \X S : p[1] < p[2]})
=============================================================================

----------------------------- MODULE Compositing -----------------------------
(***************************************************************************)
(* Reducers of per-source values (composite.rs): each takes a sequence of  *)
(* values with their weights, all finite and of positive weight.           *)
(***************************************************************************)
EXTENDS Rationals, Sequences, SequencesExt, Functions

Reducers == {"mean", "median", "min", "max", "sum", "count", "var", "majority"}

ValuesOf(vals) == {vals[k][1] : k \in DOMAIN vals}
WeightUpTo(vals, k) == Total(LAMBDA j : vals[j][2], 1..k)
WeightSum(vals) == WeightUpTo(vals, Len(vals))
Weighted(vals) == Total(LAMBDA j : Times(vals[j][2], vals[j][1]), DOMAIN vals)

ByValue(vals) == SortSeq(vals, LAMBDA a, b : Less(a[1], b[1]))

Half == <<1, 2>>

\* A slip: the middle value is taken whatever the weights are.
MedianOfMiddle(vals) == ByValue(vals)[(Len(vals) + 1) \div 2][1]

\* Where the weight first reaches half; the mean with the next when exactly.
WeightedMedian(vals) ==
  LET s    == ByValue(vals)
      half == Times(Half, WeightSum(s))
      k    == Min({j \in DOMAIN s : AtMost(half, WeightUpTo(s, j))})
  IN IF WeightUpTo(s, k) = half /\ k < Len(s) THEN Times(Half, Plus(s[k][1], s[k + 1][1])) ELSE s[k][1]

\* Reliability weights: n - 1 with equal ones.
WeightedVar(vals) ==
  LET sw  == WeightSum(vals)
      sw2 == Total(LAMBDA j : Times(vals[j][2], vals[j][2]), DOMAIN vals)
      m   == Over(Weighted(vals), sw)
      ss  == Total(LAMBDA j : Times(vals[j][2], Times(Minus(vals[j][1], m), Minus(vals[j][1], m))), DOMAIN vals)
      den == Minus(sw, Over(sw2, sw))
  IN IF Len(vals) < 2 THEN NaN ELSE IF Less(Zero, den) THEN Over(ss, den) ELSE NaN

WeightOfValue(vals, v) == Total(LAMBDA j : vals[j][2], {j \in DOMAIN vals : vals[j][1] = v})

\* Ties go to the smallest.
MajorityOf(vals) ==
  LET most == Greatest({WeightOfValue(vals, v) : v \in ValuesOf(vals)})
  IN Least({v \in ValuesOf(vals) : WeightOfValue(vals, v) = most})

Reduce(red, vals) ==
  IF vals = <<>> THEN (IF red \in {"count", "sum"} THEN Zero ELSE NaN)
  ELSE CASE red = "count"    -> Whole(Len(vals))
         [] red = "sum"      -> Total(LAMBDA j : vals[j][1], DOMAIN vals)
         [] red = "min"      -> Least(ValuesOf(vals))
         [] red = "max"      -> Greatest(ValuesOf(vals))
         [] red = "mean"     -> Over(Weighted(vals), WeightSum(vals))
         [] red = "median"   -> WeightedMedian(vals)
         [] red = "var"      -> WeightedVar(vals)
         [] red = "majority" -> MajorityOf(vals)
=============================================================================

---------------------------- MODULE Accumulators ----------------------------
(***************************************************************************)
(* The running accumulators of one band of one cell (AccLayout and its     *)
(* layouts in read.rs, and the class weights of majority and fractions).   *)
(*                                                                         *)
(* An accumulator has the fields of the widest layout; a narrower one      *)
(* leaves the rest as they start.  AccMean, whose weight is in the store,  *)
(* has it here: CellStore is about where it is kept.                       *)
(***************************************************************************)
EXTENDS Rationals, Sequences, Functions

Stats == {"mean", "sum", "count", "min", "max", "var", "majority"}

\* Sd is the root of var and is left to it.
LayoutFor(stats) ==
  IF "var" \in stats THEN "full" ELSE IF stats \cap {"min", "max"} # {} THEN "range" ELSE "sum"

\* No extreme yet.
None == <<>>

Fresh == [sum |-> Zero, w |-> Zero, min |-> None, max |-> None, mean |-> Zero, m2 |-> Zero]

LowerOf(a, b)  == IF a = None THEN b ELSE IF b = None THEN a ELSE Least({a, b})
HigherOf(a, b) == IF a = None THEN b ELSE IF b = None THEN a ELSE Greatest({a, b})

\* One value of positive weight; West's update of mean and squares.
Push(layout, acc, v, w) ==
  IF AtMost(w, Zero) THEN acc
  ELSE LET total == Plus(acc.w, w)
           delta == Minus(v, acc.mean)
           mean  == Plus(acc.mean, Times(Over(w, total), delta))
           full  == layout = "full"
           range == layout \in {"range", "full"}
       IN [sum  |-> Plus(acc.sum, Times(w, v)),
           w    |-> total,
           min  |-> IF range THEN LowerOf(acc.min, v) ELSE None,
           max  |-> IF range THEN HigherOf(acc.max, v) ELSE None,
           mean |-> IF full THEN mean ELSE Zero,
           m2   |-> IF full THEN Plus(acc.m2, Times(Times(w, delta), Minus(v, mean))) ELSE Zero]

\* A slip: the squares are added up as if both had one mean.
MergeSquares(layout, a, b) ==
  [sum  |-> Plus(a.sum, b.sum), w |-> Plus(a.w, b.w),
   min  |-> LowerOf(a.min, b.min), max |-> HigherOf(a.max, b.max),
   mean |-> IF Plus(a.w, b.w) = Zero \/ layout # "full" THEN Zero ELSE Over(Plus(a.sum, b.sum), Plus(a.w, b.w)),
   m2   |-> Plus(a.m2, b.m2)]

Merge(layout, a, b) ==
  IF layout = "full" /\ b.w = Zero THEN a
  ELSE IF layout = "full" /\ a.w = Zero THEN b
  ELSE LET total == Plus(a.w, b.w)
           delta == Minus(b.mean, a.mean)
           full  == layout = "full"
       IN [sum  |-> Plus(a.sum, b.sum),
           w    |-> total,
           min  |-> LowerOf(a.min, b.min),
           max  |-> HigherOf(a.max, b.max),
           mean |-> IF full THEN Plus(a.mean, Times(delta, Over(b.w, total))) ELSE Zero,
           m2   |-> IF full THEN Plus(Plus(a.m2, b.m2), Times(Times(delta, delta), Over(Times(a.w, b.w), total)))
                    ELSE Zero]

\* finalise: what a layout does not carry is NaN, and so is a mean or an
\* extreme of nothing and the variance of a weight of 1 or less.
Finalise(layout, acc, stat) ==
  CASE stat = "mean"  -> Over(acc.sum, acc.w)
    [] stat = "sum"   -> acc.sum
    [] stat = "count" -> acc.w
    [] stat = "min"   -> IF acc.min = None THEN NaN ELSE acc.min
    [] stat = "max"   -> IF acc.max = None THEN NaN ELSE acc.max
    [] stat = "var"   -> IF layout # "full" \/ AtMost(acc.w, One) THEN NaN
                         ELSE Over(acc.m2, Minus(acc.w, One))

-----------------------------------------------------------------------------
(* Class weights. *)

ClassWeightOf(m, k) == IF k \in DOMAIN m THEN m[k] ELSE Zero
CatPush(m, k, w) ==
  IF AtMost(w, Zero) THEN m
  ELSE [c \in DOMAIN m \cup {k} |-> IF c = k THEN Plus(ClassWeightOf(m, k), w) ELSE m[c]]

\* A slip: a class both have keeps the newer weight.
CatMergeNewest(m, o) == [c \in DOMAIN m \cup DOMAIN o |-> IF c \in DOMAIN o THEN o[c] ELSE m[c]]

CatMerge(m, o) == [c \in DOMAIN m \cup DOMAIN o |-> Plus(ClassWeightOf(m, c), ClassWeightOf(o, c))]

\* The most-weighted class and its weight; ties go to the smallest.
MajorityAndWeight(m) ==
  IF DOMAIN m = {} THEN <<NaN, Zero>>
  ELSE LET most == Greatest(Range(m))
           best == Least({k \in DOMAIN m : m[k] = most})
       IN <<best, most>>
=============================================================================

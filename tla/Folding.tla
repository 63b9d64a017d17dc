------------------------------ MODULE Folding ------------------------------
(***************************************************************************)
(* What the folds of the community modules compute, for one operator at a  *)
(* time: a module that proves something about a fold instantiates this one *)
(* with the fold's operator and its choice of the next element.            *)
(*                                                                         *)
(* A fold is defined by a recursive function on sets.  That the function   *)
(* exists, and so obeys its definition, is proved here by taking a least   *)
(* counterexample, as the provers cannot use an induction rule.            *)
(***************************************************************************)
EXTENDS Integers, FiniteSets, Folds, WellFoundedInduction, FiniteSetTheorems, TLAPS

CONSTANTS
  Op(_,_),    \* combines an element's value with the fold of the others
  Choose(_),  \* the element a non-empty set gives up first
  Numbers     \* what is summed: Nat or Int

\* The fold of the values of f at the elements of S.
Fold(base, f, S) == MapThenFoldSet(Op, base, LAMBDA i : f[i], Choose, S)

\* An element is chosen out of every non-empty part of S.
Chooses(S) == \A T \in SUBSET S : T # {} => Choose(T) \in T

-----------------------------------------------------------------------------
(* Least elements. *)

\* A set of naturals has a least element.
THEOREM LeastNatural ==
  ASSUME NEW T \in SUBSET Nat, T # {}
  PROVE  \E m \in T : \A n \in T : m <= n
<1>1. IsWellFoundedOn(OpToRel(<, Nat), Nat)
  BY NatLessThanWellFounded
<1>2. PICK m \in T : \A n \in T : ~(<<n, m>> \in OpToRel(<, Nat))
  BY <1>1, WFMin
<1>3. \A n \in T : ~(n < m)
  BY <1>2 DEF OpToRel
<1> QED BY <1>3

\* Among finite sets there is one with fewest elements.
THEOREM SmallestSet ==
  ASSUME NEW F, F # {}, \A s \in F : IsFiniteSet(s)
  PROVE  \E s \in F : \A t \in F : Cardinality(s) <= Cardinality(t)
<1>1. {Cardinality(s) : s \in F} \in SUBSET Nat
  BY FS_CardinalityType
<1>2. PICK m \in {Cardinality(s) : s \in F} : \A n \in {Cardinality(s) : s \in F} : m <= n
  BY <1>1, LeastNatural
<1> QED BY <1>2

-----------------------------------------------------------------------------
(* The recursive function of a fold. *)

Step(base, f, g, s) == IF s = {} THEN base ELSE Op(f[Choose(s)], g[s \ {Choose(s)}])

Iterates(base, f, g, S) == g = [s \in SUBSET S |-> Step(base, f, g, s)]

\* It is unique.
LEMMA IterUnique ==
  ASSUME NEW base, NEW f, NEW S, IsFiniteSet(S), Chooses(S),
         NEW g, NEW h, Iterates(base, f, g, S), Iterates(base, f, h, S)
  PROVE  g = h
<1> DEFINE F == {s \in SUBSET S : g[s] # h[s]}
<1>1. SUFFICES ASSUME F # {} PROVE FALSE
  BY DEF Iterates
<1>2. \A s \in F : IsFiniteSet(s)
  BY FS_Subset
<1>3. PICK s \in F : \A t \in F : Cardinality(s) <= Cardinality(t)
  BY <1>1, <1>2, SmallestSet
<1>4. g[s] = Step(base, f, g, s) /\ h[s] = Step(base, f, h, s)
  BY DEF Iterates
<1>5. s # {}
  BY <1>4 DEF Step
<1>6. DEFINE x == Choose(s)
<1>7. x \in s
  BY <1>5 DEF Chooses
<1>8. /\ IsFiniteSet(s)
      /\ Cardinality(s \ {x}) = Cardinality(s) - 1
      /\ Cardinality(s) \in Nat
      /\ s \ {x} \in SUBSET S
  BY <1>2, <1>7, FS_RemoveElement, FS_CardinalityType
<1>9. s \ {x} \notin F
  BY <1>3, <1>8
<1> QED BY <1>4, <1>5, <1>8, <1>9 DEF Step

\* Its restriction to a part of the set is the one of that part.
LEMMA IterRestricts ==
  ASSUME NEW base, NEW f, NEW S, Chooses(S), NEW T \in SUBSET S,
         NEW g, Iterates(base, f, g, S)
  PROVE  Iterates(base, f, [s \in SUBSET T |-> g[s]], T)
<1> DEFINE h == [s \in SUBSET T |-> g[s]]
<1>1. ASSUME NEW s \in SUBSET T
      PROVE  g[s] = Step(base, f, h, s)
  <2>1. g[s] = Step(base, f, g, s)
    BY DEF Iterates
  <2>2. s \ {Choose(s)} \in SUBSET T
    OBVIOUS
  <2> QED BY <2>1, <2>2 DEF Step
<1> QED BY <1>1 DEF Iterates

\* It exists.
LEMMA IterExists ==
  ASSUME NEW base, NEW f, NEW S0, IsFiniteSet(S0), Chooses(S0)
  PROVE  \E g : Iterates(base, f, g, S0)
<1> DEFINE F == {S \in SUBSET S0 : ~\E g : Iterates(base, f, g, S)}
<1>1. SUFFICES ASSUME F # {} PROVE FALSE
  OBVIOUS
<1>2. \A S \in F : IsFiniteSet(S)
  BY FS_Subset
<1>3. PICK S \in F : \A T \in F : Cardinality(S) <= Cardinality(T)
  BY <1>1, <1>2, SmallestSet
<1>4. \A T \in SUBSET S : IsFiniteSet(T) /\ Chooses(T)
  BY <1>2, FS_Subset DEF Chooses
<1> DEFINE It(T) == CHOOSE g : Iterates(base, f, g, T)
<1>5. ASSUME NEW T \in SUBSET S, T # S
      PROVE  Iterates(base, f, It(T), T)
  <2>1. Cardinality(T) < Cardinality(S)
    BY <1>2, <1>5, FS_Subset, FS_CardinalityType
  <2>2. T \notin F
    BY <1>2, <1>3, <2>1, FS_CardinalityType, FS_Subset
  <2> QED BY <2>2
<1> DEFINE Less(s) == s \ {Choose(s)}
           g == [s \in SUBSET S |-> IF s = {} THEN base ELSE Op(f[Choose(s)], It(Less(s))[Less(s)])]
<1>6. ASSUME NEW s \in SUBSET S, s # {}
      PROVE  Less(s) \in SUBSET S /\ Less(s) # S /\ Choose(s) \in s
  BY <1>4, <1>6 DEF Chooses
<1>7. ASSUME NEW s \in SUBSET S, s # {}, s # S
      PROVE  It(s)[s] = g[s]
  <2>1. Iterates(base, f, It(s), s) /\ Iterates(base, f, It(Less(s)), Less(s))
    BY <1>5, <1>6, <1>7
  <2>2. It(s)[s] = Step(base, f, It(s), s)
    <3> HIDE DEF It
    <3> QED BY <2>1 DEF Iterates
  <2> DEFINE r == [t \in SUBSET Less(s) |-> It(s)[t]]
  <2>3. Iterates(base, f, r, Less(s))
    <3> HIDE DEF It
    <3> QED BY <1>4, <2>1, IterRestricts
  <2>4. r = It(Less(s))
    <3>1. IsFiniteSet(Less(s)) /\ Chooses(Less(s))
      BY <1>4, <1>6, <1>7
    <3> HIDE DEF It, r, Less
    <3> QED BY <2>1, <2>3, <3>1, IterUnique
  <2>5. It(s)[Less(s)] = It(Less(s))[Less(s)]
    <3> HIDE DEF It
    <3> QED BY <2>4
  <2> HIDE DEF It, r
  <2> QED BY <1>7, <2>2, <2>5 DEF Step
<1>8. ASSUME NEW s \in SUBSET S
      PROVE  g[s] = Step(base, f, g, s)
  <2>1. CASE s = {}
    BY <2>1 DEF Step
  <2>2. CASE s # {}
    <3>1. g[s] = Op(f[Choose(s)], It(Less(s))[Less(s)])
      <4> HIDE DEF It, Less
      <4> QED BY <2>2
    <3>2. It(Less(s))[Less(s)] = g[Less(s)]
      <4>1. CASE Less(s) = {}
        <5>1. Iterates(base, f, It(Less(s)), Less(s))
          BY <1>5, <1>6, <2>2
        <5>2. It(Less(s))[Less(s)] = base
          <6> HIDE DEF It, Less
          <6> QED BY <4>1, <5>1 DEF Iterates, Step
        <5>3. g[Less(s)] = base
          BY <4>1, <1>6, <2>2
        <5> QED BY <5>2, <5>3
      <4>2. CASE Less(s) # {}
        <5>1. Less(s) \in SUBSET S /\ Less(s) # S
          BY <1>6, <2>2
        <5> HIDE DEF It, Less, g
        <5> QED BY <1>7, <4>2, <5>1
      <4> QED BY <4>1, <4>2
    <3> HIDE DEF It, g
    <3> QED BY <2>2, <3>1, <3>2 DEF Step
  <2> QED BY <2>1, <2>2
<1>9. Iterates(base, f, g, S)
  <2>1. g = [s \in SUBSET S |-> g[s]]
    OBVIOUS
  <2> HIDE DEF g
  <2> QED BY <1>8, <2>1 DEF Iterates
<1> QED BY <1>9

\* So a fold obeys its definition.
THEOREM FoldDef ==
  ASSUME NEW base, NEW f, NEW S, IsFiniteSet(S), Chooses(S)
  PROVE  /\ Fold(base, f, {}) = base
         /\ S # {} => Fold(base, f, S) = Op(f[Choose(S)], Fold(base, f, S \ {Choose(S)}))
<1> DEFINE It(T) == CHOOSE g : Iterates(base, f, g, T)
<1>1. ASSUME NEW T
      PROVE  Fold(base, f, T) = It(T)[T]
  BY DEF Fold, MapThenFoldSet, Iterates, Step
<1>2. \A T \in SUBSET S : Iterates(base, f, It(T), T)
  <2> TAKE T \in SUBSET S
  <2>1. IsFiniteSet(T) /\ Chooses(T)
    BY FS_Subset DEF Chooses
  <2>2. \E g : Iterates(base, f, g, T)
    BY <2>1, IterExists
  <2> QED BY <2>2
<1> HIDE DEF It
<1>3. Fold(base, f, {}) = base
  <2>1. Iterates(base, f, It({}), {})
    BY <1>2
  <2>2. It({})[{}] = base
    BY <2>1 DEF Iterates, Step
  <2> QED BY <1>1, <2>2
<1>4. ASSUME S # {}
      PROVE  Fold(base, f, S) = Op(f[Choose(S)], Fold(base, f, S \ {Choose(S)}))
  <2> DEFINE T == S \ {Choose(S)}
  <2>1. Iterates(base, f, It(S), S) /\ Iterates(base, f, It(T), T)
    BY <1>2
  <2>2. It(S)[S] = Op(f[Choose(S)], It(S)[T])
    <3>1. It(S)[S] = Step(base, f, It(S), S)
      BY <2>1 DEF Iterates
    <3> QED BY <1>4, <3>1 DEF Step
  <2>3. Iterates(base, f, [t \in SUBSET T |-> It(S)[t]], T)
    BY <2>1, IterRestricts
  <2>4. IsFiniteSet(T) /\ Chooses(T)
    BY FS_Subset DEF Chooses
  <2>5. [t \in SUBSET T |-> It(S)[t]] = It(T)
    <3> HIDE DEF T
    <3> QED BY <2>1, <2>3, <2>4, IterUnique
  <2>6. It(S)[T] = It(T)[T]
    BY <2>5
  <2> QED BY <1>1, <2>2, <2>6
<1> QED BY <1>3, <1>4

-----------------------------------------------------------------------------
(* Folding a sequence: its last element is given up first. *)

\* Naturals may be counted up to.
THEOREM CountUp ==
  ASSUME NEW n \in Nat, NEW T, 0 \in T, \A i \in 0..(n - 1) : i \in T => i + 1 \in T
  PROVE  0..n \subseteq T
<1> DEFINE F == {i \in 0..n : i \notin T}
<1>1. SUFFICES ASSUME F # {} PROVE FALSE
  OBVIOUS
<1>2. PICK m \in F : \A i \in F : m <= i
  <2> F \in SUBSET Nat
    OBVIOUS
  <2> QED BY <1>1, LeastNatural
<1>3. m # 0 /\ m - 1 \in 0..(n - 1) /\ m - 1 \notin F
  BY <1>2
<1> QED BY <1>2, <1>3

\* A set of naturals with a bound has a greatest element.
THEOREM GreatestNatural ==
  ASSUME NEW n \in Nat, NEW T \in SUBSET (0..n), T # {}
  PROVE  \E m \in T : \A i \in T : i <= m
<1> DEFINE F == {n - i : i \in T}
<1>1. F \in SUBSET Nat /\ F # {}
  <2>1. ASSUME NEW i \in T PROVE n - i \in Nat
    <3> i \in 0..n
      OBVIOUS
    <3> QED OBVIOUS
  <2>2. \A k \in F : k \in Nat
    BY <2>1
  <2>3. F # {}
    OBVIOUS
  <2> QED BY <2>2, <2>3
<1>2. PICK k \in F : \A i \in F : k <= i
  BY <1>1, LeastNatural
<1>3. PICK m \in T : k = n - m
  OBVIOUS
<1>4. ASSUME NEW i \in T PROVE i <= m
  <2>1. n - m <= n - i
    BY <1>2, <1>3
  <2> QED BY <2>1
<1> QED BY <1>4

LastFirst == \A n \in Nat : n # 0 => Choose(1..n) = n

\* The fold of a sequence's first i values is the i-th value combined with
\* the fold of those before it.
THEOREM FoldOfPrefix ==
  ASSUME NEW base, NEW f, NEW n \in Nat, Chooses(1..n), LastFirst
  PROVE  /\ Fold(base, f, 1..0) = base
         /\ \A i \in 1..n : Fold(base, f, 1..i) = Op(f[i], Fold(base, f, 1..(i - 1)))
<1>1. ASSUME NEW i \in 0..n
      PROVE  IsFiniteSet(1..i) /\ Chooses(1..i)
  <2>1. IsFiniteSet(1..i)
    BY FS_Interval
  <2>2. SUBSET (1..i) \subseteq SUBSET (1..n)
    OBVIOUS
  <2> QED BY <2>1, <2>2 DEF Chooses
<1>2. 1..0 = {}
  OBVIOUS
<1>3. Fold(base, f, 1..0) = base
  BY <1>1, <1>2, FoldDef
<1>4. ASSUME NEW i \in 1..n
      PROVE  Fold(base, f, 1..i) = Op(f[i], Fold(base, f, 1..(i - 1)))
  <2>1. 1..i # {} /\ Choose(1..i) = i /\ (1..i) \ {i} = 1..(i - 1)
    BY DEF LastFirst
  <2>2. Fold(base, f, 1..i) = Op(f[Choose(1..i)], Fold(base, f, (1..i) \ {Choose(1..i)}))
    <3> DEFINE S == 1..i
    <3>1. IsFiniteSet(S) /\ Chooses(S) /\ S # {}
      BY <1>1, <2>1
    <3> HIDE DEF S
    <3>2. Fold(base, f, S) = Op(f[Choose(S)], Fold(base, f, S \ {Choose(S)}))
      BY <3>1, FoldDef
    <3> QED BY <3>2 DEF S
  <2> QED BY <2>1, <2>2
<1> QED BY <1>3, <1>4

-----------------------------------------------------------------------------
(* Sums: folds of numbers by addition. *)

Adds ==
  /\ Numbers \in {Nat, Int}
  /\ \A m, n \in Numbers : Op(m, n) = m + n
Summable(f, S) == IsFiniteSet(S) /\ Chooses(S) /\ \A s \in S : f[s] \in Numbers

\* Numbers are integers, and they can be added.
LEMMA AddingNumbers ==
  ASSUME Adds
  PROVE  /\ 0 \in Numbers
         /\ \A m \in Numbers : m \in Int
         /\ \A m, n \in Numbers : m + n \in Numbers
<1>1. CASE Numbers = Nat
  BY <1>1
<1>2. CASE Numbers = Int
  BY <1>2
<1> QED BY <1>1, <1>2 DEF Adds

\* Parts of what can be summed can be.
LEMMA SummablePart ==
  ASSUME NEW f, NEW S, Summable(f, S), NEW T \in SUBSET S
  PROVE  Summable(f, T)
<1>1. IsFiniteSet(T)
  BY FS_Subset DEF Summable
<1> QED BY <1>1 DEF Summable, Chooses

\* A sum is a number, and it is that of any element and of the others.
THEOREM SumAny ==
  ASSUME Adds, NEW f, NEW S0, Summable(f, S0)
  PROVE  /\ Fold(0, f, S0) \in Numbers
         /\ Fold(0, f, {}) = 0
         /\ \A x \in S0 : Fold(0, f, S0) = f[x] + Fold(0, f, S0 \ {x})
<1> DEFINE Holds(S) == /\ Fold(0, f, S) \in Numbers
                       /\ \A x \in S : Fold(0, f, S) = f[x] + Fold(0, f, S \ {x})
           F == {S \in SUBSET S0 : ~Holds(S)}
<1>1. Fold(0, f, {}) = 0
  BY FoldDef DEF Summable
<1>2. SUFFICES ASSUME F # {} PROVE FALSE
  BY <1>1
<1>3. \A S \in SUBSET S0 : Summable(f, S)
  BY SummablePart
<1>4. PICK S \in F : \A T \in F : Cardinality(S) <= Cardinality(T)
  <2> \A S \in F : IsFiniteSet(S)
    BY <1>3 DEF Summable
  <2> QED BY <1>2, SmallestSet
<1>5. S # {}
  <2>1. Holds({})
    BY <1>1, AddingNumbers
  <2>2. ~Holds(S)
    OBVIOUS
  <2> HIDE DEF Holds
  <2> QED BY <2>1, <2>2
<1> DEFINE y == Choose(S)
<1>6. y \in S /\ f[y] \in Numbers
  BY <1>3, <1>5 DEF Summable, Chooses
<1>7. ASSUME NEW T \in SUBSET S, T # S
      PROVE  Holds(T)
  <2>1. Cardinality(T) < Cardinality(S)
    BY <1>3, <1>7, FS_Subset, FS_CardinalityType DEF Summable
  <2>2. Cardinality(T) \in Nat /\ Cardinality(S) \in Nat
    BY <1>3, FS_CardinalityType DEF Summable
  <2> QED BY <1>4, <2>1, <2>2
<1>8. Holds(S \ {y})
  BY <1>6, <1>7
<1>9. Fold(0, f, S) = f[y] + Fold(0, f, S \ {y})
  <2>1. Fold(0, f, S) = Op(f[y], Fold(0, f, S \ {y}))
    BY <1>3, <1>5, FoldDef DEF Summable
  <2> QED BY <1>6, <1>8, <2>1 DEF Adds
<1>10. ASSUME NEW x \in S
       PROVE  Fold(0, f, S) = f[x] + Fold(0, f, S \ {x})
  <2>1. CASE x = y
    BY <1>9, <2>1
  <2>2. CASE x # y
    <3> DEFINE R == (S \ {y}) \ {x}
    <3>1. Fold(0, f, S \ {y}) = f[x] + Fold(0, f, R)
      BY <1>8, <2>2
    <3>2. Holds(S \ {x})
      BY <1>7
    <3>3. (S \ {x}) \ {y} = R /\ y \in S \ {x}
      BY <1>6, <2>2
    <3>4. Fold(0, f, S \ {x}) = f[y] + Fold(0, f, R)
      BY <3>2, <3>3
    <3>5. Holds(R)
      BY <1>6, <1>7
    <3>6. f[x] \in Numbers /\ Fold(0, f, R) \in Numbers
      BY <1>3, <3>5 DEF Summable
    <3> HIDE DEF R, y
    <3> QED BY <1>6, <1>9, <3>1, <3>4, <3>6, AddingNumbers
  <2> QED BY <2>1, <2>2
<1>11. Fold(0, f, S) \in Numbers
  BY <1>6, <1>8, <1>9, AddingNumbers
<1> QED BY <1>4, <1>10, <1>11

\* Functions that agree have the same sum.
THEOREM SumSame ==
  ASSUME Adds, NEW f, NEW g, NEW S0, Summable(f, S0), \A s \in S0 : f[s] = g[s]
  PROVE  Fold(0, f, S0) = Fold(0, g, S0)
<1> DEFINE F == {S \in SUBSET S0 : Fold(0, f, S) # Fold(0, g, S)}
<1>1. SUFFICES ASSUME F # {} PROVE FALSE
  OBVIOUS
<1>2. \A S \in SUBSET S0 : Summable(f, S) /\ Summable(g, S)
  <2>1. Summable(g, S0)
    BY DEF Summable
  <2> QED BY <2>1, SummablePart
<1>3. PICK S \in F : \A T \in F : Cardinality(S) <= Cardinality(T)
  <2> \A S \in F : IsFiniteSet(S)
    BY <1>2 DEF Summable
  <2> QED BY <1>1, SmallestSet
<1>4. S # {}
  BY <1>2, SumAny
<1>5. PICK x \in S : TRUE
  BY <1>4
<1>6. S \ {x} \notin F
  <2>1. Cardinality(S \ {x}) = Cardinality(S) - 1 /\ Cardinality(S) \in Nat
    BY <1>2, FS_RemoveElement, FS_CardinalityType DEF Summable
  <2> QED BY <1>3, <2>1
<1>7. /\ Fold(0, f, S) = f[x] + Fold(0, f, S \ {x})
      /\ Fold(0, g, S) = g[x] + Fold(0, g, S \ {x})
  BY <1>2, SumAny
<1> QED BY <1>6, <1>7

\* A sum is that of a part and of the rest.
THEOREM SumSplit ==
  ASSUME Adds, NEW f, NEW S0, Summable(f, S0), NEW T0 \in SUBSET S0
  PROVE  Fold(0, f, S0) = Fold(0, f, T0) + Fold(0, f, S0 \ T0)
<1> DEFINE F == {T \in SUBSET S0 : Fold(0, f, S0) # Fold(0, f, T) + Fold(0, f, S0 \ T)}
<1>1. SUFFICES ASSUME F # {} PROVE FALSE
  OBVIOUS
<1>2. \A S \in SUBSET S0 : Summable(f, S) /\ Fold(0, f, S) \in Numbers
  BY SummablePart, SumAny
<1>3. PICK T \in F : \A U \in F : Cardinality(T) <= Cardinality(U)
  <2> \A S \in F : IsFiniteSet(S)
    BY <1>2 DEF Summable
  <2> QED BY <1>1, SmallestSet
<1>4. T # {}
  <2>1. Fold(0, f, {}) = 0 /\ Fold(0, f, S0) = 0 + Fold(0, f, S0)
    BY <1>2, SumAny, AddingNumbers
  <2>2. S0 \ {} = S0
    OBVIOUS
  <2> QED BY <2>1, <2>2
<1>5. PICK x \in T : TRUE
  BY <1>4
<1> DEFINE R == S0 \ T
<1>6. T \ {x} \notin F
  <2>1. Cardinality(T \ {x}) = Cardinality(T) - 1 /\ Cardinality(T) \in Nat
    BY <1>2, FS_RemoveElement, FS_CardinalityType DEF Summable
  <2> QED BY <1>3, <2>1
<1>7. S0 \ (T \ {x}) = R \cup {x} /\ x \notin R /\ R \cup {x} \in SUBSET S0
  OBVIOUS
<1>8. Fold(0, f, S0) = Fold(0, f, T \ {x}) + Fold(0, f, R \cup {x})
  BY <1>6, <1>7
<1>9. Fold(0, f, T) = f[x] + Fold(0, f, T \ {x})
  BY <1>2, SumAny
<1>10. Fold(0, f, R \cup {x}) = f[x] + Fold(0, f, R)
  <2>1. Fold(0, f, R \cup {x}) = f[x] + Fold(0, f, (R \cup {x}) \ {x})
    <3> HIDE DEF R
    <3> QED BY <1>2, <1>7, SumAny
  <2>2. (R \cup {x}) \ {x} = R
    BY <1>7
  <2> QED BY <2>1, <2>2
<1>11. f[x] \in Numbers /\ Fold(0, f, T \ {x}) \in Numbers /\ Fold(0, f, R) \in Numbers
  BY <1>2 DEF Summable
<1> HIDE DEF R
<1>12. Fold(0, f, S0) = Fold(0, f, T) + Fold(0, f, R)
  BY <1>8, <1>9, <1>10, <1>11, AddingNumbers
<1> QED BY <1>12 DEF R

\* A sum is that of the same values under other names: h renames S0 one to one.
THEOREM SumRenamed ==
  ASSUME Adds, NEW f, NEW S0, IsFiniteSet(S0), NEW h, NEW g,
         \A s, t \in S0 : h[s] = h[t] => s = t,
         Summable(f, {h[s] : s \in S0}), Chooses(S0),
         \A s \in S0 : g[s] = f[h[s]]
  PROVE  Fold(0, g, S0) = Fold(0, f, {h[s] : s \in S0})
<1> DEFINE Im(S) == {h[s] : s \in S}
           F == {S \in SUBSET S0 : Fold(0, g, S) # Fold(0, f, Im(S))}
<1>1. SUFFICES ASSUME F # {} PROVE FALSE
  OBVIOUS
<1>2. ASSUME NEW S \in SUBSET S0
      PROVE  Summable(g, S) /\ Summable(f, Im(S))
  <2>1. Summable(g, S0)
    BY DEF Summable
  <2>2. Im(S) \in SUBSET Im(S0)
    OBVIOUS
  <2> QED BY <2>1, <2>2, SummablePart
<1>3. PICK S \in F : \A T \in F : Cardinality(S) <= Cardinality(T)
  <2> \A S \in F : IsFiniteSet(S)
    BY <1>2 DEF Summable
  <2> QED BY <1>1, SmallestSet
<1>4. S # {}
  <2>1. Im({}) = {}
    OBVIOUS
  <2>2. Fold(0, g, {}) = 0 /\ Fold(0, f, {}) = 0
    BY <1>2, <2>1, SumAny
  <2> QED BY <2>1, <2>2
<1>5. PICK x \in S : TRUE
  BY <1>4
<1>6. S \ {x} \notin F
  <2>1. Cardinality(S \ {x}) = Cardinality(S) - 1 /\ Cardinality(S) \in Nat
    BY <1>2, FS_RemoveElement, FS_CardinalityType DEF Summable
  <2> QED BY <1>3, <2>1
<1>7. Im(S \ {x}) = Im(S) \ {h[x]}
  OBVIOUS
<1>8. Fold(0, g, S) = g[x] + Fold(0, g, S \ {x})
  BY <1>2, SumAny
<1>9. Fold(0, f, Im(S)) = f[h[x]] + Fold(0, f, Im(S) \ {h[x]})
  <2>1. Summable(f, Im(S)) /\ h[x] \in Im(S)
    BY <1>2
  <2> HIDE DEF Im
  <2> QED BY <2>1, SumAny
<1> HIDE DEF Im
<1> QED BY <1>6, <1>7, <1>8, <1>9

\* A sum of zeros.
THEOREM SumZero ==
  ASSUME Adds, NEW f, NEW S0, Summable(f, S0), \A s \in S0 : f[s] = 0
  PROVE  Fold(0, f, S0) = 0
<1> DEFINE F == {S \in SUBSET S0 : Fold(0, f, S) # 0}
<1>1. SUFFICES ASSUME F # {} PROVE FALSE
  OBVIOUS
<1>2. \A S \in SUBSET S0 : Summable(f, S)
  BY SummablePart
<1>3. PICK S \in F : \A T \in F : Cardinality(S) <= Cardinality(T)
  <2> \A S \in F : IsFiniteSet(S)
    BY <1>2 DEF Summable
  <2> QED BY <1>1, SmallestSet
<1>4. PICK x \in S : TRUE
  <2>1. S # {}
    BY <1>2, SumAny
  <2> QED BY <2>1
<1>5. S \ {x} \notin F
  <2>1. Cardinality(S \ {x}) = Cardinality(S) - 1 /\ Cardinality(S) \in Nat
    BY <1>2, FS_RemoveElement, FS_CardinalityType DEF Summable
  <2> QED BY <1>3, <2>1
<1>6. Fold(0, f, S) = f[x] + Fold(0, f, S \ {x})
  BY <1>2, SumAny
<1> QED BY <1>5, <1>6

\* The sum of sums.
THEOREM SumPlus ==
  ASSUME Adds, NEW f, NEW g, NEW h, NEW S0, Summable(f, S0), Summable(g, S0),
         \A s \in S0 : h[s] = f[s] + g[s]
  PROVE  Summable(h, S0) /\ Fold(0, h, S0) = Fold(0, f, S0) + Fold(0, g, S0)
<1> DEFINE F == {S \in SUBSET S0 : Fold(0, h, S) # Fold(0, f, S) + Fold(0, g, S)}
<1>1. Summable(h, S0)
  BY AddingNumbers DEF Summable
<1>2. SUFFICES ASSUME F # {} PROVE FALSE
  BY <1>1
<1>3. \A S \in SUBSET S0 : Summable(f, S) /\ Summable(g, S) /\ Summable(h, S)
  BY <1>1, SummablePart
<1>4. PICK S \in F : \A T \in F : Cardinality(S) <= Cardinality(T)
  <2> \A S \in F : IsFiniteSet(S)
    BY <1>3 DEF Summable
  <2> QED BY <1>2, SmallestSet
<1>5. PICK x \in S : TRUE
  <2>1. Fold(0, f, {}) = 0 /\ Fold(0, g, {}) = 0 /\ Fold(0, h, {}) = 0
    BY <1>3, SumAny
  <2>2. S # {}
    BY <2>1
  <2> QED BY <2>2
<1>6. S \ {x} \notin F
  <2>1. Cardinality(S \ {x}) = Cardinality(S) - 1 /\ Cardinality(S) \in Nat
    BY <1>3, FS_RemoveElement, FS_CardinalityType DEF Summable
  <2> QED BY <1>4, <2>1
<1>7. /\ Fold(0, f, S) = f[x] + Fold(0, f, S \ {x})
      /\ Fold(0, g, S) = g[x] + Fold(0, g, S \ {x})
      /\ Fold(0, h, S) = h[x] + Fold(0, h, S \ {x})
  BY <1>3, SumAny
<1>8. /\ f[x] \in Numbers /\ g[x] \in Numbers
      /\ Fold(0, f, S \ {x}) \in Numbers /\ Fold(0, g, S \ {x}) \in Numbers
  <2>1. S \ {x} \in SUBSET S0 /\ x \in S0
    OBVIOUS
  <2> HIDE DEF F
  <2>2. Fold(0, f, S \ {x}) \in Numbers /\ Fold(0, g, S \ {x}) \in Numbers
    BY <1>3, <2>1, SumAny
  <2> QED BY <2>1, <2>2 DEF Summable
<1> QED BY <1>6, <1>7, <1>8, AddingNumbers

\* One value changes, and the sum as much.
THEOREM SumChange ==
  ASSUME Adds, NEW f, NEW g, NEW S0, Summable(f, S0), Summable(g, S0), NEW x \in S0,
         \A s \in S0 \ {x} : f[s] = g[s]
  PROVE  /\ Fold(0, f, S0) \in Numbers /\ Fold(0, g, S0) \in Numbers
         /\ Fold(0, g, S0) + f[x] = Fold(0, f, S0) + g[x]
<1>1. Summable(f, S0 \ {x}) /\ Summable(g, S0 \ {x})
  BY SummablePart
<1>2. Fold(0, f, S0 \ {x}) = Fold(0, g, S0 \ {x})
  BY <1>1, SumSame
<1>3. /\ Fold(0, f, S0) = f[x] + Fold(0, f, S0 \ {x})
      /\ Fold(0, g, S0) = g[x] + Fold(0, g, S0 \ {x})
      /\ Fold(0, f, S0) \in Numbers /\ Fold(0, g, S0) \in Numbers
  BY SumAny
<1>4. Fold(0, f, S0 \ {x}) \in Numbers /\ f[x] \in Numbers /\ g[x] \in Numbers
  BY <1>1, SumAny DEF Summable
<1> QED BY <1>2, <1>3, <1>4, AddingNumbers

\* The sum over parts: h says which part each element is in, P has the parts
\* and g their sums.
THEOREM SumByParts ==
  ASSUME Adds, NEW f, NEW S0, Summable(f, S0), NEW I, IsFiniteSet(I), Chooses(I),
         NEW h, \A s \in S0 : h[s] \in I,
         NEW P, \A i \in I : P[i] \subseteq S0 /\ \A s \in S0 : s \in P[i] <=> h[s] = i,
         NEW g, \A i \in I : g[i] = Fold(0, f, P[i])
  PROVE  Summable(g, I) /\ Fold(0, g, I) = Fold(0, f, S0)
<1> DEFINE Of(J) == {s \in S0 : h[s] \in J}
           F == {J \in SUBSET I : Fold(0, g, J) # Fold(0, f, Of(J))}
<1>1. \A S \in SUBSET S0 : Summable(f, S) /\ Fold(0, f, S) \in Numbers
  BY SummablePart, SumAny
<1>2. \A i \in I : P[i] \in SUBSET S0 /\ g[i] = Fold(0, f, P[i])
  OBVIOUS
<1>3. Summable(g, I)
  BY <1>1, <1>2 DEF Summable
<1>4. SUFFICES ASSUME F # {} PROVE FALSE
  <2>1. Of(I) = S0
    OBVIOUS
  <2>2. I \in SUBSET I
    OBVIOUS
  <2> QED BY <1>3, <2>1, <2>2
<1>5. \A J \in SUBSET I : Summable(g, J)
  BY <1>3, SummablePart
<1>6. PICK J \in F : \A K \in F : Cardinality(J) <= Cardinality(K)
  <2> \A K \in F : IsFiniteSet(K)
    BY <1>5 DEF Summable
  <2> QED BY <1>4, SmallestSet
<1>7. PICK x \in J : TRUE
  <2>1. Of({}) = {}
    OBVIOUS
  <2>2. Fold(0, g, {}) = 0 /\ Fold(0, f, {}) = 0
    BY <1>1, <1>5, SumAny
  <2>3. J # {}
    BY <2>1, <2>2
  <2> QED BY <2>3
<1>8. J \ {x} \notin F
  <2>1. Cardinality(J \ {x}) = Cardinality(J) - 1 /\ Cardinality(J) \in Nat
    BY <1>5, FS_RemoveElement, FS_CardinalityType DEF Summable
  <2> QED BY <1>6, <2>1
<1>9. Fold(0, g, J) = g[x] + Fold(0, g, J \ {x})
  BY <1>5, SumAny
<1>10. P[x] \in SUBSET Of(J) /\ Of(J) \ P[x] = Of(J \ {x}) /\ Of(J) \in SUBSET S0
  OBVIOUS
<1>11. g[x] = Fold(0, f, P[x]) /\ Fold(0, g, J \ {x}) = Fold(0, f, Of(J \ {x}))
  BY <1>8
<1> HIDE DEF Of
<1>12. Fold(0, f, Of(J)) = Fold(0, f, P[x]) + Fold(0, f, Of(J) \ P[x])
  BY <1>1, <1>10, SumSplit
<1> QED BY <1>9, <1>10, <1>11, <1>12

\* Elements are counted by a sum of ones.
THEOREM SumOnes ==
  ASSUME Adds, NEW f, NEW S0, IsFiniteSet(S0), Chooses(S0), \A s \in S0 : f[s] = 1
  PROVE  Summable(f, S0) /\ Fold(0, f, S0) = Cardinality(S0)
<1> DEFINE F == {S \in SUBSET S0 : Fold(0, f, S) # Cardinality(S)}
<1>1. Summable(f, S0)
  <2>1. 1 \in Numbers
    BY DEF Adds
  <2> QED BY <2>1 DEF Summable
<1>2. SUFFICES ASSUME F # {} PROVE FALSE
  BY <1>1
<1>3. \A S \in SUBSET S0 : Summable(f, S)
  BY <1>1, SummablePart
<1>4. PICK S \in F : \A T \in F : Cardinality(S) <= Cardinality(T)
  <2> \A S \in F : IsFiniteSet(S)
    BY <1>3 DEF Summable
  <2> QED BY <1>2, SmallestSet
<1>5. PICK x \in S : TRUE
  <2>1. Fold(0, f, {}) = 0 /\ Cardinality({}) = 0
    BY <1>3, SumAny, FS_EmptySet
  <2>2. S # {}
    BY <2>1
  <2> QED BY <2>2
<1>6. Cardinality(S \ {x}) = Cardinality(S) - 1 /\ Cardinality(S) \in Nat
  BY <1>3, FS_RemoveElement, FS_CardinalityType DEF Summable
<1>7. S \ {x} \notin F
  BY <1>4, <1>6
<1>8. Fold(0, f, S) = f[x] + Fold(0, f, S \ {x})
  BY <1>3, SumAny
<1> QED BY <1>6, <1>7, <1>8
=============================================================================

------------------------------ MODULE LruCache ------------------------------
(***************************************************************************)
(* What the range cache promises: entries in order of last use, of which   *)
(* as many of the most recent ones are kept as fit the budget.             *)
(***************************************************************************)
EXTENDS Integers, Sequences, SequencesExt

CONSTANTS Key, Lens, Budgets

VARIABLES
  recency,  \* the entries, least recently used first
  budget

vars == <<recency, budget>>

Entry(k, n) == [key |-> k, len |-> n]
Holds(k) == \E i \in DOMAIN recency : recency[i].key = k

\* How many bytes the entries from the i-th on hold.
TotalFrom(s, i) == SumFunctionOnSet([j \in DOMAIN s |-> s[j].len], i..Len(s))

\* The longest suffix of s that fits n bytes.
Fitting(s, n) ==
  LET fits == {i \in 1..(Len(s) + 1) : TotalFrom(s, i) <= n}
  IN SubSeq(s, CHOOSE i \in fits : \A j \in fits : i <= j, Len(s))

Init ==
  /\ recency = <<>>
  /\ budget \in Budgets

Use(k) ==
  /\ \E i \in DOMAIN recency :
       /\ recency[i].key = k
       /\ recency' = Append(RemoveAt(recency, i), recency[i])
  /\ UNCHANGED budget

Store(k, n) ==
  /\ ~Holds(k)
  /\ n # 0 /\ n <= budget
  /\ recency' = Fitting(Append(recency, Entry(k, n)), budget)
  /\ UNCHANGED budget

Resize(n) ==
  /\ budget' = n
  /\ recency' = Fitting(recency, n)

Clear ==
  /\ recency' = <<>>
  /\ UNCHANGED budget

Next ==
  \/ \E k \in Key : Use(k) \/ \E n \in Lens : Store(k, n)
  \/ \E n \in Budgets : Resize(n)
  \/ Clear

Spec == Init /\ [][Next]_vars
=============================================================================

---------------------------- MODULE ReadContract ----------------------------
(***************************************************************************)
(* What a read promises, whatever schedule the pipeline takes: it folds    *)
(* each selected block at most once, and it answers once, either with an   *)
(* error or with statistics in which every block has been folded.  After a *)
(* good answer the statistics do not change; after an error they are       *)
(* unreachable and workers may still be folding into them.                 *)
(***************************************************************************)
EXTENDS Naturals

CONSTANT Block

VARIABLES
  count,    \* how often each block has been folded
  outcome   \* "none" until the read answers

vars == <<count, outcome>>

Init ==
  /\ count = [b \in Block |-> 0]
  /\ outcome = "none"

FoldBlock(b) ==
  /\ outcome # "ok"
  /\ count[b] = 0
  /\ count' = [count EXCEPT ![b] = 1]
  /\ UNCHANGED outcome

Succeed ==
  /\ outcome = "none"
  /\ \A b \in Block : count[b] = 1
  /\ outcome' = "ok"
  /\ UNCHANGED count

Fail ==
  /\ outcome = "none"
  /\ outcome' = "error"
  /\ UNCHANGED count

Next == (\E b \in Block : FoldBlock(b)) \/ Succeed \/ Fail

Spec == Init /\ [][Next]_vars
=============================================================================

------------------------------ MODULE PlanSteps ------------------------------
(* What the steps of a plan may be, as PlanGraph sees them.                  *)
EXTENDS Integers, FiniteSets

CONSTANTS
  Size,       \* the number of steps, which are 0 .. Size - 1
  Kinds,      \* bound: what steps may be, see Kind
  Resources,  \* files, domains, windows
  Desktop,    \* "desktop:", one of them
  Overlap     \* pairs of files that are one inside the other

Ids == 0 .. Size - 1

(* The place of i in the sorted S. *)
Rank(i, S) == Cardinality({j \in S : j < i})

(* refs: the ids of step_N_output in its content and condition; shown: its  *)
(* description names the desktop; readOnly, stateful: what the text shows.  *)
Kind ==
  [refs : SUBSET Nat, reads : SUBSET Resources, writes : SUBSET Resources,
   shown : BOOLEAN, readOnly : BOOLEAN, stateful : BOOLEAN]

ASSUME PlanAssumption == Size \in Nat \ {0} /\ Kinds \subseteq Kind
=============================================================================

------------------------- MODULE MCAgentOrchestrator -------------------------
(* Small instances of AgentOrchestrator for TLC. *)
EXTENDS AgentOrchestrator, TLC

(* Layers of one step; one layer of all; all steps but the last in one layer. *)
InSequence == [s \in Steps |-> s]
InParallel == [s \in Steps |-> 1]
LastAlone == [s \in Steps |-> IF s = Max(Steps) THEN 2 ELSE 1]

Symmetry == Permutations(Callers) \union Permutations(Plans)
=============================================================================

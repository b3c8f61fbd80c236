----------------------------- MODULE MCPlanSteps -----------------------------
(* The kinds of steps that make the layering of plans interesting: steps     *)
(* that refer to steps 0, 1 and 2 (which may be themselves or later), or to  *)
(* a step that is not there; a reader and a writer of a folder and a writer  *)
(* of a file in it; users of the desktop, told by content and by             *)
(* description.                                                              *)
EXTENDS PlanSteps

CONSTANTS dir, file

Plain == [refs |-> {}, reads |-> {}, writes |-> {},
          shown |-> FALSE, readOnly |-> TRUE, stateful |-> FALSE]
Writing(r) == [Plain EXCEPT !.writes = {r}, !.readOnly = FALSE]

FewKinds ==
  {[Plain EXCEPT !.refs = {n}] : n \in {2, 9}} \union
  {Plain, [Plain EXCEPT !.reads = {dir}], Writing(file), Writing(Desktop),
   [Plain EXCEPT !.refs = {0}, !.shown = TRUE, !.stateful = TRUE]}

Referring == {Plain} \union {[Plain EXCEPT !.refs = {n}] : n \in {0, 1, 2, 9}}

Inside == {<<file, dir>>}
=============================================================================

----------------------------- MODULE MCPlanGraph -----------------------------
(* PlanGraph for TLC, with the kinds of steps of MCPlanSteps. *)
EXTENDS PlanGraph, MCPlanSteps
=============================================================================

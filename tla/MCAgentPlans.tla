---------------------------- MODULE MCAgentPlans ----------------------------
(* Small instances of AgentOrchestrator, whose layers are given, and of     *)
(* PlanGraph, which makes layers of a plan, for one run of TLC.  They share  *)
(* nothing: the initial state chooses the one that moves, the other stands   *)
(* still.                                                                    *)
EXTENDS MCAgentOrchestrator, MCPlanSteps

VARIABLES
  part,                                                     \* the component that moves
  origin, plan, phase, left, group, groupNo, todo, layers, ran, over, resumed  \* PlanGraph

G == INSTANCE PlanGraph

graph == <<origin, plan, phase, left, group, groupNo, todo, layers, ran, over, resumed>>

Begins ==
  /\ part \in {"agent", "plan"}
  /\ Init /\ G!Init
  /\ part # "plan" => origin = "skill" /\ plan = [i \in Ids |-> Plain]

(* The end of a plan is no deadlock. *)
PlanEnded == phase \in {"done", "failed"}

Moved ==
  \/ part = "agent" /\ Next /\ UNCHANGED graph
  \/ part = "plan" /\ G!Next /\ UNCHANGED vars
  \/ part = "plan" /\ PlanEnded /\ UNCHANGED <<vars, graph>>

Parts == Begins /\ [][Moved /\ UNCHANGED part]_<<part, vars, graph>>

(* PlanGraph: two steps of a layer never disturb each other. *)
NeverTogether == part = "plan" => G!TypeOK /\ G!NeverTogether

(* PlanGraph: a step runs after those it needs. *)
NeedsComeFirst == part = "plan" => G!NeedsComeFirst

(* PlanGraph: no step of a plan is lost. *)
AllStepsRun == part = "plan" => G!AllStepsRun
=============================================================================

------------------------------ MODULE PlanGraph ------------------------------
(***************************************************************************)
(* Which steps of a plan run together, and in which order.                 *)
(*                                                                         *)
(* The planner has agent/dag_builder.py derive the dependencies of a plan  *)
(* and give every step a group; a skill's steps have no group.  When the   *)
(* plan is executed, _group_by_dependency of agent/execution_engine.py     *)
(* makes layers of the steps: along the groups if there are any, else from *)
(* dependencies of its own.  The steps of a layer run on threads of their  *)
(* own, layer after layer.  An interrupted execution is resumed with the   *)
(* steps that have not succeeded, which are layered again.                 *)
(*                                                                         *)
(* Which resources the text of a step names is free (Kinds), and so is how *)
(* a step ends.                                                            *)
(***************************************************************************)
EXTENDS PlanSteps, Sequences

VARIABLES
  origin,   \* the plan is the planner's, or a skill's
  plan,     \* the steps
  phase,    \* "rank" and "order" for the planner's, "layer" for a skill's, then
            \* "run" until "done", "failed" or "interrupted"
  left,     \* remaining: the dependencies a step waits for
  group,    \* parallel_group, -1 without one
  groupNo,  \* group_no
  todo,     \* steps that are in no layer yet
  layers,   \* layers (sets of steps) to be run
  ran,      \* steps that have succeeded
  over,     \* steps of this execution that failed or were passed over
  resumed   \* the plan was resumed

vars == <<origin, plan, phase, left, group, groupNo, todo, layers, ran, over, resumed>>

TypeOK ==
  /\ origin \in {"planner", "skill"}
  /\ plan \in [Ids -> Kinds]
  /\ phase \in {"rank", "order", "layer", "run", "done", "failed", "interrupted"}
  /\ left \in [Ids -> SUBSET Nat]
  /\ group \in [Ids -> Int] /\ groupNo \in Nat
  /\ todo \subseteq Ids
  /\ layers \in Seq(SUBSET Ids)
  /\ ran \subseteq Ids /\ over \subseteq Ids
  /\ resumed \in BOOLEAN

Uses(k) == k.reads \union k.writes
Touch(A, B) == \E a \in A, b \in B : a = b \/ <<a, b>> \in Overlap \/ <<b, a>> \in Overlap

(* The conflicts of build_dag: the desktop, or a resource one of them       *)
(* writes.                                                                  *)
Conflict(k, p) ==
  \/ Desktop \in Uses(k) /\ Desktop \in Uses(p)
  \/ Touch(k.writes, Uses(p))
  \/ Touch(p.writes, k.reads)

ReadsOnlyFirst(k, p) ==  \* mutant: curr_writes & prev_reads is forgotten
  \/ Desktop \in Uses(k) /\ Desktop \in Uses(p)
  \/ Touch(k.writes, p.writes)
  \/ Touch(p.writes, k.reads)

Clash(k, p) == Conflict(k, p)

(* build_dag: depends_on. *)
DependsOn(i) == plan[i].refs \union {j \in 0 .. i - 1 : Clash(plan[i], plan[j])}

Init ==
  /\ origin \in {"planner", "skill"}
  /\ plan \in [Ids -> Kinds]
  /\ phase = IF origin = "planner" THEN "rank" ELSE "layer"
  /\ left = [i \in Ids |-> IF origin = "planner" THEN DependsOn(i) ELSE {}]
  /\ group = [i \in Ids |-> -1] /\ groupNo = 0
  /\ todo = Ids /\ layers = <<>>
  /\ ran = {} /\ over = {} /\ resumed = FALSE

-----------------------------------------------------------------------------
(* assign_parallel_groups *)

Remaining == {i \in Ids : group[i] = -1}
Ready == {i \in Remaining : left[i] = {}}

Executing == UNCHANGED <<todo, layers, ran, over, resumed>>

Round ==
  /\ phase = "rank" /\ Ready # {}
  /\ group' = [i \in Ids |-> IF i \in Ready THEN groupNo ELSE group[i]]
  /\ left' = [i \in Ids |-> left[i] \ Ready]
  /\ groupNo' = groupNo + 1
  /\ UNCHANGED <<origin, plan, phase>> /\ Executing

(* The steps that wait for each other, or for a step that is not there,     *)
(* follow one by one.                                                       *)
Offset(i) == groupNo + Rank(i, Remaining)

Sequential ==
  /\ phase = "rank" /\ Ready = {} /\ Remaining # {}
  /\ group' = [i \in Ids |-> IF i \in Remaining THEN Offset(i) ELSE group[i]]
  /\ UNCHANGED <<origin, plan, phase, left, groupNo>> /\ Executing

Ranked ==
  /\ phase = "rank" /\ Remaining = {}
  /\ phase' = "order"
  /\ UNCHANGED <<origin, plan, left, group, groupNo>> /\ Executing

-----------------------------------------------------------------------------
(* _group_by_dependency, with groups: a group has the place of its first    *)
(* step.                                                                    *)

OnDesktop(i) == Desktop \in Uses(plan[i]) \/ plan[i].shown

OneByOne(S) == [k \in 1 .. Cardinality(S) |-> {i \in S : Rank(i, S) = k - 1}]

DesktopOnly(G) ==  \* mutant: the other steps of a group that is split are lost
  IF Cardinality({j \in G : OnDesktop(j)}) <= 1 THEN <<G>> ELSE OneByOne({j \in G : OnDesktop(j)})

Split(G) == IF Cardinality({j \in G : OnDesktop(j)}) <= 1 THEN <<G>> ELSE OneByOne(G)

Planning == UNCHANGED <<origin, plan, left, group, groupNo, ran, over, resumed>>

Gather ==
  /\ phase = "order"
  /\ \E i \in todo :
       /\ \A j \in todo : i <= j
       /\ LET G == {j \in todo : group[j] = group[i]}
          IN layers' = layers \o Split(G) /\ todo' = todo \ G
  /\ UNCHANGED phase /\ Planning

Ordered ==
  /\ phase = "order" /\ todo = {}
  /\ phase' = "run"
  /\ UNCHANGED <<todo, layers>> /\ Planning

-----------------------------------------------------------------------------
(* _group_by_dependency, without groups.                                    *)

(* The conflicts of two steps; p is the earlier one. *)
Related(k, p) ==
  \/ Uses(k) \intersect Uses(p) # {}
  \/ k.stateful /\ p.stateful
  \/ (Desktop \in Uses(k) \/ k.shown) /\ (Desktop \in Uses(p) \/ p.shown)
  \/ ~p.readOnly /\ (~k.readOnly \/ k.stateful)

Unreferred(i) == {j \in 0 .. i - 1 : Related(plan[i], plan[j])}  \* mutant: no step_N_output

(* graph[i], over the steps of this execution. *)
Graph(i) ==
  {j \in Ids \ ran : j \in plan[i].refs \/ (j < i /\ Related(plan[i], plan[j]))}

LayerReady == {i \in todo : Graph(i) \intersect todo = {}}

AddLayer ==
  /\ phase = "layer" /\ LayerReady # {}
  /\ layers' = Append(layers, LayerReady)
  /\ todo' = todo \ LayerReady
  /\ UNCHANGED phase /\ Planning

(* No step is ready: what is left stays out, unless all are. *)
Layered ==
  /\ phase = "layer" /\ LayerReady = {}
  /\ layers' = IF layers = <<>> THEN OneByOne(todo) ELSE layers
  /\ phase' = "run"
  /\ UNCHANGED todo /\ Planning

-----------------------------------------------------------------------------
(* execute_plan.  A step succeeds, or is passed over (its condition does    *)
(* not hold) or fails without being fatal, or its failure ends the plan; or *)
(* the execution is interrupted, which kills the steps that have not ended. *)

RunLayer ==
  /\ phase = "run" /\ layers # <<>>
  /\ \E ok \in SUBSET Head(layers) :
       /\ ran' = ran \union ok
       /\ \/ over' = over \union (Head(layers) \ ok) /\ layers' = Tail(layers) /\ UNCHANGED phase
          \/ /\ phase' \in {"failed", "interrupted"}
             /\ phase' = "failed" => ok # Head(layers)
             /\ UNCHANGED <<over, layers>>
  /\ UNCHANGED <<origin, plan, left, group, groupNo, todo, resumed>>

Finish ==
  /\ phase = "run" /\ layers = <<>>
  /\ phase' = "done"
  /\ UNCHANGED <<origin, plan, left, group, groupNo, todo, layers, ran, over, resumed>>

(* resume(): the steps without a success are executed as a plan. *)
Resume ==
  /\ phase = "interrupted"
  /\ phase' = IF origin = "planner" THEN "order" ELSE "layer"
  /\ todo' = Ids \ ran /\ layers' = <<>> /\ over' = {}
  /\ resumed' = TRUE
  /\ UNCHANGED <<origin, plan, left, group, groupNo, ran>>

Next ==
  \/ Round \/ Sequential \/ Ranked
  \/ Gather \/ Ordered
  \/ AddLayer \/ Layered
  \/ RunLayer \/ Finish \/ Resume

Spec == Init /\ [][Next]_vars

-----------------------------------------------------------------------------
(* Two steps that may disturb each other never run at the same time: in a   *)
(* layer no step refers to the output of another, at most one uses the      *)
(* desktop, and, in a plan of the planner, none writes what another uses    *)
(* (build_dag, assign_parallel_groups, _group_by_dependency).               *)
Independent(i, j) ==
  /\ j \notin plan[i].refs
  /\ ~(OnDesktop(i) /\ OnDesktop(j))
  /\ origin = "planner" => ~Conflict(plan[i], plan[j])

NeverTogether ==
  \A k \in DOMAIN layers : \A i, j \in layers[k] : i # j => Independent(i, j)

(* The earlier steps whose output or effect a step needs. *)
Needs(i) ==
  {j \in 0 .. i - 1 : \/ j \in plan[i].refs
                      \/ origin = "planner" /\ Conflict(plan[i], plan[j])}

Backward == \A i \in Ids : \A j \in plan[i].refs \intersect Ids : j < i

NextHasItsNeeds ==
  phase = "run" /\ layers # <<>> => \A i \in Head(layers) : Needs(i) \subseteq ran \union over

(* A step begins only when every earlier step it needs has ended, as long   *)
(* as no step refers to a later one and the plan was not resumed (the       *)
(* layers follow the first step of each group, not the groups).             *)
NeedsComeFirst == Backward /\ (origin = "skill" \/ ~resumed) => NextHasItsNeeds

(* What the prompt promises of all executions (prompt_templates.py:13):     *)
(* "outputs of previous steps can be accessed".  A resumed plan runs a step *)
(* before one it refers to.                                                 *)
OutputsAreThere == Backward => NextHasItsNeeds

(* A plan that ends as executed has executed all its steps (a skill's: if   *)
(* no step refers to itself or to a later one).                             *)
AllStepsRun == phase = "done" /\ (origin = "planner" \/ Backward) => ran \union over = Ids
=============================================================================

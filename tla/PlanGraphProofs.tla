--------------------------- MODULE PlanGraphProofs ---------------------------
(***************************************************************************)
(* Theorems about PlanGraph, for plans of every size and with every kind   *)
(* of steps, resources and overlaps: steps that may disturb each other     *)
(* never share a layer; what a step needs ends before it begins, although  *)
(* _group_by_dependency orders the groups by their first step and not by   *)
(* their number; and no step is left out.                                  *)
(***************************************************************************)
EXTENDS PlanGraph, FiniteSetTheorems, TLAPS

-----------------------------------------------------------------------------
(* The place of a step in a sorted set.                                     *)

LEMMA SubsetsAreFinite == ASSUME NEW S \in SUBSET Ids PROVE IsFiniteSet(S)
<1>1. IsFiniteSet(Ids)
  BY FS_Interval, PlanAssumption DEF Ids
<1> QED
  BY <1>1, FS_Subset

LEMMA IdsAreIntegers == Ids \subseteq Int /\ Ids \subseteq Nat
  BY PlanAssumption DEF Ids

LEMMA RankType == ASSUME NEW S \in SUBSET Ids, NEW i PROVE Rank(i, S) \in Nat
  BY SubsetsAreFinite, FS_CardinalityType DEF Rank

LEMMA RankIsMonotone ==
  ASSUME NEW S \in SUBSET Ids, NEW j \in S, NEW i \in S, j < i
  PROVE  Rank(j, S) < Rank(i, S)
<1> DEFINE A == {k \in S : k < j}
           B == {k \in S : k < i}
<1>1. IsFiniteSet(A) /\ IsFiniteSet(B)
  BY SubsetsAreFinite
<1>0. S \subseteq Int
  BY IdsAreIntegers
<1>2. A \union {j} \subseteq B /\ j \notin A
  <2>1. i \in Int /\ j \in Int
    BY <1>0
  <2>2. ASSUME NEW k \in A PROVE k \in B
    BY <1>0, <2>1
  <2>3. j \in B /\ j \notin A
    BY <2>1
  <2> QED
    BY <2>2, <2>3
<1>3. Cardinality(A \union {j}) = Cardinality(A) + 1
  BY <1>1, <1>2, FS_AddElement
<1>4. Cardinality(A \union {j}) <= Cardinality(B)
  BY <1>1, <1>2, FS_Subset
<1> HIDE DEF A, B
<1>5. Cardinality(A) \in Nat /\ Cardinality(B) \in Nat
  BY <1>1, FS_CardinalityType
<1>6. Cardinality(A) < Cardinality(B)
  BY <1>3, <1>4, <1>5
<1> QED
  BY <1>6 DEF A, B, Rank

(* A step has its place in the set to itself, and it is one of the places.  *)
LEMMA RankIsUnique ==
  ASSUME NEW S \in SUBSET Ids, NEW i \in S, NEW j \in S, Rank(i, S) = Rank(j, S)
  PROVE  i = j
<1>1. i \in Int /\ j \in Int /\ Rank(i, S) \in Int /\ Rank(j, S) \in Int
  BY RankType, IdsAreIntegers
<1>2. ~(i < j) /\ ~(j < i)
  BY <1>1, RankIsMonotone
<1> QED
  BY <1>1, <1>2

LEMMA RankIsBounded ==
  ASSUME NEW S \in SUBSET Ids, NEW i \in S
  PROVE  Rank(i, S) + 1 \in 1 .. Cardinality(S)
<1> DEFINE A == {k \in S : k < i}
<1>1. IsFiniteSet(A) /\ IsFiniteSet(S)
  BY SubsetsAreFinite
<1>0. S \subseteq Int
  BY IdsAreIntegers
<1>2. A \union {i} \subseteq S /\ i \notin A
  BY <1>0
<1>3. Cardinality(A \union {i}) = Cardinality(A) + 1
  BY <1>1, <1>2, FS_AddElement
<1>4. Cardinality(A \union {i}) <= Cardinality(S)
  BY <1>1, <1>2, FS_Subset
<1> HIDE DEF A
<1>5. Cardinality(A) \in Nat /\ Cardinality(S) \in Nat
  BY <1>1, FS_CardinalityType
<1>6. Cardinality(A) + 1 \in 1 .. Cardinality(S)
  BY <1>3, <1>4, <1>5
<1> QED
  BY <1>6 DEF A, Rank

(* OneByOne(S) is a sequence of the steps of S, each by itself, in order.   *)
LEMMA OneByOneType ==
  ASSUME NEW S \in SUBSET Ids
  PROVE  /\ OneByOne(S) \in Seq(SUBSET S)
         /\ DOMAIN OneByOne(S) = 1 .. Cardinality(S) /\ Cardinality(S) \in Nat
<1>1. Cardinality(S) \in Nat
  BY SubsetsAreFinite, FS_CardinalityType
<1>2. OneByOne(S) \in [1 .. Cardinality(S) -> SUBSET S]
  BY DEF OneByOne
<1> QED
  BY <1>1, <1>2

LEMMA OneByOneIsSingle ==
  ASSUME NEW S \in SUBSET Ids, NEW k \in DOMAIN OneByOne(S),
         NEW i \in OneByOne(S)[k], NEW j \in OneByOne(S)[k]
  PROVE  i = j
<1>1. k \in 1 .. Cardinality(S)
  BY OneByOneType
<1>2. i \in S /\ j \in S /\ Rank(i, S) = k - 1 /\ Rank(j, S) = k - 1
  BY <1>1 DEF OneByOne
<1> QED
  BY <1>2, RankIsUnique

LEMMA OneByOneIsComplete ==
  ASSUME NEW S \in SUBSET Ids, NEW i \in S
  PROVE  Rank(i, S) + 1 \in DOMAIN OneByOne(S) /\ i \in OneByOne(S)[Rank(i, S) + 1]
<1>1. Rank(i, S) + 1 \in 1 .. Cardinality(S) /\ Rank(i, S) \in Nat
  BY RankIsBounded, RankType
<1> QED
  BY <1>1, OneByOneType DEF OneByOne

-----------------------------------------------------------------------------
(* Conflicts do not depend on the order of the two steps.                   *)
LEMMA TouchIsSymmetric == ASSUME NEW A, NEW B, Touch(A, B) PROVE Touch(B, A)
  BY DEF Touch

LEMMA TouchOfUnion ==
  ASSUME NEW A, NEW B, NEW C
  PROVE  Touch(A, B \union C) <=> Touch(A, B) \/ Touch(A, C)
  BY DEF Touch

LEMMA ConflictIsSymmetric ==
  ASSUME NEW k, NEW p, Conflict(k, p)
  PROVE  Conflict(p, k)
  BY TouchIsSymmetric, TouchOfUnion DEF Conflict, Uses

-----------------------------------------------------------------------------
(* Types.                                                                   *)
LEMMA DependsOnType == ASSUME TypeOK, NEW i \in Ids PROVE DependsOn(i) \in SUBSET Nat
<1>1. plan[i].refs \in SUBSET Nat
  BY PlanAssumption DEF TypeOK, Kind
<1>2. 0 .. i - 1 \subseteq Nat
  BY IdsAreIntegers
<1> QED
  BY <1>1, <1>2 DEF DependsOn

LEMMA SplitType ==
  ASSUME NEW G \in SUBSET Ids
  PROVE  /\ Split(G) \in Seq(SUBSET Ids)
         /\ \A i \in G : \E k \in DOMAIN Split(G) : i \in Split(G)[k]
         /\ \A k \in DOMAIN Split(G) : Split(G)[k] \subseteq G
<1>1. <<G>> \in Seq(SUBSET Ids) /\ DOMAIN <<G>> = {1} /\ <<G>>[1] = G
  OBVIOUS
<1>2. OneByOne(G) \in Seq(SUBSET G) /\ \A i \in G : \E k \in DOMAIN OneByOne(G) : i \in OneByOne(G)[k]
  BY OneByOneType, OneByOneIsComplete
<1>3. OneByOne(G) \in Seq(SUBSET Ids) /\ \A k \in DOMAIN OneByOne(G) : OneByOne(G)[k] \subseteq G
  BY <1>2
<1> QED
  BY <1>1, <1>2, <1>3 DEF Split

LEMMA TypeInit == Init => TypeOK
<1> SUFFICES ASSUME Init PROVE TypeOK
  OBVIOUS
<1>1. \A i \in Ids : plan[i].refs \in SUBSET Nat /\ 0 .. i - 1 \subseteq Nat
  BY PlanAssumption, IdsAreIntegers DEF Init, Kind
<1>2. left \in [Ids -> SUBSET Nat]
  BY <1>1 DEF Init, DependsOn
<1>3. phase \in {"rank", "layer"} /\ group \in [Ids -> Int]
  BY DEF Init
<1>4. layers \in Seq(SUBSET Ids) /\ groupNo \in Nat
  BY DEF Init
<1> QED
  BY <1>2, <1>3, <1>4 DEF Init, TypeOK

LEMMA TypeNext == TypeOK /\ [Next]_vars => TypeOK'
<1> SUFFICES ASSUME TypeOK, [Next]_vars PROVE TypeOK'
  OBVIOUS
<1>1. CASE Round
  BY <1>1 DEF TypeOK, Round, Executing
<1>2. CASE Sequential
  <2>1. Remaining \in SUBSET Ids
    BY DEF Remaining
  <2>2. \A i \in Ids : Offset(i) \in Int
    BY <2>1, RankType DEF Offset, TypeOK
  <2> QED
    BY <1>2, <2>2 DEF TypeOK, Sequential, Executing
<1>3. CASE Ranked
  BY <1>3 DEF TypeOK, Ranked, Executing
<1>4. CASE Gather
  <2>1. PICK i \in todo : LET G == {j \in todo : group[j] = group[i]}
                          IN layers' = layers \o Split(G) /\ todo' = todo \ G
    BY <1>4 DEF Gather
  <2> DEFINE G == {j \in todo : group[j] = group[i]}
  <2>2. G \in SUBSET Ids
    BY DEF TypeOK
  <2>3. Split(G) \in Seq(SUBSET Ids)
    BY <2>2, SplitType
  <2> HIDE DEF G
  <2>4. layers' \in Seq(SUBSET Ids) /\ todo' \subseteq Ids
    BY <2>1, <2>3 DEF TypeOK, G
  <2> QED
    BY <1>4, <2>4 DEF TypeOK, Gather, Planning
<1>5. CASE Ordered
  BY <1>5 DEF TypeOK, Ordered, Planning
<1>6. CASE AddLayer
  BY <1>6 DEF TypeOK, AddLayer, Planning, LayerReady
<1>7. CASE Layered
  <2>1. OneByOne(todo) \in Seq(SUBSET Ids)
    <3>1. OneByOne(todo) \in Seq(SUBSET todo) /\ todo \subseteq Ids
      BY OneByOneType DEF TypeOK
    <3> QED
      BY <3>1
  <2> QED
    BY <1>7, <2>1 DEF TypeOK, Layered, Planning
<1>8. CASE RunLayer
  <2>1. Head(layers) \subseteq Ids /\ Tail(layers) \in Seq(SUBSET Ids)
    BY <1>8 DEF TypeOK, RunLayer
  <2>2. ran' \subseteq Ids /\ over' \subseteq Ids /\ layers' \in Seq(SUBSET Ids)
    BY <1>8, <2>1 DEF TypeOK, RunLayer
  <2>3. phase' \in {"run", "failed", "interrupted"}
    BY <1>8 DEF RunLayer
  <2> QED
    BY <1>8, <2>2, <2>3 DEF TypeOK, RunLayer
<1>9. CASE Finish
  BY <1>9 DEF TypeOK, Finish
<1>10. CASE Resume
  BY <1>10 DEF TypeOK, Resume
<1>11. CASE UNCHANGED vars
  BY <1>11 DEF TypeOK, vars
<1> QED
  BY <1>1, <1>2, <1>3, <1>4, <1>5, <1>6, <1>7, <1>8, <1>9, <1>10, <1>11 DEF Next

-----------------------------------------------------------------------------
(* assign_parallel_groups.  What a step that has no group yet waits for is  *)
(* in left; steps with one group do not depend on each other.               *)
GroupsAreBelow == Remaining # {} => \A i \in Ids : group[i] < groupNo
LeftIsNeeded == phase = "rank" => \A i \in Remaining : /\ DependsOn(i) \intersect Remaining \subseteq left[i]
                                                       /\ left[i] \subseteq DependsOn(i)
GroupsAreIndependent ==
  \A i, j \in Ids : group[i] = group[j] /\ group[i] # -1 /\ i # j => j \notin DependsOn(i)
PlansAreGrouped ==
  /\ phase = "rank" \/ phase = "order" => origin = "planner"
  /\ phase = "layer" => origin = "skill"
  /\ origin = "planner" /\ phase # "rank" => Remaining = {}

GroupInv == TypeOK /\ PlansAreGrouped /\ GroupsAreBelow /\ LeftIsNeeded /\ GroupsAreIndependent

LEMMA GroupInit == Init => GroupInv
<1> SUFFICES ASSUME Init PROVE GroupInv
  OBVIOUS
<1>1. TypeOK
  BY TypeInit
<1>2. phase = "rank" \/ phase = "order" => origin = "planner"
  BY DEF Init
<1>3. phase = "layer" => origin = "skill"
  BY DEF Init
<1>4. origin = "planner" => phase = "rank"
  BY DEF Init
<1>5. LeftIsNeeded
  BY <1>2 DEF Init, LeftIsNeeded, Remaining
<1>6. GroupsAreBelow /\ GroupsAreIndependent
  BY DEF Init, GroupsAreBelow, GroupsAreIndependent
<1> QED
  BY <1>1, <1>2, <1>3, <1>4, <1>5, <1>6 DEF GroupInv, PlansAreGrouped

LEMMA GroupRound == ASSUME GroupInv, TypeOK', Round PROVE GroupInv'
<1>1. UNCHANGED <<origin, plan, phase>> /\ \A i \in Ids : DependsOn(i)' = DependsOn(i)
  BY DEF Round, DependsOn
<1>2. Ready \subseteq Remaining /\ Remaining \subseteq Ids /\ groupNo \in Nat /\ phase = "rank"
  BY DEF Ready, Remaining, GroupInv, TypeOK, Round
<1>3. \A i \in Ids : group'[i] = IF i \in Ready THEN groupNo ELSE group[i]
  BY DEF Round
<1>4. Remaining' = Remaining \ Ready
  BY <1>2, <1>3 DEF Remaining
<1>5. \A i \in Ids : group[i] < groupNo
  BY <1>2 DEF GroupInv, GroupsAreBelow, Round
<1>6. GroupsAreBelow'
  <2>1. groupNo' = groupNo + 1 /\ \A i \in Ids : group[i] \in Int
    BY DEF Round, GroupInv, TypeOK
  <2> QED
    BY <1>2, <1>3, <1>5, <2>1 DEF GroupsAreBelow
<1>7. LeftIsNeeded'
  <2>1. \A i \in Ids : left'[i] = left[i] \ Ready
    BY DEF Round
  <2> QED
    BY <1>1, <1>2, <1>4, <2>1 DEF GroupInv, LeftIsNeeded
<1>8. GroupsAreIndependent'
  <2> SUFFICES ASSUME NEW i \in Ids, NEW j \in Ids, group'[i] = group'[j], group'[i] # -1, i # j
               PROVE  j \notin DependsOn(i)
    BY <1>1 DEF GroupsAreIndependent
  <2>1. CASE i \in Ready
    <3>1. j \in Ready
      BY <1>2, <1>3, <1>5, <2>1
    <3>2. left[i] = {} /\ DependsOn(i) \intersect Remaining \subseteq left[i]
      BY <1>2, <2>1 DEF Ready, GroupInv, LeftIsNeeded
    <3> QED
      BY <3>1, <3>2, <1>2
  <2>2. CASE i \notin Ready
    <3>1. j \notin Ready
      BY <1>2, <1>3, <1>5, <2>2
    <3> QED
      BY <3>1, <2>2, <1>3 DEF GroupInv, GroupsAreIndependent
  <2> QED
    BY <2>1, <2>2
<1>9. PlansAreGrouped'
  BY <1>1, <1>2 DEF GroupInv, PlansAreGrouped
<1> QED
  BY <1>6, <1>7, <1>8, <1>9 DEF GroupInv

LEMMA GroupSequential == ASSUME GroupInv, TypeOK', Sequential PROVE GroupInv'
<1>1. UNCHANGED <<origin, plan, phase>> /\ \A i \in Ids : DependsOn(i)' = DependsOn(i)
  BY DEF Sequential, DependsOn
<1>2. Remaining \in SUBSET Ids /\ groupNo \in Nat /\ phase = "rank"
  BY DEF Remaining, GroupInv, TypeOK, Sequential
<1>3. \A i \in Ids : group'[i] = IF i \in Remaining THEN Offset(i) ELSE group[i]
  BY DEF Sequential
<1>4. \A i \in Remaining : Offset(i) \in Nat /\ Offset(i) >= groupNo
  BY <1>2, RankType DEF Offset
<1>5. Remaining' = {}
  BY <1>3, <1>4 DEF Remaining
<1>6. \A i \in Ids : group[i] < groupNo
  BY <1>2 DEF GroupInv, GroupsAreBelow, Sequential
<1>7. GroupsAreIndependent'
  <2> SUFFICES ASSUME NEW i \in Ids, NEW j \in Ids, group'[i] = group'[j], group'[i] # -1, i # j
               PROVE  j \notin DependsOn(i)
    BY <1>1 DEF GroupsAreIndependent
  <2>0. group[i] \in Int /\ group[j] \in Int
    BY DEF GroupInv, TypeOK
  <2>1. CASE i \in Remaining /\ j \in Remaining
    <3>1. groupNo + Rank(i, Remaining) = groupNo + Rank(j, Remaining)
      BY <1>3, <2>1 DEF Offset
    <3>2. Rank(i, Remaining) = Rank(j, Remaining)
      BY <3>1, <1>2, RankType
    <3> QED
      BY <3>2, <2>1, <1>2, RankIsUnique
  <2>2. CASE ~(i \in Remaining <=> j \in Remaining)
    BY <1>2, <1>3, <1>4, <1>6, <2>0, <2>2
  <2>3. CASE i \notin Remaining /\ j \notin Remaining
    BY <1>3, <2>3 DEF GroupInv, GroupsAreIndependent
  <2> QED
    BY <2>1, <2>2, <2>3
<1>8. PlansAreGrouped' /\ GroupsAreBelow' /\ LeftIsNeeded'
  BY <1>1, <1>2, <1>5 DEF GroupInv, PlansAreGrouped, GroupsAreBelow, LeftIsNeeded
<1> QED
  BY <1>7, <1>8 DEF GroupInv

(* The other steps leave the groups as they are. *)
LEMMA GroupOther ==
  ASSUME GroupInv, TypeOK', UNCHANGED <<origin, plan, left, group, groupNo>>,
         phase' # "rank" \/ phase' = phase, PlansAreGrouped'
  PROVE  GroupInv'
<1>1. Remaining' = Remaining /\ \A i \in Ids : DependsOn(i)' = DependsOn(i)
  BY DEF Remaining, DependsOn
<1>0. Remaining \subseteq Ids
  BY DEF Remaining
<1>2. GroupsAreBelow' /\ GroupsAreIndependent'
  BY <1>1 DEF GroupInv, GroupsAreBelow, GroupsAreIndependent
<1>3. LeftIsNeeded'
  BY <1>0, <1>1 DEF GroupInv, LeftIsNeeded
<1> QED
  BY <1>2, <1>3 DEF GroupInv

LEMMA GroupNext == GroupInv /\ [Next]_vars => GroupInv'
<1> SUFFICES ASSUME GroupInv, [Next]_vars PROVE GroupInv'
  OBVIOUS
<1>1. TypeOK'
  BY TypeNext DEF GroupInv
<1>2. CASE Round
  BY <1>1, <1>2, GroupRound
<1>3. CASE Sequential
  BY <1>1, <1>3, GroupSequential
<1>4. CASE Ranked \/ Gather \/ Ordered \/ AddLayer \/ Layered \/ RunLayer \/ Finish \/ Resume \/ UNCHANGED vars
  <2>1. UNCHANGED <<origin, plan, left, group, groupNo>>
    BY <1>4 DEF Ranked, Gather, Ordered, AddLayer, Layered, RunLayer, Finish, Resume, vars, Planning, Executing
  <2>2. phase' # "rank" \/ phase' = phase
    BY <1>4 DEF Ranked, Gather, Ordered, AddLayer, Layered, RunLayer, Finish, Resume, vars
  <2>3. Remaining' = Remaining
    BY <2>1 DEF Remaining
  <2>4. PlansAreGrouped'
    <3>1. CASE Ranked
      BY <3>1, <2>1, <2>3 DEF GroupInv, PlansAreGrouped, Ranked
    <3>2. CASE Gather \/ Ordered \/ AddLayer \/ Layered
      BY <3>2, <2>1, <2>3 DEF GroupInv, PlansAreGrouped, Gather, Ordered, AddLayer, Layered
    <3>3. CASE RunLayer \/ Finish \/ UNCHANGED vars
      BY <3>3, <2>1, <2>3 DEF GroupInv, PlansAreGrouped, RunLayer, Finish, vars
    <3>4. CASE Resume
      BY <3>4, <2>1, <2>3 DEF GroupInv, PlansAreGrouped, Resume, TypeOK
    <3> QED
      BY <1>4, <3>1, <3>2, <3>3, <3>4
  <2> QED
    BY <1>1, <2>1, <2>2, <2>4, GroupOther
<1> QED
  BY <1>2, <1>3, <1>4 DEF Next

-----------------------------------------------------------------------------
(* _group_by_dependency.  A layer is part of one group, or of the steps     *)
(* that were ready together.                                                *)

LEMMA SameGroupIsIndependent ==
  ASSUME GroupInv, origin = "planner", NEW i \in Ids, NEW j \in Ids,
         group[i] = group[j], group[i] # -1, i # j
  PROVE  j \notin plan[i].refs /\ ~Conflict(plan[i], plan[j])
<1>1. j \notin DependsOn(i) /\ i \notin DependsOn(j)
  BY DEF GroupInv, GroupsAreIndependent
<1>2. i \in Int /\ j \in Int /\ (j < i => j \in 0 .. i - 1) /\ (i < j => i \in 0 .. j - 1) /\ (i < j \/ j < i)
  BY IdsAreIntegers
<1>3. ~Conflict(plan[i], plan[j]) \/ ~Conflict(plan[j], plan[i])
  BY <1>1, <1>2 DEF DependsOn, Clash
<1> QED
  BY <1>1, <1>3, ConflictIsSymmetric DEF DependsOn

LEMMA SplitIsIndependent ==
  ASSUME GroupInv, origin = "planner", Remaining = {}, NEW G \in SUBSET Ids,
         \A i, j \in G : group[i] = group[j],
         NEW k \in DOMAIN Split(G), NEW i \in Split(G)[k], NEW j \in Split(G)[k], i # j
  PROVE  Independent(i, j)
<1>1. i \in G /\ j \in G
  BY SplitType
<1>2. group[i] = group[j] /\ group[i] # -1
  BY <1>1 DEF Remaining
<1>3. Cardinality({m \in G : OnDesktop(m)}) <= 1
  BY OneByOneIsSingle DEF Split
<1>4. ~(OnDesktop(i) /\ OnDesktop(j))
  <2> SUFFICES ASSUME OnDesktop(i) /\ OnDesktop(j) PROVE FALSE
    OBVIOUS
  <2> DEFINE D == {m \in G : OnDesktop(m)}
  <2>1. IsFiniteSet(D) /\ IsFiniteSet({i}) /\ Cardinality({i}) = 1
    BY SubsetsAreFinite, FS_Singleton
  <2>2. IsFiniteSet({i} \union {j}) /\ Cardinality({i} \union {j}) = 2
    <3>1. j \notin {i}
      OBVIOUS
    <3>2. Cardinality({i} \union {j}) = Cardinality({i}) + 1 /\ IsFiniteSet({i} \union {j})
      BY <2>1, <3>1, FS_AddElement
    <3> QED
      BY <2>1, <3>2
  <2>3. {i} \union {j} \in SUBSET D
    BY <1>1
  <2> HIDE DEF D
  <2>4. Cardinality({i} \union {j}) <= Cardinality(D) /\ Cardinality(D) \in Nat
    BY <2>1, <2>3, FS_Subset, FS_CardinalityType
  <2> QED
    BY <1>3, <2>2, <2>4 DEF D
<1> QED
  BY <1>1, <1>2, <1>4, SameGroupIsIndependent DEF Independent

LEMMA ReadyIsIndependent ==
  ASSUME origin = "skill", todo \in SUBSET (Ids \ ran),
         NEW i \in LayerReady, NEW j \in LayerReady, i # j
  PROVE  Independent(i, j)
<1>1. i \in Ids \ ran /\ j \in Ids \ ran /\ j \notin Graph(i) /\ i \notin Graph(j)
  BY DEF LayerReady
<1>2. i \in Int /\ j \in Int /\ (i < j \/ j < i)
  BY <1>1, IdsAreIntegers
<1>3. ~Related(plan[i], plan[j]) \/ ~Related(plan[j], plan[i])
  BY <1>1, <1>2 DEF Graph
<1> QED
  BY <1>1, <1>3 DEF Graph, Related, Independent, OnDesktop

(* What is in no layer yet has not run when layers are made.                *)
TodoIsLeft == phase \in {"rank", "order", "layer"} => todo \in SUBSET (Ids \ ran)

Inv == GroupInv /\ TodoIsLeft /\ NeverTogether

LEMMA TodoNext == GroupInv /\ TodoIsLeft /\ [Next]_vars => TodoIsLeft'
<1> SUFFICES ASSUME GroupInv, TodoIsLeft, [Next]_vars PROVE TodoIsLeft'
  OBVIOUS
<1>1. CASE Round \/ Sequential \/ Ranked
  BY <1>1 DEF TodoIsLeft, Round, Sequential, Ranked, Executing
<1>2. CASE Gather \/ Ordered \/ AddLayer \/ Layered
  BY <1>2 DEF TodoIsLeft, Gather, Ordered, AddLayer, Layered, Planning
<1>3. CASE RunLayer \/ Finish \/ UNCHANGED vars
  BY <1>3 DEF TodoIsLeft, RunLayer, Finish, vars
<1>4. CASE Resume
  BY <1>4 DEF TodoIsLeft, Resume
<1> QED
  BY <1>1, <1>2, <1>3, <1>4 DEF Next

LEMMA AppendedIsIndependent ==
  ASSUME TypeOK, NeverTogether, UNCHANGED <<origin, plan>>,
         NEW P \in Seq(SUBSET Ids), layers' = layers \o P,
         \A k \in DOMAIN P : \A i, j \in P[k] : i # j => Independent(i, j)
  PROVE  NeverTogether'
<1>1. \A i, j : Independent(i, j)' <=> Independent(i, j)
  BY DEF Independent, OnDesktop
<1> SUFFICES ASSUME NEW k \in DOMAIN layers', NEW i \in layers'[k], NEW j \in layers'[k], i # j
             PROVE  Independent(i, j)
  BY <1>1 DEF NeverTogether
<1>2. layers \in Seq(SUBSET Ids)
  BY DEF TypeOK
<1>3. CASE k \in DOMAIN layers
  BY <1>2, <1>3 DEF NeverTogether
<1>4. CASE k \notin DOMAIN layers
  <2>1. k - Len(layers) \in DOMAIN P /\ layers'[k] = P[k - Len(layers)]
    BY <1>2, <1>4
  <2> QED
    BY <2>1
<1> QED
  BY <1>3, <1>4

LEMMA NeverTogetherNext == Inv /\ [Next]_vars => NeverTogether'
<1> SUFFICES ASSUME Inv, [Next]_vars PROVE NeverTogether'
  OBVIOUS
<1>0. TypeOK /\ layers \in Seq(SUBSET Ids) /\ NeverTogether
  BY DEF Inv, GroupInv, TypeOK
<1>1. \A i, j : UNCHANGED <<origin, plan>> => (Independent(i, j)' <=> Independent(i, j))
  BY DEF Independent, OnDesktop
<1>2. CASE UNCHANGED <<origin, plan, layers>>
  BY <1>0, <1>1, <1>2 DEF NeverTogether
<1>3. CASE Gather
  <2>1. PICK G \in SUBSET Ids : /\ layers' = layers \o Split(G)
                               /\ \A i, j \in G : group[i] = group[j]
    <3>1. PICK i \in todo : layers' = layers \o Split({j \in todo : group[j] = group[i]})
      BY <1>3 DEF Gather
    <3>2. {j \in todo : group[j] = group[i]} \in SUBSET Ids
      BY <1>0 DEF TypeOK
    <3> QED
      BY <3>1, <3>2
  <2>2. origin = "planner" /\ Remaining = {} /\ UNCHANGED <<origin, plan>>
    BY <1>3 DEF Inv, GroupInv, PlansAreGrouped, Gather, Planning
  <2>3. \A k \in DOMAIN Split(G) : \A i, j \in Split(G)[k] : i # j => Independent(i, j)
    BY <2>1, <2>2, SplitIsIndependent DEF Inv
  <2> QED
    BY <1>0, <2>1, <2>2, <2>3, SplitType, AppendedIsIndependent
<1>4. CASE AddLayer
  <2>1. origin = "skill" /\ todo \in SUBSET (Ids \ ran) /\ UNCHANGED <<origin, plan>>
    BY <1>4 DEF Inv, GroupInv, PlansAreGrouped, TodoIsLeft, AddLayer, Planning
  <2>2. LayerReady \in SUBSET Ids
    BY <1>0 DEF LayerReady, TypeOK
  <2>3. /\ <<LayerReady>> \in Seq(SUBSET Ids)
        /\ DOMAIN <<LayerReady>> = {1} /\ <<LayerReady>>[1] = LayerReady
        /\ layers' = layers \o <<LayerReady>>
    BY <1>0, <1>4, <2>2 DEF AddLayer
  <2>4. \A k \in DOMAIN <<LayerReady>> : \A i, j \in <<LayerReady>>[k] : i # j => Independent(i, j)
    BY <2>1, <2>3, ReadyIsIndependent
  <2> QED
    BY <1>0, <2>1, <2>3, <2>4, AppendedIsIndependent
<1>5. CASE Layered
  <2>1. CASE layers = <<>>
    <3>1. layers' = OneByOne(todo) /\ todo \in SUBSET Ids
      BY <1>0, <1>5, <2>1 DEF Layered, TypeOK
    <3> QED
      BY <3>1, OneByOneIsSingle DEF NeverTogether
  <2>2. CASE layers # <<>>
    BY <1>2, <1>5, <2>2 DEF Layered, Planning
  <2> QED
    BY <2>1, <2>2
<1>6. CASE RunLayer
  <2>1. UNCHANGED <<origin, plan>> /\ layers # <<>> /\ (layers' = Tail(layers) \/ layers' = layers)
    BY <1>6 DEF RunLayer
  <2>2. CASE layers' = Tail(layers)
    <3>1. \A k \in DOMAIN layers' : k + 1 \in DOMAIN layers /\ layers'[k] = layers[k + 1]
      BY <1>0, <2>1, <2>2
    <3> QED
      BY <1>0, <1>1, <2>1, <3>1 DEF NeverTogether
  <2> QED
    BY <1>2, <2>1, <2>2
<1>7. CASE Resume
  BY <1>7 DEF Resume, NeverTogether
<1>8. CASE Round \/ Sequential \/ Ranked \/ Ordered \/ Finish \/ UNCHANGED vars
  BY <1>2, <1>8 DEF Round, Sequential, Ranked, Ordered, Finish, vars, Planning, Executing
<1> QED
  BY <1>3, <1>4, <1>5, <1>6, <1>7, <1>8 DEF Next

-----------------------------------------------------------------------------
(* A plan of any size keeps its types.                                      *)
THEOREM TypeCorrect == Spec => []TypeOK
<1> QED
  BY TypeInit, TypeNext, PTL DEF Spec

(* Steps that may disturb each other are never in one layer, so the threads *)
(* of _execute_parallel_group never run them at the same time, whatever the *)
(* plan, also after it was resumed (build_dag, assign_parallel_groups,      *)
(* _group_by_dependency).                                                   *)
THEOREM Independence == Spec => []NeverTogether
<1>1. Init => Inv
  <2> SUFFICES ASSUME Init PROVE Inv
    OBVIOUS
  <2>1. TodoIsLeft /\ NeverTogether
    BY DEF Init, TodoIsLeft, NeverTogether
  <2> QED
    BY <2>1, GroupInit DEF Inv
<1>2. Inv /\ [Next]_vars => Inv'
  BY GroupNext, TodoNext, NeverTogetherNext DEF Inv
<1>3. Inv => NeverTogether
  BY DEF Inv
<1> QED
  BY <1>1, <1>2, <1>3, PTL DEF Spec

-----------------------------------------------------------------------------
(* The order of the layers.                                                 *)

LEMMA NeedsType ==
  ASSUME NEW i \in Ids, NEW j \in Needs(i)
  PROVE  /\ i \in Int /\ j \in Ids /\ j \in Int /\ j < i
         /\ j \in plan[i].refs \/ origin = "planner"
         /\ origin = "planner" => j \in DependsOn(i)
         /\ origin = "skill" => j \in plan[i].refs
<1>1. j \in 0 .. i - 1 /\ i \in Int
  BY IdsAreIntegers DEF Needs
<1>2. j \in Ids
  BY <1>1, PlanAssumption DEF Ids
<1> QED
  BY <1>1, <1>2 DEF Needs, DependsOn, Clash

LEMMA DependsOnEarlier ==
  ASSUME Backward, NEW i \in Ids, NEW j \in DependsOn(i), j \in Ids
  PROVE  j < i
<1>1. i \in Int /\ j \in Int
  BY IdsAreIntegers
<1> QED
  BY <1>1 DEF DependsOn, Backward

(* Every non-empty set of steps has a first one: otherwise the places of    *)
(* its steps would be too few.                                              *)
LEMMA FirstExists ==
  ASSUME NEW S \in SUBSET Ids, S # {}
  PROVE  \E i \in S : \A j \in S : i <= j
<1> DEFINE n == Cardinality(S)
           place == [i \in S |-> Rank(i, S)]
<1>1. IsFiniteSet(S) /\ n \in Nat
  BY SubsetsAreFinite, FS_CardinalityType
<1>2. PICK i \in S : Rank(i, S) = 0
  <2> SUFFICES ASSUME \A i \in S : Rank(i, S) # 0 PROVE FALSE
    OBVIOUS
  <2>1. \A i \in S : Rank(i, S) \in Nat /\ Rank(i, S) + 1 \in 1 .. n
    BY RankType, RankIsBounded
  <2>2. \A i \in S : Rank(i, S) \in 1 .. n - 1
    BY <1>1, <2>1
  <2>3. place \in [S -> 1 .. n - 1]
    BY <2>2
  <2>4. n # 0
    BY <1>1, FS_EmptySet
  <2>5. IsFiniteSet(1 .. n - 1) /\ Cardinality(1 .. n - 1) = n - 1
    <3> HIDE DEF n
    <3>1. n - 1 \in Int /\ 1 \in Int
      BY <1>1
    <3>2. Cardinality(1 .. n - 1) = (IF 1 > n - 1 THEN 0 ELSE (n - 1) - 1 + 1) /\ IsFiniteSet(1 .. n - 1)
      BY <3>1, FS_Interval
    <3> QED
      BY <1>1, <2>4, <3>2
  <2>6. Cardinality(1 .. n - 1) < Cardinality(S)
    BY <1>1, <2>5
  <2> HIDE DEF place, n
  <2>7. PICK i, j \in S : i # j /\ place[i] = place[j]
    BY <1>1, <2>3, <2>5, <2>6, FS_PigeonHole
  <2>8. Rank(i, S) = Rank(j, S)
    BY <2>7 DEF place
  <2> QED
    BY <2>7, <2>8, RankIsUnique
<1>3. IsFiniteSet({j \in S : j < i}) /\ Cardinality({j \in S : j < i}) = 0
  BY <1>2, SubsetsAreFinite DEF Rank
<1>4. {j \in S : j < i} = {}
  BY <1>3, FS_EmptySet
<1>5. i \in Int /\ \A j \in S : j \in Int
  BY IdsAreIntegers
<1>6. \A j \in S : ~(j < i)
  BY <1>4
<1> QED
  BY <1>5, <1>6

-----------------------------------------------------------------------------
(* The groups.  A step's needs are in groups below its own, and in every    *)
(* group below its own there is an earlier step (unless the step got its    *)
(* group in the sequential fallback, where it is alone).  So the first step *)
(* of the group of a need is before the first of the step's own group.      *)
Ascending ==
  \A i \in Ids : group[i] # -1 =>
    group[i] >= 0 /\ \A j \in Needs(i) : group[j] # -1 /\ group[j] < group[i]

Chained ==
  Remaining # {} => \A i \in Ids : \A g \in 0 .. group[i] - 1 :
                      \E d \in Ids : d < i /\ group[d] = g

Pending ==
  phase = "rank" => \A i \in Remaining : left[i] = {} /\ groupNo > 0 =>
                      \E d \in Ids : d < i /\ group[d] = groupNo - 1

Leads ==
  \A i, m \in Ids : group[i] # -1 /\ group[m] = group[i] =>
    \A j \in Needs(i) : \E d \in Ids : d < m /\ group[d] = group[j]

RankInv == GroupInv /\ Ascending /\ (Backward => Chained /\ Pending /\ Leads)

LEMMA NeedsAreFixed ==
  ASSUME UNCHANGED <<origin, plan>>
  PROVE  /\ \A i : Needs(i)' = Needs(i) /\ DependsOn(i)' = DependsOn(i)
         /\ Backward' <=> Backward
  BY DEF Needs, Backward, DependsOn

LEMMA RankInit == Init => RankInv
<1> SUFFICES ASSUME Init PROVE RankInv
  OBVIOUS
<1>1. GroupInv /\ \A i \in Ids : group[i] = -1
  BY GroupInit DEF Init
<1>2. groupNo = 0
  BY DEF Init
<1> QED
  BY <1>1, <1>2 DEF RankInv, Ascending, Chained, Pending, Leads

LEMMA RankRound == ASSUME RankInv, GroupInv', Round PROVE RankInv'
<1>1. /\ \A i : Needs(i)' = Needs(i) /\ DependsOn(i)' = DependsOn(i)
      /\ Backward' <=> Backward
      /\ phase = "rank" /\ origin = "planner"
  BY NeedsAreFixed DEF Round, RankInv, GroupInv, PlansAreGrouped
<1>2. /\ Ready \subseteq Remaining /\ Remaining \subseteq Ids /\ Remaining # {}
      /\ groupNo \in Nat /\ groupNo' = groupNo + 1
      /\ \A i \in Ids : group[i] \in Int
  BY DEF Ready, Remaining, RankInv, GroupInv, TypeOK, Round
<1>3. \A i \in Ids : group'[i] = IF i \in Ready THEN groupNo ELSE group[i]
  BY DEF Round
<1>4. \A i \in Ids : group[i] < groupNo /\ (i \in Remaining <=> group[i] = -1)
  BY <1>2 DEF RankInv, GroupInv, GroupsAreBelow, Remaining
<1>5. Ascending'
  <2> SUFFICES ASSUME NEW i \in Ids, group'[i] # -1
               PROVE  group'[i] >= 0 /\ \A j \in Needs(i) : group'[j] # -1 /\ group'[j] < group'[i]
    BY <1>1 DEF Ascending
  <2>1. CASE i \in Ready
    <3>1. DependsOn(i) \intersect Remaining = {}
      BY <1>1, <1>2, <2>1 DEF Ready, RankInv, GroupInv, LeftIsNeeded
    <3>2. ASSUME NEW j \in Needs(i) PROVE group'[j] # -1 /\ group'[j] < group'[i]
      <4>1. j \in Ids /\ j \notin Remaining
        BY <1>1, <3>1, NeedsType
      <4> QED
        BY <4>1, <2>1, <1>2, <1>3, <1>4
    <3> QED
      BY <3>2, <2>1, <1>2, <1>3
  <2>2. CASE i \notin Ready
    <3>1. ASSUME NEW j \in Needs(i) PROVE group'[j] # -1 /\ group'[j] < group'[i]
      <4>1. j \in Ids /\ group[j] # -1 /\ group[j] < group[i]
        BY <2>2, <1>3, NeedsType DEF RankInv, Ascending
      <4> QED
        BY <4>1, <2>2, <1>2, <1>3, <1>4
    <3> QED
      BY <3>1, <2>2, <1>3 DEF RankInv, Ascending
  <2> QED
    BY <2>1, <2>2
<1>6. ASSUME Backward
      PROVE  \A i \in Ids : \A g \in 0 .. group'[i] - 1 : \E d \in Ids : d < i /\ group'[d] = g
  <2> SUFFICES ASSUME NEW i \in Ids, NEW g \in 0 .. group'[i] - 1
               PROVE  \E d \in Ids : d < i /\ group'[d] = g
    OBVIOUS
  <2>0. Chained /\ Pending /\ i \in Int
    BY <1>6, IdsAreIntegers DEF RankInv
  <2>1. \A d \in Ids : group[d] # -1 => group'[d] = group[d]
    BY <1>2, <1>3, <1>4
  <2>2. CASE i \notin Ready
    <3>1. PICK d \in Ids : d < i /\ group[d] = g
      BY <2>0, <2>2, <1>2, <1>3 DEF Chained
    <3> QED
      BY <3>1, <2>1
  <2>3. CASE i \in Ready
    <3>1. g \in 0 .. groupNo - 1 /\ groupNo > 0
      BY <2>3, <1>2, <1>3
    <3>2. PICK e \in Ids : e < i /\ group[e] = groupNo - 1
      BY <2>0, <2>3, <3>1, <1>1, <1>2 DEF Pending, Ready
    <3>3. CASE g = groupNo - 1
      BY <3>2, <3>3, <2>1, <3>1
    <3>4. CASE g # groupNo - 1
      <4>1. g \in 0 .. group[e] - 1
        BY <3>1, <3>2, <3>4, <1>2
      <4>2. PICK d \in Ids : d < e /\ group[d] = g
        BY <4>1, <2>0, <1>2 DEF Chained
      <4>3. d < i /\ group'[d] = g
        BY <4>2, <3>1, <3>2, <2>0, <2>1, IdsAreIntegers
      <4> QED
        BY <4>3
    <3> QED
      BY <3>3, <3>4
  <2> QED
    BY <2>2, <2>3
<1>7. ASSUME Backward PROVE Pending'
  <2> SUFFICES ASSUME NEW i \in Remaining', left'[i] = {}
               PROVE  \E d \in Ids : d < i /\ group'[d] = groupNo' - 1
    BY DEF Pending
  <2>1. i \in Ids /\ i \in Remaining /\ i \notin Ready
    BY <1>2, <1>3, <1>4 DEF Remaining
  <2>2. left[i] # {} /\ left'[i] = left[i] \ Ready
    BY <2>1 DEF Round, Ready
  <2>3. PICK d \in left[i] : d \in Ready
    BY <2>2
  <2>4. d \in DependsOn(i) /\ d \in Ids
    BY <2>1, <2>3, <1>1, <1>2 DEF RankInv, GroupInv, LeftIsNeeded
  <2>5. d < i /\ group'[d] = groupNo' - 1
    BY <2>1, <2>3, <2>4, <1>2, <1>3, <1>7, DependsOnEarlier
  <2> QED
    BY <2>4, <2>5
<1>8. ASSUME Backward PROVE Leads'
  <2> SUFFICES ASSUME NEW i \in Ids, NEW m \in Ids, group'[i] # -1, group'[m] = group'[i], NEW j \in Needs(i)
               PROVE  \E d \in Ids : d < m /\ group'[d] = group'[j]
    BY <1>1 DEF Leads
  <2>1. j \in Ids /\ group'[j] \in Int /\ group'[i] \in Int
    BY NeedsType DEF GroupInv, TypeOK
  <2>2. group'[j] # -1 /\ group'[j] < group'[m] /\ group'[j] >= 0
    BY <1>1, <1>5, <2>1 DEF Ascending
  <2>3. group'[j] \in 0 .. group'[m] - 1
    BY <2>1, <2>2
  <2> QED
    BY <1>6, <1>8, <2>3
<1> QED
  BY <1>1, <1>5, <1>6, <1>7, <1>8 DEF RankInv, Chained

LEMMA RankSequential == ASSUME RankInv, GroupInv', Sequential PROVE RankInv'
<1>1. /\ \A i : Needs(i)' = Needs(i) /\ DependsOn(i)' = DependsOn(i)
      /\ Backward' <=> Backward
  BY NeedsAreFixed DEF Sequential
<1>2. /\ Remaining \in SUBSET Ids /\ Remaining # {}
      /\ groupNo \in Nat /\ \A i \in Ids : group[i] \in Int
  BY DEF Remaining, RankInv, GroupInv, TypeOK, Sequential
<1>3. \A i \in Ids : group'[i] = IF i \in Remaining THEN Offset(i) ELSE group[i]
  BY DEF Sequential
<1>4. \A i \in Remaining : Offset(i) \in Nat /\ Offset(i) >= groupNo
  BY <1>2, RankType DEF Offset
<1>5. \A i \in Ids : group[i] < groupNo /\ (i \in Remaining <=> group[i] = -1)
  BY <1>2 DEF RankInv, GroupInv, GroupsAreBelow, Remaining
<1>6. Ascending'
  <2> SUFFICES ASSUME NEW i \in Ids, group'[i] # -1
               PROVE  group'[i] >= 0 /\ \A j \in Needs(i) : group'[j] # -1 /\ group'[j] < group'[i]
    BY <1>1 DEF Ascending
  <2>1. CASE i \in Remaining
    <3>1. ASSUME NEW j \in Needs(i) PROVE group'[j] # -1 /\ group'[j] < group'[i]
      <4>1. j \in Ids /\ j < i
        BY NeedsType
      <4>2. CASE j \in Remaining
        <5>1. Rank(j, Remaining) < Rank(i, Remaining)
          BY <1>2, <2>1, <4>1, <4>2, RankIsMonotone
        <5>2. Rank(j, Remaining) \in Nat /\ Rank(i, Remaining) \in Nat
          BY <1>2, RankType
        <5> QED
          BY <1>2, <1>3, <2>1, <4>2, <5>1, <5>2 DEF Offset
      <4>3. CASE j \notin Remaining
        BY <1>2, <1>3, <1>4, <1>5, <2>1, <4>1, <4>3
      <4> QED
        BY <4>2, <4>3
    <3> QED
      BY <3>1, <2>1, <1>3, <1>4
  <2>2. CASE i \notin Remaining
    <3>1. ASSUME NEW j \in Needs(i) PROVE group'[j] # -1 /\ group'[j] < group'[i]
      <4>1. j \in Ids /\ group[j] # -1 /\ group[j] < group[i]
        BY <2>2, <1>3, NeedsType DEF RankInv, Ascending
      <4> QED
        BY <4>1, <2>2, <1>3, <1>5
    <3> QED
      BY <3>1, <2>2, <1>3 DEF RankInv, Ascending
  <2> QED
    BY <2>1, <2>2
<1>7. Remaining' = {}
  BY <1>3, <1>4 DEF Remaining
<1>8. ASSUME Backward PROVE Leads'
  <2> SUFFICES ASSUME NEW i \in Ids, NEW m \in Ids, group'[i] # -1, group'[m] = group'[i], NEW j \in Needs(i)
               PROVE  \E d \in Ids : d < m /\ group'[d] = group'[j]
    BY <1>1 DEF Leads
  <2>1. j \in Ids /\ j < i
    BY NeedsType
  <2>2. CASE i \in Remaining /\ m \in Remaining
    <3>1. Rank(i, Remaining) \in Nat /\ Rank(m, Remaining) \in Nat
      BY <1>2, RankType
    <3>2. Rank(i, Remaining) = Rank(m, Remaining)
      BY <1>2, <1>3, <2>2, <3>1 DEF Offset
    <3>3. i = m
      BY <1>2, <2>2, <3>2, RankIsUnique
    <3> QED
      BY <2>1, <3>3
  <2>3. CASE i \in Remaining /\ m \notin Remaining
    BY <1>2, <1>3, <1>4, <1>5, <2>3
  <2>4. CASE i \notin Remaining /\ m \in Remaining
    BY <1>2, <1>3, <1>4, <1>5, <2>4
  <2>5. CASE i \notin Remaining /\ m \notin Remaining
    <3>1. group[j] # -1
      BY <1>3, <2>5 DEF RankInv, Ascending
    <3>2. PICK d \in Ids : d < m /\ group[d] = group[j]
      BY <1>3, <1>8, <2>5 DEF RankInv, Leads
    <3>3. group'[d] = group'[j]
      BY <1>3, <1>5, <2>1, <3>1, <3>2
    <3> QED
      BY <3>2, <3>3
  <2> QED
    BY <2>2, <2>3, <2>4, <2>5
<1>9. Chained' /\ Pending'
  BY <1>7 DEF Chained, Pending
<1> QED
  BY <1>1, <1>6, <1>8, <1>9 DEF RankInv

LEMMA RankNext == RankInv /\ [Next]_vars => RankInv'
<1> SUFFICES ASSUME RankInv, [Next]_vars PROVE RankInv'
  OBVIOUS
<1>1. GroupInv'
  BY GroupNext DEF RankInv
<1>2. CASE Round
  BY <1>1, <1>2, RankRound
<1>3. CASE Sequential
  BY <1>1, <1>3, RankSequential
<1>4. CASE Ranked \/ Gather \/ Ordered \/ AddLayer \/ Layered \/ RunLayer \/ Finish \/ Resume \/ UNCHANGED vars
  <2>1. UNCHANGED <<origin, plan, left, group, groupNo>>
    BY <1>4 DEF Ranked, Gather, Ordered, AddLayer, Layered, RunLayer, Finish, Resume, vars, Planning, Executing
  <2>2. phase' = "rank" => phase = "rank"
    BY <1>4 DEF Ranked, Gather, Ordered, AddLayer, Layered, RunLayer, Finish, Resume, vars
  <2>3. Remaining' = Remaining
    BY <2>1 DEF Remaining
  <2>4. (\A i : Needs(i)' = Needs(i)) /\ (Backward' <=> Backward)
    BY <2>1, NeedsAreFixed
  <2>5. Ascending' /\ (Backward => Chained' /\ Leads')
    BY <2>1, <2>3, <2>4 DEF RankInv, Ascending, Chained, Leads
  <2>6. Backward => Pending'
    BY <2>1, <2>2, <2>3 DEF RankInv, Pending
  <2> QED
    BY <1>1, <2>4, <2>5, <2>6 DEF RankInv
<1> QED
  BY <1>2, <1>3, <1>4 DEF Next

-----------------------------------------------------------------------------
(* The layers.  A step is out of todo once it is in a layer; of a plan that *)
(* was not resumed, todo holds whole groups; and what the steps of a layer  *)
(* need is in an earlier one.                                               *)
Placed(i) == i \in ran \union over \/ \E k \in DOMAIN layers : i \in layers[k]

Fresh == phase = "rank" => todo = Ids
Whole == phase = "order" /\ ~resumed =>
           \A i \in Ids \ todo, j \in Ids : group[j] = group[i] => j \notin todo
Covered == phase \in {"order", "layer"} => \A i \in Ids \ todo : Placed(i)
Complete == phase = "run" /\ (origin = "planner" \/ Backward) => \A i \in Ids : Placed(i)

InOrder == Backward /\ (origin = "skill" \/ ~resumed)
Served ==
  InOrder => \A k \in DOMAIN layers : \A i \in layers[k] : \A j \in Needs(i) :
               j \in ran \union over \/ \E m \in DOMAIN layers : m < k /\ j \in layers[m]

OrderInv == RankInv /\ Fresh /\ Whole /\ Covered /\ Complete /\ Served /\ AllStepsRun

LEMMA AppendedIsPlaced ==
  ASSUME TypeOK, NEW P \in Seq(SUBSET Ids), layers' = layers \o P, UNCHANGED <<ran, over>>
  PROVE  /\ \A i \in Ids : Placed(i) => Placed(i)'
         /\ \A k \in DOMAIN P : \A i \in P[k] : Placed(i)'
<1>1. layers \in Seq(SUBSET Ids)
  BY DEF TypeOK
<1>2. \A k \in DOMAIN layers : k \in DOMAIN layers' /\ layers'[k] = layers[k]
  BY <1>1
<1>3. \A k \in DOMAIN P : Len(layers) + k \in DOMAIN layers' /\ layers'[Len(layers) + k] = P[k]
  BY <1>1
<1> QED
  BY <1>2, <1>3 DEF Placed

LEMMA AppendedIsServed ==
  ASSUME TypeOK, Served, InOrder, UNCHANGED <<origin, plan, resumed, ran, over>>,
         NEW P \in Seq(SUBSET Ids), layers' = layers \o P,
         \A k \in DOMAIN P : \A i \in P[k] : \A j \in Needs(i) : Placed(j)
  PROVE  Served'
<1>1. layers \in Seq(SUBSET Ids) /\ (\A i : Needs(i)' = Needs(i))
  BY NeedsAreFixed DEF TypeOK
<1> SUFFICES ASSUME NEW k \in DOMAIN layers', NEW i \in layers'[k], NEW j \in Needs(i), j \notin ran \union over
             PROVE  \E m \in DOMAIN layers' : m < k /\ j \in layers'[m]
  BY <1>1 DEF Served
<1>2. \A m \in DOMAIN layers : m \in DOMAIN layers' /\ layers'[m] = layers[m] /\ m <= Len(layers)
  BY <1>1
<1>3. CASE k \in DOMAIN layers
  <2>1. PICK m \in DOMAIN layers : m < k /\ j \in layers[m]
    BY <1>2, <1>3 DEF Served
  <2> QED
    BY <1>2, <2>1
<1>4. CASE k \notin DOMAIN layers
  <2>1. k - Len(layers) \in DOMAIN P /\ layers'[k] = P[k - Len(layers)] /\ k \in Nat /\ k > Len(layers)
    BY <1>1, <1>4
  <2>2. PICK m \in DOMAIN layers : j \in layers[m]
    BY <2>1 DEF Placed
  <2>3. m < k
    BY <1>1, <1>2, <2>1, <2>2
  <2> QED
    BY <1>2, <2>2, <2>3
<1> QED
  BY <1>3, <1>4

LEMMA OrderGather == ASSUME OrderInv, Gather, RankInv' PROVE OrderInv'
<1>1. TypeOK /\ TypeOK' /\ todo \in SUBSET Ids
  BY DEF OrderInv, RankInv, GroupInv, TypeOK
<1>2. /\ UNCHANGED <<origin, plan, group, ran, over, resumed, phase>>
      /\ phase = "order" /\ origin = "planner" /\ Remaining = {}
  BY DEF Gather, Planning, OrderInv, RankInv, GroupInv, PlansAreGrouped
<1>3. PICK i0 \in todo : /\ \A j \in todo : i0 <= j
                         /\ LET G == {j \in todo : group[j] = group[i0]}
                            IN layers' = layers \o Split(G) /\ todo' = todo \ G
  BY DEF Gather
<1> DEFINE G == {j \in todo : group[j] = group[i0]}
<1>4. /\ G \in SUBSET Ids /\ layers' = layers \o Split(G) /\ todo' = todo \ G
      /\ \A i \in G : i \in todo /\ group[i] = group[i0]
      /\ \A i \in todo : group[i] = group[i0] => i \in G
  BY <1>1, <1>3
<1> HIDE DEF G
<1>5. /\ Split(G) \in Seq(SUBSET Ids)
      /\ \A i \in G : \E k \in DOMAIN Split(G) : i \in Split(G)[k]
      /\ \A k \in DOMAIN Split(G) : Split(G)[k] \subseteq G
  BY <1>4, SplitType
<1>6. Covered'
  <2>1. \A i \in Ids : Placed(i) => Placed(i)'
    BY <1>1, <1>2, <1>4, <1>5, AppendedIsPlaced
  <2>2. \A i \in G : Placed(i)'
    BY <1>1, <1>2, <1>4, <1>5, AppendedIsPlaced
  <2>3. \A i \in Ids \ todo' : i \in G \/ i \in Ids \ todo
    BY <1>4
  <2> QED
    BY <1>2, <1>4, <2>1, <2>2, <2>3 DEF OrderInv, Covered
<1>7. Whole'
  BY <1>1, <1>2, <1>4 DEF OrderInv, Whole
<1>8. CASE InOrder
  <2>1. ASSUME NEW i \in G, NEW j \in Needs(i) PROVE Placed(j)
    <3>1. i \in Ids /\ j \in Ids /\ group[i] # -1 /\ group[i] = group[i0] /\ i0 \in Ids
      BY <1>1, <1>2, <1>4, NeedsType DEF Remaining
    <3>2. PICK d \in Ids : d < i0 /\ group[d] = group[j]
      BY <1>8, <3>1 DEF InOrder, OrderInv, RankInv, Leads
    <3>3. d \notin todo
      BY <1>3, <3>1, <3>2, IdsAreIntegers
    <3>4. ~resumed
      BY <1>2, <1>8 DEF InOrder
    <3>5. j \notin todo
      BY <1>2, <3>1, <3>2, <3>3, <3>4 DEF OrderInv, Whole
    <3> QED
      BY <1>2, <3>1, <3>5 DEF OrderInv, Covered
  <2>2. \A k \in DOMAIN Split(G) : \A i \in Split(G)[k] : \A j \in Needs(i) : Placed(j)
    BY <1>5, <2>1
  <2>3. Served'
    BY <1>1, <1>2, <1>4, <1>5, <1>8, <2>2, AppendedIsServed DEF OrderInv
  <2> QED
    BY <1>2, <1>6, <1>7, <2>3 DEF OrderInv, Fresh, Complete, AllStepsRun
<1>9. CASE ~InOrder
  <2>1. Served'
    BY <1>2, <1>9, NeedsAreFixed DEF Served, InOrder
  <2> QED
    BY <1>2, <1>6, <1>7, <2>1 DEF OrderInv, Fresh, Complete, AllStepsRun
<1> QED
  BY <1>8, <1>9

LEMMA OrderAddLayer == ASSUME OrderInv, AddLayer, RankInv' PROVE OrderInv'
<1>1. TypeOK /\ LayerReady \in SUBSET todo /\ todo \in SUBSET Ids
  BY DEF OrderInv, RankInv, GroupInv, TypeOK, LayerReady
<1>2. /\ UNCHANGED <<origin, plan, group, ran, over, resumed, phase>>
      /\ phase = "layer" /\ origin = "skill"
  BY DEF AddLayer, Planning, OrderInv, RankInv, GroupInv, PlansAreGrouped
<1> DEFINE P == <<LayerReady>>
<1>3. /\ P \in Seq(SUBSET Ids) /\ DOMAIN P = {1} /\ P[1] = LayerReady
      /\ layers' = layers \o P /\ todo' = todo \ LayerReady
  BY <1>1 DEF AddLayer, TypeOK
<1> HIDE DEF P
<1>4. Covered'
  <2>1. \A i \in Ids : Placed(i) => Placed(i)'
    BY <1>1, <1>2, <1>3, AppendedIsPlaced
  <2>2. \A i \in LayerReady : Placed(i)'
    BY <1>1, <1>2, <1>3, AppendedIsPlaced
  <2> QED
    BY <1>2, <1>3, <2>1, <2>2 DEF OrderInv, Covered
<1>5. CASE InOrder
  <2>1. ASSUME NEW i \in LayerReady, NEW j \in Needs(i) PROVE Placed(j)
    <3>1. j \in Ids /\ j \in plan[i].refs
      BY <1>1, <1>2, NeedsType
    <3>2. CASE j \in ran
      BY <3>2 DEF Placed
    <3>3. CASE j \notin ran
      <4>1. j \in Graph(i) /\ Graph(i) \intersect todo = {}
        BY <3>1, <3>3 DEF Graph, LayerReady
      <4> QED
        BY <1>2, <3>1, <4>1 DEF OrderInv, Covered
    <3> QED
      BY <3>2, <3>3
  <2>2. Served'
    BY <1>1, <1>2, <1>3, <1>5, <2>1, AppendedIsServed DEF OrderInv
  <2> QED
    BY <1>2, <1>4, <2>2 DEF OrderInv, Fresh, Whole, Complete, AllStepsRun
<1>6. CASE ~InOrder
  <2>1. Served'
    BY <1>2, <1>6, NeedsAreFixed DEF Served, InOrder
  <2> QED
    BY <1>2, <1>4, <2>1 DEF OrderInv, Fresh, Whole, Complete, AllStepsRun
<1> QED
  BY <1>5, <1>6

(* As long as no step refers to a later one, the first of the steps that    *)
(* are in no layer is always ready.                                         *)
LEMMA FirstIsReady ==
  ASSUME TypeOK, Backward, todo # {}
  PROVE  LayerReady # {}
<1>1. todo \in SUBSET Ids
  BY DEF TypeOK
<1>2. PICK i \in todo : \A j \in todo : i <= j
  BY <1>1, FirstExists
<1>3. \A j \in Graph(i) : j < i
  BY <1>1 DEF Graph, Backward
<1>4. \A j \in todo : j \in Int /\ i \in Int
  BY <1>1, IdsAreIntegers
<1>5. Graph(i) \intersect todo = {}
  BY <1>2, <1>3, <1>4
<1> QED
  BY <1>5 DEF LayerReady

LEMMA OrderLayered == ASSUME OrderInv, Layered, RankInv' PROVE OrderInv'
<1>1. /\ TypeOK /\ TypeOK' /\ UNCHANGED <<origin, plan, group, ran, over, resumed, todo>>
      /\ phase = "layer" /\ phase' = "run" /\ origin = "skill"
  BY DEF Layered, Planning, OrderInv, RankInv, GroupInv, PlansAreGrouped
<1>2. (\A i : Needs(i)' = Needs(i)) /\ (Backward' <=> Backward)
  BY <1>1, NeedsAreFixed
<1>3. CASE Backward
  <2>1. todo = {}
    BY <1>1, <1>3, FirstIsReady DEF Layered
  <2>2. DOMAIN layers' = DOMAIN layers /\ \A k \in DOMAIN layers : layers'[k] = layers[k]
    <3>1. CASE layers = <<>>
      <4>1. Cardinality(todo) = 0 /\ todo \in SUBSET Ids
        BY <2>1, FS_EmptySet
      <4>2. DOMAIN OneByOne(todo) = 1 .. Cardinality(todo)
        BY <4>1, OneByOneType
      <4>3. DOMAIN OneByOne(todo) = {}
        BY <4>1, <4>2
      <4>4. DOMAIN layers = {}
        BY <3>1
      <4> QED
        BY <3>1, <4>3, <4>4 DEF Layered
    <3> QED
      BY <3>1 DEF Layered
  <2>3. \A i \in Ids : Placed(i)
    BY <1>1, <2>1 DEF OrderInv, Covered
  <2>4. Complete'
    BY <1>1, <2>2, <2>3 DEF Complete, Placed
  <2>5. Served'
    BY <1>1, <1>2, <2>2 DEF OrderInv, Served, InOrder
  <2> QED
    BY <1>1, <2>4, <2>5 DEF OrderInv, Fresh, Whole, Covered, AllStepsRun
<1>4. CASE ~Backward
  BY <1>1, <1>2, <1>4 DEF OrderInv, Fresh, Whole, Covered, Complete, Served, InOrder, AllStepsRun
<1> QED
  BY <1>3, <1>4

LEMMA OrderRunLayer == ASSUME OrderInv, RunLayer, RankInv' PROVE OrderInv'
<1>1. /\ layers \in Seq(SUBSET Ids) /\ layers # <<>>
      /\ UNCHANGED <<origin, plan, group, todo, resumed>>
      /\ phase = "run" /\ phase' \in {"run", "failed", "interrupted"}
  BY DEF RunLayer, OrderInv, RankInv, GroupInv, TypeOK
<1>2. (\A i : Needs(i)' = Needs(i)) /\ (Backward' <=> Backward)
  BY <1>1, NeedsAreFixed
<1>3. ran \subseteq ran' /\ over \subseteq over'
  BY DEF RunLayer
<1>4. CASE phase' = "run"
  <2>1. layers' = Tail(layers) /\ Head(layers) \subseteq ran' \union over'
    BY <1>1, <1>4 DEF RunLayer
  <2>2. /\ 1 \in DOMAIN layers /\ Head(layers) = layers[1] /\ DOMAIN layers \subseteq Nat
        /\ \A k \in DOMAIN layers' : k \in Nat /\ k + 1 \in DOMAIN layers /\ layers'[k] = layers[k + 1]
        /\ \A k \in DOMAIN layers : k # 1 => k - 1 \in DOMAIN layers' /\ layers'[k - 1] = layers[k]
    <3>1. 1 \in DOMAIN layers /\ Head(layers) = layers[1] /\ DOMAIN layers = 1 .. Len(layers) /\ Len(layers) \in Nat
      BY <1>1
    <3>2. DOMAIN layers' = 1 .. Len(layers) - 1 /\ \A k \in 1 .. Len(layers) - 1 : layers'[k] = layers[k + 1]
      BY <1>1, <2>1
    <3>3. \A k \in DOMAIN layers : k # 1 => k - 1 \in DOMAIN layers' /\ layers'[k - 1] = layers[k]
      <4> SUFFICES ASSUME NEW k \in DOMAIN layers, k # 1 PROVE k - 1 \in DOMAIN layers' /\ layers'[k - 1] = layers[k]
        OBVIOUS
      <4>1. k - 1 \in 1 .. Len(layers) - 1 /\ (k - 1) + 1 = k
        BY <3>1
      <4> QED
        BY <3>2, <4>1
    <3> QED
      BY <3>1, <3>2, <3>3
  <2>3. Complete'
    <3> SUFFICES ASSUME Complete, origin = "planner" \/ Backward, NEW i \in Ids PROVE Placed(i)'
      BY <1>1, <1>2, <1>4 DEF Complete, OrderInv
    <3>1. Placed(i)
      BY <1>1 DEF Complete
    <3> QED
      BY <1>3, <2>1, <2>2, <3>1 DEF Placed
  <2>4. Served'
    <3> SUFFICES ASSUME InOrder, NEW k \in DOMAIN layers', NEW i \in layers'[k], NEW j \in Needs(i),
                        j \notin ran' \union over'
                 PROVE  \E m \in DOMAIN layers' : m < k /\ j \in layers'[m]
      BY <1>1, <1>2 DEF Served, InOrder
    <3>1. k \in Nat /\ k + 1 \in DOMAIN layers /\ i \in layers[k + 1]
      BY <2>2
    <3>2. PICK m \in DOMAIN layers : m < k + 1 /\ j \in layers[m]
      BY <1>3, <3>1 DEF OrderInv, Served
    <3>3. m # 1 /\ m \in Nat
      BY <2>1, <2>2, <3>2
    <3> QED
      BY <2>2, <3>1, <3>2, <3>3
  <2> QED
    BY <1>1, <1>4, <2>3, <2>4 DEF OrderInv, Fresh, Whole, Covered, AllStepsRun
<1>5. CASE phase' # "run"
  <2>1. layers' = layers
    BY <1>1, <1>5 DEF RunLayer
  <2>2. Served'
    BY <1>1, <1>2, <1>3, <2>1 DEF OrderInv, Served, InOrder
  <2> QED
    BY <1>1, <1>5, <2>2 DEF OrderInv, Fresh, Whole, Covered, Complete, AllStepsRun
<1> QED
  BY <1>4, <1>5

LEMMA OrderOther ==
  ASSUME OrderInv, Round \/ Sequential \/ Ranked \/ Ordered \/ Finish \/ Resume \/ UNCHANGED vars, RankInv'
  PROVE  OrderInv'
<1>1. UNCHANGED <<origin, plan>> /\ TypeOK /\ TypeOK'
  BY DEF Round, Sequential, Ranked, Ordered, Finish, Resume, vars, Planning, Executing, OrderInv, RankInv, GroupInv
<1>2. (\A i : Needs(i)' = Needs(i)) /\ (Backward' <=> Backward)
  BY <1>1, NeedsAreFixed
<1>3. CASE Resume
  <2>1. phase' \in {"order", "layer"} /\ layers' = <<>> /\ todo' = Ids \ ran /\ ran' = ran /\ resumed' = TRUE
    BY <1>3 DEF Resume
  <2> QED
    BY <2>1 DEF OrderInv, Fresh, Whole, Covered, Complete, Served, AllStepsRun, Placed
<1>4. CASE ~Resume
  <2>1. UNCHANGED <<todo, layers, ran, over, resumed>>
    BY <1>4 DEF Round, Sequential, Ranked, Ordered, Finish, Resume, vars, Planning, Executing
  <2>2. (\A i : Placed(i)' <=> Placed(i)) /\ Served'
    BY <1>1, <1>2, <2>1 DEF OrderInv, Placed, Served, InOrder
  <2>3. CASE Round \/ Sequential
    <3>1. phase = "rank" /\ phase' = "rank"
      BY <2>3 DEF Round, Sequential
    <3> QED
      BY <2>1, <2>2, <3>1 DEF OrderInv, Fresh, Whole, Covered, Complete, AllStepsRun
  <2>4. CASE Ranked
    <3>1. phase = "rank" /\ phase' = "order" /\ todo' = Ids
      BY <2>1, <2>4 DEF Ranked, OrderInv, Fresh
    <3> QED
      BY <2>2, <3>1 DEF OrderInv, Fresh, Whole, Covered, Complete, AllStepsRun
  <2>5. CASE Ordered
    <3>1. phase = "order" /\ phase' = "run" /\ todo = {}
      BY <2>5 DEF Ordered
    <3> QED
      BY <2>1, <2>2, <3>1 DEF OrderInv, Fresh, Whole, Covered, Complete, AllStepsRun
  <2>6. CASE Finish
    <3>1. phase = "run" /\ phase' = "done" /\ layers = <<>>
      BY <2>6 DEF Finish
    <3>2. origin = "planner" \/ Backward => \A i \in Ids : i \in ran \union over
      BY <3>1 DEF OrderInv, Complete, Placed
    <3>3. ran \union over \subseteq Ids
      BY <1>1 DEF TypeOK
    <3>4. AllStepsRun'
      BY <1>1, <1>2, <2>1, <3>2, <3>3 DEF AllStepsRun
    <3> QED
      BY <2>2, <3>1, <3>4 DEF OrderInv, Fresh, Whole, Covered, Complete
  <2>7. CASE UNCHANGED vars
    BY <1>1, <1>2, <2>1, <2>2, <2>7 DEF vars, OrderInv, Fresh, Whole, Covered, Complete, AllStepsRun
  <2> QED
    BY <1>4, <2>3, <2>4, <2>5, <2>6, <2>7
<1> QED
  BY <1>3, <1>4

LEMMA OrderInit == Init => OrderInv
<1> SUFFICES ASSUME Init PROVE OrderInv
  OBVIOUS
<1>1. RankInv /\ phase \in {"rank", "layer"} /\ todo = Ids /\ layers = <<>>
  BY RankInit DEF Init
<1> QED
  BY <1>1 DEF OrderInv, Fresh, Whole, Covered, Complete, Served, AllStepsRun

LEMMA OrderNext == OrderInv /\ [Next]_vars => OrderInv'
<1> SUFFICES ASSUME OrderInv, [Next]_vars PROVE OrderInv'
  OBVIOUS
<1>1. RankInv'
  BY RankNext DEF OrderInv
<1> QED
  BY <1>1, OrderGather, OrderAddLayer, OrderLayered, OrderRunLayer, OrderOther DEF Next

-----------------------------------------------------------------------------
(* What a step needs ends before the step begins, whatever the plan, if no  *)
(* step refers to a later one and the plan was not resumed: the groups are  *)
(* ordered by their first steps, and that order respects the dependencies   *)
(* (assign_parallel_groups, _group_by_dependency, execute_plan).            *)
THEOREM Precedence == Spec => []NeedsComeFirst
<1>1. OrderInv => NeedsComeFirst
  <2> SUFFICES ASSUME OrderInv, InOrder, layers # <<>>, NEW i \in Head(layers), NEW j \in Needs(i)
               PROVE  j \in ran \union over
    BY DEF NeedsComeFirst, NextHasItsNeeds, InOrder
  <2>1. layers \in Seq(SUBSET Ids)
    BY DEF OrderInv, RankInv, GroupInv, TypeOK
  <2>2. 1 \in DOMAIN layers /\ i \in layers[1] /\ \A m \in DOMAIN layers : ~(m < 1)
    BY <2>1
  <2> QED
    BY <2>2 DEF OrderInv, Served
<1> QED
  BY <1>1, OrderInit, OrderNext, PTL DEF Spec

(* A plan that ends as executed has executed every step: the rounds, the    *)
(* fallback, the splitting of groups and a resumption lose none             *)
(* (_group_by_dependency, execute_plan, resume).                            *)
THEOREM NoStepIsLost == Spec => []AllStepsRun
<1>1. OrderInv => AllStepsRun
  BY DEF OrderInv
<1> QED
  BY <1>1, OrderInit, OrderNext, PTL DEF Spec
=============================================================================

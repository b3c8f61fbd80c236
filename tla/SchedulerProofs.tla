--------------------------- MODULE SchedulerProofs ---------------------------
(***************************************************************************)
(* Theorems about ProactiveScheduler, for any number of tasks, periods,    *)
(* exception dates, restarts and failing writes: no occurrence is claimed  *)
(* twice, a check leaves nothing overdue, a cancelled task stays away and  *)
(* the file keeps up with the table.                                       *)
(***************************************************************************)
EXTENDS MCProactiveScheduler, FiniteSetTheorems, WellFoundedInduction, TLAPS

(* No id of a table, of a claim or of a cancelled task is still to be given. *)
IdsAreGiven ==
  /\ \A i \in DOMAIN tasks \union DOMAIN disk \union gone : i < nextId
  /\ \A c \in claimed : c[1] < nextId

(* What was claimed is used up in a table: a one-shot is disarmed, a task   *)
(* that repeats has moved on.                                               *)
UsedUp(table) ==
  \A c \in claimed : c[1] \in DOMAIN table =>
    IF table[c[1]].period = Once THEN ~table[c[1]].enabled ELSE c[2] < table[c[1]].due

(* The table that counts is the memory's, and the file's while the program  *)
(* is not running; the threads that report to it end with the program.      *)
ClaimsAreUsed ==
  /\ ~up => runs = {}
  /\ \A c \in claimed : c[2] <= now
  /\ ~lost => UsedUp(IF up THEN tasks ELSE disk)

SchedulerInv == TypeOK /\ IdsAreGiven /\ CancelIsFinal /\ FileIsCurrent /\ ClaimsAreUsed

-----------------------------------------------------------------------------
(* Tables.                                                                  *)

LEMMA WithoutType ==
  ASSUME NEW table, IsTable(table), NEW S
  PROVE  /\ IsTable(Without(table, S))
         /\ DOMAIN Without(table, S) = DOMAIN table \ S
         /\ \A i \in DOMAIN table \ S : Without(table, S)[i] = table[i]
<1>1. Without(table, S) = [i \in DOMAIN table \ S |-> table[i]]
  BY DEF Without, Restrict
<1> QED
  BY <1>1 DEF IsTable

LEMMA WithType ==
  ASSUME NEW table, IsTable(table), NEW i \in Ids, NEW task \in TaskRecords,
         task.internal => task.period # Once
  PROVE  /\ IsTable(With(table, i, task))
         /\ DOMAIN With(table, i, task) = DOMAIN table \union {i}
         /\ With(table, i, task)[i] = task
         /\ \A j \in DOMAIN table \ {i} : With(table, i, task)[j] = table[j]
  BY DEF With, IsTable

LEMMA NewTaskType ==
  ASSUME NEW due \in Nat, NEW period \in Periods \union {Once}, NEW skip \in Skips,
         NEW internal \in BOOLEAN
  PROVE  /\ NewTask(due, period, skip, internal) \in TaskRecords
         /\ NewTask(due, period, skip, internal).internal = internal
         /\ NewTask(due, period, skip, internal).period = period
  BY DEF NewTask, TaskRecords

(* A set of numbers that is not empty has a least element.                  *)
LEMMA LeastElement ==
  ASSUME NEW S \in SUBSET Nat, S # {}
  PROVE  Min(S) \in S
<1>1. OpToRel(<, Nat) = {ss \in Nat \X Nat : ss[1] < ss[2]}
  BY DEF OpToRel
<1> DEFINE R == OpToRel(<, Nat)
<1>2. \A i, j \in Nat : i < j => <<i, j>> \in R
  BY <1>1
<1>3. IsWellFoundedOn(R, Nat)
  BY NatLessThanWellFounded
<1> HIDE DEF R
<1>4. PICK x \in S : \A y \in S : ~(<<y, x>> \in R)
  BY <1>3, WFMin
<1>5. ASSUME NEW y \in S PROVE x <= y
  <2>1. x \in Nat /\ y \in Nat
    OBVIOUS
  <2>2. ~(y < x)
    BY <1>2, <1>4, <2>1
  <2> QED BY <2>1, <2>2
<1> QED
  BY <1>5 DEF Min

(* Among more later dates than there are exceptions one is allowed, and     *)
(* _compute_next_run finds the first of them.                               *)
LEMMA NextRunType ==
  ASSUME NEW task \in TaskRecords, task.period # Once, now \in Times
  PROVE  /\ NextRun(task) \in Nat /\ NextRun(task) > now /\ NextRun(task) > task.due
         /\ NextRun(task) \notin task.skip
<1> DEFINE d == task.due
           p == task.period
           later(k) == d + k * p
           n == Cardinality(task.skip)
           allowed == {k \in 1 .. MaxTime + n + 1 : later(k) > now /\ later(k) \notin task.skip}
<1>1. /\ d \in Nat /\ p \in Nat \ {0} /\ task.skip \in Skips
      /\ now \in Nat /\ now <= MaxTime /\ MaxTime \in Nat
  <2>1. task.due \in Nat /\ task.period \in Periods /\ task.skip \in Skips
    BY DEF TaskRecords
  <2>2. MaxTime \in Nat /\ Periods \subseteq Nat \ {0}
    BY SchedulerAssumption
  <2>3. p \in Nat \ {0}
    BY <2>1, <2>2
  <2>4. now \in Nat /\ now <= MaxTime
    BY <2>2 DEF Times
  <2> QED
    BY <2>1, <2>2, <2>3, <2>4
<1>2. IsFiniteSet(task.skip) /\ n \in Nat
  BY <1>1, SchedulerAssumption, FS_CardinalityType
<1>3. \A k \in Nat : later(k) \in Nat /\ later(k) >= k
  <2> HIDE DEF d, p
  <2>1. ASSUME NEW k \in Nat PROVE k * p \in Nat /\ k * p >= k
    BY <1>1
  <2> QED
    BY <1>1, <2>1
<1>4. allowed # {}
  <2> SUFFICES ASSUME allowed = {} PROVE FALSE
    OBVIOUS
  <2> DEFINE K == MaxTime + 1 .. MaxTime + n + 1
             f == [k \in K |-> later(k)]
  <2>1. ASSUME NEW k \in K PROVE later(k) \in task.skip
    <3>1. k \in Nat /\ k \in 1 .. MaxTime + n + 1 /\ k > MaxTime
      BY <1>1, <1>2
    <3>2. later(k) \in Nat /\ later(k) >= k
      BY <1>3, <3>1
    <3>3. k \notin allowed
      OBVIOUS
    <3> HIDE DEF later
    <3>4. later(k) > now
      BY <1>1, <3>1, <3>2
    <3> QED
      BY <3>1, <3>3, <3>4
  <2>2. f \in [K -> task.skip]
    BY <2>1
  <2>3. IsFiniteSet(K) /\ Cardinality(K) = n + 1
    <3>1. MaxTime + 1 \in Int /\ MaxTime + n + 1 \in Int /\ ~(MaxTime + 1 > MaxTime + n + 1)
      BY <1>1, <1>2
    <3>2. IsFiniteSet(K) /\ Cardinality(K) = (MaxTime + n + 1) - (MaxTime + 1) + 1
      BY <3>1, FS_Interval
    <3> HIDE DEF K, n
    <3> QED
      BY <1>1, <1>2, <3>2
  <2>4. Cardinality(task.skip) < Cardinality(K)
    BY <1>2, <2>3
  <2> HIDE DEF f, K
  <2>5. PICK j, k \in K : j # k /\ f[j] = f[k]
    BY <1>2, <2>2, <2>3, <2>4, FS_PigeonHole
  <2> USE DEF K
  <2>6. j \in Nat /\ k \in Nat /\ later(j) = later(k)
    BY <1>1, <1>2, <2>5 DEF f
  <2> HIDE DEF K, d, p
  <2>7. j * p = k * p
    <3>1. j * p \in Int /\ k * p \in Int
      BY <1>1, <2>6
    <3> QED
      BY <1>1, <2>6, <3>1
  <2> QED
    BY <1>1, <2>5, <2>6, <2>7
<1>5. Min(allowed) \in allowed
  <2>1. allowed \in SUBSET Nat
    BY <1>1, <1>2
  <2> HIDE DEF allowed
  <2> QED
    BY <1>4, <2>1, LeastElement
<1>6. NextRun(task) = later(Min(allowed))
  BY DEF NextRun
<1>7. PICK k \in 1 .. MaxTime + n + 1 : /\ NextRun(task) = later(k)
                                        /\ later(k) > now /\ later(k) \notin task.skip
  BY <1>5, <1>6
<1>8. k \in Nat \ {0}
  BY <1>1, <1>2, <1>7
<1>9. later(k) \in Nat /\ later(k) > d
  <2> HIDE DEF d, p
  <2>1. k * p \in Nat /\ k * p >= k
    BY <1>1, <1>8
  <2> QED
    BY <1>1, <1>8, <2>1
<1> QED
  BY <1>7, <1>9

LEMMA AdvanceType ==
  ASSUME NEW task \in TaskRecords, now \in Times
  PROVE  /\ Advance(task) \in TaskRecords
         /\ Advance(task).period = task.period /\ Advance(task).internal = task.internal
         /\ Advance(task).skip = task.skip
         /\ task.period = Once => ~Advance(task).enabled
         /\ task.period # Once => /\ Advance(task).due > now /\ Advance(task).due > task.due
                                  /\ Advance(task).due \notin task.skip
<1>1. CASE task.period = Once
  <2>1. OnSkippedDate(task) \in BOOLEAN
    BY DEF OnSkippedDate
  <2> QED
    BY <1>1, <2>1 DEF Advance, TaskRecords
<1>2. CASE task.period # Once
  <2>1. Advance(task) = [task EXCEPT !.due = NextRun(task)]
    BY <1>2 DEF Advance
  <2> QED
    BY <1>2, <2>1, NextRunType DEF TaskRecords
<1> QED
  BY <1>1, <1>2

-----------------------------------------------------------------------------
(* What the operations on the table have in common.                         *)

(* A change that is saved, or not: the file is one of the two tables.       *)
LEMMA SaveStep ==
  ASSUME SchedulerInv, up, UNCHANGED reliable, Save, IsTable(tasks'),
         nextId' \in Nat, nextId <= nextId',
         \A i \in DOMAIN tasks' : i < nextId',
         reliable => gone' \intersect DOMAIN tasks' = {}
  PROVE  /\ IsTable(disk') /\ (\A i \in DOMAIN disk' : i < nextId')
         /\ CancelIsFinal' /\ FileIsCurrent'
<1>1. CASE disk' = tasks'
  BY <1>1 DEF CancelIsFinal, FileIsCurrent
<1>2. CASE ~reliable /\ disk' = disk
  <2>1. \A i \in DOMAIN disk' : i < nextId'
    <3>1. nextId \in Int /\ \A i \in DOMAIN disk : i \in Int /\ i < nextId
      BY SchedulerAssumption DEF SchedulerInv, IdsAreGiven, TypeOK, IsTable, Ids
    <3> QED
      BY <1>2, <3>1
  <2> QED
    BY <1>2, <2>1 DEF SchedulerInv, TypeOK, CancelIsFinal, FileIsCurrent
<1> QED
  BY <1>1, <1>2 DEF Save

(* A change that leaves what was claimed used up.                           *)
LEMMA UsedStep ==
  ASSUME SchedulerInv, up, UNCHANGED <<up, now, lost>>, claimed' \subseteq claimed, IsTable(tasks'),
         \A c \in claimed' : c[1] \in DOMAIN tasks' =>
           /\ c[1] \in DOMAIN tasks
           /\ tasks[c[1]].period = Once =>
                tasks'[c[1]].period = Once /\ (tasks'[c[1]].enabled => tasks[c[1]].enabled)
           /\ tasks[c[1]].period # Once =>
                tasks'[c[1]].period # Once /\ tasks'[c[1]].due >= tasks[c[1]].due
  PROVE  ClaimsAreUsed'
<1>1. \A c \in claimed' : c[2] <= now'
  BY DEF SchedulerInv, ClaimsAreUsed
<1>2. ASSUME ~lost, NEW c \in claimed', c[1] \in DOMAIN tasks'
      PROVE  IF tasks'[c[1]].period = Once THEN ~tasks'[c[1]].enabled ELSE c[2] < tasks'[c[1]].due
  <2>1. UsedUp(tasks) /\ c[1] \in DOMAIN tasks /\ c[2] \in Nat
    BY <1>2 DEF SchedulerInv, ClaimsAreUsed, TypeOK
  <2>2. tasks[c[1]].due \in Nat /\ tasks'[c[1]].due \in Nat
    BY <1>2, <2>1 DEF SchedulerInv, TypeOK, IsTable, TaskRecords
  <2> QED
    BY <1>2, <2>1, <2>2 DEF UsedUp
<1>3. ~lost' => UsedUp(tasks)'
  BY <1>2 DEF UsedUp
<1> QED
  BY <1>1, <1>3 DEF ClaimsAreUsed

LEMMA Numbers ==
  ASSUME SchedulerInv
  PROVE  /\ nextId \in Nat /\ nextId >= 1 /\ MaxIds \in Nat /\ Ids \subseteq Nat
         /\ \A i \in DOMAIN tasks : i \in Nat /\ i < nextId
         /\ \A c \in claimed : c[1] \in Nat /\ c[2] \in Nat /\ c[1] < nextId
         /\ \A i \in gone : i \in Nat /\ i < nextId
  BY SchedulerAssumption DEF SchedulerInv, TypeOK, IdsAreGiven, IsTable, Ids

-----------------------------------------------------------------------------
(* The operations of the callers.                                           *)

LEMMA InvSchedule ==
  ASSUME SchedulerInv, NEW due \in Times, NEW period \in Periods \union {Once}, NEW skip \in Skips,
         Schedule(due, period, skip)
  PROVE  SchedulerInv'
<1> USE DEF Schedule
<1> DEFINE left == Without(tasks, Evicted)
           task == NewTask(due, period, skip, FALSE)
<1>1. /\ IsTable(left) /\ DOMAIN left = DOMAIN tasks \ Evicted
      /\ \A i \in DOMAIN left : left[i] = tasks[i]
  <2>1. IsTable(tasks)
    BY DEF SchedulerInv, TypeOK
  <2>2. /\ IsTable(left) /\ DOMAIN left = DOMAIN tasks \ Evicted
        /\ \A i \in DOMAIN tasks \ Evicted : left[i] = tasks[i]
    BY <2>1, WithoutType
  <2> QED
    BY <2>2
<1>2. due \in Nat
  BY SchedulerAssumption DEF Times
<1>3. task \in TaskRecords /\ ~task.internal
  BY <1>2, NewTaskType
<1>4. CASE HasRoom
  <2>1. nextId \in Ids /\ nextId' = nextId + 1
    BY <1>4, Numbers DEF Ids
  <2>2. tasks' = With(left, nextId, task) /\ Save
    BY <1>4
  <2> HIDE DEF left, task
  <2>3. /\ IsTable(tasks') /\ DOMAIN tasks' = DOMAIN left \union {nextId}
        /\ \A i \in DOMAIN tasks' \ {nextId} : i \in DOMAIN tasks /\ tasks'[i] = tasks[i]
    BY <1>1, <1>3, <2>1, <2>2, WithType
  <2>4. \A i \in DOMAIN tasks' \union gone' : i < nextId'
    BY <2>1, <2>3, Numbers
  <2>5. reliable => gone' \intersect DOMAIN tasks' = {}
    BY <2>3, Numbers DEF SchedulerInv, CancelIsFinal
  <2>6. IsTable(disk') /\ (\A i \in DOMAIN disk' : i < nextId') /\ CancelIsFinal' /\ FileIsCurrent'
    BY <2>1, <2>2, <2>3, <2>4, <2>5, Numbers, SaveStep
  <2>7. ClaimsAreUsed'
    <3>1. \A c \in claimed : c[1] \in DOMAIN tasks' => c[1] \in DOMAIN tasks /\ tasks'[c[1]] = tasks[c[1]]
      BY <2>3, Numbers
    <3>2. \A i \in DOMAIN tasks : tasks[i].due \in Nat
      BY DEF SchedulerInv, TypeOK, IsTable, TaskRecords
    <3> QED
      BY <2>3, <3>1, <3>2, UsedStep
  <2>8. \A c \in claimed' : c[1] < nextId'
    BY <2>1, Numbers
  <2>9. nextId' \in 1 .. MaxIds + 1
    BY <2>1, Numbers DEF Ids
  <2> QED
    BY <2>3, <2>4, <2>6, <2>7, <2>8, <2>9 DEF SchedulerInv, TypeOK, IdsAreGiven
<1>5. CASE ~HasRoom
  <2>1. tasks' = left /\ UNCHANGED <<nextId, disk>>
    BY <1>5
  <2> HIDE DEF left
  <2>2. ClaimsAreUsed'
    <3>1. \A i \in DOMAIN tasks : tasks[i].due \in Nat
      BY DEF SchedulerInv, TypeOK, IsTable, TaskRecords
    <3> QED
      BY <1>1, <2>1, <3>1, UsedStep
  <2>3. CancelIsFinal' /\ FileIsCurrent'
    BY <1>1, <2>1 DEF SchedulerInv, CancelIsFinal, FileIsCurrent
  <2> QED
    BY <1>1, <2>1, <2>2, <2>3 DEF SchedulerInv, TypeOK, IdsAreGiven
<1> QED
  BY <1>4, <1>5

LEMMA InvEnsureTask ==
  ASSUME SchedulerInv, NEW due \in Times, NEW period \in Periods, EnsureTask(due, period)
  PROVE  SchedulerInv'
<1>0. /\ up /\ Save
      /\ UNCHANGED <<now, up, reliable, blocked, runs, missed, manual, crashes, claimed, gone, lost>>
  BY DEF EnsureTask
<1> DEFINE found == {i \in DOMAIN tasks : tasks[i].internal}
           task == NewTask(due, period, {}, TRUE)
<1>1. due \in Nat /\ period # Once /\ {} \in Skips
  <2>1. Periods \subseteq Nat \ {0} /\ {} \in Skips /\ MaxTime \in Nat
    BY SchedulerAssumption
  <2> QED
    BY <2>1 DEF Times, Once
<1>2. task \in TaskRecords /\ task.period # Once
  BY <1>1, NewTaskType
<1>3. \A i \in DOMAIN tasks : /\ tasks[i] \in TaskRecords /\ tasks[i].due \in Nat
                              /\ tasks[i].internal => tasks[i].period # Once
  BY DEF SchedulerInv, TypeOK, IsTable, TaskRecords
<1>4. CASE found # {}
  <2>1. Min(found) \in found
    BY <1>4, Numbers, LeastElement
  <2>2. PICK i \in found :
          tasks' = [tasks EXCEPT ![i].enabled = TRUE, ![i].period = period, ![i].skip = {}]
    BY <1>4, <2>1 DEF EnsureTask
  <2>3. UNCHANGED nextId
    BY <1>4 DEF EnsureTask
  <2>4. /\ IsTable(tasks') /\ DOMAIN tasks' = DOMAIN tasks
        /\ \A j \in DOMAIN tasks \ {i} : tasks'[j] = tasks[j]
        /\ tasks'[i].due = tasks[i].due /\ tasks'[i].period = period /\ tasks[i].period # Once
    <3>1. i \in DOMAIN tasks /\ tasks[i].period # Once /\ tasks[i] \in TaskRecords
      BY <1>3
    <3>2. tasks' = [tasks EXCEPT ![i] = [@ EXCEPT !.enabled = TRUE, !.period = period, !.skip = {}]]
      BY <2>2, <3>1 DEF SchedulerInv, TypeOK, IsTable, TaskRecords
    <3>3. /\ [tasks[i] EXCEPT !.enabled = TRUE, !.period = period, !.skip = {}] \in TaskRecords
          /\ [tasks[i] EXCEPT !.enabled = TRUE, !.period = period, !.skip = {}].period = period
          /\ [tasks[i] EXCEPT !.enabled = TRUE, !.period = period, !.skip = {}].due = tasks[i].due
      BY <1>1, <3>1 DEF TaskRecords
    <3> QED
      BY <1>1, <3>1, <3>2, <3>3 DEF SchedulerInv, TypeOK, IsTable
  <2> HIDE DEF found
  <2>5. IsTable(disk') /\ (\A j \in DOMAIN disk' : j < nextId') /\ CancelIsFinal' /\ FileIsCurrent'
    <3>1. reliable => gone' \intersect DOMAIN tasks' = {}
      BY <1>0, <2>4 DEF SchedulerInv, CancelIsFinal
    <3>2. nextId' \in Nat /\ nextId <= nextId' /\ \A j \in DOMAIN tasks' : j < nextId'
      BY <2>3, <2>4, Numbers
    <3> QED
      BY <1>0, <2>4, <3>1, <3>2, SaveStep
  <2>6. ClaimsAreUsed'
    <3>1. \A j \in DOMAIN tasks : /\ tasks[j].period = Once => tasks'[j] = tasks[j]
                                  /\ tasks[j].period # Once =>
                                       tasks'[j].period # Once /\ tasks'[j].due >= tasks[j].due
      <4> SUFFICES ASSUME NEW j \in DOMAIN tasks
                   PROVE  /\ tasks[j].period = Once => tasks'[j] = tasks[j]
                          /\ tasks[j].period # Once =>
                               tasks'[j].period # Once /\ tasks'[j].due >= tasks[j].due
        OBVIOUS
      <4>1. tasks[j].due \in Nat
        BY <1>3
      <4> QED
        BY <1>1, <2>4, <4>1
    <3>2. DOMAIN tasks' = DOMAIN tasks
      BY <2>4
    <3> QED
      BY <1>0, <2>4, <3>1, <3>2, UsedStep
  <2> QED
    BY <1>0, <2>3, <2>4, <2>5, <2>6 DEF SchedulerInv, TypeOK, IdsAreGiven
<1>5. CASE found = {}
  <2>1. nextId \in Ids /\ nextId' = nextId + 1
    <3>1. nextId <= MaxIds /\ nextId' = nextId + 1
      BY <1>5 DEF EnsureTask
    <3> QED
      BY <3>1, Numbers DEF Ids
  <2>2. tasks' = With(tasks, nextId, task)
    BY <1>5 DEF EnsureTask
  <2> HIDE DEF task, found
  <2>3. /\ IsTable(tasks') /\ DOMAIN tasks' = DOMAIN tasks \union {nextId}
        /\ \A i \in DOMAIN tasks' \ {nextId} : i \in DOMAIN tasks /\ tasks'[i] = tasks[i]
    <3>1. IsTable(tasks)
      BY DEF SchedulerInv, TypeOK
    <3> DEFINE new == With(tasks, nextId, task)
    <3>2. /\ IsTable(new) /\ DOMAIN new = DOMAIN tasks \union {nextId}
          /\ \A i \in DOMAIN tasks \ {nextId} : new[i] = tasks[i]
      BY <1>2, <2>1, <3>1, WithType
    <3>3. tasks' = new
      BY <2>2
    <3> HIDE DEF new
    <3> QED
      BY <3>2, <3>3
  <2>4. \A i \in DOMAIN tasks' \union gone' : i < nextId'
    BY <1>0, <2>1, <2>3, Numbers
  <2>5. reliable => gone' \intersect DOMAIN tasks' = {}
    BY <1>0, <2>3, Numbers DEF SchedulerInv, CancelIsFinal
  <2>6. IsTable(disk') /\ (\A i \in DOMAIN disk' : i < nextId') /\ CancelIsFinal' /\ FileIsCurrent'
    BY <1>0, <2>1, <2>3, <2>4, <2>5, Numbers, SaveStep
  <2>7. ClaimsAreUsed'
    <3>1. \A c \in claimed : c[1] \in DOMAIN tasks' => c[1] \in DOMAIN tasks /\ tasks'[c[1]] = tasks[c[1]]
      BY <2>3, Numbers
    <3> QED
      BY <1>0, <1>3, <2>3, <3>1, UsedStep
  <2>8. \A c \in claimed' : c[1] < nextId'
    BY <1>0, <2>1, Numbers
  <2>9. nextId' \in 1 .. MaxIds + 1
    BY <2>1, Numbers DEF Ids
  <2> QED
    BY <1>0, <2>3, <2>4, <2>6, <2>7, <2>8, <2>9 DEF SchedulerInv, TypeOK, IdsAreGiven
<1> QED
  BY <1>4, <1>5

LEMMA InvCancel == ASSUME SchedulerInv, NEW i \in Ids, Cancel(i) PROVE SchedulerInv'
<1>1. /\ up /\ i \in DOMAIN tasks /\ tasks' = Without(tasks, {i}) /\ Save /\ gone' = gone \union {i}
      /\ UNCHANGED <<now, up, reliable, blocked, runs, missed, nextId, manual, crashes, claimed, lost>>
  BY DEF Cancel
<1>2. /\ IsTable(tasks') /\ DOMAIN tasks' = DOMAIN tasks \ {i}
      /\ \A j \in DOMAIN tasks' : tasks'[j] = tasks[j]
  <2>1. IsTable(tasks)
    BY DEF SchedulerInv, TypeOK
  <2> DEFINE left == Without(tasks, {i})
  <2>2. /\ IsTable(left) /\ DOMAIN left = DOMAIN tasks \ {i}
        /\ \A j \in DOMAIN tasks \ {i} : left[j] = tasks[j]
    BY <2>1, WithoutType
  <2>3. tasks' = left
    BY <1>1
  <2> HIDE DEF left
  <2> QED
    BY <2>2, <2>3
<1>3. \A j \in DOMAIN tasks' \union gone' : j < nextId'
  BY <1>1, <1>2, Numbers
<1>4. IsTable(disk') /\ (\A j \in DOMAIN disk' : j < nextId') /\ CancelIsFinal' /\ FileIsCurrent'
  <2>1. reliable => gone' \intersect DOMAIN tasks' = {}
    BY <1>1, <1>2 DEF SchedulerInv, CancelIsFinal
  <2> QED
    BY <1>1, <1>2, <1>3, <2>1, Numbers, SaveStep
<1>5. ClaimsAreUsed'
  <2>1. \A j \in DOMAIN tasks : tasks[j].due \in Nat
    BY DEF SchedulerInv, TypeOK, IsTable, TaskRecords
  <2>2. \A c \in claimed : c[1] \in DOMAIN tasks' => c[1] \in DOMAIN tasks /\ tasks'[c[1]] = tasks[c[1]]
    BY <1>2
  <2>3. UNCHANGED <<up, now, lost>> /\ claimed' = claimed /\ up /\ IsTable(tasks')
    BY <1>1, <1>2
  <2> QED
    BY <2>1, <2>2, <2>3, UsedStep
<1> QED
  BY <1>1, <1>2, <1>3, <1>4, <1>5 DEF SchedulerInv, TypeOK, IdsAreGiven

LEMMA InvToggle == ASSUME SchedulerInv, NEW i \in Ids, Toggle(i) PROVE SchedulerInv'
<1>1. /\ up /\ i \in DOMAIN tasks /\ Save
      /\ tasks' = [tasks EXCEPT ![i].enabled = ~@, ![i].completed = FALSE]
      /\ claimed' = {c \in claimed : c[1] # i}
      /\ UNCHANGED <<now, up, reliable, blocked, runs, missed, nextId, manual, crashes, gone, lost>>
  BY DEF Toggle
<1>2. /\ IsTable(tasks') /\ DOMAIN tasks' = DOMAIN tasks
      /\ \A j \in DOMAIN tasks \ {i} : tasks'[j] = tasks[j]
  <2>1. tasks[i] \in TaskRecords /\ (tasks[i].internal => tasks[i].period # Once)
    BY <1>1 DEF SchedulerInv, TypeOK, IsTable
  <2> DEFINE task == [tasks[i] EXCEPT !.enabled = ~@, !.completed = FALSE]
  <2>2. task \in TaskRecords /\ (task.internal => task.period # Once)
    BY <2>1 DEF TaskRecords
  <2>3. tasks' = [tasks EXCEPT ![i] = task]
    BY <1>1
  <2>4. IsTable(tasks) /\ i \in DOMAIN tasks
    BY <1>1 DEF SchedulerInv, TypeOK
  <2> HIDE DEF task
  <2>5. DOMAIN tasks' = DOMAIN tasks /\ tasks'[i] = task /\ \A j \in DOMAIN tasks \ {i} : tasks'[j] = tasks[j]
    BY <2>3, <2>4 DEF IsTable
  <2>6. tasks' = [j \in DOMAIN tasks' |-> tasks'[j]]
    BY <2>3, <2>4 DEF IsTable
  <2> QED
    BY <2>2, <2>4, <2>5, <2>6 DEF IsTable
<1>3. \A j \in DOMAIN tasks' \union gone' : j < nextId'
  BY <1>1, <1>2, Numbers
<1>4. IsTable(disk') /\ (\A j \in DOMAIN disk' : j < nextId') /\ CancelIsFinal' /\ FileIsCurrent'
  <2>1. reliable => gone' \intersect DOMAIN tasks' = {}
    BY <1>1, <1>2 DEF SchedulerInv, CancelIsFinal
  <2> QED
    BY <1>1, <1>2, <1>3, <2>1, Numbers, SaveStep
<1>5. ClaimsAreUsed'
  <2>1. \A j \in DOMAIN tasks : tasks[j].due \in Nat
    BY DEF SchedulerInv, TypeOK, IsTable, TaskRecords
  <2>2. claimed' \subseteq claimed /\ \A c \in claimed' : c[1] # i
    BY <1>1
  <2> QED
    BY <1>1, <1>2, <2>1, <2>2, UsedStep
<1> QED
  BY <1>1, <1>2, <1>3, <1>4, <1>5 DEF SchedulerInv, TypeOK, IdsAreGiven

-----------------------------------------------------------------------------
(* Claiming and executing.                                                  *)

(* _claim_due_tasks() moves what it claims or skips, and leaves the rest.    *)
LEMMA ClaimedTable ==
  ASSUME SchedulerInv, ClaimDueTasks
  PROVE  /\ DOMAIN tasks' = DOMAIN tasks
         /\ \A i \in DOMAIN tasks :
              tasks'[i] = IF MovesOn(tasks[i]) THEN Advance(tasks[i]) ELSE tasks[i]
         /\ IsTable(tasks')
<1>1. tasks' = [i \in DOMAIN tasks |-> IF MovesOn(tasks[i]) THEN Advance(tasks[i]) ELSE tasks[i]]
  <2> DEFINE moved == {i \in DOMAIN tasks : MovesOn(tasks[i])}
  <2>1. tasks' = [i \in DOMAIN tasks |-> IF i \in moved THEN Advance(tasks[i]) ELSE tasks[i]]
    BY DEF ClaimDueTasks
  <2>2. \A i \in DOMAIN tasks : i \in moved <=> MovesOn(tasks[i])
    OBVIOUS
  <2> HIDE DEF moved
  <2> QED
    BY <2>1, <2>2
<1>2. now \in Times /\ DOMAIN tasks \subseteq Ids
  BY DEF SchedulerInv, TypeOK, IsTable
<1>3. ASSUME NEW i \in DOMAIN tasks
      PROVE  tasks'[i] \in TaskRecords /\ (tasks'[i].internal => tasks'[i].period # Once)
  <2>1. tasks[i] \in TaskRecords /\ (tasks[i].internal => tasks[i].period # Once)
    BY DEF SchedulerInv, TypeOK, IsTable
  <2>2. /\ Advance(tasks[i]) \in TaskRecords
        /\ Advance(tasks[i]).period = tasks[i].period /\ Advance(tasks[i]).internal = tasks[i].internal
    BY <1>2, <2>1, AdvanceType
  <2> QED
    BY <1>1, <2>1, <2>2
<1>4. IsTable(tasks')
  BY <1>1, <1>2, <1>3 DEF IsTable
<1> QED
  BY <1>1, <1>4

LEMMA ClaimedTasks ==
  ASSUME SchedulerInv, ClaimDueTasks
  PROVE  /\ \A i \in DOMAIN tasks : IsDue(tasks[i]) => MovesOn(tasks[i])
         /\ \A c \in claimed' : c \in claimed \/
              (c[1] \in DOMAIN tasks /\ c[2] = tasks[c[1]].due /\ IsDue(tasks[c[1]]))
         /\ \A r \in runs' : r \in runs \/
              (r \in RunRecords /\ r.id \in DOMAIN tasks /\ r.due = tasks[r.id].due /\ IsDue(tasks[r.id]))
         /\ claimed' \subseteq Ids \X Nat
<1>1. \A i \in DOMAIN tasks : IsDue(tasks[i]) => MovesOn(tasks[i])
  BY DEF IsDue, MovesOn
<1>2. \A i \in DOMAIN tasks : i \in Ids /\ tasks[i].due \in Nat
  BY DEF SchedulerInv, TypeOK, IsTable, TaskRecords
<1>3. ASSUME NEW c \in claimed', c \notin claimed
      PROVE  /\ c[1] \in DOMAIN tasks /\ c[2] = tasks[c[1]].due /\ IsDue(tasks[c[1]])
             /\ c \in Ids \X Nat
  BY <1>2, <1>3 DEF ClaimDueTasks
<1>4. ASSUME NEW r \in runs', r \notin runs
      PROVE  r \in RunRecords /\ r.id \in DOMAIN tasks /\ r.due = tasks[r.id].due /\ IsDue(tasks[r.id])
  BY <1>2, <1>4 DEF ClaimDueTasks, RunRecords
<1>5. claimed' \subseteq Ids \X Nat
  BY <1>3 DEF SchedulerInv, TypeOK
<1> QED
  BY <1>1, <1>3, <1>4, <1>5

LEMMA InvClaim ==
  ASSUME SchedulerInv, up, ClaimDueTasks, missed' \in BOOLEAN,
         UNCHANGED <<now, up, reliable, blocked, nextId, manual, crashes, gone, lost>>
  PROVE  SchedulerInv'
<1>1. /\ DOMAIN tasks' = DOMAIN tasks /\ IsTable(tasks')
      /\ \A i \in DOMAIN tasks :
           tasks'[i] = IF MovesOn(tasks[i]) THEN Advance(tasks[i]) ELSE tasks[i]
  BY ClaimedTable
<1>2. now \in Times /\ now \in Nat /\ \A i \in DOMAIN tasks : tasks[i] \in TaskRecords /\ tasks[i].due \in Nat
  BY SchedulerAssumption DEF SchedulerInv, TypeOK, IsTable, TaskRecords, Times
<1>3. \A j \in DOMAIN tasks' \union gone' : j < nextId'
  BY <1>1, Numbers
<1>4. IsTable(disk') /\ (\A j \in DOMAIN disk' : j < nextId') /\ CancelIsFinal' /\ FileIsCurrent'
  <2>1. CASE Save
    <3>1. reliable => gone' \intersect DOMAIN tasks' = {}
      BY <1>1 DEF SchedulerInv, CancelIsFinal
    <3> QED
      BY <1>1, <1>3, <2>1, <3>1, Numbers, SaveStep
  <2>2. CASE ~Save
    <3>1. disk' = disk /\ \A i \in DOMAIN tasks : ~MovesOn(tasks[i])
      BY <2>2 DEF ClaimDueTasks
    <3>2. \A i \in DOMAIN tasks : tasks'[i] = tasks[i]
      BY <1>1, <3>1
    <3> QED
      BY <1>1, <3>1, <3>2 DEF SchedulerInv, TypeOK, IdsAreGiven, CancelIsFinal, FileIsCurrent
  <2> QED
    BY <2>1, <2>2
<1>5. \A c \in claimed' : c[1] < nextId' /\ c[2] <= now'
  <2>1. ASSUME NEW c \in claimed' PROVE c[1] < nextId /\ c[2] <= now
    <3>1. CASE c \in claimed
      BY <3>1 DEF SchedulerInv, IdsAreGiven, ClaimsAreUsed
    <3>2. CASE c \notin claimed
      <4>1. c[1] \in DOMAIN tasks /\ c[2] = tasks[c[1]].due /\ IsDue(tasks[c[1]])
        BY <3>2, ClaimedTasks
      <4> QED
        BY <4>1, Numbers DEF IsDue
    <3> QED
      BY <3>1, <3>2
  <2> QED
    BY <2>1
<1>6. ClaimsAreUsed'
  <2>1. ASSUME ~lost, NEW c \in claimed', c[1] \in DOMAIN tasks'
        PROVE  IF tasks'[c[1]].period = Once THEN ~tasks'[c[1]].enabled ELSE c[2] < tasks'[c[1]].due
    <3> DEFINE task == tasks[c[1]]
    <3>1. task \in TaskRecords /\ c[1] \in DOMAIN tasks /\ task.due \in Nat
      BY <1>1, <1>2, <2>1
    <3>2. tasks'[c[1]] = IF MovesOn(task) THEN Advance(task) ELSE task
      BY <1>1, <3>1
    <3>3. /\ Advance(task).period = task.period
          /\ task.period = Once => ~Advance(task).enabled
          /\ task.period # Once => Advance(task).due > now
          /\ Advance(task) \in TaskRecords
      BY <1>2, <3>1, AdvanceType
    <3>4. Advance(task).due \in Nat
      BY <3>3 DEF TaskRecords
    <3>5. c[2] <= now /\ c[2] \in Nat
      BY <1>5, ClaimedTasks
    <3>6. CASE MovesOn(task)
      <4> HIDE DEF task
      <4> QED
        BY <1>2, <3>2, <3>3, <3>4, <3>5, <3>6
    <3>7. CASE ~MovesOn(task)
      <4>1. ~IsDue(task)
        BY <3>1, <3>7, ClaimedTasks
      <4>2. c \in claimed
        BY <4>1, ClaimedTasks
      <4>3. UsedUp(tasks)
        BY <2>1 DEF SchedulerInv, ClaimsAreUsed
      <4> QED
        BY <3>1, <3>2, <3>7, <4>2, <4>3 DEF UsedUp
    <3> QED
      BY <3>6, <3>7
  <2>2. ~lost' => UsedUp(tasks)'
    BY <2>1 DEF UsedUp
  <2> QED
    BY <1>5, <2>2 DEF ClaimsAreUsed
<1>7. claimed' \subseteq Ids \X Nat /\ runs' \subseteq RunRecords
  BY ClaimedTasks DEF SchedulerInv, TypeOK
<1> QED
  BY <1>1, <1>3, <1>4, <1>5, <1>6, <1>7 DEF SchedulerInv, TypeOK, IdsAreGiven

LEMMA InvFinalize == ASSUME SchedulerInv, NEW r \in runs, Finalize(r) PROVE SchedulerInv'
<1>1. /\ UNCHANGED <<tasks, now, up, reliable, blocked, missed, nextId, manual, crashes, claimed, gone, lost>>
      /\ runs' \subseteq runs /\ (Save \/ UNCHANGED disk)
  BY DEF Finalize, ReportTo
<1>0. up
  BY DEF SchedulerInv, ClaimsAreUsed
<1>2. IsTable(disk') /\ \A i \in DOMAIN disk' : i < nextId'
  BY <1>1 DEF SchedulerInv, TypeOK, IdsAreGiven, Save
<1>3. CancelIsFinal' /\ FileIsCurrent'
  BY <1>1 DEF SchedulerInv, CancelIsFinal, FileIsCurrent, Save
<1>4. ClaimsAreUsed'
  BY <1>0, <1>1 DEF SchedulerInv, ClaimsAreUsed, UsedUp
<1> QED
  BY <1>1, <1>2, <1>3, <1>4 DEF SchedulerInv, TypeOK, IdsAreGiven

(* Nothing of the table changes when the program stops or starts; what is   *)
(* lost between the table and the file is recorded.                         *)
LEMMA InvProgram == ASSUME SchedulerInv, StopProgram \/ Start PROVE SchedulerInv'
<1>1. CASE StopProgram
  <2>1. IsTable(EmptyTable) /\ DOMAIN EmptyTable = {}
    BY DEF EmptyTable, IsTable
  <2>2. tasks' = EmptyTable /\ up /\ ~up' /\ lost' = (lost \/ disk # tasks)
    BY <1>1 DEF StopProgram
  <2>3. UNCHANGED <<now, disk, reliable, blocked, nextId, manual, claimed, gone>>
    BY <1>1 DEF StopProgram
  <2>4. ClaimsAreUsed'
    <3>1. runs' = {}
      BY <1>1 DEF StopProgram
    <3> QED
      BY <2>2, <2>3, <3>1 DEF SchedulerInv, ClaimsAreUsed, UsedUp
  <2>5. CancelIsFinal' /\ FileIsCurrent'
    BY <2>1, <2>2, <2>3 DEF SchedulerInv, CancelIsFinal, FileIsCurrent
  <2>6. TypeOK'
    <3>1. lost' \in BOOLEAN
      BY <2>2
    <3>2. crashes' = crashes + 1 /\ runs' = {} /\ missed' = FALSE /\ up' = FALSE
      BY <1>1 DEF StopProgram
    <3>3. crashes' \in Nat
      BY <3>2 DEF SchedulerInv, TypeOK
    <3> QED
      BY <2>1, <2>2, <2>3, <3>1, <3>2, <3>3 DEF SchedulerInv, TypeOK
  <2> QED
    BY <2>1, <2>2, <2>3, <2>4, <2>5, <2>6 DEF SchedulerInv, IdsAreGiven
<1>2. CASE Start
  <2>1. ~up /\ up' /\ tasks' = disk
    BY <1>2 DEF Start
  <2>2. UNCHANGED <<now, disk, reliable, runs, nextId, manual, crashes, claimed, gone, lost>>
    BY <1>2 DEF Start
  <2>3. ClaimsAreUsed'
    BY <2>1, <2>2 DEF SchedulerInv, ClaimsAreUsed, UsedUp
  <2>4. CancelIsFinal' /\ FileIsCurrent'
    BY <2>1, <2>2 DEF SchedulerInv, CancelIsFinal, FileIsCurrent
  <2>5. TypeOK'
    BY <1>2, <2>1, <2>2 DEF SchedulerInv, TypeOK, Start
  <2> QED
    BY <2>1, <2>2, <2>3, <2>4, <2>5 DEF SchedulerInv, IdsAreGiven
<1> QED
  BY <1>1, <1>2

LEMMA InvOther ==
  ASSUME SchedulerInv,
         Tick \/ (\E flag \in Flags : SetActivity(flag)) \/ (\E i \in Ids : RunTaskNow(i)) \/ UNCHANGED vars
  PROVE  SchedulerInv'
<1>1. UNCHANGED <<up, tasks, disk, reliable, missed, nextId, crashes, claimed, gone, lost>>
  BY DEF Tick, SetActivity, RunTaskNow, vars
<1>2. now \in Nat /\ now' \in Times /\ now' >= now
  BY SchedulerAssumption DEF SchedulerInv, TypeOK, Times, Tick, SetActivity, RunTaskNow, vars
<1>3. blocked' \subseteq Flags /\ manual' \in Nat
  BY DEF SchedulerInv, TypeOK, Tick, SetActivity, RunTaskNow, vars
<1>4. runs' \subseteq RunRecords
  <2>1. ASSUME NEW i \in Ids, RunTaskNow(i) PROVE runs' \subseteq RunRecords
    <3>1. tasks[i].due \in Nat /\ manual' \in Nat
      BY <2>1 DEF RunTaskNow, SchedulerInv, TypeOK, IsTable, TaskRecords
    <3> QED
      BY <2>1, <3>1 DEF RunTaskNow, SchedulerInv, TypeOK, RunRecords
  <2>2. CASE runs' = runs
    BY <2>2 DEF SchedulerInv, TypeOK
  <2> QED
    BY <2>1, <2>2 DEF Tick, SetActivity, vars
<1>5. TypeOK'
  BY <1>1, <1>2, <1>3, <1>4 DEF SchedulerInv, TypeOK
<1>6. ClaimsAreUsed'
  <2>1. \A c \in claimed : c[2] <= now'
    <3>1. \A c \in claimed : c[2] \in Nat /\ c[2] <= now
      BY Numbers DEF SchedulerInv, ClaimsAreUsed
    <3>2. now' \in Nat
      BY <1>2, SchedulerAssumption DEF Times
    <3> QED
      BY <1>2, <3>1, <3>2
  <2>2. ~up' => runs' = {}
    BY <1>1 DEF SchedulerInv, ClaimsAreUsed, Tick, SetActivity, RunTaskNow, vars
  <2> QED
    BY <1>1, <2>1, <2>2 DEF SchedulerInv, ClaimsAreUsed, UsedUp
<1> QED
  BY <1>1, <1>5, <1>6 DEF SchedulerInv, IdsAreGiven, CancelIsFinal, FileIsCurrent

LEMMA InvInit == Init => SchedulerInv
<1> SUFFICES ASSUME Init PROVE SchedulerInv
  OBVIOUS
<1>1. PICK n \in 0 .. MaxIds : DOMAIN disk = 1 .. n /\ IsTable(disk)
  BY SchedulerAssumption DEF Init
<1>2. n \in Nat /\ MaxIds \in Nat
  BY SchedulerAssumption
<1>3. Cardinality(1 .. n) = n
  BY <1>2, FS_Interval
<1>4. nextId = n + 1
  BY <1>1, <1>3 DEF Init
<1>5. TypeOK
  <2>1. IsTable(EmptyTable)
    BY DEF IsTable, EmptyTable
  <2>2. nextId \in 1 .. MaxIds + 1
    BY <1>2, <1>4
  <2>3. now \in Times
    BY SchedulerAssumption DEF Init, Times
  <2> QED
    BY <1>1, <2>1, <2>2, <2>3 DEF Init, TypeOK
<1>6. IdsAreGiven
  <2>1. DOMAIN tasks = {} /\ gone = {} /\ claimed = {}
    BY DEF Init, EmptyTable
  <2> QED
    BY <1>1, <1>2, <1>4, <2>1 DEF IdsAreGiven
<1> QED
  BY <1>5, <1>6 DEF SchedulerInv, Init, CancelIsFinal, FileIsCurrent, ClaimsAreUsed, UsedUp

LEMMA InvNext == SchedulerInv /\ [Next]_vars => SchedulerInv'
<1> SUFFICES ASSUME SchedulerInv, [Next]_vars PROVE SchedulerInv'
  OBVIOUS
<1>1. CASE CheckDueTasks
  BY <1>1, InvClaim DEF CheckDueTasks, SchedulerInv, TypeOK
<1>2. CASE CheckMissedTasks
  <2>1. CASE Undisturbed
    BY <1>2, <2>1, InvClaim DEF CheckMissedTasks
  <2>2. CASE ~Undisturbed
    <3>1. UNCHANGED <<tasks, disk, runs, claimed, now, up, reliable, blocked, nextId, manual, crashes, gone, lost>>
      BY <1>2, <2>2 DEF CheckMissedTasks
    <3>2. missed' \in BOOLEAN
      BY <1>2 DEF CheckMissedTasks
    <3> QED
      BY <3>1, <3>2 DEF SchedulerInv, TypeOK, IdsAreGiven, CancelIsFinal, FileIsCurrent,
                        ClaimsAreUsed, UsedUp
  <2> QED
    BY <2>1, <2>2
<1>3. CASE Execution
  BY <1>3, InvFinalize DEF Execution
<1> QED
  BY <1>1, <1>2, <1>3, InvSchedule, InvEnsureTask, InvCancel, InvToggle, InvProgram, InvOther DEF Next

-----------------------------------------------------------------------------
(* The table, its file and the claims fit together in every state.          *)
THEOREM Invariant == Spec => []SchedulerInv
<1> QED
  BY InvInit, InvNext, PTL DEF Spec

(* CancelIsFinal (TLC: scheduler): a cancelled task does not come back,     *)
(* neither from the thread that was executing it nor from the file, as long *)
(* as the file could be written.                                            *)
THEOREM CancelledStayGone == Spec => []CancelIsFinal
<1> QED
  BY Invariant, PTL DEF SchedulerInv

(* FileIsUpToDate (TLC: scheduler): the types, and what the table says is   *)
(* in the file as long as no write failed, at every place that changes it.  *)
THEOREM NothingIsForgotten == Spec => []FileIsUpToDate
<1>1. SchedulerInv => FileIsUpToDate
  BY DEF SchedulerInv, FileIsUpToDate
<1> QED
  BY <1>1, Invariant, PTL

LEMMA ClaimStep ==
  ASSUME SchedulerInv, Next, ~lost, NEW r \in runs', r \notin runs, r.kind = "claim"
  PROVE  <<r.id, r.due>> \notin claimed
<1>1. up /\ ClaimDueTasks
  <2>1. ~\E i \in Ids : RunTaskNow(i)
    <3> SUFFICES ASSUME NEW i \in Ids, RunTaskNow(i) PROVE FALSE
      OBVIOUS
    <3>1. r = [id |-> i, due |-> tasks[i].due, kind |-> "manual", nr |-> manual']
      BY DEF RunTaskNow
    <3> QED
      BY <3>1
  <2> QED
    BY <2>1 DEF Next, Schedule, EnsureTask, Cancel, Toggle, CheckDueTasks, CheckMissedTasks, Execution,
                Finalize, SetActivity, Tick, StopProgram, Start
<1>2. r.id \in DOMAIN tasks /\ r.due = tasks[r.id].due /\ IsDue(tasks[r.id])
  BY <1>1, ClaimedTasks
<1>3. tasks[r.id].due \in Nat
  BY <1>2 DEF SchedulerInv, TypeOK, IsTable, TaskRecords
<1>4. UsedUp(tasks)
  BY <1>1 DEF SchedulerInv, ClaimsAreUsed
<1> SUFFICES ASSUME <<r.id, r.due>> \in claimed PROVE FALSE
  OBVIOUS
<1>5. IF tasks[r.id].period = Once THEN ~tasks[r.id].enabled ELSE r.due < tasks[r.id].due
  <2> DEFINE c == <<r.id, r.due>>
  <2>1. c \in claimed /\ c[1] = r.id /\ c[2] = r.due
    OBVIOUS
  <2> HIDE DEF c
  <2> QED
    BY <1>2, <1>4, <2>1 DEF UsedUp
<1> QED
  BY <1>2, <1>3, <1>5 DEF IsDue

(* ClaimedOnce (TLC: scheduler): no occurrence is handed to a runner twice, *)
(* by the ticker or the startup check, before or after any number of        *)
(* restarts, unless the user armed it again or unsaved changes were lost.   *)
THEOREM ClaimsOnce == Spec => ClaimedOnce
<1>1. SchedulerInv /\ [Next]_vars
        => [~lost => \A r \in runs' \ runs : r.kind = "claim" => <<r.id, r.due>> \notin claimed]_vars
  BY ClaimStep
<1> QED
  BY <1>1, Invariant, PTL DEF Spec, ClaimedOnce

(* NothingLeftOverdue (TLC: scheduler): after a check every enabled task    *)
(* lies in the future, on an allowed date, however many occurrences were    *)
(* missed and however many dates are excepted (_compute_next_run).          *)
THEOREM Advances == Spec => NothingLeftOverdue
<1>1. ASSUME SchedulerInv, CheckDueTasks, NEW i \in DOMAIN tasks', tasks'[i].enabled
      PROVE  tasks'[i].due > now /\ ~OnSkippedDate(tasks'[i])
  <2> DEFINE task == tasks[i]
  <2>1. /\ i \in DOMAIN tasks
        /\ tasks'[i] = IF MovesOn(task) THEN Advance(task) ELSE task
    BY <1>1, ClaimedTable DEF CheckDueTasks
  <2>2. task \in TaskRecords /\ now \in Times /\ now \in Nat /\ task.due \in Nat
    BY <1>1, <2>1, SchedulerAssumption DEF SchedulerInv, TypeOK, IsTable, TaskRecords, Times
  <2> HIDE DEF task
  <2>3. CASE MovesOn(task)
    <3>1. /\ task.period = Once => ~Advance(task).enabled
          /\ task.period # Once => Advance(task).due > now /\ Advance(task).due \notin task.skip
          /\ Advance(task).skip = task.skip
      BY <2>2, AdvanceType
    <3> QED
      BY <1>1, <2>1, <2>3, <3>1 DEF OnSkippedDate
  <2>4. CASE ~MovesOn(task)
    BY <1>1, <2>1, <2>2, <2>4 DEF MovesOn, OnSkippedDate
  <2> QED
    BY <2>3, <2>4
<1>2. SchedulerInv /\ [Next]_vars
        => [CheckDueTasks => \A i \in DOMAIN tasks' :
              tasks'[i].enabled => tasks'[i].due > now /\ ~OnSkippedDate(tasks'[i])]_vars
  BY <1>1
<1> QED
  BY <1>2, Invariant, PTL DEF Spec, NothingLeftOverdue
=============================================================================

------------------------- MODULE ProactiveScheduler -------------------------
(***************************************************************************)
(* agent/proactive_scheduler.py: the table of scheduled tasks, its file,   *)
(* the ticker that claims what is due, the threads that execute claims,    *)
(* and the restarts between which only the file survives.                  *)
(*                                                                         *)
(* Time is a number of ticks and every tick a date of its own, so that     *)
(* except_dates are ticks too.  A task that repeats has a period in ticks. *)
(* Task ids are given out in order, so their order is the dict's.  A       *)
(* section under self._lock, the write of the file included, is one step:  *)
(* write_json_atomic replaces the file or leaves the old one.              *)
(***************************************************************************)
EXTENDS Integers, FiniteSets, FiniteSetsExt, Functions

CONSTANTS
  MaxIds,      \* bound: how many tasks are ever created
  MaxTime,     \* bound: how far the clock runs
  MaxManual,   \* bound: how many runs are started by hand
  MaxCrashes,  \* bound: how often the program stops
  MaxTasks,    \* _MAX_TASKS
  Periods,     \* the periods of repeating tasks
  Skips,       \* the except_dates that tasks are given
  Flags,       \* the activity flags: locked, away, quiet
  Legacy       \* the schedule files there may be before the first start

Ids == 1 .. MaxIds
Times == 0 .. MaxTime
Once == 0   \* the period of a one-shot task

(* internal: the maintenance task that ensure_task keeps by its name. *)
TaskRecords ==
  [due : Nat, period : Periods \union {Once}, skip : Skips,
   internal : BOOLEAN, enabled : BOOLEAN, completed : BOOLEAN]

IsTable(t) ==
  /\ DOMAIN t \subseteq Ids /\ t = [i \in DOMAIN t |-> t[i]]
  /\ \A i \in DOMAIN t : t[i] \in TaskRecords /\ (t[i].internal => t[i].period # Once)

ASSUME SchedulerAssumption ==
  /\ MaxIds \in Nat /\ MaxTime \in Nat /\ MaxManual \in Nat /\ MaxCrashes \in Nat
  /\ MaxTasks \in Nat \ {0}
  /\ Periods \subseteq Nat \ {0}
  /\ {} \in Skips /\ IsFiniteSet(Skips) /\ \A skip \in Skips : skip \subseteq Nat /\ IsFiniteSet(skip)
  /\ \A file \in Legacy : IsTable(file) /\ \E n \in 0 .. MaxIds : DOMAIN file = 1 .. n

VARIABLES
  now,       \* datetime.now()
  up,        \* the program runs
  tasks,     \* self._tasks
  disk,      \* scheduled_tasks.json
  reliable,  \* prophecy: no write fails (when one does _save logs it and goes on)
  blocked,   \* the activity flags that are set
  runs,      \* the threads in _execute_task
  missed,    \* check_missed_tasks_on_startup() is still to come
  nextId,    \* the next fresh id
  manual,    \* how many runs were started by hand
  crashes,   \* how often the program stopped
  claimed,   \* history: the occurrences <<id, due>> claimed and not re-armed
  gone,      \* history: the ids cancel() has removed
  lost       \* history: the program stopped with changes it had failed to save

vars == <<now, up, tasks, disk, reliable, blocked, runs, missed, nextId, manual, crashes,
          claimed, gone, lost>>

(* A run holds a copy of the occurrence it was claimed for. *)
RunRecords ==
  [id : Ids, due : Nat, kind : {"claim", "manual"}, nr : Nat]

TypeOK ==
  /\ now \in Times
  /\ {up, reliable, missed, lost} \subseteq BOOLEAN
  /\ IsTable(tasks) /\ IsTable(disk)
  /\ blocked \subseteq Flags
  /\ runs \subseteq RunRecords
  /\ nextId \in 1 .. MaxIds + 1
  /\ manual \in Nat /\ crashes \in Nat
  /\ claimed \subseteq Ids \X Nat
  /\ gone \subseteq Ids

EmptyTable == [i \in {} |-> 0]

(* The program is not running and has left a schedule file behind. *)
Init ==
  /\ now = 0
  /\ up = FALSE
  /\ tasks = EmptyTable
  /\ disk \in Legacy
  /\ reliable \in BOOLEAN
  /\ blocked = {}
  /\ runs = {}
  /\ missed = FALSE
  /\ nextId = Cardinality(DOMAIN disk) + 1
  /\ manual = 0
  /\ crashes = 0
  /\ claimed = {}
  /\ gone = {}
  /\ lost = FALSE

-----------------------------------------------------------------------------
(* The table. *)

With(table, i, task) == [j \in DOMAIN table \union {i} |-> IF j = i THEN task ELSE table[j]]
Without(table, S) == Restrict(table, DOMAIN table \ S)

(* _save(): the file is the table, or stays as it was. *)
SaveForgotten == UNCHANGED disk  \* mutant: no _save
Save == disk' = tasks' \/ (~reliable /\ UNCHANGED disk)

UserTasks == {i \in DOMAIN tasks : ~tasks[i].internal}

Finished == {i \in UserTasks : tasks[i].completed /\ ~tasks[i].enabled}

(* schedule() makes room by dropping finished one-shots, oldest first. *)
Excess == Cardinality(UserTasks) - MaxTasks + 1
Evicted == {i \in Finished : Cardinality({j \in Finished : j < i}) < Excess}

NewTask(due, period, skip, internal) ==
  [due |-> due, period |-> period, skip |-> skip, internal |-> internal,
   enabled |-> TRUE, completed |-> FALSE]

HasRoom == Cardinality(UserTasks \ Evicted) < MaxTasks

(* schedule() of a user's task; when the table stays full it raises, with    *)
(* the evicted tasks gone from memory and nothing saved.                     *)
Schedule(due, period, skip) ==
  /\ up /\ nextId <= MaxIds /\ due > now
  /\ IF HasRoom
     THEN /\ tasks' = With(Without(tasks, Evicted), nextId, NewTask(due, period, skip, FALSE))
          /\ nextId' = nextId + 1
          /\ Save
     ELSE tasks' = Without(tasks, Evicted) /\ UNCHANGED <<nextId, disk>>
  /\ UNCHANGED <<now, up, reliable, blocked, runs, missed, manual, crashes, claimed, gone, lost>>

(* ensure_task() of the maintenance task: found by name, it is enabled      *)
(* again and keeps its due time; otherwise it is scheduled, without a limit.*)
EnsureTask(due, period) ==
  /\ up /\ missed
  /\ LET found == {i \in DOMAIN tasks : tasks[i].internal} IN
     IF found # {}
     THEN /\ tasks' = [tasks EXCEPT ![Min(found)].enabled = TRUE, ![Min(found)].period = period,
                                    ![Min(found)].skip = {}]
          /\ UNCHANGED nextId
     ELSE /\ nextId <= MaxIds /\ due > now
          /\ tasks' = With(tasks, nextId, NewTask(due, period, {}, TRUE))
          /\ nextId' = nextId + 1
  /\ Save
  /\ UNCHANGED <<now, up, reliable, blocked, runs, missed, manual, crashes, claimed, gone, lost>>

Cancel(i) ==
  /\ up /\ i \in DOMAIN tasks
  /\ tasks' = Without(tasks, {i})
  /\ Save
  /\ gone' = gone \union {i}
  /\ UNCHANGED <<now, up, reliable, blocked, runs, missed, nextId, manual, crashes, claimed, lost>>

(* toggle_task(): a finished one-shot that is enabled again is due again. *)
Toggle(i) ==
  /\ up /\ i \in DOMAIN tasks
  /\ tasks' = [tasks EXCEPT ![i].enabled = ~@, ![i].completed = FALSE]
  /\ Save
  /\ claimed' = {c \in claimed : c[1] # i}
  /\ UNCHANGED <<now, up, reliable, blocked, runs, missed, nextId, manual, crashes, gone, lost>>

-----------------------------------------------------------------------------
(* Claiming. *)

(* _compute_next_run(): the first occurrence after now on an allowed date. *)
NextRunFromNow(task) == now + task.period  \* mutant: one period from now, whatever the date
NextRun(task) ==
  LET later(k) == task.due + k * task.period
      allowed == {k \in 1 .. MaxTime + Cardinality(task.skip) + 1 :
                    later(k) > now /\ later(k) \notin task.skip}
  IN later(Min(allowed))

OnSkippedDate(task) == task.due \in task.skip
IsDue(task) == task.enabled /\ ~OnSkippedDate(task) /\ task.due <= now

MovesOn(task) == task.enabled /\ (OnSkippedDate(task) \/ task.due <= now)

(* What _claim_due_tasks() leaves of a task it claims, or skips for its date. *)
KeepsArmed(task) == IF task.period = Once THEN task ELSE [task EXCEPT !.due = NextRun(task)]
Advance(task) ==
  IF task.period # Once THEN [task EXCEPT !.due = NextRun(task)]
  ELSE [task EXCEPT !.enabled = FALSE, !.completed = @ \/ ~OnSkippedDate(task)]

ClaimDueTasks ==
  LET due == {i \in DOMAIN tasks : IsDue(tasks[i])}
      moved == {i \in DOMAIN tasks : MovesOn(tasks[i])}
  IN /\ tasks' = [i \in DOMAIN tasks |-> IF i \in moved THEN Advance(tasks[i]) ELSE tasks[i]]
     /\ IF moved # {} THEN Save ELSE UNCHANGED disk
     /\ runs' = runs \union
          {[id |-> i, due |-> tasks[i].due, kind |-> "claim", nr |-> 0] : i \in due}
     /\ claimed' = claimed \union {<<i, tasks[i].due>> : i \in due}

AfterStartup == blocked = {} /\ ~missed  \* mutant: nothing is claimed before the startup check
Undisturbed == blocked = {}

(* _check_due_tasks(), every _TICK_INTERVAL; both checks hold the activity  *)
(* lock while they claim.                                                   *)
CheckDueTasks ==
  /\ up /\ Undisturbed
  /\ ClaimDueTasks
  /\ UNCHANGED <<now, up, reliable, blocked, missed, nextId, manual, crashes, gone, lost>>

CheckMissedTasks ==
  /\ up /\ missed
  /\ IF Undisturbed THEN ClaimDueTasks ELSE UNCHANGED <<tasks, disk, runs, claimed>>
  /\ missed' = FALSE
  /\ UNCHANGED <<now, up, reliable, blocked, nextId, manual, crashes, gone, lost>>

-----------------------------------------------------------------------------
(* Executing. *)

(* run_task_now(): whatever the task's state, and without touching it. *)
RunTaskNow(i) ==
  /\ up /\ i \in DOMAIN tasks /\ manual < MaxManual
  /\ manual' = manual + 1
  /\ runs' = runs \union
       {[id |-> i, due |-> tasks[i].due, kind |-> "manual", nr |-> manual']}
  /\ UNCHANGED <<now, up, tasks, disk, reliable, blocked, missed, nextId, crashes, claimed, gone, lost>>

(* _finalize_task_run(): the result goes to the task if it is still there;  *)
(* the line it then appends to the log of runs is not modelled.             *)
PutsBack(r) ==  \* mutant: stores the task it holds
  /\ tasks' = With(tasks, r.id, [NewTask(r.due, Once, {}, FALSE) EXCEPT !.enabled = FALSE])
  /\ Save
ReportTo(r) ==
  /\ UNCHANGED tasks
  /\ IF r.id \in DOMAIN tasks THEN Save ELSE UNCHANGED disk

Finalize(r) ==
  /\ runs' = runs \ {r}
  /\ ReportTo(r)
  /\ UNCHANGED <<now, up, reliable, blocked, missed, nextId, manual, crashes, claimed, gone, lost>>

-----------------------------------------------------------------------------
(* The surroundings: the activity monitor, the clock, the program's life. *)

SetActivity(flag) ==
  /\ up
  /\ blocked' \in {blocked \union {flag}, blocked \ {flag}} \ {blocked}
  /\ UNCHANGED <<now, up, tasks, disk, reliable, runs, missed, nextId, manual, crashes, claimed,
                 gone, lost>>

Tick ==
  /\ now < MaxTime
  /\ now' = now + 1
  /\ UNCHANGED <<up, tasks, disk, reliable, blocked, runs, missed, nextId, manual, crashes, claimed,
                 gone, lost>>

(* The program exits or is killed: daemon threads die where they are. *)
StopProgram ==
  /\ up /\ crashes < MaxCrashes
  /\ crashes' = crashes + 1
  /\ up' = FALSE
  /\ tasks' = EmptyTable
  /\ runs' = {}
  /\ missed' = FALSE
  /\ lost' = (lost \/ disk # tasks)
  /\ UNCHANGED <<now, disk, reliable, blocked, nextId, manual, claimed, gone>>

(* __init__: _load() and the ticker. *)
Start ==
  /\ ~up
  /\ up' = TRUE
  /\ tasks' = disk
  /\ blocked' = {}
  /\ missed' = TRUE
  /\ UNCHANGED <<now, disk, reliable, runs, nextId, manual, crashes, claimed, gone, lost>>

-----------------------------------------------------------------------------
Execution == \E r \in runs : Finalize(r)

Next ==
  \/ \E due \in Times, period \in Periods \union {Once}, skip \in Skips : Schedule(due, period, skip)
  \/ \E due \in Times, period \in Periods : EnsureTask(due, period)
  \/ \E i \in Ids : Cancel(i) \/ Toggle(i) \/ RunTaskNow(i)
  \/ CheckDueTasks
  \/ CheckMissedTasks
  \/ Execution
  \/ \E flag \in Flags : SetActivity(flag)
  \/ Tick
  \/ StopProgram
  \/ Start

Spec == Init /\ [][Next]_vars

(***************************************************************************)
(* The ticker wakes up again and again while the program runs, and the     *)
(* threads it starts come to an end (the runner's own time limits).        *)
(***************************************************************************)
FairSpec == Spec /\ WF_vars(CheckDueTasks) /\ WF_vars(Execution)

-----------------------------------------------------------------------------
(* Properties. *)

(* No occurrence is handed to a runner twice, by whichever of the ticker    *)
(* and the startup check, before or after a restart, unless the user arms   *)
(* it again or the table could not be saved.                                *)
ClaimedOnce ==
  [][~lost => \A r \in runs' \ runs :
       r.kind = "claim" => <<r.id, r.due>> \notin claimed]_vars

(* A check leaves nothing overdue: every task it looked at is claimed and   *)
(* moved to an allowed date in the future, or disarmed.                     *)
NothingLeftOverdue ==
  [][CheckDueTasks => \A i \in DOMAIN tasks' :
       tasks'[i].enabled => tasks'[i].due > now /\ ~OnSkippedDate(tasks'[i])]_vars

(* A cancelled task does not come back, neither through the run that was    *)
(* still executing it nor through the file, if the file could be written.   *)
CancelIsFinal ==
  reliable => gone \intersect (DOMAIN tasks \union DOMAIN disk) = {}

(* A restart forgets nothing the program has confirmed. *)
FileIsCurrent ==
  up /\ reliable => \A i \in DOMAIN tasks : i \in DOMAIN disk /\ disk[i] = tasks[i]

(* An armed task is not overlooked: once due it is claimed, unless someone  *)
(* interferes with it, the user is not to be disturbed or the program ends. *)
DueTasksAreClaimed ==
  \A i \in Ids :
    (up /\ i \in DOMAIN tasks /\ IsDue(tasks[i]))
      ~> \/ ~up \/ blocked # {}
         \/ i \notin DOMAIN tasks \/ ~IsDue(tasks[i])
=============================================================================

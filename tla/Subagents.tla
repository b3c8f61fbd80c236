------------------------------ MODULE Subagents ------------------------------
(***************************************************************************)
(* Delegation: spawn_subagent() of agent/agent_orchestrator.py, and what   *)
(* interrupt() and run() of the parent mean for its children.              *)
(*                                                                         *)
(* Each job is one call of spawn_subagent(): its caller waits for the      *)
(* result with a time limit, and a thread of a bounded pool makes a child  *)
(* orchestrator, registers it with the parent and runs it.  The parent is  *)
(* interrupted by another thread meanwhile; a new run() of the parent      *)
(* clears its event.  The child's own run is AgentOrchestrator's, reduced  *)
(* to steps and the safe points between them.                              *)
(***************************************************************************)
EXTENDS Integers, Sequences, FiniteSets, Functions

CONSTANTS
  Jobs,         \* delegations, each made once
  MaxSubagents  \* max_workers of the pool

ASSUME SubagentsAssumption == MaxSubagents \in Nat \ {0}

VARIABLES
  caller,       \* where each call of spawn_subagent() is
  child,        \* where the pool's work on each job is
  pool,         \* submitted jobs no thread has taken, oldest first
  event,        \* child_event is set
  children,     \* self._children
  interrupted,  \* the parent's _interrupt_requested is set
  targets,      \* the children interrupt() has copied and not yet interrupted
  ipc,          \* where the interrupting thread is
  owed,         \* history: jobs submitted before the last interruption, unless
                \* a run() has begun since
  blamed        \* history: jobs that timed out or were ever interrupted

parent == <<interrupted, targets, ipc>>
history == <<owed, blamed>>
vars == <<caller, child, pool, event, children, parent, history>>

Busy == {"starting", "registered", "safe", "step", "leaving"}
Occupied == {j \in Jobs : child[j] \in Busy}

(* The jobs in progress fit the pool; a job no thread has taken is in its   *)
(* queue, and the children the parent knows are those being run.            *)

TypeOK ==
  /\ caller \in [Jobs -> {"idle", "waiting", "gaveUp", "stopping", "returned"}]
  /\ child \in [Jobs -> {"none", "queued", "gone"} \union Busy]
  /\ pool \in Seq(Jobs)
  /\ event \in [Jobs -> BOOLEAN]
  /\ children \subseteq Jobs
  /\ interrupted \in BOOLEAN
  /\ targets \subseteq Jobs
  /\ ipc \in {"idle", "copy", "deliver"}
  /\ owed \subseteq Jobs /\ blamed \subseteq Jobs
  /\ Cardinality(Occupied) <= MaxSubagents
  /\ Range(pool) = {j \in Jobs : child[j] = "queued"}
  /\ children = {j \in Jobs : child[j] \in Busy \ {"starting"}}

Init ==
  /\ caller = [j \in Jobs |-> "idle"]
  /\ child = [j \in Jobs |-> "none"]
  /\ pool = <<>>
  /\ event = [j \in Jobs |-> FALSE]
  /\ children = {}
  /\ interrupted = FALSE /\ targets = {} /\ ipc = "idle"
  /\ owed = {} /\ blamed = {}

Moves(j, from, to) == child[j] = from /\ child' = [child EXCEPT ![j] = to]
Proceeds(j, from, to) == caller[j] = from /\ caller' = [caller EXCEPT ![j] = to]

-----------------------------------------------------------------------------
(* The caller of spawn_subagent. *)

Submit(j) ==
  /\ Proceeds(j, "idle", "waiting")
  /\ Moves(j, "none", "queued")
  /\ pool' = Append(pool, j)
  /\ UNCHANGED <<event, children, parent, history>>

(* future.result(timeout) has the result ... *)
Return(j) ==
  /\ child[j] = "gone"
  /\ Proceeds(j, "waiting", "returned")
  /\ UNCHANGED <<child, pool, event, children, parent, history>>

(* ... or not in time. *)
TimeOut(j) ==
  /\ child[j] # "gone"
  /\ Proceeds(j, "waiting", "gaveUp")
  /\ blamed' = blamed \union {j}
  /\ UNCHANGED <<child, pool, event, children, parent, owed>>

(* future.cancel(): only a job no thread has taken. *)
CancelFuture(j) ==
  /\ Proceeds(j, "gaveUp", "stopping")
  /\ child' = [child EXCEPT ![j] = IF @ = "queued" THEN "gone" ELSE @]
  /\ pool' = SelectSeq(pool, LAMBDA k : k # j)
  /\ UNCHANGED <<event, children, parent, history>>

SignalAll(j) == [k \in Jobs |-> event[k] \/ k = j \/ k \in children]  \* mutant: interrupt()

Signal(j) == [event EXCEPT ![j] = TRUE]

(* child_event.set(), and interrupt() of the child if it has been made. *)
StopChild(j) ==
  /\ Proceeds(j, "stopping", "returned")
  /\ event' = Signal(j)
  /\ UNCHANGED <<child, pool, children, parent, history>>

-----------------------------------------------------------------------------
(* A thread of the pool (_run). *)

ThreadFree == Cardinality(Occupied) < MaxSubagents

TakeJob(j) ==
  /\ pool # <<>> /\ Head(pool) = j
  /\ ThreadFree
  /\ Moves(j, "queued", "starting")
  /\ pool' = Tail(pool)
  /\ UNCHANGED <<caller, event, children, parent, history>>

Register(j) ==
  /\ Moves(j, "starting", "registered")
  /\ children' = children \union {j}
  /\ UNCHANGED <<caller, pool, event, parent, history>>

NotToldOfParent(j) == event  \* mutant: the parent's event is not looked at

ToldOfParent(j) == IF interrupted THEN [event EXCEPT ![j] = TRUE] ELSE event

(* The interruption may have come before the child was registered. *)
CheckParent(j) ==
  /\ Moves(j, "registered", "safe")
  /\ event' = ToldOfParent(j)
  /\ UNCHANGED <<caller, pool, children, parent, history>>

Deaf(j) == FALSE  \* mutant: the child has an event of its own

Hears(j) == event[j]

(* child.run(): at a safe point it stops if it is told to, and otherwise    *)
(* goes on with a step or is at its end.                                    *)
SafePoint(j) ==
  /\ \/ Hears(j) /\ Moves(j, "safe", "leaving")
     \/ ~Hears(j) /\ (Moves(j, "safe", "step") \/ Moves(j, "safe", "leaving"))
  /\ UNCHANGED <<caller, pool, event, children, parent, history>>

StepEnds(j) ==
  /\ Moves(j, "step", "safe")
  /\ UNCHANGED <<caller, pool, event, children, parent, history>>

Unregister(j) ==
  /\ Moves(j, "leaving", "gone")
  /\ children' = children \ {j}
  /\ UNCHANGED <<caller, pool, event, parent, history>>

Thread(j) ==
  TakeJob(j) \/ Register(j) \/ CheckParent(j) \/ SafePoint(j) \/ StepEnds(j) \/ Unregister(j)

-----------------------------------------------------------------------------
(* The parent. *)

Submitted == {j \in Jobs : child[j] \notin {"none", "gone"}}

(* interrupt(): the event, a copy of the children under their lock, and     *)
(* interrupt() of each of them.                                             *)
Interrupt ==
  /\ ipc = "idle"
  /\ ipc' = "copy"
  /\ interrupted' = TRUE
  /\ owed' = Submitted
  /\ blamed' = blamed \union Submitted
  /\ UNCHANGED <<caller, child, pool, event, children, targets>>

CopyChildren ==
  /\ ipc = "copy"
  /\ ipc' = "deliver"
  /\ targets' = children
  /\ UNCHANGED <<caller, child, pool, event, children, interrupted, history>>

Deliver ==
  /\ ipc = "deliver"
  /\ IF targets = {}
     THEN ipc' = "idle" /\ UNCHANGED <<event, targets>>
     ELSE \E j \in targets : /\ event' = [event EXCEPT ![j] = TRUE]
                             /\ targets' = targets \ {j}
                             /\ UNCHANGED ipc
  /\ UNCHANGED <<caller, child, pool, children, interrupted, history>>

(* A run() of the parent begins: _interrupt_requested.clear(). *)
ParentRuns ==
  /\ interrupted' = FALSE
  /\ owed' = {}
  /\ UNCHANGED <<caller, child, pool, event, children, targets, ipc, blamed>>

Next ==
  \/ \E j \in Jobs : \/ Submit(j) \/ Return(j) \/ TimeOut(j) \/ CancelFuture(j) \/ StopChild(j)
                     \/ Thread(j)
  \/ Interrupt \/ CopyChildren \/ Deliver \/ ParentRuns

Spec == Init /\ [][Next]_vars

(***************************************************************************)
(* Threads run, steps end (their processes have time limits), a caller's   *)
(* time limit passes.  Nobody has to delegate, interrupt or run.           *)
(***************************************************************************)
FairSpec ==
  /\ Spec
  /\ \A j \in Jobs : /\ WF_vars(Thread(j))
                     /\ WF_vars(Return(j) \/ TimeOut(j) \/ CancelFuture(j) \/ StopChild(j))

-----------------------------------------------------------------------------
(* Properties. *)

Running(j) == child[j] \in {"safe", "step"}

(* Once interrupt() has returned, every child of a job delegated before it  *)
(* is told to stop, wherever its registration fell, unless a new run() of   *)
(* the parent has cleared the event meanwhile.                              *)
InterruptReachesChildren ==
  ipc = "idle" => \A j \in owed : Running(j) => event[j]

(* The time limit of one job stops that job only. *)
OnlyBlamedStop ==
  [][\A j \in Jobs : ~event[j] /\ event'[j]
                      => j \in blamed \/ interrupted \/ j \in targets]_vars

(* A thread of the pool is given back by a job whose caller gave up, so     *)
(* that in the end every job is run or cancelled (each is made once).       *)
EveryJobEnds == <>[](\A j \in Jobs : child[j] \in {"none", "gone"})
=============================================================================

-------------------------- MODULE MCAgentTaskQueue --------------------------
(* Small instances of AgentTaskQueue (two tasks, two workers), and of what  *)
(* its tasks run: AgentOrchestrator (one caller, who may call again and     *)
(* again) and StepExecution (two steps that compete for one slot).  The     *)
(* three share nothing: the initial state chooses the one that moves, the   *)
(* others stand still.                                                      *)
EXTENDS AgentTaskQueue

VARIABLES
  part,                                                        \* the component that moves
  call, arg, at, run, interrupted, expired, checkpoint, done, settled, hist,  \* AgentOrchestrator
  place, attempt, process, registered, slots, ended, event, sweep, listed, after  \* StepExecution

CONSTANTS Users, PlanSteps, Plans, MaxIterations, NoPlan, NoCheckpoint, Step, Slots, MaxRetries

(* Every threading.Semaphore of the executor has places. *)
ASSUME StepsAssumption == IsFiniteSet(Step) /\ Slots \in Nat \ {0} /\ MaxRetries \in Nat

(* The default of submit(): every object gets a task_id of its own. *)
FreshIds == [t \in Tasks |-> t]

A == INSTANCE AgentOrchestrator WITH Callers <- Users, Steps <- PlanSteps, LayerOf <- [s \in PlanSteps |-> s]
S == INSTANCE StepExecution WITH pc <- place, outcome <- ended, cancelled <- event

agent == <<call, arg, at, run, interrupted, expired, checkpoint, done, settled, hist>>
tries == <<place, attempt, process, registered, slots, ended, event, sweep, listed, after>>

(* The end of the steps is no deadlock. *)
AllEnded == sweep = "over" /\ \A s \in Step : place[s] = "done"

Start ==
  /\ part \in {"queue", "agent", "steps"}
  /\ Init /\ A!Init /\ S!Init

Parts ==
  /\ Start
  /\ [][/\ UNCHANGED part
        /\ \/ part = "queue" /\ Next /\ UNCHANGED <<agent, tries>>
           \/ part = "agent" /\ A!Next /\ UNCHANGED <<vars, tries>>
           \/ part = "steps" /\ S!Next /\ UNCHANGED <<vars, agent>>
           \/ part = "steps" /\ AllEnded /\ UNCHANGED <<vars, agent, tries>>]_<<part, vars, agent, tries>>
  /\ \A w \in Workers : WF_vars(part = "queue" /\ Worker(w))
  /\ WF_agent(part = "agent" /\ A!InRun)
  /\ \A c \in Users : WF_agent(part = "agent" /\ A!Acquire(c))
  /\ \A s \in Step : SF_tries(part = "steps" /\ S!Thread(s)) /\ WF_tries(part = "steps" /\ S!Answer(s))

(* AgentOrchestrator: every run() and resume() returns. *)
CallsReturn == A!CallsReturn

(* StepExecution: an interrupted step starts one more process at most. *)
OneProcessAfter == S!TypeOK /\ S!OneProcessAfter

(* StepExecution: every step ends, with its tries and waits. *)
StepsEnd == part = "steps" => S!StepsEnd
=============================================================================

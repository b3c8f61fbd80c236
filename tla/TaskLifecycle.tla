--------------------------- MODULE TaskLifecycle ---------------------------
(***************************************************************************)
(* What agent/task_queue.py promises the clients of AgentTaskQueue, with   *)
(* no queue, worker, lock or id in sight: the life of one submitted task.  *)
(*                                                                         *)
(*   new -> pending -> running -> completed | cancelled | failed           *)
(*                  -> cancelled             (never ran)                   *)
(*   and a terminal state is forgotten when the result table is trimmed.   *)
(*                                                                         *)
(* AgentTaskQueue is shown to implement this module under a mapping that   *)
(* reads the state of a task where status() reads it.                      *)
(***************************************************************************)
CONSTANT Tasks

VARIABLES
  life,       \* life[t]: what status() answers for the task
  signalled,  \* the tasks whose cancel event is set
  closed      \* the queue accepts no more work

vars == <<life, signalled, closed>>

Terminal == {"completed", "cancelled", "failed"}
LifeStates == {"new", "pending", "running", "forgotten"} \union Terminal

Live(t) == life[t] \in {"pending", "running"}

Init ==
  /\ life = [t \in Tasks |-> "new"]
  /\ signalled = {}
  /\ closed = FALSE

Submit(t) ==
  /\ ~closed
  /\ life[t] = "new"
  /\ life' = [life EXCEPT ![t] = "pending"]
  /\ UNCHANGED <<signalled, closed>>

(* A cancellation reaches only tasks that still have something to stop. *)
Signal(S) ==
  /\ \A t \in S : Live(t)
  /\ signalled' = signalled \union S
  /\ UNCHANGED <<life, closed>>

(* Closing for good, either letting live tasks be or signalling them all. *)
Close ==
  /\ closed' = TRUE
  /\ signalled' \in {signalled, signalled \union {t \in Tasks : Live(t)}}
  /\ UNCHANGED life

Start(t) ==
  /\ life[t] = "pending"
  /\ t \notin signalled
  /\ life' = [life EXCEPT ![t] = "running"]
  /\ UNCHANGED <<signalled, closed>>

(* Room for one more result may be made by forgetting older ones. *)
Settle(t, outcome, Gone) ==
  /\ \/ life[t] = "pending" /\ outcome = "cancelled"
     \/ life[t] = "running"
  /\ outcome = "cancelled" => t \in signalled
  /\ \A s \in Gone : life[s] \in Terminal
  /\ life' = [s \in Tasks |-> IF s = t THEN outcome
                              ELSE IF s \in Gone THEN "forgotten"
                              ELSE life[s]]
  /\ UNCHANGED <<signalled, closed>>

Next ==
  \/ \E t \in Tasks : Submit(t) \/ Start(t)
  \/ \E S \in SUBSET Tasks : Signal(S)
  \/ Close
  \/ \E t \in Tasks, outcome \in Terminal, Gone \in SUBSET Tasks : Settle(t, outcome, Gone)

Spec == Init /\ [][Next]_vars
=============================================================================

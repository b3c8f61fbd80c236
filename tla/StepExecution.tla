---------------------------- MODULE StepExecution ----------------------------
(***************************************************************************)
(* The steps of a layer, each on a thread of its own: their tries in       *)
(* _execute_parallel_group and _execute_step_with_retry of                 *)
(* agent/execution_engine.py, and the process of every try in run_python   *)
(* and run_shell of agent/autonomous_executor.py.                          *)
(*                                                                         *)
(* interrupt() of the orchestrator runs meanwhile: it sets the event the   *)
(* threads look at between their actions and kills the processes that are  *)
(* registered.  A try waits for one of the slots of the executor, perhaps  *)
(* for the user's confirmation, and for its process.  How it ends and what *)
(* the planner makes of a failure is free.                                 *)
(***************************************************************************)
EXTENDS Integers, FiniteSets

CONSTANTS
  Step,        \* the steps of the layer
  Slots,       \* _MAX_CONCURRENT_PYTHON, _MAX_CONCURRENT_SHELL
  MaxRetries   \* MAX_STEP_RETRIES

VARIABLES
  pc,          \* where each thread is
  attempt,     \* att
  process,     \* what became of the process of the latest try
  registered,  \* _active_processes, by step
  slots,       \* free places of the semaphore
  outcome,     \* how each step ended
  cancelled,   \* the event is set
  sweep,       \* interrupt() is "idle", about to "list", at the list, or "over"
  listed,      \* the processes it has yet to kill: steps with their try
  after        \* history: processes each thread started after the event

vars == <<pc, attempt, process, registered, slots, outcome, cancelled, sweep, listed, after>>

Places == {"begin", "try", "step", "slot", "check", "asked", "spawn", "register", "wait",
           "failed", "ended", "contended", "fixing", "finish", "done"}

TypeOK ==
  /\ pc \in [Step -> Places]
  /\ attempt \in [Step -> 0 .. MaxRetries + 1]
  /\ process \in [Step -> {"none", "running", "good", "bad", "killed"}]
  /\ registered \subseteq Step /\ slots \in 0 .. Slots
  /\ outcome \in [Step -> {"none", "ok", "failed", "cancelled"}]
  /\ cancelled \in BOOLEAN /\ sweep \in {"idle", "list", "kill", "over"}
  /\ listed \subseteq Step \X Nat
  /\ after \in [Step -> 0 .. MaxRetries + 1]

Init ==
  /\ pc = [s \in Step |-> "begin"] /\ attempt = [s \in Step |-> 0]
  /\ process = [s \in Step |-> "none"] /\ registered = {} /\ slots = Slots
  /\ outcome = [s \in Step |-> "none"]
  /\ cancelled = FALSE /\ sweep = "idle" /\ listed = {}
  /\ after = [s \in Step |-> 0]

Go(s, place) == pc' = [pc EXCEPT ![s] = place]
Ends(s, what) == Go(s, "done") /\ outcome' = [outcome EXCEPT ![s] = what]
Interrupting == UNCHANGED <<cancelled, sweep, listed>>
Executor == UNCHANGED <<process, registered, slots, after>>

NeverStops == FALSE  \* mutant: the engine was given no event

Stops == cancelled  \* _is_cancel_requested()

-----------------------------------------------------------------------------
(* _execute_parallel_group, _execute_step_with_retry.                       *)

(* run_one *)
Begin(s) ==
  /\ pc[s] = "begin"
  /\ IF Stops THEN Ends(s, "cancelled") ELSE Go(s, "try") /\ UNCHANGED outcome
  /\ UNCHANGED attempt /\ Executor /\ Interrupting

\* mutant: a try that fails is not counted.
Uncounted(s) == IF process[s] = "bad" THEN attempt[s] ELSE attempt[s] + 1

Counted(s) == attempt[s] + 1

(* The head of the loop. *)
Try(s) ==
  /\ pc[s] = "try"
  /\ Go(s, IF Stops THEN "finish" ELSE "step")
  /\ attempt' = [attempt EXCEPT ![s] = IF Stops THEN @ ELSE Counted(s)]
  /\ UNCHANGED outcome /\ Executor /\ Interrupting

(* _run_step; a step that is neither Python nor shell succeeds at once. *)
RunStep(s) ==
  /\ pc[s] = "step"
  /\ \/ Go(s, IF Stops THEN "finish" ELSE "slot") /\ UNCHANGED outcome
     \/ ~Stops /\ Ends(s, "ok")
  /\ UNCHANGED attempt /\ Executor /\ Interrupting

(* After the try: a success, the last try, a failure seen before and one    *)
(* beyond recovery end the loop; a file in use is waited for, a missing     *)
(* package installed, and else the planner is asked.                        *)
Ended(s) ==
  /\ pc[s] = "ended"
  /\ IF process[s] = "good" THEN Ends(s, "ok") /\ UNCHANGED <<attempt>>
     ELSE /\ \/ Go(s, "finish")
             \/ ~Stops /\ attempt[s] <= MaxRetries /\ \E p \in {"contended", "fixing", "try"} : Go(s, p)
          /\ UNCHANGED <<attempt, outcome>>
  /\ Executor /\ Interrupting

(* event.wait(att): the wait ends early when the event is set. *)
Contended(s) ==
  /\ pc[s] = "contended"
  /\ Go(s, IF Stops THEN "finish" ELSE "try")
  /\ UNCHANGED <<attempt, outcome>> /\ Executor /\ Interrupting

(* _apply_recovery_strategy, which asks the planner: another step, or none. *)
Fixed(s) ==
  /\ pc[s] = "fixing"
  /\ \E p \in IF Stops THEN {"finish"} ELSE {"try", "finish"} : Go(s, p)
  /\ UNCHANGED <<attempt, outcome>> /\ Executor /\ Interrupting

(* The step has failed; run_one reports it as cancelled if it is. *)
Finish(s) ==
  /\ pc[s] = "finish"
  /\ Ends(s, IF Stops THEN "cancelled" ELSE "failed")
  /\ UNCHANGED attempt /\ Executor /\ Interrupting

-----------------------------------------------------------------------------
(* run_python, run_shell, _do_run_python, _do_run_shell.                    *)

Engine == UNCHANGED <<attempt, outcome>> /\ Interrupting

TakeSlot(s) ==
  /\ pc[s] = "slot" /\ slots > 0
  /\ slots' = slots - 1 /\ Go(s, "check")
  /\ process' = [process EXCEPT ![s] = "none"]
  /\ UNCHANGED <<registered, after>> /\ Engine

(* The safety check: what is dangerous waits for an answer. *)
Check(s) ==
  /\ pc[s] = "check"
  /\ \E p \in {"spawn", "asked", "failed"} : Go(s, p)
  /\ Executor /\ Engine

Answer(s) ==
  /\ pc[s] = "asked"
  /\ \E p \in {"spawn", "failed"} : Go(s, p)
  /\ Executor /\ Engine

(* Popen, which may fail. *)
Spawn(s) ==
  /\ pc[s] = "spawn"
  /\ \/ Go(s, "failed") /\ UNCHANGED <<process, after>>
     \/ /\ Go(s, "register")
        /\ process' = [process EXCEPT ![s] = "running"]
        /\ after' = [after EXCEPT ![s] = IF cancelled THEN @ + 1 ELSE @]
  /\ UNCHANGED <<registered, slots>> /\ Engine

Register(s) ==
  /\ pc[s] = "register"
  /\ registered' = registered \union {s} /\ Go(s, "wait")
  /\ UNCHANGED <<process, slots, after>> /\ Engine

(* A refusal or an exception leaves the slot too. *)
Fail(s) ==
  /\ pc[s] = "failed"
  /\ slots' = slots + 1 /\ Go(s, "ended")
  /\ UNCHANGED <<process, registered, after>> /\ Engine

(* communicate(): the process has ended, or the timeout kills it. *)
Awaited(s) ==
  /\ pc[s] = "wait"
  /\ process' = [process EXCEPT ![s] = IF @ = "running" THEN "killed" ELSE @]
  /\ registered' = registered \ {s} /\ slots' = slots + 1 /\ Go(s, "ended")
  /\ UNCHANGED after /\ Engine

(* A process ends by itself. *)
Exits(s) ==
  /\ process[s] = "running"
  /\ \E r \in {"good", "bad"} : process' = [process EXCEPT ![s] = r]
  /\ UNCHANGED <<pc, attempt, registered, slots, outcome, cancelled, sweep, listed, after>>

-----------------------------------------------------------------------------
(* interrupt(): the event, then cancel_running_processes().                 *)

Threads == UNCHANGED <<pc, attempt, registered, slots, outcome, after>>

Interrupt ==
  /\ sweep = "idle"
  /\ cancelled' = TRUE /\ sweep' = "list"
  /\ UNCHANGED <<process, listed>> /\ Threads

List ==
  /\ sweep = "list"
  /\ listed' = {<<s, attempt[s]>> : s \in registered} /\ sweep' = "kill"
  /\ UNCHANGED <<process, cancelled>> /\ Threads

Kill ==
  /\ sweep = "kill"
  /\ \E l \in listed :
       /\ listed' = listed \ {l}
       /\ process' = [process EXCEPT ![l[1]] =
                        IF attempt[l[1]] = l[2] /\ @ = "running" THEN "killed" ELSE @]
  /\ UNCHANGED <<cancelled, sweep>> /\ Threads

Swept ==
  /\ sweep = "kill" /\ listed = {}
  /\ sweep' = "over"
  /\ UNCHANGED <<process, cancelled, listed>> /\ Threads

-----------------------------------------------------------------------------
Thread(s) ==
  \/ Begin(s) \/ Try(s) \/ RunStep(s)
  \/ Ended(s) \/ Contended(s) \/ Fixed(s) \/ Finish(s)
  \/ TakeSlot(s) \/ Check(s) \/ Spawn(s) \/ Register(s) \/ Fail(s) \/ Awaited(s)

Next ==
  \/ \E s \in Step : Thread(s) \/ Answer(s) \/ Exits(s)
  \/ Interrupt \/ List \/ Kill \/ Swept

(* The threads run, a dialog is answered or gives up, and whoever leaves a  *)
(* slot leaves it to those who wait; a process may run until its timeout.   *)
Fairness == \A s \in Step : SF_vars(Thread(s)) /\ WF_vars(Answer(s))

Spec == Init /\ [][Next]_vars /\ Fairness

-----------------------------------------------------------------------------
(* After an interruption a step starts at most the one process it was about *)
(* to start: it is not tried again, whatever it was waiting for, and no     *)
(* process that is killed counts as a failure to be repaired.               *)
OneProcessAfter == \A s \in Step : after[s] <= 1

(* Every step ends, for all its tries, waits and dialogs, and the slots it  *)
(* waits for while others try.                                              *)
StepsEnd == <>(\A s \in Step : pc[s] = "done")
=============================================================================

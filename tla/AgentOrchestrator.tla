------------------------- MODULE AgentOrchestrator -------------------------
(***************************************************************************)
(* The agent: run(), interrupt() and resume() of                           *)
(* agent/agent_orchestrator.py, with execute_plan of                       *)
(* agent/execution_engine.py, which carries a plan out.                    *)
(*                                                                         *)
(* Callers (the command thread, the text window, the scheduler) run or     *)
(* resume; a lock admits one of them at a time, and the others are told    *)
(* that another task is in progress.  The admitted one plans, executes the *)
(* layers of the plan, has the outcome verified and plans again.  Anybody  *)
(* interrupts at any time, by setting an event that is looked at between   *)
(* these phases; an interrupted run leaves a checkpoint to resume from.    *)
(*                                                                         *)
(* What planner, skills, steps, verification and reflection answer is      *)
(* free.  All plans have the same steps; a plan is its identity, which is   *)
(* used again once nothing refers to the plan.                             *)
(***************************************************************************)
EXTENDS Integers, FiniteSetsExt

CONSTANTS
  Callers,        \* threads that call run() and resume()
  Steps,          \* the steps of a plan, by step_id
  LayerOf,        \* the layer each one runs in
  MaxIterations,  \* max_iterations
  Plans,          \* bound: identities of plans; planning fails without a free one
  NoPlan,
  NoCheckpoint    \* None

ASSUME OrchestratorAssumption ==
  /\ NoPlan \notin Plans
  /\ Steps \subseteq Nat /\ LayerOf \in [Steps -> Nat]
  /\ MaxIterations \in Nat \ {0}

(* _last_checkpoint: steps (or none), iteration, and of its current results *)
(* the successful ones and all.                                             *)
Checkpoints ==
  [plan : Plans \union {NoPlan}, iteration : Nat, ok : SUBSET Steps, tried : SUBSET Steps]

VARIABLES
  call,         \* what each caller is doing: "idle" or "waiting" for the lock, "inside"
  arg,          \* the checkpoint each waiting caller brings
  at,           \* where the run is; "free" when nobody holds _run_lock
  run,          \* the local variables of run() and _run_loop()
  interrupted,  \* _interrupt_requested is set
  expired,      \* the deadline of the run has passed
  checkpoint,   \* self._last_checkpoint
  done,         \* history: the steps of each plan that have succeeded
  settled,      \* history: the steps of each plan that need no further run
  hist          \* history of the run in progress, see History

callers == <<call, arg>>
effects == <<done, settled>>
vars == <<callers, at, run, interrupted, expired, checkpoint, effects, hist>>

Verdicts == {"failed", "achieved", "unavailable", "interrupted", "error"}
Places == {"free", "locked", "start", "begin", "compiled", "top", "planning", "planned",
           "layer", "running", "executed", "verify", "verifying", "looped",
           "reflecting", "final", "leave"}

Runs ==
  [plan : Plans \union {NoPlan},  \* steps
   from : BOOLEAN,           \* a checkpoint was given
   restore : BOOLEAN,        \* resume_plan
   prior : SUBSET Steps,     \* prior_results
   ok : SUBSET Steps,        \* step_results, the successful ones
   tried : SUBSET Steps,     \* step_results, all
   open : SUBSET Steps,      \* what execute_plan has yet to run
   allOk : BOOLEAN,          \* all_success
   iteration : Nat, limit : Nat,
   skill : BOOLEAN,          \* the plan is that of a skill
   retry : BOOLEAN,          \* the second _run_loop, after reflection
   verdict : Verdicts]

(* asked: the run was interrupted after it had forgotten older              *)
(* interruptions; after: groups of steps begun since; stale: it restored a  *)
(* checkpoint that misses a success; repeated: a step that had succeeded    *)
(* ran again.                                                               *)
History == [asked : BOOLEAN, after : Nat, stale : BOOLEAN, repeated : BOOLEAN]

TypeOK ==
  /\ call \in [Callers -> {"idle", "waiting", "inside"}]
  /\ arg \in [Callers -> Checkpoints \union {NoCheckpoint}]
  /\ at \in Places
  /\ run \in Runs /\ run.iteration <= run.limit
  /\ interrupted \in BOOLEAN /\ expired \in BOOLEAN
  /\ checkpoint \in Checkpoints \union {NoCheckpoint}
  /\ done \in [Plans -> SUBSET Steps] /\ settled \in [Plans -> SUBSET Steps]
  /\ hist \in History

NoRun ==
  [plan |-> NoPlan, from |-> FALSE, restore |-> FALSE, prior |-> {}, ok |-> {}, tried |-> {},
   open |-> {}, allOk |-> FALSE, iteration |-> 0, limit |-> MaxIterations,
   skill |-> FALSE, retry |-> FALSE, verdict |-> "failed"]

NoHistory == [asked |-> FALSE, after |-> 0, stale |-> FALSE, repeated |-> FALSE]

Init ==
  /\ call = [c \in Callers |-> "idle"]
  /\ arg = [c \in Callers |-> NoCheckpoint]
  /\ at = "free" /\ run = NoRun /\ hist = NoHistory
  /\ interrupted = FALSE /\ expired = FALSE
  /\ checkpoint = NoCheckpoint
  /\ done = [p \in Plans |-> {}] /\ settled = [p \in Plans |-> {}]

-----------------------------------------------------------------------------
(* Callers. *)

(* run(goal) *)
Call(c) ==
  /\ call[c] = "idle"
  /\ call' = [call EXCEPT ![c] = "waiting"]
  /\ UNCHANGED <<arg, at, run, interrupted, expired, checkpoint, effects, hist>>

(* resume(): it reads the checkpoint and then calls run().  Both first wait *)
(* for the background threads of an earlier run.                            *)
Resume(c) ==
  /\ call[c] = "idle" /\ checkpoint # NoCheckpoint
  /\ call' = [call EXCEPT ![c] = "waiting"]
  /\ arg' = [arg EXCEPT ![c] = checkpoint]
  /\ UNCHANGED <<at, run, interrupted, expired, checkpoint, effects, hist>>

Missed(cp) == IF cp.plan = NoPlan THEN {} ELSE done[cp.plan] \ cp.ok

RestoreAll(cp) == cp.tried  \* mutant: resumed_results without exec_result.success

Restored(cp) == cp.ok

(* _restore_checkpoint_state and what _run_loop makes of it. *)
RunFrom(cp) ==
  [NoRun EXCEPT !.plan = cp.plan, !.from = TRUE,
                !.restore = (cp.plan # NoPlan),
                !.prior = IF cp.plan = NoPlan THEN {} ELSE Restored(cp),
                !.iteration = cp.iteration,
                !.limit = IF MaxIterations > cp.iteration THEN MaxIterations
                                                         ELSE cp.iteration + 1]

(* _run_lock.acquire(blocking=False): admitted, or another task is running. *)
Acquire(c) ==
  /\ call[c] = "waiting"
  /\ arg' = [arg EXCEPT ![c] = NoCheckpoint]
  /\ IF at = "free"
     THEN /\ at' = "locked"
          /\ call' = [call EXCEPT ![c] = "inside"]
          /\ run' = IF arg[c] = NoCheckpoint THEN NoRun ELSE RunFrom(arg[c])
          /\ hist' = [NoHistory EXCEPT !.stale = arg[c] # NoCheckpoint /\ Missed(arg[c]) # {}]
     ELSE /\ call' = [call EXCEPT ![c] = "idle"]
          /\ UNCHANGED <<at, run, hist>>
  /\ UNCHANGED <<interrupted, expired, checkpoint, effects>>

(* interrupt(), by anybody. *)
Interrupt ==
  /\ ~interrupted
  /\ interrupted' = TRUE
  /\ hist' = [hist EXCEPT !.asked = @ \/ at \notin {"free", "locked", "leave"}]
  /\ UNCHANGED <<callers, at, run, expired, checkpoint, effects>>

(* The deadline passes. *)
Expire ==
  /\ at # "free" /\ ~expired
  /\ expired' = TRUE
  /\ UNCHANGED <<callers, at, run, interrupted, checkpoint, effects, hist>>

-----------------------------------------------------------------------------
(* The run in progress.  Step(r) continues it with the local variables r.   *)

Quiet == UNCHANGED <<callers, interrupted, expired>>
Go(place, r) == at' = place /\ run' = r

(* run() up to _run_loop: it forgets an old interruption, and gives up when *)
(* building the context took all its time.                                  *)
Clear ==
  /\ at = "locked"
  /\ interrupted' = FALSE
  /\ Go("start", run)
  /\ UNCHANGED <<callers, expired, checkpoint, effects, hist>>

Start ==
  /\ at = "start"
  /\ Go(IF expired THEN "leave" ELSE "begin", run)
  /\ Quiet /\ UNCHANGED <<checkpoint, effects, hist>>

(* The plans a checkpoint still knows; what history says of the others is   *)
(* forgotten.                                                               *)
Known == {cp.plan : cp \in ({checkpoint} \union {arg[c] : c \in Callers}) \ {NoCheckpoint}}
Forget(history) == [p \in Plans |-> IF p \in Known THEN history[p] ELSE {}]
ForgetPlans == done' = Forget(done) /\ settled' = Forget(settled)

(* A new plan for the loop, or the steps of a skill. *)
MakePlan(isSkill) ==
  \E p \in Plans \ Known :
    /\ run' = [run EXCEPT !.plan = p, !.skill = isSkill, !.open = IF isSkill THEN Steps ELSE @]
    /\ ForgetPlans

(* _run_loop up to the loop: a skill, compiled or not, unless one resumes,  *)
(* is interrupted, or there is none to use.                                 *)
Begin ==
  /\ at = "begin"
  /\ \/ Go("top", run) /\ UNCHANGED effects
     \/ ~run.from /\ ~interrupted /\ Go("compiled", run) /\ UNCHANGED effects
     \/ ~run.from /\ ~interrupted /\ at' = "layer" /\ MakePlan(TRUE)
  /\ Quiet /\ UNCHANGED <<checkpoint, hist>>

(* _run_loop returns, and its local variables are gone. *)
EndLoop(v) == Go("looped", [NoRun EXCEPT !.retry = run.retry, !.verdict = v])
Fail == EndLoop("failed")

(* Steps are about to run: what history notes of it. *)
Running(h) == [h EXCEPT !.after = IF h.asked THEN @ + 1 ELSE @]

(* _run_compiled_skill: its one step runs, is verified when it succeeded,   *)
(* and falls back to the steps of the skill when it failed.  Whatever       *)
(* verification says, a verified skill is the result of the loop.           *)
RunCompiled ==
  /\ at = "compiled"
  /\ hist' = Running(hist)
  /\ \/ /\ \E v \in {"achieved", "failed"} : (interrupted => v = "failed") /\ EndLoop(v)
        /\ UNCHANGED effects
     \/ /\ ~interrupted
        /\ \/ at' = "layer" /\ MakePlan(TRUE)
           \/ Go("top", run) /\ UNCHANGED effects
  /\ Quiet /\ UNCHANGED checkpoint

(* _save_checkpoint *)
Save(plan, ok, tried) ==
  /\ checkpoint' = [plan |-> plan, iteration |-> run.iteration, ok |-> ok, tried |-> tried]
  /\ Fail

(* To the head of the loop, where nothing is left of the plan before; again *)
(* in the next iteration, unless the reason is not a new one.               *)
Iterate(n) ==
  Go("top", [NoRun EXCEPT !.retry = run.retry, !.iteration = n, !.limit = run.limit])
SameIteration == run.iteration  \* mutant: prevalidation does not count as an iteration
NextIteration == run.iteration + 1
PlanAgain == Fail \/ Iterate(NextIteration)

OutOfIterations == run.iteration >= run.limit

(* The head of the loop. *)
Top ==
  /\ at = "top"
  /\ IF OutOfIterations THEN Fail /\ UNCHANGED checkpoint
     ELSE IF interrupted
     THEN IF run.restore THEN Save(run.plan, run.prior, run.prior) ELSE Save(NoPlan, {}, {})
     ELSE /\ IF expired THEN Fail ELSE Go("planning", run)
          /\ UNCHANGED checkpoint
  /\ Quiet /\ UNCHANGED <<effects, hist>>

(* The restored plan or one from the planner, which may have none; then     *)
(* prevalidation, which may send the loop back.                             *)
Plan ==
  /\ at = "planning"
  /\ at' = IF expired THEN "looped" ELSE "planned"
  /\ IF run.restore
     THEN run' = [run EXCEPT !.restore = FALSE] /\ UNCHANGED effects
     ELSE MakePlan(FALSE)
  /\ Quiet /\ UNCHANGED <<checkpoint, hist>>

PlanFails ==
  /\ at = "planning" /\ ~run.restore
  /\ Fail
  /\ Quiet /\ UNCHANGED <<checkpoint, effects, hist>>

Invalid ==
  /\ at = "planned"
  /\ PlanAgain
  /\ Quiet /\ UNCHANGED <<checkpoint, effects, hist>>

RunsAll(prior) == Steps  \* mutant: pending_steps without completed_ids
Pending(prior) == Steps \ prior

Execute ==
  /\ at = "planned"
  /\ IF interrupted
     THEN Save(run.plan, run.prior, run.prior)
     ELSE /\ Go("layer", [run EXCEPT !.open = Pending(run.prior), !.ok = {}, !.tried = {}])
          /\ UNCHANGED checkpoint
  /\ Quiet /\ UNCHANGED <<effects, hist>>

NotWired == FALSE  \* mutant: ExecutionEngine made without cancel_event

CancelRequested == interrupted

NextLayer == {s \in run.open : \A t \in run.open : LayerOf[s] <= LayerOf[t]}

(* execute_plan, before a layer. *)
CheckLayer ==
  /\ at = "layer"
  /\ IF run.open = {}
     THEN Go("executed", [run EXCEPT !.allOk = TRUE])
     ELSE IF CancelRequested
     THEN Go("executed", [run EXCEPT !.allOk = FALSE, !.tried = @ \union {Min(NextLayer)}])
     ELSE Go("running", run)
  /\ Quiet /\ UNCHANGED <<checkpoint, effects, hist>>

(* out is how each step of the layer ended.                                 *)
Aborts(out) == {s \in DOMAIN out : out[s] = "abort"}

(* The results execute_plan keeps of a layer: it returns at a failure that  *)
(* aborts the plan, and drops what the rest of the layer has done.          *)
Kept(out) ==
  IF CancelRequested THEN DOMAIN out ELSE {s \in DOMAIN out : \A t \in Aborts(out) : s <= t}

Successes(S, out) == {s \in S : out[s] = "ok"}

AfterLayer(out) ==
  LET kept == {s \in Kept(out) : out[s] # "skipped"} IN
  [run EXCEPT !.ok = @ \union Successes(kept, out), !.tried = @ \union kept,
              !.open = @ \ DOMAIN out, !.allOk = FALSE]

Needless(out) ==
  {s \in DOMAIN out : \/ out[s] \in {"ok", "skipped"}
                      \/ out[s] = "tolerated" /\ ~CancelRequested}

Repeats(out) == \E s \in DOMAIN out : out[s] # "skipped" /\ s \in done[run.plan]

(* A layer runs, its steps in parallel: each one succeeds, fails (and       *)
(* aborts the plan or is tolerated) or is skipped by its condition.         *)
RunLayer ==
  /\ at = "running"
  /\ \E out \in [NextLayer -> {"ok", "abort", "tolerated", "skipped"}] :
       /\ Go(IF CancelRequested \/ Aborts(out) # {} THEN "executed" ELSE "layer", AfterLayer(out))
       /\ done' = [done EXCEPT ![run.plan] = @ \union Successes(DOMAIN out, out)]
       /\ settled' = [settled EXCEPT ![run.plan] = @ \union Needless(out)]
       /\ hist' = [Running(hist) EXCEPT !.repeated = @ \/ Repeats(out)]
  /\ Quiet /\ UNCHANGED checkpoint

PriorResults(r) == r.prior  \* mutant: prior_results for current_results

CurrentResults(r) == r.prior \union r.ok

SaveCurrent == Save(run.plan, CurrentResults(run), run.prior \union run.tried)

(* The plan has been executed.  A skill that failed is given up for the loop. *)
Executed ==
  /\ at = "executed"
  /\ IF interrupted THEN SaveCurrent
     ELSE /\ UNCHANGED checkpoint
          /\ IF run.skill THEN IF run.allOk THEN Go("verifying", run) ELSE Iterate(0)
             ELSE IF expired THEN Fail
             ELSE IF run.allOk THEN Go("verify", run)
             ELSE PlanAgain
  /\ Quiet /\ UNCHANGED <<effects, hist>>

BeforeVerify ==
  /\ at = "verify"
  /\ IF interrupted THEN SaveCurrent ELSE Go("verifying", run) /\ UNCHANGED checkpoint
  /\ Quiet /\ UNCHANGED <<effects, hist>>

(* verify() has answered; "unavailable" when it could not tell.  A skill    *)
(* that was not verified is given up for the loop, whatever the reason.     *)
Verified ==
  /\ at = "verifying"
  /\ \E v \in {"achieved", "unavailable", "failed"} :
       IF interrupted THEN SaveCurrent
       ELSE /\ UNCHANGED checkpoint
            /\ IF v = "achieved" THEN EndLoop(v)
               ELSE IF run.skill THEN Iterate(0)
               ELSE IF v = "unavailable" THEN EndLoop(v)
               ELSE PlanAgain
  /\ Quiet /\ UNCHANGED <<effects, hist>>

(* _run_loop has returned to run(): the interruption, reflection on a       *)
(* failure of the first loop while there is time, or the end.               *)
Looped ==
  /\ at = "looped"
  /\ \/ ~run.retry /\ interrupted /\ Go("leave", [run EXCEPT !.verdict = "interrupted"])
     \/ /\ ~run.retry /\ ~interrupted /\ ~expired /\ run.verdict = "failed"
        /\ Go("reflecting", run)
     \/ /\ run.retry \/ ~interrupted
        /\ Go("final", run)
  /\ Quiet /\ UNCHANGED <<checkpoint, effects, hist>>

(* Reflection has a lesson, for a second loop, or none. *)
Reflected ==
  /\ at = "reflecting"
  /\ \/ ~interrupted /\ Go("begin", [NoRun EXCEPT !.retry = TRUE])
     \/ Go("final", run)
  /\ Quiet /\ UNCHANGED <<checkpoint, effects, hist>>

NeverInterrupted == FALSE  \* mutant: the event is not looked at after the second loop

FinallyInterrupted == interrupted

(* The last look at the event; a run that was not interrupted clears the    *)
(* checkpoint.                                                              *)
Final ==
  /\ at = "final"
  /\ IF FinallyInterrupted
     THEN Go("leave", [run EXCEPT !.verdict = "interrupted"]) /\ UNCHANGED checkpoint
     ELSE Go("leave", run) /\ checkpoint' = NoCheckpoint
  /\ Quiet /\ UNCHANGED <<effects, hist>>

(* An exception of the planner, of verification or of reflection leaves     *)
(* run(); only that of a skill is caught.                                   *)
Raise ==
  /\ at \in {"planning", "verifying", "reflecting"}
  /\ IF run.skill THEN Iterate(0) ELSE Go("leave", [NoRun EXCEPT !.verdict = "error"])
  /\ Quiet /\ UNCHANGED <<checkpoint, effects, hist>>

(* The lock is released, and the caller has its answer. *)
Leave ==
  /\ at = "leave"
  /\ Go("free", NoRun)
  /\ call' = [c \in Callers |-> IF call[c] = "inside" THEN "idle" ELSE call[c]]
  /\ hist' = NoHistory
  /\ expired' = FALSE
  /\ ForgetPlans
  /\ UNCHANGED <<arg, interrupted, checkpoint>>

InRun ==
  \/ Clear \/ Start \/ Begin \/ RunCompiled
  \/ Top \/ Plan \/ PlanFails \/ Invalid \/ Execute
  \/ CheckLayer \/ RunLayer \/ Executed \/ BeforeVerify \/ Verified
  \/ Looped \/ Reflected \/ Final \/ Raise \/ Leave

Next ==
  \/ \E c \in Callers : Call(c) \/ Resume(c) \/ Acquire(c)
  \/ Interrupt \/ Expire
  \/ InRun

Spec == Init /\ [][Next]_vars

(***************************************************************************)
(* A call goes on until it returns: every external call of a run (planner, *)
(* step, verification, reflection) has a time limit of its own.  Nobody    *)
(* has to call, interrupt or resume.                                       *)
(***************************************************************************)
FairSpec ==
  /\ Spec
  /\ WF_vars(InRun)
  /\ \A c \in Callers : WF_vars(Acquire(c))

-----------------------------------------------------------------------------
(* Properties. *)

(* A run that is interrupted once it has forgotten older interruptions ends *)
(* as interrupted, wherever it is: in a skill, the loop, the second loop.   *)
InterruptionIsObeyed ==
  at = "leave" /\ hist.asked => run.verdict \notin {"achieved", "unavailable"}

(* After an interruption at most one layer of steps begins (the one whose   *)
(* check had passed), over the skill, its fallback and both loops.          *)
OneLayerAfter == hist.after <= 1

(* A plan is called achieved only when each of its steps has succeeded, was *)
(* skipped or may fail, over all the runs that have worked on it.           *)
NothingIsSkipped ==
  at \in {"verify", "verifying"} => Steps \subseteq settled[run.plan]

(* A new checkpoint of a plan, but not that of a run resumed from one that  *)
(* was out of date already.                                                 *)
NewCheckpoint ==
  checkpoint' \notin {checkpoint, NoCheckpoint} /\ checkpoint'.plan # NoPlan /\ ~hist.stale

(* What a checkpoint loses of its plan, over all the runs that have worked  *)
(* on it, are successes of a layer whose results an earlier member cut off  *)
(* by failing; every other success is kept.                                 *)
CheckpointKeepsSuccesses ==
  [][NewCheckpoint =>
       \A s \in done'[checkpoint'.plan] \ checkpoint'.ok :
         \E t \in checkpoint'.tried \ checkpoint'.ok : LayerOf[t] = LayerOf[s] /\ t < s]_vars

(* A step that has finished is not among the unfinished ones that resume()  *)
(* restores: its checkpoint has every success of its plan.                  *)
FinishedIsSaved ==
  [][NewCheckpoint => done'[checkpoint'.plan] \subseteq checkpoint'.ok]_vars

(* A resumed run does not repeat a step that has succeeded, unless its      *)
(* checkpoint is out of date.                                               *)
ResumeRepeatsNothing == hist.repeated => hist.stale

(* resume() restores what is unfinished: no run repeats a step of a plan    *)
(* that has succeeded.                                                      *)
ResumesOnlyUnfinished == ~hist.repeated

(* Every call returns. *)
CallsReturn == \A c \in Callers : call[c] # "idle" ~> call[c] = "idle"
=============================================================================

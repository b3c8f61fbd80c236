---------------------- MODULE AgentOrchestratorProofs ----------------------
(***************************************************************************)
(* An interrupted run ends as interrupted and begins at most one layer of  *)
(* steps more; a plan is verified only when none of its steps is left, no  *)
(* step repeats without a stale checkpoint, and a checkpoint misses no     *)
(* success but what was cut off: for all callers, plans, steps and          *)
(* iterations.  Inv is about the event, PlanInv about the plan.  At the end *)
(* the theorems about PlanGraph are carried over to MCAgentPlans.           *)
(***************************************************************************)
EXTENDS MCAgentPlans, WellFoundedInduction, TLAPS

Fields == {"plan", "from", "restore", "prior", "ok", "tried", "open", "allOk",
           "iteration", "limit", "skill", "retry", "verdict"}

(* The locals of the run are a record; nothing more is needed of them here *)
(* than the verdict.                                                       *)
RunIsRecord == run = [f \in Fields |-> run[f]]

(* The run looks at the event: once it was interrupted (after the old      *)
(* interruption was forgotten) the event stays set until it ends.          *)
EventStaysSet ==
  /\ at = "locked" => ~hist.asked
  /\ at \notin {"free", "leave"} /\ hist.asked => interrupted

(* Steps counted after the interruption are those of a layer that had been *)
(* admitted before it: no second one is ever admitted.                     *)
NoneAdmitted ==
  /\ hist.after # 0 => hist.asked
  /\ hist.after <= 1
  /\ at \in {"running", "compiled"} => hist.after = 0

Inv ==
  /\ hist \in History
  /\ RunIsRecord
  /\ at \in {"locked", "start"} => run.verdict = "failed"
  /\ EventStaysSet
  /\ NoneAdmitted
  /\ InterruptionIsObeyed

LEMMA NoRunShape == NoRun = [f \in Fields |-> NoRun[f]] /\ NoRun.verdict = "failed"
  BY DEF NoRun, Fields

LEMMA NoHistoryShape == NoHistory \in History /\ ~NoHistory.asked /\ NoHistory.after = 0
  BY DEF NoHistory, History

LEMMA RunFromShape ==
  ASSUME NEW cp
  PROVE  /\ RunFrom(cp) = [f \in Fields |-> RunFrom(cp)[f]]
         /\ RunFrom(cp).verdict = "failed"
  BY DEF RunFrom, NoRun, Fields

LEMMA InvInit == Init => Inv
  BY NoRunShape, NoHistoryShape
  DEF Init, Inv, RunIsRecord, EventStaysSet, NoneAdmitted, InterruptionIsObeyed

LEMMA InvCallers ==
  ASSUME Inv, NEW c \in Callers, Call(c) \/ Resume(c) \/ Acquire(c)
  PROVE  Inv'
<1>1. CASE Call(c) \/ Resume(c)
  BY <1>1 DEF Call, Resume, Inv, RunIsRecord, EventStaysSet, NoneAdmitted, InterruptionIsObeyed
<1>2. CASE Acquire(c)
  <2>1. CASE at = "free"
    <3>1. at' = "locked" /\ RunIsRecord' /\ run'.verdict = "failed"
      BY <1>2, <2>1, NoRunShape, RunFromShape DEF Acquire, RunIsRecord
    <3>2. hist' \in History /\ ~hist'.asked /\ hist'.after = 0
      <4> DEFINE b == arg[c] # NoCheckpoint /\ Missed(arg[c]) # {}
      <4>1. b \in BOOLEAN
        OBVIOUS
      <4>2. hist' = [NoHistory EXCEPT !.stale = b]
        BY <1>2, <2>1 DEF Acquire
      <4> HIDE DEF b
      <4> QED
        BY <4>1, <4>2 DEF NoHistory, History
    <3> QED
      BY <3>1, <3>2 DEF Inv, EventStaysSet, NoneAdmitted, InterruptionIsObeyed
  <2>2. CASE at # "free"
    BY <1>2, <2>2
    DEF Acquire, Inv, RunIsRecord, EventStaysSet, NoneAdmitted, InterruptionIsObeyed
  <2> QED BY <2>1, <2>2
<1> QED BY <1>1, <1>2

LEMMA InvOutside ==
  ASSUME Inv, Interrupt \/ Expire
  PROVE  Inv'
<1>1. CASE Expire
  BY <1>1 DEF Expire, Inv, RunIsRecord, EventStaysSet, NoneAdmitted, InterruptionIsObeyed
<1>2. CASE Interrupt
  <2>1. /\ hist' \in History
        /\ hist'.after = hist.after
        /\ at \in {"free", "locked", "leave"} => hist'.asked = hist.asked
        /\ at \notin {"free", "locked", "leave"} => hist'.asked
    BY <1>2 DEF Interrupt, Inv, History
  <2>2. at' = at /\ run' = run /\ interrupted'
    BY <1>2 DEF Interrupt
  <2>3. hist.after # 0 => hist'.asked
    BY <2>1 DEF Inv, EventStaysSet, NoneAdmitted
  <2> QED
    BY <2>1, <2>2, <2>3
    DEF Inv, RunIsRecord, EventStaysSet, NoneAdmitted, InterruptionIsObeyed
<1> QED BY <1>1, <1>2

(* A step of the run that neither begins steps nor touches event and       *)
(* history.                                                                *)
LEMMA WithinRun ==
  ASSUME Inv, at \notin {"free", "locked", "leave"},
         hist' = hist, interrupted' = interrupted, RunIsRecord',
         at' \notin {"free", "locked", "start", "running", "compiled"},
         at' = "leave" /\ interrupted => run'.verdict \notin {"achieved", "unavailable"}
  PROVE  Inv'
  BY DEF Inv, EventStaysSet, NoneAdmitted, InterruptionIsObeyed

LEMMA EndLoopShape ==
  ASSUME NEW v, EndLoop(v)
  PROVE  RunIsRecord' /\ at' = "looped"
  BY DEF EndLoop, Go, NoRun, RunIsRecord, Fields

LEMMA IterateShape ==
  ASSUME NEW n, Iterate(n)
  PROVE  RunIsRecord' /\ at' = "top"
  BY DEF Iterate, Go, NoRun, RunIsRecord, Fields

LEMMA SaveShape ==
  ASSUME NEW p, NEW ok, NEW tried, Save(p, ok, tried)
  PROVE  RunIsRecord' /\ at' = "looped"
  BY EndLoopShape DEF Save, Fail

LEMMA MakePlanShape ==
  ASSUME NEW b, MakePlan(b), RunIsRecord
  PROVE  RunIsRecord'
  BY DEF MakePlan, RunIsRecord, Fields

LEMMA InvClear == ASSUME Inv, Clear PROVE Inv'
  BY DEF Clear, Go, Inv, RunIsRecord, EventStaysSet, NoneAdmitted, InterruptionIsObeyed

LEMMA InvStart == ASSUME Inv, Start PROVE Inv'
  BY WithinRun DEF Start, Go, Quiet, Inv, RunIsRecord

LEMMA InvBegin == ASSUME Inv, Begin PROVE Inv'
<1>1. CASE at' = "compiled"
  BY <1>1 DEF Begin, Go, Quiet, Inv, RunIsRecord, EventStaysSet, NoneAdmitted, InterruptionIsObeyed
<1>2. CASE at' # "compiled"
  BY <1>2, WithinRun, MakePlanShape DEF Begin, Go, Quiet, Inv, RunIsRecord
<1> QED BY <1>1, <1>2

LEMMA InvTop == ASSUME Inv, Top PROVE Inv'
  BY WithinRun, EndLoopShape, SaveShape DEF Top, Fail, Go, Quiet, Inv, RunIsRecord

LEMMA InvPlan == ASSUME Inv, Plan PROVE Inv'
<1>1. RunIsRecord'
  BY MakePlanShape DEF Plan, Inv, RunIsRecord, Fields
<1> QED
  BY <1>1, WithinRun DEF Plan, Quiet

LEMMA InvAgain == ASSUME Inv, PlanFails \/ Invalid PROVE Inv'
  BY WithinRun, EndLoopShape, IterateShape DEF PlanFails, Invalid, PlanAgain, Fail, Quiet

LEMMA InvExecute == ASSUME Inv, Execute PROVE Inv'
<1>1. RunIsRecord' /\ at' \in {"layer", "looped"}
  BY SaveShape DEF Execute, Go, Inv, RunIsRecord, Fields
<1> QED
  BY <1>1, WithinRun DEF Execute, Quiet

(* A layer is admitted only while the event is not set, hence before any    *)
(* interruption.                                                            *)
LEMMA InvCheckLayer == ASSUME Inv, CheckLayer PROVE Inv'
<1>1. RunIsRecord' /\ at' \in {"executed", "running"}
  BY DEF CheckLayer, Go, Inv, RunIsRecord, Fields
<1>2. CASE at' = "running"
  <2>1. ~interrupted
    BY <1>2 DEF CheckLayer, CancelRequested, Go
  <2> QED
    BY <1>1, <1>2, <2>1
    DEF CheckLayer, Quiet, Inv, EventStaysSet, NoneAdmitted, InterruptionIsObeyed
<1>3. CASE at' = "executed"
  BY <1>1, <1>3, WithinRun DEF CheckLayer, Quiet
<1> QED BY <1>1, <1>2, <1>3

(* What steps that begin add to the history. *)
LEMMA RunningShape ==
  ASSUME Inv, at \in {"running", "compiled"}
  PROVE  /\ Running(hist) \in History
         /\ Running(hist).asked = hist.asked
         /\ Running(hist).after # 0 => hist.asked
         /\ Running(hist).after <= 1
<1> DEFINE n == IF hist.asked THEN hist.after + 1 ELSE hist.after
<1>1. n \in Nat /\ n <= 1 /\ (n # 0 => hist.asked)
  BY DEF Inv, NoneAdmitted, History
<1>2. Running(hist) = [hist EXCEPT !.after = n]
  BY DEF Running, Inv, History
<1> HIDE DEF n
<1> QED
  BY <1>1, <1>2 DEF Inv, History

(* The step that runs steps: whatever else it notes, it goes where none is  *)
(* running, and only on without an interruption.                            *)
LEMMA AfterRunning ==
  ASSUME Inv, at \in {"running", "compiled"}, interrupted' = interrupted, RunIsRecord',
         hist' \in History, hist'.asked = hist.asked,
         hist'.after = Running(hist).after,
         at' \notin {"free", "locked", "start", "running", "compiled", "leave"}
  PROVE  Inv'
  BY RunningShape DEF Inv, EventStaysSet, NoneAdmitted, InterruptionIsObeyed

LEMMA InvRunLayer == ASSUME Inv, RunLayer PROVE Inv'
<1>1. PICK out : /\ Go(IF CancelRequested \/ Aborts(out) # {} THEN "executed" ELSE "layer",
                       AfterLayer(out))
                 /\ hist' = [Running(hist) EXCEPT !.repeated = @ \/ Repeats(out)]
  BY DEF RunLayer
<1>2. at' \in {"executed", "layer"} /\ RunIsRecord'
  BY <1>1 DEF Go, AfterLayer, Inv, RunIsRecord, Fields
<1>3. /\ hist' \in History
      /\ hist'.asked = hist.asked
      /\ hist'.after = Running(hist).after
  <2> DEFINE b == Running(hist).repeated \/ Repeats(out)
  <2>1. b \in BOOLEAN
    OBVIOUS
  <2>2. hist' = [Running(hist) EXCEPT !.repeated = b]
    BY <1>1
  <2> HIDE DEF b
  <2> QED
    BY <2>1, <2>2, RunningShape DEF RunLayer, History
<1> QED
  BY <1>2, <1>3, AfterRunning DEF RunLayer, Quiet

LEMMA InvRunCompiled == ASSUME Inv, RunCompiled PROVE Inv'
<1>1. RunIsRecord' /\ at' \in {"looped", "layer", "top"}
  BY EndLoopShape, MakePlanShape DEF RunCompiled, Go, Inv, RunIsRecord
<1>2. /\ hist' \in History
      /\ hist'.asked = hist.asked
      /\ hist'.after = Running(hist).after
  BY RunningShape DEF RunCompiled
<1> QED
  BY <1>1, <1>2, AfterRunning DEF RunCompiled, Quiet

LEMMA SaveCurrentShape == ASSUME SaveCurrent PROVE RunIsRecord' /\ at' = "looped"
  BY SaveShape DEF SaveCurrent

LEMMA InvExecuted == ASSUME Inv, Executed \/ BeforeVerify PROVE Inv'
<1>1. RunIsRecord' /\ at' \in {"looped", "verifying", "top", "verify"}
  BY SaveCurrentShape, EndLoopShape, IterateShape
  DEF Executed, BeforeVerify, PlanAgain, Fail, Go, Inv, RunIsRecord
<1> QED
  BY <1>1, WithinRun DEF Executed, BeforeVerify, Quiet

LEMMA InvVerified == ASSUME Inv, Verified PROVE Inv'
<1>1. RunIsRecord' /\ at' \in {"looped", "top"}
  BY SaveCurrentShape, EndLoopShape, IterateShape
  DEF Verified, PlanAgain, Fail, Go, Inv, RunIsRecord
<1> QED
  BY <1>1, WithinRun DEF Verified, Quiet

LEMMA InvLooped == ASSUME Inv, Looped PROVE Inv'
<1>1. /\ RunIsRecord' /\ at' \in {"leave", "reflecting", "final"}
      /\ at' = "leave" => run'.verdict = "interrupted"
  BY DEF Looped, Go, Inv, RunIsRecord, Fields
<1> QED
  BY <1>1, WithinRun DEF Looped, Quiet

LEMMA InvReflected == ASSUME Inv, Reflected PROVE Inv'
<1>1. RunIsRecord' /\ at' \in {"begin", "final"}
  BY DEF Reflected, Go, NoRun, Inv, RunIsRecord, Fields
<1> QED
  BY <1>1, WithinRun DEF Reflected, Quiet

LEMMA InvFinal == ASSUME Inv, Final PROVE Inv'
<1>1. /\ RunIsRecord' /\ at' = "leave"
      /\ interrupted => run'.verdict = "interrupted"
  BY DEF Final, FinallyInterrupted, Go, Inv, RunIsRecord, Fields
<1> QED
  BY <1>1, WithinRun DEF Final, Quiet

LEMMA InvRaise == ASSUME Inv, Raise PROVE Inv'
<1>1. /\ RunIsRecord' /\ at' \in {"top", "leave"}
      /\ at' = "leave" => run'.verdict = "error"
  BY IterateShape DEF Raise, Go, NoRun, RunIsRecord, Fields
<1> QED
  BY <1>1, WithinRun DEF Raise, Quiet

LEMMA InvLeave == ASSUME Inv, Leave PROVE Inv'
  BY NoRunShape, NoHistoryShape
  DEF Leave, Go, Inv, RunIsRecord, EventStaysSet, NoneAdmitted, InterruptionIsObeyed

LEMMA InvNext == Inv /\ [Next]_vars => Inv'
<1> SUFFICES ASSUME Inv, [Next]_vars PROVE Inv'
  OBVIOUS
<1>1. CASE \E c \in Callers : Call(c) \/ Resume(c) \/ Acquire(c)
  BY <1>1, InvCallers
<1>2. CASE Interrupt \/ Expire
  BY <1>2, InvOutside
<1>3. CASE Clear \/ Start \/ Begin \/ RunCompiled
  BY <1>3, InvClear, InvStart, InvBegin, InvRunCompiled
<1>4. CASE Top \/ Plan \/ PlanFails \/ Invalid \/ Execute
  BY <1>4, InvTop, InvPlan, InvAgain, InvExecute
<1>5. CASE CheckLayer \/ RunLayer \/ Executed \/ BeforeVerify \/ Verified
  BY <1>5, InvCheckLayer, InvRunLayer, InvExecuted, InvVerified
<1>6. CASE Looped \/ Reflected \/ Final \/ Raise \/ Leave
  BY <1>6, InvLooped, InvReflected, InvFinal, InvRaise, InvLeave
<1>7. CASE UNCHANGED vars
  BY <1>7 DEF vars, Inv, RunIsRecord, EventStaysSet, NoneAdmitted, InterruptionIsObeyed
<1> QED
  BY <1>1, <1>2, <1>3, <1>4, <1>5, <1>6, <1>7 DEF Next, InRun

(* Inv, which relates where a run is to the event, to what was begun since  *)
(* the interruption and to the verdict, holds in every state.               *)
THEOREM Invariant == Spec => []Inv
<1> QED
  BY InvInit, InvNext, PTL DEF Spec

(* InterruptionIsObeyed (TLC: agent_plans): run() never answers             *)
(* "achieved" to an interrupted run, whichever way out it takes.            *)
THEOREM Obeyed == Spec => []InterruptionIsObeyed
<1>1. Inv => InterruptionIsObeyed
  BY DEF Inv
<1> QED
  BY <1>1, Invariant, PTL

(* OneLayerAfter (TLC: agent_plans): at most the layer that had             *)
(* passed its check begins after the interruption, over a skill, its        *)
(* fallback and both loops of run().                                        *)
THEOREM AtMostOneLayer == Spec => []OneLayerAfter
<1>1. Inv => OneLayerAfter
  BY DEF Inv, NoneAdmitted, OneLayerAfter
<1> QED
  BY <1>1, Invariant, PTL
-----------------------------------------------------------------------------
(* What a run knows of its plan.  The locals of the run and the checkpoints *)
(* name the steps that are behind; the history has what they really did.    *)

Early == {"locked", "start", "begin", "compiled", "top", "planning"}
Late == {"planned", "layer", "running", "executed", "verify", "verifying"}

Saved == ({checkpoint} \union {arg[c] : c \in Callers}) \ {NoCheckpoint}

(* The loop's own test leaves at least one more iteration.                  *)
IterationsLeft == at # "top" => run.iteration < run.limit

(* A checkpoint counts a step as successful only when it need not run.      *)
SavedIsSettled ==
  \A cp \in Saved : cp.plan # NoPlan => cp.ok \subseteq settled[cp.plan]

(* Before a plan is there, prior results are those of the checkpoint.       *)
BeforePlan ==
  at \in Early =>
    /\ run.ok = {}
    /\ at = "compiled" => ~run.from
    /\ ~run.restore => run.prior = {}
    /\ run.restore =>
         /\ run.from /\ run.plan # NoPlan
         /\ run.prior \subseteq settled[run.plan]
         /\ ~hist.stale => done[run.plan] \subseteq run.prior

(* What a run that counts S as successful, and T as run, may have lost of   *)
(* its plan: successes of a layer that an earlier member has cut off.       *)
CutOff(p, S, T) ==
  \A s \in done[p] \ S : \E t \in T \ S : LayerOf[t] = LayerOf[s] /\ t < s

(* With a plan, what is no longer open is settled, what is open has not     *)
(* succeeded before, and no result is lost but at the layer that ends it.   *)
WithPlan ==
  at \in Late =>
    /\ run.plan \in Plans
    /\ run.prior \subseteq settled[run.plan] /\ run.ok \subseteq settled[run.plan]
    /\ at = "planned" /\ ~hist.stale => done[run.plan] \subseteq run.prior
    /\ at \in {"layer", "running"} =>
         /\ Steps \ run.open \subseteq settled[run.plan]
         /\ run.open \intersect (run.prior \union run.ok) = {}
         /\ ~hist.stale => /\ run.open \intersect done[run.plan] = {}
                           /\ done[run.plan] \subseteq run.prior \union run.ok
    /\ at \in {"verify", "verifying"} \/ (at = "executed" /\ run.allOk) =>
         Steps \subseteq settled[run.plan]
    /\ at \in {"executed", "verify", "verifying"} /\ ~hist.stale =>
         CutOff(run.plan, run.prior \union run.ok, run.prior \union run.tried)

PlanInv ==
  TypeOK /\ IterationsLeft /\ SavedIsSettled /\ BeforePlan /\ WithPlan /\ ResumeRepeatsNothing

(* The records the run is replaced by.                                      *)
LEMMA NoRunType ==
  /\ NoRun \in Runs /\ NoRun.iteration = 0 /\ NoRun.limit = MaxIterations
  /\ ~NoRun.restore /\ ~NoRun.from /\ NoRun.prior = {} /\ NoRun.ok = {}
  /\ NoRun.iteration < NoRun.limit
  BY OrchestratorAssumption DEF NoRun, Runs, Verdicts

LEMMA RunFromType ==
  ASSUME NEW cp \in Checkpoints
  PROVE  /\ RunFrom(cp) \in Runs /\ RunFrom(cp).iteration < RunFrom(cp).limit
         /\ RunFrom(cp).plan = cp.plan /\ RunFrom(cp).from /\ RunFrom(cp).ok = {}
         /\ RunFrom(cp).restore <=> cp.plan # NoPlan
         /\ RunFrom(cp).prior = IF cp.plan = NoPlan THEN {} ELSE cp.ok
<1> DEFINE l == IF MaxIterations > cp.iteration THEN MaxIterations ELSE cp.iteration + 1
           pr == IF cp.plan = NoPlan THEN {} ELSE cp.ok
           re == cp.plan # NoPlan
<1>1. /\ cp.plan \in Plans \union {NoPlan} /\ cp.iteration \in Nat /\ l \in Nat /\ cp.iteration < l
      /\ pr \in SUBSET Steps /\ re \in BOOLEAN
  BY OrchestratorAssumption DEF Checkpoints
<1>2. RunFrom(cp) = [NoRun EXCEPT !.plan = cp.plan, !.from = TRUE, !.restore = re, !.prior = pr,
                                  !.iteration = cp.iteration, !.limit = l]
  BY DEF RunFrom, Restored
<1> HIDE DEF l, pr, re
<1> DEFINE r == [plan |-> cp.plan, from |-> TRUE, restore |-> re, prior |-> pr,
                 ok |-> {}, tried |-> {}, open |-> {}, allOk |-> FALSE,
                 iteration |-> cp.iteration, limit |-> l,
                 skill |-> FALSE, retry |-> FALSE, verdict |-> "failed"]
<1>4. RunFrom(cp) = r
  BY <1>2 DEF NoRun
<1>5. r \in Runs
  BY <1>1 DEF Runs, Verdicts
<1>3. /\ RunFrom(cp) \in Runs /\ RunFrom(cp).iteration < RunFrom(cp).limit
      /\ RunFrom(cp).plan = cp.plan /\ RunFrom(cp).from /\ RunFrom(cp).ok = {}
      /\ RunFrom(cp).restore = re /\ RunFrom(cp).prior = pr
  BY <1>1, <1>4, <1>5
<1> QED
  BY <1>3 DEF pr, re

LEMMA EndLoopType ==
  ASSUME TypeOK, NEW v \in Verdicts, EndLoop(v)
  PROVE  /\ at' = "looped" /\ run' \in Runs /\ run'.iteration < run'.limit
         /\ at' \notin Early \union Late
<1>1. run.retry \in BOOLEAN
  BY DEF TypeOK, Runs
<1> DEFINE r == [plan |-> NoPlan, from |-> FALSE, restore |-> FALSE, prior |-> {},
                 ok |-> {}, tried |-> {}, open |-> {}, allOk |-> FALSE,
                 iteration |-> 0, limit |-> MaxIterations,
                 skill |-> FALSE, retry |-> run.retry, verdict |-> v]
<1>2. run' = r /\ at' = "looped"
  BY DEF EndLoop, Go, NoRun
<1>3. r \in Runs /\ r.iteration < r.limit
  BY <1>1, OrchestratorAssumption DEF Runs
<1> QED
  BY <1>2, <1>3 DEF Early, Late

LEMMA IterateType ==
  ASSUME TypeOK, NEW n \in Nat, Iterate(n)
  PROVE  /\ at' = "top" /\ run' \in Runs
         /\ run'.iteration = n /\ run'.limit = run.limit
         /\ run'.ok = {} /\ run'.prior = {} /\ ~run'.restore
<1>1. run.retry \in BOOLEAN /\ run.limit \in Nat
  BY DEF TypeOK, Runs
<1> QED
  BY <1>1 DEF Iterate, Go, NoRun, Runs, Verdicts

LEMMA SaveType ==
  ASSUME TypeOK, NEW p \in Plans \union {NoPlan}, NEW ok \in SUBSET Steps,
         NEW tried \in SUBSET Steps, Save(p, ok, tried)
  PROVE  /\ at' = "looped" /\ run' \in Runs /\ run'.iteration < run'.limit
         /\ at' \notin Early \union Late
         /\ checkpoint' \in Checkpoints /\ checkpoint'.plan = p /\ checkpoint'.ok = ok
<1>1. EndLoop("failed") /\ "failed" \in Verdicts
  BY DEF Save, Fail, Verdicts
<1>2. checkpoint' = [plan |-> p, iteration |-> run.iteration, ok |-> ok, tried |-> tried]
  BY DEF Save
<1>3. run.iteration \in Nat
  BY DEF TypeOK, Runs
<1>4. checkpoint' \in Checkpoints /\ checkpoint'.plan = p /\ checkpoint'.ok = ok
  BY <1>2, <1>3 DEF Checkpoints
<1> QED
  BY <1>1, <1>4, EndLoopType

(* A new plan is one that no checkpoint knows, and has no history.          *)
LEMMA MakePlanType ==
  ASSUME TypeOK, NEW b \in BOOLEAN, MakePlan(b)
  PROVE  /\ run' \in Runs /\ run'.plan \in Plans
         /\ run'.prior = run.prior /\ run'.ok = run.ok /\ run'.restore = run.restore
         /\ run'.iteration = run.iteration /\ run'.limit = run.limit
         /\ b => run'.open = Steps
         /\ done' \in [Plans -> SUBSET Steps] /\ settled' \in [Plans -> SUBSET Steps]
         /\ done'[run'.plan] = {} /\ settled'[run'.plan] = {}
         /\ \A p \in Known \intersect Plans : settled[p] \subseteq settled'[p]
<1> DEFINE o == IF b THEN Steps ELSE run.open
<1>1. PICK p \in Plans \ Known :
        /\ run' = [run EXCEPT !.plan = p, !.skill = b, !.open = o]
        /\ ForgetPlans
  BY DEF MakePlan
<1>2. /\ done' = [q \in Plans |-> IF q \in Known THEN done[q] ELSE {}]
      /\ settled' = [q \in Plans |-> IF q \in Known THEN settled[q] ELSE {}]
  BY <1>1 DEF ForgetPlans, Forget
<1>3. run \in Runs /\ o \in SUBSET Steps
  BY DEF TypeOK, Runs
<1>5. b => o = Steps
  OBVIOUS
<1> HIDE DEF o
<1>6. /\ run' \in Runs /\ run'.plan = p
      /\ run'.prior = run.prior /\ run'.ok = run.ok /\ run'.restore = run.restore
      /\ run'.iteration = run.iteration /\ run'.limit = run.limit
      /\ run'.open = o
  BY <1>1, <1>3 DEF Runs
<1>7. done' \in [Plans -> SUBSET Steps] /\ settled' \in [Plans -> SUBSET Steps]
  BY <1>2 DEF TypeOK
<1> QED
  BY <1>2, <1>5, <1>6, <1>7

LEMMA StillSettled ==
  ASSUME PlanInv, UNCHANGED <<arg, checkpoint>>,
         \A p \in Known \intersect Plans : settled[p] \subseteq settled'[p]
  PROVE  SavedIsSettled'
<1>1. Saved' = Saved
  BY DEF Saved
<1>2. ASSUME NEW cp \in Saved, cp.plan # NoPlan
      PROVE  cp.ok \subseteq settled'[cp.plan]
  <2>1. cp \in Checkpoints /\ cp.ok \subseteq settled[cp.plan]
    BY <1>2 DEF PlanInv, TypeOK, SavedIsSettled, Saved
  <2>2. cp.plan \in Known \intersect Plans
    BY <1>2, <2>1 DEF Known, Saved, Checkpoints
  <2> QED
    BY <2>1, <2>2
<1> QED
  BY <1>1, <1>2 DEF SavedIsSettled

LEMMA SaveSettled ==
  ASSUME PlanInv, UNCHANGED <<arg, settled>>,
         checkpoint'.plan # NoPlan => checkpoint'.ok \subseteq settled[checkpoint'.plan]
  PROVE  SavedIsSettled'
<1>1. Saved' \subseteq Saved \union {checkpoint'}
  BY DEF Saved
<1> QED
  BY <1>1 DEF PlanInv, SavedIsSettled

(* What a step of the run has to show.                                      *)
LEMMA PlanFrame ==
  ASSUME PlanInv, UNCHANGED callers, interrupted' \in BOOLEAN, expired' \in BOOLEAN,
         at' \in Places, run' \in Runs, run'.iteration <= run'.limit,
         at' # "top" => run'.iteration < run'.limit,
         checkpoint' \in Checkpoints \union {NoCheckpoint},
         done' \in [Plans -> SUBSET Steps], settled' \in [Plans -> SUBSET Steps],
         hist' \in History, hist'.repeated => hist'.stale,
         SavedIsSettled', BeforePlan', WithPlan'
  PROVE  PlanInv'
  BY DEF PlanInv, TypeOK, IterationsLeft, ResumeRepeatsNothing, callers

LEMMA KeptFrame ==
  ASSUME PlanInv, UNCHANGED <<callers, checkpoint, effects>>,
         hist' \in History, hist'.repeated => hist'.stale,
         interrupted' \in BOOLEAN, expired' \in BOOLEAN,
         at' \in Places, run' \in Runs, run'.iteration <= run'.limit,
         at' # "top" => run'.iteration < run'.limit,
         BeforePlan', WithPlan'
  PROVE  PlanInv'
<1>1. SavedIsSettled'
  BY DEF PlanInv, SavedIsSettled, Saved, callers, effects
<1> QED
  BY <1>1, PlanFrame DEF PlanInv, TypeOK, effects

LEMMA Elsewhere ==
  ASSUME at' \notin Early \union Late
  PROVE  BeforePlan' /\ WithPlan'
  BY DEF BeforePlan, WithPlan

(* The loop ends, or starts over.                                           *)
LEMMA EndLoopKeeps ==
  ASSUME PlanInv, UNCHANGED <<callers, checkpoint, effects>>,
         hist' \in History, hist'.repeated => hist'.stale, Quiet,
         NEW v \in Verdicts, EndLoop(v)
  PROVE  PlanInv'
<1>1. TypeOK
  BY DEF PlanInv
<1>2. /\ at' = "looped" /\ run' \in Runs /\ run'.iteration < run'.limit
      /\ at' \notin Early \union Late
  BY <1>1, EndLoopType
<1>3. at' \in Places /\ at' # "top" /\ run'.iteration <= run'.limit
  BY <1>2 DEF Places, Runs
<1>4. interrupted' \in BOOLEAN /\ expired' \in BOOLEAN
  BY <1>1 DEF TypeOK, Quiet
<1> QED
  BY <1>2, <1>3, <1>4, Elsewhere, KeptFrame

LEMMA IterateKeeps ==
  ASSUME PlanInv, UNCHANGED <<callers, checkpoint, effects>>,
         hist' \in History, hist'.repeated => hist'.stale, Quiet,
         NEW n \in Nat, n <= run.limit, Iterate(n)
  PROVE  PlanInv'
<1>1. TypeOK
  BY DEF PlanInv
<1>2. /\ at' = "top" /\ run' \in Runs
      /\ run'.iteration = n /\ run'.limit = run.limit
      /\ run'.ok = {} /\ run'.prior = {} /\ ~run'.restore
  BY <1>1, IterateType
<1>3. at' \in Places /\ run'.iteration <= run'.limit /\ at' \notin Late
  BY <1>2 DEF Places, Late
<1>4. interrupted' \in BOOLEAN /\ expired' \in BOOLEAN
  BY <1>1 DEF TypeOK, Quiet
<1>5. BeforePlan' /\ WithPlan'
  BY <1>2, <1>3 DEF BeforePlan, WithPlan
<1> QED
  BY <1>2, <1>3, <1>4, <1>5, KeptFrame

(* A checkpoint is saved of what is settled.                                *)
LEMMA SaveKeeps ==
  ASSUME PlanInv, UNCHANGED <<callers, effects>>,
         hist' \in History, hist'.repeated => hist'.stale, Quiet,
         NEW p \in Plans \union {NoPlan}, NEW ok \in SUBSET Steps,
         NEW tried \in SUBSET Steps, Save(p, ok, tried),
         p # NoPlan => ok \subseteq settled[p]
  PROVE  PlanInv'
<1>1. TypeOK
  BY DEF PlanInv
<1>2. /\ at' = "looped" /\ run' \in Runs /\ run'.iteration < run'.limit
      /\ at' \notin Early \union Late
      /\ checkpoint' \in Checkpoints /\ checkpoint'.plan = p /\ checkpoint'.ok = ok
  BY <1>1, SaveType
<1>3. at' \in Places /\ at' # "top" /\ run'.iteration <= run'.limit
  BY <1>2 DEF Places, Runs
<1>4. /\ interrupted' \in BOOLEAN /\ expired' \in BOOLEAN
      /\ done' \in [Plans -> SUBSET Steps] /\ settled' \in [Plans -> SUBSET Steps]
  BY <1>1 DEF TypeOK, Quiet, effects
<1>5. UNCHANGED <<arg, settled>>
  BY DEF callers, effects
<1>6. SavedIsSettled'
  BY <1>2, <1>5, SaveSettled
<1> QED
  BY <1>2, <1>3, <1>4, <1>6, Elsewhere, PlanFrame

LEMMA PlanInvInit == Init => PlanInv
<1> SUFFICES ASSUME Init PROVE PlanInv
  OBVIOUS
<1>1. NoHistory \in History /\ ~NoHistory.repeated
  BY DEF NoHistory, History
<1>2. run = NoRun /\ at = "free" /\ hist = NoHistory
  BY DEF Init
<1>3. TypeOK /\ IterationsLeft
  <2>1. run \in Runs /\ run.iteration < run.limit /\ run.iteration <= run.limit
    BY <1>2, NoRunType DEF Runs
  <2> QED
    BY <1>1, <1>2, <2>1 DEF Init, TypeOK, IterationsLeft, Places
<1>4. SavedIsSettled
  BY DEF Init, SavedIsSettled, Saved
<1>5. BeforePlan /\ WithPlan /\ ResumeRepeatsNothing
  BY <1>1, <1>2 DEF BeforePlan, WithPlan, ResumeRepeatsNothing, Early, Late
<1> QED
  BY <1>3, <1>4, <1>5 DEF PlanInv

(* Run and history stay as they are, where the run is too.                  *)
LEMMA OutsideKeeps ==
  ASSUME PlanInv, UNCHANGED <<at, run, effects, checkpoint>>,
         call' \in [Callers -> {"idle", "waiting", "inside"}],
         arg' \in [Callers -> Checkpoints \union {NoCheckpoint}],
         Saved' \subseteq Saved, interrupted' \in BOOLEAN, expired' \in BOOLEAN,
         hist' \in History, hist'.stale = hist.stale, hist'.repeated = hist.repeated
  PROVE  PlanInv'
<1>1. TypeOK' /\ IterationsLeft' /\ SavedIsSettled' /\ ResumeRepeatsNothing'
  BY DEF PlanInv, TypeOK, IterationsLeft, SavedIsSettled, ResumeRepeatsNothing, effects
<1>2. BeforePlan'
  BY DEF PlanInv, BeforePlan, effects
<1>3. WithPlan'
  BY DEF PlanInv, WithPlan, CutOff, effects
<1> QED
  BY <1>1, <1>2, <1>3 DEF PlanInv

LEMMA PlanCallers ==
  ASSUME PlanInv, NEW c \in Callers, Call(c) \/ Resume(c)
  PROVE  PlanInv'
<1>1. /\ UNCHANGED <<at, run, effects, checkpoint, interrupted, expired, hist>>
      /\ call' = [call EXCEPT ![c] = "waiting"]
      /\ arg' = arg \/ (arg' = [arg EXCEPT ![c] = checkpoint])
  BY DEF Call, Resume
<1>2. TypeOK
  BY DEF PlanInv
<1>3. Saved' \subseteq Saved
  BY <1>1, <1>2 DEF Saved, TypeOK
<1>4. /\ call' \in [Callers -> {"idle", "waiting", "inside"}]
      /\ arg' \in [Callers -> Checkpoints \union {NoCheckpoint}]
      /\ interrupted' \in BOOLEAN /\ expired' \in BOOLEAN /\ hist' \in History
  BY <1>1, <1>2 DEF TypeOK
<1> QED
  BY <1>1, <1>3, <1>4, OutsideKeeps

(* The run starts from its checkpoint, and knows whether that is stale.     *)
LEMMA PlanAcquire ==
  ASSUME PlanInv, NEW c \in Callers, Acquire(c)
  PROVE  PlanInv'
<1>1. TypeOK
  BY DEF PlanInv
<1>2. /\ UNCHANGED <<interrupted, expired, checkpoint, effects>>
      /\ arg' = [arg EXCEPT ![c] = NoCheckpoint]
      /\ call' \in [Callers -> {"idle", "waiting", "inside"}]
  BY <1>1 DEF Acquire, TypeOK
<1>3. arg' \in [Callers -> Checkpoints \union {NoCheckpoint}] /\ Saved' \subseteq Saved
  BY <1>1, <1>2 DEF TypeOK, Saved
<1>4. interrupted' \in BOOLEAN /\ expired' \in BOOLEAN
  BY <1>1, <1>2 DEF TypeOK
<1>5. CASE at # "free"
  <2>1. UNCHANGED <<at, run, hist>> /\ hist' \in History
    BY <1>1, <1>5 DEF Acquire, TypeOK
  <2> QED
    BY <1>2, <1>3, <1>4, <2>1, OutsideKeeps
<1>6. CASE at = "free"
  <2> DEFINE stale == arg[c] # NoCheckpoint /\ Missed(arg[c]) # {}
  <2>1. /\ at' = "locked" /\ hist' = [NoHistory EXCEPT !.stale = stale]
        /\ run' = IF arg[c] = NoCheckpoint THEN NoRun ELSE RunFrom(arg[c])
    BY <1>6 DEF Acquire
  <2>2. stale \in BOOLEAN
    OBVIOUS
  <2>3. hist' \in History /\ hist'.stale = stale /\ ~hist'.repeated
    <3> HIDE DEF stale
    <3> QED
      BY <2>1, <2>2 DEF NoHistory, History
  <2>4. arg[c] # NoCheckpoint => arg[c] \in Checkpoints /\ arg[c] \in Saved
    BY <1>1 DEF TypeOK, Saved
  <2>5. run' \in Runs /\ run'.iteration < run'.limit /\ run'.ok = {}
    BY <2>1, <2>4, NoRunType, RunFromType
  <2>6. CASE arg[c] = NoCheckpoint
    <3>1. BeforePlan'
      BY <2>1, <2>6, NoRunType DEF BeforePlan
    <3> QED
      BY <1>1, <1>2, <1>3, <1>4, <2>1, <2>3, <2>5, <3>1
      DEF PlanInv, TypeOK, IterationsLeft, SavedIsSettled, WithPlan, ResumeRepeatsNothing,
          effects, Late, Places, Runs
  <2>7. CASE arg[c] # NoCheckpoint
    <3> DEFINE cp == arg[c]
    <3>1. cp \in Checkpoints /\ cp \in Saved /\ run' = RunFrom(cp)
      BY <2>1, <2>4, <2>7
    <3>2. /\ run'.plan = cp.plan /\ run'.from /\ run'.ok = {}
          /\ run'.restore <=> cp.plan # NoPlan
          /\ run'.prior = IF cp.plan = NoPlan THEN {} ELSE cp.ok
      BY <3>1, RunFromType
    <3>3. cp.plan # NoPlan => cp.ok \subseteq settled[cp.plan]
      BY <3>1 DEF PlanInv, SavedIsSettled
    <3>4. cp.plan # NoPlan /\ ~stale => done[cp.plan] \subseteq cp.ok
      BY <2>7 DEF Missed
    <3>5. UNCHANGED <<done, settled>>
      BY <1>2 DEF effects
    <3>6. BeforePlan'
      <4> HIDE DEF stale, cp
      <4> QED
        BY <2>1, <2>3, <3>2, <3>3, <3>4, <3>5 DEF BeforePlan
    <3> QED
      BY <1>1, <1>2, <1>3, <1>4, <2>1, <2>3, <2>5, <3>6
      DEF PlanInv, TypeOK, IterationsLeft, SavedIsSettled, WithPlan, ResumeRepeatsNothing,
          effects, Late, Places, Runs
  <2> QED
    BY <2>6, <2>7
<1> QED
  BY <1>5, <1>6

LEMMA PlanOutside ==
  ASSUME PlanInv, Interrupt \/ Expire
  PROVE  PlanInv'
<1>1. TypeOK /\ UNCHANGED <<callers, at, run, checkpoint, effects>>
  BY DEF PlanInv, Interrupt, Expire
<1>2. hist' \in History /\ hist'.stale = hist.stale /\ hist'.repeated = hist.repeated
  <2> DEFINE b == hist.asked \/ at \notin {"free", "locked", "leave"}
  <2>1. b \in BOOLEAN /\ hist \in History
    BY <1>1 DEF TypeOK
  <2>2. hist' = hist \/ hist' = [hist EXCEPT !.asked = b]
    BY DEF Interrupt, Expire
  <2> HIDE DEF b
  <2> QED
    BY <2>1, <2>2 DEF History
<1>3. interrupted' \in BOOLEAN /\ expired' \in BOOLEAN
  BY <1>1 DEF Interrupt, Expire, TypeOK
<1>4. Saved' \subseteq Saved /\ call' = call /\ arg' = arg
  BY <1>1 DEF Saved, callers
<1>5. /\ call' \in [Callers -> {"idle", "waiting", "inside"}]
      /\ arg' \in [Callers -> Checkpoints \union {NoCheckpoint}]
  BY <1>1, <1>4 DEF TypeOK
<1>6. UNCHANGED <<at, run, effects, checkpoint>>
  BY <1>1
<1> QED
  BY <1>2, <1>3, <1>4, <1>5, <1>6, OutsideKeeps

(* What history says of plans that are not known any more is forgotten.     *)
LEMMA PlanLeave == ASSUME PlanInv, Leave PROVE PlanInv'
<1>1. TypeOK
  BY DEF PlanInv
<1>2. /\ at' = "free" /\ run' = NoRun /\ hist' = NoHistory /\ expired' = FALSE
      /\ UNCHANGED <<arg, interrupted, checkpoint>>
      /\ call' \in [Callers -> {"idle", "waiting", "inside"}]
  BY <1>1 DEF Leave, Go, TypeOK
<1>3. /\ done' = [q \in Plans |-> IF q \in Known THEN done[q] ELSE {}]
      /\ settled' = [q \in Plans |-> IF q \in Known THEN settled[q] ELSE {}]
  BY DEF Leave, ForgetPlans, Forget
<1>4. /\ done' \in [Plans -> SUBSET Steps] /\ settled' \in [Plans -> SUBSET Steps]
      /\ \A p \in Known \intersect Plans : settled[p] \subseteq settled'[p]
  BY <1>1, <1>3 DEF TypeOK
<1>5. SavedIsSettled'
  BY <1>2, <1>4, StillSettled
<1>6. NoHistory \in History /\ ~NoHistory.repeated
  BY DEF NoHistory, History
<1>7. BeforePlan' /\ WithPlan'
  BY <1>2 DEF BeforePlan, WithPlan, Early, Late
<1>8. TypeOK' /\ IterationsLeft'
  <2>1. NoRun.iteration <= NoRun.limit
    BY NoRunType DEF Runs
  <2>2. /\ arg' \in [Callers -> Checkpoints \union {NoCheckpoint}]
        /\ interrupted' \in BOOLEAN /\ expired' \in BOOLEAN
        /\ checkpoint' \in Checkpoints \union {NoCheckpoint}
    BY <1>1, <1>2 DEF TypeOK
  <2>3. run' \in Runs /\ run'.iteration <= run'.limit /\ run'.iteration < run'.limit
        /\ at' \in Places /\ hist' \in History
    BY <1>2, <1>6, <2>1, NoRunType DEF Places
  <2> QED
    BY <1>2, <1>4, <2>2, <2>3 DEF TypeOK, IterationsLeft
<1> QED
  BY <1>2, <1>5, <1>6, <1>7, <1>8 DEF PlanInv, ResumeRepeatsNothing

(* A step of the run to another place before the plan is there.             *)
LEMMA EarlyKeeps ==
  ASSUME PlanInv, at \in Early, UNCHANGED <<callers, run, checkpoint, effects>>,
         hist' \in History, hist'.stale = hist.stale, hist'.repeated = hist.repeated,
         interrupted' \in BOOLEAN, expired' \in BOOLEAN, at' \in Places \ Late,
         at = "top" => run.iteration < run.limit,
         at' = "compiled" => ~run.from
  PROVE  PlanInv'
<1>1. run' \in Runs /\ run'.iteration <= run'.limit /\ run'.iteration < run'.limit
  BY DEF PlanInv, TypeOK, IterationsLeft
<1>2. BeforePlan' /\ WithPlan'
  BY DEF PlanInv, BeforePlan, WithPlan, effects
<1>3. hist'.repeated => hist'.stale
  BY DEF PlanInv, ResumeRepeatsNothing
<1> QED
  BY <1>1, <1>2, <1>3, KeptFrame

LEMMA PlanClear == ASSUME PlanInv, Clear \/ Start PROVE PlanInv'
<1>1. TypeOK
  BY DEF PlanInv
<1>2. /\ at \in {"locked", "start"} /\ UNCHANGED <<callers, run, checkpoint, effects, hist>>
      /\ at' \in {"start", "leave", "begin"}
      /\ interrupted' \in BOOLEAN /\ expired' \in BOOLEAN
  BY <1>1 DEF Clear, Start, Quiet, Go, TypeOK
<1>3. at \in Early /\ at' \in Places \ Late /\ at' # "compiled" /\ at # "top"
  BY <1>2 DEF Early, Late, Places
<1>4. hist' \in History /\ hist'.stale = hist.stale /\ hist'.repeated = hist.repeated
  BY <1>1, <1>2 DEF TypeOK
<1>5. UNCHANGED <<callers, run, checkpoint, effects>>
  BY <1>2
<1> QED
  BY <1>2, <1>3, <1>4, <1>5, EarlyKeeps

(* A run that was given no checkpoint makes a plan.                         *)
LEMMA MakePlanKeeps ==
  ASSUME PlanInv, at \in Early, ~run.restore, run.iteration < run.limit, UNCHANGED <<callers, checkpoint>>,
         hist' \in History, hist'.stale = hist.stale, hist'.repeated = hist.repeated,
         Quiet, NEW b \in BOOLEAN, MakePlan(b),
         at' \in {"looped", "planned"} \/ (b /\ at' = "layer")
  PROVE  PlanInv'
<1>1. TypeOK
  BY DEF PlanInv
<1>2. /\ run' \in Runs /\ run'.plan \in Plans
      /\ run'.prior = run.prior /\ run'.ok = run.ok
      /\ run'.iteration = run.iteration /\ run'.limit = run.limit
      /\ b => run'.open = Steps
      /\ done' \in [Plans -> SUBSET Steps] /\ settled' \in [Plans -> SUBSET Steps]
      /\ done'[run'.plan] = {} /\ settled'[run'.plan] = {}
      /\ \A p \in Known \intersect Plans : settled[p] \subseteq settled'[p]
  BY <1>1, MakePlanType
<1>3. run.prior = {} /\ run.ok = {}
  BY DEF PlanInv, BeforePlan
<1>4. /\ run'.iteration < run'.limit /\ run'.iteration <= run'.limit
      /\ at' \in Places \ Early /\ interrupted' \in BOOLEAN /\ expired' \in BOOLEAN
      /\ checkpoint' \in Checkpoints \union {NoCheckpoint}
  BY <1>1, <1>2 DEF TypeOK, Quiet, Places, Early, Runs
<1>5. SavedIsSettled'
  <2>1. UNCHANGED <<arg, checkpoint>>
    BY DEF callers
  <2> QED
    BY <1>2, <2>1, StillSettled
<1>6. BeforePlan' /\ WithPlan'
  BY <1>2, <1>3, <1>4 DEF BeforePlan, WithPlan
<1>7. hist'.repeated => hist'.stale
  BY DEF PlanInv, ResumeRepeatsNothing
<1> QED
  BY <1>2, <1>4, <1>5, <1>6, <1>7, PlanFrame

LEMMA PlanBegin == ASSUME PlanInv, Begin PROVE PlanInv'
<1>1. TypeOK
  BY DEF PlanInv
<1>2. at = "begin" /\ Quiet /\ UNCHANGED <<callers, checkpoint, hist>>
  BY DEF Begin, Quiet
<1>3. /\ at \in Early /\ run.iteration < run.limit
      /\ interrupted' \in BOOLEAN /\ expired' \in BOOLEAN
  BY <1>1, <1>2 DEF Early, PlanInv, IterationsLeft, TypeOK, Quiet
<1>4. hist' \in History /\ hist'.stale = hist.stale /\ hist'.repeated = hist.repeated
  BY <1>1, <1>2 DEF TypeOK
<1>5. CASE UNCHANGED <<run, effects>> /\ (at' = "top" \/ (at' = "compiled" /\ ~run.from))
  <2>1. UNCHANGED <<callers, run, checkpoint, effects>> /\ at' \in Places \ Late
    BY <1>2, <1>5 DEF Places, Late
  <2> QED
    BY <1>2, <1>3, <1>4, <1>5, <2>1, EarlyKeeps
<1>6. CASE ~run.from /\ at' = "layer" /\ MakePlan(TRUE)
  <2>1. ~run.restore
    BY <1>3, <1>6 DEF PlanInv, BeforePlan
  <2>2. UNCHANGED <<callers, checkpoint>> /\ TRUE \in BOOLEAN
    BY <1>2
  <2> QED
    BY <1>2, <1>3, <1>4, <1>6, <2>1, <2>2, MakePlanKeeps
<1> QED
  BY <1>5, <1>6 DEF Begin, Go

(* What history notes of a step that runs steps.                            *)
LEMMA RunningType ==
  ASSUME hist \in History
  PROVE  /\ Running(hist) \in History
         /\ Running(hist).stale = hist.stale /\ Running(hist).repeated = hist.repeated
<1> DEFINE n == IF hist.asked THEN hist.after + 1 ELSE hist.after
<1>1. n \in Nat
  BY DEF History
<1>2. Running(hist) = [hist EXCEPT !.after = n]
  BY DEF Running, History
<1> HIDE DEF n
<1> QED
  BY <1>1, <1>2 DEF History

LEMMA PlanRunCompiled == ASSUME PlanInv, RunCompiled PROVE PlanInv'
<1>1. TypeOK
  BY DEF PlanInv
<1>2. at = "compiled" /\ Quiet /\ UNCHANGED <<callers, checkpoint>>
  BY DEF RunCompiled, Quiet
<1>3. /\ at \in Early /\ run.iteration < run.limit /\ ~run.restore
      /\ interrupted' \in BOOLEAN /\ expired' \in BOOLEAN
  BY <1>1, <1>2 DEF Early, PlanInv, IterationsLeft, BeforePlan, TypeOK, Quiet
<1>4. hist \in History
  BY <1>1 DEF TypeOK
<1>5. CASE (\E v \in {"achieved", "failed"} : EndLoop(v)) /\ UNCHANGED effects
  <2>1. PICK v \in {"achieved", "failed"} : EndLoop(v)
    BY <1>5
  <2>2. hist' \in History /\ hist'.stale = hist.stale /\ hist'.repeated = hist.repeated
    BY <1>4, RunningType DEF RunCompiled
  <2>3. hist'.repeated => hist'.stale
    BY <2>2 DEF PlanInv, ResumeRepeatsNothing
  <2>4. v \in Verdicts /\ UNCHANGED <<callers, checkpoint, effects>>
    BY <1>2, <1>5, <2>1 DEF Verdicts
  <2> QED
    BY <1>2, <2>1, <2>2, <2>3, <2>4, EndLoopKeeps
<1>6. CASE hist' = Running(hist) /\ at' = "layer" /\ MakePlan(TRUE)
  <2>1. hist' \in History /\ hist'.stale = hist.stale /\ hist'.repeated = hist.repeated
    BY <1>4, <1>6, RunningType
  <2>2. UNCHANGED <<callers, checkpoint>> /\ TRUE \in BOOLEAN
    BY <1>2
  <2> QED
    BY <1>2, <1>3, <1>6, <2>1, <2>2, MakePlanKeeps
<1>7. CASE hist' = Running(hist) /\ Go("top", run) /\ UNCHANGED effects
  <2>1. hist' \in History /\ hist'.stale = hist.stale /\ hist'.repeated = hist.repeated
    BY <1>4, <1>7, RunningType
  <2>2. /\ UNCHANGED <<callers, run, checkpoint, effects>>
        /\ at' \in Places \ Late /\ at' # "compiled" /\ at # "top"
    BY <1>2, <1>7 DEF Go, Places, Late
  <2> QED
    BY <1>3, <2>1, <2>2, EarlyKeeps
<1> QED
  BY <1>5, <1>6, <1>7 DEF RunCompiled

(* Quiet steps of the run that leave its history alone.                     *)
LEMMA HistoryKept ==
  ASSUME PlanInv, hist' = hist
  PROVE  /\ hist' \in History /\ hist'.stale = hist.stale /\ hist'.repeated = hist.repeated
         /\ hist'.repeated => hist'.stale
  BY DEF PlanInv, TypeOK, ResumeRepeatsNothing

LEMMA PlanTop == ASSUME PlanInv, Top PROVE PlanInv'
<1>1. at = "top" /\ Quiet /\ UNCHANGED <<callers, effects, hist>>
  BY DEF Top, Quiet
<1>2. /\ hist' \in History /\ hist'.stale = hist.stale /\ hist'.repeated = hist.repeated
      /\ hist'.repeated => hist'.stale
  BY <1>1, HistoryKept
<1>3. UNCHANGED <<callers, effects>> /\ "failed" \in Verdicts
  BY <1>1 DEF Verdicts
<1>4. CASE EndLoop("failed") /\ UNCHANGED checkpoint
  <2>1. UNCHANGED <<callers, checkpoint, effects>>
    BY <1>3, <1>4
  <2> QED
    BY <1>1, <1>2, <1>3, <1>4, <2>1, EndLoopKeeps
<1>5. CASE run.restore /\ Save(run.plan, run.prior, run.prior)
  <2>1. /\ run.plan \in Plans \union {NoPlan} /\ run.prior \in SUBSET Steps
        /\ run.prior \subseteq settled[run.plan]
    BY <1>1, <1>5 DEF PlanInv, TypeOK, Runs, BeforePlan, Early
  <2> QED
    BY <1>1, <1>2, <1>3, <1>5, <2>1, SaveKeeps
<1>6. CASE Save(NoPlan, {}, {})
  <2>1. NoPlan \in Plans \union {NoPlan} /\ {} \in SUBSET Steps
    OBVIOUS
  <2> QED
    BY <1>1, <1>2, <1>3, <1>6, <2>1, SaveKeeps
<1>7. CASE ~OutOfIterations /\ Go("planning", run) /\ UNCHANGED checkpoint
  <2>1. UNCHANGED <<callers, run, checkpoint, effects>>
    BY <1>1, <1>7 DEF Go
  <2>2. /\ at \in Early /\ at' \in Places \ Late /\ at' # "compiled"
        /\ run.iteration < run.limit
        /\ interrupted' \in BOOLEAN /\ expired' \in BOOLEAN
    BY <1>1, <1>7 DEF Early, Late, Places, Go, OutOfIterations, PlanInv, TypeOK, Runs, Quiet
  <2> QED
    BY <1>2, <2>1, <2>2, EarlyKeeps
<1> QED
  BY <1>4, <1>5, <1>6, <1>7 DEF Top, Fail

LEMMA PlanPlan == ASSUME PlanInv, Plan PROVE PlanInv'
<1>1. /\ at = "planning" /\ Quiet /\ UNCHANGED <<callers, checkpoint, hist>>
      /\ at' \in {"looped", "planned"}
  BY DEF Plan, Quiet
<1>2. /\ hist' \in History /\ hist'.stale = hist.stale /\ hist'.repeated = hist.repeated
      /\ hist'.repeated => hist'.stale
  BY <1>1, HistoryKept
<1>3. at \in Early /\ run.iteration < run.limit
  BY <1>1 DEF Early, PlanInv, IterationsLeft
<1>4. CASE ~run.restore
  <2>1. MakePlan(FALSE) /\ FALSE \in BOOLEAN /\ UNCHANGED <<callers, checkpoint>>
    BY <1>1, <1>4 DEF Plan
  <2> QED
    BY <1>1, <1>2, <1>3, <1>4, <2>1, MakePlanKeeps
<1>5. CASE run.restore
  <2>1. run' = [run EXCEPT !.restore = FALSE] /\ UNCHANGED <<callers, checkpoint, effects>>
    BY <1>1, <1>5 DEF Plan
  <2>2. run \in Runs
    BY DEF PlanInv, TypeOK
  <2>3. /\ run' \in Runs /\ run'.iteration = run.iteration /\ run'.limit = run.limit
        /\ run'.plan = run.plan /\ run'.prior = run.prior /\ run'.ok = run.ok
    BY <2>1, <2>2 DEF Runs
  <2>7. run'.iteration < run'.limit /\ run'.iteration <= run'.limit
    BY <1>3, <2>2, <2>3 DEF Runs
  <2>4. /\ run.plan \in Plans /\ run.ok = {}
        /\ run.prior \subseteq settled[run.plan]
        /\ ~hist.stale => done[run.plan] \subseteq run.prior
    BY <1>3, <1>5, <2>2 DEF PlanInv, BeforePlan, Runs
  <2>5. at' \in Places \ Early /\ interrupted' \in BOOLEAN /\ expired' \in BOOLEAN
    BY <1>1 DEF Places, Early, PlanInv, TypeOK, Quiet
  <2>6. BeforePlan' /\ WithPlan'
    BY <1>1, <2>1, <2>3, <2>4, <2>5 DEF BeforePlan, WithPlan, effects
  <2> QED
    BY <1>2, <2>1, <2>3, <2>5, <2>6, <2>7, KeptFrame
<1> QED
  BY <1>4, <1>5

LEMMA PlanAgainKeeps ==
  ASSUME PlanInv, at # "top", UNCHANGED <<callers, checkpoint, effects>>,
         hist' \in History, hist'.repeated => hist'.stale, Quiet, PlanAgain
  PROVE  PlanInv'
<1>1. "failed" \in Verdicts
  BY DEF Verdicts
<1>2. run.iteration + 1 \in Nat /\ run.iteration + 1 <= run.limit
  BY DEF PlanInv, IterationsLeft, TypeOK, Runs
<1> QED
  BY <1>1, <1>2, EndLoopKeeps, IterateKeeps DEF PlanAgain, Fail, NextIteration

LEMMA PlanInvalid == ASSUME PlanInv, PlanFails \/ Invalid PROVE PlanInv'
<1>1. /\ at # "top" /\ Quiet /\ UNCHANGED <<callers, checkpoint, effects>>
      /\ hist' = hist
  BY DEF PlanFails, Invalid, Quiet
<1>2. hist' \in History /\ (hist'.repeated => hist'.stale)
  BY <1>1, HistoryKept
<1>3. PlanAgain
  BY DEF PlanFails, Invalid, PlanAgain
<1> QED
  BY <1>1, <1>2, <1>3, PlanAgainKeeps

LEMMA LeastElement ==
  ASSUME NEW S \in SUBSET Nat, S # {}
  PROVE  Min(S) \in S /\ \A x \in S : Min(S) <= x
<1>1. OpToRel(<, Nat) = {ss \in Nat \X Nat : ss[1] < ss[2]}
  BY DEF OpToRel
<1> DEFINE R == OpToRel(<, Nat)
<1>2. \A i, j \in Nat : i < j => <<i, j>> \in R
  BY <1>1
<1>3. IsWellFoundedOn(R, Nat)
  BY NatLessThanWellFounded
<1> HIDE DEF R
<1>4. PICK x \in S : \A y \in S : ~(<<y, x>> \in R)
  BY <1>3, WFMin
<1>5. ASSUME NEW y \in S PROVE x <= y
  <2>1. x \in Nat /\ y \in Nat
    OBVIOUS
  <2>2. ~(y < x)
    BY <1>2, <1>4, <2>1
  <2> QED BY <2>1, <2>2
<1> QED
  BY <1>5 DEF Min

(* There is a next layer while a step is open, and a first step in it.      *)
LEMMA NextLayerType ==
  ASSUME PlanInv, run.open # {}
  PROVE  NextLayer \in SUBSET run.open /\ NextLayer # {} /\ Min(NextLayer) \in Steps
<1> DEFINE L == {LayerOf[s] : s \in run.open}
<1>1. run.open \in SUBSET Steps
  BY DEF PlanInv, TypeOK, Runs
<1>2. L \in SUBSET Nat /\ L # {}
  BY <1>1, OrchestratorAssumption
<1>3. /\ Min(L) \in L /\ \A k \in L : Min(L) <= k
  <2> HIDE DEF L
  <2> QED
    BY <1>2, LeastElement
<1>4. PICK s \in run.open : Min(L) = LayerOf[s]
  BY <1>3
<1>5. s \in NextLayer
  BY <1>3, <1>4 DEF NextLayer
<1>6. NextLayer \in SUBSET run.open
  BY DEF NextLayer
<1>7. NextLayer \in SUBSET Nat /\ NextLayer # {}
  BY <1>1, <1>5, <1>6, OrchestratorAssumption
<1>9. Min(NextLayer) \in NextLayer
  BY <1>7, LeastElement
<1> QED
  BY <1>1, <1>6, <1>7, <1>9

LEMMA PlanExecute == ASSUME PlanInv, Execute PROVE PlanInv'
<1>1. /\ at = "planned" /\ Quiet /\ UNCHANGED <<callers, effects>> /\ hist' = hist
  BY DEF Execute, Quiet
<1>2. hist' \in History /\ (hist'.repeated => hist'.stale)
  BY <1>1, HistoryKept
<1>3. /\ run \in Runs /\ run.plan \in Plans /\ run.prior \in SUBSET Steps
      /\ run.prior \subseteq settled[run.plan]
      /\ ~hist.stale => done[run.plan] \subseteq run.prior
      /\ run.iteration < run.limit
  BY <1>1 DEF PlanInv, TypeOK, Runs, WithPlan, Late, IterationsLeft
<1>4. CASE Save(run.plan, run.prior, run.prior)
  <2>1. run.plan \in Plans \union {NoPlan}
    BY <1>3
  <2>2. UNCHANGED <<callers, effects>>
    BY <1>1
  <2> QED
    BY <1>1, <1>2, <1>3, <1>4, <2>1, <2>2, SaveKeeps
<1>5. CASE /\ at' = "layer" /\ UNCHANGED checkpoint
           /\ run' = [run EXCEPT !.open = Steps \ run.prior, !.ok = {}, !.tried = {}]
  <2>1. /\ run' \in Runs /\ run'.iteration = run.iteration /\ run'.limit = run.limit
        /\ run'.plan = run.plan /\ run'.prior = run.prior /\ run'.ok = {}
        /\ run'.open = Steps \ run.prior
    BY <1>3, <1>5 DEF Runs
  <2>2. run'.iteration < run'.limit /\ run'.iteration <= run'.limit
    BY <1>3, <2>1 DEF Runs
  <2>3. /\ at' \in Places /\ interrupted' \in BOOLEAN /\ expired' \in BOOLEAN
        /\ UNCHANGED <<callers, checkpoint, effects>>
    BY <1>1, <1>5 DEF Places, PlanInv, TypeOK, Quiet
  <2>4. BeforePlan'
    BY <1>5 DEF BeforePlan, Early
  <2>5. WithPlan'
    BY <1>1, <1>3, <1>5, <2>1 DEF WithPlan, effects
  <2> QED
    BY <1>2, <2>1, <2>2, <2>3, <2>4, <2>5, KeptFrame
<1> QED
  BY <1>4, <1>5 DEF Execute, Go, Pending

LEMMA PlanCheckLayer == ASSUME PlanInv, CheckLayer PROVE PlanInv'
<1>1. /\ at = "layer" /\ Quiet /\ UNCHANGED <<callers, checkpoint, effects>> /\ hist' = hist
  BY DEF CheckLayer, Quiet
<1>2. hist' \in History /\ (hist'.repeated => hist'.stale)
  BY <1>1, HistoryKept
<1>3. run \in Runs /\ run.iteration < run.limit /\ WithPlan
  BY <1>1 DEF PlanInv, TypeOK, IterationsLeft
<1> DEFINE OfRun == /\ run'.plan = run.plan /\ run'.prior = run.prior /\ run'.ok = run.ok
                    /\ run'.iteration = run.iteration /\ run'.limit = run.limit
                    /\ run'.open = run.open
<1>4. /\ run' \in Runs /\ OfRun
      /\ \/ at' = "executed" /\ (run'.allOk => run.open = {})
         \/ at' = "running"
  <2>1. CASE run.open = {}
    BY <1>3, <2>1 DEF CheckLayer, Go, Runs
  <2>2. CASE run.open # {} /\ CancelRequested
    <3> DEFINE t == run.tried \union {Min(NextLayer)}
    <3>1. t \in SUBSET Steps
      BY <1>3, <2>2, NextLayerType DEF Runs
    <3>2. at' = "executed" /\ run' = [run EXCEPT !.allOk = FALSE, !.tried = t]
      BY <2>2 DEF CheckLayer, Go
    <3> HIDE DEF t
    <3> QED
      BY <1>3, <3>1, <3>2 DEF Runs
  <2>3. CASE run.open # {} /\ ~CancelRequested
    BY <1>3, <2>3 DEF CheckLayer, Go
  <2> QED
    BY <2>1, <2>2, <2>3
<1>5. run'.iteration < run'.limit /\ run'.iteration <= run'.limit
  BY <1>3, <1>4 DEF Runs
<1>6. at' \in Places \ Early /\ interrupted' \in BOOLEAN /\ expired' \in BOOLEAN
  BY <1>1, <1>4 DEF Places, Early, PlanInv, TypeOK, Quiet
<1>7. BeforePlan' /\ WithPlan'
  BY <1>1, <1>3, <1>4, <1>6 DEF BeforePlan, WithPlan, CutOff, Late, effects
<1> QED
  BY <1>1, <1>2, <1>4, <1>5, <1>6, <1>7, KeptFrame

(* What is not kept of a layer was cut off by a member before it that       *)
(* aborted and is kept itself.                                              *)
LEMMA CutOffByAbort ==
  ASSUME NextLayer \in SUBSET Steps,
         NEW out \in [NextLayer -> {"ok", "abort", "tolerated", "skipped"}],
         NEW s \in NextLayer \ Kept(out)
  PROVE  ~CancelRequested /\ \E t \in Kept(out) : out[t] = "abort" /\ t < s
<1> DEFINE A == Aborts(out)
<1>1. NextLayer \in SUBSET Nat /\ A \in SUBSET NextLayer /\ DOMAIN out = NextLayer
  BY OrchestratorAssumption DEF Aborts
<1>2. ~CancelRequested /\ \E u \in A : ~(s <= u)
  BY <1>1 DEF Kept
<1>3. PICK u \in A : ~(s <= u)
  BY <1>2
<1>4. Min(A) \in A /\ \A x \in A : Min(A) <= x
  <2> HIDE DEF A
  <2> QED
    BY <1>1, <1>3, LeastElement
<1>5. Min(A) < s
  <2>1. Min(A) \in Nat /\ u \in Nat /\ s \in Nat /\ Min(A) <= u
    BY <1>1, <1>3, <1>4
  <2> HIDE DEF A
  <2> QED
    BY <1>3, <2>1
<1>6. Min(A) \in Kept(out) /\ out[Min(A)] = "abort"
  BY <1>1, <1>2, <1>4 DEF Kept, Aborts
<1> QED
  BY <1>2, <1>5, <1>6

(* What a layer leaves: what it kept of its results is settled, and when    *)
(* nothing aborted the whole layer is.                                      *)
LEMMA LayerResults ==
  ASSUME PlanInv, NextLayer \in SUBSET Steps,
         NEW out \in [NextLayer -> {"ok", "abort", "tolerated", "skipped"}]
  PROVE  /\ AfterLayer(out) \in Runs
         /\ AfterLayer(out).plan = run.plan /\ AfterLayer(out).prior = run.prior
         /\ AfterLayer(out).iteration = run.iteration /\ AfterLayer(out).limit = run.limit
         /\ AfterLayer(out).open = run.open \ NextLayer
         /\ ~AfterLayer(out).allOk
         /\ AfterLayer(out).ok \subseteq run.ok \union Successes(NextLayer, out)
         /\ run.ok \subseteq AfterLayer(out).ok
         /\ CancelRequested \/ Aborts(out) = {} =>
              AfterLayer(out).ok = run.ok \union Successes(NextLayer, out)
         /\ \A s \in Successes(NextLayer, out) \ AfterLayer(out).ok :
              \E t \in NextLayer \intersect AfterLayer(out).tried :
                t \notin Successes(NextLayer, out) /\ t < s
         /\ Successes(NextLayer, out) \subseteq Needless(out)
         /\ Needless(out) \in SUBSET NextLayer
         /\ ~CancelRequested /\ Aborts(out) = {} => Needless(out) = NextLayer
<1> DEFINE kept == {s \in Kept(out) : out[s] # "skipped"}
           o == run.ok \union Successes(kept, out)
           t == run.tried \union kept
           open == run.open \ DOMAIN out
<1>1. run \in Runs
  BY DEF PlanInv, TypeOK
<1>2. DOMAIN out = NextLayer /\ Kept(out) \in SUBSET NextLayer
  BY DEF Kept
<1>3. /\ o \in SUBSET Steps /\ t \in SUBSET Steps /\ open \in SUBSET Steps
      /\ o \subseteq run.ok \union Successes(NextLayer, out) /\ run.ok \subseteq o
      /\ open = run.open \ NextLayer
  BY <1>1, <1>2 DEF Successes, Runs
<1>4. CancelRequested \/ Aborts(out) = {} => o = run.ok \union Successes(NextLayer, out)
  BY <1>2 DEF Successes, Kept
<1>9. ASSUME NEW s \in Successes(NextLayer, out) \ o
      PROVE  \E u \in NextLayer \intersect t : u \notin Successes(NextLayer, out) /\ u < s
  <2>1. s \in NextLayer /\ out[s] = "ok" /\ s \notin Kept(out)
    BY <1>9 DEF Successes
  <2>2. PICK u \in Kept(out) : out[u] = "abort" /\ u < s
    BY <2>1, CutOffByAbort
  <2> QED
    BY <1>2, <2>2 DEF Successes
<1>5. AfterLayer(out) = [run EXCEPT !.ok = o, !.tried = t, !.open = open, !.allOk = FALSE]
  BY <1>1 DEF AfterLayer, Runs
<1>6. /\ Successes(NextLayer, out) \subseteq Needless(out)
      /\ Needless(out) \in SUBSET NextLayer
  BY <1>2 DEF Successes, Needless
<1>7. ~CancelRequested /\ Aborts(out) = {} => Needless(out) = NextLayer
  BY <1>2 DEF Needless, Aborts
<1> HIDE DEF o, t, open
<1>8. /\ AfterLayer(out) \in Runs
      /\ AfterLayer(out).plan = run.plan /\ AfterLayer(out).prior = run.prior
      /\ AfterLayer(out).iteration = run.iteration /\ AfterLayer(out).limit = run.limit
      /\ AfterLayer(out).open = open /\ ~AfterLayer(out).allOk
      /\ AfterLayer(out).ok = o /\ AfterLayer(out).tried = t
  BY <1>1, <1>3, <1>5 DEF Runs
<1> QED
  BY <1>3, <1>4, <1>6, <1>7, <1>8, <1>9

LEMMA PlanRunLayer == ASSUME PlanInv, RunLayer PROVE PlanInv'
<1>1. at = "running" /\ Quiet /\ UNCHANGED <<callers, checkpoint>>
  BY DEF RunLayer, Quiet
<1>2. PICK out \in [NextLayer -> {"ok", "abort", "tolerated", "skipped"}] :
        /\ Go(IF CancelRequested \/ Aborts(out) # {} THEN "executed" ELSE "layer", AfterLayer(out))
        /\ done' = [done EXCEPT ![run.plan] = @ \union Successes(DOMAIN out, out)]
        /\ settled' = [settled EXCEPT ![run.plan] = @ \union Needless(out)]
        /\ hist' = [Running(hist) EXCEPT !.repeated = @ \/ Repeats(out)]
  BY DEF RunLayer
<1>3. /\ TypeOK /\ run \in Runs /\ run.iteration < run.limit /\ hist \in History
      /\ run.plan \in Plans
      /\ run.prior \subseteq settled[run.plan] /\ run.ok \subseteq settled[run.plan]
      /\ Steps \ run.open \subseteq settled[run.plan]
      /\ run.open \intersect (run.prior \union run.ok) = {}
      /\ ~hist.stale => /\ run.open \intersect done[run.plan] = {}
                        /\ done[run.plan] \subseteq run.prior \union run.ok
  BY <1>1 DEF PlanInv, TypeOK, IterationsLeft, WithPlan, Late
<1>4. NextLayer \in SUBSET run.open /\ NextLayer \in SUBSET Steps /\ DOMAIN out = NextLayer
  BY <1>3 DEF NextLayer, Runs
<1> DEFINE S == Successes(NextLayer, out)
           N == Needless(out)
<1>5. /\ run' \in Runs /\ run'.plan = run.plan /\ run'.prior = run.prior
      /\ run'.iteration = run.iteration /\ run'.limit = run.limit
      /\ run'.open = run.open \ NextLayer /\ ~run'.allOk
      /\ run'.ok \subseteq run.ok \union S /\ run.ok \subseteq run'.ok
      /\ \A s \in S \ run'.ok : \E t \in NextLayer \intersect run'.tried : t \notin S /\ t < s
      /\ S \subseteq N /\ N \in SUBSET NextLayer
      /\ at' = "executed" \/ (at' = "layer" /\ N = NextLayer /\ run'.ok = run.ok \union S)
  BY <1>2, <1>4, LayerResults DEF Go
<1>6. /\ done' \in [Plans -> SUBSET Steps] /\ settled' \in [Plans -> SUBSET Steps]
      /\ done'[run.plan] = done[run.plan] \union S
      /\ settled'[run.plan] = settled[run.plan] \union N
      /\ \A p \in Plans : settled[p] \subseteq settled'[p]
  <2> HIDE DEF N
  <2>1. S \in SUBSET Steps /\ N \in SUBSET Steps
    BY <1>4, <1>5
  <2> HIDE DEF S
  <2>2. /\ done' = [done EXCEPT ![run.plan] = done[run.plan] \union S]
        /\ settled' = [settled EXCEPT ![run.plan] = settled[run.plan] \union N]
    BY <1>2, <1>4 DEF S, N
  <2> QED
    BY <1>3, <2>1, <2>2 DEF TypeOK
<1>7. /\ hist' \in History /\ hist'.stale = hist.stale
      /\ hist'.repeated => hist'.stale
  <2> DEFINE b == Running(hist).repeated \/ Repeats(out)
  <2>1. hist' = [Running(hist) EXCEPT !.repeated = b] /\ b \in BOOLEAN
    BY <1>2
  <2>2. Repeats(out) => hist.stale
    BY <1>3, <1>4 DEF Repeats
  <2>3. b => hist.stale
    BY <1>3, <2>2, RunningType DEF PlanInv, ResumeRepeatsNothing
  <2> HIDE DEF b
  <2> QED
    BY <1>3, <2>1, <2>3, RunningType DEF History
<1>8. run'.iteration < run'.limit /\ run'.iteration <= run'.limit
  BY <1>3, <1>5 DEF Runs
<1>9. /\ at' \in Places \ Early /\ interrupted' \in BOOLEAN /\ expired' \in BOOLEAN
      /\ checkpoint' \in Checkpoints \union {NoCheckpoint}
  BY <1>1, <1>3, <1>5 DEF Places, Early, TypeOK, Quiet
<1>10. SavedIsSettled'
  <2>1. UNCHANGED <<arg, checkpoint>>
    BY <1>1 DEF callers
  <2> QED
    BY <1>6, <2>1, StillSettled
<1>11. BeforePlan'
  BY <1>9 DEF BeforePlan
<1>12. WithPlan'
  <2> HIDE DEF S, N
  <2>1. run'.prior \subseteq settled'[run'.plan] /\ run'.ok \subseteq settled'[run'.plan]
    BY <1>3, <1>5, <1>6
  <2>2. at' = "layer" => Steps \ run'.open \subseteq settled'[run'.plan]
    BY <1>3, <1>5, <1>6
  <2>3. S \subseteq NextLayer
    BY <1>5
  <2>4. ~hist'.stale => run'.open \intersect done'[run'.plan] = {}
    BY <1>3, <1>5, <1>6, <1>7, <2>3
  <2>5. at' = "layer" =>
          /\ run'.open \intersect (run'.prior \union run'.ok) = {}
          /\ ~hist'.stale => done'[run'.plan] \subseteq run'.prior \union run'.ok
    BY <1>3, <1>5, <1>6, <1>7, <2>3
  <2>6. ASSUME ~hist'.stale, NEW s \in done'[run'.plan] \ (run'.prior \union run'.ok)
        PROVE  \E t \in (run'.prior \union run'.tried) \ (run'.prior \union run'.ok) :
                 LayerOf[t] = LayerOf[s] /\ t < s
    <3>1. s \in S \ run'.ok
      <4>1. run'.ok \subseteq run.ok \union S /\ run.ok \subseteq run'.ok
        BY <1>5
      <4> QED
        BY <1>3, <1>5, <1>6, <1>7, <2>6, <4>1
    <3>2. PICK t \in NextLayer \intersect run'.tried : t \notin S /\ t < s
      BY <1>5, <3>1
    <3>3. t \notin run'.prior \union run'.ok
      BY <1>3, <1>4, <1>5, <3>2
    <3>4. LayerOf[t] = LayerOf[s]
      <4>1. LayerOf[s] \in Nat /\ LayerOf[t] \in Nat
        BY <1>4, <2>3, <3>1, <3>2, OrchestratorAssumption
      <4>2. LayerOf[t] <= LayerOf[s] /\ LayerOf[s] <= LayerOf[t]
        BY <1>4, <2>3, <3>1, <3>2 DEF NextLayer
      <4> QED
        BY <4>1, <4>2
    <3> QED
      BY <3>2, <3>3, <3>4
  <2> QED
    BY <1>3, <1>5, <2>1, <2>2, <2>4, <2>5, <2>6 DEF WithPlan, CutOff
<1> QED
  BY <1>1, <1>5, <1>6, <1>7, <1>8, <1>9, <1>10, <1>11, <1>12, PlanFrame

(* After the layers: what the run has gathered is settled.                  *)
LEMMA SaveCurrentKeeps ==
  ASSUME PlanInv, at \in Late, UNCHANGED <<callers, effects>>,
         hist' \in History, hist'.repeated => hist'.stale, Quiet, SaveCurrent
  PROVE  PlanInv'
<1>1. /\ run.plan \in Plans \union {NoPlan}
      /\ CurrentResults(run) \in SUBSET Steps /\ run.prior \union run.tried \in SUBSET Steps
      /\ CurrentResults(run) \subseteq settled[run.plan]
  BY DEF PlanInv, TypeOK, Runs, WithPlan, CurrentResults
<1> QED
  BY <1>1, SaveKeeps DEF SaveCurrent

LEMMA PlanExecuted == ASSUME PlanInv, Executed \/ BeforeVerify PROVE PlanInv'
<1>1. /\ at \in {"executed", "verify"} /\ Quiet /\ UNCHANGED <<callers, effects>> /\ hist' = hist
  BY DEF Executed, BeforeVerify, Quiet
<1>2. hist' \in History /\ (hist'.repeated => hist'.stale)
  BY <1>1, HistoryKept
<1>3. /\ at \in Late /\ at # "top" /\ run \in Runs /\ run.iteration < run.limit
      /\ run.iteration <= run.limit /\ 0 \in Nat /\ 0 <= run.limit
  BY <1>1 DEF Late, PlanInv, TypeOK, Runs, IterationsLeft
<1>4. CASE SaveCurrent
  <2>1. UNCHANGED <<callers, effects>>
    BY <1>1
  <2> QED
    BY <1>1, <1>2, <1>3, <1>4, <2>1, SaveCurrentKeeps
<1>5. CASE checkpoint' = checkpoint /\ (PlanAgain \/ Fail \/ Iterate(0))
  <2>1. UNCHANGED <<callers, checkpoint, effects>> /\ (PlanAgain \/ Iterate(0))
    BY <1>1, <1>5 DEF PlanAgain
  <2> QED
    BY <1>1, <1>2, <1>3, <2>1, PlanAgainKeeps, IterateKeeps
<1>6. CASE /\ checkpoint' = checkpoint /\ run' = run
           /\ \/ at = "executed" /\ run.allOk /\ at' \in {"verify", "verifying"}
              \/ at = "verify" /\ at' = "verifying"
  <2>1. /\ UNCHANGED <<callers, checkpoint, effects>> /\ at' \in Places \ Early
        /\ interrupted' \in BOOLEAN /\ expired' \in BOOLEAN
        /\ run' \in Runs /\ run'.iteration < run'.limit /\ run'.iteration <= run'.limit
    BY <1>1, <1>3, <1>6 DEF Places, Early, PlanInv, TypeOK, Quiet
  <2>2. BeforePlan' /\ WithPlan'
    BY <1>1, <1>3, <1>6, <2>1 DEF PlanInv, BeforePlan, WithPlan, CutOff, Late, effects
  <2> QED
    BY <1>2, <2>1, <2>2, KeptFrame
<1>7. CASE Executed
  BY <1>4, <1>5, <1>6, <1>7 DEF Executed, Go
<1>8. CASE BeforeVerify
  BY <1>4, <1>6, <1>8 DEF BeforeVerify, Go
<1> QED
  BY <1>7, <1>8

LEMMA PlanVerified == ASSUME PlanInv, Verified PROVE PlanInv'
<1>1. /\ at = "verifying" /\ Quiet /\ UNCHANGED <<callers, effects>>
  BY DEF Verified, Quiet
<1>2. /\ at \in Late /\ at # "top" /\ run \in Runs /\ hist \in History
      /\ 0 \in Nat /\ 0 <= run.limit
  BY <1>1 DEF Late, PlanInv, TypeOK, Runs
<1>3. PICK v \in {"achieved", "unavailable", "failed"} :
        \/ SaveCurrent
        \/ checkpoint' = checkpoint /\ (EndLoop(v) \/ Iterate(0) \/ PlanAgain)
  BY DEF Verified
<1>4. hist' \in History /\ (hist'.repeated => hist'.stale)
  BY <1>2, HistoryKept DEF Verified
<1>5. UNCHANGED <<callers, effects>> /\ v \in Verdicts
  BY <1>1 DEF Verdicts
<1>6. CASE SaveCurrent
  BY <1>1, <1>2, <1>4, <1>5, <1>6, SaveCurrentKeeps
<1>7. CASE checkpoint' = checkpoint /\ (EndLoop(v) \/ Iterate(0) \/ PlanAgain)
  <2>1. UNCHANGED <<callers, checkpoint, effects>>
    BY <1>1, <1>7
  <2> QED
    BY <1>1, <1>2, <1>4, <1>5, <1>7, <2>1, EndLoopKeeps, IterateKeeps, PlanAgainKeeps
<1> QED
  BY <1>3, <1>6, <1>7

(* Back in run(), nothing is left of the plan.                              *)
LEMMA PlanLooped == ASSUME PlanInv, Looped \/ Reflected PROVE PlanInv'
<1>1. /\ at \in {"looped", "reflecting"} /\ Quiet /\ UNCHANGED <<callers, checkpoint, effects>>
      /\ hist' = hist
  BY DEF Looped, Reflected, Quiet
<1>2. hist' \in History /\ (hist'.repeated => hist'.stale)
  BY <1>1, HistoryKept
<1>3. run \in Runs /\ run.iteration < run.limit
  BY <1>1 DEF PlanInv, TypeOK, IterationsLeft
<1>4. UNCHANGED <<callers, checkpoint, effects>> /\ interrupted' \in BOOLEAN /\ expired' \in BOOLEAN
  BY <1>1 DEF PlanInv, TypeOK, Quiet
<1>5. CASE at' = "begin" /\ run' = [NoRun EXCEPT !.retry = TRUE]
  <2>3. /\ run' \in Runs /\ run'.iteration = NoRun.iteration /\ run'.limit = NoRun.limit
        /\ run'.ok = {} /\ run'.prior = {} /\ ~run'.restore
    BY <1>5, NoRunType DEF Runs, Verdicts
  <2>1. run'.iteration < run'.limit /\ run'.iteration <= run'.limit
    BY <2>3, NoRunType, OrchestratorAssumption
  <2>2. at' \in Places /\ BeforePlan' /\ WithPlan'
    BY <1>5, <2>3 DEF Places, BeforePlan, WithPlan, Early, Late
  <2> QED
    BY <1>2, <1>4, <1>5, <2>1, <2>2, <2>3, KeptFrame
<1>6. CASE /\ at' \in {"leave", "reflecting", "final"}
           /\ run' = run \/ (run' = [run EXCEPT !.verdict = "interrupted"])
  <2>1. run' \in Runs /\ run'.iteration = run.iteration /\ run'.limit = run.limit
    BY <1>3, <1>6 DEF Runs, Verdicts
  <2>2. run'.iteration < run'.limit /\ run'.iteration <= run'.limit
    BY <1>3, <2>1 DEF Runs
  <2>3. at' \in Places /\ at' \notin Early \union Late
    BY <1>6 DEF Places, Early, Late
  <2> QED
    BY <1>2, <1>4, <2>1, <2>2, <2>3, Elsewhere, KeptFrame
<1> QED
  BY <1>5, <1>6 DEF Looped, Reflected, Go

LEMMA PlanFinal == ASSUME PlanInv, Final PROVE PlanInv'
<1>1. /\ at = "final" /\ at' = "leave" /\ Quiet /\ UNCHANGED <<callers, effects>> /\ hist' = hist
      /\ run' = run \/ (run' = [run EXCEPT !.verdict = "interrupted"])
      /\ checkpoint' \in {checkpoint, NoCheckpoint}
  BY DEF Final, Go, Quiet
<1>2. hist' \in History /\ (hist'.repeated => hist'.stale)
  BY <1>1, HistoryKept
<1>3. run \in Runs /\ run.iteration < run.limit
  BY <1>1 DEF PlanInv, TypeOK, IterationsLeft
<1>4. run' \in Runs /\ run'.iteration = run.iteration /\ run'.limit = run.limit
  BY <1>1, <1>3 DEF Runs, Verdicts
<1>5. run'.iteration < run'.limit /\ run'.iteration <= run'.limit
  BY <1>3, <1>4 DEF Runs
<1>6. at' \in Places /\ at' \notin Early \union Late
  BY <1>1 DEF Places, Early, Late
<1>7. /\ interrupted' \in BOOLEAN /\ expired' \in BOOLEAN
      /\ done' \in [Plans -> SUBSET Steps] /\ settled' \in [Plans -> SUBSET Steps]
      /\ checkpoint' \in Checkpoints \union {NoCheckpoint}
  BY <1>1 DEF PlanInv, TypeOK, Quiet, effects
<1>8. SavedIsSettled'
  BY <1>1 DEF PlanInv, SavedIsSettled, Saved, callers, effects
<1> QED
  BY <1>1, <1>2, <1>4, <1>5, <1>6, <1>7, <1>8, Elsewhere, PlanFrame

LEMMA PlanRaise == ASSUME PlanInv, Raise PROVE PlanInv'
<1>1. /\ at # "top" /\ Quiet /\ UNCHANGED <<callers, checkpoint, effects>> /\ hist' = hist
  BY DEF Raise, Quiet
<1>2. hist' \in History /\ (hist'.repeated => hist'.stale)
  BY <1>1, HistoryKept
<1>3. UNCHANGED <<callers, checkpoint, effects>> /\ interrupted' \in BOOLEAN /\ expired' \in BOOLEAN
  BY <1>1 DEF PlanInv, TypeOK, Quiet
<1>4. CASE Iterate(0)
  <2>1. 0 \in Nat /\ 0 <= run.limit
    BY DEF PlanInv, TypeOK, Runs
  <2> QED
    BY <1>1, <1>2, <1>3, <1>4, <2>1, IterateKeeps
<1>5. CASE at' = "leave" /\ run' = [NoRun EXCEPT !.verdict = "error"]
  <2>3. /\ run' \in Runs /\ run'.iteration = NoRun.iteration /\ run'.limit = NoRun.limit
        /\ run'.ok = {} /\ run'.prior = {} /\ ~run'.restore
    BY <1>5, NoRunType DEF Runs, Verdicts
  <2>1. run'.iteration < run'.limit /\ run'.iteration <= run'.limit
    BY <2>3, NoRunType, OrchestratorAssumption
  <2>2. at' \in Places /\ at' # "top" /\ at' \notin Early \union Late
    BY <1>5 DEF Places, Early, Late
  <2> QED
    BY <1>2, <1>3, <2>1, <2>2, <2>3, Elsewhere, KeptFrame
<1> QED
  BY <1>4, <1>5 DEF Raise, Go

LEMMA PlanInvNext == PlanInv /\ [Next]_vars => PlanInv'
<1> SUFFICES ASSUME PlanInv, [Next]_vars PROVE PlanInv'
  OBVIOUS
<1>1. CASE \E c \in Callers : Call(c) \/ Resume(c) \/ Acquire(c)
  BY <1>1, PlanCallers, PlanAcquire
<1>2. CASE Interrupt \/ Expire
  BY <1>2, PlanOutside
<1>3. CASE Clear \/ Start \/ Begin \/ RunCompiled
  BY <1>3, PlanClear, PlanBegin, PlanRunCompiled
<1>4. CASE Top \/ Plan \/ PlanFails \/ Invalid \/ Execute
  BY <1>4, PlanTop, PlanPlan, PlanInvalid, PlanExecute
<1>5. CASE CheckLayer \/ RunLayer \/ Executed \/ BeforeVerify \/ Verified
  BY <1>5, PlanCheckLayer, PlanRunLayer, PlanExecuted, PlanVerified
<1>6. CASE Looped \/ Reflected \/ Final \/ Raise \/ Leave
  BY <1>6, PlanLooped, PlanFinal, PlanRaise, PlanLeave
<1>7. CASE UNCHANGED vars
  <2>1. /\ UNCHANGED <<at, run, effects, checkpoint, callers>>
        /\ interrupted' = interrupted /\ expired' = expired /\ hist' = hist
    BY <1>7 DEF vars
  <2>2. /\ UNCHANGED <<at, run, effects, checkpoint>> /\ Saved' \subseteq Saved
        /\ call' \in [Callers -> {"idle", "waiting", "inside"}]
        /\ arg' \in [Callers -> Checkpoints \union {NoCheckpoint}]
        /\ interrupted' \in BOOLEAN /\ expired' \in BOOLEAN
    BY <2>1 DEF callers, Saved, PlanInv, TypeOK
  <2>3. hist' \in History /\ hist'.stale = hist.stale /\ hist'.repeated = hist.repeated
    BY <2>1, HistoryKept
  <2> QED
    BY <2>2, <2>3, OutsideKeeps
<1> QED
  BY <1>1, <1>2, <1>3, <1>4, <1>5, <1>6, <1>7 DEF Next, InRun

(* PlanInv, which relates the locals of a run and the saved checkpoints to  *)
(* what the steps of their plans really did, holds in every state.          *)
THEOREM PlanInvariant == Spec => []PlanInv
<1> QED
  BY PlanInvInit, PlanInvNext, PTL DEF Spec

(* NothingIsSkipped (TLC: agent_plans): a plan goes to verification         *)
(* only when each of its steps has succeeded, was skipped or may fail, over *)
(* all the runs, interruptions and checkpoints that led there.              *)
THEOREM AllIsSettled == Spec => []NothingIsSkipped
<1>1. PlanInv => NothingIsSkipped
  BY DEF PlanInv, WithPlan, NothingIsSkipped, Late
<1> QED
  BY <1>1, PlanInvariant, PTL

(* ResumeRepeatsNothing (TLC: agent_plans): a step that succeeded           *)
(* runs again only in a run whose checkpoint was out of date when it was    *)
(* resumed.                                                                 *)
THEOREM OnlyStaleRepeats == Spec => []ResumeRepeatsNothing
<1>1. PlanInv => ResumeRepeatsNothing
  BY DEF PlanInv
<1> QED
  BY <1>1, PlanInvariant, PTL

(* Where a checkpoint is saved, what it misses of its plan was cut off.     *)
LEMMA SavesWhatIsKept ==
  ASSUME PlanInv, [Next]_vars, NewCheckpoint
  PROVE  \A s \in done'[checkpoint'.plan] \ checkpoint'.ok :
           \E t \in checkpoint'.tried \ checkpoint'.ok : LayerOf[t] = LayerOf[s] /\ t < s
<1>1. CASE Top
  <2>1. run.restore /\ Save(run.plan, run.prior, run.prior) /\ at = "top" /\ UNCHANGED done
    BY <1>1 DEF Top, Save, effects, NewCheckpoint
  <2>2. done[run.plan] \subseteq run.prior
    BY <2>1 DEF PlanInv, BeforePlan, Early, NewCheckpoint
  <2> QED
    BY <2>1, <2>2 DEF Save
<1>2. CASE Execute
  <2>1. Save(run.plan, run.prior, run.prior) /\ at = "planned" /\ UNCHANGED done
    BY <1>2 DEF Execute, effects, NewCheckpoint
  <2>2. done[run.plan] \subseteq run.prior
    BY <2>1 DEF PlanInv, WithPlan, Late, NewCheckpoint
  <2> QED
    BY <2>1, <2>2 DEF Save
<1>3. CASE Executed \/ BeforeVerify \/ Verified
  <2>1. SaveCurrent /\ at \in {"executed", "verify", "verifying"} /\ UNCHANGED done
    BY <1>3 DEF Executed, BeforeVerify, Verified, effects, NewCheckpoint
  <2>2. CutOff(run.plan, run.prior \union run.ok, run.prior \union run.tried)
    BY <2>1 DEF PlanInv, WithPlan, Late, NewCheckpoint
  <2>3. /\ checkpoint'.plan = run.plan /\ checkpoint'.ok = run.prior \union run.ok
        /\ checkpoint'.tried = run.prior \union run.tried
    BY <2>1 DEF SaveCurrent, Save, CurrentResults
  <2> QED
    BY <2>1, <2>2, <2>3 DEF CutOff
<1>4. ASSUME ~Top, ~Execute, ~(Executed \/ BeforeVerify \/ Verified)
      PROVE  FALSE
  <2>1. checkpoint' \in {checkpoint, NoCheckpoint}
    BY <1>4
    DEF Next, InRun, vars, Call, Resume, Acquire, Interrupt, Expire, Clear, Start, Begin,
        RunCompiled, Plan, PlanFails, Invalid, CheckLayer, RunLayer, Looped, Reflected,
        Final, Raise, Leave
  <2> QED
    BY <2>1 DEF NewCheckpoint
<1> QED
  BY <1>1, <1>2, <1>3, <1>4

(* CheckpointKeepsSuccesses (TLC: agent_plans): an interrupted run          *)
(* saves each success of the plan it works on, those of the run it was      *)
(* resumed from included, but for those of one layer that an earlier member *)
(* of it has cut off by failing.                                            *)
THEOREM SavedSuccesses == Spec => CheckpointKeepsSuccesses
<1>1. PlanInv /\ [Next]_vars =>
        [NewCheckpoint =>
           \A s \in done'[checkpoint'.plan] \ checkpoint'.ok :
             \E t \in checkpoint'.tried \ checkpoint'.ok :
               LayerOf[t] = LayerOf[s] /\ t < s]_vars
  BY SavesWhatIsKept
<1> QED
  BY <1>1, PlanInvariant, PTL DEF Spec, CheckpointKeepsSuccesses

-----------------------------------------------------------------------------
(* PlanGraph, whose theorems hold of the instance as well.                  *)

GP == INSTANCE PlanGraphProofs

LEMMA GraphSpec == Parts => GP!Spec
<1>1. Begins => GP!Init
  BY DEF Begins, G!Init, GP!Init, G!Ids, GP!Ids, G!DependsOn, GP!DependsOn, G!Clash, GP!Clash, G!Conflict,
         GP!Conflict, G!Touch, GP!Touch, G!Uses, GP!Uses
<1>2. G!Next => GP!Next
  <2>1. \A S : G!Cardinality(S) = GP!Cardinality(S)
    BY DEF G!Cardinality, GP!Cardinality
  <2>2. \A x, S : G!Rank(x, S) = GP!Rank(x, S)
    BY <2>1 DEF G!Rank, GP!Rank
  <2>3. \A S : G!OneByOne(S) = GP!OneByOne(S)
    BY <2>1, <2>2 DEF G!OneByOne, GP!OneByOne
  <2>4. \A S : G!Split(S) = GP!Split(S)
    BY <2>1, <2>3 DEF G!Split, GP!Split, G!OnDesktop, GP!OnDesktop, G!Uses, GP!Uses
  <2>5. (G!Round \/ G!Sequential \/ G!Ranked) => (GP!Round \/ GP!Sequential \/ GP!Ranked)
    BY <2>2 DEF
       G!Ids, GP!Ids, G!Remaining, GP!Remaining, G!Ready,
       GP!Ready, G!Executing, GP!Executing, G!Round, GP!Round, G!Offset,
       GP!Offset, G!Sequential, GP!Sequential, G!Ranked, GP!Ranked
  <2>6. (G!Gather \/ G!Ordered) => (GP!Gather \/ GP!Ordered)
    BY <2>4 DEF
       G!Ids, GP!Ids, G!Uses, GP!Uses, G!Planning, GP!Planning,
       G!Gather, GP!Gather, G!Ordered, GP!Ordered
  <2>7. (G!AddLayer \/ G!Layered) => (GP!AddLayer \/ GP!Layered)
    BY <2>3 DEF
       G!Ids, GP!Ids, G!Uses, GP!Uses, G!Related, GP!Related, G!Graph, GP!Graph,
       G!LayerReady, GP!LayerReady, G!AddLayer, GP!AddLayer, G!Layered, GP!Layered, G!Planning, GP!Planning
  <2>8. (G!RunLayer \/ G!Finish \/ G!Resume) => (GP!RunLayer \/ GP!Finish \/ GP!Resume)
    BY DEF G!Ids, GP!Ids, G!RunLayer, GP!RunLayer, G!Finish, GP!Finish, G!Resume,
       GP!Resume
  <2> QED
    BY <2>5, <2>6, <2>7, <2>8 DEF G!Next, GP!Next
<1>3. [Moved /\ UNCHANGED part]_<<part, vars, graph>> => [GP!Next]_GP!vars
  BY <1>2 DEF Moved, graph, GP!vars
<1> QED
  BY <1>1, <1>3, PTL DEF Parts, GP!Spec

(* NeverTogether (TLC: agent_plans): steps that may disturb each other are  *)
(* never in one layer, whose steps _execute_parallel_group runs on threads  *)
(* of their own; for plans of every size and every overlap of resources.    *)
THEOREM NeverDisturbed == Parts => []NeverTogether
<1>1. GP!TypeOK /\ GP!NeverTogether => NeverTogether
  BY DEF G!Ids, GP!Ids, G!Kind, GP!Kind, NeverTogether, G!NeverTogether,
         GP!NeverTogether, G!Independent, GP!Independent,
         G!TypeOK, GP!TypeOK, G!OnDesktop, GP!OnDesktop, G!Uses, GP!Uses, G!Clash, GP!Clash,
         G!Conflict, GP!Conflict, G!Touch, GP!Touch, G!Related, GP!Related
<1>2. GP!Spec => []GP!TypeOK
  BY GP!TypeCorrect, PlanAssumption DEF Kind, GP!Kind
<1>3. GP!Spec => []GP!NeverTogether
  BY GP!Independence, PlanAssumption DEF Kind, GP!Kind
<1> QED
  BY <1>1, <1>2, <1>3, GraphSpec, PTL

LEMMA SameNeeds ==
  /\ G!Backward <=> GP!Backward
  /\ G!NextHasItsNeeds <=> GP!NextHasItsNeeds
  BY DEF G!Ids, GP!Ids, G!Backward, GP!Backward, G!NextHasItsNeeds, GP!NextHasItsNeeds, G!Needs, GP!Needs,
         G!Conflict, GP!Conflict, G!Touch, GP!Touch, G!Uses, GP!Uses

(* NeedsComeFirst (TLC: agent_plans): the layers of _group_by_dependency    *)
(* follow the first step of each group, and still a step begins after the   *)
(* earlier steps it needs.                                                  *)
THEOREM NeedsPrecede == Parts => []NeedsComeFirst
<1>1. GP!NeedsComeFirst => NeedsComeFirst
  BY SameNeeds DEF NeedsComeFirst, G!NeedsComeFirst, GP!NeedsComeFirst
<1>2. GP!Spec => []GP!NeedsComeFirst
  BY GP!Precedence, PlanAssumption DEF Kind, GP!Kind
<1> QED
  BY <1>1, <1>2, GraphSpec, PTL

(* AllStepsRun (TLC: agent_plans): a plan that counts as executed has run   *)
(* or passed over each of its steps.                                        *)
THEOREM NoneLeftOut == Parts => []AllStepsRun
<1>1. GP!AllStepsRun => AllStepsRun
  BY SameNeeds DEF AllStepsRun, G!AllStepsRun, GP!AllStepsRun, G!Ids, GP!Ids
<1>2. GP!Spec => []GP!AllStepsRun
  BY GP!NoStepIsLost, PlanAssumption DEF Kind, GP!Kind
<1> QED
  BY <1>1, <1>2, GraphSpec, PTL
=============================================================================

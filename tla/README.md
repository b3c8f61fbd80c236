# Ari voice assistant: TLA+ models, model checking and proofs

Ari is a desktop voice assistant in Python (`src/VoiceCommand`). Its logic is
spread over threads that share queues, flags, locks and files: a voice thread
listens, a command thread executes, a TTS thread speaks, a ticker runs scheduled
tasks, an agent plans and executes, timers ring, and the Qt GUI thread interrupts
all of them. This directory models that concurrent core in TLA+, checks the models
with TLC and proves theorems about them with TLAPS.

## 1. Inventory

`PROJECT.json` lists every component with its sources and status. The ones that
carry the program's own control logic:

| component | state | operations | talks to | what is hard | what makes it correct |
|---|---|---|---|---|---|
| voice recognition thread (`core/threads.py`) | pending and active activation, microphone, set-up flag, wake-up events | `request_listening` `release_listening` `set_microphone` `refresh_voice_settings` `stop`, retry loop | hotkey, UI, speech output | wake-ups lost between clear and wait; microphone failures | the thread sleeps through nothing; an activation is taken; a released key holds nothing open |
| a request to the assistant (`commands/ai_command.py`) | execution lock, current cancel event, the speech channel of command, executor and orchestrator | `execute` `run_interaction` `cancel_current_response`, instant acknowledgement | voice, text window, orchestrator, speech output | the channel is replaced while others read it | the channel is given back; cancelling hits the request that runs |
| speech output (`core/threads.py` `TTSThread`, `core/VoiceCommand.py`) | bounded queue, batch in work, its stop event, `is_processing`, playback-finished event | `speak` `clear` `stop`, `stop_speaking`, `is_tts_playing`, batch loop | everyone who speaks; the voice thread waits for it | interruption while a batch is collected; who announces silence; unlocked reads | an interruption hits exactly what was asked before it; silence is announced |
| CosyVoice (`tts/cosyvoice_tts.py`) | worker process, its pipes, the active request, drain and restart flags | `speak` `stop`, pipe reader, drain thread | speech output, worker process | audio and status lines carry no request; a stopped request leaves the worker running | a request reads its own audio only |
| agent task queue (`agent/task_queue.py`) | priority queue; tables pending, running, results; shutdown event | `submit` `cancel` `cancel_current` `status` `shutdown`, worker loop | Telegram bridge | a task between queue and table; cancellation in that gap; shutdown with queued work; bounded results | every live task can be cancelled, none is lost, none starts after cancellation, results are final, workers end |
| agent orchestrator (`agent/agent_orchestrator.py`) | run lock, interrupt event, children, checkpoint | `run` `interrupt` `resume` `spawn_subagent` | executor, planner, verifier, UI | interruption at any point; subagents that time out; what is resumed | an interrupted run never reports success, no step succeeds twice, children stop |
| DAG builder and execution engine (`agent/dag_builder.py`, `agent/execution_engine.py`) | dependencies, groups, layers; tries and outcome of each step | `build_dag` `assign_parallel_groups` `_group_by_dependency` `execute_plan`, retry and recovery | planner, orchestrator, executor | two ways to layer a plan; resumed plans; interruption between two tries | what disturbs each other never runs together; needs come first; no step is lost |
| autonomous executor (`agent/autonomous_executor.py`) | slots, running processes | `run_python` `run_shell` `cancel_running_processes` | execution engine, confirmation | a process that starts while the running ones are killed | at most one more process per step; every step ends |
| proactive scheduler (`agent/proactive_scheduler.py`) | table of tasks, JSON file, activity flags | `schedule` `ensure_task` `cancel` `toggle_task` `run_task_now`, ticker, startup check, execution threads | orchestrator, speech, panel UI | crash between claim and execution; two claimers; late results of cancelled tasks; failed writes | an occurrence is claimed once; nothing overdue stays behind; cancelled stays cancelled; the file is current |
| event speech (`agent/speech_scheduler.py`) | pending events, last deliveries, daily count, ignored streak, state file | `request` `tick` | orchestrator, scheduler, speech output | midnight, restarts, the callback without the lock | limits and cooldowns hold |
| confirmation (`agent/confirmation_manager.py`) | per-call holder, nested modal dialogs | `request_confirmation` | command thread, GUI thread | 20 s wait against a queued 15 s dialog | consent is never invented and never another question's |
| timers (`services/timer_manager.py`) | named timers with order numbers | `set_timer` `cancel_timer`, alarms | speech output | an alarm that fires while it is replaced | a replaced or cancelled timer is silent, any other rings |
| skills (`agent/skill_installer.py`, `agent/skill_manager.py`) | skill folders, backups, journal | `install` `update`, recovery at start and on a language change | settings UI | failure or crash between any two folder operations; a recovery beside an update | the skills of a source are replaced together or not at all |

The remaining components (other providers, LLM access, memory stores, plugins,
settings, UI, installers, the market service) are listed in `PROJECT.json` with the
reason they are left out: stateless or single-threaded I/O, text processing, numeric
classification, or a service outside the program.

"hazards" in `PROJECT.json` names what is hard to test, at its line, with the
properties that cover it.

## 2. Modules

| module | models | composes |
|---|---|---|
| `VoiceActivation` | the voice recognition thread and the calls of the GUI thread on it | |
| `AssistantTurn` | requests by voice and text in `AICommand` | |
| `SpeechTexts` | what is said, and how much may wait: the constants of `SpeechQueue` | |
| `SpeechQueue` | `TTSThread`, its speakers, the interrupting GUI thread and the waiting voice thread | extends `SpeechTexts` |
| `CosyVoice` | the CosyVoice provider and its worker process | |
| `TaskLifecycle` | abstract: the life of a task as `status()` shows it | |
| `AgentTaskQueue` | `agent/task_queue.py` | implements `TaskLifecycle` |
| `AgentOrchestrator` | `run()`, `interrupt()`, `resume()` of the agent with `execute_plan` | |
| `Subagents` | `spawn_subagent()`: the pool, time limits, interruption of children | reduces a child's run to steps and safe points |
| `PlanSteps` | what the steps of a plan refer to, read, write and show: the constants of `PlanGraph` | |
| `PlanGraph` | dependencies, groups and layers of a plan, its execution and resumption | extends `PlanSteps` |
| `StepExecution` | the steps of one layer: tries, slots, processes, interruption | a step of `PlanGraph`'s layers in detail |
| `ProactiveScheduler` | the scheduler, its file and restarts | |
| `EventSpeech` | remarks on events, their limits and file | |
| `Confirmation` | `request_confirmation` and its dialogs | |
| `Timers` | named timers | |
| `SkillStore` | abstract: what an update of skills promises | |
| `SkillUpdate` | installation, update, roll-back and recovery | implements `SkillStore` |
| `...Proofs` | theorems about the module of that name, see section 5; `VoiceProofs` also about `AssistantTurn` and `CosyVoice`, `AgentTaskQueueProofs` about `StepExecution`, `SmallPartsProofs` about what `MCSmallParts` puts side by side, `AgentOrchestratorProofs` also about what `MCAgentPlans` does, `SchedulerProofs` about `ProactiveScheduler` | extend it |
| `MC...` | small instances for TLC, see section 3 | extend and instantiate |

### AgentTaskQueue

One action per critical section. `Submit`, `Cancel`, `CancelCurrent`, `Shutdown`
are the sections of the public methods under `_lock`; `PutSentinel` is one turn of
the loop with which `shutdown()` wakes its workers after it released the lock.
A worker is at `loop` (the while condition, `CheckShutdown`), `get` (blocked in
`queue.get`; `Get`, `GetTimeout`), `took` (it holds an entry that is in no queue
and not yet under the lock), `run` (the runner executes), `store` (the outcome is
fixed, the lock is not yet taken) or `exited`. The section at the head of
`_run_task` has three ways out: `SkipTask`, `DropCancelled`, `StartTask`.
A task is the *object* `submit` creates and `IdOf` its `task_id`: the default is a
fresh uuid4 (`UniqueIds`), an explicit id may repeat. The run has fresh ids; the theorems that do
not assume `UniqueIds` cover both.
`queue.get` returns the smallest `(priority, counter)`; `itertools.count` gives
every entry its own counter, so the comparison never reaches the task.
Time stamps, the goal text and the runner's value are left out.

`LifeOf` reads the tables in the order of `status()`. Under that mapping every
step is a step of `TaskLifecycle` or a stutter: in particular a task goes from
pending through running to exactly one terminal state, is signalled only while
alive, and never starts once signalled.

### SpeechQueue

The TTS thread takes a request and creates a stop event for it (`Take`, under
`_batch_lock`), sets `is_processing` (`MarkProcessing`, no lock), collects adjacent
requests (`Collect`, `CollectEnds`), decides whether to speak (`Decide`), enters the
provider (`Speak`, `EndPlayback`), settles the batch (`Settle`) and looks whether it
should announce silence (`CheckSilent`, `AnnounceSilent`). Reads of the queue and of
`is_processing` by `is_tts_playing()` take no lock and are two steps wherever it is
called. `stop_speaking()` is the chain `Interrupt`, `WasPlaying`, `ClearSpeech`,
`InterruptProvider`, `NowSilent`, `AnnounceInterrupted` of the GUI thread, on which
all its callers run (tray, hotkey, character, text box); `stop()` is `Halt` to
`HaltPut`. `Say` is `speak()` on any thread, `SayRefused` the rest of `tts_wrapper`
when it was refused. All providers of the repository return once the stop event is
set, so playing is one phase (`play`) that may end at any time.

Left out: blank texts (callers never pass them), the bubble, the resume guard's
clock, cached filler phrases, and an exception outside the list of
`text_to_speech` (listed as a hazard).

`provider.stop()` is called after `clear()` and stops whatever the provider then
plays, a newer batch included. The module counts that batch among what was
interrupted (`doomed`), which is what the user hears.

### ProactiveScheduler

A task is its due time, period, exception dates and the flags `enabled`,
`completed`; ids are given out in order, which is the order of the dict. A section
under `_lock` includes the write of the file: `write_json_atomic` writes a
temporary file and replaces, so the file is the old or the new table. A write may
fail, which `_save` logs and forgets; `reliable` is chosen initially and says whether
the behaviour is one in which none does, which is what `CancelIsFinal` and
`FileIsCurrent` are about. `Legacy` has the files that the first start may find.
`ClaimDueTasks` is
`_claim_due_tasks` as called by the ticker (`CheckDueTasks`) and at startup
(`CheckMissedTasks`), both under the activity lock; every claim becomes an execution
thread, which ends in `Finalize`. `StopProgram` keeps the file and the clock only;
`Start` loads the file. Calendar rules are abstracted to a period and a set of
exception dates; every tick is a date of its own.

### AgentOrchestrator

`call` says what each caller of `run()` or `resume()` does; `at` is where the one
that holds `_run_lock` is (`free` when nobody does), and `run` holds its local
variables. `Acquire` is the non-blocking acquire, `Clear` the reset of the event,
which is a step of its own because an interruption can come in between. The loop is
`Top`, `Plan` (or `PlanFails`), `Invalid` (prevalidation), `Execute`, `Executed`,
`BeforeVerify`, `Verified`: one action from each look at the event to the next, or
to an answer from outside. `Begin` and `RunCompiled` are the skills, which share
`CheckLayer`, `RunLayer` and verification with the loop; `Looped`, `Reflected` and
`Final` are the rest of `run()`, `Raise` an exception that leaves it. `execute_plan`
is `CheckLayer` and `RunLayer`; a layer runs as one step whose outcomes are free
per step (`Kept` says which results survive an aborting failure).

A checkpoint keeps the plan, the iteration and of the results of the plan which
steps were tried and which succeeded. Every plan has the steps `Steps` in the layers
`LayerOf`; which of them is next follows from the steps that are still open. A plan is
an identity, free for a new plan once nothing refers to it: a caller that brings a
checkpoint or `_last_checkpoint` itself. When none is free the planner
fails, as it may at any time. Progress events, contexts, learning records and what
the planner is told are left out; so is the derivation of layers from dependencies.

`done` and `settled` remember per plan what has succeeded and what needs no further
run, over all runs that have worked on it; `hist` remembers of the run in progress
when it was interrupted, how many layers began since, and whether it did something
twice. No guard reads them, except that identities are forgotten when they are free.

### Subagents

A job is one call of `spawn_subagent()`. Its caller (`Submit`, then `Return`, or
`TimeOut`, `CancelFuture`, `StopChild`), the pool thread that runs it (`TakeJob`,
`Register`, `CheckParent`, `SafePoint`, `StepEnds`, `Unregister`), and the parent
(`Interrupt`, `CopyChildren`, `Deliver`; `ParentRuns` clears the event) interleave
at every one of these steps. The child's run is `AgentOrchestrator`'s, reduced to
steps with a safe point before each. Both the caller's `child_event.set()` and the
interrupt of the started child set the same event and are one step.

### VoiceActivation

The thread is a loop with a program counter: `Branch` and `OpenMicrophone` at its
head; `WaitForMicrophone`, `WaitForActivation`, `WaitAfterFailure` are its waits, on
`_microphone_wakeup` with a time limit and on `_voice_wakeup` without; `Probe`,
`Prepare` and `Repair` set the device and the recognizer up; `Wake`, `AfterWake`,
`Greet`, `Greeted`, `EndWake` follow a wake word, `TakeActivation`, `CheckManual`,
`Listen`, `EndManual` an activation by key or click. Between two of these any call
of the GUI thread may come: `AskToListen` is the look at the flags without a lock and
`RequestListening` what is done under the lock afterwards; `ReleaseListening` is the
hotkey's key going up; `SaveSettings` and `RefreshSettings` the settings dialog;
`Stop` and `StopWakes` the two halves of `stop()`. Audio devices and recognizers are
choices between success and failure. The setting `wakeWord` is read where the code
reads it.

### AssistantTurn

A request by voice takes `tts_wrapper` as its channel when it is asked (`Ask`), a
typed one a list of its own. It is refused (`Busy`), or takes the lock, registers its
cancel event, replaces the channel of command, executor and orchestrator (`Swap`),
answers (`FastPath`, `Respond`, `Say`, `RunTool`, `ToolsDone`, `Error`) and undoes all
of it in the order of the `finally` (`Restore`, `Unregister`, `Unlock`). Interruption
and resumption by voice (`Interrupt`, `Resume`) take no lock. `Through` follows the
chain of channels to the speaker or the text window; `heard` keeps the last message
that arrived anywhere, and where.

### CosyVoice

One speaker at a time (`_speak_lock`), the worker process, a reader thread for each
request, a thread that drains, the thread that reads stderr (`ReadLine`, from the pipe
into `_ctrl_q`), and `stop()` or the caller's stop event from anywhere (`Stop`,
`SetStopEvent`). Pipes are sequences that are lost with the worker. The `finally` clause
of a request is in steps, because `stop()` may come between any two: `Cancelled` and
`NotCancelled` are its look at the stop event, `Abort` is `_abort_request`, which kills
the worker if the request is still the active one (`AbortActive`) and otherwise does
nothing (`AbortOvertaken`). `taken` is the latest thing that was read, with whom it was
read for; `spared` says that an overtaken abort has left a worker alive with output to
come. Frames are read whole, and the reader threads of a worker that was replaced
are gone with its pipes.

### PlanGraph and StepExecution

`PlanGraph` is the algorithm in steps. For a plan of the planner `DependsOn` is
`build_dag` and `Round`, `Sequential`, `Ranked` the loop of
`assign_parallel_groups`; `Gather` is one group of `_group_by_dependency`. A skill's
plan has no groups: `Graph` and `AddLayer`, `Layered` are the second half of
`_group_by_dependency`. `RunLayer` runs a layer as one step with free outcomes, and
`Resume` is what the orchestrator does with the steps that have not succeeded. What
a step's text refers to, reads, writes and shows is free (`Kinds`), because it comes
from text; that files inside one another overlap is the relation `Overlap`.

`StepExecution` is one layer from inside. Every step has a thread: `Begin`, `Try`,
`RunStep` of the engine, `TakeSlot`, `Check`, `Answer`, `Spawn`, `Register`,
`Awaited` of the executor, and `Ended`, `Contended`, `Fixed`, `Finish` on the way
back. `Interrupt`, `List` and `Kill` are `interrupt()` with
`cancel_running_processes`; a process that is not yet registered is missed.

### EventSpeech, Confirmation, Timers

`EventSpeech` counts time in units of which a few make a day. `Select` is the part of
`_flush_one` under the lock; in the callback the user hears the remark (`Speak`) or not;
`Deliver` and `NotSpoken` are what follows it: it returns, it raises something that
`_flush_one` catches, or something else, which leaves `_dispatching` set for good (stage
`stuck`). `Judge` is the streak of ignored remarks. `Restart` may come at any point, also
between the callback and the save, and loads the file; `unfinished` has the remarks
that were heard and never told. In
`Confirmation` dialogs nest as `exec()` does: the user reaches the innermost, the
countdowns of all go on (`Refuse`), and the callers may give up at any time before
(`GiveUp`). In `Timers` a `threading.Timer` is past its wait (`Fire`) before it looks
into the table (`Alarm`), so that cancelling may come in between.

### SkillUpdate

Every folder operation of `update()` is a step: another step, a failure or a crash
may come between two. `Recorded` and `Record` write the journal, `Move` and `Copy`
replace a folder, `WriteMetadata`, `ClearJournal` (the commit) and `Purge` end the
update; `RollBack...` undo it, and after `Crash` and `Start` `Recover...` repair what
the journal names. A `SkillManager` is also created anew while the program runs
(`Reload`: a language change resets it, `skill_manager.py:711`), whatever the install
thread is doing; then the `Recover...` steps and those of the update interleave. An update
or an installation does not begin while a manager is created, because the dialog asks for
the manager first. `Effective` is what the user is left with if the program stopped
now and recovered; under that mapping every step is a step of `SkillStore` or a
stutter. `disturbed` says that a recovery and the install thread have been at work at
the same time; then `SkillStore` lets the skills in work (`InWork`) end as anything
(`Disturb`), and still leaves every other skill alone.

### History variables

`gone`, `claimed`, `executed`, `lost`, `accepted`, `doomed`, `announced`, `done`,
`settled`, `hist`, `heard`, `unfinished`, `taken`, `spared`, `disturbed`, `called` and
`after` only remember what happened. No action's guard reads them, except where
`AgentOrchestrator` forgets plan identities that are free, and for the bound on remarks
gone wrong (`MayGoWrong` reads `unfinished`).

## 3. Runs

| run | what it checks | bounds | result |
|---|---|---|---|
| `task_queue` | *queue:* a live task is what its id leads to; nothing starts after a cancelling shutdown; one place per task; `TaskLifecycle` is implemented; every task settles or the queue is shut down; workers exit. *agent:* every call returns. *steps:* an interrupted step starts at most one more process; every step ends. No deadlock | 2 tasks, 2 priorities, 2 workers, 1 result, 1 shutdown; 1 caller, 2 layers, 2 iterations; 2 steps, 1 slot, 2 retries | holds |
| `scheduler` | an occurrence is claimed once; nothing overdue remains after a check; cancelled stays cancelled; the file is current; armed tasks are claimed | writes fail: 1 task, 4 instants, 1 manual run, 2 restarts; writes succeed: a file with 2 tasks, limit 1, 3 ids, 3 instants, 1 restart; 1 exception date | holds |
| `agent_plans` | *agent:* an interruption that was not too early is obeyed; at most one layer begins after it; nothing failed is taken as done; nothing is repeated unless the checkpoint is out of date; checkpoints keep every success that an aborting member of its layer did not cut off. *plan:* steps that disturb each other never run together; needs come first; no step is lost. No deadlock | 2 callers, 3 steps in the layers {1, 2} and {3}, 2 iterations, 1 plan; all plans of 4 steps of 7 kinds | holds |
| `voice` | *in:* the thread sleeps through nothing; a key that is up holds nothing open; nobody stays registered as listening; activations are taken. *out:* what is read for a request, and what is in the buffer, is the request's own. *turn:* the channel is given back; cancelling hits the request that runs | 2 holders of push-to-talk; 3 requests, 1 chunk, 2 restarts; 2 voice requests, 1 typed, 1 tool call | holds |
| `small_parts` | *speech:* exact interruption; silence after `stop()`; the end of playback is announced; the thread ends. *subagents:* an interruption reaches every child, a time limit stops its own child, in the end every job is run or cancelled. *timers:* a timer rings unless it was called off. *confirmation:* an answer is its own question's. *events:* limits and cooldowns, whatever stops or fails. *skills:* `SkillStore` is implemented, with recoveries beside updates | 3 requests, queue of 2; 2 jobs, 1 thread; 3 names, 2 timers at a time, 4 in all; 3 calls, 2 nested dialogs; 2 events, 4 units a day, 5 instants, 1 remark gone wrong; 2 skills | holds |
| `speech_reply` | the docstrings of `is_tts_playing` and of the wait for the reply | 3 requests, queue of 2 | **violated** (finding) |
| `orchestrator_repeats` | the docstring of `resume`, after a resumed run that ends outside its loop | 1 caller, 1 plan, 2 layers | **violated** (finding) |
| `orchestrator_layer` | the docstring of `resume`, after a layer that was cut off | 1 caller, 1 plan, 1 layer of 2 steps | **violated** (finding) |
| `voice_stopped` | the comment in CosyVoice's `stop` on what is left in the worker | 2 requests, 1 chunk, 1 restart | **violated** (finding) |
| `skill_reload` | the comment of `SkillManager.__init__` on updates in progress | 2 skills | **violated** (finding) |
| `turn_reply` | the docstring of `run_interaction` | 2 voice requests, 1 typed | **violated** (finding) |
| `plan_resume` | the planner's prompt on outputs of earlier steps | 4 steps | **violated** (finding) |

Runs side by side. `task_queue`, `voice`, `small_parts` and `agent_plans` check components
that share no state, `scheduler` two instances of one module: a variable chosen initially
(`part`, `reliable`) says which moves, and the others stand still in their initial
state (in `scheduler` it says which bounds apply). The state spaces add up and do not
multiply; each is exactly that of the component alone. The MC module names the
properties of the components it instantiates. A property of a component holds trivially
where another one moves; the mutants of `PROJECT.json` show for each that it is violated
by a change of its own component.

Why the bounds are enough. The task queue's conflicts are between two tasks in two
workers and one caller; two tasks make the result table (1) overflow and give the
priority order something to reorder, and the theorems of section 5 cover every number.
Two steps on one slot are one that holds it through its tries and one that waits. The
speech queue needs one batch in work, one request that joins it and one that comes after
the interruption: three requests; a queue of two is full with two. The scheduler needs
one task that fills the table, one more from an older file and one to be refused or to
take a place, and three instants so that a repeating task misses one occurrence and is
claimed at the next. The orchestrator needs one step that is done and one that is not
when it is interrupted (two layers), two steps side by side of which one cuts off the
other, and one more iteration to plan again: two iterations are the code's own minimum.
A second caller matters where it holds a checkpoint (`resume`) while another one runs;
for liveness one is enough, because a refused call returns at once. Two jobs on one
thread compete for it; what holds between children that run side by side is proved.
CosyVoice needs a stopped request, one that drains or restarts after it, and one more; a
chunk and the end mark can be in the pipe together. The voice thread is proved for every
set of holders; two distinguish the hotkey's release from a click and from the
character's. Three dialogs nest as deep as a caller below, the one that gives up, and
one above. Two events have each rule (beside another window only; once a day) and
cooldowns of one and two units; a day of four units has room for the limit of three, and
the fifth instant is the next day. Two skills are one that is done and one that fails.
Four steps give a group of two before and after another, which is what the order of
groups and a resumption can get wrong; the theorems cover every size. Bounds are
constants named in the modules; everything else is finite by itself.

Symmetry is used only in runs without liveness: callers, plans, and texts other than
the wake reply.

`CHECK_DEADLOCK FALSE` is set where the system may rest: after `stop()` and the last
request, at the end of the clock, of the ids, of the plan or of all jobs. In
`task_queue` and `agent_plans` deadlock is checked; steps and plans, whose end is no
deadlock, stutter there (`AllEnded`, `PlanEnded`).

Fairness. Threads of the program are scheduled by the operating system, so a
thread that can take a step eventually does: weak fairness of each worker, of the
TTS thread, of a GUI call that has begun (the second half of `request_listening`,
`refresh_voice_settings` and `stop`), of the voice thread, of the ticker and of
execution threads. It includes that runners and providers return; neither the queue
nor the TTS thread has a time limit of its own, and without that assumption nothing
after a hung call holds. In the orchestrator a run that can go on does: planner,
executor and verifier have time limits of their own. In `Subagents` threads are fair,
steps end, and the time limit of a waiting caller passes. In `StepExecution` each
thread is strongly fair because it competes for a semaphore that wakes a waiter when
it is given back, and the confirmation answers, which its time limit guarantees.
Callers, users and the clock owe nothing.

## 4. Findings

1. `speech_reply`: between `queue.get` and `is_processing = True` the request that
   was just taken is invisible to `is_tts_playing()`; the voice thread may start to
   listen before its own "yes?" is spoken.
2. `orchestrator_repeats`: a resumed run that is interrupted after its loop (during
   reflection) keeps the checkpoint it came from; the next `resume()` repeats steps
   that have succeeded.
3. `turn_reply`: a voice command asked while a typed request runs speaks through that
   request's channel, and what it says becomes part of the reply in the text window.
4. `plan_resume`: groups run in the order of their first remaining step, so that a
   resumed plan may run a step before the one whose output it refers to.
5. `orchestrator_layer`: when a step of a parallel group fails and aborts the plan, the
   results of the group's later steps are dropped (`execution_engine.py:221`); an
   interruption just then saves a checkpoint without their successes, and `resume()`
   runs them again.
6. `voice_stopped`: a `stop()` between CosyVoice's look at the stop event
   (`cosyvoice_tts.py:703`) and `_abort_request` (`:365`) leaves the worker neither killed
   nor drained, and the next request reads what the stopped one has left.
7. `skill_reload`: a language change makes another thread create a `SkillManager` while an
   update runs; its recovery takes the update's journal for one of the past, and moves
   back the backups.

Three properties of the passing runs stop short of these findings, and say where:
`CheckpointKeepsSuccesses` lets a checkpoint lose a success only if an earlier step of
the same layer was tried and has not succeeded; `OutputIsItsOwn` claims nothing of a
worker that was spared, until it is replaced; `ImplementsStore` lets a disturbed
update and its recovery change the skills they work on, and no other. The model has the
behaviour in all three cases, so each is checked and proved with it.

Limits of the properties, and behaviour worth knowing that no run claims:

* `LiveTasksAreCancellable` needs ids that do not repeat: an explicit `task_id` given
  twice hides a waiting task from `cancel()` and `shutdown()` (`task_queue.py:91`). No
  caller passes one today. What survives repeated ids is proved (section 5).
* `InterruptionIsObeyed` counts interruptions from `Clear` on: `run()` clears the event
  after it took the lock, and forgets an interruption in between
  (`agent_orchestrator.py:244`).
* An interruption while nothing is in progress stays set until the next `run()`, and
  stops every subagent delegated before that (`agent_orchestrator.py:187`).
* What the loop promises for results that cannot be verified (not to run again,
  `agent_orchestrator.py:626`) does not hold for skills, compiled or not: they are given
  up for the loop (`Verified`).
* A skill's steps that refer to themselves or to later steps may be in no layer: they are
  left out and the plan counts as executed (`execution_engine.py:731`); `AllStepsRun`
  claims a skill's plan only where references go back.
* A one-shot is saved as completed when it is claimed (`proactive_scheduler.py:753`): if
  the program stops before its thread has run, it is never executed and looks finished.
* `OneProcessAfter` allows one process: a process started between the look at the event
  and its registration escapes `cancel_running_processes` and lives until its time
  limit; a dangerous command that is confirmed after the interruption is that process
  too.
* `NeverTogether` judges a step by the text it was planned with: a step repaired by
  `_apply_recovery_strategy` is not compared with its layer again. For a skill's plan
  the layers ignore that one folder may contain another, so there `NeverTogether` claims
  references and the desktop only.
* A remark of the same event that arrives while one is pending replaces its payload. A
  callback that raises something outside the list at `speech_scheduler.py:384` stops all
  further remarks until the next start.
* `UserIsNotPestered` counts the remarks the scheduler was told of. One that is heard
  just before the program stops, or before the callback fails, is in no counter, so the
  user may hear one remark more for each of these.

## 5. Proofs

TLC shows each property on a small instance; these theorems show it for every value of
the constants. All safety and action properties of the passing runs, and both
refinements, are proved; liveness is not. Where an instance in an MC module puts
components side by side, the theorem is about the MC module's specification: a step of
it is a step of the component or leaves it alone.

### The agent task queue and the steps of a layer (`AgentTaskQueueProofs`)

For every set of tasks, ids and workers and every number of results, from
`TaskAssumption` alone:

* `TypeCorrect`: `TypeOK` is an invariant.
* `OnePlace`: `RegisteredTasksHaveOnePlace` is an invariant, with repeated ids too.
* `Bounded`: `ResultsAreBounded`.

and from `UniqueIds` (the default ids of `submit`):

* `Cancellable`: `LiveTasksAreCancellable`.
* `ShutdownFinal`: `CancellingShutdownIsFinal`.
* `Implements`: `ImplementsLifecycle`, the refinement of `TaskLifecycle`.

`RegisteredTasksHaveOnePlace` is not inductive: that a worker which stores a result
does not remove somebody else's entry needs to be known of *all* objects, registered
or not. `PlaceInv` says where each object can be (never submitted and nowhere; one
queue entry; one worker) and which program counters hold an object at all;
`TypeOK /\ PlaceInv` is inductive (`Invariant`), with one lemma per action
(`SubmitStep` ... `FinishStep`) joined in `PlaceStep`. `LiveStep` adds the tables for
unique ids. The action properties follow from the invariant and one case
distinction on the action.

The refinement needs two facts more (`LifeInv`). The table of results is read by id, so
it must have one row for each (`OneRowEach`): overwriting keeps it so, and trimming the
table drops whole rows. An outcome "cancelled" that waits for the lock must belong to a
task that was signalled (`OutcomeOK`), since only such a task may end that way in
`TaskLifecycle`. `LifeMaps` then goes through the actions and names for each the
abstract step it is.

`OneMoreProcess` proves `OneProcessAfter` of `StepExecution` for every number of steps,
slots and tries. That slots given back are those taken (`SlotsAreKept`) is a count over
the steps inside; `OnTheWayOut` says that a step which has started a process since the
interruption is past the last look at the event, and never reaches another try.

### The orchestrator (`AgentOrchestratorProofs`)

For all callers, steps, layers, plans and iteration limits: `InterruptionIsObeyed`
(`Obeyed`) and `OneLayerAfter` (`AtMostOneLayer`). Neither is inductive. `Inv` adds what
carries them from phase to phase: between `Clear` and the end of the run an interruption
leaves the event set (`EventStaysSet`), a layer is admitted only by a look at the event,
so that after an interruption at most the one admitted before is begun (`NoneAdmitted`),
and `run` is a record with the fields the updates touch (`RunIsRecord`). There is one
lemma per action; `WithinRun` collects what all actions of the run leave alone. This part
needs no assumption on the constants.

`NothingIsSkipped` (`AllIsSettled`), `ResumeRepeatsNothing` (`OnlyStaleRepeats`) and
`CheckpointKeepsSuccesses` (`SavedSuccesses`) relate several runs of one plan: what a
checkpoint says, what the run took over from it, and what the steps have really done.
`PlanInv` says that a checkpoint counts as successful only what needs no further run
(`SavedIsSettled`); that before there is a plan the results taken over are those of the
checkpoint, complete unless it is out of date (`BeforePlan`); and that with a plan every
step is open or settled and no open one has succeeded before (`WithPlan`).
`SavedSuccesses` holds for every layering: the invariant carries along that a success which
the results of a run do not have was cut off by an earlier step of its layer (`CutOff`),
and that such a step stays unsuccessful as long as the loss does.

### Delegated runs, timers, confirmations, remarks, skills (`SmallPartsProofs`, `SkillUpdateProofs`)

*Subagents*, for every set of jobs and size of the pool: `InterruptReachesChildren`
(`Reaches`) and `OnlyBlamedStop` (`OnlyBlamed`). The invariant says what the race between
registration and the copy of the children rests on: while jobs are owed an interruption
the parent's event is set, so that who registers later sees it (`OwedAreTold`), and who
runs is registered, so that a copy has it (`Registered`); a caller that gave up has
blamed its job (`GivenUpAreBlamed`).

*Timers*, for every set of names and number of orders: `RingsUnlessCalledOff` (`Rings`).
An order number is given out once (`Fresh`) and names one entry of the table
(`OneEntry`), so that an alarm that comes late finds its own entry or none.

*Confirmation*, for every number of nested dialogs: `AnswerIsOwn` (`Answers`). `Dialogs`
says what the holder of a call contains when its dialog is where it is, and `Signals`
that each call's signal is delivered once, however the dialogs nest.

*EventSpeech*, for every set of events, cooldowns and restarts: `UserIsNotPestered`
(`NotPestered`). `Counted` relates the counters to the remarks the scheduler was told of:
none of the day of the count is missing, and no event is later than its
`last_delivered`; `Allowed` carries the check made under the lock over the callback made
without it, so that there is room for the remark when it is heard (`DayHasRoom`,
`AllowedIsFair`); `Saved` says that the file has all of it, which a restart at any point
needs.

*SkillUpdate*, for every set of skills: `SkillUpdate` implements `SkillStore`
(`Implements`): every step leaves what the user is left with alone, or commits the whole
source, or installs one skill, or, once a recovery and an update are at work beside each
other, changes nothing but the skills in work (`Others`). The invariant (`Invariant`)
has two parts: `Base` always holds and says which skills each side keeps to; `Core`
holds while nothing is disturbed and says at each point of update, roll-back and
recovery how folders, backups, journal and memory are related; in particular that an entry that is not in the journal has nothing to
be undone, and that entries the recovery has passed have no effect any more.
`ReplacesTogether` of `SmallPartsProofs` is the same for the instance in `MCSmallParts`.

### The scheduler (`SchedulerProofs`)

For every table, clock, period, set of exception dates and number of restarts, with
writes that may fail: `ClaimedOnce` (`ClaimsOnce`), `NothingLeftOverdue` (`Advances`),
`CancelIsFinal` (`CancelledStayGone`) and `FileIsUpToDate` (`NothingIsForgotten`).
`ClaimedOnce` looks at one step, but what it rests on lasts: an occurrence that was
claimed is used up in the table that counts, the memory's while the program runs and
the file's while it does not (`ClaimsAreUsed`), unless a stop has lost a write; and no id
that occurs anywhere is given out again (`IdsAreGiven`). `Advances` needs that the
next date exists: beyond the largest exception date every date is free, and
a set of dates that is not empty has a least one.

### Voice, requests, CosyVoice (`VoiceProofs`)

*VoiceActivation*, for every set of holders of a push-to-talk: `KeyUpReleases`
(`ReleaseReaches`), `WakeupIsNotLost` (`NoLostWakeup`) and `NobodyLeftListening`
(`ListenerIsFreed`). The invariant: pending and active activation do not exist at once
(`OneActivation`), so that a release finds the right one; who is listened to follows from
where the thread is (`ListenersListen`); and whatever there is to do has set its event, or
the GUI thread is between the change and the wake-up and about to set it
(`EventsAreSet`).

*AssistantTurn*, for every number of requests: `ChannelIsRestored` (`Restored`) and
`CancelHitsTheRunning` (`HitsTheRunning`). `TurnsInv` says who holds the execution lock
where, that each holder saved the speaker before it swapped the channel, and that the
registered cancel event is the holder's, and is gone before the lock is.

*CosyVoice*, for every number of requests, chunks and restarts: `OutputIsItsOwn`
(`OwnOutput`). Nothing in the pipes names a request, so the proof is
about emptiness. The pipes hold what belongs to one request at a time: its text, then
its audio with the end mark last, then its line (`Flow`). A worker that is trusted with
the next request has nothing of the last one left, is to be restarted, or is being
drained (`WorkerIsEmpty`). Once the end mark was read no audio remains
(`AfterTheEnd`). And only the active request's own reader may hold the lock of the
buffer (`SpeakerIsActive`). The part about the pipes (`FlowInv`) holds of a worker that was not
spared.

### Speech output (`SpeechQueueProofs`)

For every set of texts and every size of the queue: types, `InterruptionIsExact`
(`Exact`) and `SilentAfterStop` (`Silent`). `Accounted` says that what is queued was
accepted, is queued once, and is neither in the batch nor doomed; `Cancelled` that the
event is set exactly when the batch holds a doomed request, and then the whole batch is
doomed; `StopIsSeen` and `BatchIsActive` relate shutdown, event and place of the TTS
thread. `InterruptsExactly` and `StaysSilent` of `SmallPartsProofs` are the same for the
instance in `MCSmallParts`.

### Plans (`PlanGraphProofs`)

For plans of every size, with all kinds of steps and any overlap of resources:
`NeverTogether` (`Independence`), `NeedsComeFirst` (`Precedence`) and `AllStepsRun`
(`NoStepIsLost`). `GroupInv` says of the loop of `assign_parallel_groups` that groups
given out are below the next number, that a step without a group still waits for all its
dependencies without one, and hence that two steps of one group do not depend on each
other; with that `Gather`, with `Graph` that `AddLayer` keeps layers independent. The
layers follow the first step of each group, not its number, so the order has to be
derived: a step's needs are in lower groups than its own (`Ascending`), and every group
below a step's own has an earlier step in it, because that is what put the step where it
is (`Chained`, `Pending`), so that the first step of a need's group comes before the
first of its own (`Leads`), as long as the plan is whole. `FirstExists` (a non-empty set
of steps has a least one) stands in for induction; every step is in a layer, has run, or
is still to be placed (`Covered`, `Complete`). `NeverDisturbed`, `NeedsPrecede` and
`NoneLeftOut` of `AgentOrchestratorProofs` are the three for the instance in
`MCAgentPlans`.

### Assumptions, and what is only model-checked

`TaskAssumption`, `StepsAssumption`, `SpeechAssumption`, `HolderAssumption`,
`VoiceAssumption`, `PlanAssumption`, `SubagentsAssumption`, `SmallPartsAssumption`,
`OrchestratorAssumption` and `SchedulerAssumption` are the named assumptions of the
modules (the constants are sets of the right kind and the special values are not members
of them); TLC evaluates them in the runs. The only hypothesis a theorem has beyond them is
`UniqueIds`, which the code's own calls satisfy and the configuration of `task_queue` too.

Only model-checked: liveness, because fairness and ENABLED are outside the prover
(`EveryTaskSettles`, `WorkersExit`, `CallsReturn`, `StepsEnd`, `EndIsAnnounced`,
`ThreadExits`, `ArmedTasksAreClaimed`, `ActivationsAreTaken`, `EveryJobEnds`); and the
seven refuted properties of section 4.

## 6. Not modelled

Most of the program's lines are not control: prompts and templates
(`planner/template_plans.py`, `prompt_templates.py`), training data
(`scripts/decision_data`), widgets, HTTP calls, scores, text heuristics, message
catalogues. They have no protocol a model checker could tell right from wrong, and
the map does not reach them. In particular:

* what a language model or a recogniser answers is a free choice in every module;
* which resources, targets or dangers a text names (`dag_builder.py:145-428`,
  `execution_analysis.py`, `safety_checker.py`) is a free choice of `Kinds` and `Check`;
* the stores of memories, strategies and episodes take one lock around each whole
  operation; what is hard about them is scoring;
* settings, secrets and updates read, change and replace a file, as the scheduler does
  with its own;
* the Whisper worker answers one request at a time under one lock;
* plugins and the market run foreign code, or are a service outside the program;
* Qt's own behaviour, beyond queued signals and nested event loops.

What could be added next: the composition of `VoiceActivation` with `SpeechQueue`
through `is_tts_playing()`; the calendar rules of `NextRun` against a definition as a
minimum; the windows of section 4 closed in the models as a fix of the code would, so that
the three restricted properties hold without their exceptions.

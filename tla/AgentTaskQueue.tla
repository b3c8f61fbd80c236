--------------------------- MODULE AgentTaskQueue ---------------------------
(***************************************************************************)
(* agent/task_queue.py: a priority queue of tasks, a pool of worker        *)
(* threads, and the table of results.                                      *)
(*                                                                         *)
(* A task is the AgentQueuedTask object one submit() call creates; IdOf is *)
(* the task_id it carries.  Ids are the caller's: with the default         *)
(* (uuid4) no two objects share one, which is UniqueIds below; an explicit *)
(* task_id may repeat.  Sections under self._lock are single steps; what   *)
(* happens between two sections (a queue.get, the runner, the choice of    *)
(* the outcome) is a step of its own.                                      *)
(***************************************************************************)
EXTENDS Integers, Sequences, FiniteSets

CONSTANTS
  Tasks,             \* the AgentQueuedTask objects that may ever be created
  Ids,               \* the task_id strings
  IdOf,              \* the task_id of each object
  Workers,           \* the worker threads
  Priorities,        \* the priorities callers use
  SentinelPriority,  \* 10**9 in the code
  MaxResults,        \* max_results
  MaxShutdowns,      \* bound: how often shutdown() is called
  NoTask

ASSUME TaskAssumption ==
  /\ IdOf \in [Tasks -> Ids]
  /\ NoTask \notin Tasks
  /\ Priorities \subseteq Int /\ SentinelPriority \in Int
  /\ MaxResults \in Nat \ {0}
  /\ MaxShutdowns \in Nat
  /\ IsFiniteSet(Workers)

VARIABLES
  submitted,  \* the objects submit() has accepted
  queue,      \* self._queue: its (priority, counter, task) entries
  counter,    \* self._counter
  pending,    \* self._pending, by id
  running,    \* self._running, by id
  results,    \* self._results in insertion order
  cancelled,  \* the objects whose cancel_event is set
  shutdown,   \* self._shutdown
  calls,      \* how many times shutdown() has been entered
  sentinels,  \* how many sentinels the shutdown() callers have yet to put
  pc,         \* where each worker is
  held,       \* the object each worker took off the queue
  outcome     \* the status each worker computed after its runner

vars == <<submitted, queue, counter, pending, running, results, cancelled,
          shutdown, calls, sentinels, pc, held, outcome>>

Statuses == {"completed", "cancelled", "failed"}
PcStates == {"loop", "get", "took", "run", "store", "exited"}
ResultRecords == [id : Ids, status : Statuses]
Entries == [prio : Int, seq : Nat, task : Tasks \union {NoTask}]

UniqueIds == \A s, t \in Tasks : IdOf[s] = IdOf[t] => s = t

TypeOK ==
  /\ submitted \subseteq Tasks
  /\ queue \subseteq Entries
  /\ counter \in Nat
  /\ pending \in [Ids -> Tasks \union {NoTask}]
  /\ running \in [Ids -> Tasks \union {NoTask}]
  /\ results \in Seq(ResultRecords)
  /\ cancelled \subseteq Tasks
  /\ shutdown \in BOOLEAN
  /\ calls \in Nat
  /\ sentinels \in Nat
  /\ pc \in [Workers -> PcStates]
  /\ held \in [Workers -> Tasks \union {NoTask}]
  /\ outcome \in [Workers -> Statuses]

Init ==
  /\ submitted = {}
  /\ queue = {}
  /\ counter = 0
  /\ pending = [i \in Ids |-> NoTask]
  /\ running = [i \in Ids |-> NoTask]
  /\ results = <<>>
  /\ cancelled = {}
  /\ shutdown = FALSE
  /\ calls = 0
  /\ sentinels = 0
  /\ pc = [w \in Workers |-> "loop"]
  /\ held = [w \in Workers |-> NoTask]
  /\ outcome = [w \in Workers |-> "completed"]

-----------------------------------------------------------------------------
(* The callers. *)

Accepts == ~shutdown

(* submit(): registers the task and queues it, or raises once shut down. *)
Submit(t, prio) ==
  /\ t \notin submitted
  /\ Accepts
  /\ submitted' = submitted \union {t}
  /\ pending' = [pending EXCEPT ![IdOf[t]] = t]
  /\ queue' = queue \union {[prio |-> prio, seq |-> counter, task |-> t]}
  /\ counter' = counter + 1
  /\ UNCHANGED <<running, results, cancelled, shutdown, calls, sentinels, pc, held, outcome>>

(* The object cancel(i) signals: pending first, then running. *)
CancelTarget(i) == IF pending[i] # NoTask THEN pending[i] ELSE running[i]

Cancel(i) ==
  /\ CancelTarget(i) # NoTask
  /\ cancelled' = cancelled \union {CancelTarget(i)}
  /\ UNCHANGED <<submitted, queue, counter, pending, running, results, shutdown,
                 calls, sentinels, pc, held, outcome>>

LiveIn(table) == {table[i] : i \in Ids} \ {NoTask}

(* cancel_current() without an id; with one it signals a single running task. *)
CancelCurrent(only) ==
  /\ cancelled' = cancelled \union {t \in LiveIn(running) : IdOf[t] \in only}
  /\ UNCHANGED <<submitted, queue, counter, pending, running, results, shutdown,
                 calls, sentinels, pc, held, outcome>>

(* shutdown(), the section under the lock. *)
Shutdown(cancelPending) ==
  /\ calls < MaxShutdowns
  /\ calls' = calls + 1
  /\ shutdown' = TRUE
  /\ cancelled' = IF cancelPending
                  THEN cancelled \union LiveIn(pending) \union LiveIn(running)
                  ELSE cancelled
  /\ sentinels' = sentinels + Cardinality(Workers)
  /\ UNCHANGED <<submitted, queue, counter, pending, running, results, pc, held, outcome>>

(* shutdown(), one turn of the loop that wakes the workers, without the lock. *)
PutSentinel ==
  /\ sentinels > 0
  /\ sentinels' = sentinels - 1
  /\ queue' = queue \union {[prio |-> SentinelPriority, seq |-> counter, task |-> NoTask]}
  /\ counter' = counter + 1
  /\ UNCHANGED <<submitted, pending, running, results, cancelled, shutdown, calls,
                 pc, held, outcome>>

-----------------------------------------------------------------------------
(* The workers. *)

(* Mutant: while True. *)
LoopForever(w) ==
  /\ pc[w] = "loop"
  /\ pc' = [pc EXCEPT ![w] = "get"]
  /\ UNCHANGED <<submitted, queue, counter, pending, running, results, cancelled,
                 shutdown, calls, sentinels, held, outcome>>

(* The while condition of _worker_loop. *)
CheckShutdown(w) ==
  /\ pc[w] = "loop"
  /\ pc' = [pc EXCEPT ![w] = IF shutdown THEN "exited" ELSE "get"]
  /\ UNCHANGED <<submitted, queue, counter, pending, running, results, cancelled,
                 shutdown, calls, sentinels, held, outcome>>

First(e) == \A f \in queue : e.prio < f.prio \/ (e.prio = f.prio /\ e.seq <= f.seq)

Peek(e) == UNCHANGED queue  \* mutant: the entry stays

Dequeue(e) == queue' = queue \ {e}

(* queue.get(); a sentinel has no task_id and sends the worker back. *)
Get(w) ==
  /\ pc[w] = "get"
  /\ \E e \in queue :
       /\ First(e)
       /\ Dequeue(e)
       /\ held' = [held EXCEPT ![w] = e.task]
       /\ pc' = [pc EXCEPT ![w] = IF e.task = NoTask THEN "loop" ELSE "took"]
  /\ UNCHANGED <<submitted, counter, pending, running, results, cancelled, shutdown,
                 calls, sentinels, outcome>>

(* Mutant: the worker breaks out of its loop on queue.Empty. *)
TimeoutEnds(w) ==
  /\ pc[w] = "get"
  /\ queue = {}
  /\ pc' = [pc EXCEPT ![w] = "exited"]
  /\ UNCHANGED <<submitted, queue, counter, pending, running, results, cancelled,
                 shutdown, calls, sentinels, held, outcome>>

(* queue.Empty after 0.1 s. *)
GetTimeout(w) ==
  /\ pc[w] = "get"
  /\ queue = {}
  /\ pc' = [pc EXCEPT ![w] = "loop"]
  /\ UNCHANGED <<submitted, queue, counter, pending, running, results, cancelled,
                 shutdown, calls, sentinels, held, outcome>>

(* self._results[id] = r keeps the place of an id already there. *)
Overwrite(seq, r) ==
  IF \E k \in DOMAIN seq : seq[k].id = r.id
  THEN [k \in DOMAIN seq |-> IF seq[k].id = r.id THEN r ELSE seq[k]]
  ELSE Append(seq, r)

TrimNewest(seq) ==                                  \* mutant: pops the last entry
  IF Len(seq) > MaxResults THEN SubSeq(seq, 1, MaxResults) ELSE seq

(* The oldest entries go until the table is within its limit. *)
Trim(seq) ==
  IF Len(seq) > MaxResults THEN SubSeq(seq, Len(seq) - MaxResults + 1, Len(seq)) ELSE seq

StoreResult(t, status) == Trim(Overwrite(results, [id |-> IdOf[t], status |-> status]))

NeverLooks(t) == FALSE         \* mutant: cancel_event is not consulted
ForgetsTask(t) == UNCHANGED running  \* mutant: the task is not registered as running

IsCancelled(t) == t \in cancelled
Register(t) == running' = [running EXCEPT ![IdOf[t]] = t]

(* The head of _run_task, three ways out of the section under the lock. *)
SkipTask(w) ==
  /\ pc[w] = "took"
  /\ pending[IdOf[held[w]]] = NoTask
  /\ pc' = [pc EXCEPT ![w] = "loop"]
  /\ held' = [held EXCEPT ![w] = NoTask]
  /\ UNCHANGED <<submitted, queue, counter, pending, running, results, cancelled,
                 shutdown, calls, sentinels, outcome>>

DropCancelled(w) ==
  /\ pc[w] = "took"
  /\ pending[IdOf[held[w]]] # NoTask
  /\ IsCancelled(held[w])
  /\ pending' = [pending EXCEPT ![IdOf[held[w]]] = NoTask]
  /\ results' = StoreResult(held[w], "cancelled")
  /\ pc' = [pc EXCEPT ![w] = "loop"]
  /\ held' = [held EXCEPT ![w] = NoTask]
  /\ UNCHANGED <<submitted, queue, counter, running, cancelled, shutdown, calls,
                 sentinels, outcome>>

StartTask(w) ==
  /\ pc[w] = "took"
  /\ pending[IdOf[held[w]]] # NoTask
  /\ ~IsCancelled(held[w])
  /\ pending' = [pending EXCEPT ![IdOf[held[w]]] = NoTask]
  /\ Register(held[w])
  /\ pc' = [pc EXCEPT ![w] = "run"]
  /\ UNCHANGED <<submitted, queue, counter, results, cancelled, shutdown, calls,
                 sentinels, held, outcome>>

(* The runner returns, or raises: the outcome is fixed before the lock is taken. *)
RunnerEnds(w, status) ==
  /\ pc[w] = "run"
  /\ status = "cancelled" => IsCancelled(held[w])
  /\ status = "completed" => ~IsCancelled(held[w])
  /\ outcome' = [outcome EXCEPT ![w] = status]
  /\ pc' = [pc EXCEPT ![w] = "store"]
  /\ UNCHANGED <<submitted, queue, counter, pending, running, results, cancelled,
                 shutdown, calls, sentinels, held>>

(* The tail of _run_task, under the lock again. *)
FinishTask(w) ==
  /\ pc[w] = "store"
  /\ running' = [running EXCEPT ![IdOf[held[w]]] = NoTask]
  /\ results' = StoreResult(held[w], outcome[w])
  /\ pc' = [pc EXCEPT ![w] = "loop"]
  /\ held' = [held EXCEPT ![w] = NoTask]
  /\ UNCHANGED <<submitted, queue, counter, pending, cancelled, shutdown, calls,
                 sentinels, outcome>>

-----------------------------------------------------------------------------
Callers ==
  \/ \E t \in Tasks, prio \in Priorities : Submit(t, prio)
  \/ \E i \in Ids : Cancel(i)
  \/ \E only \in {Ids} \union {{i} : i \in Ids} : CancelCurrent(only)
  \/ \E cancelPending \in BOOLEAN : Shutdown(cancelPending)
  \/ PutSentinel

Worker(w) ==
  \/ CheckShutdown(w)
  \/ Get(w)
  \/ GetTimeout(w)
  \/ SkipTask(w)
  \/ DropCancelled(w)
  \/ StartTask(w)
  \/ \E status \in Statuses : RunnerEnds(w, status)
  \/ FinishTask(w)

Next == Callers \/ \E w \in Workers : Worker(w)

Spec == Init /\ [][Next]_vars

(***************************************************************************)
(* Fairness: a worker thread keeps running, and every runner eventually    *)
(* returns or raises (the queue has no time limit of its own: a runner     *)
(* that hangs holds its worker for ever).  Callers owe nothing.            *)
(***************************************************************************)
FairSpec == Spec /\ \A w \in Workers : WF_vars(Worker(w))

-----------------------------------------------------------------------------
(* Properties. *)

Executing(t) == \E w \in Workers : held[w] = t /\ pc[w] \in {"run", "store"}
Queued(t) == \E e \in queue : e.task = t
Taken(t) == \E w \in Workers : held[w] = t /\ pc[w] = "took"

(* cancel() reaches every task that still has something to stop: whatever   *)
(* waits in the queue, is in a worker's hands or executes is the object its *)
(* id leads to (the docstring of cancel).  Needs ids that do not repeat.    *)
LiveTasksAreCancellable ==
  \A t \in Tasks :
    /\ Queued(t) \/ Taken(t) => pending[IdOf[t]] = t
    /\ Executing(t) => running[IdOf[t]] = t

(* No task is lost or duplicated on its way through the lock-free gaps: a   *)
(* registered task is in exactly one place, the queue or one worker.        *)
RegisteredTasksHaveOnePlace ==
  \A t \in Tasks :
    /\ pending[IdOf[t]] = t =>
         /\ Queued(t) # Taken(t)
         /\ ~Executing(t)
         /\ \A e, f \in queue : e.task = t /\ f.task = t => e = f
    /\ running[IdOf[t]] = t => Executing(t)
    /\ \A v, w \in Workers : held[v] = t /\ held[w] = t => v = w

(* shutdown(cancel_pending=True) is final: no runner starts after it and no *)
(* task is taken in, although submit() may have been on its way and workers *)
(* that had passed the shutdown check go on taking tasks off the queue.     *)
CancellingShutdownIsFinal ==
  [][shutdown /\ LiveIn(pending) \subseteq cancelled
       => /\ LiveIn(pending)' \subseteq cancelled'
          /\ \A t \in Tasks : Executing(t)' => Executing(t)]_vars

(* The table of results says so of an id. *)
Settled(i, status) == \E k \in DOMAIN results : results[k] = [id |-> i, status |-> status]

(* The table of results keeps its limit. *)
ResultsAreBounded == Len(results) <= MaxResults

(* A submitted task is settled unless the queue is shut down under it. *)
EveryTaskSettles ==
  \A t \in Tasks :
    t \in submitted ~> shutdown \/ (pending[IdOf[t]] # t /\ running[IdOf[t]] # t)

(* shutdown() ends every worker, whatever is still queued. *)
WorkersExit == shutdown ~> \A w \in Workers : pc[w] = "exited"

-----------------------------------------------------------------------------
(* The life of a task as a client reads it through status(). *)
LifeOf(t) ==
  IF t \notin submitted THEN "new"
  ELSE IF pending[IdOf[t]] = t THEN "pending"
  ELSE IF running[IdOf[t]] = t THEN "running"
  ELSE IF \E status \in Statuses : Settled(IdOf[t], status)
       THEN CHOOSE status \in Statuses : Settled(IdOf[t], status)
  ELSE "forgotten"

Lifecycle == INSTANCE TaskLifecycle WITH
  life <- [t \in Tasks |-> LifeOf(t)], signalled <- cancelled, closed <- shutdown

ImplementsLifecycle == Lifecycle!Spec
=============================================================================

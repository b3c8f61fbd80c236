------------------------ MODULE AgentTaskQueueProofs ------------------------
(***************************************************************************)
(* Proofs about AgentTaskQueue, for any numbers of tasks, ids, workers,    *)
(* priorities, results kept and shutdowns.                                 *)
(***************************************************************************)
EXTENDS MCAgentTaskQueue, SequenceTheorems, FiniteSetTheorems, TLAPS

(* One-line operators that stand for the code's own expressions. *)
USE DEF Accepts, Dequeue, IsCancelled, Register

(* Storing a result keeps the table a sequence of results within its limit. *)
LEMMA StoreResultType ==
  ASSUME results \in Seq(ResultRecords),
         NEW t \in Tasks, NEW status \in Statuses
  PROVE  /\ StoreResult(t, status) \in Seq(ResultRecords)
         /\ Len(StoreResult(t, status)) <= MaxResults
<1> DEFINE r == [id |-> IdOf[t], status |-> status]
           long == Overwrite(results, r)
<1>1. r \in ResultRecords
  BY TaskAssumption DEF ResultRecords
<1>2. long \in Seq(ResultRecords)
  <2>1. CASE \E k \in DOMAIN results : results[k].id = r.id
    <3> DEFINE g == [k \in DOMAIN results |-> IF results[k].id = r.id THEN r ELSE results[k]]
    <3>1. Len(results) \in Nat /\ DOMAIN results = 1 .. Len(results)
      BY LenProperties
    <3>2. \A k \in DOMAIN results : results[k] \in ResultRecords
      BY ElementOfSeq, <3>1
    <3>3. g \in [1 .. Len(results) -> ResultRecords]
      BY <1>1, <3>1, <3>2
    <3>4. g \in Seq(ResultRecords)
      BY <3>1, <3>3, SeqDef
    <3>5. long = g
      BY <2>1 DEF Overwrite
    <3> QED BY <3>4, <3>5
  <2>2. CASE ~ \E k \in DOMAIN results : results[k].id = r.id
    BY <1>1, <2>2, AppendProperties DEF Overwrite
  <2> QED BY <2>1, <2>2
<1>3. Len(long) \in Nat /\ DOMAIN long = 1 .. Len(long)
  BY <1>2, LenProperties
<1>4. CASE Len(long) > MaxResults
  <2> DEFINE m == Len(long) - MaxResults + 1
  <2>1. m \in Int /\ m >= 1 /\ m <= Len(long)
    BY <1>3, <1>4, TaskAssumption
  <2>2. \A k \in m .. Len(long) : long[k] \in ResultRecords
    BY <1>2, <1>3, <2>1, ElementOfSeq
  <2>3. /\ SubSeq(long, m, Len(long)) \in Seq(ResultRecords)
        /\ Len(SubSeq(long, m, Len(long))) = Len(long) - m + 1
    BY <1>3, <2>1, <2>2, SubSeqProperties
  <2>4. StoreResult(t, status) = SubSeq(long, m, Len(long))
    BY <1>4 DEF StoreResult, Trim
  <2> HIDE DEF long, m
  <2>5. Len(long) - m + 1 = MaxResults
    BY <1>3, TaskAssumption DEF m
  <2> QED BY <2>3, <2>4, <2>5, TaskAssumption
<1>5. CASE ~(Len(long) > MaxResults)
  <2>1. StoreResult(t, status) = long
    BY <1>5 DEF StoreResult, Trim
  <2> QED BY <1>2, <1>3, <1>5, <2>1, TaskAssumption
<1> QED BY <1>4, <1>5

-----------------------------------------------------------------------------
(***************************************************************************)
(* The inductive invariant.  A task object the queue knows of is in the    *)
(* queue, once, or in the hands of one worker; what a table registers      *)
(* under an id is an object with that id, still on its way (pending) or    *)
(* being executed (running).                                               *)
(***************************************************************************)
Busy == {"took", "run", "store"}

QueueOK ==
  /\ \A e \in queue : e.task # NoTask => e.task \in submitted
  /\ \A e, f \in queue : e.task # NoTask /\ e.task = f.task => e = f

HandsOK ==
  /\ \A w \in Workers :
       /\ pc[w] \in Busy => held[w] \in submitted
       /\ pc[w] \notin Busy => held[w] = NoTask
  /\ \A w \in Workers, e \in queue : held[w] # NoTask => e.task # held[w]
  /\ \A v, w \in Workers : held[v] = held[w] /\ held[v] # NoTask => v = w

PendingOK ==
  \A i \in Ids : pending[i] # NoTask =>
    /\ pending[i] \in submitted
    /\ IdOf[pending[i]] = i
    /\ Queued(pending[i]) \/ Taken(pending[i])

RunningOK ==
  \A i \in Ids : running[i] # NoTask =>
    /\ IdOf[running[i]] = i
    /\ Executing(running[i])

PlaceInv == QueueOK /\ HandsOK /\ PendingOK /\ RunningOK

(* Every variable keeps its type: a queue entry, a registration, a result   *)
(* or a worker's position is never anything but what the code declares.     *)
LEMMA TypeStep == TypeOK /\ HandsOK /\ [Next]_vars => TypeOK'
<1> SUFFICES ASSUME TypeOK, HandsOK, [Next]_vars
             PROVE  TypeOK'
  OBVIOUS
<1> USE TaskAssumption DEF TypeOK, Entries, Statuses, PcStates
<1>1. ASSUME NEW t \in Tasks, NEW prio \in Priorities, Submit(t, prio)
      PROVE  TypeOK'
  BY <1>1 DEF Submit
<1>2. ASSUME NEW i \in Ids, Cancel(i)
      PROVE  TypeOK'
  BY <1>2 DEF Cancel, CancelTarget
<1>3. ASSUME NEW only \in {Ids} \union {{i} : i \in Ids}, CancelCurrent(only)
      PROVE  TypeOK'
  BY <1>3 DEF CancelCurrent, LiveIn
<1>4. ASSUME NEW cancelPending \in BOOLEAN, Shutdown(cancelPending)
      PROVE  TypeOK'
  BY <1>4, FS_CardinalityType DEF Shutdown, LiveIn
<1>5. CASE PutSentinel
  BY <1>5 DEF PutSentinel
<1>6. ASSUME NEW w \in Workers, Worker(w)
      PROVE  TypeOK'
  <2>1. CASE CheckShutdown(w)
    BY <2>1 DEF CheckShutdown
  <2>2. CASE Get(w)
    BY <2>2 DEF Get
  <2>3. CASE GetTimeout(w)
    BY <2>3 DEF GetTimeout
  <2>4. CASE SkipTask(w)
    BY <2>4 DEF SkipTask
  <2>5. CASE DropCancelled(w)
    <3>1. held[w] \in Tasks
      BY <2>5 DEF DropCancelled, HandsOK, Busy
    <3> QED BY <2>5, <3>1, StoreResultType DEF DropCancelled
  <2>6. CASE StartTask(w)
    BY <2>6 DEF StartTask
  <2>7. CASE \E status \in Statuses : RunnerEnds(w, status)
    BY <2>7 DEF RunnerEnds
  <2>8. CASE FinishTask(w)
    <3>1. held[w] \in Tasks
      BY <2>8 DEF FinishTask, HandsOK, Busy
    <3> QED BY <2>8, <3>1, StoreResultType DEF FinishTask
  <2> QED BY <1>6, <2>1, <2>2, <2>3, <2>4, <2>5, <2>6, <2>7, <2>8 DEF Worker
<1>7. CASE UNCHANGED vars
  BY <1>7 DEF vars
<1> QED BY <1>1, <1>2, <1>3, <1>4, <1>5, <1>6, <1>7 DEF Next, Callers

-----------------------------------------------------------------------------
(* Steps that move no task leave every placement as it is. *)
Placement == <<submitted, queue, pending, running, held>>

LEMMA FrameStep ==
  ASSUME TypeOK, PlaceInv, UNCHANGED Placement,
         \A w \in Workers : pc'[w] = pc[w] \/ (pc[w] \notin Busy /\ pc'[w] \notin Busy)
                                         \/ (pc[w] = "run" /\ pc'[w] = "store")
  PROVE  PlaceInv'
<1>1. QueueOK'
  BY DEF PlaceInv, QueueOK, Placement
<1>2. HandsOK'
  BY DEF PlaceInv, HandsOK, Placement, Busy
<1>3. PendingOK'
  BY DEF PlaceInv, PendingOK, Placement, Busy, Queued, Taken
<1>4. RunningOK'
  BY DEF PlaceInv, RunningOK, Placement, Busy, Executing
<1> QED BY <1>1, <1>2, <1>3, <1>4 DEF PlaceInv

LEMMA SubmitStep ==
  ASSUME TypeOK, PlaceInv, NEW t \in Tasks, NEW prio \in Priorities, Submit(t, prio)
  PROVE  PlaceInv'
<1> USE TaskAssumption DEF TypeOK, PlaceInv, Entries, Submit
<1> DEFINE new == [prio |-> prio, seq |-> counter, task |-> t]
<1>1. QueueOK'
  BY DEF QueueOK
<1>2. HandsOK'
  BY DEF HandsOK, Busy
<1>3. PendingOK'
  <2> SUFFICES ASSUME NEW i \in Ids
               PROVE  (pending[i] # NoTask =>
                         /\ pending[i] \in submitted
                         /\ IdOf[pending[i]] = i
                         /\ Queued(pending[i]) \/ Taken(pending[i]))'
    BY DEF PendingOK
  <2>1. CASE i = IdOf[t]
    <3>1. pending'[i] = t
      BY <2>1
    <3>2. new \in queue' /\ new.task = t
      OBVIOUS
    <3>3. t \in submitted'
      OBVIOUS
    <3> QED BY <2>1, <3>1, <3>2, <3>3 DEF Queued
  <2>2. CASE i # IdOf[t]
    <3>1. pending'[i] = pending[i]
      BY <2>2
    <3> QED BY <3>1 DEF PendingOK, Queued, Taken
  <2> QED BY <2>1, <2>2
<1>4. RunningOK'
  BY DEF RunningOK, Executing
<1> QED BY <1>1, <1>2, <1>3, <1>4

LEMMA SentinelStep ==
  ASSUME TypeOK, PlaceInv, PutSentinel
  PROVE  PlaceInv'
<1> USE TaskAssumption DEF TypeOK, PlaceInv, Entries, PutSentinel
<1>1. QueueOK'
  BY DEF QueueOK
<1>2. HandsOK'
  BY DEF HandsOK, Busy
<1>3. PendingOK'
  BY DEF PendingOK, Queued, Taken
<1>4. RunningOK'
  BY DEF RunningOK, Executing
<1> QED BY <1>1, <1>2, <1>3, <1>4

LEMMA GetStep ==
  ASSUME TypeOK, PlaceInv, NEW w \in Workers, Get(w)
  PROVE  PlaceInv'
<1> USE TaskAssumption DEF TypeOK, PlaceInv, Entries
<1> PICK e \in queue :
       /\ queue' = queue \ {e}
       /\ held' = [held EXCEPT ![w] = e.task]
       /\ pc' = [pc EXCEPT ![w] = IF e.task = NoTask THEN "loop" ELSE "took"]
  BY DEF Get
<1>0. /\ pc[w] = "get"
      /\ UNCHANGED <<submitted, pending, running>>
  BY DEF Get
<1>1. QueueOK'
  BY <1>0 DEF QueueOK
<1>2. HandsOK'
  BY <1>0 DEF HandsOK, QueueOK, Busy
<1>3. PendingOK'
  <2> SUFFICES ASSUME NEW i \in Ids, pending[i] # NoTask
               PROVE  Queued(pending[i])' \/ Taken(pending[i])'
    BY <1>0 DEF PendingOK
  <2>1. CASE Queued(pending[i])
    BY <1>0, <2>1 DEF Queued, Taken
  <2>2. CASE Taken(pending[i])
    BY <1>0, <2>2 DEF Taken
  <2> QED BY <2>1, <2>2 DEF PendingOK
<1>4. RunningOK'
  BY <1>0 DEF RunningOK, Executing
<1> QED BY <1>1, <1>2, <1>3, <1>4

LEMMA SkipStep ==
  ASSUME TypeOK, PlaceInv, NEW w \in Workers, SkipTask(w)
  PROVE  PlaceInv'
<1> USE TaskAssumption DEF TypeOK, PlaceInv, SkipTask
<1>1. QueueOK'
  BY DEF QueueOK
<1>2. HandsOK'
  BY DEF HandsOK, Busy
<1>3. PendingOK'
  BY DEF PendingOK, Queued, Taken
<1>4. RunningOK'
  BY DEF RunningOK, Executing
<1> QED BY <1>1, <1>2, <1>3, <1>4

LEMMA DropStep ==
  ASSUME TypeOK, PlaceInv, NEW w \in Workers, DropCancelled(w)
  PROVE  PlaceInv'
<1> USE TaskAssumption DEF TypeOK, PlaceInv, DropCancelled
<1>1. QueueOK'
  BY DEF QueueOK
<1>2. HandsOK'
  BY DEF HandsOK, Busy
<1>3. PendingOK'
  <2>1. held[w] \in Tasks /\ IdOf[held[w]] \in Ids
    BY DEF HandsOK, Busy
  <2> SUFFICES ASSUME NEW i \in Ids, pending'[i] # NoTask
               PROVE  /\ pending[i] \in submitted
                      /\ IdOf[pending[i]] = i
                      /\ Queued(pending[i])' \/ Taken(pending[i])'
    BY DEF PendingOK
  <2>2. i # IdOf[held[w]] /\ pending'[i] = pending[i]
    BY <2>1
  <2>3. IdOf[pending[i]] = i /\ pending[i] \in submitted /\ pending[i] # held[w]
    BY <2>2 DEF PendingOK
  <2> QED BY <2>2, <2>3 DEF PendingOK, Queued, Taken
<1>4. RunningOK'
  BY DEF RunningOK, Executing
<1> QED BY <1>1, <1>2, <1>3, <1>4

LEMMA StartStep ==
  ASSUME TypeOK, PlaceInv, NEW w \in Workers, StartTask(w)
  PROVE  PlaceInv'
<1> USE TaskAssumption DEF TypeOK, PlaceInv, StartTask
<1>0. held[w] \in Tasks /\ IdOf[held[w]] \in Ids
  BY DEF HandsOK, Busy
<1>1. QueueOK'
  BY DEF QueueOK
<1>2. HandsOK'
  BY DEF HandsOK, Busy
<1>3. PendingOK'
  BY <1>0 DEF PendingOK, HandsOK, Busy, Queued, Taken
<1>4. RunningOK'
  <2> SUFFICES ASSUME NEW i \in Ids
               PROVE  (running[i] # NoTask => IdOf[running[i]] = i /\ Executing(running[i]))'
    BY DEF RunningOK
  <2>1. CASE i = IdOf[held[w]]
    BY <1>0, <2>1 DEF Executing
  <2>2. CASE i # IdOf[held[w]]
    BY <2>2 DEF RunningOK, Executing
  <2> QED BY <2>1, <2>2
<1> QED BY <1>1, <1>2, <1>3, <1>4

LEMMA FinishStep ==
  ASSUME TypeOK, PlaceInv, NEW w \in Workers, FinishTask(w)
  PROVE  PlaceInv'
<1> USE TaskAssumption DEF TypeOK, PlaceInv, FinishTask
<1>0. held[w] \in Tasks /\ IdOf[held[w]] \in Ids
  BY DEF HandsOK, Busy
<1>1. QueueOK'
  BY DEF QueueOK
<1>2. HandsOK'
  BY DEF HandsOK, Busy
<1>3. PendingOK'
  BY DEF PendingOK, Queued, Taken
<1>4. RunningOK'
  <2> SUFFICES ASSUME NEW i \in Ids
               PROVE  (running[i] # NoTask => IdOf[running[i]] = i /\ Executing(running[i]))'
    BY DEF RunningOK
  <2>1. CASE i = IdOf[held[w]]
    BY <1>0, <2>1
  <2>2. CASE i # IdOf[held[w]]
    BY <2>2 DEF RunningOK, Executing
  <2> QED BY <2>1, <2>2
<1> QED BY <1>1, <1>2, <1>3, <1>4

LEMMA PlaceStep == TypeOK /\ PlaceInv /\ [Next]_vars => PlaceInv'
<1> SUFFICES ASSUME TypeOK, PlaceInv, [Next]_vars
             PROVE  PlaceInv'
  OBVIOUS
<1>1. ASSUME NEW t \in Tasks, NEW prio \in Priorities, Submit(t, prio)
      PROVE  PlaceInv'
  BY <1>1, SubmitStep
<1>2. ASSUME NEW i \in Ids, Cancel(i)
      PROVE  PlaceInv'
  BY <1>2, FrameStep DEF Cancel, Placement
<1>3. ASSUME NEW only \in {Ids} \union {{i} : i \in Ids}, CancelCurrent(only)
      PROVE  PlaceInv'
  BY <1>3, FrameStep DEF CancelCurrent, Placement
<1>4. ASSUME NEW cancelPending \in BOOLEAN, Shutdown(cancelPending)
      PROVE  PlaceInv'
  BY <1>4, FrameStep DEF Shutdown, Placement
<1>5. CASE PutSentinel
  BY <1>5, SentinelStep
<1>6. ASSUME NEW w \in Workers, Worker(w)
      PROVE  PlaceInv'
  <2>1. CASE CheckShutdown(w)
    BY <2>1, FrameStep DEF CheckShutdown, Placement, Busy, TypeOK
  <2>2. CASE Get(w)
    BY <2>2, GetStep
  <2>3. CASE GetTimeout(w)
    BY <2>3, FrameStep DEF GetTimeout, Placement, Busy, TypeOK
  <2>4. CASE SkipTask(w)
    BY <2>4, SkipStep
  <2>5. CASE DropCancelled(w)
    BY <2>5, DropStep
  <2>6. CASE StartTask(w)
    BY <2>6, StartStep
  <2>7. CASE \E status \in Statuses : RunnerEnds(w, status)
    BY <2>7, FrameStep DEF RunnerEnds, Placement, Busy, TypeOK
  <2>8. CASE FinishTask(w)
    BY <2>8, FinishStep
  <2> QED BY <1>6, <2>1, <2>2, <2>3, <2>4, <2>5, <2>6, <2>7, <2>8 DEF Worker
<1>7. CASE UNCHANGED vars
  BY <1>7, FrameStep DEF vars, Placement
<1> QED BY <1>1, <1>2, <1>3, <1>4, <1>5, <1>6, <1>7 DEF Next, Callers

LEMMA InitInv == Init => TypeOK /\ PlaceInv
<1> SUFFICES ASSUME Init
             PROVE  TypeOK /\ PlaceInv
  OBVIOUS
<1>1. TypeOK
  BY TaskAssumption, EmptySeq DEF Init, TypeOK, Statuses, PcStates
<1>2. PlaceInv
  BY TaskAssumption DEF Init, PlaceInv, QueueOK, HandsOK, PendingOK, RunningOK, Busy
<1> QED BY <1>1, <1>2

-----------------------------------------------------------------------------
(* AgentTaskQueue's state is always well typed and every known task is in   *)
(* one place; both inductive halves of what follows.                        *)
THEOREM Invariant == Spec => [](TypeOK /\ PlaceInv)
<1>1. TypeOK /\ PlaceInv /\ [Next]_vars => (TypeOK /\ PlaceInv)'
  BY TypeStep, PlaceStep DEF PlaceInv
<1> QED BY InitInv, <1>1, PTL DEF Spec

(* The type invariant of the task queue. *)
THEOREM TypeCorrect == Spec => []TypeOK
BY Invariant, PTL

(* Whatever ids callers pass, a task is never lost between the queue and a  *)
(* worker, nor handed to two workers.                                       *)
THEOREM OnePlace == Spec => []RegisteredTasksHaveOnePlace
<1>1. TypeOK /\ PlaceInv => RegisteredTasksHaveOnePlace
  <2> SUFFICES ASSUME TypeOK, PlaceInv, NEW t \in Tasks
               PROVE  /\ pending[IdOf[t]] = t =>
                           /\ Queued(t) # Taken(t)
                           /\ ~Executing(t)
                           /\ \A e, f \in queue : e.task = t /\ f.task = t => e = f
                      /\ running[IdOf[t]] = t => Executing(t)
                      /\ \A v, w \in Workers : held[v] = t /\ held[w] = t => v = w
    BY DEF RegisteredTasksHaveOnePlace
  <2>1. t # NoTask /\ IdOf[t] \in Ids
    BY TaskAssumption
  <2>2. Queued(t) => ~Taken(t) /\ ~Executing(t)
    BY <2>1 DEF PlaceInv, HandsOK, Queued, Taken, Executing
  <2>3. Taken(t) => ~Executing(t)
    BY <2>1 DEF PlaceInv, HandsOK, Taken, Executing
  <2>4. pending[IdOf[t]] = t => Queued(t) \/ Taken(t)
    BY <2>1 DEF PlaceInv, PendingOK
  <2>5. \A e, f \in queue : e.task = t /\ f.task = t => e = f
    BY <2>1 DEF PlaceInv, QueueOK
  <2>6. running[IdOf[t]] = t => Executing(t)
    BY <2>1 DEF PlaceInv, RunningOK
  <2>7. \A v, w \in Workers : held[v] = t /\ held[w] = t => v = w
    BY <2>1 DEF PlaceInv, HandsOK
  <2>8. (Queued(t) \in BOOLEAN) /\ (Taken(t) \in BOOLEAN)
    BY DEF Queued, Taken
  <2> QED BY <2>2, <2>3, <2>4, <2>5, <2>6, <2>7, <2>8
<1> QED BY Invariant, <1>1, PTL

-----------------------------------------------------------------------------
(* The result table never outgrows max_results: both places that store a    *)
(* result trim it in the same section under the lock.                       *)
THEOREM Bounded == Spec => []ResultsAreBounded
<1>1. Init => ResultsAreBounded
  BY TaskAssumption, EmptySeq DEF Init, ResultsAreBounded
<1>2. TypeOK /\ PlaceInv /\ ResultsAreBounded /\ [Next]_vars => ResultsAreBounded'
  <2> SUFFICES ASSUME TypeOK, PlaceInv, ResultsAreBounded, [Next]_vars
               PROVE  ResultsAreBounded'
    OBVIOUS
  <2>1. CASE \E w \in Workers : DropCancelled(w) \/ FinishTask(w)
    <3> PICK w \in Workers : DropCancelled(w) \/ FinishTask(w)
      BY <2>1
    <3>1. held[w] \in Tasks /\ outcome[w] \in Statuses /\ "cancelled" \in Statuses
      BY TaskAssumption DEF DropCancelled, FinishTask, TypeOK, PlaceInv, HandsOK, Busy, Statuses
    <3>2. \E status \in Statuses : results' = StoreResult(held[w], status)
      BY <3>1 DEF DropCancelled, FinishTask
    <3> QED BY <3>1, <3>2, StoreResultType DEF TypeOK, ResultsAreBounded
  <2>2. CASE ~ \E w \in Workers : DropCancelled(w) \/ FinishTask(w)
    <3>1. results' = results
      BY <2>2 DEF Next, Callers, Worker, Submit, Cancel, CancelCurrent, Shutdown, PutSentinel,
         CheckShutdown, Get, GetTimeout, SkipTask, StartTask, RunnerEnds, vars
    <3> QED BY <3>1 DEF ResultsAreBounded
  <2> QED BY <2>1, <2>2
<1> QED BY Invariant, <1>1, <1>2, PTL DEF Spec

-----------------------------------------------------------------------------
(* With ids of their own, every live task is the object its id leads to, so *)
(* cancel() reaches it.  The property is inductive beside PlaceInv: an      *)
(* entry leaves a table only with the worker that holds the object.         *)
LEMMA LiveStep ==
  ASSUME UniqueIds, TypeOK, PlaceInv, LiveTasksAreCancellable, [Next]_vars
  PROVE  LiveTasksAreCancellable'
<1> USE TaskAssumption DEF TypeOK
<1> DEFINE Goal(t) == /\ Queued(t)' \/ Taken(t)' => pending'[IdOf[t]] = t
                      /\ Executing(t)' => running'[IdOf[t]] = t
<1> SUFFICES ASSUME NEW t \in Tasks
             PROVE  Goal(t)
  BY DEF LiveTasksAreCancellable
<1>0. /\ Queued(t) \/ Taken(t) => pending[IdOf[t]] = t
      /\ Executing(t) => running[IdOf[t]] = t
      /\ t # NoTask /\ IdOf[t] \in Ids
  BY DEF LiveTasksAreCancellable
<1>1. ASSUME NEW s \in Tasks, NEW prio \in Priorities, Submit(s, prio)
      PROVE  Goal(t)
  <2>1. s # t => IdOf[s] # IdOf[t]
    BY DEF UniqueIds
  <2> QED BY <1>0, <1>1, <2>1 DEF Submit, Queued, Taken, Executing
<1>2. CASE PutSentinel
  BY <1>0, <1>2 DEF PutSentinel, Queued, Taken, Executing
<1>3. ASSUME UNCHANGED <<queue, pending, running, held, pc>>
      PROVE  Goal(t)
  BY <1>0, <1>3 DEF Queued, Taken, Executing
<1>4. ASSUME NEW w \in Workers, Worker(w)
      PROVE  Goal(t)
  <2>1. CASE CheckShutdown(w) \/ GetTimeout(w)
    BY <1>0, <2>1 DEF CheckShutdown, GetTimeout, Queued, Taken, Executing
  <2>2. CASE Get(w)
    BY <1>0, <2>2 DEF Get, Queued, Taken, Executing
  <2>3. CASE SkipTask(w)
    BY <1>0, <2>3 DEF SkipTask, Queued, Taken, Executing
  <2>4. CASE DropCancelled(w)
    <3>1. CASE held[w] = t
      BY <1>0, <2>4, <3>1 DEF DropCancelled, Queued, Taken, Executing, PlaceInv, HandsOK
    <3>2. CASE held[w] # t
      <4>1. held[w] \in Tasks /\ IdOf[held[w]] # IdOf[t]
        BY <2>4, <3>2 DEF DropCancelled, UniqueIds, PlaceInv, HandsOK, Busy
      <4> QED BY <1>0, <2>4, <3>2, <4>1 DEF DropCancelled, Queued, Taken, Executing
    <3> QED BY <3>1, <3>2
  <2>5. CASE StartTask(w)
    <3>1. CASE held[w] = t
      BY <1>0, <2>5, <3>1 DEF StartTask, Queued, Taken, Executing, PlaceInv, HandsOK
    <3>2. CASE held[w] # t
      <4>1. held[w] \in Tasks /\ IdOf[held[w]] # IdOf[t]
        BY <2>5, <3>2 DEF StartTask, UniqueIds, PlaceInv, HandsOK, Busy
      <4> QED BY <1>0, <2>5, <3>2, <4>1 DEF StartTask, Queued, Taken, Executing
    <3> QED BY <3>1, <3>2
  <2>6. CASE \E status \in Statuses : RunnerEnds(w, status)
    BY <1>0, <2>6 DEF RunnerEnds, Queued, Taken, Executing
  <2>7. CASE FinishTask(w)
    <3>1. CASE held[w] = t
      BY <1>0, <2>7, <3>1 DEF FinishTask, Queued, Taken, Executing, PlaceInv, HandsOK
    <3>2. CASE held[w] # t
      <4>1. held[w] \in Tasks /\ IdOf[held[w]] # IdOf[t]
        BY <2>7, <3>2 DEF FinishTask, UniqueIds, PlaceInv, HandsOK, Busy
      <4> QED BY <1>0, <2>7, <3>2, <4>1 DEF FinishTask, Queued, Taken, Executing
    <3> QED BY <3>1, <3>2
  <2> QED BY <1>4, <2>1, <2>2, <2>3, <2>4, <2>5, <2>6, <2>7 DEF Worker
<1> QED BY <1>1, <1>2, <1>3, <1>4 DEF Next, Callers, Cancel, CancelCurrent, Shutdown, vars

(* cancel(id) finds every task that is queued, taken or executing, provided *)
(* no two submissions carry the same id.                                    *)
THEOREM Cancellable == ASSUME UniqueIds PROVE Spec => []LiveTasksAreCancellable
<1>1. Init => LiveTasksAreCancellable
  BY TaskAssumption DEF Init, LiveTasksAreCancellable, Queued, Taken, Executing
<1>2. TypeOK /\ PlaceInv /\ LiveTasksAreCancellable /\ [Next]_vars => LiveTasksAreCancellable'
  BY UniqueIds, LiveStep
<1> QED BY Invariant, <1>1, <1>2, PTL DEF Spec

(* After shutdown(cancel_pending=True) no runner begins, not even on a      *)
(* worker already past the shutdown check: what such a worker takes off the *)
(* queue is the registered object of its id, and that one was signalled.    *)
THEOREM ShutdownFinal == ASSUME UniqueIds PROVE Spec => CancellingShutdownIsFinal
<1>1. Init => LiveTasksAreCancellable
  BY TaskAssumption DEF Init, LiveTasksAreCancellable, Queued, Taken, Executing
<1>2. TypeOK /\ PlaceInv /\ LiveTasksAreCancellable /\ [Next]_vars => LiveTasksAreCancellable'
  BY UniqueIds, LiveStep
<1>3. TypeOK /\ PlaceInv /\ LiveTasksAreCancellable /\ [Next]_vars
        => [shutdown /\ LiveIn(pending) \subseteq cancelled
              => /\ LiveIn(pending)' \subseteq cancelled'
                 /\ \A t \in Tasks : Executing(t)' => Executing(t)]_vars
  <2> SUFFICES ASSUME TypeOK, PlaceInv, LiveTasksAreCancellable, Next,
                      shutdown, LiveIn(pending) \subseteq cancelled
               PROVE  /\ LiveIn(pending)' \subseteq cancelled'
                      /\ \A t \in Tasks : Executing(t)' => Executing(t)
    OBVIOUS
  <2> USE TaskAssumption DEF TypeOK
  <2>1. cancelled \subseteq cancelled'
    BY DEF Next, Callers, Worker, Submit, Cancel, CancelCurrent, Shutdown, PutSentinel,
       CheckShutdown, Get, GetTimeout, SkipTask, DropCancelled, StartTask, RunnerEnds, FinishTask
  <2>2. \A i \in Ids : pending'[i] = pending[i] \/ pending'[i] = NoTask
    BY DEF Next, Callers, Worker, Submit, Cancel, CancelCurrent, Shutdown, PutSentinel,
       CheckShutdown, Get, GetTimeout, SkipTask, DropCancelled, StartTask, RunnerEnds, FinishTask
  <2>3. \A w \in Workers : ~StartTask(w)
    <3> SUFFICES ASSUME NEW w \in Workers, StartTask(w)
                 PROVE  FALSE
      OBVIOUS
    <3>1. held[w] \in Tasks /\ Taken(held[w])
      BY DEF StartTask, PlaceInv, HandsOK, Busy, Taken
    <3>2. pending[IdOf[held[w]]] = held[w]
      BY <3>1 DEF LiveTasksAreCancellable
    <3> QED BY <3>1, <3>2 DEF StartTask, LiveIn
  <2>4. ASSUME NEW t \in Tasks, NEW w \in Workers, held'[w] = t, pc'[w] \in {"run", "store"}
        PROVE  held[w] = t /\ pc[w] \in {"run", "store"}
    <3>1. CASE \E v \in Workers : Worker(v)
      <4> PICK v \in Workers : Worker(v)
        BY <3>1
      <4>1. CASE CheckShutdown(v) \/ GetTimeout(v) \/ Get(v)
        BY <2>4, <4>1 DEF CheckShutdown, Get, GetTimeout
      <4>2. CASE SkipTask(v) \/ DropCancelled(v) \/ FinishTask(v)
        BY <2>4, <4>2 DEF SkipTask, DropCancelled, FinishTask
      <4>3. CASE \E status \in Statuses : RunnerEnds(v, status)
        BY <2>4, <4>3 DEF RunnerEnds
      <4> QED BY <2>3, <4>1, <4>2, <4>3 DEF Worker
    <3>2. CASE Callers
      BY <2>4, <3>2 DEF Callers, Submit, Cancel, CancelCurrent, Shutdown, PutSentinel
    <3> QED BY <3>1, <3>2 DEF Next
  <2> QED BY <2>1, <2>2, <2>4 DEF LiveIn, Executing
<1> QED BY Invariant, <1>1, <1>2, <1>3, PTL DEF Spec, CancellingShutdownIsFinal

-----------------------------------------------------------------------------
(* The life of a task, as status() reads it from the tables.  The table of  *)
(* results has one row for an id, and an outcome "cancelled" that waits for *)
(* the lock belongs to a task that was cancelled.                           *)
OneRow(table) == \A j, k \in DOMAIN table : table[j].id = table[k].id => j = k

OneRowEach == OneRow(results)

OutcomeOK == \A w \in Workers : pc[w] = "store" /\ outcome[w] = "cancelled" => held[w] \in cancelled

LifeInv ==
  /\ TypeOK /\ PlaceInv
  /\ LiveTasksAreCancellable /\ ResultsAreBounded
  /\ OneRowEach /\ OutcomeOK

(* What self._results[id] = r leaves in the table.                          *)
LEMMA OverwriteRow ==
  ASSUME NEW table \in Seq(ResultRecords), OneRow(table), NEW r \in ResultRecords
  PROVE  /\ Overwrite(table, r) \in Seq(ResultRecords) /\ OneRow(Overwrite(table, r))
         /\ \A k \in DOMAIN Overwrite(table, r) :
              Overwrite(table, r)[k].id = r.id => Overwrite(table, r)[k] = r
         /\ \A k \in DOMAIN Overwrite(table, r) :
              Overwrite(table, r)[k].id # r.id => \E j \in DOMAIN table : table[j] = Overwrite(table, r)[k]
         /\ \/ Len(Overwrite(table, r)) = Len(table) /\ \E k \in DOMAIN table : Overwrite(table, r)[k] = r
            \/ Len(Overwrite(table, r)) = Len(table) + 1 /\ Overwrite(table, r)[Len(table) + 1] = r
<1>1. Len(table) \in Nat /\ DOMAIN table = 1 .. Len(table)
  BY LenProperties
<1>2. \A k \in 1 .. Len(table) : table[k] \in ResultRecords
  BY ElementOfSeq
<1> DEFINE long == Overwrite(table, r)
<1>3. CASE \E k \in DOMAIN table : table[k].id = r.id
  <2> DEFINE g == [k \in 1 .. Len(table) |-> IF table[k].id = r.id THEN r ELSE table[k]]
  <2>1. long = g
    BY <1>1, <1>3 DEF Overwrite
  <2>2. g \in [1 .. Len(table) -> ResultRecords]
    BY <1>2
  <2>3. g \in Seq(ResultRecords) /\ Len(g) = Len(table) /\ DOMAIN g = 1 .. Len(table)
    BY <1>1, <2>2, SeqDef, LenProperties
  <2>4. \A k \in 1 .. Len(table) : g[k] = IF table[k].id = r.id THEN r ELSE table[k]
    OBVIOUS
  <2> HIDE DEF g, long
  <2>5. \A k \in 1 .. Len(table) : g[k].id = table[k].id
    BY <2>4
  <2>6. OneRow(g)
    BY <1>1, <2>3, <2>5 DEF OneRow
  <2>7. /\ \A k \in DOMAIN g : g[k].id = r.id => g[k] = r
        /\ \A k \in DOMAIN g : g[k].id # r.id => \E j \in DOMAIN table : table[j] = g[k]
    BY <1>1, <2>3, <2>4
  <2>8. \E k \in DOMAIN table : g[k] = r
    BY <1>1, <1>3, <2>4
  <2> QED
    BY <2>1, <2>3, <2>6, <2>7, <2>8 DEF long
<1>4. CASE ~ \E k \in DOMAIN table : table[k].id = r.id
  <2> DEFINE g == Append(table, r)
  <2>1. long = g
    BY <1>4 DEF Overwrite
  <2>2. /\ g \in Seq(ResultRecords) /\ Len(g) = Len(table) + 1
        /\ \A k \in 1 .. Len(table) : g[k] = table[k]
        /\ g[Len(table) + 1] = r
    BY AppendProperties
  <2> HIDE DEF g, long
  <2>3. DOMAIN g = 1 .. Len(table) + 1
    BY <2>2, LenProperties
  <2>4. \A k \in DOMAIN g : k \in DOMAIN table \/ k = Len(table) + 1
    BY <1>1, <2>3
  <2>5. \A k \in DOMAIN table : g[k] = table[k] /\ g[k].id # r.id
    BY <1>1, <1>4, <2>2
  <2>6. OneRow(g)
    BY <2>2, <2>4, <2>5 DEF OneRow
  <2>7. /\ \A k \in DOMAIN g : g[k].id = r.id => g[k] = r
        /\ \A k \in DOMAIN g : g[k].id # r.id => \E j \in DOMAIN table : table[j] = g[k]
    BY <2>2, <2>4, <2>5
  <2> QED
    BY <2>1, <2>2, <2>6, <2>7 DEF long
<1> QED
  BY <1>3, <1>4

(* After a result is stored its id has that row, no id has two, and a row   *)
(* of another id was there before.                                          *)
LEMMA StoredRow ==
  ASSUME results \in Seq(ResultRecords), OneRow(results), ResultsAreBounded,
         NEW t \in Tasks, NEW status \in Statuses, NEW table, table = StoreResult(t, status)
  PROVE  /\ OneRow(table)
         /\ \E k \in DOMAIN table : table[k] = [id |-> IdOf[t], status |-> status]
         /\ \A k \in DOMAIN table :
              \/ table[k] = [id |-> IdOf[t], status |-> status]
              \/ table[k].id # IdOf[t] /\ \E j \in DOMAIN results : results[j] = table[k]
<1> DEFINE r == [id |-> IdOf[t], status |-> status]
           long == Overwrite(results, r)
<1>1. r \in ResultRecords /\ r.id = IdOf[t]
  BY TaskAssumption DEF ResultRecords
<1>2. Len(results) \in Nat /\ DOMAIN results = 1 .. Len(results) /\ Len(results) <= MaxResults
  BY LenProperties DEF ResultsAreBounded
<1>3. table = Trim(long)
  BY DEF StoreResult
<1> HIDE DEF r
<1>4. /\ long \in Seq(ResultRecords) /\ OneRow(long)
      /\ \A k \in DOMAIN long : long[k].id = r.id => long[k] = r
      /\ \A k \in DOMAIN long : long[k].id # r.id => \E j \in DOMAIN results : results[j] = long[k]
      /\ \/ Len(long) = Len(results) /\ \E k \in DOMAIN results : long[k] = r
         \/ Len(long) = Len(results) + 1 /\ long[Len(results) + 1] = r
  BY <1>1, OverwriteRow
<1> HIDE DEF long
<1>5. DOMAIN long = 1 .. Len(long) /\ Len(long) \in Nat
  BY <1>4, LenProperties
<1>6. /\ OneRow(table)
      /\ \E k \in DOMAIN table : table[k] = r
      /\ \A k \in DOMAIN table : \E j \in DOMAIN long : table[k] = long[j]
  <2>1. CASE ~(Len(long) > MaxResults)
    <3>1. table = long
      BY <1>3, <2>1 DEF Trim
    <3>2. \E k \in DOMAIN long : long[k] = r
      <4>1. CASE Len(long) = Len(results) /\ \E k \in DOMAIN results : long[k] = r
        BY <1>2, <1>5, <4>1
      <4>2. CASE Len(long) = Len(results) + 1 /\ long[Len(results) + 1] = r
        <5>1. Len(results) + 1 \in DOMAIN long
          BY <1>2, <1>5, <4>2
        <5> QED
          BY <4>2, <5>1
      <4> QED
        BY <1>4, <4>1, <4>2
    <3> QED
      BY <1>4, <3>1, <3>2
  <2>2. CASE Len(long) > MaxResults
    <3> DEFINE m == Len(long) - MaxResults + 1
    <3>1. table = SubSeq(long, m, Len(long))
      BY <1>3, <2>2 DEF Trim
    <3>2. m \in Int /\ m >= 1 /\ m <= Len(long) /\ Len(long) - m + 1 = MaxResults
      BY <1>5, <2>2, TaskAssumption
    <3>3. Len(long) = Len(results) + 1 /\ long[Len(long)] = r
      <4>1. Len(long) # Len(results)
        <5>1. Len(results) <= MaxResults /\ Len(results) \in Nat /\ MaxResults \in Nat
          BY <1>2, TaskAssumption
        <5> QED
          BY <1>5, <2>2, <5>1
      <4> QED
        BY <1>4, <4>1
    <3> HIDE DEF m
    <3>4. \A k \in m .. Len(long) : long[k] \in ResultRecords
      <4>1. \A k \in m .. Len(long) : k \in 1 .. Len(long)
        BY <1>5, <3>2
      <4>2. \A k \in 1 .. Len(long) : long[k] \in ResultRecords
        BY <1>4, ElementOfSeq
      <4> QED
        BY <4>1, <4>2
    <3>5. /\ table \in Seq(ResultRecords) /\ Len(table) = MaxResults
          /\ \A k \in 1 .. MaxResults : table[k] = long[m + k - 1]
      <4> DEFINE n == Len(long)
      <4>1. n \in Int
        BY <1>5
      <4>2. \A k \in m .. n : long[k] \in ResultRecords
        BY <3>4
      <4>3. m <= n /\ n - m + 1 = MaxResults
        BY <3>2
      <4>4. table = SubSeq(long, m, n)
        BY <3>1
      <4> HIDE DEF n
      <4>5. /\ SubSeq(long, m, n) \in Seq(ResultRecords)
            /\ Len(SubSeq(long, m, n)) = IF m <= n THEN n - m + 1 ELSE 0
            /\ \A k \in 1 .. n - m + 1 : SubSeq(long, m, n)[k] = long[m + k - 1]
        BY <3>2, <4>1, <4>2, SubSeqProperties
      <4> QED
        BY <4>3, <4>4, <4>5
    <3>6. DOMAIN table = 1 .. MaxResults
      BY <3>5, LenProperties
    <3>7. \A k \in 1 .. MaxResults : m + k - 1 \in DOMAIN long
      BY <1>5, <3>2, TaskAssumption
    <3>8. m + MaxResults - 1 = Len(long) /\ MaxResults \in 1 .. MaxResults
      BY <1>5, <3>2, TaskAssumption
    <3>9. \A j, k \in 1 .. MaxResults : m + j - 1 = m + k - 1 => j = k
      BY <3>2, TaskAssumption
    <3> QED
      BY <1>4, <3>3, <3>5, <3>6, <3>7, <3>8, <3>9 DEF OneRow
  <2> QED
    BY <2>1, <2>2
<1>7. \A k \in DOMAIN table :
        table[k] = r \/ (table[k].id # r.id /\ \E j \in DOMAIN results : results[j] = table[k])
  BY <1>4, <1>6
<1> QED
  BY <1>1, <1>6, <1>7 DEF r

(* What status() answers for a task in the table of results, or in none.    *)
SettledLives ==
  \A t \in Tasks, status \in Statuses :
    /\ t \in submitted /\ pending[IdOf[t]] # t /\ running[IdOf[t]] # t
    /\ Settled(IdOf[t], status)
    => LifeOf(t) = status

LEMMA SettledLife == OneRowEach => SettledLives
<1> SUFFICES ASSUME OneRow(results), NEW t \in Tasks, NEW status \in Statuses,
                    t \in submitted, pending[IdOf[t]] # t, running[IdOf[t]] # t,
                    Settled(IdOf[t], status)
             PROVE  LifeOf(t) = status
  BY DEF OneRowEach, SettledLives
<1>1. \A s \in Statuses : Settled(IdOf[t], s) => s = status
  BY DEF Settled, OneRow
<1> DEFINE c == CHOOSE s \in Statuses : Settled(IdOf[t], s)
<1>2. c \in Statuses /\ Settled(IdOf[t], c)
  OBVIOUS
<1>3. LifeOf(t) = c
  BY DEF LifeOf
<1> HIDE DEF c
<1> QED
  BY <1>1, <1>2, <1>3

LEMMA OtherLife ==
  \A t \in Tasks :
    /\ t \notin submitted => LifeOf(t) = "new"
    /\ t \in submitted /\ pending[IdOf[t]] = t => LifeOf(t) = "pending"
    /\ t \in submitted /\ pending[IdOf[t]] # t /\ running[IdOf[t]] = t => LifeOf(t) = "running"
    /\ /\ t \in submitted /\ pending[IdOf[t]] # t /\ running[IdOf[t]] # t
       /\ ~ \E status \in Statuses : Settled(IdOf[t], status)
       => LifeOf(t) = "forgotten"
  BY DEF LifeOf

(* A registered task was submitted, and is alive.                           *)
LEMMA LiveLife ==
  ASSUME LifeInv, NEW t \in Tasks
  PROVE  /\ pending[IdOf[t]] = t => LifeOf(t) = "pending"
         /\ running[IdOf[t]] = t => LifeOf(t) \in {"pending", "running"}
         /\ LifeOf(t) \in {"pending", "running"} => pending[IdOf[t]] = t \/ running[IdOf[t]] = t
<1>1. IdOf[t] \in Ids /\ t # NoTask
  BY TaskAssumption
<1>2. pending[IdOf[t]] = t => t \in submitted
  BY <1>1 DEF LifeInv, PlaceInv, PendingOK
<1>3. running[IdOf[t]] = t => t \in submitted
  BY <1>1 DEF LifeInv, PlaceInv, RunningOK, HandsOK, Executing, Busy
<1>4. LifeOf(t) \in {"pending", "running"} => pending[IdOf[t]] = t \/ running[IdOf[t]] = t
  <2> SUFFICES ASSUME pending[IdOf[t]] # t, running[IdOf[t]] # t
               PROVE  LifeOf(t) \notin {"pending", "running"}
    OBVIOUS
  <2>1. CASE t \in submitted /\ \E status \in Statuses : Settled(IdOf[t], status)
    BY <2>1, SettledLife DEF LifeInv, SettledLives, Statuses
  <2>2. CASE ~(t \in submitted /\ \E status \in Statuses : Settled(IdOf[t], status))
    BY <2>2, OtherLife
  <2> QED
    BY <2>1, <2>2
<1> QED
  BY <1>2, <1>3, <1>4, OtherLife

(* A step that changes no table changes no life.                            *)
LEMMA SameLives ==
  UNCHANGED <<submitted, pending, running, results>> => \A t \in Tasks : LifeOf(t)' = LifeOf(t)
  BY DEF LifeOf, Settled

(* DropCancelled and FinishTask: the task that is settled leaves its table,  *)
(* and its result may push others out of the table of results.              *)
LEMMA SettleLife ==
  ASSUME UniqueIds, LifeInv, LifeInv', NEW t \in Tasks, NEW status \in Statuses,
         t \in submitted, LifeOf(t) = "running" \/ (LifeOf(t) = "pending" /\ status = "cancelled"),
         status = "cancelled" => t \in cancelled,
         results' = StoreResult(t, status),
         pending'[IdOf[t]] # t, running'[IdOf[t]] # t,
         \A s \in Tasks \ {t} : pending'[IdOf[s]] = pending[IdOf[s]] /\ running'[IdOf[s]] = running[IdOf[s]],
         UNCHANGED <<submitted, cancelled, shutdown>>
  PROVE  Lifecycle!Next
<1>1. /\ \E k \in DOMAIN results' : results'[k] = [id |-> IdOf[t], status |-> status]
      /\ \A k \in DOMAIN results' :
           \/ results'[k] = [id |-> IdOf[t], status |-> status]
           \/ results'[k].id # IdOf[t] /\ \E j \in DOMAIN results : results[j] = results'[k]
  BY StoredRow DEF LifeInv, OneRowEach, TypeOK
<1>2. LifeOf(t)' = status
  <2>1. Settled(IdOf[t], status)'
    BY <1>1 DEF Settled
  <2>2. SettledLives'
    <3>1. OneRowEach'
      BY DEF LifeInv
    <3> QED
      BY <3>1, SettledLife, PTL
  <2> QED
    BY <2>1, <2>2 DEF SettledLives
<1>3. ASSUME NEW s \in Tasks \ {t}
      PROVE  LifeOf(s)' = LifeOf(s) \/ (LifeOf(s)' = "forgotten" /\ LifeOf(s) \in Statuses)
  <2>1. IdOf[s] # IdOf[t]
    BY DEF UniqueIds
  <2>2. \A st \in Statuses : Settled(IdOf[s], st)' => Settled(IdOf[s], st)
    BY <1>1, <2>1 DEF Settled
  <2>3. CASE s \notin submitted \/ pending[IdOf[s]] = s \/ running[IdOf[s]] = s
    BY <2>3 DEF LifeOf
  <2>4. CASE s \in submitted /\ pending[IdOf[s]] # s /\ running[IdOf[s]] # s
    <3>1. (s \in submitted /\ pending[IdOf[s]] # s /\ running[IdOf[s]] # s)'
      BY <2>4
    <3>2. CASE ~ \E st \in Statuses : Settled(IdOf[s], st)'
      <4>1. LifeOf(s)' = "forgotten"
        BY <3>1, <3>2 DEF LifeOf
      <4>2. LifeOf(s) \in Statuses \cup {"forgotten"}
        BY <2>4 DEF LifeOf
      <4> QED
        BY <4>1, <4>2
    <3>3. ASSUME NEW st \in Statuses, Settled(IdOf[s], st)' PROVE LifeOf(s)' = LifeOf(s)
      <4>1. LifeOf(s) = st
        BY <2>2, <2>4, <3>3, SettledLife DEF LifeInv, SettledLives
      <4>2. SettledLives'
        <5>1. OneRowEach'
          BY DEF LifeInv
        <5> QED
          BY <5>1, SettledLife, PTL
      <4>3. LifeOf(s)' = st
        BY <3>1, <3>3, <4>2 DEF SettledLives
      <4> QED
        BY <4>1, <4>3
    <3> QED
      BY <3>2, <3>3
  <2> QED
    BY <2>3, <2>4
<1> DEFINE Gone == {s \in Tasks \ {t} : LifeOf(s)' # LifeOf(s)}
<1>4. \A s \in Gone : LifeOf(s)' = "forgotten" /\ LifeOf(s) \in Statuses
  BY <1>3
<1>5. \A s \in Tasks : LifeOf(s)' = IF s = t THEN status ELSE IF s \in Gone THEN "forgotten" ELSE LifeOf(s)
  BY <1>2, <1>4
<1>6. Gone \in SUBSET Tasks
  OBVIOUS
<1> HIDE DEF Gone
<1>7. [s \in Tasks |-> LifeOf(s)'] =
        [s \in Tasks |-> IF s = t THEN status ELSE IF s \in Gone THEN "forgotten" ELSE [u \in Tasks |-> LifeOf(u)][s]]
  BY <1>5
<1>8. Lifecycle!Settle(t, status, Gone)
  BY <1>4, <1>6, <1>7 DEF Lifecycle!Settle, Lifecycle!Terminal, Statuses
<1> QED
  BY <1>6, <1>8 DEF Lifecycle!Next, Lifecycle!Terminal, Statuses

LEMMA OutcomeStep ==
  ASSUME TypeOK, PlaceInv, OutcomeOK, [Next]_vars
  PROVE  OutcomeOK'
<1> SUFFICES ASSUME NEW w \in Workers, pc'[w] = "store", outcome'[w] = "cancelled"
             PROVE  held'[w] \in cancelled'
  BY DEF OutcomeOK
<1> USE DEF TypeOK
<1>1. CASE Callers
  BY <1>1 DEF OutcomeOK, Callers, Submit, Cancel, CancelCurrent, Shutdown, PutSentinel
<1>2. ASSUME NEW v \in Workers, Worker(v)
      PROVE  held'[w] \in cancelled'
  <2>1. CASE CheckShutdown(v) \/ GetTimeout(v) \/ Get(v)
    BY <2>1 DEF OutcomeOK, CheckShutdown, GetTimeout, Get
  <2>2. CASE SkipTask(v) \/ DropCancelled(v) \/ StartTask(v) \/ FinishTask(v)
    BY <2>2 DEF OutcomeOK, SkipTask, DropCancelled, StartTask, FinishTask
  <2>3. ASSUME NEW status \in Statuses, RunnerEnds(v, status)
        PROVE  held'[w] \in cancelled'
    BY <2>3 DEF OutcomeOK, RunnerEnds
  <2> QED
    BY <1>2, <2>1, <2>2, <2>3 DEF Worker
<1>3. CASE UNCHANGED vars
  BY <1>3 DEF OutcomeOK, vars
<1> QED
  BY <1>1, <1>2, <1>3 DEF Next

(* Only two actions store a result, each that of the task it holds.         *)
LEMMA StoresOrNot ==
  ASSUME TypeOK, PlaceInv, [Next]_vars
  PROVE  \/ results' = results
         \/ \E w \in Workers : \E status \in Statuses :
              /\ held[w] \in submitted /\ held[w] \in Tasks
              /\ results' = StoreResult(held[w], status)
<1>1. CASE \E w \in Workers : DropCancelled(w) \/ FinishTask(w)
  <2> PICK w \in Workers : DropCancelled(w) \/ FinishTask(w)
    BY <1>1
  <2>1. held[w] \in submitted /\ held[w] \in Tasks
    BY DEF DropCancelled, FinishTask, PlaceInv, HandsOK, Busy, TypeOK
  <2>2. outcome[w] \in Statuses /\ "cancelled" \in Statuses
    BY DEF TypeOK, Statuses
  <2> QED
    BY <2>1, <2>2 DEF DropCancelled, FinishTask
<1>2. CASE ~ \E w \in Workers : DropCancelled(w) \/ FinishTask(w)
  BY <1>2 DEF Next, Callers, Worker, Submit, Cancel, CancelCurrent, Shutdown, PutSentinel,
     CheckShutdown, Get, GetTimeout, SkipTask, StartTask, RunnerEnds, vars
<1> QED
  BY <1>1, <1>2

LEMMA LifeStep ==
  ASSUME UniqueIds
  PROVE  LifeInv /\ [Next]_vars => LifeInv'
<1> SUFFICES ASSUME LifeInv, [Next]_vars PROVE LifeInv'
  OBVIOUS
<1>1. TypeOK' /\ PlaceInv'
  BY TypeStep, PlaceStep DEF LifeInv, PlaceInv
<1>2. LiveTasksAreCancellable'
  BY LiveStep DEF LifeInv
<1>3. OutcomeOK'
  BY OutcomeStep DEF LifeInv
<1>4. ResultsAreBounded' /\ OneRowEach'
  <2>1. CASE results' = results
    BY <2>1 DEF LifeInv, ResultsAreBounded, OneRowEach
  <2>2. ASSUME NEW t \in Tasks, NEW status \in Statuses, results' = StoreResult(t, status)
        PROVE  ResultsAreBounded' /\ OneRowEach'
    <3>1. Len(results') <= MaxResults
      BY <2>2, StoreResultType DEF LifeInv, TypeOK
    <3>2. OneRow(results')
      BY <2>2, StoredRow DEF LifeInv, TypeOK, OneRowEach
    <3> QED
      BY <3>1, <3>2 DEF ResultsAreBounded, OneRowEach
  <2> QED
    BY <2>1, <2>2, StoresOrNot DEF LifeInv
<1> QED
  BY <1>1, <1>2, <1>3, <1>4 DEF LifeInv

LEMMA LifeInit == Init => LifeInv /\ Lifecycle!Init
<1> SUFFICES ASSUME Init PROVE LifeInv /\ Lifecycle!Init
  OBVIOUS
<1>1. LiveTasksAreCancellable
  BY TaskAssumption DEF Init, LiveTasksAreCancellable, Queued, Taken, Executing
<1>2. ResultsAreBounded /\ OneRowEach
  BY TaskAssumption, EmptySeq DEF Init, ResultsAreBounded, OneRowEach, OneRow
<1>3. OutcomeOK
  BY DEF Init, OutcomeOK
<1>4. Lifecycle!Init
  BY OtherLife DEF Init, Lifecycle!Init
<1> QED
  BY InitInv, <1>1, <1>2, <1>3, <1>4 DEF LifeInv

(* Every step of the queue is a step in the life of its tasks, or none.     *)
LEMMA LifeMaps ==
  ASSUME UniqueIds, LifeInv, LifeInv', [Next]_vars
  PROVE  [Lifecycle!Next]_(Lifecycle!vars)
<1> USE TaskAssumption
<1> DEFINE life == [t \in Tasks |-> LifeOf(t)]
<1>1. ASSUME UNCHANGED <<submitted, pending, running, results>>
      PROVE  [t \in Tasks |-> LifeOf(t)'] = [t \in Tasks |-> LifeOf(t)]
  BY <1>1, SameLives
<1>2. ASSUME UNCHANGED <<submitted, pending, running, results, cancelled, shutdown>>
      PROVE  [Lifecycle!Next]_(Lifecycle!vars)
  BY <1>1, <1>2 DEF Lifecycle!vars
<1>3. ASSUME NEW s \in Tasks, NEW prio \in Priorities, Submit(s, prio)
      PROVE  [Lifecycle!Next]_(Lifecycle!vars)
  <2>1. LifeOf(s) = "new"
    BY <1>3, OtherLife DEF Submit
  <2>2. LifeOf(s)' = "pending"
    <3>1. s \in submitted' /\ pending'[IdOf[s]] = s
      BY <1>3 DEF Submit, LifeInv, TypeOK
    <3> QED
      BY <3>1 DEF LifeOf
  <2>3. \A t \in Tasks \ {s} : LifeOf(t)' = LifeOf(t)
    <3>1. \A t \in Tasks \ {s} : IdOf[t] # IdOf[s]
      BY DEF UniqueIds
    <3> QED
      BY <1>3, <3>1 DEF Submit, LifeOf, Settled, LifeInv, TypeOK
  <2>4. [t \in Tasks |-> LifeOf(t)'] = [[t \in Tasks |-> LifeOf(t)] EXCEPT ![s] = "pending"]
    BY <2>2, <2>3
  <2>5. Lifecycle!Submit(s)
    BY <1>3, <2>1, <2>4 DEF Submit, Lifecycle!Submit
  <2> QED
    BY <2>5 DEF Lifecycle!Next
<1>4. ASSUME NEW told \in SUBSET Tasks, cancelled' = cancelled \cup told,
             \A t \in told : LifeOf(t) \in {"pending", "running"},
             UNCHANGED <<submitted, pending, running, results, shutdown>>
      PROVE  [Lifecycle!Next]_(Lifecycle!vars)
  <2>1. Lifecycle!Signal(told)
    BY <1>1, <1>4 DEF Lifecycle!Signal, Lifecycle!Live
  <2> QED
    BY <2>1 DEF Lifecycle!Next
<1>5. \A i \in Ids : /\ pending[i] # NoTask => pending[i] \in Tasks /\ LifeOf(pending[i]) = "pending"
                     /\ running[i] # NoTask => /\ running[i] \in Tasks
                                               /\ LifeOf(running[i]) \in {"pending", "running"}
  BY LiveLife DEF LifeInv, TypeOK, PlaceInv, PendingOK, RunningOK
<1>6. ASSUME NEW i \in Ids, Cancel(i)
      PROVE  [Lifecycle!Next]_(Lifecycle!vars)
  <2>1. CancelTarget(i) \in Tasks /\ LifeOf(CancelTarget(i)) \in {"pending", "running"}
    BY <1>5, <1>6 DEF Cancel, CancelTarget
  <2>2. PICK t \in Tasks : t = CancelTarget(i)
    BY <2>1
  <2>3. {t} \in SUBSET Tasks /\ (\A u \in {t} : LifeOf(u) \in {"pending", "running"})
    BY <2>1, <2>2
  <2>4. cancelled' = cancelled \cup {t} /\ UNCHANGED <<submitted, pending, running, results, shutdown>>
    BY <1>6, <2>2 DEF Cancel
  <2> QED
    BY <1>4, <2>3, <2>4
<1>7. ASSUME NEW only \in {Ids} \union {{i} : i \in Ids}, CancelCurrent(only)
      PROVE  [Lifecycle!Next]_(Lifecycle!vars)
  <2> DEFINE told == {t \in LiveIn(running) : IdOf[t] \in only}
  <2>1. \A t \in told : t \in Tasks /\ LifeOf(t) \in {"pending", "running"}
    BY <1>5 DEF LiveIn
  <2>2. cancelled' = cancelled \cup told
    BY <1>7 DEF CancelCurrent
  <2> HIDE DEF told
  <2>3. told \in SUBSET Tasks
    BY <2>1
  <2> QED
    BY <1>4, <1>7, <2>1, <2>2, <2>3 DEF CancelCurrent
<1>8. ASSUME NEW cancelPending \in BOOLEAN, Shutdown(cancelPending)
      PROVE  [Lifecycle!Next]_(Lifecycle!vars)
  <2>1. LiveIn(pending) \cup LiveIn(running) = {t \in Tasks : LifeOf(t) \in {"pending", "running"}}
    <3>1. ASSUME NEW t, t \in LiveIn(pending) \cup LiveIn(running)
          PROVE  t \in Tasks /\ LifeOf(t) \in {"pending", "running"}
      BY <1>5, <3>1 DEF LiveIn
    <3>2. ASSUME NEW t \in Tasks, LifeOf(t) \in {"pending", "running"}
          PROVE  t \in LiveIn(pending) \cup LiveIn(running)
      BY <3>2, LiveLife DEF LiveIn
    <3> QED
      BY <3>1, <3>2
  <2>2. /\ shutdown' = TRUE
        /\ \/ cancelled' = cancelled
           \/ cancelled' = cancelled \cup {t \in Tasks : LifeOf(t) \in {"pending", "running"}}
        /\ UNCHANGED <<submitted, pending, running, results>>
    BY <1>8, <2>1 DEF Shutdown
  <2>3. {t \in Tasks : life[t] \in {"pending", "running"}} = {t \in Tasks : LifeOf(t) \in {"pending", "running"}}
    OBVIOUS
  <2>4. Lifecycle!Close
    BY <1>1, <2>2, <2>3 DEF Lifecycle!Close, Lifecycle!Live
  <2> QED
    BY <2>4 DEF Lifecycle!Next
<1>9. ASSUME NEW w \in Workers, DropCancelled(w) \/ StartTask(w)
      PROVE  /\ held[w] \in Tasks /\ held[w] \in submitted /\ held[w] # NoTask
             /\ pending[IdOf[held[w]]] = held[w] /\ LifeOf(held[w]) = "pending"
             /\ running[IdOf[held[w]]] # held[w]
  <2>1. held[w] \in Tasks /\ held[w] \in submitted /\ Taken(held[w])
    BY <1>9 DEF DropCancelled, StartTask, LifeInv, PlaceInv, HandsOK, Busy, TypeOK, Taken
  <2>2. pending[IdOf[held[w]]] = held[w]
    BY <2>1 DEF LifeInv, LiveTasksAreCancellable
  <2>3. ~Executing(held[w])
    BY <1>9, <2>1 DEF DropCancelled, StartTask, Executing, LifeInv, PlaceInv, HandsOK
  <2> QED
    BY <2>1, <2>2, <2>3, LiveLife DEF LifeInv, PlaceInv, RunningOK
<1>10. ASSUME NEW w \in Workers, DropCancelled(w)
       PROVE  [Lifecycle!Next]_(Lifecycle!vars)
  <2>1. /\ held[w] \in Tasks /\ held[w] \in submitted /\ held[w] # NoTask
        /\ LifeOf(held[w]) = "pending" /\ running[IdOf[held[w]]] # held[w]
    BY <1>9, <1>10
  <2>2. pending'[IdOf[held[w]]] # held[w] /\ running'[IdOf[held[w]]] # held[w]
    BY <1>10, <2>1 DEF DropCancelled, LifeInv, TypeOK
  <2>3. \A s \in Tasks \ {held[w]} :
          pending'[IdOf[s]] = pending[IdOf[s]] /\ running'[IdOf[s]] = running[IdOf[s]]
    BY <1>10, <2>1 DEF DropCancelled, UniqueIds, LifeInv, TypeOK
  <2>4. /\ held[w] \in cancelled /\ "cancelled" \in Statuses
        /\ results' = StoreResult(held[w], "cancelled")
        /\ UNCHANGED <<submitted, cancelled, shutdown>>
    BY <1>10 DEF DropCancelled, Statuses
  <2> QED
    BY <2>1, <2>2, <2>3, <2>4, SettleLife
<1>11. ASSUME NEW w \in Workers, StartTask(w)
       PROVE  [Lifecycle!Next]_(Lifecycle!vars)
  <2>0. PICK t \in Tasks : t = held[w]
    BY <1>9, <1>11
  <2>1. t \in submitted /\ t # NoTask /\ LifeOf(t) = "pending"
    BY <1>9, <1>11, <2>0
  <2>2. LifeOf(t)' = "running"
    <3>1. t \in submitted' /\ pending'[IdOf[t]] # t /\ running'[IdOf[t]] = t
      BY <1>11, <2>0, <2>1 DEF StartTask, LifeInv, TypeOK
    <3> QED
      BY <3>1, <1>11 DEF LifeOf, StartTask
  <2>3. \A s \in Tasks \ {t} : LifeOf(s)' = LifeOf(s)
    <3>1. \A s \in Tasks \ {t} : pending'[IdOf[s]] = pending[IdOf[s]] /\ running'[IdOf[s]] = running[IdOf[s]]
      BY <1>11, <2>0, <2>1 DEF StartTask, UniqueIds, LifeInv, TypeOK
    <3> QED
      BY <1>11, <3>1 DEF StartTask, LifeOf, Settled
  <2>4. t \notin cancelled /\ UNCHANGED <<cancelled, shutdown>>
    BY <1>11, <2>0 DEF StartTask
  <2>5. [s \in Tasks |-> LifeOf(s)'] = [[s \in Tasks |-> LifeOf(s)] EXCEPT ![t] = "running"]
    BY <2>2, <2>3
  <2>6. Lifecycle!Start(t)
    BY <2>1, <2>4, <2>5 DEF Lifecycle!Start
  <2> QED
    BY <2>6 DEF Lifecycle!Next
<1>12. ASSUME NEW w \in Workers, FinishTask(w)
       PROVE  [Lifecycle!Next]_(Lifecycle!vars)
  <2>1. held[w] \in Tasks /\ held[w] \in submitted /\ held[w] # NoTask /\ Executing(held[w])
    BY <1>12 DEF FinishTask, LifeInv, PlaceInv, HandsOK, Busy, TypeOK, Executing
  <2>2. running[IdOf[held[w]]] = held[w]
    BY <2>1 DEF LifeInv, LiveTasksAreCancellable
  <2>3. ~Queued(held[w]) /\ ~Taken(held[w])
    BY <1>12, <2>1 DEF FinishTask, Queued, Taken, LifeInv, PlaceInv, HandsOK
  <2>4. pending[IdOf[held[w]]] # held[w]
    BY <2>1, <2>3 DEF LifeInv, PlaceInv, PendingOK
  <2>5. LifeOf(held[w]) = "running"
    BY <2>1, <2>2, <2>4, OtherLife
  <2>6. pending'[IdOf[held[w]]] # held[w] /\ running'[IdOf[held[w]]] # held[w]
    BY <1>12, <2>1, <2>4 DEF FinishTask, LifeInv, TypeOK
  <2>7. \A s \in Tasks \ {held[w]} :
          pending'[IdOf[s]] = pending[IdOf[s]] /\ running'[IdOf[s]] = running[IdOf[s]]
    BY <1>12, <2>1 DEF FinishTask, UniqueIds, LifeInv, TypeOK
  <2>8. /\ outcome[w] \in Statuses /\ (outcome[w] = "cancelled" => held[w] \in cancelled)
        /\ results' = StoreResult(held[w], outcome[w])
        /\ UNCHANGED <<submitted, cancelled, shutdown>>
    BY <1>12 DEF FinishTask, LifeInv, OutcomeOK, TypeOK
  <2> QED
    BY <2>1, <2>5, <2>6, <2>7, <2>8, SettleLife
<1>13. ASSUME NEW w \in Workers,
              \/ CheckShutdown(w) \/ Get(w) \/ GetTimeout(w) \/ SkipTask(w)
              \/ \E status \in Statuses : RunnerEnds(w, status)
       PROVE  [Lifecycle!Next]_(Lifecycle!vars)
  BY <1>2, <1>13 DEF CheckShutdown, Get, GetTimeout, SkipTask, RunnerEnds
<1>14. CASE PutSentinel
  BY <1>2, <1>14 DEF PutSentinel
<1>15. CASE UNCHANGED vars
  BY <1>2, <1>15 DEF vars
<1> QED
  BY <1>3, <1>6, <1>7, <1>8, <1>10, <1>11, <1>12, <1>13, <1>14, <1>15 DEF Next, Callers, Worker

(* ImplementsLifecycle (TLC: task_queue): read through status(), every task *)
(* goes from pending through running to one terminal state or straight to   *)
(* cancelled, is signalled only while it is alive, never starts once it is, *)
(* and a result that was stored is never revised, only forgotten; for every *)
(* number of tasks, workers and results, with ids that do not repeat.       *)
THEOREM Implements == ASSUME UniqueIds PROVE Spec => ImplementsLifecycle
<1>1. LifeInv /\ [Next]_vars => LifeInv'
  BY UniqueIds, LifeStep
<1>2. LifeInv /\ LifeInv' /\ [Next]_vars => [Lifecycle!Next]_(Lifecycle!vars)
  BY UniqueIds, LifeMaps
<1> QED
  BY <1>1, <1>2, LifeInit, PTL DEF Spec, ImplementsLifecycle, Lifecycle!Spec

-----------------------------------------------------------------------------
(* StepExecution.  A place of the semaphore is free or held by a step; a    *)
(* step that may be tried again has tries left; and a step that started a   *)
(* process after the event is on its way out, past every place from which   *)
(* it could be tried again without looking at the event.                    *)

InSlot == {"check", "asked", "spawn", "register", "wait", "failed"}
Holders == {s \in Step : place[s] \in InSlot}

SlotsAreKept == slots + Cardinality(Holders) = Slots

TriesAreLeft ==
  \A s \in Step : place[s] \in {"begin", "try", "contended", "fixing"} => attempt[s] <= MaxRetries

OnTheWayOut ==
  \A s \in Step : \/ after[s] = 0
                  \/ /\ after[s] = 1 /\ event
                     /\ place[s] \in {"register", "wait", "ended", "finish", "done"}

StepsInv == S!TypeOK /\ SlotsAreKept /\ TriesAreLeft /\ OnTheWayOut

LEMMA StepsInit == S!Init => StepsInv
<1> SUFFICES ASSUME S!Init PROVE StepsInv
  OBVIOUS
<1> USE StepsAssumption
<1>1. S!TypeOK
  <2>1. place \in [Step -> S!Places]
    BY DEF S!Init, S!Places
  <2>2. attempt \in [Step -> 0 .. MaxRetries + 1] /\ after \in [Step -> 0 .. MaxRetries + 1]
    BY DEF S!Init
  <2>3. slots \in 0 .. Slots
    BY DEF S!Init
  <2> QED
    BY <2>1, <2>2, <2>3 DEF S!Init, S!TypeOK
<1>2. SlotsAreKept
  <2>1. Holders = {}
    BY DEF Holders, InSlot, S!Init
  <2> QED
    BY <2>1, FS_EmptySet DEF SlotsAreKept, S!Init
<1> QED
  BY <1>1, <1>2 DEF StepsInv, S!Init, TriesAreLeft, OnTheWayOut

LEMMA HoldersType == IsFiniteSet(Holders) /\ Cardinality(Holders) \in Nat
  BY StepsAssumption, FS_Subset, FS_CardinalityType DEF Holders

(* A thread that moves without taking or leaving a slot.                    *)
LEMMA SlotStays ==
  ASSUME S!TypeOK, SlotsAreKept, NEW s \in Step, NEW q, place' = [place EXCEPT ![s] = q],
         place[s] \in InSlot <=> q \in InSlot, UNCHANGED slots
  PROVE  SlotsAreKept'
<1>1. Holders' = Holders
  BY DEF Holders, S!TypeOK
<1> QED
  BY <1>1 DEF SlotsAreKept

LEMMA SlotTaken ==
  ASSUME S!TypeOK, SlotsAreKept, NEW s \in Step, NEW q, place' = [place EXCEPT ![s] = q],
         place[s] \notin InSlot, q \in InSlot, slots' = slots - 1
  PROVE  SlotsAreKept'
<1>1. Holders' = Holders \union {s} /\ s \notin Holders
  BY DEF Holders, S!TypeOK
<1>2. Cardinality(Holders') = Cardinality(Holders) + 1
  BY <1>1, HoldersType, FS_AddElement
<1> HIDE DEF Holders
<1> QED
  BY <1>2, HoldersType, StepsAssumption DEF SlotsAreKept, S!TypeOK

LEMMA SlotLeft ==
  ASSUME S!TypeOK, SlotsAreKept, NEW s \in Step, NEW q, place' = [place EXCEPT ![s] = q],
         place[s] \in InSlot, q \notin InSlot, slots' = slots + 1
  PROVE  SlotsAreKept' /\ slots' \in 0 .. Slots
<1>1. Holders' = Holders \ {s} /\ s \in Holders
  BY DEF Holders, S!TypeOK
<1>2. Cardinality(Holders') = Cardinality(Holders) - 1
  BY <1>1, HoldersType, FS_RemoveElement
<1>3. Cardinality(Holders) # 0
  BY <1>1, HoldersType, FS_EmptySet
<1>4. SlotsAreKept'
  <2> HIDE DEF Holders
  <2> QED
    BY <1>2, HoldersType, StepsAssumption DEF SlotsAreKept, S!TypeOK
<1>5. slots' \in 0 .. Slots
  <2> HIDE DEF Holders
  <2> QED
    BY <1>3, HoldersType, StepsAssumption DEF SlotsAreKept, S!TypeOK
<1> QED
  BY <1>4, <1>5

(* What a step does to the place of its thread, where it neither takes nor  *)
(* leaves a slot.                                                           *)
EngineStep(s) ==
  S!Begin(s) \/ S!Try(s) \/ S!RunStep(s) \/ S!Ended(s) \/ S!Contended(s) \/ S!Fixed(s) \/ S!Finish(s)

LEMMA StepsEngine == ASSUME StepsInv, NEW s \in Step, EngineStep(s) PROVE StepsInv'
<1> USE StepsAssumption
<1>1. PICK q \in {"try", "step", "finish", "slot", "contended", "fixing", "done"} :
        place' = [place EXCEPT ![s] = q]
  BY DEF EngineStep, S!Begin, S!Try, S!RunStep, S!Ended, S!Contended, S!Fixed, S!Finish, S!Go, S!Ends
<1>2. UNCHANGED <<process, registered, slots, after, event, sweep, listed>>
  BY DEF EngineStep, S!Begin, S!Try, S!RunStep, S!Ended, S!Contended, S!Fixed, S!Finish,
         S!Executor, S!Interrupting
<1>3. place[s] \in {"begin", "try", "step", "ended", "contended", "fixing", "finish"}
  BY DEF EngineStep, S!Begin, S!Try, S!RunStep, S!Ended, S!Contended, S!Fixed, S!Finish
<1>4. \/ attempt' = attempt /\ (q \in {"try", "contended", "fixing"} => attempt[s] <= MaxRetries)
      \/ /\ attempt' = [attempt EXCEPT ![s] = attempt[s] + 1]
         /\ q = "step" /\ attempt[s] <= MaxRetries
  <2>1. CASE S!Try(s)
    BY <1>1, <2>1 DEF S!Try, S!Go, S!Counted, S!TypeOK, StepsInv, TriesAreLeft
  <2>2. CASE ~S!Try(s)
    BY <1>1, <2>2 DEF EngineStep, S!Begin, S!RunStep, S!Ended, S!Contended, S!Fixed, S!Finish,
                      S!Go, S!Ends, S!TypeOK, StepsInv, TriesAreLeft
  <2> QED
    BY <2>1, <2>2
<1>5. ended' \in [Step -> {"none", "ok", "failed", "cancelled"}]
  BY DEF EngineStep, S!Begin, S!Try, S!RunStep, S!Ended, S!Contended, S!Fixed, S!Finish,
         S!Ends, S!TypeOK, StepsInv
<1>6. S!TypeOK'
  <2>1. place' \in [Step -> S!Places]
    BY <1>1 DEF S!TypeOK, StepsInv, S!Places
  <2>2. attempt' \in [Step -> 0 .. MaxRetries + 1]
    BY <1>4 DEF S!TypeOK, StepsInv
  <2> QED
    BY <1>2, <1>5, <2>1, <2>2 DEF S!TypeOK, StepsInv
<1>7. SlotsAreKept'
  BY <1>1, <1>2, <1>3, SlotStays DEF StepsInv, InSlot
<1>8. TriesAreLeft'
  BY <1>1, <1>4 DEF StepsInv, TriesAreLeft, S!TypeOK
<1>9. OnTheWayOut'
  <2>1. event /\ place[s] \in {"ended", "finish"} => q \in {"finish", "done"}
    BY <1>1 DEF EngineStep, S!Begin, S!Try, S!RunStep, S!Ended, S!Contended, S!Fixed, S!Finish,
                S!Go, S!Ends, S!Stops, S!TypeOK, StepsInv
  <2> QED
    BY <1>1, <1>2, <1>3, <2>1 DEF StepsInv, OnTheWayOut, S!TypeOK
<1> QED
  BY <1>6, <1>7, <1>8, <1>9 DEF StepsInv

ExecutorStep(s) ==
  S!TakeSlot(s) \/ S!Check(s) \/ S!Answer(s) \/ S!Spawn(s) \/ S!Register(s) \/ S!Fail(s) \/ S!Awaited(s)

LEMMA StepsExecutor == ASSUME StepsInv, NEW s \in Step, ExecutorStep(s) PROVE StepsInv'
<1> USE StepsAssumption
<1>1. PICK q \in InSlot \union {"ended"} : place' = [place EXCEPT ![s] = q]
  BY DEF ExecutorStep, S!TakeSlot, S!Check, S!Answer, S!Spawn, S!Register, S!Fail, S!Awaited,
         S!Go, InSlot
<1>2. UNCHANGED <<attempt, ended, event, sweep, listed>>
  BY DEF ExecutorStep, S!TakeSlot, S!Check, S!Answer, S!Spawn, S!Register, S!Fail, S!Awaited,
         S!Engine, S!Interrupting
<1>3. process' \in [Step -> {"none", "running", "good", "bad", "killed"}] /\ registered' \subseteq Step
  <2>1. CASE S!TakeSlot(s) \/ S!Check(s) \/ S!Answer(s) \/ S!Spawn(s)
    BY <2>1 DEF S!TakeSlot, S!Check, S!Answer, S!Spawn, S!Executor, StepsInv, S!TypeOK
  <2>2. CASE S!Register(s) \/ S!Fail(s) \/ S!Awaited(s)
    BY <2>2 DEF S!Register, S!Fail, S!Awaited, StepsInv, S!TypeOK
  <2> QED
    BY <2>1, <2>2 DEF ExecutorStep
<1>4. SlotsAreKept' /\ slots' \in 0 .. Slots
  <2>1. CASE S!TakeSlot(s)
    <3>1. place[s] \notin InSlot /\ q \in InSlot /\ slots' = slots - 1 /\ slots > 0
      BY <1>1, <2>1 DEF S!TakeSlot, S!Go, InSlot, StepsInv, S!TypeOK
    <3>2. slots' \in 0 .. Slots
      BY <3>1 DEF StepsInv, S!TypeOK
    <3> QED
      BY <1>1, <3>1, <3>2, SlotTaken DEF StepsInv
  <2>2. CASE S!Check(s) \/ S!Answer(s) \/ S!Spawn(s) \/ S!Register(s)
    <3>1. place[s] \in InSlot /\ q \in InSlot /\ slots' = slots
      BY <1>1, <2>2 DEF S!Check, S!Answer, S!Spawn, S!Register, S!Executor, S!Go, InSlot,
                        StepsInv, S!TypeOK
    <3> QED
      BY <1>1, <3>1, SlotStays DEF StepsInv, S!TypeOK
  <2>3. CASE S!Fail(s) \/ S!Awaited(s)
    <3>1. place[s] \in InSlot /\ q \notin InSlot /\ slots' = slots + 1
      BY <1>1, <2>3 DEF S!Fail, S!Awaited, S!Go, InSlot, StepsInv, S!TypeOK
    <3> QED
      BY <1>1, <3>1, SlotLeft DEF StepsInv
  <2> QED
    BY <2>1, <2>2, <2>3 DEF ExecutorStep
<1>5. OnTheWayOut' /\ after' \in [Step -> 0 .. MaxRetries + 1]
  <2>1. CASE S!Spawn(s)
    <3>1. after[s] = 0
      BY <2>1 DEF S!Spawn, StepsInv, OnTheWayOut
    <3>2. \/ after' = after
          \/ /\ after' = [after EXCEPT ![s] = IF event THEN 1 ELSE 0]
             /\ q = "register"
      BY <1>1, <2>1, <3>1 DEF S!Spawn, S!Go, StepsInv, S!TypeOK
    <3>3. after' \in [Step -> 0 .. MaxRetries + 1]
      BY <3>2 DEF StepsInv, S!TypeOK
    <3>4. OnTheWayOut'
      BY <1>1, <1>2, <3>1, <3>2 DEF StepsInv, S!TypeOK, OnTheWayOut
    <3> QED
      BY <3>3, <3>4
  <2>2. CASE ~S!Spawn(s)
    <3>1. after' = after
      BY <2>2 DEF ExecutorStep, S!TakeSlot, S!Check, S!Answer, S!Register, S!Fail, S!Awaited, S!Executor
    <3>2. place[s] \in {"register", "wait", "ended", "finish", "done"} => q \in {"wait", "ended"}
      BY <1>1, <2>2 DEF ExecutorStep, S!TakeSlot, S!Check, S!Answer, S!Register, S!Fail, S!Awaited,
                        S!Go, StepsInv, S!TypeOK
    <3> QED
      BY <1>1, <1>2, <3>1, <3>2 DEF StepsInv, S!TypeOK, OnTheWayOut
  <2> QED
    BY <2>1, <2>2
<1>6. TriesAreLeft'
  BY <1>1, <1>2 DEF StepsInv, S!TypeOK, TriesAreLeft, InSlot
<1>7. S!TypeOK'
  <2>1. place' \in [Step -> S!Places]
    BY <1>1 DEF InSlot, S!TypeOK, StepsInv, S!Places
  <2> QED
    BY <1>2, <1>3, <1>4, <1>5, <2>1 DEF S!TypeOK, StepsInv
<1> QED
  BY <1>4, <1>5, <1>6, <1>7 DEF StepsInv

SweepStep == S!Interrupt \/ S!List \/ S!Kill \/ S!Swept

LEMMA StepsSweep ==
  ASSUME StepsInv, SweepStep \/ (\E s \in Step : S!Exits(s)) \/ UNCHANGED tries
  PROVE  StepsInv'
<1> USE StepsAssumption
<1>1. UNCHANGED <<place, attempt, slots, ended, registered, after>> /\ (event => event')
  BY DEF SweepStep, S!Interrupt, S!List, S!Kill, S!Swept, S!Exits, S!Threads, tries
<1>2. SlotsAreKept' /\ TriesAreLeft' /\ OnTheWayOut'
  BY <1>1 DEF StepsInv, SlotsAreKept, Holders, TriesAreLeft, OnTheWayOut
<1>3. process' \in [Step -> {"none", "running", "good", "bad", "killed"}]
  BY DEF StepsInv, S!TypeOK, SweepStep, S!Interrupt, S!List, S!Kill, S!Swept, S!Exits, tries
<1>4. listed' \subseteq Step \X Nat
  <2>1. CASE S!List
    BY <2>1 DEF StepsInv, S!TypeOK, S!List
  <2>2. CASE ~S!List
    <3>1. listed' \subseteq listed
      BY <2>2 DEF SweepStep, S!Interrupt, S!Kill, S!Swept, S!Exits, tries
    <3> QED
      BY <3>1 DEF StepsInv, S!TypeOK
  <2> QED
    BY <2>1, <2>2
<1>5. event' \in BOOLEAN /\ sweep' \in {"idle", "list", "kill", "over"}
  BY DEF StepsInv, S!TypeOK, SweepStep, S!Interrupt, S!List, S!Kill, S!Swept, S!Exits, tries
<1> QED
  BY <1>1, <1>2, <1>3, <1>4, <1>5 DEF StepsInv, S!TypeOK

LEMMA StepsNext == StepsInv /\ [S!Next]_tries => StepsInv'
  BY StepsEngine, StepsExecutor, StepsSweep
     DEF S!Next, S!Thread, EngineStep, ExecutorStep, SweepStep

(* OneProcessAfter (TLC: task_queue): however many steps compete for how    *)
(* many slots, a step that is interrupted starts at most the process it was *)
(* about to start (_execute_step_with_retry, run_python, run_shell).        *)
THEOREM OneMoreProcess == Parts => []OneProcessAfter
<1>1. StepsInv => OneProcessAfter
  BY DEF StepsInv, OneProcessAfter, S!OneProcessAfter, OnTheWayOut
<1>2. Start => S!Init
  BY DEF Start
<1>3. [/\ UNCHANGED part
       /\ \/ part = "queue" /\ Next /\ UNCHANGED <<agent, tries>>
          \/ part = "agent" /\ A!Next /\ UNCHANGED <<vars, tries>>
          \/ part = "steps" /\ S!Next /\ UNCHANGED <<vars, agent>>
          \/ part = "steps" /\ AllEnded /\ UNCHANGED <<vars, agent, tries>>]_<<part, vars, agent, tries>>
      => [S!Next]_tries
  OBVIOUS
<1> QED
  BY <1>1, <1>2, <1>3, StepsInit, StepsNext, PTL DEF Parts
=============================================================================

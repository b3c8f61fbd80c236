----------------------------- MODULE EventSpeech -----------------------------
(***************************************************************************)
(* Remarks on events (agent/speech_scheduler.py, EventSpeechScheduler):    *)
(* requests wait until the user may be disturbed, at most one is spoken    *)
(* per tick, each event has a cooldown and each day a limit, and both get  *)
(* stricter the more remarks were ignored.  The counters survive restarts  *)
(* in a file; the requests do not.                                         *)
(*                                                                         *)
(* The GUI thread ticks, any thread requests.  The callback that speaks    *)
(* runs between two steps of a tick: it may fail, or never return, and the *)
(* program may stop meanwhile, whether the user has heard the remark or    *)
(* not.  Time is counted in units of which UnitsPerDay make a day; saving  *)
(* succeeds.                                                               *)
(***************************************************************************)
EXTENDS Integers, Sequences, FiniteSets, SequencesExt

CONSTANTS Event,        \* the events of EVENT_PHRASES
          AwayOnly,     \* those spoken only beside another window: agent_done
          OnceDaily,    \* _ONCE_DAILY
          Cooldown,     \* _EVENT_COOLDOWNS, in units
          UnitsPerDay,
          MaxTime,      \* bound on time
          MaxUnfinished \* bound on remarks heard that the scheduler is not told of

VARIABLES
  now,        \* the clock
  pending,    \* the events of _pending
  dispatch,   \* the message being delivered and the stage of it, or Idle
  last,       \* _last_delivered: event -> time, or Never
  day,        \* _daily_count_date
  count,      \* _daily_count
  streak,     \* _ignored_streak
  reaction,   \* delivered_at of _last_reaction, or Never
  file,       \* the state file
  heard,      \* history: what the user heard, <<event, time>>
  unfinished  \* history: those of which the callback has not told

counters == <<last, day, count, streak>>
history == <<heard, unfinished>>
vars == <<now, pending, dispatch, counters, reaction, file, history>>

Never == -1
Idle == [index |-> 0, event |-> "none", stage |-> "idle"]

\* _dispatching, while the callback runs; after an exception that _flush_one()
\* does not catch it stays set, and the ticks go on without it.
Speaking == dispatch.stage \in {"asked", "heard"}
Day(t) == t \div UnitsPerDay
Least(a, b) == IF a < b THEN a ELSE b

\* Bound: the delivery of a remark that the user has heard can go wrong.
MayGoWrong == dispatch.stage = "heard" => Cardinality(unfinished) <= MaxUnfinished

Init ==
  /\ now = 0 /\ pending = <<>> /\ dispatch = Idle
  /\ last = [e \in Event |-> Never] /\ day = Never /\ count = 0 /\ streak = 0
  /\ reaction = Never /\ heard = {} /\ unfinished = {}
  /\ file = [last |-> last, day |-> day, count |-> count, streak |-> streak]

SaveCounters == file' = [last |-> last', day |-> day', count |-> count', streak |-> streak']

\* request(): a waiting request of the same event is replaced in its place.
Request ==
  /\ \E e \in Event : pending' = IF e \in ToSet(pending) THEN pending ELSE Append(pending, e)
  /\ UNCHANGED <<now, dispatch, counters, reaction, file, history>>

\* _update_ignored_streak(), in a tick long enough after the last remark; the
\* time of the last interaction may be unreadable.
Judge ==
  /\ ~Speaking
  /\ reaction # Never /\ now > reaction
  /\ streak' \in {0, streak + 1} /\ reaction' = Never
  /\ UNCHANGED <<now, pending, dispatch, last, day, count, history>>
  /\ SaveCounters

DailyLimit == 3 - Least(streak, 2)
Cooling(e) == now - last[e] < Cooldown[e] * 2 ^ Least(streak, 3)

\* _is_event_allowed().
IsAllowed(e) ==
  /\ last[e] # Never => ~(e \in OnceDaily /\ Day(last[e]) = Day(now)) /\ ~Cooling(e)
  /\ day = Day(now) => count < DailyLimit

\* _flush_one(), the first part, when no guard holds: the first request that is
\* allowed, with or without another window in front.
Select ==
  /\ dispatch = Idle
  /\ \E skipped \in {{}, AwayOnly}, i \in DOMAIN pending :
       LET Fits(j) == pending[j] \notin skipped /\ IsAllowed(pending[j])
       IN /\ Fits(i) /\ \A j \in 1..(i - 1) : ~Fits(j)
          /\ \/ /\ dispatch' = [index |-> i, event |-> pending[i], stage |-> "asked"]
                /\ UNCHANGED pending
             \/ pending' = RemoveAt(pending, i) /\ UNCHANGED dispatch  \* no phrase
  /\ UNCHANGED <<now, counters, reaction, file, history>>

\* The callback has the remark spoken.
Speak ==
  /\ dispatch.stage = "asked"
  /\ dispatch' = [dispatch EXCEPT !.stage = "heard"]
  /\ heard' = heard \cup {<<dispatch.event, now>>}
  /\ unfinished' = unfinished \cup {<<dispatch.event, now>>}
  /\ UNCHANGED <<now, pending, counters, reaction, file>>

\* The callback fails: the request stays.  What the list of caught exceptions
\* does not have leaves _dispatching set.
NotSpoken ==
  /\ Speaking /\ MayGoWrong
  /\ dispatch' \in {Idle, [dispatch EXCEPT !.stage = "stuck"]}
  /\ UNCHANGED <<now, pending, counters, reaction, file, history>>

\* The callback returns, also when the user heard nothing (tts_wrapper()).
Deliver ==
  /\ Speaking
  /\ LET i == dispatch.index
         e == dispatch.event
     IN /\ pending' = IF i <= Len(pending) /\ pending[i] = e THEN RemoveAt(pending, i) ELSE pending
        /\ last' = [last EXCEPT ![e] = now]
        /\ count' = IF day = Day(now) THEN count + 1 ELSE 1
        /\ unfinished' = unfinished \ {<<e, now>>}
  /\ day' = Day(now) /\ reaction' = now /\ dispatch' = Idle
  /\ UNCHANGED <<now, streak, heard>>
  /\ SaveCounters

\* The clock; a tick of the GUI thread sees one time.
Wait ==
  /\ ~Speaking /\ now < MaxTime
  /\ now' = now + 1
  /\ UNCHANGED <<pending, dispatch, counters, reaction, file, history>>

\* The program ends, wherever it is, and is started again: __init__, _load().
\* mutant: the count is not restored.
LoadedForgetful ==
  last' = file.last /\ day' = file.day /\ count' = 0 /\ streak' = file.streak
Loaded ==
  last' = file.last /\ day' = file.day /\ count' = file.count /\ streak' = file.streak

Restart ==
  /\ MayGoWrong
  /\ Loaded
  /\ pending' = <<>> /\ reaction' = Never /\ dispatch' = Idle
  /\ UNCHANGED <<now, file, history>>

Next == \/ Request \/ Judge \/ Select \/ Speak \/ NotSpoken \/ Deliver
        \/ Wait \/ Restart

Spec == Init /\ [][Next]_vars

-----------------------------------------------------------------------------
TypeOK ==
  /\ now \in 0..MaxTime /\ ToSet(pending) \subseteq Event
  /\ dispatch = Idle \/ /\ dispatch.event \in Event
                        /\ dispatch.stage \in {"asked", "heard", "stuck"}
  /\ last \in [Event -> Never..MaxTime] /\ count \in 0..3 /\ streak \in Nat
  /\ day \in Never..MaxTime /\ reaction \in Never..MaxTime
  /\ unfinished \subseteq heard

\* The remarks the scheduler was told of: not those a stop of the program or a
\* failure of the callback came upon after the user had heard them.
Known == heard \ unfinished
Today(hs) == {h \in hs : Day(h[2]) = Day(now)}

\* However the program was stopped and restarted, in the middle of a delivery
\* included, and whatever was ignored: when the user hears a remark, the
\* scheduler has been told of at most two others on this day, of none of the
\* same event within its cooldown, and of no once-a-day event on this day.
UserIsNotPestered ==
  [][Speak => LET e == dispatch.event
              IN /\ Cardinality(Today(Known)) < 3
                 /\ \A h \in Known : h[1] = e => now - h[2] >= Cooldown[e]
                 /\ e \in OnceDaily => \A h \in Today(Known) : h[1] # e]_vars
=============================================================================

---------------------------- MODULE MCSmallParts ----------------------------
(* Small instances of six components that share nothing, for one run of    *)
(* TLC: Subagents (two delegations that compete for one thread),            *)
(* SkillUpdate, Timers, Confirmation, EventSpeech and SpeechQueue (three    *)
(* texts).  The initial state chooses the component that moves; the others  *)
(* stand still, so that the states add up instead of multiplying.           *)
EXTENDS Subagents, SpeechTexts

VARIABLES
  part,                                                    \* the component that moves
  live, backup, journal, touched, target, archive, todo, cur, place, kept,
  recovering, left, disturbed,                             \* SkillUpdate
  table, counter, thread, called,                          \* Timers
  pc, queue, stack, dialog, said, result, signal, answer,  \* Confirmation
  now, pending, dispatch, last, day, count, streak, reaction, file, heard,
  unfinished,                                              \* EventSpeech
  texts, tasksLeft, batch, taken, stopSeen, stopEvent, active, processing, shutdown,
  finished, announced, accepted, doomed, wpc, gpc, wasPlaying, spc, vpc  \* SpeechQueue

CONSTANTS Skill, Name, MaxTimers, MaxOrder, Caller, MaxNested,
          Event, AwayOnly, OnceDaily, Cooldown, UnitsPerDay, MaxTime, MaxUnfinished

ASSUME SmallPartsAssumption ==
  /\ Name \subseteq Nat \ {0}
  /\ MaxTimers \in Nat /\ MaxOrder \in Nat
  /\ Cooldown \in [Event -> Nat]
  /\ UnitsPerDay \in Nat \ {0} /\ MaxTime \in Nat

(* A remark beside another window may come again sooner. *)
ShortCooldowns == [e \in Event |-> IF e \in AwayOnly THEN 1 ELSE 2]

K == INSTANCE SkillUpdate WITH pc <- place
T == INSTANCE Timers
C == INSTANCE Confirmation WITH event <- signal
E == INSTANCE EventSpeech
Q == INSTANCE SpeechQueue WITH queue <- texts, unfinished <- tasksLeft, event <- stopEvent, owed <- wasPlaying

skills == <<live, backup, journal, touched, target, archive, todo, cur, place, kept,
            recovering, left, disturbed>>
timers == <<table, counter, thread, called>>
dialogs == <<pc, queue, stack, dialog, said, result, signal, answer>>
remarks == <<now, pending, dispatch, last, day, count, streak, reaction, file, heard,
             unfinished>>
speech == <<texts, tasksLeft, batch, taken, stopSeen, stopEvent, active, processing, shutdown,
            finished, announced, accepted, doomed, wpc, gpc, wasPlaying, spc, vpc>>
all == <<part, vars, skills, timers, dialogs, remarks, speech>>

Start ==
  /\ part \in {"subagents", "skills", "timers", "confirmation", "events", "speech"}
  /\ Init /\ K!Init /\ T!Init /\ C!Init /\ E!Init /\ Q!Init
  /\ part # "skills" => live = [s \in Skill |-> "absent"] /\ target = CHOOSE s \in Skill : TRUE

Moved ==
  \/ part = "subagents" /\ Next /\ UNCHANGED <<skills, timers, dialogs, remarks, speech>>
  \/ part = "skills" /\ K!Next /\ UNCHANGED <<vars, timers, dialogs, remarks, speech>>
  \/ part = "timers" /\ T!Next /\ UNCHANGED <<vars, skills, dialogs, remarks, speech>>
  \/ part = "confirmation" /\ C!Next /\ UNCHANGED <<vars, skills, timers, remarks, speech>>
  \/ part = "events" /\ E!Next /\ UNCHANGED <<vars, skills, timers, dialogs, speech>>
  \/ part = "speech" /\ Q!Next /\ UNCHANGED <<vars, skills, timers, dialogs, remarks>>

Parts ==
  /\ Start /\ [][Moved /\ UNCHANGED part]_all
  /\ \A j \in Jobs : /\ WF_vars(part = "subagents" /\ Thread(j))
                     /\ WF_vars(part = "subagents" /\ (Return(j) \/ TimeOut(j) \/ CancelFuture(j) \/ StopChild(j)))
  /\ WF_speech(part = "speech" /\ Q!Worker)
  /\ WF_speech(part = "speech" /\ Q!StopSpeakingSteps)
  /\ WF_speech(part = "speech" /\ Q!HaltSteps)

(* SkillUpdate: the skills of a source are replaced together or not at all. *)
ImplementsStore == K!ImplementsStore

(* Timers: every timer rings unless a caller called it off, and then never. *)
RingsUnlessCalledOff == T!TypeOK /\ T!RingsUnlessCalledOff

(* Confirmation: a call returns the answer of its own dialog. *)
AnswerIsOwn == C!TypeOK /\ C!AnswerIsOwn

(* EventSpeech: limits and cooldowns hold across restarts. *)
UserIsNotPestered == []E!TypeOK /\ E!UserIsNotPestered

(* SpeechQueue: an interruption cancels what was asked before it, no more.  *)
InterruptionIsExact == Q!TypeOK /\ Q!InterruptionIsExact

(* SpeechQueue: nothing is spoken once stop() has returned. *)
SilentAfterStop == Q!SilentAfterStop

(* SpeechQueue: whoever was told that speech began is told that it ended. *)
EndIsAnnounced == Q!EndIsAnnounced

(* SpeechQueue: stop() ends the thread. *)
ThreadExits == Q!ThreadExits
=============================================================================

-------------------------- MODULE SmallPartsProofs --------------------------
(***************************************************************************)
(* Theorems about the components that MCSmallParts puts side by side, for  *)
(* all values of their constants: Subagents (an interruption of the parent *)
(* reaches each child, and a time limit stops no other child), Timers,     *)
(* Confirmation, EventSpeech, and SkillUpdate and SpeechQueue by way of     *)
(* SkillUpdateProofs and SpeechQueueProofs.                                 *)
(***************************************************************************)
EXTENDS MCSmallParts, SequenceTheorems, FiniteSetTheorems, WellFoundedInduction, TLAPS

-----------------------------------------------------------------------------
(* Timers. *)

(* Orders are given out once: what has none is not in any table.            *)
Fresh ==
  /\ \A n \in Name : table[n] <= counter
  /\ \A o \in T!Order : o > counter => thread[o] = "none" /\ o \notin called

(* An order names one entry, so that an alarm takes its own.                *)
OneEntry == \A m, n \in T!Set : table[m] = table[n] => m = n

TimersInv == T!TypeOK /\ T!RingsUnlessCalledOff /\ Fresh /\ OneEntry

(* A set of numbers that is not empty has a least element.                  *)
LEMMA LeastElement ==
  ASSUME NEW S \in SUBSET Nat, S # {}
  PROVE  T!Min(S) \in S
<1>1. OpToRel(<, Nat) = {ss \in Nat \X Nat : ss[1] < ss[2]}
  BY DEF OpToRel
<1> DEFINE R == OpToRel(<, Nat)
<1>2. \A i, j \in Nat : i < j => <<i, j>> \in R
  BY <1>1
<1>3. IsWellFoundedOn(R, Nat)
  BY NatLessThanWellFounded
<1> HIDE DEF R
<1>4. PICK x \in S : \A y \in S : ~(<<y, x>> \in R)
  BY <1>3, WFMin
<1>5. ASSUME NEW y \in S PROVE x <= y
  <2>1. x \in Nat /\ y \in Nat
    OBVIOUS
  <2>2. ~(y < x)
    BY <1>2, <1>4, <2>1
  <2> QED BY <2>1, <2>2
<1> QED
  BY <1>5 DEF T!Min

LEMMA TimersInit == T!Init => TimersInv
  BY SmallPartsAssumption DEF T!Init, TimersInv, T!TypeOK, T!RingsUnlessCalledOff, Fresh, OneEntry, T!Order, T!Set

LEMMA TimersSet ==
  ASSUME TimersInv, NEW n \in Name, T!SetTimer(n)
  PROVE  TimersInv'
<1> USE SmallPartsAssumption DEF TimersInv, T!TypeOK, Fresh, T!Order, T!Set, T!SetTimer
<1>1. T!TypeOK'
  <2>1. /\ T!Cancelled(table[n]) \in [T!Order -> {"none", "waits", "alarm", "rings", "ended"}]
        /\ counter + 1 \in T!Order /\ table[n] \in 0 .. MaxOrder
    BY DEF T!Cancelled
  <2>2. thread' \in [T!Order -> {"none", "waits", "alarm", "rings", "ended"}]
    BY <2>1
  <2>3. called' \subseteq T!Order
    <3>1. table[n] = 0 \/ table[n] \in T!Order
      BY <2>1
    <3>2. called \subseteq T!Order /\ called' = called \union ({table[n]} \ {0})
      OBVIOUS
    <3> QED BY <3>1, <3>2
  <2>4. counter' \in 0 .. MaxOrder /\ table' \in [Name -> 0 .. MaxOrder]
    <3>1. counter' = counter + 1 /\ counter' \in 0 .. MaxOrder
      BY <2>1
    <3>2. table' = [table EXCEPT ![n] = counter']
      BY <3>1
    <3> QED BY <3>1, <3>2
  <2> QED BY <2>2, <2>3, <2>4
<1>2. T!RingsUnlessCalledOff'
  <2>1. \A o \in called' : thread'[o] \in {"alarm", "ended"}
    BY DEF T!RingsUnlessCalledOff, T!Cancelled
  <2>2. \A m \in T!Set' : thread'[table'[m]] \in {"waits", "alarm"} /\ table'[m] \notin called'
    BY DEF T!RingsUnlessCalledOff, T!Cancelled, OneEntry
  <2>3. \A o \in T!Order : thread'[o] \in {"waits", "alarm"} /\ o \notin called'
                             => \E m \in Name : table'[m] = o
    BY DEF T!RingsUnlessCalledOff, T!Cancelled
  <2> QED BY <2>1, <2>2, <2>3 DEF T!RingsUnlessCalledOff
<1>3. Fresh'
  BY DEF T!Cancelled
<1>4. OneEntry'
  BY DEF OneEntry
<1> QED BY <1>1, <1>2, <1>3, <1>4

LEMMA TimersRemove ==
  ASSUME TimersInv, NEW n \in T!Set, T!Remove(n)
  PROVE  TimersInv'
<1> USE SmallPartsAssumption DEF TimersInv, T!TypeOK, Fresh, T!Order, T!Set, T!Remove
<1>1. T!TypeOK'
  <2>1. table[n] \in T!Order
    OBVIOUS
  <2>2. thread' \in [T!Order -> {"none", "waits", "alarm", "rings", "ended"}]
    BY DEF T!Cancelled
  <2>3. table' \in [Name -> 0 .. MaxOrder]
    OBVIOUS
  <2> QED BY <2>1, <2>2, <2>3
<1>2. T!RingsUnlessCalledOff'
  <2>1. \A o \in called' : thread'[o] \in {"alarm", "ended"}
    BY DEF T!RingsUnlessCalledOff, T!Cancelled
  <2>2. \A m \in T!Set' : thread'[table'[m]] \in {"waits", "alarm"} /\ table'[m] \notin called'
    BY DEF T!RingsUnlessCalledOff, T!Cancelled, OneEntry
  <2>3. \A o \in T!Order : thread'[o] \in {"waits", "alarm"} /\ o \notin called'
                             => \E m \in Name : table'[m] = o
    BY DEF T!RingsUnlessCalledOff, T!Cancelled
  <2> QED BY <2>1, <2>2, <2>3 DEF T!RingsUnlessCalledOff
<1>3. Fresh'
  BY DEF T!Cancelled
<1>4. OneEntry'
  BY DEF OneEntry
<1> QED BY <1>1, <1>2, <1>3, <1>4

LEMMA TimersThread ==
  ASSUME TimersInv, NEW o \in T!Order, T!Thread(o)
  PROVE  TimersInv'
<1> USE SmallPartsAssumption DEF TimersInv, T!TypeOK, T!RingsUnlessCalledOff, Fresh, OneEntry, T!Order, T!Set
<1>1. CASE T!Fire(o)
  <2>1. thread' = [thread EXCEPT ![o] = "alarm"] /\ thread[o] = "waits" /\ UNCHANGED <<table, counter, called>>
    BY <1>1 DEF T!Fire
  <2>2. T!TypeOK'
    BY <2>1
  <2>3. T!RingsUnlessCalledOff' /\ Fresh' /\ OneEntry'
    BY <2>1
  <2> QED BY <2>2, <2>3
<1>2. CASE T!Alarm(o)
  <2>1. CASE \E n \in Name : T!Entered(n, o)
    <3>1. PICK n \in Name : table[n] = o /\ table' = [table EXCEPT ![n] = 0]
      BY <1>2, <2>1 DEF T!Alarm, T!Entered
    <3>2. /\ thread[o] = "alarm" /\ thread' = [thread EXCEPT ![o] = "rings"]
          /\ o \notin called /\ UNCHANGED <<counter, called>>
      BY <1>2, <2>1, <3>1 DEF T!Alarm
    <3>3. T!TypeOK'
      BY <3>1, <3>2
    <3>4. T!RingsUnlessCalledOff'
      BY <3>1, <3>2
    <3>5. Fresh' /\ OneEntry'
      BY <3>1, <3>2
    <3> QED BY <3>3, <3>4, <3>5
  <2>2. CASE ~\E n \in Name : T!Entered(n, o)
    <3>1. /\ thread[o] = "alarm" /\ thread' = [thread EXCEPT ![o] = "ended"]
          /\ o \in called /\ UNCHANGED <<table, counter, called>>
      BY <1>2, <2>2 DEF T!Alarm, T!Entered
    <3>2. T!TypeOK'
      BY <3>1
    <3>3. T!RingsUnlessCalledOff' /\ Fresh' /\ OneEntry'
      BY <3>1
    <3> QED BY <3>2, <3>3
  <2> QED BY <2>1, <2>2
<1>3. CASE T!Announce(o)
  BY <1>3 DEF T!Announce
<1> QED BY <1>1, <1>2, <1>3 DEF T!Thread

LEMMA TimersNext == TimersInv /\ [T!Next]_timers => TimersInv'
<1> SUFFICES ASSUME TimersInv, [T!Next]_timers PROVE TimersInv'
  OBVIOUS
<1>1. ASSUME NEW n \in Name, T!SetTimer(n) PROVE TimersInv'
  BY <1>1, TimersSet
<1>2. CASE T!SetAutoNamed
  <2>1. Name \ T!Set \in SUBSET Nat /\ Name \ T!Set # {}
    BY <1>2, SmallPartsAssumption DEF T!SetAutoNamed, T!Set
  <2>2. T!AutoName \in Name
    BY <2>1, LeastElement DEF T!AutoName
  <2> QED BY <1>1, <1>2, <2>2 DEF T!SetAutoNamed
<1>3. ASSUME NEW n \in T!Set, T!Remove(n) PROVE TimersInv'
  BY <1>3, TimersRemove
<1>4. ASSUME NEW o \in T!Order, T!Thread(o) PROVE TimersInv'
  BY <1>4, TimersThread
<1>5. CASE UNCHANGED timers
  BY <1>5 DEF timers, TimersInv, T!TypeOK, T!RingsUnlessCalledOff, Fresh, OneEntry, T!Order, T!Set
<1> QED
  BY <1>1, <1>2, <1>3, <1>4, <1>5
  DEF T!Next, T!SetNamed, T!CancelNamed, T!CancelLatest

(* RingsUnlessCalledOff (TLC: small_parts): every timer rings unless its    *)
(* entry was cancelled or replaced, and then never, wherever its thread was *)
(* when that happened and whatever timer has its name by now.               *)
THEOREM Rings == Parts => []RingsUnlessCalledOff
<1>1. Parts => T!Init /\ [][T!Next]_timers
  <2>1. Start => T!Init
    BY DEF Start
  <2>2. [Moved /\ UNCHANGED part]_all => [T!Next]_timers
    BY DEF Moved, all, timers
  <2> QED BY <2>1, <2>2, PTL DEF Parts
<1>2. TimersInv => RingsUnlessCalledOff
  BY DEF TimersInv, RingsUnlessCalledOff
<1> QED
  BY <1>1, <1>2, TimersInit, TimersNext, PTL

-----------------------------------------------------------------------------
(* Confirmation. *)

(* A signal that waits is for a dialog that was not opened yet, and no two  *)
(* are for the same call.                                                   *)
Signals ==
  /\ \A i \in 1 .. Len(queue) : pc[queue[i]] # "new" /\ dialog[queue[i]] = "none"
  /\ \A i, j \in 1 .. Len(queue) : queue[i] = queue[j] => i = j

(* What a call has when its dialog is where it is: the word of the user     *)
(* stands from the closing on, its result from the end of exec() on, and    *)
(* the event comes last.                                                    *)
Dialogs ==
  \A c \in Caller :
    /\ pc[c] = "new" => dialog[c] = "none"
    /\ dialog[c] \in {"none", "open"} => ~said[c]
    /\ dialog[c] = "closed" => result[c] = said[c]
    /\ signal[c] \/ pc[c] = "answered" => dialog[c] = "closed"

ConfirmationInv == C!TypeOK /\ C!AnswerIsOwn /\ Signals /\ Dialogs

LEMMA ConfirmationInit == C!Init => ConfirmationInv
<1> SUFFICES ASSUME C!Init PROVE ConfirmationInv
  OBVIOUS
<1> USE DEF C!Init
<1>1. C!TypeOK
  BY DEF C!TypeOK
<1>2. Signals
  BY DEF Signals
<1>3. Dialogs
  BY Zenon DEF Dialogs
<1>4. ASSUME NEW c \in Caller PROVE answer[c] = (said[c] /\ pc[c] = "answered")
  <2>1. answer[c] = FALSE /\ said[c] = FALSE
    BY Zenon
  <2> QED BY <2>1
<1> QED BY <1>1, <1>2, <1>3, <1>4 DEF ConfirmationInv, C!AnswerIsOwn

LEMMA ConfirmationCaller ==
  ASSUME ConfirmationInv, NEW c \in Caller, C!Request(c) \/ C!Answered(c) \/ C!GiveUp(c)
  PROVE  ConfirmationInv'
<1> USE DEF ConfirmationInv, C!TypeOK
<1>1. CASE C!Request(c)
  <2> USE <1>1 DEF C!Request, C!shown, C!holder
  <2>1. C!TypeOK'
    OBVIOUS
  <2>2. /\ Len(queue') = Len(queue) + 1 /\ queue'[Len(queue) + 1] = c
        /\ \A i \in 1 .. Len(queue) : queue'[i] = queue[i] /\ queue[i] \in Caller
    OBVIOUS
  <2>3. Signals'
    BY <2>2 DEF Signals, Dialogs
  <2>4. Dialogs' /\ C!AnswerIsOwn'
    BY DEF Dialogs, C!AnswerIsOwn
  <2> QED BY <2>1, <2>3, <2>4
<1>2. CASE C!Answered(c) \/ C!GiveUp(c)
  <2> USE <1>2 DEF C!Answered, C!GiveUp, C!shown, C!holder
  <2>1. C!TypeOK' /\ Signals'
    BY DEF Signals
  <2>2. Dialogs' /\ C!AnswerIsOwn'
    BY DEF Dialogs, C!AnswerIsOwn
  <2> QED BY <2>1, <2>2
<1> QED BY <1>1, <1>2

LEMMA InnermostType ==
  ASSUME C!TypeOK, stack # <<>>
  PROVE  C!Innermost \in Caller
  BY DEF C!TypeOK, C!Innermost

LEMMA ConfirmationOpen == ASSUME ConfirmationInv, C!Open PROVE ConfirmationInv'
<1> USE DEF ConfirmationInv, C!TypeOK, C!Open, C!holder
<1> DEFINE c == Head(queue)
<1>1. c \in Caller /\ c = queue[1] /\ Len(queue) >= 1 /\ dialog' = [dialog EXCEPT ![c] = "open"]
  OBVIOUS
<1> HIDE DEF c
<1>2. pc[c] # "new" /\ dialog[c] = "none"
  BY <1>1 DEF Signals
<1>3. /\ Len(queue') = Len(queue) - 1
      /\ \A i \in 1 .. Len(queue') : queue'[i] = queue[i + 1] /\ queue[i + 1] # c
  BY <1>1 DEF Signals
<1>4. C!TypeOK'
  <2>1. stack' \in Seq(Caller) /\ queue' \in Seq(Caller)
    BY <1>1 DEF c
  <2> QED BY <1>1, <2>1
<1>5. Signals'
  BY <1>1, <1>3 DEF Signals
<1>6. Dialogs' /\ C!AnswerIsOwn'
  BY <1>1, <1>2 DEF Dialogs, C!AnswerIsOwn
<1> QED BY <1>4, <1>5, <1>6

LEMMA ConfirmationDialog ==
  ASSUME ConfirmationInv,
         C!Confirm \/ (\E c \in Caller : C!Refuse(c)) \/ C!WriteResult \/ C!SetEvent
  PROVE  ConfirmationInv'
<1> USE InnermostType DEF ConfirmationInv, C!At
<1>1. CASE C!Confirm
  <2> USE <1>1 DEF C!Confirm, C!asked, C!holder
  <2>1. C!TypeOK' /\ Signals'
    BY DEF C!TypeOK, Signals
  <2>2. Dialogs' /\ C!AnswerIsOwn'
    BY DEF C!TypeOK, Dialogs, C!AnswerIsOwn
  <2> QED BY <2>1, <2>2
<1>2. ASSUME NEW c \in Caller, C!Refuse(c) PROVE ConfirmationInv'
  <2> USE <1>2 DEF C!Refuse, C!asked, C!holder
  <2>1. C!TypeOK' /\ Signals'
    BY DEF C!TypeOK, Signals
  <2>2. Dialogs' /\ C!AnswerIsOwn'
    BY DEF C!TypeOK, Dialogs, C!AnswerIsOwn
  <2> QED BY <2>1, <2>2
<1>3. CASE C!WriteResult
  <2> USE <1>3 DEF C!WriteResult, C!Written, C!asked
  <2>1. C!TypeOK' /\ Signals'
    BY DEF C!TypeOK, Signals
  <2>2. Dialogs' /\ C!AnswerIsOwn'
    BY DEF C!TypeOK, Dialogs, C!AnswerIsOwn
  <2> QED BY <2>1, <2>2
<1>4. CASE C!SetEvent
  <2> USE <1>4 DEF C!SetEvent, C!asked
  <2>1. stack' \in Seq(Caller)
    BY DEF C!TypeOK
  <2>2. C!TypeOK' /\ Signals'
    BY <2>1 DEF C!TypeOK, Signals
  <2>3. Dialogs' /\ C!AnswerIsOwn'
    BY DEF C!TypeOK, Dialogs, C!AnswerIsOwn
  <2> QED BY <2>2, <2>3
<1> QED BY <1>1, <1>2, <1>3, <1>4

LEMMA ConfirmationNext == ConfirmationInv /\ [C!Next]_dialogs => ConfirmationInv'
<1> SUFFICES ASSUME ConfirmationInv, [C!Next]_dialogs PROVE ConfirmationInv'
  OBVIOUS
<1>1. CASE UNCHANGED dialogs
  BY <1>1 DEF dialogs, ConfirmationInv, C!TypeOK, C!AnswerIsOwn, Signals, Dialogs
<1> QED
  BY <1>1, ConfirmationCaller, ConfirmationOpen, ConfirmationDialog DEF C!Next

(* AnswerIsOwn (TLC: small_parts): request_confirmation() returns true only *)
(* when the user confirmed the dialog of that very call, however dialogs    *)
(* were nested and whichever callers had given up; and a call that heard of *)
(* the answer returns it.                                                   *)
THEOREM Answers == Parts => []AnswerIsOwn
<1>1. Parts => C!Init /\ [][C!Next]_dialogs
  <2>1. Start => C!Init
    BY DEF Start
  <2>2. [Moved /\ UNCHANGED part]_all => [C!Next]_dialogs
    BY DEF Moved, all, dialogs
  <2> QED BY <2>1, <2>2, PTL DEF Parts
<1>2. ConfirmationInv => AnswerIsOwn
  BY DEF ConfirmationInv, AnswerIsOwn
<1> QED
  BY <1>1, <1>2, ConfirmationInit, ConfirmationNext, PTL

-----------------------------------------------------------------------------
(* EventSpeech. *)

LEMMA Division ==
  ASSUME NEW a \in Nat, NEW n \in Nat \ {0}
  PROVE  a \div n \in Nat /\ a % n \in 0 .. n - 1 /\ a = n * (a \div n) + (a % n)
OBVIOUS

LEMMA DaysPass ==
  ASSUME NEW s \in Nat, NEW t \in Nat, s <= t
  PROVE  E!Day(s) \in Nat /\ E!Day(s) <= E!Day(t) /\ E!Day(s) <= s
<1>1. E!Day(s) \in Nat /\ E!Day(s) <= E!Day(t)
  BY Division, SmallPartsAssumption DEF E!Day
<1>2. E!Day(s) <= s
  <2> DEFINE q == s \div UnitsPerDay
  <2>1. q \in Nat /\ s % UnitsPerDay \in Nat /\ s = UnitsPerDay * q + (s % UnitsPerDay)
    BY Division, SmallPartsAssumption
  <2> HIDE DEF q
  <2>2. UnitsPerDay * q >= q
    BY <2>1, SmallPartsAssumption
  <2> QED BY <2>1, <2>2, SmallPartsAssumption DEF E!Day, q
<1> QED BY <1>1, <1>2

(* What the counters say of the remarks the scheduler was told of: no event *)
(* later than its last_delivered, nothing after the day of the count, and   *)
(* no more on that day than was counted.                                    *)
OnDay(d) == {h \in E!Known : E!Day(h[2]) = d}

Counted ==
  /\ IsFiniteSet(heard) /\ heard \subseteq Event \X (0 .. now)
  /\ \A h \in E!Known : h[2] <= last[h[1]] /\ E!Day(h[2]) <= day
  /\ \A e \in Event : last[e] <= now
  /\ day <= E!Day(now)
  /\ Cardinality(OnDay(day)) <= count

(* The message being spoken is still allowed, and the file is up to date.   *)
Allowed ==
  E!Speaking =>
    dispatch.index \in Nat \ {0} /\ dispatch.event \in Event /\ E!IsAllowed(dispatch.event)
Saved == file = [last |-> last, day |-> day, count |-> count, streak |-> streak]

RemarksInv == E!TypeOK /\ pending \in Seq(Event) /\ Counted /\ Allowed /\ Saved

LEMMA RemarksInit == E!Init => RemarksInv
<1> SUFFICES ASSUME E!Init PROVE RemarksInv
  OBVIOUS
<1> USE SmallPartsAssumption DEF E!Init, E!Never
<1>1. E!TypeOK /\ pending \in Seq(Event)
  BY DEF E!TypeOK, E!ToSet
<1>2. E!Day(0) \in Nat
  BY DaysPass
<1>3. Cardinality(OnDay(day)) = 0
  <2>1. OnDay(day) = {}
    BY DEF OnDay, E!Known
  <2> QED BY <2>1, FS_EmptySet
<1>4. Counted
  BY <1>2, <1>3, FS_EmptySet DEF Counted, E!Known
<1> QED
  BY <1>1, <1>4 DEF RemarksInv, Allowed, Saved, E!Speaking, E!Idle

(* What the scheduler is not told of does not disturb the counters.         *)
LEMMA CountsFewer ==
  ASSUME Counted, count \in Int, UNCHANGED <<now, last, day, count>>,
         IsFiniteSet(heard'), heard' \subseteq Event \X (0 .. now), E!Known' \subseteq E!Known
  PROVE  Counted'
<1>1. E!Day(now)' = E!Day(now)
  BY DEF E!Day
<1>2. Cardinality(OnDay(day))' <= count'
  <2>1. OnDay(day)' \subseteq OnDay(day) /\ OnDay(day) \subseteq heard
    BY DEF OnDay, E!Day, E!Known
  <2>2. /\ Cardinality(OnDay(day)') \in Nat /\ Cardinality(OnDay(day)) \in Nat
        /\ Cardinality(OnDay(day)') <= Cardinality(OnDay(day))
    BY <2>1, FS_Subset, FS_CardinalityType DEF Counted
  <2>3. Cardinality(OnDay(day)) <= count /\ count' = count
    BY DEF Counted
  <2> DEFINE before == Cardinality(OnDay(day))
             after == Cardinality(OnDay(day)')
  <2>4. (before \in Nat /\ after \in Nat /\ after <= before) /\ (before <= count)
    BY <2>2, <2>3
  <2>5. Cardinality(OnDay(day))' = after
    OBVIOUS
  <2> HIDE DEF before, after
  <2> QED BY <2>3, <2>4, <2>5
<1>3. (\A h \in E!Known : h[2] <= last[h[1]] /\ E!Day(h[2]) <= day)'
  BY DEF Counted, E!Day
<1> QED
  BY <1>1, <1>2, <1>3 DEF Counted

(* Queueing, giving up and forgetting requests, and speaking, do not touch  *)
(* the counters.                                                            *)
LEMMA RemarksQueue ==
  ASSUME RemarksInv, E!Request \/ E!Select \/ E!Speak \/ E!NotSpoken
  PROVE  RemarksInv'
<1> USE DEF RemarksInv
<1>1. UNCHANGED <<now, last, day, count, streak, reaction, file>>
  BY DEF E!Request, E!Select, E!Speak, E!NotSpoken, E!counters
<1>2. pending' \in Seq(Event)
  <2>1. CASE E!Request
    BY <2>1 DEF E!Request
  <2>2. ASSUME NEW i \in DOMAIN pending PROVE E!RemoveAt(pending, i) \in Seq(Event)
    <3>1. i \in 1 .. Len(pending) /\ Len(pending) \in Nat
      OBVIOUS
    <3>2. \A k \in 1 .. Len(pending) : pending[k] \in Event
      OBVIOUS
    <3>3. SubSeq(pending, 1, i - 1) \in Seq(Event) /\ SubSeq(pending, i + 1, Len(pending)) \in Seq(Event)
      BY <3>1, <3>2, SubSeqProperties
    <3> QED BY <3>3, ConcatProperties DEF E!RemoveAt
  <2>3. CASE E!Select
    BY <2>2, <2>3 DEF E!Select
  <2>4. CASE E!Speak \/ E!NotSpoken
    BY <2>4 DEF E!Speak, E!NotSpoken
  <2> QED BY <2>1, <2>3, <2>4
<1>3. Allowed' /\ (dispatch' = E!Idle \/ /\ dispatch'.event \in Event
                                         /\ dispatch'.stage \in {"asked", "heard", "stuck"})
  <2>1. \A e \in Event : E!IsAllowed(e) => E!IsAllowed(e)'
    BY <1>1 DEF E!IsAllowed, E!Cooling, E!DailyLimit
  <2>2. CASE UNCHANGED dispatch
    BY <2>1, <2>2 DEF Allowed, E!Speaking, E!TypeOK
  <2>3. CASE dispatch' = E!Idle
    BY <2>3 DEF Allowed, E!Speaking, E!Idle
  <2>4. CASE E!Select /\ dispatch' # dispatch
    <3>1. PICK i \in DOMAIN pending :
            E!IsAllowed(pending[i])
            /\ dispatch' = [index |-> i, event |-> pending[i], stage |-> "asked"]
      BY <2>4 DEF E!Select
    <3>2. pending[i] \in Event /\ i \in Nat \ {0}
      OBVIOUS
    <3> QED BY <2>1, <3>1, <3>2 DEF Allowed
  <2>5. CASE E!Speak
    <3>1. /\ dispatch' = [dispatch EXCEPT !.stage = "heard"] /\ E!Speaking
          /\ dispatch.event \in Event
      BY <2>5 DEF E!Speak, E!Speaking, Allowed
    <3>2. dispatch'.index = dispatch.index /\ dispatch'.event = dispatch.event
      BY <3>1
    <3>3. dispatch # E!Idle => dispatch'.stage = "heard"
      BY <3>1, <3>2, <2>5 DEF E!Speak
    <3> QED BY <2>1, <2>5, <3>1, <3>2, <3>3 DEF Allowed
  <2>6. CASE E!NotSpoken /\ dispatch' # E!Idle
    <3>1. dispatch' = [dispatch EXCEPT !.stage = "stuck"] /\ dispatch.event \in Event
      BY <2>6 DEF E!NotSpoken, Allowed
    <3> QED BY <3>1 DEF Allowed, E!Speaking
  <2> QED BY <2>2, <2>3, <2>4, <2>5, <2>6 DEF E!Request, E!NotSpoken
<1>4. Counted' /\ (unfinished \subseteq heard)'
  <2>1. CASE UNCHANGED <<heard, unfinished>>
    BY <1>1, <2>1, CountsFewer DEF E!Known, Counted, E!TypeOK
  <2>2. CASE E!Speak
    <3>1. /\ dispatch.event \in Event /\ now \in 0 .. now
          /\ heard' = heard \union {<<dispatch.event, now>>}
          /\ unfinished' = unfinished \union {<<dispatch.event, now>>}
      BY <2>2, SmallPartsAssumption DEF E!Speak, Allowed, E!Speaking, E!TypeOK
    <3>2. IsFiniteSet(heard') /\ heard' \subseteq Event \X (0 .. now)
      <4>1. IsFiniteSet(heard) /\ heard \subseteq Event \X (0 .. now)
        BY DEF Counted
      <4>2. IsFiniteSet(heard')
        BY <3>1, <4>1, FS_AddElement
      <4> QED BY <3>1, <4>1, <4>2
    <3> QED BY <1>1, <3>1, <3>2, CountsFewer DEF E!Known, E!TypeOK
  <2> QED BY <2>1, <2>2 DEF E!Request, E!Select, E!NotSpoken, E!history
<1>5. E!TypeOK'
  <2>1. E!ToSet(pending)' \subseteq Event
    BY <1>2 DEF E!ToSet
  <2> QED BY <1>1, <1>3, <1>4, <2>1 DEF E!TypeOK
<1>6. Saved'
  BY <1>1 DEF Saved
<1> QED BY <1>2, <1>3, <1>4, <1>5, <1>6

(* Between remarks: the counters change with the streak only, and a restart *)
(* finds them in the file.                                                  *)
LEMMA RemarksPause ==
  ASSUME RemarksInv, E!Judge \/ E!Wait \/ E!Restart
  PROVE  RemarksInv'
<1> USE DEF RemarksInv
<1>1. /\ UNCHANGED <<heard, unfinished>> /\ ~E!Speaking'
      /\ dispatch' = dispatch \/ dispatch' = E!Idle
  BY DEF E!Judge, E!Wait, E!Restart, E!Speaking, E!Idle, E!history
<1>2. UNCHANGED <<last, day, count>>
  BY DEF E!Judge, E!Wait, E!Restart, E!Loaded, E!counters, Saved
<1>3. pending' \in Seq(Event) /\ (pending' = pending \/ pending' = <<>>)
  <2>1. pending' = pending \/ pending' = <<>>
    BY DEF E!Judge, E!Wait, E!Restart
  <2>2. <<>> \in Seq(Event)
    OBVIOUS
  <2> QED BY <2>1, <2>2
<1>4. now \in Nat /\ (now' = now \/ now' = now + 1) /\ now' \in 0 .. MaxTime
  BY SmallPartsAssumption DEF E!Judge, E!Wait, E!Restart, E!TypeOK
<1>5. E!TypeOK'
  <2>1. E!ToSet(pending)' \subseteq Event
    BY <1>3 DEF E!ToSet
  <2>2. streak' \in Nat
    BY DEF E!Judge, E!Wait, E!Restart, E!Loaded, E!counters, Saved, E!TypeOK
  <2>3. reaction' \in E!Never .. MaxTime
    BY SmallPartsAssumption DEF E!Judge, E!Wait, E!Restart, E!TypeOK, E!Never
  <2> QED BY <1>1, <1>2, <1>4, <2>1, <2>2, <2>3 DEF E!TypeOK
<1>6. Counted'
  <2>1. E!Day(now) \in Nat /\ E!Day(now') \in Nat /\ E!Day(now) <= E!Day(now')
    BY <1>4, DaysPass
  <2>2. day' <= E!Day(now')
    BY <1>2, <2>1, SmallPartsAssumption DEF Counted, E!TypeOK, E!Never
  <2>3. \A e \in Event : last'[e] <= now'
    BY <1>2, <1>4, SmallPartsAssumption DEF Counted, E!TypeOK, E!Never
  <2>4. heard' \subseteq Event \X (0 .. now')
    BY <1>1, <1>4 DEF Counted
  <2>5. Cardinality(OnDay(day))' <= count'
    BY <1>1, <1>2 DEF Counted, OnDay, E!Known, E!Day
  <2>6. (\A h \in E!Known : h[2] <= last[h[1]] /\ E!Day(h[2]) <= day)'
    BY <1>1, <1>2 DEF Counted, E!Known, E!Day
  <2>7. IsFiniteSet(heard')
    BY <1>1 DEF Counted
  <2>8. E!Day(now)' = E!Day(now')
    BY DEF E!Day
  <2> QED BY <2>2, <2>3, <2>4, <2>5, <2>6, <2>7, <2>8 DEF Counted
<1>7. Saved'
  BY <1>2 DEF E!Judge, E!Wait, E!Restart, E!Loaded, E!SaveCounters, E!counters, Saved
<1> QED BY <1>1, <1>3, <1>5, <1>6, <1>7 DEF Allowed

(* An event that is allowed keeps its distance from what was counted.       *)
LEMMA AllowedIsFair ==
  ASSUME RemarksInv, NEW e \in Event, E!IsAllowed(e)
  PROVE  /\ day = E!Day(now) => count + 1 <= 3
         /\ \A h \in E!Known : h[1] = e => /\ now - h[2] >= Cooldown[e]
                                           /\ e \in OnceDaily => E!Day(h[2]) # E!Day(now)
<1> DEFINE today == E!Day(now)
<1> USE DEF RemarksInv
<1>2. /\ now \in Nat /\ now \in 0 .. MaxTime /\ today \in Nat /\ today <= now
      /\ count \in 0 .. 3 /\ streak \in Nat /\ day \in E!Never .. MaxTime /\ day <= today
      /\ last \in [Event -> E!Never .. MaxTime] /\ E!Never = -1
  BY DaysPass, SmallPartsAssumption DEF E!TypeOK, Counted, E!Never
<1>4. day = today => count + 1 <= 3
  BY <1>2 DEF E!IsAllowed, E!DailyLimit, E!Least
<1>8. ASSUME NEW h \in E!Known, h[1] = e
      PROVE  now - h[2] >= Cooldown[e] /\ (e \in OnceDaily => E!Day(h[2]) # today)
  <2>1. last[e] \in Nat /\ last[e] <= now /\ h[2] \in Nat /\ h[2] <= last[e]
    BY <1>2, <1>8 DEF Counted, E!Known
  <2>2. ~(e \in OnceDaily /\ E!Day(last[e]) = today) /\ ~E!Cooling(e)
    BY <2>1 DEF E!IsAllowed, E!Never
  <2>3. now - last[e] >= Cooldown[e]
    <3> DEFINE k == E!Least(streak, 3)
    <3>1. k \in 0 .. 3
      BY <1>2 DEF E!Least
    <3>2. 2 ^ 0 = 1 /\ 2 ^ 1 = 2 /\ 2 ^ 2 = 4 /\ 2 ^ 3 = 8
      OBVIOUS
    <3> HIDE DEF k
    <3>3. PICK p \in {1, 2, 4, 8} : 2 ^ k = p
      <4>1. k = 0 \/ k = 1 \/ k = 2 \/ k = 3
        BY <3>1
      <4> QED BY <3>2, <4>1
    <3>4. Cooldown[e] \in Nat /\ Cooldown[e] * p \in Nat /\ Cooldown[e] * p >= Cooldown[e]
      BY SmallPartsAssumption
    <3>5. ~(now - last[e] < Cooldown[e] * p)
      BY <2>2, <3>3 DEF E!Cooling, k
    <3> QED BY <1>2, <2>1, <3>4, <3>5
  <2>4. Cooldown[e] \in Nat
    BY SmallPartsAssumption
  <2>5. e \in OnceDaily => E!Day(h[2]) # today
    <3>1. /\ E!Day(h[2]) \in Nat /\ E!Day(last[e]) \in Nat
          /\ E!Day(h[2]) <= E!Day(last[e]) /\ E!Day(last[e]) <= today
      BY <1>2, <2>1, DaysPass
    <3> QED BY <1>2, <2>2, <3>1
  <2> QED BY <1>2, <2>1, <2>3, <2>4, <2>5
<1> QED BY <1>4, <1>8

(* Less than a day's remarks are known while one more is allowed.           *)
LEMMA DayHasRoom ==
  ASSUME RemarksInv, NEW e \in Event, E!IsAllowed(e)
  PROVE  /\ IsFiniteSet(OnDay(E!Day(now)))
         /\ Cardinality(OnDay(E!Day(now))) \in Nat
         /\ Cardinality(OnDay(E!Day(now))) <= IF day = E!Day(now) THEN count ELSE 0
         /\ Cardinality(OnDay(E!Day(now))) < 3
<1> USE DEF RemarksInv
<1>1. IsFiniteSet(OnDay(E!Day(now))) /\ Cardinality(OnDay(E!Day(now))) \in Nat
  <2>1. OnDay(E!Day(now)) \subseteq heard
    BY DEF OnDay, E!Known
  <2> QED BY <2>1, FS_Subset, FS_CardinalityType DEF Counted
<1>2. CASE day = E!Day(now)
  <2>1. count \in Nat /\ count + 1 <= 3 /\ Cardinality(OnDay(E!Day(now))) <= count
    BY <1>2, AllowedIsFair DEF Counted, E!TypeOK
  <2> QED BY <1>1, <1>2, <2>1
<1>3. CASE day # E!Day(now)
  <2>1. \A h \in E!Known : E!Day(h[2]) # E!Day(now)
    <3> TAKE h \in E!Known
    <3>1. h[2] \in Nat /\ now \in Nat /\ h[2] <= now /\ E!Day(h[2]) <= day /\ day <= E!Day(now)
      BY SmallPartsAssumption DEF Counted, E!Known, E!TypeOK
    <3>2. E!Day(h[2]) \in Nat /\ E!Day(now) \in Nat
      BY <3>1, DaysPass
    <3>3. day \in Int
      BY SmallPartsAssumption DEF E!TypeOK, E!Never
    <3> QED BY <1>3, <3>1, <3>2, <3>3
  <2>2. OnDay(E!Day(now)) = {}
    BY <2>1 DEF OnDay
  <2>3. Cardinality(OnDay(E!Day(now))) = 0
    BY <2>2, FS_EmptySet
  <2> QED BY <1>1, <1>3, <2>3
<1> QED BY <1>2, <1>3

LEMMA RemarksDeliver ==
  ASSUME RemarksInv, E!Deliver
  PROVE  RemarksInv'
<1> DEFINE e == dispatch.event
           today == E!Day(now)
<1> USE DEF RemarksInv
<1>1. /\ e \in Event /\ E!IsAllowed(e)
      /\ last' = [last EXCEPT ![e] = now] /\ day' = today
      /\ count' = IF day = today THEN count + 1 ELSE 1
      /\ heard' = heard /\ unfinished' = unfinished \ {<<e, now>>}
      /\ now' = now /\ streak' = streak /\ reaction' = now /\ dispatch' = E!Idle
      /\ Saved'
  BY DEF E!Deliver, Allowed, Saved, E!SaveCounters
<1>2. /\ now \in Nat /\ now \in 0 .. MaxTime /\ today \in Nat /\ today <= now
      /\ count \in 0 .. 3 /\ streak \in Nat /\ day \in E!Never .. MaxTime /\ day <= today
      /\ last \in [Event -> E!Never .. MaxTime] /\ E!Never = -1
  BY DaysPass, SmallPartsAssumption DEF E!TypeOK, Counted, E!Never
<1>3. E!Known' \subseteq E!Known \union {<<e, now>>} /\ E!Known \subseteq heard
  BY <1>1 DEF E!Known
<1>4. \A h \in E!Known : h[1] \in Event /\ h[2] \in 0 .. now /\ h[2] <= last[h[1]]
  BY <1>3 DEF Counted
<1>5. Cardinality(OnDay(day))' <= count'
  <2> DEFINE S == OnDay(today)
             x == <<e, now>>
  <2>1. /\ IsFiniteSet(S) /\ Cardinality(S) \in Nat
        /\ Cardinality(S) <= IF day = today THEN count ELSE 0
    BY <1>1, DayHasRoom
  <2>2. OnDay(day)' \subseteq S \union {x} /\ Cardinality(OnDay(day))' = Cardinality(OnDay(day)')
    BY <1>1, <1>3 DEF OnDay, E!Day
  <2> HIDE DEF S, x, RemarksInv, e, today
  <2>3. /\ IsFiniteSet(S \union {x})
        /\ Cardinality(S \union {x}) = IF x \in S THEN Cardinality(S) ELSE Cardinality(S) + 1
    BY <2>1, FS_AddElement
  <2>4. /\ Cardinality(OnDay(day)') <= Cardinality(S \union {x})
        /\ Cardinality(OnDay(day)') \in Nat /\ Cardinality(S \union {x}) \in Nat
    BY <2>2, <2>3, FS_Subset, FS_CardinalityType
  <2>5. CASE day = today
    <3>1. count' = count + 1 /\ count \in Nat /\ Cardinality(S) <= count
      BY <1>1, <1>2, <2>1, <2>5
    <3> QED BY <2>1, <2>2, <2>3, <2>4, <3>1
  <2>6. CASE day # today
    <3>1. count' = 1 /\ Cardinality(S) <= 0
      BY <1>1, <2>1, <2>6
    <3> QED BY <2>1, <2>2, <2>3, <2>4, <3>1
  <2> QED BY <2>5, <2>6
<1>6. count' \in 0 .. 3
  BY <1>1, <1>2, AllowedIsFair
<1>9. Counted'
  <2>1. \A h \in E!Known' : h[2] <= last'[h[1]] /\ E!Day(h[2]) <= day'
    <3> TAKE h \in E!Known'
    <3>1. CASE h = <<e, now>>
      BY <1>1, <1>2, <3>1
    <3>2. CASE h \in E!Known
      <4>1. h[2] <= last'[h[1]]
        BY <1>1, <1>2, <1>4, <3>2
      <4>2. E!Day(h[2]) \in Nat /\ E!Day(h[2]) <= today
        BY <1>2, <1>4, <3>2, DaysPass
      <4> QED BY <1>1, <4>1, <4>2
    <3> QED BY <1>3, <3>1, <3>2
  <2>2. IsFiniteSet(heard') /\ heard' \subseteq Event \X (0 .. now')
    BY <1>1 DEF Counted
  <2>3. \A f \in Event : last'[f] <= now'
    BY <1>1, <1>2 DEF Counted
  <2>4. E!Day(now)' = today /\ day' <= E!Day(now)'
    BY <1>1, <1>2 DEF E!Day
  <2>6. (\A h \in E!Known : h[2] <= last[h[1]] /\ E!Day(h[2]) <= day)'
    BY <2>1 DEF E!Day
  <2> QED BY <1>5, <2>2, <2>3, <2>4, <2>6 DEF Counted
<1>10. pending' \in Seq(Event)
  <2>1. ASSUME NEW i \in 1 .. Len(pending) PROVE E!RemoveAt(pending, i) \in Seq(Event)
    <3>1. Len(pending) \in Nat /\ \A k \in 1 .. Len(pending) : pending[k] \in Event
      OBVIOUS
    <3>2. SubSeq(pending, 1, i - 1) \in Seq(Event) /\ SubSeq(pending, i + 1, Len(pending)) \in Seq(Event)
      BY <3>1, SubSeqProperties
    <3> QED BY <3>2, ConcatProperties DEF E!RemoveAt
  <2>2. dispatch.index \in Nat \ {0} /\ Len(pending) \in Nat
    BY DEF E!Deliver, Allowed
  <2>3. dispatch.index <= Len(pending) => dispatch.index \in 1 .. Len(pending)
    BY <2>2
  <2>4. pending' = pending \/ (dispatch.index <= Len(pending) /\ pending' = E!RemoveAt(pending, dispatch.index))
    BY DEF E!Deliver
  <2> QED BY <2>1, <2>3, <2>4
<1>11. E!TypeOK'
  <2>1. E!ToSet(pending)' \subseteq Event
    BY <1>10 DEF E!ToSet
  <2>2. last' \in [Event -> E!Never .. MaxTime] /\ day' \in E!Never .. MaxTime /\ reaction' \in E!Never .. MaxTime
    BY <1>1, <1>2, SmallPartsAssumption
  <2> QED BY <1>1, <1>2, <1>6, <2>1, <2>2 DEF E!TypeOK
<1> QED
  BY <1>1, <1>9, <1>10, <1>11 DEF Allowed, E!Speaking, E!Idle

LEMMA RemarksNext == RemarksInv /\ [E!Next]_remarks => RemarksInv'
<1> SUFFICES ASSUME RemarksInv, [E!Next]_remarks PROVE RemarksInv'
  OBVIOUS
<1>1. CASE UNCHANGED remarks
  BY <1>1 DEF remarks, RemarksInv, E!TypeOK, E!ToSet, Counted, OnDay, E!Day, E!Known, Allowed,
              Saved, E!Speaking, E!IsAllowed, E!Cooling, E!DailyLimit
<1> QED
  BY <1>1, RemarksQueue, RemarksPause, RemarksDeliver DEF E!Next

(* UserIsNotPestered (TLC: small_parts): wherever the program is stopped    *)
(* and whatever was ignored, a remark is spoken only when the scheduler has *)
(* been told of fewer than three on this day, of none of the same event     *)
(* within its cooldown, and of no once-a-day event on this day; for any     *)
(* length of the day and any cooldowns.                                     *)
THEOREM NotPestered == Parts => UserIsNotPestered
<1> DEFINE Fair == E!Speak => /\ E!Cardinality(E!Today(E!Known)) < 3
                              /\ \A h \in E!Known : h[1] = dispatch.event
                                                      => now - h[2] >= Cooldown[dispatch.event]
                              /\ dispatch.event \in OnceDaily
                                   => \A h \in E!Today(E!Known) : h[1] # dispatch.event
<1>1. Parts => E!Init /\ [][E!Next]_remarks
  <2>1. Start => E!Init
    BY DEF Start
  <2>2. [Moved /\ UNCHANGED part]_all => [E!Next]_remarks
    BY DEF Moved, all, remarks
  <2> QED BY <2>1, <2>2, PTL DEF Parts
<1>2. RemarksInv /\ [E!Next]_remarks => [Fair]_(E!vars)
  <2> SUFFICES ASSUME RemarksInv, E!Speak PROVE Fair
    OBVIOUS
  <2>1. dispatch.event \in Event /\ E!IsAllowed(dispatch.event)
    BY DEF E!Speak, E!Speaking, RemarksInv, Allowed
  <2>2. E!Today(E!Known) = OnDay(E!Day(now))
    BY DEF E!Today, OnDay
  <2>3. E!Cardinality(E!Today(E!Known)) = Cardinality(OnDay(E!Day(now)))
    BY <2>2 DEF E!Cardinality, Cardinality
  <2> QED BY <2>1, <2>2, <2>3, AllowedIsFair, DayHasRoom DEF OnDay
<1>3. RemarksInv => E!TypeOK
  BY DEF RemarksInv
<1> QED
  BY <1>1, <1>2, <1>3, RemarksInit, RemarksNext, PTL DEF UserIsNotPestered, E!UserIsNotPestered

-----------------------------------------------------------------------------
(* Subagents.                                                               *)

(* What the types give: which tables are functions on the jobs.            *)
Tables ==
  /\ caller = [j \in Jobs |-> caller[j]]
  /\ child = [j \in Jobs |-> child[j]]
  /\ event \in [Jobs -> BOOLEAN]
  /\ interrupted \in BOOLEAN
  /\ owed \subseteq Jobs

(* A child that runs is registered, so that a copy of the children has it.  *)
Registered == \A j \in Jobs : child[j] \in {"registered", "safe", "step"} => j \in children

(* interrupt() owes its jobs the event itself, which a child looks at after *)
(* it has registered; a child that runs has been told, or is yet to be      *)
(* copied or to be told.                                                    *)
Told(j) ==
  \/ event[j]
  \/ ipc = "copy"
  \/ ipc = "deliver" /\ j \in targets

OwedAreTold ==
  /\ owed # {} => interrupted
  /\ \A j \in owed : Running(j) => Told(j)

(* Who gave up on a job has blamed it before it signals it.                 *)
GivenUpAreBlamed == \A j \in Jobs : caller[j] \in {"gaveUp", "stopping"} => j \in blamed

Inv == Tables /\ Registered /\ OwedAreTold /\ GivenUpAreBlamed

-----------------------------------------------------------------------------
LEMMA InvInit == Init => Inv
  BY DEF Init, Inv, Tables, Registered, OwedAreTold, GivenUpAreBlamed, Running

LEMMA InvCaller ==
  ASSUME Inv, NEW j \in Jobs,
         Submit(j) \/ Return(j) \/ TimeOut(j) \/ CancelFuture(j) \/ StopChild(j)
  PROVE  Inv'
<1>1. Tables'
  BY DEF Inv, Tables, Submit, Return, TimeOut, CancelFuture, StopChild, Signal,
         Moves, Proceeds, parent, history
<1>2. \A k \in Jobs : /\ child'[k] \in {"registered", "safe", "step"} => child'[k] = child[k]
                      /\ event[k] => event'[k]
  BY DEF Inv, Tables, Submit, Return, TimeOut, CancelFuture, StopChild, Signal,
         Moves, Proceeds
<1>3. UNCHANGED <<children, interrupted, targets, ipc, owed>>
  BY DEF Submit, Return, TimeOut, CancelFuture, StopChild, parent, history
<1>4. Registered'
  BY <1>2, <1>3 DEF Inv, Registered
<1>5. OwedAreTold'
  BY <1>2, <1>3 DEF Inv, Tables, OwedAreTold, Told, Running
<1>6. GivenUpAreBlamed'
  BY DEF Inv, Tables, GivenUpAreBlamed, Submit, Return, TimeOut, CancelFuture, StopChild,
         Proceeds, history
<1> QED
  BY <1>1, <1>4, <1>5, <1>6 DEF Inv

LEMMA InvThread == ASSUME Inv, NEW j \in Jobs, Thread(j) PROVE Inv'
<1>1. Tables' /\ UNCHANGED <<caller, parent, history>>
  BY DEF Inv, Tables, Thread, TakeJob, Register, CheckParent, SafePoint, StepEnds, Unregister,
         ToldOfParent, Moves, parent, history
<1>2. Registered'
  BY DEF Inv, Tables, Registered, Thread, TakeJob, Register, CheckParent, SafePoint, StepEnds,
         Unregister, Moves
<1>3. OwedAreTold'
  <2>1. \A k \in Jobs : event[k] => event'[k]
    BY DEF Inv, Tables, Thread, TakeJob, Register, CheckParent, SafePoint, StepEnds,
           Unregister, ToldOfParent
  <2>2. ASSUME NEW k \in Jobs, k \in owed, Running(k)', ~Running(k) PROVE event'[k]
    BY <2>2 DEF Inv, Tables, OwedAreTold, Running, Thread, TakeJob, Register, CheckParent,
                SafePoint, StepEnds, Unregister, Moves, ToldOfParent
  <2> QED
    BY <1>1, <2>1, <2>2 DEF Inv, Tables, OwedAreTold, Told, parent, history
<1> QED
  BY <1>1, <1>2, <1>3 DEF Inv, GivenUpAreBlamed, history

LEMMA InvParent ==
  ASSUME Inv, Interrupt \/ CopyChildren \/ Deliver \/ ParentRuns
  PROVE  Inv'
<1>1. Tables' /\ Registered'
  BY DEF Inv, Tables, Registered, Interrupt, CopyChildren, Deliver, ParentRuns, Submitted, history
<1>2. GivenUpAreBlamed'
  BY DEF Inv, GivenUpAreBlamed, Interrupt, CopyChildren, Deliver, ParentRuns, history
<1>3. OwedAreTold'
  <2>1. CASE Interrupt
    BY <2>1 DEF Inv, OwedAreTold, Told, Interrupt
  <2>2. CASE CopyChildren
    BY <2>2 DEF Inv, Tables, Registered, OwedAreTold, Told, Running, CopyChildren, history
  <2>3. CASE Deliver
    <3>1. CASE targets = {}
      BY <2>3, <3>1 DEF Inv, Tables, OwedAreTold, Told, Running, Deliver, history
    <3>2. CASE targets # {}
      BY <2>3, <3>2 DEF Inv, Tables, OwedAreTold, Told, Running, Deliver, history
    <3> QED
      BY <3>1, <3>2
  <2>4. CASE ParentRuns
    BY <2>4 DEF OwedAreTold, ParentRuns
  <2> QED
    BY <2>1, <2>2, <2>3, <2>4
<1> QED
  BY <1>1, <1>2, <1>3 DEF Inv

LEMMA InvNext == Inv /\ [Next]_vars => Inv'
<1> SUFFICES ASSUME Inv, [Next]_vars PROVE Inv'
  OBVIOUS
<1>1. ASSUME NEW j \in Jobs,
             Submit(j) \/ Return(j) \/ TimeOut(j) \/ CancelFuture(j) \/ StopChild(j)
      PROVE  Inv'
  BY <1>1, InvCaller
<1>2. ASSUME NEW j \in Jobs, Thread(j) PROVE Inv'
  BY <1>2, InvThread
<1>3. CASE Interrupt \/ CopyChildren \/ Deliver \/ ParentRuns
  BY <1>3, InvParent
<1>4. CASE UNCHANGED vars
  BY <1>4 DEF vars, parent, history, Inv, Tables, Registered, OwedAreTold, Told, Running,
              GivenUpAreBlamed
<1> QED
  BY <1>1, <1>2, <1>3, <1>4 DEF Next

(* The tables, who is registered, who has been told and who is blamed fit   *)
(* together in every state of spawn_subagent() and interrupt().             *)
THEOREM Invariant == Spec => []Inv
<1> QED
  BY InvInit, InvNext, PTL DEF Spec

-----------------------------------------------------------------------------
(* InterruptReachesChildren (TLC: small_parts): once interrupt() has         *)
(* returned every child of a job delegated before it has been told to stop, *)
(* whether it was in the copy of the children or registered after it.       *)
THEOREM Reaches == Spec => []InterruptReachesChildren
<1>1. Inv => InterruptReachesChildren
  BY DEF Inv, OwedAreTold, Told, InterruptReachesChildren
<1> QED
  BY <1>1, Invariant, PTL

(* OnlyBlamedStop (TLC: small_parts): an event is set only by the time      *)
(* limit of its own job or by an interruption of the parent.                *)
THEOREM OnlyBlamed == Spec => OnlyBlamedStop
<1>1. Inv /\ [Next]_vars => [\A j \in Jobs : ~event[j] /\ event'[j]
                                             => j \in blamed \/ interrupted \/ j \in targets]_vars
  <2> DEFINE Step == \A j \in Jobs : ~event[j] /\ event'[j]
                                       => j \in blamed \/ interrupted \/ j \in targets
  <2> SUFFICES ASSUME Inv, Next PROVE Step
    OBVIOUS
  <2>1. ASSUME NEW j \in Jobs,
               Submit(j) \/ Return(j) \/ TimeOut(j) \/ CancelFuture(j) \/ StopChild(j)
        PROVE  Step
    BY <2>1 DEF Inv, Tables, GivenUpAreBlamed, Submit, Return, TimeOut, CancelFuture, StopChild,
                Signal, Proceeds
  <2>2. ASSUME NEW j \in Jobs, Thread(j) PROVE Step
    BY <2>2 DEF Inv, Tables, Thread, TakeJob, Register, CheckParent, SafePoint, StepEnds,
                Unregister, ToldOfParent
  <2>3. CASE Interrupt \/ CopyChildren \/ Deliver \/ ParentRuns
    BY <2>3 DEF Inv, Tables, Interrupt, CopyChildren, Deliver, ParentRuns
  <2> QED
    BY <2>1, <2>2, <2>3 DEF Next
<1> QED
  BY <1>1, Invariant, PTL DEF Spec, OnlyBlamedStop

-----------------------------------------------------------------------------
(* SkillUpdate, whose theorem holds of the instance as well.                *)

KP == INSTANCE SkillUpdateProofs WITH pc <- place

(* ImplementsStore (TLC: small_parts): whatever fails, wherever the program *)
(* stops and however it recovers, update() replaces the skills of a source  *)
(* together or not at all, and a recovery beside it disturbs only its own   *)
(* skills; for every set of skills.                                         *)
THEOREM ReplacesTogether == Parts => ImplementsStore
<1>1. Start => KP!Init
  BY DEF Start, K!Init, KP!Init, K!NoEntries, KP!NoEntries
<1>2. [Moved /\ UNCHANGED part]_all => [KP!Next]_KP!vars
  <2>1. K!Next => KP!Next
    BY DEF K!Next, KP!Next, K!Content, K!Entry, K!NoEntries, K!Named, K!Installing,
       K!Updating, K!BeginUpdate, K!Choose, K!Recorded, K!Record, K!RecordFails, K!Move,
       K!Copy, K!Copied, K!AllCopied, K!WriteMetadata, K!ClearJournal, K!Purge,
       K!UpdateReturns, K!Fail, K!HasWork, K!Restore, K!Dismantle, K!RollBack,
       K!RollBackFails, K!RollBackRemoves, K!RollBackEnds, K!BeginInstall, K!EndInstall,
       K!InstallFails, K!Crash, K!Start, K!Reload, K!RecoverEntry, K!RecoverRemoves,
       K!RecoverFails, K!RecoverEnds, K!Update, K!PlainInstall, K!Recovery, K!disk,
       K!memory, K!reload, K!Busy, K!Copies, K!ReadJournal, K!Notes, KP!Content, KP!Entry, KP!NoEntries, KP!Named, KP!Installing, KP!Updating,
       KP!BeginUpdate, KP!Choose, KP!Recorded, KP!Record, KP!RecordFails, KP!Move, KP!Copy,
       KP!Copied, KP!AllCopied, KP!WriteMetadata, KP!ClearJournal, KP!Purge,
       KP!UpdateReturns, KP!Fail, KP!HasWork, KP!Restore, KP!Dismantle, KP!RollBack,
       KP!RollBackFails, KP!RollBackRemoves, KP!RollBackEnds, KP!BeginInstall,
       KP!EndInstall, KP!InstallFails, KP!Crash, KP!Start, KP!Reload, KP!RecoverEntry,
       KP!RecoverRemoves, KP!RecoverFails, KP!RecoverEnds, KP!Update, KP!PlainInstall,
       KP!Recovery, KP!disk, KP!memory, KP!reload, KP!Busy, KP!Copies, KP!ReadJournal,
       KP!Notes
  <2> QED
    BY <2>1 DEF Moved, all, skills, KP!vars, KP!files, KP!reload
<1>3. KP!Spec => KP!ImplementsStore
  BY KP!Implements
<1>4. KP!Store!Init => K!Store!Init
  BY DEF K!Store!Content, K!Store!Init, K!Store!Choose, K!Store!Commit, K!Store!Install,
     K!Store!Disturb, K!Store!Next, K!Store!vars, K!Effective, K!InWork, K!Named,
     KP!Store!Content, KP!Store!Init, KP!Store!Choose, KP!Store!Commit, KP!Store!Install,
     KP!Store!Disturb, KP!Store!Next, KP!Store!vars, KP!Effective, KP!InWork, KP!Named
<1>5. [KP!Store!Next]_(KP!Store!vars) => [K!Store!Next]_(K!Store!vars)
  BY DEF K!Store!Content, K!Store!Init, K!Store!Choose, K!Store!Commit, K!Store!Install,
     K!Store!Disturb, K!Store!Next, K!Store!vars, K!Effective, K!InWork, K!Named,
     KP!Store!Content, KP!Store!Init, KP!Store!Choose, KP!Store!Commit, KP!Store!Install,
     KP!Store!Disturb, KP!Store!Next, KP!Store!vars, KP!Effective, KP!InWork, KP!Named
<1> QED
  BY <1>1, <1>2, <1>3, <1>4, <1>5, PTL DEF Parts, KP!Spec, ImplementsStore,
     KP!ImplementsStore, K!ImplementsStore, K!Store!Spec, KP!Store!Spec

-----------------------------------------------------------------------------
(* SpeechQueue, whose theorems hold of the instance as well.                *)

QP == INSTANCE SpeechQueueProofs
        WITH queue <- texts, unfinished <- tasksLeft, event <- stopEvent, owed <- wasPlaying

LEMMA SpeechSpec == Parts => QP!Spec
<1>1. Start => QP!Init
  BY DEF Start, Q!Init, QP!Init
<1>2. Q!Next => QP!Next
  <2>1. Q!Worker => QP!Worker
    BY DEF
       Q!gui, QP!gui, Q!Quiet, QP!Quiet, Q!Worker, QP!Worker, Q!AfterSentinel,
       QP!AfterSentinel, Q!Take, QP!Take, Q!MarkProcessing, QP!MarkProcessing,
       Q!BatchOpen, QP!BatchOpen, Q!Collect, QP!Collect, Q!CollectEnds,
       QP!CollectEnds, Q!Decide, QP!Decide, Q!Speak, QP!Speak, Q!EndPlayback,
       QP!EndPlayback, Q!Settle, QP!Settle, Q!NextRound, QP!NextRound,
       Q!CheckSilent, QP!CheckSilent, Q!Announce, QP!Announce, Q!AnnounceSilent,
       QP!AnnounceSilent
  <2>2. ASSUME NEW t \in Texts, Q!Say(t) \/ Q!SayRefused(t) PROVE QP!Say(t) \/ QP!SayRefused(t)
    <3>1. CASE Q!Say(t)
      BY <3>1 DEF Q!gui, QP!gui, Q!worker, QP!worker, Q!Room, QP!Room, Q!Accepting,
         QP!Accepting, Q!Halting, QP!Halting, Q!Say, QP!Say
    <3>2. CASE Q!SayRefused(t)
      BY <3>2 DEF Q!gui, QP!gui, Q!worker, QP!worker, Q!SayRefused, QP!SayRefused, Q!Announce,
         QP!Announce
    <3> QED
      BY <2>2, <3>1, <3>2
  <2>3. Q!Gui => QP!Gui
    <3>1. Q!StopSpeakingSteps => QP!StopSpeakingSteps
      BY DEF
         Q!worker, QP!worker, Q!CancelBatch, QP!CancelBatch, Q!Drain, QP!Drain,
         Q!Clear, QP!Clear, Q!StopProvider, QP!StopProvider, Q!WasPlaying,
         QP!WasPlaying, Q!ClearSpeech, QP!ClearSpeech, Q!OwesAnnouncement,
         QP!OwesAnnouncement, Q!InterruptProvider, QP!InterruptProvider,
         Q!NowSilent, QP!NowSilent, Q!AnnounceInterrupted, QP!AnnounceInterrupted,
         Q!Announce, QP!Announce, Q!StopSpeakingSteps, QP!StopSpeakingSteps
    <3>2. (Q!Interrupt \/ Q!Halt \/ Q!HaltSteps) => (QP!Interrupt \/ QP!Halt \/ QP!HaltSteps)
      BY DEF
         Q!worker, QP!worker, Q!CancelBatch, QP!CancelBatch, Q!Drain, QP!Drain,
         Q!Clear, QP!Clear, Q!StopProvider, QP!StopProvider, Q!Interrupt,
         QP!Interrupt, Q!Halt, QP!Halt, Q!HaltProvider, QP!HaltProvider,
         Q!HaltClear, QP!HaltClear, Q!HaltPut, QP!HaltPut, Q!HaltSteps,
         QP!HaltSteps, Q!Room, QP!Room
    <3> QED
      BY <3>1, <3>2 DEF Q!Gui, QP!Gui
  <2>4. Q!Voice => QP!Voice
    BY DEF Q!gui, QP!gui, Q!worker, QP!worker, Q!BeginReply, QP!BeginReply,
       Q!CheckReply, QP!CheckReply, Q!AwaitReply, QP!AwaitReply, Q!Voice, QP!Voice
  <2> QED
    BY <2>1, <2>2, <2>3, <2>4 DEF Q!Next, QP!Next
<1>3. [Moved /\ UNCHANGED part]_all => [QP!Next]_QP!vars
  BY <1>2 DEF Moved, all, speech, QP!vars, QP!worker, QP!gui
<1> QED
  BY <1>1, <1>3, PTL DEF Parts, QP!Spec

(* InterruptionIsExact (TLC: small_parts): stop_speaking() and stop()       *)
(* cancel the requests accepted before them, in the queue and with the TTS  *)
(* thread, and none accepted later (clear() under _batch_lock, and _batch); *)
(* for every set of texts and every size of the queue.                      *)
THEOREM InterruptsExactly == Parts => []InterruptionIsExact
<1>1. QP!TypeOK /\ QP!InterruptionIsExact => InterruptionIsExact
  BY DEF InterruptionIsExact, Q!InterruptionIsExact, QP!InterruptionIsExact, Q!QueuedTexts,
         QP!QueuedTexts, Q!InFlight, QP!InFlight, Q!TypeOK, QP!TypeOK, Q!WorkerStates,
         QP!WorkerStates, Q!GuiStates, QP!GuiStates, Q!Halting, QP!Halting
<1>2. QP!Spec => []QP!TypeOK
  BY QP!TypeCorrect, SpeechAssumption
<1>3. QP!Spec => []QP!InterruptionIsExact
  BY QP!Exact, SpeechAssumption
<1> QED
  BY <1>1, <1>2, <1>3, SpeechSpec, PTL

(* SilentAfterStop (TLC: small_parts): once stop() has returned the         *)
(* provider is not asked to play a batch that was not cancelled.            *)
THEOREM StaysSilent == Parts => []SilentAfterStop
<1>1. QP!SilentAfterStop => SilentAfterStop
  BY DEF SilentAfterStop, Q!SilentAfterStop, QP!SilentAfterStop
<1>2. QP!Spec => []QP!SilentAfterStop
  BY QP!Silent, SpeechAssumption
<1> QED
  BY <1>1, <1>2, SpeechSpec, PTL

=============================================================================

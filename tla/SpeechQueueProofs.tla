-------------------------- MODULE SpeechQueueProofs --------------------------
(***************************************************************************)
(* Theorems about SpeechQueue, for any set of requests and any limit of    *)
(* the queue: an interruption cancels exactly what was accepted before it, *)
(* and after stop() no provider plays unasked.                             *)
(***************************************************************************)
EXTENDS SpeechQueue, TLAPS

-----------------------------------------------------------------------------
(* Types.                                                                   *)

(* TypeOK without the flags (and what was accepted, see Inv), and the flags. *)
Shape ==
  /\ queue \in Seq(Texts \union {Stop}) /\ Len(queue) <= MaxQueue
  /\ unfinished \in Int
  /\ batch \subseteq Texts
  /\ taken \in Nat
  /\ accepted \subseteq Texts
  /\ wpc \in WorkerStates
  /\ gpc \in GuiStates
  /\ spc \in [Texts -> {"new", "announceQ", "announceP", "done"}]
  /\ vpc \in {"idle", "reply", "waitQ", "waitP", "wait", "over", "gaveUp"}

Flags == {stopSeen, event, active, processing, shutdown, finished, announced, owed} \subseteq BOOLEAN

LEMMA TypeParts == TypeOK <=> Shape /\ Flags /\ doomed \subseteq accepted
  BY DEF TypeOK, Shape, Flags

LEMMA ShapeInit == Init => Shape
<1> SUFFICES ASSUME Init PROVE Shape
  OBVIOUS
<1>1. <<>> \in Seq(Texts \union {Stop}) /\ Len(<<>>) <= MaxQueue
  BY SpeechAssumption
<1> QED
  BY <1>1 DEF Init, Shape, GuiStates, WorkerStates

LEMMA ShapeNext == Shape /\ [Next]_vars => Shape'
<1> SUFFICES ASSUME Shape, [Next]_vars PROVE Shape'
  OBVIOUS
<1> USE DEF Shape, GuiStates, WorkerStates, Halting, worker, gui
<1>1. CASE Take
  <2>1. Head(queue) \in Texts \union {Stop} /\ Tail(queue) \in Seq(Texts \union {Stop}) /\ Len(Tail(queue)) <= MaxQueue
    BY <1>1, SpeechAssumption DEF Take
  <2>2. batch' \subseteq Texts /\ taken' \in Nat /\ unfinished' \in Int /\ wpc' \in WorkerStates
    BY <1>1, <2>1 DEF Take, AfterSentinel
  <2> QED
    BY <1>1, <2>1, <2>2 DEF Take, Quiet
<1>2. CASE Collect
  <2>1. Head(queue) \in Texts \union {Stop} /\ Tail(queue) \in Seq(Texts \union {Stop}) /\ Len(Tail(queue)) <= MaxQueue
    BY <1>2, SpeechAssumption DEF Collect
  <2>2. batch' \subseteq Texts /\ taken' \in Nat /\ wpc' \in WorkerStates
    BY <1>2, <2>1 DEF Collect
  <2> QED
    BY <1>2, <2>1, <2>2 DEF Collect, Quiet
<1>3. CASE MarkProcessing \/ CollectEnds \/ Decide \/ Speak \/ EndPlayback
  BY <1>3 DEF MarkProcessing, CollectEnds, Decide, Speak, EndPlayback, Quiet
<1>4. CASE Settle \/ CheckSilent \/ AnnounceSilent
  BY <1>4 DEF Settle, CheckSilent, AnnounceSilent, NextRound, Quiet
<1>5. CASE \E t \in Texts : Say(t)
  <2>1. PICK t \in Texts : Say(t)
    BY <1>5
  <2>2. spc' \in [Texts -> {"new", "announceQ", "announceP", "done"}]
    BY <2>1 DEF Say
  <2>3. Room => Append(queue, t) \in Seq(Texts \union {Stop}) /\ Len(Append(queue, t)) <= MaxQueue
    BY SpeechAssumption DEF Room
  <2>4. queue' \in Seq(Texts \union {Stop}) /\ Len(queue') <= MaxQueue /\ unfinished' \in Int /\ accepted' \subseteq Texts /\ accepted \subseteq accepted'
    BY <2>1, <2>3 DEF Say
  <2> QED
    BY <2>1, <2>2, <2>4 DEF Say
<1>6. CASE \E t \in Texts : SayRefused(t)
  BY <1>6 DEF SayRefused
<1>7. CASE Interrupt \/ WasPlaying \/ NowSilent \/ AnnounceInterrupted
  BY <1>7 DEF Interrupt, WasPlaying, NowSilent, AnnounceInterrupted
<1>8. CASE ClearSpeech \/ HaltClear
  <2>1. <<>> \in Seq(Texts \union {Stop}) /\ Len(<<>>) <= MaxQueue /\ Len(queue) \in Nat
    BY SpeechAssumption
  <2>2. Drain /\ doomed' = accepted
    BY <1>8 DEF ClearSpeech, HaltClear, Clear
  <2>3. UNCHANGED <<accepted, spc, vpc, worker>> /\ gpc' \in GuiStates
    BY <1>8 DEF ClearSpeech, HaltClear
  <2> QED
    BY <2>1, <2>2, <2>3 DEF Drain
<1>9. CASE InterruptProvider \/ HaltProvider
  BY <1>9 DEF InterruptProvider, HaltProvider
<1>10. CASE Halt
  BY <1>10 DEF Halt
<1>11. CASE HaltPut
  <2>1. Room => Append(queue, Stop) \in Seq(Texts \union {Stop}) /\ Len(Append(queue, Stop)) <= MaxQueue
    BY SpeechAssumption DEF Room
  <2> QED
    BY <1>11, <2>1 DEF HaltPut
<1>12. CASE Voice
  BY <1>12 DEF Voice, BeginReply, CheckReply, AwaitReply
<1>13. CASE UNCHANGED vars
  BY <1>13 DEF vars
<1> QED
  BY <1>1, <1>2, <1>3, <1>4, <1>5, <1>6, <1>7, <1>8, <1>9, <1>10, <1>11, <1>12, <1>13
     DEF Next, Worker, Gui, StopSpeakingSteps, HaltSteps

LEMMA FlagsInit == Init => Flags
  BY DEF Init, Flags

LEMMA FlagsNext == Flags /\ [Next]_vars => Flags'
<1> SUFFICES ASSUME Flags, [Next]_vars PROVE Flags'
  OBVIOUS
<1> USE DEF Flags, worker, gui
<1>1. CASE Take \/ MarkProcessing
  BY <1>1 DEF Take, MarkProcessing, Quiet
<1>2. CASE Collect \/ CollectEnds \/ Decide \/ EndPlayback
  BY <1>2 DEF Collect, CollectEnds, Decide, EndPlayback, Quiet
<1>3. CASE Speak \/ Settle \/ CheckSilent
  BY <1>3 DEF Speak, Settle, CheckSilent, Quiet
<1>4. CASE AnnounceSilent
  BY <1>4 DEF AnnounceSilent, Announce, Quiet
<1>5. CASE \E t \in Texts : Say(t) \/ SayRefused(t)
  BY <1>5 DEF Say, SayRefused, Announce
<1>6. CASE Interrupt \/ NowSilent \/ AnnounceInterrupted \/ Halt \/ HaltPut
  BY <1>6 DEF Interrupt, NowSilent, AnnounceInterrupted, Announce, Halt, HaltPut
<1>7. CASE WasPlaying
  BY <1>7 DEF WasPlaying
<1>8. CASE ClearSpeech \/ HaltClear
  BY <1>8 DEF ClearSpeech, HaltClear, Clear, CancelBatch
<1>9. CASE InterruptProvider \/ HaltProvider
  BY <1>9 DEF InterruptProvider, HaltProvider, StopProvider
<1>10. CASE Voice
  BY <1>10 DEF Voice, BeginReply, CheckReply, AwaitReply
<1>11. CASE UNCHANGED vars
  BY <1>11 DEF vars
<1> QED
  BY <1>1, <1>2, <1>3, <1>4, <1>5, <1>6, <1>7, <1>8, <1>9, <1>10, <1>11
     DEF Next, Worker, Gui, StopSpeakingSteps, HaltSteps

-----------------------------------------------------------------------------
(* The invariant.  Every request is in one place, and only accepted ones    *)
(* are anywhere; the batch has the active stop event as long as it is not   *)
(* settled.                                                                 *)
InWork == {"took", "collect", "decide", "speak", "play", "settle"}

Queued(t) == \E k \in DOMAIN queue : queue[k] = t

Accounted ==
  /\ batch \subseteq accepted /\ doomed \subseteq accepted
  /\ \A t \in Texts : Queued(t) => t \in accepted /\ t \notin batch /\ t \notin doomed
  /\ \A k, m \in DOMAIN queue : queue[k] = queue[m] /\ queue[k] # Stop => k = m
  /\ \A t \in Texts : spc[t] = "new" => t \notin accepted

BatchIsActive == (batch # {} => active) /\ (wpc \in InWork => active)

Cancelled ==
  /\ event => batch \subseteq doomed
  /\ batch \intersect doomed # {} => event

StopIsSeen == gpc \in Halting \union {"gone"} => shutdown

Inv == Shape /\ Accounted /\ BatchIsActive /\ Cancelled /\ StopIsSeen /\ SilentAfterStop

LEMMA InvInit == Init => Inv
<1> SUFFICES ASSUME Init PROVE Inv
  OBVIOUS
<1> QED
  BY ShapeInit DEF Init, Inv, Accounted, BatchIsActive, Cancelled, StopIsSeen, SilentAfterStop, InWork, Queued, Halting

(* The first of the queue leaves it. *)
LEMMA HeadLeaves ==
  ASSUME Shape, Accounted, queue # <<>>, queue' = Tail(queue)
  PROVE  /\ Head(queue) \in Texts \union {Stop}
         /\ Head(queue) \in Texts => Head(queue) \in accepted \ doomed
         /\ \A t \in Texts : Queued(t)' => Queued(t) /\ t # Head(queue)
         /\ \A k, m \in DOMAIN queue' : queue'[k] = queue'[m] /\ queue'[k] # Stop => k = m
<1>1. queue \in Seq(Texts \union {Stop})
  BY DEF Shape
<1>2. 1 \in DOMAIN queue /\ Head(queue) = queue[1]
  BY <1>1
<1>3. \A k \in DOMAIN queue' : k + 1 \in DOMAIN queue /\ queue'[k] = queue[k + 1] /\ k + 1 # 1 /\ k \in Nat
  BY <1>1
<1>4. Head(queue) \in Texts => Head(queue) \in accepted \ doomed
  BY <1>2 DEF Accounted, Queued
<1>5. \A t \in Texts : Queued(t)' => Queued(t) /\ t # Head(queue)
  BY <1>2, <1>3, SpeechAssumption DEF Accounted, Queued
<1>6. \A k, m \in DOMAIN queue' : queue'[k] = queue'[m] /\ queue'[k] # Stop => k = m
  <2> SUFFICES ASSUME NEW k \in DOMAIN queue', NEW m \in DOMAIN queue', queue'[k] = queue'[m], queue'[k] # Stop
               PROVE  k = m
    OBVIOUS
  <2>1. k + 1 = m + 1 /\ k \in Nat /\ m \in Nat
    BY <1>3 DEF Accounted
  <2> QED
    BY <2>1
<1> QED
  BY <1>1, <1>2, <1>4, <1>5, <1>6

LEMMA InvTake == ASSUME Inv, Take, Shape' PROVE Inv'
<1>0. Shape /\ Accounted /\ BatchIsActive /\ Cancelled /\ StopIsSeen /\ SilentAfterStop
  BY DEF Inv
<1>1. queue # <<>> /\ queue' = Tail(queue) /\ UNCHANGED <<accepted, doomed, spc, gpc, shutdown>>
  BY DEF Take, Quiet, gui
<1>2. CASE Head(queue) = Stop
  <2>1. UNCHANGED <<batch, event, active>> /\ wpc' = "exited"
    BY <1>2 DEF Take, AfterSentinel
  <2>2. Accounted'
    BY <1>0, <1>1, <2>1, HeadLeaves DEF Accounted
  <2> QED
    BY <1>0, <1>1, <2>1, <2>2 DEF Inv, BatchIsActive, Cancelled, StopIsSeen, SilentAfterStop, InWork
<1>3. CASE Head(queue) # Stop
  <2>1. batch' = {Head(queue)} /\ event' = FALSE /\ active' = TRUE /\ wpc' = "took"
    BY <1>3 DEF Take
  <2>2. Head(queue) \in Texts /\ Head(queue) \in accepted \ doomed
    BY <1>0, <1>1, <1>3, HeadLeaves
  <2>3. Accounted'
    BY <1>0, <1>1, <2>1, <2>2, HeadLeaves DEF Accounted
  <2> QED
    BY <1>0, <1>1, <2>1, <2>2, <2>3 DEF Inv, BatchIsActive, Cancelled, StopIsSeen, SilentAfterStop, InWork
<1> QED
  BY <1>2, <1>3

LEMMA InvCollect == ASSUME Inv, Collect, Shape' PROVE Inv'
<1>0. Shape /\ Accounted /\ BatchIsActive /\ Cancelled /\ StopIsSeen /\ SilentAfterStop
  BY DEF Inv
<1>1. /\ queue # <<>> /\ queue' = Tail(queue) /\ ~event
      /\ UNCHANGED <<accepted, doomed, spc, gpc, shutdown, event, active>>
      /\ wpc = "collect" /\ wpc' \in {"collect", "decide"}
  BY DEF Collect, Quiet, gui, BatchOpen
<1>2. batch' = batch \/ (batch' = batch \union {Head(queue)} /\ Head(queue) # Stop)
  BY DEF Collect
<1>3. batch' \subseteq accepted /\ batch' \intersect doomed = {} /\ \A t \in Texts : Queued(t)' => t \notin batch'
  BY <1>0, <1>1, <1>2, HeadLeaves DEF Accounted, Cancelled
<1>4. Accounted'
  BY <1>0, <1>1, <1>3, HeadLeaves DEF Accounted
<1> QED
  BY <1>0, <1>1, <1>3, <1>4 DEF Inv, BatchIsActive, Cancelled, StopIsSeen, SilentAfterStop, InWork

LEMMA InvSay == ASSUME Inv, NEW t \in Texts, Say(t), Shape' PROVE Inv'
<1>0. Shape /\ Accounted /\ BatchIsActive /\ Cancelled /\ StopIsSeen /\ SilentAfterStop
  BY DEF Inv
<1>1. UNCHANGED <<event, batch, active, wpc, doomed, gpc, shutdown>> /\ t \notin accepted
  BY <1>0 DEF Say, worker, gui, Accounted
<1>2. \A u \in Texts : u # t => spc'[u] = spc[u]
  BY <1>0 DEF Say, Shape
<1>3. CASE queue' = queue /\ accepted' = accepted
  <2>1. Accounted'
    <3>1. spc'[t] # "new"
      BY <1>0 DEF Say, Shape
    <3> QED
      BY <1>0, <1>1, <1>2, <1>3, <3>1 DEF Accounted, Queued
  <2> QED
    BY <1>0, <1>1, <2>1 DEF Inv, BatchIsActive, Cancelled, StopIsSeen, SilentAfterStop, InWork
<1>4. CASE queue' = Append(queue, t) /\ accepted' = accepted \union {t}
  <2>1. spc'[t] # "new"
    BY <1>0 DEF Say, Shape
  <2>2. /\ DOMAIN queue' = 1 .. Len(queue) + 1 /\ DOMAIN queue = 1 .. Len(queue) /\ Len(queue) \in Nat
        /\ queue'[Len(queue) + 1] = t /\ \A k \in DOMAIN queue : queue'[k] = queue[k]
    BY <1>0, <1>4 DEF Shape
  <2>3. ~Queued(t)
    BY <1>0, <1>1 DEF Accounted
  <2>4. \A u \in Texts : Queued(u)' => Queued(u) \/ u = t
    BY <2>2 DEF Queued
  <2>5. \A k, m \in DOMAIN queue' : queue'[k] = queue'[m] /\ queue'[k] # Stop => k = m
    BY <1>0, <2>2, <2>3 DEF Accounted, Queued
  <2>6. t \notin batch /\ t \notin doomed
    BY <1>0, <1>1 DEF Accounted
  <2>7. Accounted'
    BY <1>0, <1>1, <1>2, <1>4, <2>1, <2>4, <2>5, <2>6 DEF Accounted
  <2> QED
    BY <1>0, <1>1, <2>7 DEF Inv, BatchIsActive, Cancelled, StopIsSeen, SilentAfterStop, InWork
<1> QED
  BY <1>3, <1>4 DEF Say

(* clear() dooms all that was accepted: the queue is empty and the batch    *)
(* has its event.                                                           *)
LEMMA InvClear == ASSUME Inv, ClearSpeech \/ HaltClear, Shape' PROVE Inv'
<1>0. Shape /\ Accounted /\ BatchIsActive /\ Cancelled /\ StopIsSeen /\ SilentAfterStop
  BY DEF Inv
<1>1. /\ event' = (event \/ active) /\ queue' = <<>> /\ doomed' = accepted
      /\ UNCHANGED <<accepted, spc, batch, active, wpc, shutdown>>
      /\ gpc \in Halting \/ gpc' \notin Halting \union {"gone"}
  BY DEF ClearSpeech, HaltClear, Clear, CancelBatch, Drain, worker, Halting
<1>2. \A t \in Texts : ~Queued(t)'
  BY <1>1 DEF Queued
<1>3. Accounted'
  BY <1>0, <1>1, <1>2 DEF Accounted
<1> QED
  BY <1>0, <1>1, <1>3 DEF Inv, Accounted, BatchIsActive, Cancelled, StopIsSeen, SilentAfterStop, InWork

LEMMA InvProvider == ASSUME Inv, InterruptProvider \/ HaltProvider, Shape' PROVE Inv'
<1>0. Shape /\ Accounted /\ BatchIsActive /\ Cancelled /\ StopIsSeen /\ SilentAfterStop
  BY DEF Inv
<1>1. /\ event' = (event \/ wpc = "play") /\ doomed' = doomed \union (IF wpc = "play" THEN batch ELSE {})
      /\ UNCHANGED <<queue, accepted, spc, batch, active, wpc, shutdown>>
      /\ gpc \in Halting \/ gpc' \notin Halting \union {"gone"}
      /\ gpc' \notin {"haltPut", "gone"}
  BY DEF InterruptProvider, HaltProvider, StopProvider, worker, Halting
<1>2. (\A t \in Texts : Queued(t)' <=> Queued(t)) /\ doomed' \subseteq doomed \union batch
  BY <1>1 DEF Queued
<1>3. Accounted'
  BY <1>0, <1>1, <1>2 DEF Accounted
<1> QED
  BY <1>0, <1>1, <1>3 DEF Inv, BatchIsActive, Cancelled, StopIsSeen, SilentAfterStop, InWork

LEMMA InvHaltPut == ASSUME Inv, HaltPut, Shape' PROVE Inv'
<1>0. Shape /\ Accounted /\ BatchIsActive /\ Cancelled /\ StopIsSeen /\ SilentAfterStop
  BY DEF Inv
<1>1. /\ UNCHANGED <<event, batch, active, wpc, doomed, accepted, spc, shutdown>>
      /\ gpc = "haltPut" /\ gpc' = "gone"
      /\ queue' = queue \/ queue' = Append(queue, Stop)
  BY DEF HaltPut, worker
<1>2. \A t \in Texts : Queued(t)' => Queued(t)
  <2>1. CASE queue' = Append(queue, Stop)
    <3>1. /\ DOMAIN queue' = 1 .. Len(queue) + 1 /\ DOMAIN queue = 1 .. Len(queue) /\ Len(queue) \in Nat
          /\ queue'[Len(queue) + 1] = Stop /\ \A k \in DOMAIN queue : queue'[k] = queue[k]
      BY <1>0, <2>1 DEF Shape
    <3> QED
      BY <3>1, SpeechAssumption DEF Queued
  <2> QED
    BY <1>1, <2>1 DEF Queued
<1>3. \A k, m \in DOMAIN queue' : queue'[k] = queue'[m] /\ queue'[k] # Stop => k = m
  <2>1. CASE queue' = Append(queue, Stop)
    <3>1. /\ DOMAIN queue' = 1 .. Len(queue) + 1 /\ DOMAIN queue = 1 .. Len(queue) /\ Len(queue) \in Nat
          /\ queue'[Len(queue) + 1] = Stop /\ \A k \in DOMAIN queue : queue'[k] = queue[k]
      BY <1>0, <2>1 DEF Shape
    <3> QED
      BY <1>0, <3>1 DEF Accounted
  <2> QED
    BY <1>0, <1>1, <2>1 DEF Accounted
<1>4. Accounted'
  BY <1>0, <1>1, <1>2, <1>3 DEF Accounted
<1> QED
  BY <1>0, <1>1, <1>4 DEF Inv, BatchIsActive, Cancelled, StopIsSeen, SilentAfterStop, InWork, Halting

(* The other steps move nothing. *)
LEMMA InvStill ==
  ASSUME Inv, UNCHANGED <<queue, accepted, doomed, event>>, Shape',
         batch' = batch \/ batch' = {}, \A t \in Texts : spc'[t] = "new" => spc[t] = "new",
         BatchIsActive', StopIsSeen', SilentAfterStop'
  PROVE  Inv'
<1>0. Shape /\ Accounted /\ Cancelled
  BY DEF Inv
<1>1. \A t \in Texts : Queued(t)' <=> Queued(t)
  BY DEF Queued
<1>2. Accounted'
  BY <1>0, <1>1 DEF Accounted
<1> QED
  BY <1>0, <1>2 DEF Inv, Cancelled

LEMMA InvNext == Inv /\ [Next]_vars => Inv'
<1> SUFFICES ASSUME Inv, [Next]_vars PROVE Inv'
  OBVIOUS
<1>0. Shape /\ Shape' /\ BatchIsActive /\ StopIsSeen /\ SilentAfterStop
  BY ShapeNext DEF Inv
<1> USE DEF BatchIsActive, StopIsSeen, SilentAfterStop, InWork, Halting, worker, gui
<1>1. CASE Take \/ Collect \/ \E t \in Texts : Say(t)
  BY <1>0, <1>1, InvTake, InvCollect, InvSay
<1>2. CASE ClearSpeech \/ HaltClear \/ InterruptProvider \/ HaltProvider
  BY <1>0, <1>2, InvClear, InvProvider
<1>3. CASE MarkProcessing \/ CollectEnds \/ EndPlayback
  BY <1>0, <1>3, InvStill DEF MarkProcessing, CollectEnds, EndPlayback, Quiet
<1>4. CASE Decide
  BY <1>0, <1>4, InvStill DEF Decide, Quiet
<1>5. CASE Speak
  BY <1>0, <1>5, InvStill DEF Speak
<1>6. CASE Settle
  BY <1>0, <1>6, InvStill DEF Settle, Quiet
<1>7. CASE CheckSilent \/ AnnounceSilent
  BY <1>0, <1>7, InvStill DEF CheckSilent, AnnounceSilent, NextRound, Quiet
<1>8. CASE \E t \in Texts : SayRefused(t)
  <2>1. PICK t \in Texts : SayRefused(t)
    BY <1>8
  <2>2. \A u \in Texts : spc'[u] = "new" => spc[u] = "new"
    BY <1>0, <2>1 DEF SayRefused, Shape
  <2> QED
    BY <1>0, <2>1, <2>2, InvStill DEF SayRefused
<1>9. CASE Interrupt \/ WasPlaying \/ NowSilent \/ AnnounceInterrupted
  BY <1>0, <1>9, InvStill DEF Interrupt, WasPlaying, NowSilent, AnnounceInterrupted
<1>10. CASE Halt
  BY <1>0, <1>10, InvStill DEF Halt
<1>11. CASE HaltPut
  BY <1>0, <1>11, InvHaltPut
<1>12. CASE Voice
  BY <1>0, <1>12, InvStill DEF Voice, BeginReply, CheckReply, AwaitReply
<1>13. CASE UNCHANGED vars
  BY <1>0, <1>13, InvStill DEF vars
<1> QED
  BY <1>1, <1>2, <1>3, <1>4, <1>5, <1>6, <1>7, <1>8, <1>9, <1>10, <1>11, <1>12, <1>13
     DEF Next, Worker, Gui, StopSpeakingSteps, HaltSteps

-----------------------------------------------------------------------------
(* The queue, the batch and the places of the threads keep their types.     *)
THEOREM TypeCorrect == Spec => []TypeOK
<1>1. Init => Inv /\ Flags
  BY InvInit, FlagsInit
<1>2. Inv /\ Flags /\ [Next]_vars => (Inv /\ Flags)'
  BY InvNext, FlagsNext
<1>3. Inv /\ Flags => TypeOK
  BY TypeParts DEF Inv, Accounted
<1> QED
  BY <1>1, <1>2, <1>3, PTL DEF Spec

(* Whatever the threads are doing when stop_speaking() or stop() comes, it  *)
(* cancels exactly the requests accepted before it, in the queue and with   *)
(* the TTS thread, and none accepted later (clear() under _batch_lock, and  *)
(* the provider's stop()).                                                  *)
THEOREM Exact == Spec => []InterruptionIsExact
<1>1. Inv => InterruptionIsExact
  <2> SUFFICES ASSUME Inv PROVE QueuedTexts \intersect doomed = {}
    BY DEF Inv, Cancelled, InterruptionIsExact
  <2>1. ASSUME NEW t \in QueuedTexts PROVE t \notin doomed
    <3>1. PICK k \in DOMAIN queue : queue[k] = t
      BY DEF QueuedTexts
    <3>2. t \in Texts
      BY <3>1 DEF QueuedTexts, Inv, Shape
    <3> QED
      BY <3>1, <3>2 DEF Inv, Accounted, Queued
  <2> QED
    BY <2>1
<1> QED
  BY <1>1, InvInit, InvNext, PTL DEF Spec

(* Once stop() has emptied the queue, a batch with the TTS thread is        *)
(* cancelled: it does not reach a provider, or the provider was told to     *)
(* stop.                                                                    *)
THEOREM Silent == Spec => []SilentAfterStop
<1>1. Inv => SilentAfterStop
  BY DEF Inv
<1> QED
  BY <1>1, InvInit, InvNext, PTL DEF Spec
=============================================================================

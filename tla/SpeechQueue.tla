---------------------------- MODULE SpeechQueue ----------------------------
(***************************************************************************)
(* Speech output: TTSThread of core/threads.py, and the functions of       *)
(* core/VoiceCommand.py that feed it (tts_wrapper), ask it whether it is   *)
(* playing (is_tts_playing), interrupt it (stop_speaking) and announce     *)
(* that it fell silent (_handle_tts_playback_finished).                    *)
(*                                                                         *)
(* Threads: the TTS thread, which joins adjacent requests into one batch   *)
(* and plays it; any number of speakers, one per text; the GUI thread,     *)
(* which interrupts and finally stops the speech; and the voice thread,    *)
(* which answers a wake word and waits for its answer to be over before it *)
(* listens.  A section under _batch_lock is one step; everything read      *)
(* without a lock is read in a step of its own.                            *)
(***************************************************************************)
EXTENDS SpeechTexts, Sequences, FiniteSets

VARIABLES
  queue,       \* self.queue
  unfinished,  \* its unfinished_tasks
  batch,       \* the texts the TTS thread has taken and not yet settled
  taken,       \* task_count
  stopSeen,    \* stop_requested
  event,       \* the batch's stop_event is set
  active,      \* self._active_stop_event is the batch's stop_event
  processing,  \* self.is_processing
  shutdown,    \* self._shutdown_requested
  finished,    \* tts_playback_finished_event is set
  announced,   \* history: silence was announced since playback last began
  accepted,    \* history: the texts speak() has put on the queue
  doomed,      \* history: the texts accepted before the last interruption
  wpc,         \* where the TTS thread is
  gpc,         \* where the GUI thread is
  owed,        \* was_playing or removed_count of stop_speaking
  spc,         \* where each speaker is
  vpc          \* where the voice thread is

worker == <<batch, taken, stopSeen, active, processing, wpc>>
gui == <<gpc, owed, shutdown, doomed>>
vars == <<queue, unfinished, event, finished, announced, accepted, spc, vpc, worker, gui>>

Halting == {"haltProvider", "haltClear", "haltPut"}  \* stop() holds _shutdown_lock
GuiStates == {"idle", "wasQ", "wasP", "clear", "provider", "silentQ", "silentP",
              "announceQ", "announceP", "gone"} \union Halting
WorkerStates == {"get", "took", "collect", "decide", "speak", "play", "settle",
                 "silent", "announceQ", "announceP", "exited"}

TypeOK ==
  /\ queue \in Seq(Texts \union {Stop}) /\ Len(queue) <= MaxQueue
  /\ unfinished \in Int
  /\ batch \subseteq Texts
  /\ taken \in Nat
  /\ accepted \subseteq Texts /\ doomed \subseteq accepted
  /\ {stopSeen, event, active, processing, shutdown, finished, announced, owed} \subseteq BOOLEAN
  /\ wpc \in WorkerStates
  /\ gpc \in GuiStates
  /\ spc \in [Texts -> {"new", "announceQ", "announceP", "done"}]
  /\ vpc \in {"idle", "reply", "waitQ", "waitP", "wait", "over", "gaveUp"}

Init ==
  /\ queue = <<>> /\ unfinished = 0
  /\ batch = {} /\ taken = 0
  /\ accepted = {} /\ doomed = {}
  /\ stopSeen = FALSE /\ event = FALSE /\ active = FALSE
  /\ processing = FALSE /\ shutdown = FALSE
  /\ finished = FALSE /\ announced = TRUE /\ owed = FALSE
  /\ wpc = "get" /\ gpc = "idle" /\ vpc = "idle"
  /\ spc = [t \in Texts |-> "new"]

-----------------------------------------------------------------------------
(* The TTS thread (TTSThread.run). *)

Quiet == UNCHANGED <<finished, announced, accepted, spc, vpc, gui>>

SkipsSentinel == "get"  \* mutant: continue for break

AfterSentinel == "exited"

(* queue.get under _batch_lock, with a fresh stop event for a real text. *)
Take ==
  /\ wpc = "get" /\ queue # <<>>
  /\ queue' = Tail(queue)
  /\ IF Head(queue) = Stop
     THEN /\ unfinished' = unfinished - 1
          /\ wpc' = AfterSentinel
          /\ UNCHANGED <<batch, taken, event, active>>
     ELSE /\ batch' = {Head(queue)}
          /\ taken' = 1
          /\ event' = FALSE
          /\ active' = TRUE
          /\ wpc' = "took"
          /\ UNCHANGED unfinished
  /\ UNCHANGED <<stopSeen, processing>> /\ Quiet

MarkProcessing ==
  /\ wpc = "took"
  /\ processing' = TRUE
  /\ stopSeen' = FALSE
  /\ wpc' = "collect"
  /\ UNCHANGED <<queue, unfinished, batch, taken, event, active>> /\ Quiet

AlwaysOpen == TRUE  \* mutant: _collect_batch looks at the stop event only before it starts

BatchOpen == ~event

(* _collect_batch: one request more, unless the batch is cancelled. *)
Collect ==
  /\ wpc = "collect" /\ BatchOpen /\ queue # <<>>
  /\ queue' = Tail(queue)
  /\ taken' = taken + 1
  /\ IF Head(queue) = Stop
     THEN stopSeen' = TRUE /\ wpc' = "decide" /\ UNCHANGED batch
     ELSE batch' = batch \union {Head(queue)} /\ UNCHANGED <<stopSeen, wpc>>
  /\ UNCHANGED <<unfinished, event, active, processing>> /\ Quiet

(* _collect_batch: cancelled, or the window closed on an empty queue. *)
CollectEnds ==
  /\ wpc = "collect" /\ (event \/ queue = <<>>)
  /\ wpc' = "decide"
  /\ UNCHANGED <<queue, unfinished, batch, taken, stopSeen, event, active, processing>> /\ Quiet

Decide ==
  /\ wpc = "decide"
  /\ wpc' = IF shutdown \/ event THEN "settle" ELSE "speak"
  /\ UNCHANGED <<queue, unfinished, batch, taken, stopSeen, event, active, processing>> /\ Quiet

(* text_to_speech up to the provider: it looks at the stop event once more, *)
(* and gives up without a provider or in quiet mode.                        *)
Speak ==
  /\ wpc = "speak"
  /\ \/ ~event /\ wpc' = "play" /\ announced' = FALSE
     \/ wpc' = "settle" /\ UNCHANGED announced
  /\ UNCHANGED <<queue, unfinished, batch, taken, stopSeen, event, active, processing>>
  /\ UNCHANGED <<finished, accepted, spc, vpc, gui>>

(* The provider returns: played, failed, or interrupted through the event. *)
EndPlayback ==
  /\ wpc = "play"
  /\ wpc' = "settle"
  /\ UNCHANGED <<queue, unfinished, batch, taken, stopSeen, event, active, processing>> /\ Quiet

Settle ==
  /\ wpc = "settle"
  /\ unfinished' = unfinished - taken
  /\ taken' = 0
  /\ batch' = {}
  /\ active' = FALSE
  /\ processing' = FALSE
  /\ wpc' = "silent"
  /\ UNCHANGED <<queue, stopSeen, event>> /\ Quiet

NextRound == IF stopSeen THEN "exited" ELSE "get"

(* queue.empty() of run, then is_tts_playing() and the announcement. *)
CheckSilent ==
  /\ \/ wpc = "silent" /\ wpc' = IF queue = <<>> THEN "announceQ" ELSE NextRound
     \/ wpc = "announceQ" /\ wpc' = IF queue = <<>> THEN "announceP" ELSE NextRound
  /\ UNCHANGED <<queue, unfinished, batch, taken, stopSeen, event, active, processing>> /\ Quiet

Announce == finished' = TRUE /\ announced' = TRUE

AnnounceSilent ==
  /\ wpc = "announceP"
  /\ wpc' = NextRound
  /\ IF processing THEN UNCHANGED <<finished, announced>> ELSE Announce
  /\ UNCHANGED <<queue, unfinished, batch, taken, stopSeen, event, active, processing>>
  /\ UNCHANGED <<accepted, spc, vpc, gui>>

Worker ==
  \/ Take \/ MarkProcessing \/ Collect \/ CollectEnds \/ Decide
  \/ Speak \/ EndPlayback \/ Settle \/ CheckSilent \/ AnnounceSilent

-----------------------------------------------------------------------------
(* The speakers (tts_wrapper). *)

Room == Len(queue) < MaxQueue
Accepting == ~shutdown

(* speak(): refused after stop() or when full, and then tts_wrapper goes on *)
(* to announce silence if there is any.                                     *)
Say(t) ==
  /\ spc[t] = "new"
  /\ t = Reply => vpc = "reply"
  /\ gpc \notin Halting
  /\ IF Accepting /\ Room
     THEN /\ queue' = Append(queue, t)
          /\ unfinished' = unfinished + 1
          /\ accepted' = accepted \union {t}
          /\ spc' = [spc EXCEPT ![t] = "done"]
     ELSE /\ spc' = [spc EXCEPT ![t] = "announceQ"]
          /\ UNCHANGED <<queue, unfinished, accepted>>
  /\ UNCHANGED <<event, finished, announced, vpc, worker, gui>>

SayRefused(t) ==
  /\ \/ /\ spc[t] = "announceQ"
        /\ spc' = [spc EXCEPT ![t] = IF queue = <<>> THEN "announceP" ELSE "done"]
        /\ UNCHANGED <<finished, announced>>
     \/ /\ spc[t] = "announceP"
        /\ spc' = [spc EXCEPT ![t] = "done"]
        /\ IF processing THEN UNCHANGED <<finished, announced>> ELSE Announce
  /\ UNCHANGED <<queue, unfinished, event, accepted, vpc, worker, gui>>

-----------------------------------------------------------------------------
(* The GUI thread. *)

CancelNothing == UNCHANGED event                         \* mutant: only the queue is emptied

CancelBatch == event' = (event \/ active)
Drain == queue' = <<>> /\ unfinished' = unfinished - Len(queue)

(* clear(): the stop event of the batch in work, and the whole queue. *)
Clear == CancelBatch /\ Drain /\ doomed' = accepted

(* The provider's stop() sets the stop event it was last given. *)
StopProvider ==
  /\ event' = (event \/ wpc = "play")
  /\ doomed' = doomed \union (IF wpc = "play" THEN batch ELSE {})

Interrupt ==
  /\ gpc = "idle"
  /\ gpc' = "wasQ"
  /\ UNCHANGED <<queue, unfinished, event, finished, announced, accepted, spc, vpc, worker,
                 owed, shutdown, doomed>>

(* stop_speaking(): is_tts_playing() before ... *)
WasPlaying ==
  /\ \/ /\ gpc = "wasQ"
        /\ owed' = (queue # <<>>)
        /\ gpc' = IF queue # <<>> THEN "clear" ELSE "wasP"
     \/ /\ gpc = "wasP"
        /\ owed' = processing
        /\ gpc' = "clear"
  /\ UNCHANGED <<queue, unfinished, event, finished, announced, accepted, spc, vpc, worker,
                 shutdown, doomed>>

ClearSpeech ==
  /\ gpc = "clear"
  /\ Clear
  /\ owed' = (owed \/ queue # <<>>)
  /\ gpc' = "provider"
  /\ UNCHANGED <<finished, announced, accepted, spc, vpc, worker, shutdown>>

AnnouncesNothing == FALSE  \* mutant: stop_speaking() leaves the announcement to the TTS thread

OwesAnnouncement == owed

InterruptProvider ==
  /\ gpc = "provider"
  /\ StopProvider
  /\ gpc' = IF OwesAnnouncement THEN "silentQ" ELSE "idle"
  /\ UNCHANGED <<queue, unfinished, finished, announced, accepted, spc, vpc, worker,
                 owed, shutdown>>

(* ... and twice after, once for itself and once in the announcement. *)
NowSilent ==
  /\ \/ gpc = "silentQ" /\ gpc' = IF queue = <<>> THEN "silentP" ELSE "idle"
     \/ gpc = "silentP" /\ gpc' = IF processing THEN "idle" ELSE "announceQ"
     \/ gpc = "announceQ" /\ gpc' = IF queue = <<>> THEN "announceP" ELSE "idle"
  /\ UNCHANGED <<queue, unfinished, event, finished, announced, accepted, spc, vpc, worker,
                 owed, shutdown, doomed>>

AnnounceInterrupted ==
  /\ gpc = "announceP"
  /\ gpc' = "idle"
  /\ IF processing THEN UNCHANGED <<finished, announced>> ELSE Announce
  /\ UNCHANGED <<queue, unfinished, event, accepted, spc, vpc, worker, owed, shutdown, doomed>>

(* stop(): under _shutdown_lock from here until the sentinel is on its way. *)
Halt ==
  /\ gpc = "idle"
  /\ shutdown' = TRUE
  /\ gpc' = "haltProvider"
  /\ UNCHANGED <<queue, unfinished, event, finished, announced, accepted, spc, vpc, worker,
                 owed, doomed>>

HaltProvider ==
  /\ gpc = "haltProvider"
  /\ StopProvider
  /\ gpc' = "haltClear"
  /\ UNCHANGED <<queue, unfinished, finished, announced, accepted, spc, vpc, worker, owed, shutdown>>

HaltClear ==
  /\ gpc = "haltClear"
  /\ Clear
  /\ gpc' = "haltPut"
  /\ UNCHANGED <<finished, announced, accepted, spc, vpc, worker, owed, shutdown>>

(* put_nowait(None) would raise queue.Full. *)
HaltPut ==
  /\ gpc = "haltPut"
  /\ IF Room
     THEN queue' = Append(queue, Stop) /\ unfinished' = unfinished + 1
     ELSE UNCHANGED <<queue, unfinished>>
  /\ gpc' = "gone"
  /\ UNCHANGED <<event, finished, announced, accepted, spc, vpc, worker, owed, shutdown, doomed>>

StopSpeakingSteps ==
  WasPlaying \/ ClearSpeech \/ InterruptProvider \/ NowSilent \/ AnnounceInterrupted
HaltSteps == HaltProvider \/ HaltClear \/ HaltPut

-----------------------------------------------------------------------------
(* The voice thread: handle_wake_word around its answer. *)

BeginReply ==
  /\ vpc = "idle"
  /\ finished' = FALSE
  /\ vpc' = "reply"
  /\ UNCHANGED <<queue, unfinished, event, announced, accepted, spc, worker, gui>>

(* _wait_for_tts_playback_completion: is_tts_playing() in two reads. *)
CheckReply ==
  /\ \/ vpc = "reply" /\ spc[Reply] = "done" /\ vpc' = "waitQ"
     \/ vpc = "waitQ" /\ vpc' = IF queue # <<>> THEN "wait" ELSE "waitP"
     \/ vpc = "waitP" /\ vpc' = IF processing THEN "wait" ELSE "over"
  /\ UNCHANGED <<queue, unfinished, event, finished, announced, accepted, spc, worker, gui>>

(* 0.3 s or the event, whichever is first; 15 s altogether. *)
AwaitReply ==
  /\ vpc = "wait"
  /\ \/ finished' = FALSE /\ vpc' = "waitQ"
     \/ vpc' = "gaveUp" /\ UNCHANGED finished
  /\ UNCHANGED <<queue, unfinished, event, announced, accepted, spc, worker, gui>>

Voice == BeginReply \/ CheckReply \/ AwaitReply

-----------------------------------------------------------------------------
Gui == Interrupt \/ StopSpeakingSteps \/ Halt \/ HaltSteps

Next ==
  \/ Worker
  \/ \E t \in Texts : Say(t) \/ SayRefused(t)
  \/ Gui
  \/ Voice

Spec == Init /\ [][Next]_vars

(***************************************************************************)
(* The TTS thread keeps running and every provider call returns; a call of *)
(* the GUI thread that has begun goes on.  Nobody has to speak, interrupt  *)
(* or stop.                                                                *)
(***************************************************************************)
FairSpec ==
  /\ Spec
  /\ WF_vars(Worker)
  /\ WF_vars(StopSpeakingSteps) /\ WF_vars(HaltSteps)

-----------------------------------------------------------------------------
(* Properties. *)

QueuedTexts == {queue[k] : k \in DOMAIN queue} \ {Stop}
InFlight == QueuedTexts \union batch

(* An interruption stops exactly what it is meant to stop: a batch is       *)
(* cancelled if and only if all of it was accepted before the interruption; *)
(* no request made after it is swallowed with the batch it interrupts, and  *)
(* none made before it survives, in the queue or with the TTS thread.       *)
InterruptionIsExact ==
  /\ event => batch \subseteq doomed
  /\ batch \intersect doomed # {} => event
  /\ QueuedTexts \intersect doomed = {}

(* No provider starts on a request, nor goes on unasked, once stop() has    *)
(* returned.                                                                *)
SilentAfterStop == gpc \in {"haltPut", "gone"} /\ wpc \in {"speak", "play"} => event

(* The voice thread believes its answer over only when it is: otherwise the *)
(* microphone opens on the assistant's own voice.                           *)
ReplyIsOver == vpc = "over" => Reply \notin InFlight

(* Whoever was told that speech began is told that it ended (the speech     *)
(* bubble, the resume guard and on_tts_end hang on it), whichever of the    *)
(* TTS thread and stop_speaking() empties the queue last.                   *)
EndIsAnnounced == wpc = "play" ~> announced \/ shutdown

(* stop() ends the thread. *)
ThreadExits == shutdown ~> wpc = "exited"
=============================================================================

-------------------------- MODULE VoiceActivation --------------------------
(***************************************************************************)
(* The voice recognition thread (core/threads.py, VoiceRecognitionThread)  *)
(* and the calls the GUI thread makes on it: push-to-talk by the hotkey or *)
(* by the character, a click, a change of microphone or of settings, and   *)
(* stop().                                                                 *)
(*                                                                         *)
(* Sessions locked by Windows and speech being played are choices where    *)
(* the code asks about them; audio devices and the recognizer are choices  *)
(* between their outcomes.                                                 *)
(***************************************************************************)
CONSTANTS Holder,      \* what can hold a push-to-talk: hotkey, character
          Click        \* the owner of an activation without push-to-talk

ASSUME HolderAssumption ==
  /\ Click \notin Holder
  /\ {"none", "idle", "refresh", "stopping"} \cap (Holder \cup {Click}) = {}

VARIABLES
  running,     \* running
  mic,         \* microphone is not None
  micActive,   \* _microphone_active
  probed,      \* _microphone_probed
  failed,      \* _voice_setup_failed
  micPending,  \* _microphone_request_pending
  micWakeup,   \* _microphone_wakeup is set
  wakeup,      \* _voice_wakeup is set
  pending,     \* _pending_voice_activation
  active,      \* _active_voice_activation
  listening,   \* _command_listening
  wakeWord,    \* the setting wake_word_enabled
  holding,     \* the holders that believe their push-to-talk was accepted
  gui,         \* what the GUI thread is in the middle of
  pc           \* where the voice thread is

requests == <<pending, active, listening>>
device == <<mic, micActive, probed>>
micRequest == <<micPending, micWakeup>>
user == <<running, wakeWord, holding, gui>>
vars == <<device, failed, micRequest, wakeup, requests, user, pc>>

None == [owner |-> "none", released |-> TRUE]
Owner == Holder \cup {Click}
Activation == [owner : Owner, released : BOOLEAN]
Released(r) == IF r.owner \in Holder THEN [owner |-> r.owner, released |-> TRUE] ELSE r

\* The constructor opens the microphone or fails to.
Init ==
  /\ running = TRUE /\ mic \in BOOLEAN /\ micActive = mic /\ probed = FALSE
  /\ failed = FALSE
  /\ micPending = FALSE /\ micWakeup = FALSE /\ wakeup = FALSE
  /\ pending = None /\ active = None /\ listening = FALSE
  /\ wakeWord \in BOOLEAN /\ holding = {} /\ gui = "idle" /\ pc = "top"

-----------------------------------------------------------------------------
(* The GUI thread. *)

\* _voice_wakeup.set().
SleepOn == UNCHANGED wakeup  \* mutant: the event is not set
WakeUp == wakeup' = TRUE

\* set_microphone(): the microphone in use is asked for again, or another.
SetMicrophone ==
  /\ gui = "idle"
  /\ \E same \in BOOLEAN :
       /\ ~(same /\ ~micPending /\ micActive /\ ~failed)
       /\ micPending' = TRUE /\ micWakeup' = TRUE /\ WakeUp
  /\ UNCHANGED <<device, failed, requests, user, pc>>

\* request_listening(), its checks without the lock.
AskToListen ==
  /\ gui = "idle"
  /\ running /\ mic /\ micActive /\ ~failed
  /\ gui' \in Owner \ holding
  /\ UNCHANGED <<device, failed, micRequest, wakeup, requests, running, wakeWord, holding, pc>>

\* The part under the lock; a holder remembers that it was accepted.
RequestListening ==
  /\ gui \in Owner
  /\ IF pending # None \/ active # None \/ listening
     THEN UNCHANGED <<pending, wakeup, holding>>
     ELSE /\ pending' = [owner |-> gui, released |-> FALSE]
          /\ WakeUp
          /\ holding' = holding \cup ({gui} \cap Holder)
  /\ gui' = "idle"
  /\ UNCHANGED <<device, failed, micRequest, active, listening, running, wakeWord, pc>>

ReleasePending == pending' = Released(pending) /\ UNCHANGED active  \* mutant: active is forgotten

\* release_listening(): the active request is released, or the pending one.
Release ==
  /\ active' = Released(active)
  /\ pending' = IF active = None THEN Released(pending) ELSE pending

ReleaseListening ==
  /\ gui = "idle"
  /\ \E h \in holding : holding' = holding \ {h}
  /\ Release
  /\ UNCHANGED <<device, failed, micRequest, wakeup, listening, running, wakeWord, gui, pc>>

\* The settings are saved first, then refresh_voice_settings() is called.
SaveSettings ==
  /\ gui = "idle"
  /\ wakeWord' \in BOOLEAN
  /\ gui' = "refresh"
  /\ UNCHANGED <<device, failed, micRequest, wakeup, requests, running, holding, pc>>

\* mutant: the thread is not told.
RefreshQuietly ==
  /\ gui = "refresh" /\ gui' = "idle"
  /\ UNCHANGED <<device, failed, micRequest, wakeup, requests, running, wakeWord, holding, pc>>

RefreshSettings ==
  /\ gui = "refresh"
  /\ WakeUp
  /\ gui' = "idle"
  /\ UNCHANGED <<device, failed, micRequest, requests, running, wakeWord, holding, pc>>

\* stop() lowers the flag first and wakes the thread afterwards.
Stop ==
  /\ gui = "idle" /\ running
  /\ running' = FALSE /\ gui' = "stopping"
  /\ UNCHANGED <<device, failed, micRequest, wakeup, requests, wakeWord, holding, pc>>

StopWakes ==
  /\ gui = "stopping"
  /\ micWakeup' = TRUE /\ WakeUp
  /\ Release
  /\ gui' = "idle"
  /\ UNCHANGED <<device, failed, micPending, listening, running, wakeWord, holding, pc>>

GUI == \/ SetMicrophone \/ AskToListen \/ RequestListening \/ ReleaseListening
       \/ SaveSettings \/ RefreshSettings \/ Stop \/ StopWakes

-----------------------------------------------------------------------------
(* The voice thread: the microphone. *)

Enabled == mic' = TRUE /\ micActive' = TRUE /\ probed' = wakeWord /\ failed' = FALSE
\* An OSError and the like disables the microphone, another error the setup.
Disabled == mic' = FALSE /\ micActive' = FALSE /\ probed' = FALSE /\ UNCHANGED failed
AudioFails == \/ Disabled
              \/ failed' = TRUE /\ UNCHANGED device

\* After _apply_pending_microphone(): the loop goes on, or the activation does.
Applied == IF active # None THEN "checkManual" ELSE "branch"

\* _take_pending_microphone(); nothing to apply, or a microphone to open.
TakeMicrophone ==
  /\ pc \in {"top", "manual"} /\ (pc = "top" => running)
  /\ pc' = IF micPending THEN "opening" ELSE Applied
  /\ micPending' = FALSE
  /\ micWakeup' = (micWakeup /\ ~micPending)
  /\ UNCHANGED <<device, failed, wakeup, requests, user>>

\* The rest of _apply_pending_microphone(): a microphone that cannot be
\* opened leaves the present one in use.
OpenMicrophone ==
  /\ pc = "opening"
  /\ \/ Enabled
     \/ mic /\ UNCHANGED <<device, failed>>
     \/ ~mic /\ Disabled
  /\ pc' = Applied
  /\ UNCHANGED <<micRequest, wakeup, requests, user>>

\* What the loop does next.
Branch ==
  /\ pc = "branch"
  /\ pc' = IF ~running THEN "end"
           ELSE IF ~mic THEN "micWait"
           ELSE IF failed THEN "failedWait"
           ELSE IF ~wakeWord THEN "manualWait"
           ELSE IF ~probed THEN "probe"
           ELSE "prepare"
  /\ UNCHANGED <<device, failed, micRequest, wakeup, requests, user>>

\* The wait without a microphone: an event or the retry interval ends it.
WaitForMicrophone ==
  /\ pc = "micWait"
  /\ \/ running /\ ~micWakeup /\ ~micPending /\ Enabled
     \/ UNCHANGED <<device, failed>>
  /\ pc' = "top"
  /\ UNCHANGED <<micRequest, wakeup, requests, user>>

Probe ==
  /\ pc = "probe"
  /\ \/ pc' = "prepare" /\ probed' = TRUE /\ UNCHANGED <<mic, micActive, failed>>
     \/ pc' = "top" /\ Disabled
  /\ UNCHANGED <<micRequest, wakeup, requests, user>>

-----------------------------------------------------------------------------
(* The voice thread: setting up, waiting, listening. *)

\* _voice_wakeup.wait() after a setup that failed, and
\* _discard_pending_voice_activation().
WaitAfterFailure ==
  /\ pc = "failedWait" /\ wakeup
  /\ IF running THEN pc' = "repair" /\ pending' = None /\ wakeup' = FALSE
                ELSE pc' = "end" /\ UNCHANGED <<pending, wakeup>>
  /\ UNCHANGED <<device, failed, micRequest, active, listening, user>>

\* _initialize_voice_recognition(), _apply_recognizer_settings() and
\* _refresh_stt_provider(), each of which may fail.
Prepared == failed' = FALSE
NotPrepared == failed' = TRUE

Repair ==
  /\ pc = "repair"
  /\ Prepared \/ NotPrepared
  /\ pc' = "top"
  /\ UNCHANGED <<device, micRequest, wakeup, requests, user>>

Prepare ==
  /\ pc = "prepare"
  /\ \/ Prepared /\ pc' = "take"
     \/ NotPrepared /\ pc' = "top"
  /\ UNCHANGED <<device, micRequest, wakeup, requests, user>>

\* _take_voice_activation().
Take ==
  /\ pending' = None /\ wakeup' = FALSE
  /\ IF pending = None THEN UNCHANGED <<active, listening>>
                       ELSE active' = pending /\ listening' = TRUE

\* The wake word is off: the thread waits for an activation without a timeout.
WaitForActivation ==
  /\ pc = "manualWait" /\ wakeup
  /\ Take
  /\ pc' = IF pending = None THEN "top" ELSE "manual"
  /\ UNCHANGED <<device, failed, micRequest, user>>

\* Before it listens for the wake word; "top" while speech is being played.
TakeActivation ==
  /\ pc = "take"
  /\ Take
  /\ IF pending = None THEN pc' \in {"top", "wake"} ELSE pc' = "manual"
  /\ UNCHANGED <<device, failed, micRequest, user>>

\* listen_for_wake_word() returns: interrupted, after a timeout, with the wake
\* word or with an error.
Wake ==
  /\ pc = "wake"
  /\ \/ pc' \in {"heard", "silence"} /\ UNCHANGED <<device, failed>>
     \/ pc' = "top" /\ AudioFails
  /\ UNCHANGED <<micRequest, wakeup, requests, user>>

\* An activation goes before the wake word, which a locked session or speech
\* just played drops; the latter recalibrates, which may fail.
AfterWake ==
  /\ pc \in {"heard", "silence"}
  /\ Take
  /\ \/ pending # None /\ pc' = "manual" /\ UNCHANGED <<device, failed>>
     \/ pending = None /\ pc' = "top" /\ UNCHANGED <<device, failed>>
     \/ pending = None /\ pc = "heard" /\ pc' = "top" /\ AudioFails
     \/ pending = None /\ pc = "heard" /\ pc' = "greet" /\ UNCHANGED <<device, failed>>
  /\ UNCHANGED <<micRequest, user>>

\* handle_wake_word() claims the listener.
Greet ==
  /\ pc = "greet"
  /\ IF listening THEN pc' = "top" /\ UNCHANGED listening
                  ELSE pc' = "greeted" /\ listening' = TRUE
  /\ UNCHANGED <<device, failed, micRequest, wakeup, pending, active, user>>

\* The command came with the wake word; or the answer is spoken, a pending
\* activation is discarded and the command is listened for.
Greeted ==
  /\ pc = "greeted"
  /\ \/ pc' = "endWake" /\ UNCHANGED <<pending, wakeup>>
     \/ pc' \in {"listen", "endWake"} /\ pending' = None /\ wakeup' = FALSE
  /\ UNCHANGED <<device, failed, micRequest, active, listening, user>>

\* mutant: cleared only after a recalibration that succeeds.
EndWakeOnSuccess ==
  /\ pc = "endWake"
  /\ \/ listening' = FALSE /\ UNCHANGED <<device, failed>>
     \/ listening' = listening /\ AudioFails
  /\ pc' = "top"
  /\ UNCHANGED <<micRequest, wakeup, pending, active, user>>

\* The finally clause, then the recalibration, which opens the microphone.
EndWake ==
  /\ pc = "endWake"
  /\ listening' = FALSE
  /\ \/ UNCHANGED <<device, failed>>
     \/ AudioFails
  /\ pc' = "top"
  /\ UNCHANGED <<micRequest, wakeup, pending, active, user>>

\* _listen_for_manual_activation(): without a microphone, in a locked session,
\* while speech is played or when the setup fails, nothing is listened to.
CheckManual ==
  /\ pc = "checkManual"
  /\ \/ pc' = "endManual" /\ UNCHANGED <<device, failed>>
     \/ mic /\ micActive /\ pc' = "endManual" /\ NotPrepared /\ UNCHANGED device
     \/ mic /\ micActive /\ pc' = "endManual" /\ Disabled
     \/ mic /\ micActive /\ pc' = "listen" /\ Prepared /\ UNCHANGED device
  /\ UNCHANGED <<micRequest, wakeup, requests, user>>

\* _listen_for_command(): recognize_speech_helper() returns or raises, and the
\* recalibration may.  The listener was claimed before and stays claimed.
Listen ==
  /\ pc = "listen"
  /\ \/ active = None /\ pc' = "endWake" /\ UNCHANGED <<device, failed>>
     \/ active # None /\ pc' = "endManual" /\ Disabled
     \/ /\ active # None /\ pc' = "endManual"
        /\ probed' \in {probed, TRUE} /\ UNCHANGED <<mic, micActive, failed>>
  /\ UNCHANGED <<micRequest, wakeup, requests, user>>

\* _finish_voice_activation().
EndManual ==
  /\ pc = "endManual"
  /\ active' = None /\ listening' = FALSE
  /\ pc' = "top"
  /\ UNCHANGED <<device, failed, micRequest, wakeup, pending, user>>

\* The loop condition, and cleanup().
End ==
  /\ \/ pc = "top" /\ ~running
     \/ pc = "end"
  /\ mic' = FALSE
  /\ pc' = "ended"
  /\ UNCHANGED <<micActive, probed, failed, micRequest, wakeup, requests, user>>

Thread == \/ TakeMicrophone \/ OpenMicrophone \/ Branch \/ WaitForMicrophone \/ Probe
          \/ WaitAfterFailure \/ Repair \/ Prepare \/ WaitForActivation
          \/ TakeActivation \/ Wake \/ AfterWake \/ Greet \/ Greeted \/ EndWake
          \/ CheckManual \/ Listen \/ EndManual \/ End

Next == GUI \/ Thread

\* The waits of the thread end when their event is set or their time is over,
\* the recognizer has timeouts, and a call on the GUI thread returns.
Fairness == WF_vars(Thread) /\ WF_vars(RequestListening \/ RefreshSettings \/ StopWakes)

Spec == Init /\ [][Next]_vars
FairSpec == Spec /\ Fairness

-----------------------------------------------------------------------------
(* Properties *)

Places == {"top", "opening", "branch", "micWait", "probe", "failedWait", "repair",
           "prepare", "manualWait", "take", "wake", "heard", "silence", "greet",
           "greeted", "endWake", "manual", "checkManual", "listen", "endManual",
           "end", "ended"}

TypeOK ==
  /\ {running, mic, micActive, probed, failed, micPending, micWakeup} \subseteq BOOLEAN
  /\ {wakeup, listening, wakeWord} \subseteq BOOLEAN
  /\ pending \in Activation \cup {None} /\ active \in Activation \cup {None}
  /\ holding \subseteq Holder
  /\ gui \in Owner \cup {"idle", "refresh", "stopping"}
  /\ pc \in Places

\* A key or a mouse button that was let go holds no push-to-talk open, wherever
\* its activation was between pending, active and discarded at that moment.
KeyUpReleases ==
  \A r \in {pending, active} : r.owner \in Holder \ holding => r.released

\* The thread never sleeps through a reason to get up: an activation, another
\* microphone, a stop, or the wake word having been turned on.
WakeupIsNotLost ==
  pc \in {"manualWait", "failedWait"} /\ ~wakeup =>
    /\ pending = None /\ ~micPending
    /\ running \/ gui = "stopping"
    /\ pc = "manualWait" => ~wakeWord \/ gui = "refresh"

\* Whichever way listening ended, nobody is left registered as listening:
\* else every later activation would be refused.
NobodyLeftListening ==
  pc \in {"top", "branch", "manualWait", "failedWait", "micWait"} =>
    active = None /\ ~listening

\* An accepted activation is taken or discarded while the microphone and the
\* recognizer work.
ActivationsAreTaken == pending # None ~> pending = None \/ ~mic \/ failed
=============================================================================

----------------------------- MODULE VoiceProofs -----------------------------
(***************************************************************************)
(* Theorems about the components that MCVoice puts side by side, for all   *)
(* values of their constants: VoiceActivation (a key that was let go holds *)
(* nothing open, the thread sleeps through no reason to get up, nobody     *)
(* stays registered as listening), AssistantTurn (the speech channel is    *)
(* given back, a cancellation hits the running request) and CosyVoice      *)
(* (what is read belongs to the request it is read for).                   *)
(***************************************************************************)
EXTENDS MCVoice, SequenceTheorems, TLAPS

-----------------------------------------------------------------------------
(* Types, and the activations that can exist at the same time.              *)

LEMMA NoneIsNoActivation ==
  /\ None \notin Activation
  /\ \A r \in Activation \cup {None} : (r # None => r.owner \in Owner) /\ r.released \in BOOLEAN
<1>1. "none" \notin Owner
  BY HolderAssumption DEF Owner
<1>2. None.owner = "none" /\ None.released = TRUE
  BY DEF None
<1>3. \A r \in Activation : r.owner \in Owner /\ r.released \in BOOLEAN
  BY DEF Activation
<1> QED
  BY <1>1, <1>2, <1>3

LEMMA ReleasedType ==
  ASSUME NEW r \in Activation \cup {None}
  PROVE  /\ Released(r) \in Activation \cup {None}
         /\ Released(r) = None <=> r = None
         /\ Released(r).owner = r.owner
         /\ r.released => Released(r).released
         /\ r.owner \in Holder => Released(r).released
<1>1. CASE r = None
  BY <1>1, HolderAssumption DEF Released, None
<1>2. CASE r \in Activation
  <2>1. PICK o \in Owner, b \in BOOLEAN : r = [owner |-> o, released |-> b]
    BY <1>2 DEF Activation
  <2>2. r.owner = o
    BY <2>1
  <2>3. [owner |-> o, released |-> TRUE] \in Activation
    BY DEF Activation
  <2>4. CASE o \in Holder
    BY <1>2, <2>1, <2>2, <2>3, <2>4, NoneIsNoActivation DEF Released
  <2>5. CASE o \notin Holder
    BY <1>2, <2>2, <2>5, NoneIsNoActivation DEF Released
  <2> QED
    BY <2>4, <2>5
<1> QED
  BY <1>1, <1>2

(* release_listening() releases the one activation there is.                *)
OneActivation == pending = None \/ active = None

LEMMA ReleaseType ==
  ASSUME TypeOK, OneActivation, Release
  PROVE  /\ pending' \in Activation \cup {None} /\ active' \in Activation \cup {None}
         /\ pending' = None <=> pending = None
         /\ active' = None <=> active = None
         /\ pending'.owner = pending.owner /\ active'.owner = active.owner
         /\ \A r \in {pending', active'} : r.owner \in Holder => r.released
<1>1. pending \in Activation \cup {None} /\ active \in Activation \cup {None} /\ None.owner \notin Holder
  BY HolderAssumption DEF TypeOK, None
<1>2. pending' = Released(pending) \/ (pending' = None /\ pending = None)
  BY DEF Release, OneActivation
<1>3. active' = Released(active)
  BY DEF Release
<1>4. /\ active' \in Activation \cup {None} /\ (active' = None <=> active = None)
      /\ active'.owner = active.owner /\ (active.owner \in Holder => active'.released)
  BY <1>1, <1>3, ReleasedType
<1>5. /\ pending' \in Activation \cup {None} /\ (pending' = None <=> pending = None)
      /\ pending'.owner = pending.owner /\ (pending.owner \in Holder => pending'.released)
  <2>1. CASE pending' = Released(pending)
    BY <1>1, <2>1, ReleasedType
  <2> QED
    BY <1>1, <1>2, <2>1
<1> QED
  BY <1>4, <1>5

LEMMA TypeInit == Init => TypeOK /\ OneActivation
<1> SUFFICES ASSUME Init PROVE TypeOK /\ OneActivation
  OBVIOUS
<1> QED
  BY DEF Init, TypeOK, OneActivation, Places

LEMMA TypeNext == TypeOK /\ OneActivation /\ [Next]_vars => TypeOK' /\ OneActivation'
<1> SUFFICES ASSUME TypeOK, OneActivation, [Next]_vars PROVE TypeOK' /\ OneActivation'
  OBVIOUS
<1> USE DEF TypeOK, OneActivation, Places, device, micRequest, requests, user
<1>1. CASE SetMicrophone
  BY <1>1 DEF SetMicrophone, WakeUp
<1>2. CASE AskToListen
  BY <1>2 DEF AskToListen
<1>3. CASE RequestListening
  <2>1. gui \in Owner => [owner |-> gui, released |-> FALSE] \in Activation
    BY DEF Activation
  <2> QED
    BY <1>3, <2>1 DEF RequestListening, WakeUp
<1>4. CASE ReleaseListening
  <2>1. Release
    BY <1>4 DEF ReleaseListening
  <2>2. pending' \in Activation \cup {None} /\ active' \in Activation \cup {None} /\ OneActivation'
    BY <2>1, ReleaseType
  <2> QED
    BY <1>4, <2>2 DEF ReleaseListening
<1>5. CASE SaveSettings \/ RefreshSettings \/ Stop
  BY <1>5 DEF SaveSettings, RefreshSettings, Stop, WakeUp
<1>6. CASE StopWakes
  <2>1. Release
    BY <1>6 DEF StopWakes
  <2>2. pending' \in Activation \cup {None} /\ active' \in Activation \cup {None} /\ OneActivation'
    BY <2>1, ReleaseType
  <2> QED
    BY <1>6, <2>2 DEF StopWakes, WakeUp
<1>7. CASE TakeMicrophone \/ OpenMicrophone \/ Branch
  BY <1>7 DEF TakeMicrophone, OpenMicrophone, Branch, Applied, Enabled, Disabled
<1>8. CASE WaitForMicrophone \/ Probe \/ WaitAfterFailure
  BY <1>8 DEF WaitForMicrophone, Probe, WaitAfterFailure, Enabled, Disabled
<1>9. CASE Repair \/ Prepare
  BY <1>9 DEF Repair, Prepare, Prepared, NotPrepared
<1>10. CASE WaitForActivation \/ TakeActivation
  BY <1>10 DEF WaitForActivation, TakeActivation, Take
<1>11. CASE Wake \/ AfterWake
  BY <1>11 DEF Wake, AfterWake, Take, AudioFails, Disabled
<1>12. CASE Greet \/ Greeted \/ EndWake
  BY <1>12 DEF Greet, Greeted, EndWake, AudioFails, Disabled
<1>13. CASE CheckManual \/ Listen
  BY <1>13 DEF CheckManual, Listen, Prepared, NotPrepared, Disabled
<1>14. CASE EndManual \/ End
  BY <1>14 DEF EndManual, End
<1>15. CASE UNCHANGED vars
  BY <1>15 DEF vars
<1> QED
  BY <1>1, <1>2, <1>3, <1>4, <1>5, <1>6, <1>7, <1>8, <1>9, <1>10, <1>11, <1>12,
     <1>13, <1>14, <1>15 DEF Next, GUI, Thread

-----------------------------------------------------------------------------
(* The invariants.                                                          *)

(* Somebody is registered as listening only while the thread listens.       *)
ListenersListen ==
  /\ active # None => pc \in {"manual", "opening", "checkManual", "listen", "endManual"}
  /\ listening => active # None \/ pc \in {"greeted", "listen", "endWake"}

(* The event is set for every request that the thread has still to see when *)
(* it goes to sleep: after it took the microphone request, and until it     *)
(* takes the activation.                                                    *)
EventsAreSet ==
  /\ pending # None => wakeup
  /\ micPending /\ pc \in {"opening", "branch", "micWait", "probe", "failedWait",
                           "prepare", "manualWait", "take"} => wakeup
  /\ pc \in {"manualWait", "failedWait"} /\ ~running => wakeup \/ gui = "stopping"
  /\ pc = "manualWait" /\ wakeWord => wakeup \/ gui = "refresh"

Inv == TypeOK /\ OneActivation /\ KeyUpReleases /\ ListenersListen /\ EventsAreSet

LEMMA InvInit == Init => Inv
<1> SUFFICES ASSUME Init PROVE Inv
  OBVIOUS
<1>1. None.released
  BY DEF None
<1> QED
  BY <1>1, TypeInit DEF Init, Inv, KeyUpReleases, ListenersListen, EventsAreSet

LEMMA KeyUpNext == Inv /\ [Next]_vars => KeyUpReleases'
<1> SUFFICES ASSUME Inv, [Next]_vars PROVE KeyUpReleases'
  OBVIOUS
<1>0. TypeOK /\ OneActivation /\ KeyUpReleases /\ None.released
  BY DEF Inv, None
<1>1. CASE RequestListening
  <2>1. active' = active /\ holding \subseteq holding'
    BY <1>1 DEF RequestListening
  <2>2. CASE pending' = pending
    BY <1>0, <2>1, <2>2 DEF KeyUpReleases
  <2>3. CASE pending' # pending
    <3>1. pending'.owner = gui /\ (gui \in Holder => gui \in holding')
      BY <1>1, <2>3 DEF RequestListening
    <3> QED
      BY <1>0, <2>1, <3>1 DEF KeyUpReleases
  <2> QED
    BY <2>2, <2>3
<1>2. CASE ReleaseListening \/ StopWakes
  <2>1. Release
    BY <1>2 DEF ReleaseListening, StopWakes
  <2> QED
    BY <1>0, <2>1, ReleaseType DEF KeyUpReleases
<1>3. CASE UNCHANGED <<pending, active, holding>>
  BY <1>0, <1>3 DEF KeyUpReleases
<1>4. CASE WaitAfterFailure \/ Greeted \/ EndManual \/ WaitForActivation \/ TakeActivation \/ AfterWake
  <2>1. holding' = holding
    BY <1>4 DEF WaitAfterFailure, Greeted, EndManual, WaitForActivation, TakeActivation, AfterWake, user
  <2>2. pending' \in {pending, None} /\ active' \in {active, pending, None}
    BY <1>4 DEF WaitAfterFailure, Greeted, EndManual, WaitForActivation, TakeActivation, AfterWake, Take
  <2> QED
    BY <1>0, <2>1, <2>2 DEF KeyUpReleases
<1>5. CASE SetMicrophone \/ AskToListen \/ SaveSettings \/ RefreshSettings \/ Stop
  BY <1>3, <1>5 DEF SetMicrophone, AskToListen, SaveSettings, RefreshSettings, Stop, requests, user
<1>6. CASE TakeMicrophone \/ OpenMicrophone \/ Branch \/ WaitForMicrophone \/ Probe \/ Repair \/ Prepare
  BY <1>3, <1>6 DEF TakeMicrophone, OpenMicrophone, Branch, WaitForMicrophone, Probe, Repair, Prepare, requests, user
<1>7. CASE Wake \/ Greet \/ EndWake \/ CheckManual \/ Listen \/ End \/ UNCHANGED vars
  BY <1>3, <1>7 DEF Wake, Greet, EndWake, CheckManual, Listen, End, vars, requests, user
<1> QED
  BY <1>1, <1>2, <1>4, <1>5, <1>6, <1>7 DEF Next, GUI, Thread

LEMMA ListenersNext == Inv /\ [Next]_vars => ListenersListen'
<1> SUFFICES ASSUME Inv, [Next]_vars PROVE ListenersListen'
  OBVIOUS
<1>0. TypeOK /\ OneActivation /\ ListenersListen
  BY DEF Inv
<1> USE DEF ListenersListen, requests, user
<1>1. CASE ReleaseListening \/ StopWakes
  <2>1. Release /\ UNCHANGED <<listening, pc>>
    BY <1>1 DEF ReleaseListening, StopWakes
  <2> QED
    BY <1>0, <2>1, ReleaseType
<1>2. CASE SetMicrophone \/ AskToListen \/ RequestListening \/ SaveSettings \/ RefreshSettings \/ Stop \/ UNCHANGED vars
  BY <1>0, <1>2 DEF SetMicrophone, AskToListen, RequestListening, SaveSettings, RefreshSettings, Stop, vars
<1>3. CASE TakeMicrophone \/ OpenMicrophone
  BY <1>0, <1>3 DEF TakeMicrophone, OpenMicrophone, Applied
<1>4. CASE Branch \/ WaitForMicrophone \/ Probe \/ WaitAfterFailure \/ Repair \/ Prepare
  BY <1>0, <1>4 DEF Branch, WaitForMicrophone, Probe, WaitAfterFailure, Repair, Prepare
<1>5. CASE WaitForActivation \/ TakeActivation
  BY <1>0, <1>5 DEF WaitForActivation, TakeActivation, Take
<1>6. CASE Wake \/ AfterWake
  BY <1>0, <1>6 DEF Wake, AfterWake, Take
<1>7. CASE Greet \/ Greeted \/ EndWake
  BY <1>0, <1>7 DEF Greet, Greeted, EndWake
<1>8. CASE CheckManual
  BY <1>0, <1>8 DEF CheckManual
<1>9. CASE Listen
  BY <1>0, <1>9 DEF Listen
<1>10. CASE EndManual
  BY <1>0, <1>10 DEF EndManual
<1>11. CASE End
  BY <1>0, <1>11 DEF End
<1> QED
  BY <1>1, <1>2, <1>3, <1>4, <1>5, <1>6, <1>7, <1>8, <1>9, <1>10, <1>11 DEF Next, GUI, Thread

LEMMA EventsNext == Inv /\ [Next]_vars => EventsAreSet'
<1> SUFFICES ASSUME Inv, [Next]_vars PROVE EventsAreSet'
  OBVIOUS
<1>0. TypeOK /\ OneActivation /\ ListenersListen /\ EventsAreSet
  BY DEF Inv
<1> USE DEF EventsAreSet, requests, user, micRequest
<1>1. CASE ReleaseListening \/ StopWakes
  <2>1. Release
    BY <1>1 DEF ReleaseListening, StopWakes
  <2>2. pending' = None <=> pending = None
    BY <1>0, <2>1, ReleaseType
  <2>3. CASE ReleaseListening
    BY <1>0, <2>2, <2>3 DEF ReleaseListening
  <2>4. CASE StopWakes
    BY <1>0, <2>4 DEF StopWakes, WakeUp
  <2> QED
    BY <1>1, <2>3, <2>4
<1>2. CASE SetMicrophone \/ RefreshSettings
  BY <1>0, <1>2 DEF SetMicrophone, RefreshSettings, WakeUp
<1>10. CASE RequestListening
  <2>1. gui \notin {"stopping", "refresh"}
    BY <1>10, HolderAssumption DEF RequestListening, Owner
  <2> QED
    BY <1>0, <1>10, <2>1 DEF RequestListening, WakeUp
<1>3. CASE AskToListen \/ SaveSettings \/ Stop \/ UNCHANGED vars
  BY <1>0, <1>3 DEF AskToListen, SaveSettings, Stop, vars
<1>4. CASE TakeMicrophone \/ OpenMicrophone \/ Branch
  BY <1>0, <1>4 DEF TakeMicrophone, OpenMicrophone, Branch, Applied, ListenersListen
<1>5. CASE WaitForMicrophone \/ Probe \/ WaitAfterFailure \/ Repair \/ Prepare
  BY <1>0, <1>5 DEF WaitForMicrophone, Probe, WaitAfterFailure, Repair, Prepare
<1>6. CASE WaitForActivation \/ TakeActivation
  BY <1>0, <1>6 DEF WaitForActivation, TakeActivation, Take
<1>7. CASE Wake \/ AfterWake
  BY <1>0, <1>7 DEF Wake, AfterWake, Take
<1>8. CASE Greet \/ Greeted \/ EndWake
  BY <1>0, <1>8 DEF Greet, Greeted, EndWake
<1>9. CASE CheckManual \/ Listen \/ EndManual \/ End
  BY <1>0, <1>9 DEF CheckManual, Listen, EndManual, End
<1> QED
  BY <1>1, <1>2, <1>3, <1>4, <1>5, <1>6, <1>7, <1>8, <1>9, <1>10 DEF Next, GUI, Thread

LEMMA InvNext == Inv /\ [Next]_vars => Inv'
  BY TypeNext, KeyUpNext, ListenersNext, EventsNext DEF Inv

-----------------------------------------------------------------------------
(* The flags, requests and places of the thread keep their types.           *)
THEOREM TypeCorrect == Spec => []TypeOK
<1>1. Inv => TypeOK
  BY DEF Inv
<1> QED
  BY <1>1, InvInit, InvNext, PTL DEF Spec

(* A key that was let go holds no push-to-talk open, wherever its           *)
(* activation was at that moment (release_listening()): there is never an   *)
(* active activation beside a pending one, so the right one is released.    *)
THEOREM ReleaseReaches == Spec => []KeyUpReleases
<1>1. Inv => KeyUpReleases
  BY DEF Inv
<1> QED
  BY <1>1, InvInit, InvNext, PTL DEF Spec

(* The thread never waits for _voice_wakeup with an activation, a           *)
(* microphone, a stop or a changed setting unseen (the loop of run()        *)
(* against request_listening(), set_microphone(), stop()): what was asked   *)
(* before the event was cleared is seen before the next wait.               *)
THEOREM NoLostWakeup == Spec => []WakeupIsNotLost
<1>1. Inv => WakeupIsNotLost
  BY DEF Inv, EventsAreSet, WakeupIsNotLost
<1> QED
  BY <1>1, InvInit, InvNext, PTL DEF Spec

(* However listening ended, nobody stays registered as listening            *)
(* (_finish_voice_activation(), handle_wake_word()).                        *)
THEOREM ListenerIsFreed == Spec => []NobodyLeftListening
<1>1. Inv => NobodyLeftListening
  BY DEF Inv, ListenersListen, NobodyLeftListening
<1> QED
  BY <1>1, InvInit, InvNext, PTL DEF Spec
-----------------------------------------------------------------------------
(* AssistantTurn. *)

(* Who has the lock is between acquiring and releasing it; the channel and  *)
(* the cancellation event are those of that request; a message that passed  *)
(* the check is said before its request goes on.                            *)
TurnsInv ==
  /\ T!TypeOK /\ T!ChannelIsRestored
  /\ \A t \in T!Turn : place[t] \in T!Holding => lock = t
  /\ lock # T!Nobody => place[lock] \in T!Holding
  /\ \A t \in T!Turn : place[t] \in T!Swapped => saved[t] = T!Speaker
  /\ activeCancel # T!Nobody => lock = activeCancel /\ place[lock] \notin {"locked", "release"}
  /\ \A t \in saying : place[t] \in {"preface", "answer", "report"}

LEMMA TurnsInit == T!Init => TurnsInv
<1> SUFFICES ASSUME T!Init PROVE TurnsInv
  OBVIOUS
<1>1. T!Speaker \in T!Channel /\ {} \subseteq T!Turn /\ 0 \in 0 .. MaxTools
  BY VoiceAssumption DEF T!Channel
<1>2. /\ place = [t \in T!Turn |-> "new"] /\ saved = [t \in T!Turn |-> T!Speaker]
      /\ lock = T!Nobody /\ activeCancel = T!Nobody /\ tts = T!Speaker /\ saying = {}
  BY DEF T!Init
<1>3. T!TypeOK
  BY <1>1, <1>2 DEF T!Init, T!TypeOK, T!Places
<1> QED
  BY <1>2, <1>3 DEF TurnsInv, T!ChannelIsRestored, T!Holding, T!Swapped

(* A request goes on, within what it holds.                                 *)
LEMMA TurnMoves ==
  ASSUME TurnsInv, NEW t \in T!Turn, NEW p \in T!Places,
         place' = [place EXCEPT ![t] = p],
         UNCHANGED <<saved, tts, lock, activeCancel>>,
         out' \in [T!Turn -> T!Channel], tools' \in [T!Turn -> 0 .. MaxTools],
         cancelled' \in [T!Turn -> BOOLEAN], ack' \in [T!Turn -> {"none", "armed", "fired"}],
         p \in T!Holding <=> place[t] \in T!Holding,
         p \in T!Swapped <=> place[t] \in T!Swapped,
         p \in {"locked", "release"} => place[t] \in {"locked", "release"},
         saying' \subseteq saying \cup {t},
         t \in saying' => p \in {"preface", "answer", "report"}
  PROVE  TurnsInv'
<1>1. T!TypeOK /\ place \in [T!Turn -> T!Places] /\ lock \in T!Turn \cup {T!Nobody}
  BY DEF TurnsInv, T!TypeOK
<1>2. /\ place'[t] = p /\ \A u \in T!Turn \ {t} : place'[u] = place[u]
      /\ place' \in [T!Turn -> T!Places] /\ saying' \subseteq T!Turn
  BY <1>1 DEF T!TypeOK
<1>3. T!TypeOK'
  BY <1>1, <1>2 DEF T!TypeOK
<1>4. /\ \A u \in T!Turn : place'[u] \in T!Holding <=> place[u] \in T!Holding
      /\ \A u \in T!Turn : place'[u] \in T!Swapped <=> place[u] \in T!Swapped
      /\ \A u \in T!Turn : place'[u] \in {"locked", "release"} => place[u] \in {"locked", "release"}
  BY <1>1, <1>2
<1>5. T!ChannelIsRestored'
  BY <1>1, <1>4 DEF TurnsInv, T!ChannelIsRestored, T!Emit, T!Speaker
<1>6. /\ \A u \in T!Turn : place'[u] \in T!Holding => lock' = u
      /\ lock' # T!Nobody => place'[lock'] \in T!Holding
      /\ \A u \in T!Turn : place'[u] \in T!Swapped => saved'[u] = T!Speaker
      /\ activeCancel' # T!Nobody => lock' = activeCancel' /\ place'[lock'] \notin {"locked", "release"}
  BY <1>1, <1>4 DEF TurnsInv, T!TypeOK
<1>7. \A u \in saying' : place'[u] \in {"preface", "answer", "report"}
  BY <1>2 DEF TurnsInv
<1> QED
  BY <1>3, <1>5, <1>6, <1>7 DEF TurnsInv

LEMMA TurnsTypes ==
  ASSUME TurnsInv, NEW t \in T!Turn
  PROVE  /\ place[t] \in T!Places
         /\ out \in [T!Turn -> T!Channel] /\ tools \in [T!Turn -> 0 .. MaxTools]
         /\ cancelled \in [T!Turn -> BOOLEAN] /\ ack \in [T!Turn -> {"none", "armed", "fired"}]
         /\ T!Finished(t) \in [T!Turn -> {"none", "armed", "fired"}]
         /\ \A a \in {"none", "armed", "fired"} : [ack EXCEPT ![t] = a] \in [T!Turn -> {"none", "armed", "fired"}]
         /\ place = [place EXCEPT ![t] = place[t]]
         /\ saying \subseteq T!Turn /\ (t \in saying => place[t] \in {"preface", "answer", "report"})
  BY DEF TurnsInv, T!TypeOK, T!Finished

LEMMA TurnsBefore ==
  ASSUME TurnsInv, NEW t \in T!Turn,
         T!Ask(t) \/ T!Interrupt(t) \/ T!Resume(t) \/ T!ResumeEnds(t) \/ T!Busy(t)
  PROVE  TurnsInv'
<1>1. PICK p \in {"asked", "done", "resumed"} : place' = [place EXCEPT ![t] = p]
  BY DEF T!Ask, T!Interrupt, T!Resume, T!ResumeEnds, T!Busy, T!Goto
<1>2. /\ place[t] \in {"new", "asked", "resumed"}
      /\ UNCHANGED <<saved, tts, lock, activeCancel, tools, cancelled, ack, saying>>
  BY DEF T!Ask, T!Interrupt, T!Resume, T!ResumeEnds, T!Busy, T!turnState, T!shared
<1>3. out' \in [T!Turn -> T!Channel]
  <2>1. T!TypeOK /\ (t \in T!Turn \ Voice => T!Screen(t) \in T!Channel)
    BY DEF TurnsInv, T!Turn, T!Channel
  <2>2. CASE T!Ask(t)
    <3>1. PICK c \in T!Channel : out' = [out EXCEPT ![t] = c]
      BY <2>1, <2>2 DEF T!Ask, T!TypeOK
    <3> QED
      BY <2>1, <3>1 DEF T!TypeOK
  <2>3. CASE out' = out
    BY <2>1, <2>3 DEF T!TypeOK
  <2> QED
    BY <2>2, <2>3 DEF T!Interrupt, T!Resume, T!ResumeEnds, T!Busy, T!turnState
<1>4. /\ p \in T!Places \ (T!Holding \cup T!Swapped) /\ place[t] \notin T!Holding \cup T!Swapped
      /\ p \notin {"locked", "release"} /\ t \notin saying
  BY <1>2, TurnsTypes DEF T!Places, T!Holding, T!Swapped
<1> QED
  BY <1>1, <1>2, <1>3, <1>4, TurnsTypes, TurnMoves

LEMMA TurnsAnswer ==
  ASSUME TurnsInv, NEW t \in T!Turn,
         \/ T!FastPath(t) \/ T!StartAck(t) \/ T!Respond(t) \/ T!Say(t) \/ T!Said(t)
         \/ T!SayNothing(t) \/ T!RunTool(t) \/ T!ToolsDone(t) \/ T!Error(t)
  PROVE  TurnsInv'
<1> DEFINE Answering == {"started", "think", "preface", "answer", "tool", "report", "restore"}
<1>1. /\ place[t] \in Answering
      /\ UNCHANGED <<out, saved, tts, lock, activeCancel, cancelled>>
  BY TurnsTypes
  DEF T!FastPath, T!StartAck, T!Respond, T!Say, T!Said, T!SayNothing, T!RunTool,
      T!ToolsDone, T!Error, T!turnState, T!shared
<1>2. PICK p \in Answering : place' = [place EXCEPT ![t] = p] /\ (t \in saying' => p \in {"preface", "answer", "report"})
  <2>1. CASE T!FastPath(t) \/ T!StartAck(t) \/ T!ToolsDone(t) \/ T!Error(t)
    BY <2>1, TurnsTypes DEF T!FastPath, T!StartAck, T!ToolsDone, T!Error, T!Goto
  <2>2. CASE T!Respond(t)
    BY <2>2, TurnsTypes DEF T!Respond, T!Goto
  <2>3. CASE T!Say(t)
    BY <2>3, TurnsTypes DEF T!Say
  <2>4. CASE T!Said(t) \/ T!SayNothing(t)
    BY <2>4, TurnsTypes DEF T!Said, T!SayNothing, T!AfterSaying, T!Goto
  <2>5. CASE T!RunTool(t)
    BY <2>5, TurnsTypes DEF T!RunTool
  <2> QED
    BY <2>1, <2>2, <2>3, <2>4, <2>5
<1>3. saying' \subseteq saying \cup {t}
  BY DEF T!FastPath, T!StartAck, T!Respond, T!Say, T!Said, T!SayNothing, T!RunTool,
         T!ToolsDone, T!Error
<1>4. ack' \in [T!Turn -> {"none", "armed", "fired"}]
  BY TurnsTypes
  DEF T!FastPath, T!StartAck, T!Respond, T!Say, T!Said, T!SayNothing, T!RunTool,
      T!ToolsDone, T!Error
<1>5. tools' \in [T!Turn -> 0 .. MaxTools]
  <2>1. CASE tools' = tools
    BY <2>1, TurnsTypes
  <2>2. CASE T!Respond(t)
    BY <2>2, TurnsTypes DEF T!Respond
  <2>3. CASE T!RunTool(t)
    <3>1. tools[t] - 1 \in 0 .. MaxTools
      BY <2>3, TurnsTypes, VoiceAssumption DEF T!RunTool
    <3> QED
      BY <2>3, <3>1, TurnsTypes DEF T!RunTool
  <2> QED
    BY <2>1, <2>2, <2>3 DEF T!FastPath, T!StartAck, T!Say, T!Said, T!SayNothing, T!ToolsDone, T!Error, T!turnState
<1>6. p \in T!Places /\ {p, place[t]} \subseteq T!Holding \cap T!Swapped /\ p \notin {"locked", "release"}
  BY <1>1 DEF T!Places, T!Holding, T!Swapped
<1>7. UNCHANGED <<saved, tts, lock, activeCancel>> /\ out' \in [T!Turn -> T!Channel] /\ cancelled' \in [T!Turn -> BOOLEAN]
  BY <1>1, TurnsTypes
<1> QED
  BY <1>2, <1>3, <1>4, <1>5, <1>6, <1>7, TurnMoves

(* Nobody moves, but the events or the acknowledgement of a request do.     *)
LEMMA TurnsStay ==
  ASSUME TurnsInv, UNCHANGED <<place, out, saved, tts, lock, activeCancel, tools, saying>>,
         cancelled' \in [T!Turn -> BOOLEAN], ack' \in [T!Turn -> {"none", "armed", "fired"}]
  PROVE  TurnsInv'
  BY DEF TurnsInv, T!TypeOK, T!ChannelIsRestored, T!Holding, T!Swapped, T!Speaker, T!Emit

LEMMA TurnsOthers ==
  ASSUME TurnsInv,
         T!Cancel \/ \E t \in T!Turn : T!AckFires(t) \/ T!AckSays(t) \/ T!AckIsSilent(t)
  PROVE  TurnsInv'
<1>1. UNCHANGED <<place, out, saved, tts, lock, activeCancel, tools, saying>>
  BY DEF T!Cancel, T!AckFires, T!AckSays, T!AckIsSilent, T!turnState, T!shared
<1>2. /\ cancelled' \in [T!Turn -> BOOLEAN]
      /\ ack' \in [T!Turn -> {"none", "armed", "fired"}]
  <2>1. CASE T!Cancel
    <3>1. activeCancel \in T!Turn /\ cancelled \in [T!Turn -> BOOLEAN]
      BY <2>1 DEF T!Cancel, TurnsInv, T!TypeOK
    <3>2. cancelled' = [cancelled EXCEPT ![activeCancel] = TRUE] /\ ack' = T!Finished(activeCancel)
      BY <2>1 DEF T!Cancel
    <3> QED
      BY <3>1, <3>2, TurnsTypes
  <2>2. CASE \E t \in T!Turn : T!AckFires(t) \/ T!AckSays(t) \/ T!AckIsSilent(t)
    BY <2>2, TurnsTypes DEF T!AckFires, T!AckSays, T!AckIsSilent
  <2> QED
    BY <2>1, <2>2
<1> QED
  BY <1>1, <1>2, TurnsStay

(* The request that takes the lock, replaces the channel, gives it back and *)
(* releases the lock.                                                       *)
LEMMA TurnsHold ==
  ASSUME TurnsInv, NEW t \in T!Turn,
         T!Acquire(t) \/ T!Register(t) \/ T!Swap(t) \/ T!Restore(t) \/ T!Unregister(t) \/ T!Unlock(t)
  PROVE  TurnsInv'
<1> DEFINE next ==
      [p \in {"asked", "locked", "swap", "restore", "unregister", "release"} |->
         CASE p = "asked" -> "locked" [] p = "locked" -> "swap" [] p = "swap" -> "started"
           [] p = "restore" -> "unregister" [] p = "unregister" -> "release" [] OTHER -> "done"]
<1>1. /\ place[t] \in {"asked", "locked", "swap", "restore", "unregister", "release"}
      /\ place' = [place EXCEPT ![t] = next[place[t]]]
      /\ UNCHANGED <<out, tools, cancelled, saying>>
  BY DEF T!Acquire, T!Register, T!Swap, T!Restore, T!Unregister, T!Unlock, T!Goto, T!turnState, T!shared
<1>2. /\ T!TypeOK /\ t # T!Nobody /\ t \notin saying /\ T!Speaker \in T!Channel /\ T!Emit(t) \in T!Channel
      /\ next[place[t]] \in T!Places
  BY <1>1, VoiceAssumption, TurnsTypes DEF TurnsInv, T!Turn, T!Channel, T!Places
<1>3. /\ place'[t] = next[place[t]] /\ \A u \in T!Turn \ {t} : place'[u] = place[u]
      /\ place' \in [T!Turn -> T!Places]
  BY <1>1, <1>2 DEF T!TypeOK
<1> HIDE DEF next
<1>4. \A u \in saying' : place'[u] \in {"preface", "answer", "report"}
  BY <1>1, <1>2, <1>3 DEF TurnsInv, T!TypeOK
<1>5. ack' \in [T!Turn -> {"none", "armed", "fired"}]
  BY TurnsTypes DEF T!Acquire, T!Register, T!Swap, T!Restore, T!Unregister, T!Unlock
<1>6. place[t] # "asked" => lock = t
  BY <1>1 DEF TurnsInv, T!Holding
<1>7. CASE T!Acquire(t)
  <2>1. /\ place'[t] = "locked" /\ lock = T!Nobody /\ lock' = t
        /\ UNCHANGED <<saved, tts, activeCancel>>
    BY <1>3, <1>7 DEF T!Acquire, T!turnState, next
  <2>2. /\ activeCancel = T!Nobody /\ tts = T!Speaker
        /\ \A u \in T!Turn : place[u] \notin T!Holding
    <3>1. T!Nobody \notin T!Turn
      BY VoiceAssumption DEF T!Turn
    <3>2. activeCancel = T!Nobody
      BY <2>1 DEF TurnsInv
    <3>3. tts = T!Speaker
      BY <2>1 DEF TurnsInv, T!ChannelIsRestored
    <3> QED
      BY <2>1, <3>1, <3>2, <3>3 DEF TurnsInv
  <2>3. \A u \in T!Turn : place'[u] \in T!Holding => u = t
    BY <1>3, <2>2
  <2>4. \A u \in T!Turn : place'[u] \in T!Swapped => saved'[u] = T!Speaker
    BY <1>3, <2>1 DEF TurnsInv, T!Swapped
  <2>5. T!ChannelIsRestored'
    BY <1>2, <2>1, <2>2 DEF T!ChannelIsRestored, T!Swapped, T!Speaker
  <2>6. T!TypeOK'
    BY <1>1, <1>2, <1>3, <1>5, <2>1 DEF T!TypeOK
  <2> QED
    BY <1>4, <2>1, <2>2, <2>3, <2>4, <2>5, <2>6 DEF TurnsInv, T!Holding
<1>8. CASE T!Register(t)
  <2>1. /\ place[t] = "locked" /\ place'[t] = "swap" /\ activeCancel' = t
        /\ UNCHANGED <<saved, tts, lock>>
    BY <1>3, <1>8 DEF T!Register, T!turnState, next
  <2>2. T!ChannelIsRestored'
    BY <1>2, <1>6, <2>1 DEF TurnsInv, T!ChannelIsRestored, T!Swapped, T!Speaker, T!Emit
  <2>3. T!TypeOK'
    BY <1>1, <1>2, <1>3, <1>5, <2>1 DEF T!TypeOK
  <2>4. \A u \in T!Turn : place'[u] \in T!Holding => lock' = u
    BY <1>3, <1>6, <2>1 DEF TurnsInv
  <2>5. \A u \in T!Turn : place'[u] \in T!Swapped => saved'[u] = T!Speaker
    BY <1>3, <2>1 DEF TurnsInv, T!Swapped
  <2> QED
    BY <1>2, <1>4, <1>6, <2>1, <2>2, <2>3, <2>4, <2>5 DEF TurnsInv, T!Holding
<1>9. CASE T!Swap(t)
  <2>1. /\ place[t] = "swap" /\ place'[t] = "started" /\ tts' = T!Emit(t)
        /\ saved' = [saved EXCEPT ![t] = tts] /\ UNCHANGED <<lock, activeCancel>>
    BY <1>3, <1>9 DEF T!Swap, next
  <2>2. tts = T!Speaker
    BY <1>2, <1>6, <2>1 DEF TurnsInv, T!ChannelIsRestored, T!Swapped
  <2>3. T!ChannelIsRestored'
    BY <1>2, <1>6, <2>1 DEF T!ChannelIsRestored, T!Swapped, T!Emit
  <2>4. T!TypeOK'
    BY <1>1, <1>2, <1>3, <1>5, <2>1 DEF T!TypeOK
  <2>5. \A u \in T!Turn : place'[u] \in T!Holding => lock' = u
    BY <1>3, <1>6, <2>1 DEF TurnsInv
  <2>6. \A u \in T!Turn : place'[u] \in T!Swapped => saved'[u] = T!Speaker
    BY <1>2, <1>3, <2>1, <2>2 DEF TurnsInv, T!Swapped, T!TypeOK, T!Speaker
  <2> QED
    BY <1>2, <1>4, <1>6, <2>1, <2>3, <2>4, <2>5, <2>6 DEF TurnsInv, T!Holding
<1>10. CASE T!Restore(t)
  <2>1. /\ place[t] = "restore" /\ place'[t] = "unregister" /\ tts' = saved[t]
        /\ UNCHANGED <<saved, lock, activeCancel>>
    BY <1>3, <1>10 DEF T!Restore, T!Original, T!turnState, next
  <2>2. saved[t] = T!Speaker
    BY <2>1 DEF TurnsInv, T!Swapped
  <2>3. T!ChannelIsRestored'
    BY <1>2, <1>6, <2>1, <2>2 DEF T!ChannelIsRestored, T!Swapped, T!Speaker
  <2>4. T!TypeOK'
    BY <1>1, <1>2, <1>3, <1>5, <2>1, <2>2 DEF T!TypeOK, T!Speaker
  <2>5. \A u \in T!Turn : place'[u] \in T!Holding => lock' = u
    BY <1>3, <1>6, <2>1 DEF TurnsInv
  <2>6. \A u \in T!Turn : place'[u] \in T!Swapped => saved'[u] = T!Speaker
    BY <1>3, <2>1 DEF TurnsInv, T!Swapped
  <2> QED
    BY <1>2, <1>4, <1>6, <2>1, <2>3, <2>4, <2>5, <2>6 DEF TurnsInv, T!Holding
<1>11. CASE T!Unregister(t)
  <2>1. /\ place[t] = "unregister" /\ place'[t] = "release" /\ activeCancel' = T!Unregistered(t)
        /\ UNCHANGED <<saved, tts, lock>>
    BY <1>3, <1>11 DEF T!Unregister, T!turnState, next
  <2>2. activeCancel' = T!Nobody
    BY <1>6, <2>1 DEF TurnsInv, T!Unregistered
  <2>3. T!ChannelIsRestored'
    BY <1>2, <1>6, <2>1 DEF TurnsInv, T!ChannelIsRestored, T!Swapped, T!Speaker, T!Emit
  <2>4. T!TypeOK'
    BY <1>1, <1>2, <1>3, <1>5, <2>1, <2>2 DEF T!TypeOK, T!Nobody
  <2>5. \A u \in T!Turn : place'[u] \in T!Holding => lock' = u
    BY <1>3, <1>6, <2>1 DEF TurnsInv
  <2>6. \A u \in T!Turn : place'[u] \in T!Swapped => saved'[u] = T!Speaker
    BY <1>3, <2>1 DEF TurnsInv, T!Swapped
  <2> QED
    BY <1>2, <1>4, <1>6, <2>1, <2>2, <2>3, <2>4, <2>5, <2>6 DEF TurnsInv, T!Holding, T!Nobody
<1>12. CASE T!Unlock(t)
  <2>1. /\ place[t] = "release" /\ place'[t] = "done" /\ lock' = T!Nobody
        /\ UNCHANGED <<saved, tts, activeCancel>>
    BY <1>3, <1>12 DEF T!Unlock, T!turnState, next
  <2>2. activeCancel = T!Nobody /\ tts = T!Speaker
    BY <1>2, <1>6, <2>1 DEF TurnsInv, T!ChannelIsRestored, T!Swapped
  <2>3. T!ChannelIsRestored'
    BY <2>1, <2>2 DEF T!ChannelIsRestored, T!Speaker, T!Nobody
  <2>4. T!TypeOK'
    BY <1>1, <1>2, <1>3, <1>5, <2>1 DEF T!TypeOK, T!Nobody
  <2>5. \A u \in T!Turn : place'[u] \notin T!Holding
    BY <1>2, <1>3, <1>6, <2>1 DEF TurnsInv, T!Holding
  <2>6. \A u \in T!Turn : place'[u] \in T!Swapped => saved'[u] = T!Speaker
    BY <1>3, <2>1 DEF TurnsInv, T!Swapped
  <2> QED
    BY <1>4, <2>1, <2>2, <2>3, <2>4, <2>5, <2>6 DEF TurnsInv, T!Nobody
<1> QED
  BY <1>7, <1>8, <1>9, <1>10, <1>11, <1>12

LEMMA TurnsNext == TurnsInv /\ [T!Next]_turns => TurnsInv'
<1> SUFFICES ASSUME TurnsInv, [T!Next]_turns PROVE TurnsInv'
  OBVIOUS
<1>1. CASE UNCHANGED turns
  <2>1. UNCHANGED <<place, out, saved, tts, lock, activeCancel, tools, saying>>
    BY <1>1 DEF turns
  <2>2. cancelled' \in [T!Turn -> BOOLEAN] /\ ack' \in [T!Turn -> {"none", "armed", "fired"}]
    BY <1>1 DEF turns, TurnsInv, T!TypeOK
  <2> QED
    BY <2>1, <2>2, TurnsStay
<1>2. CASE T!Cancel \/ \E t \in T!Turn : T!AckFires(t) \/ T!AckSays(t) \/ T!AckIsSilent(t)
  BY <1>2, TurnsOthers
<1>3. ASSUME NEW t \in T!Turn, T!Ask(t) \/ T!Step(t) PROVE TurnsInv'
  BY <1>3, TurnsBefore, TurnsAnswer, TurnsHold DEF T!Step
<1> QED
  BY <1>1, <1>2, <1>3 DEF T!Next

LEMMA TurnsSpec == Parts => T!Init /\ [][T!Next]_turns
<1>1. Start => T!Init
  BY DEF Start
<1>2. [Moved /\ UNCHANGED part]_all => [T!Next]_turns
  BY DEF Moved, all, turns
<1> QED
  BY <1>1, <1>2, PTL DEF Parts

(* ChannelIsRestored (TLC: voice): however requests end, and whichever      *)
(* raced for _exec_lock, tts_wrapper is the emit_output of the one that     *)
(* runs and the original output when none does; for any number of requests  *)
(* by voice and by text.                                                    *)
THEOREM Restored == Parts => []ChannelIsRestored
<1>1. TurnsInv => ChannelIsRestored
  BY DEF TurnsInv, ChannelIsRestored
<1> QED
  BY <1>1, TurnsInit, TurnsNext, TurnsSpec, PTL

(* CancelHitsTheRunning (TLC: voice): the request that stop_speaking()      *)
(* cancels is the one that holds _exec_lock at that moment.                 *)
THEOREM HitsTheRunning == Parts => CancelHitsTheRunning
<1>1. TurnsInv /\ [T!Next]_turns => [T!Cancel => lock = activeCancel]_turns
  BY DEF TurnsInv, T!Cancel
<1>2. [T!Cancel => lock = activeCancel]_turns => [T!Cancel => lock = activeCancel]_T!vars
  BY DEF turns, T!vars, T!turnState, T!shared
<1> QED
  BY <1>1, <1>2, TurnsInit, TurnsNext, TurnsSpec, PTL DEF CancelHitsTheRunning, T!CancelHitsTheRunning

-----------------------------------------------------------------------------
(* CosyVoice. *)

(* What the worker writes to its output.                                    *)
Output == (1 .. Requests) \X {"pcm", "end"}

SpeechPlaces ==
  {"idle", "clear", "ensure", "worker", "send", "stream", "timeout", "control",
   "finish", "unsent", "abort", "drop", "close"}

(* The type invariant, variable by variable, with what can be in the pipes. *)
SpeechTypes ==
  /\ req \in 0 .. Requests /\ speaking \in 0 .. Requests
  /\ stopped \in SUBSET (1 .. Requests) /\ readers \in SUBSET (1 .. Requests)
  /\ clean \in SUBSET (1 .. Requests) /\ buffer \in SUBSET (1 .. Requests)
  /\ complete \in BOOLEAN /\ alive \in BOOLEAN /\ restart \in BOOLEAN /\ spared \in BOOLEAN
  /\ worker \in 0 .. Restarts /\ made \in 0 .. (Chunks + 1)
  /\ working \in 0 .. Requests /\ drain \in 0 .. Requests
  /\ clearing \in 0 .. Requests /\ pcmLock \in 0 .. Requests
  /\ Requests \in Nat /\ Chunks \in Nat /\ Restarts \in Nat
  /\ spc \in SpeechPlaces
  /\ stdin \in Seq(1 .. Requests) /\ stdout \in Seq(Output)

(* The last request is the active one or none is; a request has no reader   *)
(* before its text is sent; and what holds the lock of the audio buffer     *)
(* since the active request emptied it is that request's own reader.        *)
SpeakerIsActive ==
  /\ speaking \in {0, req} /\ (spc = "idle" => speaking = 0) /\ (spc # "idle" => req # 0)
  /\ readers \cup clean \subseteq 1 .. req
  /\ spc \in {"clear", "ensure", "worker", "send"} => req \notin readers \cup clean
  /\ spc \notin {"idle", "finish", "close"} => ~complete
  /\ spc \in {"ensure", "worker", "send"} => pcmLock = 0
  /\ pcmLock # 0 /\ speaking # 0 /\ spc # "clear" => pcmLock = speaking
  /\ S!BufferIsCurrent

Empty == stdin = <<>> /\ working = 0 /\ stdout = <<>> /\ stderr = <<>> /\ ctrlQ = <<>> /\ readers = {}

(* The pipes hold what belongs to one request, x: its text, then its audio  *)
(* with the end mark last, then its line; readers and drain serve it.  Once *)
(* the end mark was read there is no more audio.                            *)
Flow(x) ==
  /\ readers \subseteq {x} /\ {drain, working} \subseteq {0, x}
  /\ stdin \in {<<>>, <<x>>} /\ stderr \in {<<>>, <<x>>} /\ ctrlQ \in {<<>>, <<x>>}
  /\ \A i \in 1 .. Len(stdout) :
       /\ stdout[i][1] = x
       /\ stdout[i][2] = "end" => i = Len(stdout) /\ (working # 0 => made > Chunks)
  /\ stdin # <<>> => working = 0 /\ stdout = <<>> /\ stderr = <<>> /\ ctrlQ = <<>>
  /\ working # 0 => stderr = <<>> /\ ctrlQ = <<>>
  /\ stderr = <<>> \/ ctrlQ = <<>>
  /\ x \in clean => /\ x \notin readers /\ stdin = <<>> /\ stdout = <<>>
                    /\ working # 0 => made > Chunks
  /\ spc \in {"stream", "timeout", "control", "finish"} => x = req

(* A worker that is trusted with another request has nothing of the last    *)
(* one left.                                                                *)
WorkerIsEmpty ==
  /\ spc \in {"send", "stream", "timeout", "control", "finish"} => drain = 0
  /\ spc = "worker" => drain = 0 \/ restart
  /\ spc = "send" => Empty
  /\ /\ alive /\ ~restart /\ drain = 0
     /\ \/ spc \in {"idle", "clear", "ensure", "worker", "unsent", "drop", "close"}
        \/ spc = "finish" /\ complete
     => Empty
  /\ spc = "control" => readers = {}
  /\ spc \in {"stream", "timeout", "control"} /\ readers = {} => req \in clean \/ ~alive

(* All this is of a worker that was not left with output of an aborted      *)
(* request; of another one it says nothing until it is replaced.            *)
FlowInv == ~spared => /\ \E x \in 0 .. Requests : Flow(x)
                      /\ WorkerIsEmpty
                      /\ S!OutputIsItsOwn

LEMMA SpeechTyped == SpeechTypes => S!TypeOK
  BY VoiceAssumption DEF S!TypeOK, SpeechTypes

(* A queue of one element, and the output of the worker.                    *)
LEMMA OneElement ==
  ASSUME NEW x, NEW q \in {<<>>, <<x>>}
  PROVE  /\ q # <<>> => Head(q) = x /\ Tail(q) = <<>>
         /\ Append(<<>>, x) = <<x>>
<1>1. Head(<<x>>) = x /\ Tail(<<x>>) = <<>>
  OBVIOUS
<1>2. Append(<<>>, x) = <<x>>
  OBVIOUS
<1> QED
  BY <1>1, <1>2

OutputOf(s, x) ==
  \A i \in 1 .. Len(s) : s[i][1] = x /\ (s[i][2] = "end" => i = Len(s))

LEMMA OutputTail ==
  ASSUME NEW s \in Seq(Output), s # <<>>, NEW x, OutputOf(s, x)
  PROVE  /\ Tail(s) \in Seq(Output) /\ OutputOf(Tail(s), x)
         /\ Head(s)[1] = x
         /\ Head(s)[2] = "end" => Tail(s) = <<>>
<1>1. Len(s) \in Nat \ {0} /\ Head(s) = s[1]
  BY EmptySeq
<1>2. /\ Tail(s) \in Seq(Output) /\ Len(Tail(s)) = Len(s) - 1
      /\ \A i \in 1 .. Len(Tail(s)) : Tail(s)[i] = s[i + 1]
  BY HeadTailProperties
<1>3. \A i \in 1 .. Len(s) - 1 : i + 1 \in 1 .. Len(s) /\ (i + 1 = Len(s) => i = Len(s) - 1)
  BY <1>1
<1>4. OutputOf(Tail(s), x)
  BY <1>2, <1>3 DEF OutputOf
<1>5. s[1][1] = x /\ (s[1][2] = "end" => Len(s) = 1)
  <2>1. 1 \in 1 .. Len(s)
    BY <1>1
  <2> QED
    BY <2>1 DEF OutputOf
<1>6. Len(s) = 1 => Tail(s) = <<>>
  <2>1. \A t \in Seq(Output) : Len(t) = 0 => t = <<>>
    BY EmptySeq
  <2>2. Len(s) = 1 => Len(Tail(s)) = 0
    BY <1>2
  <2> QED
    BY <1>2, <2>1, <2>2, Zenon
<1> QED
  BY <1>1, <1>2, <1>4, <1>5, <1>6

LEMMA OutputAppend ==
  ASSUME NEW s \in Seq(Output), NEW x \in 1 .. Requests, NEW k \in {"pcm", "end"}, OutputOf(s, x),
         \A i \in 1 .. Len(s) : s[i][2] # "end"
  PROVE  /\ Append(s, <<x, k>>) \in Seq(Output) /\ OutputOf(Append(s, <<x, k>>), x)
         /\ k = "pcm" => \A i \in 1 .. Len(Append(s, <<x, k>>)) : Append(s, <<x, k>>)[i][2] # "end"
<1> DEFINE e == <<x, k>>
           t == Append(s, e)
<1>1. e \in Output /\ e[1] = x /\ e[2] = k
  BY DEF Output
<1>2. Len(s) \in Nat
  BY LenProperties
<1> HIDE DEF e
<1>3. /\ t \in Seq(Output) /\ Len(t) = Len(s) + 1
      /\ \A i \in 1 .. Len(s) : t[i] = s[i]
      /\ t[Len(s) + 1] = e
  BY <1>1, AppendProperties
<1> HIDE DEF t
<1>4. \A i \in 1 .. Len(t) : i \in 1 .. Len(s) \/ i = Len(t)
  BY <1>2, <1>3
<1>5. OutputOf(t, x) /\ (k = "pcm" => \A i \in 1 .. Len(t) : t[i][2] # "end")
  BY <1>1, <1>3, <1>4 DEF OutputOf
<1> QED
  BY <1>3, <1>5 DEF t, e

LEMMA SpeechInit == S!Init => SpeechTypes /\ SpeakerIsActive /\ FlowInv
<1> SUFFICES ASSUME S!Init PROVE SpeechTypes /\ SpeakerIsActive /\ FlowInv
  OBVIOUS
<1>1. SpeechTypes
  <2>1. /\ 0 \in 0 .. Requests /\ 0 \in 0 .. Restarts /\ 0 \in 0 .. (Chunks + 1)
        /\ <<>> \in Seq(Output) /\ <<>> \in Seq(1 .. Requests)
    BY VoiceAssumption
  <2> QED
    BY <2>1, VoiceAssumption DEF S!Init, SpeechTypes, SpeechPlaces
<1>2. SpeakerIsActive
  BY DEF S!Init, SpeakerIsActive, S!BufferIsCurrent
<1>3. Flow(0) /\ 0 \in 0 .. Requests
  BY VoiceAssumption DEF S!Init, Flow
<1>4. WorkerIsEmpty /\ S!OutputIsItsOwn
  BY DEF S!Init, WorkerIsEmpty, Empty, S!OutputIsItsOwn
<1> QED
  BY <1>1, <1>2, <1>3, <1>4 DEF FlowInv

(* The types hold on every step, ...                                        *)
LEMMA SpeechTypesStep ==
  ASSUME SpeechTypes, SpeakerIsActive, S!Next
  PROVE  SpeechTypes'
<1> USE DEF S!speaker, S!state, S!process, S!lines, S!reading, S!audio, S!history
<1>1. CASE \/ S!Speak \/ S!ClearAudio \/ S!DrainTimesOut \/ S!Drained \/ S!KeepWorker
           \/ S!NotSent \/ S!SpeakFails \/ S!ReadTimesOut \/ S!Streamed \/ S!GetLine \/ S!NoLine
  <2>1. /\ UNCHANGED <<stopped, readers, clean, alive, spared, worker, made, working, drain,
                       clearing, pcmLock, stdin, stdout>>
        /\ restart' \in BOOLEAN /\ complete' \in BOOLEAN
        /\ spc' \in SpeechPlaces
        /\ buffer' = buffer \/ buffer' = {}
        /\ UNCHANGED <<req, speaking>> \/ (req' = req + 1 /\ speaking' = req + 1 /\ req < Requests)
    BY <1>1 DEF S!Speak, S!ClearAudio, S!DrainTimesOut, S!Drained, S!KeepWorker, S!NotSent,
       S!SpeakFails, S!ReadTimesOut, S!Streamed, S!GetLine, S!NoLine, SpeechTypes, SpeechPlaces
  <2>2. req' \in 0 .. Requests /\ speaking' \in 0 .. Requests
    BY <2>1 DEF SpeechTypes
  <2>3. buffer' \in SUBSET (1 .. Requests)
    BY <2>1 DEF SpeechTypes
  <2> QED
    BY <2>1, <2>2, <2>3 DEF SpeechTypes
<1>2. CASE S!StartWorker
  <2>1. /\ stdin' \in Seq(1 .. Requests) /\ stdout' \in Seq(Output) /\ spc' \in SpeechPlaces
        /\ worker' \in 0 .. Restarts
    BY <1>2 DEF S!StartWorker, S!NewPipes, SpeechTypes, SpeechPlaces
  <2>2. /\ UNCHANGED <<req, speaking, stopped, complete, clean, buffer, clearing, pcmLock>>
        /\ readers' = {} /\ alive' = TRUE /\ restart' = FALSE /\ spared' = FALSE
        /\ made' = 0 /\ working' = 0 /\ drain' = 0
    BY <1>2 DEF S!StartWorker, S!NewPipes
  <2>3. 0 \in 0 .. Requests /\ 0 \in 0 .. (Chunks + 1)
    BY DEF SpeechTypes
  <2> QED
    BY <2>1, <2>2, <2>3 DEF SpeechTypes
<1>3. CASE S!Send
  <2>1. req \in 1 .. Requests
    BY <1>3 DEF S!Send, SpeechTypes, SpeakerIsActive
  <2>2. stdin' \in Seq(1 .. Requests) /\ spc' \in SpeechPlaces
    BY <1>3, <2>1, AppendProperties DEF S!Send, SpeechTypes, SpeechPlaces
  <2>3. /\ UNCHANGED <<req, complete, speaking, stopped, alive, restart, worker, working, made,
                       stdout, clean, drain, pcmLock, buffer, clearing, spared>>
        /\ readers' = readers \cup {req}
    BY <1>3 DEF S!Send
  <2> QED
    BY <2>1, <2>2, <2>3 DEF SpeechTypes
<1>4. CASE S!Cancelled \/ S!NotCancelled \/ S!Abort \/ S!Close
  <2>1. /\ UNCHANGED <<req, complete, stopped, readers, clean, worker, made, working, clearing,
                       pcmLock, stdin, stdout>>
        /\ alive' \in BOOLEAN /\ restart' \in BOOLEAN /\ spared' \in BOOLEAN
        /\ spc' \in SpeechPlaces
        /\ drain' = req \/ drain' = drain
        /\ buffer' = buffer \/ buffer' = {}
        /\ speaking' = 0 \/ speaking' = speaking
    BY <1>4 DEF S!Cancelled, S!Drains, S!NotCancelled, S!Abort, S!AbortActive, S!AbortOvertaken,
       S!Close, SpeechTypes, SpeechPlaces
  <2>2. 0 \in 0 .. Requests
    BY DEF SpeechTypes
  <2> QED
    BY <2>1, <2>2 DEF SpeechTypes
<1>5. CASE S!Stop \/ S!SetStopEvent \/ S!StopClears
  <2>1. /\ speaking # 0 => speaking \in 1 .. Requests
        /\ spc # "idle" => req \in 1 .. Requests
    BY DEF SpeechTypes, SpeakerIsActive
  <2>2. stopped' \in SUBSET (1 .. Requests) /\ buffer' \in SUBSET (1 .. Requests)
    BY <1>5, <2>1 DEF S!Stop, S!SetStopEvent, S!StopClears, SpeechTypes
  <2>3. /\ UNCHANGED <<req, complete, readers, clean, alive, restart, spared, worker, made, working,
                       drain, pcmLock, stdin, stdout, spc>>
        /\ clearing' \in 0 .. Requests /\ speaking' \in 0 .. Requests
    BY <1>5 DEF S!Stop, S!SetStopEvent, S!StopClears, SpeechTypes
  <2> QED
    BY <2>2, <2>3 DEF SpeechTypes
<1>6. CASE S!Take \/ S!ReportDone \/ S!Die
  <2>1. S!Take => Head(stdin) \in 1 .. Requests /\ Tail(stdin) \in Seq(1 .. Requests)
    BY HeadTailProperties DEF S!Take, SpeechTypes
  <2>2. /\ stdin' = stdin \/ (S!Take /\ stdin' = Tail(stdin))
        /\ working' \in {0, working} \/ (S!Take /\ working' = Head(stdin))
        /\ made' \in {0, made} /\ alive' \in BOOLEAN
    BY <1>6 DEF S!Take, S!ReportDone, S!Die, SpeechTypes
  <2>4. /\ stdin' \in Seq(1 .. Requests) /\ working' \in 0 .. Requests
        /\ made' \in 0 .. (Chunks + 1) /\ alive' \in BOOLEAN
    <3>1. stdin' \in Seq(1 .. Requests)
      <4>1. stdin \in Seq(1 .. Requests)
        BY DEF SpeechTypes
      <4> QED
        BY <2>1, <2>2, <4>1, Zenon
    <3>2. working' \in 0 .. Requests /\ made' \in 0 .. (Chunks + 1) /\ alive' \in BOOLEAN
      BY <2>1, <2>2 DEF SpeechTypes
    <3> QED
      BY <3>1, <3>2
  <2>3. UNCHANGED <<req, speaking, complete, stopped, readers, clean, buffer, restart, spared, worker,
                    drain, clearing, pcmLock, stdout, spc>>
    BY <1>6 DEF S!Take, S!ReportDone, S!Die
  <2> QED
    BY <2>3, <2>4 DEF SpeechTypes
<1>7. CASE S!MakeChunk \/ S!EndRequest
  <2>1. <<working, "pcm">> \in Output /\ <<working, "end">> \in Output
    BY <1>7 DEF S!MakeChunk, S!EndRequest, SpeechTypes, Output
  <2>2. stdout' \in Seq(Output)
    <3>1. PICK e \in Output : stdout' = Append(stdout, e)
      BY <1>7, <2>1 DEF S!MakeChunk, S!EndRequest
    <3> QED
      BY <3>1, AppendProperties DEF SpeechTypes
  <2>3. made' \in 0 .. (Chunks + 1)
    BY <1>7 DEF S!MakeChunk, S!EndRequest, SpeechTypes
  <2>4. UNCHANGED <<req, speaking, complete, stopped, readers, clean, buffer, alive, restart, spared,
                    worker, working, drain, clearing, pcmLock, stdin, spc>>
    BY <1>7 DEF S!MakeChunk, S!EndRequest
  <2> QED
    BY <2>2, <2>3, <2>4 DEF SpeechTypes
<1>8. CASE \E r \in readers : S!Read(r) \/ S!ReadEnds(r)
  <2>1. PICK r \in readers : S!Read(r) \/ S!ReadEnds(r)
    BY <1>8
  <2>2. /\ UNCHANGED <<req, speaking, complete, stopped, buffer, alive, restart, spared, worker, made,
                       working, drain, clearing, stdin, spc>>
        /\ readers' \subseteq readers /\ clean' \subseteq clean \cup {r}
        /\ pcmLock' \in {r, pcmLock}
    BY <2>1 DEF S!Read, S!ReadEnds
  <2>3. stdout' \in Seq(Output)
    <3>1. stdout # <<>> => Tail(stdout) \in Seq(Output)
      BY HeadTailProperties DEF SpeechTypes
    <3>2. stdout \in Seq(Output)
      BY DEF SpeechTypes
    <3>3. CASE S!Read(r)
      <4>1. stdout # <<>> /\ stdout' = Tail(stdout)
        BY <3>3 DEF S!Read
      <4> QED
        BY <3>1, <4>1, Zenon
    <3>4. CASE S!ReadEnds(r)
      <4>1. stdout' = stdout
        BY <3>4 DEF S!ReadEnds
      <4> QED
        BY <3>2, <4>1, Zenon
    <3> QED
      BY <2>1, <3>3, <3>4
  <2>4. r \in 1 .. Requests
    BY DEF SpeechTypes
  <2> QED
    BY <2>2, <2>3, <2>4 DEF SpeechTypes
<1>9. CASE S!Store \/ S!ReadLine \/ S!DrainEnds \/ S!DrainFails
  <2>1. /\ UNCHANGED <<req, speaking, complete, stopped, readers, clean, alive, spared, worker, made,
                       working, clearing, stdin, stdout, spc>>
        /\ restart' \in {TRUE, restart} /\ drain' \in {0, drain} /\ pcmLock' \in {0, pcmLock}
        /\ buffer' = buffer \/ (pcmLock # 0 /\ buffer' = buffer \cup {pcmLock})
    BY <1>9 DEF S!Store, S!ReadLine, S!DrainEnds, S!DrainFails
  <2>2. 0 \in 0 .. Requests /\ (pcmLock # 0 => pcmLock \in 1 .. Requests)
    BY DEF SpeechTypes
  <2> QED
    BY <2>1, <2>2 DEF SpeechTypes
<1> QED
  BY <1>1, <1>2, <1>3, <1>4, <1>5, <1>6, <1>7, <1>8, <1>9
     DEF S!Next, S!Speaker, S!Worker, S!Background

(* ... and so does what the speaker and the audio buffer owe each other,    *)
(* wherever a stop comes.                                                   *)
LEMMA SpeakerStep ==
  ASSUME SpeechTypes, SpeakerIsActive, S!Next
  PROVE  SpeakerIsActive'
<1> USE DEF SpeakerIsActive, S!BufferIsCurrent, S!speaker, S!state, S!process, S!lines, S!reading,
            S!audio, S!history
<1>1. CASE S!Speak \/ S!ClearAudio
  <2>1. CASE S!Speak
    <3>1. /\ req' = req + 1 /\ speaking' = req + 1 /\ spc' = "clear" /\ complete' = FALSE
          /\ UNCHANGED <<readers, clean, pcmLock, buffer>>
      BY <2>1 DEF S!Speak
    <3>2. req \in Nat
      BY DEF SpeechTypes
    <3> QED
      BY <3>1, <3>2
  <2>2. CASE S!ClearAudio
    BY <2>2 DEF S!ClearAudio
  <2> QED
    BY <1>1, <2>1, <2>2
<1>2. CASE \/ S!DrainTimesOut \/ S!Drained \/ S!KeepWorker \/ S!NotSent \/ S!SpeakFails
           \/ S!ReadTimesOut \/ S!Streamed \/ S!GetLine \/ S!NoLine \/ S!NotCancelled
  <2>1. /\ UNCHANGED <<req, speaking, readers, clean, pcmLock, buffer>>
        /\ spc \in {"ensure", "worker", "send"} \/ spc' \notin {"clear", "ensure", "worker", "send"}
        /\ spc \notin {"idle", "clear"} /\ spc' # "idle"
        /\ spc' \in {"finish", "close"} \/ ~complete'
    BY <1>2 DEF S!DrainTimesOut, S!Drained, S!KeepWorker, S!NotSent, S!SpeakFails, S!ReadTimesOut,
       S!Streamed, S!GetLine, S!NoLine, S!NotCancelled
  <2> QED
    BY <2>1
<1>3. CASE S!StartWorker \/ S!Send
  <2>1. /\ UNCHANGED <<req, speaking, complete, clean, pcmLock, buffer>> /\ spc \in {"worker", "send"}
        /\ (readers' = {} /\ spc' = "send") \/ (readers' = readers \cup {req} /\ spc' = "stream")
    BY <1>3 DEF S!StartWorker, S!Send
  <2>2. req # 0 => req \in 1 .. req
    BY DEF SpeechTypes
  <2> QED
    BY <2>1, <2>2
<1>4. CASE S!Cancelled \/ S!Abort \/ S!Close
  BY <1>4 DEF S!Cancelled, S!Abort, S!AbortActive, S!AbortOvertaken, S!Close, SpeechTypes
<1>5. CASE S!Stop \/ S!SetStopEvent \/ S!StopClears
  BY <1>5 DEF S!Stop, S!SetStopEvent, S!StopClears
<1>6. CASE S!Worker
  BY <1>6 DEF S!Worker, S!Take, S!MakeChunk, S!EndRequest, S!ReportDone, S!Die
<1>7. CASE \E r \in readers : S!Read(r) \/ S!ReadEnds(r)
  <2>1. PICK r \in readers : S!Read(r) \/ S!ReadEnds(r)
    BY <1>7
  <2>2. /\ UNCHANGED <<req, speaking, complete, spc, buffer>>
        /\ readers' \cup clean' \subseteq readers \cup clean
        /\ pcmLock' = pcmLock \/ (pcmLock' = r /\ speaking = r)
    BY <2>1 DEF S!Read, S!ReadEnds
  <2>3. spc \in {"ensure", "worker", "send"} => speaking # r
    BY DEF SpeechTypes
  <2> QED
    BY <2>2, <2>3
<1>8. CASE S!Store \/ S!ReadLine \/ S!DrainEnds \/ S!DrainFails
  BY <1>8 DEF S!Store, S!ReadLine, S!DrainEnds, S!DrainFails
<1> QED
  BY <1>1, <1>2, <1>3, <1>4, <1>5, <1>6, <1>7, <1>8 DEF S!Next, S!Speaker, S!Background

-----------------------------------------------------------------------------
(* The flow of the pipes, action by action.  speak() goes on, or gives up,  *)
(* without touching them, ...                                               *)
LEMMA FlowGoesOn ==
  ASSUME SpeechTypes, SpeakerIsActive, FlowInv, ~spared,
         \/ S!Speak \/ S!ClearAudio \/ S!DrainTimesOut \/ S!Drained \/ S!KeepWorker \/ S!NotSent
         \/ S!SpeakFails \/ S!ReadTimesOut \/ S!Streamed \/ S!NotCancelled
  PROVE  FlowInv'
<1>1. PICK x \in 0 .. Requests : Flow(x)
  BY DEF FlowInv
<1>2. /\ UNCHANGED <<alive, working, made, stdin, stdout, stderr, ctrlQ, readers, clean, drain, taken, spared>>
      /\ restart' = restart \/ restart' = TRUE
      /\ spc' \in {"stream", "timeout", "control", "finish"} =>
           spc \in {"stream", "timeout", "control"} /\ req' = req
  BY DEF S!Speak, S!ClearAudio, S!DrainTimesOut, S!Drained, S!KeepWorker, S!NotSent, S!SpeakFails,
     S!ReadTimesOut, S!Streamed, S!NotCancelled, S!speaker, S!state, S!process, S!lines, S!reading,
     S!audio, S!history
<1>3. Flow(x)'
  BY <1>1, <1>2 DEF Flow
<1>4. WorkerIsEmpty'
  <2>1. WorkerIsEmpty /\ readers \subseteq {x}
        /\ (spc \in {"stream", "timeout", "control", "finish"} => x = req)
    BY <1>1 DEF FlowInv, Flow
  <2>2. CASE S!Speak \/ S!ClearAudio \/ S!NotSent
    <3>1. /\ spc' \in {"clear", "ensure", "unsent"}
          /\ spc \in {"idle", "clear", "ensure", "worker", "send"}
      BY <2>2 DEF S!Speak, S!ClearAudio, S!NotSent
    <3> QED
      BY <2>1, <1>2, <3>1 DEF WorkerIsEmpty, Empty
  <2>4. CASE S!DrainTimesOut \/ S!Drained \/ S!KeepWorker
    BY <2>1, <2>4, <1>2 DEF S!DrainTimesOut, S!Drained, S!KeepWorker, WorkerIsEmpty, Empty
  <2>3. CASE S!SpeakFails \/ S!ReadTimesOut \/ S!Streamed \/ S!NotCancelled
    <3>1. /\ spc \in {"send", "stream", "finish", "unsent"} /\ complete' = complete
          /\ spc = "send" => ~alive /\ spc' = "unsent"
          /\ spc = "stream" => spc' \in {"timeout", "finish"} \/ (spc' = "control" /\ req \notin readers)
          /\ spc = "finish" => spc' = IF complete THEN "close" ELSE "abort"
          /\ spc = "unsent" => spc' \in {"close", "drop"}
      BY <2>3 DEF S!SpeakFails, S!ReadTimesOut, S!Streamed, S!NotCancelled, S!speaker
    <3>2. spc = "stream" => ~complete
      BY DEF SpeakerIsActive
    <3> QED
      BY <2>1, <1>2, <3>1, <3>2 DEF WorkerIsEmpty, Empty
  <2> QED
    BY <2>2, <2>3, <2>4
<1>5. S!OutputIsItsOwn'
  BY <1>2 DEF FlowInv, S!OutputIsItsOwn
<1> QED
  BY <1>1, <1>2, <1>3, <1>4, <1>5 DEF FlowInv, SpeechTypes, S!Speak

(* ... a new worker has empty pipes, whatever the last one was left with, ... *)
LEMMA FlowStart ==
  ASSUME SpeechTypes, SpeakerIsActive, S!StartWorker
  PROVE  FlowInv'
<1>1. /\ stdin' = <<>> /\ stdout' = <<>> /\ stderr' = <<>> /\ ctrlQ' = <<>> /\ working' = 0
      /\ readers' = {} /\ drain' = 0 /\ taken' = <<0, 0>> /\ spc' = "send"
      /\ UNCHANGED <<req, clean, complete>> /\ spc = "worker"
  BY DEF S!StartWorker, S!NewPipes
<1>2. 0 \notin clean /\ 0 \in 0 .. Requests
  BY DEF SpeechTypes
<1>3. Flow(0)'
  BY <1>1, <1>2 DEF Flow
<1>4. WorkerIsEmpty'
  BY <1>1 DEF WorkerIsEmpty, Empty
<1>5. S!OutputIsItsOwn'
  BY <1>1 DEF S!OutputIsItsOwn
<1> QED
  BY <1>1, <1>2, <1>3, <1>4, <1>5 DEF FlowInv, SpeechTypes

(* ... and a text goes to empty pipes only.                                 *)
LEMMA FlowSend ==
  ASSUME SpeechTypes, SpeakerIsActive, FlowInv, ~spared, S!Send
  PROVE  FlowInv'
<1>1. Empty /\ drain = 0 /\ spc = "send" /\ S!OutputIsItsOwn
  BY DEF FlowInv, WorkerIsEmpty, S!Send
<1>2. /\ stdin' = <<req>> /\ ctrlQ' = <<>> /\ readers' = {req} /\ spc' = "stream"
      /\ UNCHANGED <<req, working, stdout, stderr, clean, drain, taken, spared>>
  BY <1>1 DEF S!Send, S!history, Empty
<1>3. req \in 0 .. Requests /\ req \notin clean
  BY <1>1 DEF SpeechTypes, SpeakerIsActive
<1>4. Flow(req)'
  BY <1>1, <1>2, <1>3 DEF Flow, Empty
<1>5. WorkerIsEmpty'
  BY <1>1, <1>2 DEF WorkerIsEmpty
<1>6. S!OutputIsItsOwn'
  BY <1>1, <1>2 DEF S!OutputIsItsOwn
<1> QED
  BY <1>2, <1>3, <1>4, <1>5, <1>6 DEF FlowInv, SpeechTypes

(* speak() takes the line of its own request, or gives up.                  *)
LEMMA FlowLine ==
  ASSUME SpeechTypes, SpeakerIsActive, FlowInv, ~spared, S!GetLine \/ S!NoLine
  PROVE  FlowInv'
<1> USE DEF S!state, S!process, S!lines, S!reading, S!audio, S!history
<1>1. PICK x \in 0 .. Requests : Flow(x)
  BY DEF FlowInv
<1>2. x = req /\ drain = 0 /\ readers = {} /\ (alive => req \in clean) /\ spc = "control"
  BY <1>1 DEF FlowInv, WorkerIsEmpty, Flow, S!GetLine, S!NoLine
<1>3. ctrlQ # <<>> => Head(ctrlQ) = x /\ Tail(ctrlQ) = <<>>
  BY <1>1, OneElement DEF Flow
<1>4. /\ UNCHANGED <<req, alive, working, made, stdin, stdout, stderr, readers, clean, drain, spared>>
      /\ spc' = "finish" /\ ctrlQ' \in {ctrlQ, <<>>}
      /\ taken' = taken \/ taken' = <<req, req>>
  BY <1>2, <1>3 DEF S!GetLine, S!NoLine
<1>5. Flow(x)'
  BY <1>1, <1>2, <1>4 DEF Flow
<1>6. alive /\ complete' => ctrlQ # <<>> /\ ctrlQ' = <<>>
  BY <1>3 DEF S!GetLine, S!NoLine
<1>7. WorkerIsEmpty'
  <2>1. ctrlQ # <<>> => stdin = <<>> /\ working = 0 /\ stderr = <<>>
    BY <1>1, <1>2 DEF Flow, SpeechTypes
  <2>2. alive => stdout = <<>>
    BY <1>1, <1>2 DEF Flow
  <2> QED
    BY <1>2, <1>4, <1>6, <2>1, <2>2 DEF WorkerIsEmpty, Empty
<1>8. S!OutputIsItsOwn'
  BY <1>4 DEF FlowInv, S!OutputIsItsOwn
<1> QED
  BY <1>1, <1>4, <1>5, <1>7, <1>8 DEF FlowInv, SpeechTypes

(* A request ends.  What was sent for a stopped one is drained, one that    *)
(* failed leaves no worker behind to be trusted, or is the exception.       *)
LEMMA FlowEnds ==
  ASSUME SpeechTypes, SpeakerIsActive, FlowInv, ~spared, ~spared',
         S!Cancelled \/ S!Abort \/ S!Close
  PROVE  FlowInv'
<1> USE DEF S!state, S!process, S!lines, S!reading, S!audio, S!history
<1>1. PICK x \in 0 .. Requests : Flow(x)
  BY DEF FlowInv
<1>2. /\ UNCHANGED <<req, working, made, stdin, stdout, stderr, ctrlQ, readers, clean, taken, complete>>
      /\ spc \in {"timeout", "finish", "unsent", "abort", "drop", "close"}
      /\ spc' \in {"idle", "close"} \/ (spc = "timeout" /\ spc' = "finish")
      /\ drain' = drain \/ (spc = "finish" /\ ~complete /\ drain' = req)
      /\ alive' => alive
      /\ restart' = restart \/ restart'
  BY DEF S!Cancelled, S!Drains, S!Abort, S!AbortActive, S!AbortOvertaken, S!Close
<1>3. Flow(x)'
  BY <1>1, <1>2 DEF Flow
<1>4. WorkerIsEmpty'
  <2>1. CASE S!Cancelled \/ S!Close
    <3>1. /\ spc' = "idle" /\ UNCHANGED <<alive, restart>>
          /\ spc = "finish" /\ ~complete => drain' = req
          /\ spc = "finish" \/ spc = "unsent" \/ spc = "close"
      BY <2>1 DEF S!Cancelled, S!Drains, S!Close
    <3>2. req # 0
      BY <3>1 DEF SpeakerIsActive
    <3> QED
      BY <1>2, <3>1, <3>2 DEF FlowInv, WorkerIsEmpty, Empty
  <2>2. CASE S!Abort
    <3>1. spc = "abort" => ~alive' \/ restart'
      BY <2>2 DEF S!Abort, S!AbortActive, S!AbortOvertaken, SpeechTypes
    <3>2. /\ (spc \in {"abort", "drop"} /\ spc' = "close") \/ (spc = "timeout" /\ spc' = "finish")
          /\ drain' = drain
          /\ ~alive' \/ UNCHANGED <<alive, restart>>
      BY <2>2 DEF S!Abort, S!AbortActive, S!AbortOvertaken
    <3> QED
      BY <1>2, <3>1, <3>2 DEF FlowInv, WorkerIsEmpty, Empty, SpeakerIsActive
  <2> QED
    BY <2>1, <2>2
<1>5. S!OutputIsItsOwn'
  BY <1>2 DEF FlowInv, S!OutputIsItsOwn
<1> QED
  BY <1>1, <1>2, <1>3, <1>4, <1>5 DEF FlowInv, SpeechTypes

(* A stop does not touch the pipes, wherever it comes.                      *)
LEMMA FlowStop ==
  ASSUME SpeechTypes, FlowInv, ~spared, S!Stop \/ S!SetStopEvent \/ S!StopClears \/ S!Store
  PROVE  FlowInv'
<1>1. UNCHANGED <<req, spc, complete, alive, restart, working, made, stdin, stdout, stderr, ctrlQ,
                  readers, clean, drain, taken, spared>>
  BY DEF S!Stop, S!SetStopEvent, S!StopClears, S!Store, S!speaker, S!state, S!process, S!lines,
     S!reading, S!history
<1>2. PICK x \in 0 .. Requests : Flow(x)
  BY DEF FlowInv
<1>3. Flow(x)'
  BY <1>1, <1>2 DEF Flow
<1>4. WorkerIsEmpty' /\ S!OutputIsItsOwn'
  BY <1>1 DEF FlowInv, WorkerIsEmpty, Empty, S!OutputIsItsOwn
<1> QED
  BY <1>2, <1>3, <1>4 DEF FlowInv, SpeechTypes

(* The worker takes the one text there is, ...                              *)
LEMMA FlowTake ==
  ASSUME SpeechTypes, FlowInv, ~spared, S!Take \/ S!Die
  PROVE  FlowInv'
<1>1. PICK x \in 0 .. Requests : Flow(x)
  BY DEF FlowInv
<1>2. stdin # <<>> => Head(stdin) = x /\ Tail(stdin) = <<>>
  BY <1>1, OneElement DEF Flow
<1>3. /\ UNCHANGED <<req, spc, complete, restart, stdout, stderr, ctrlQ, readers, clean, drain, taken, spared>>
      /\ \/ stdin # <<>> /\ stdin' = <<>> /\ working' = x /\ alive' = alive /\ alive
         \/ UNCHANGED <<stdin, working, made>> /\ ~alive'
  BY <1>2 DEF S!Take, S!Die, S!speaker, S!state, S!lines, S!reading, S!history
<1>4. Flow(x)'
  BY <1>1, <1>3 DEF Flow
<1>5. WorkerIsEmpty' /\ S!OutputIsItsOwn'
  BY <1>3 DEF FlowInv, WorkerIsEmpty, Empty, S!OutputIsItsOwn
<1> QED
  BY <1>1, <1>3, <1>4, <1>5 DEF FlowInv, SpeechTypes

(* ... adds to the audio until the end mark, ...                            *)
LEMMA FlowMakes ==
  ASSUME SpeechTypes, FlowInv, ~spared, S!MakeChunk \/ S!EndRequest
  PROVE  FlowInv'
<1> USE DEF S!speaker, S!state, S!lines, S!reading, S!history
<1>1. PICK x \in 0 .. Requests : Flow(x)
  BY DEF FlowInv
<1>2. /\ UNCHANGED <<req, spc, complete, alive, restart, stdin, working, stderr, ctrlQ, readers, clean, drain,
                     taken, spared>>
      /\ working # 0
  BY DEF S!MakeChunk, S!EndRequest
<1>3. \/ stdout' = Append(stdout, <<working, "pcm">>) /\ made < Chunks
      \/ stdout' = Append(stdout, <<working, "end">>) /\ made <= Chunks /\ made' = Chunks + 1
  BY DEF S!MakeChunk, S!EndRequest
<1>4. working = x /\ x \in 1 .. Requests /\ ~(made > Chunks)
  BY <1>1, <1>2, <1>3 DEF Flow, SpeechTypes
<1>5. OutputOf(stdout, x) /\ \A i \in 1 .. Len(stdout) : stdout[i][2] # "end"
  BY <1>1, <1>2, <1>4 DEF Flow, OutputOf
<1>6. PICK k \in {"pcm", "end"} : stdout' = Append(stdout, <<x, k>>) /\ (k = "end" => made' = Chunks + 1)
  BY <1>3, <1>4
<1>7. /\ OutputOf(stdout, x)'
      /\ k = "pcm" => \A i \in 1 .. Len(stdout') : stdout'[i][2] # "end"
  BY <1>4, <1>5, <1>6, OutputAppend DEF SpeechTypes
<1>8. Flow(x)'
  <2>1. \A i \in 1 .. Len(stdout') :
          stdout'[i][1] = x /\ (stdout'[i][2] = "end" => i = Len(stdout') /\ (working' # 0 => made' > Chunks))
    <3>1. Chunks + 1 > Chunks
      BY DEF SpeechTypes
    <3> QED
      BY <1>6, <1>7, <3>1 DEF OutputOf
  <2>2. x \notin clean /\ stdin = <<>> /\ stderr = <<>> /\ ctrlQ = <<>>
    BY <1>1, <1>2, <1>4 DEF Flow
  <2> QED
    BY <1>1, <1>2, <2>1, <2>2 DEF Flow
<1>9. WorkerIsEmpty' /\ S!OutputIsItsOwn'
  BY <1>2 DEF FlowInv, WorkerIsEmpty, Empty, S!OutputIsItsOwn
<1> QED
  BY <1>1, <1>2, <1>8, <1>9 DEF FlowInv, SpeechTypes

(* ... and writes the line after it; the line is read.                      *)
LEMMA FlowReport ==
  ASSUME SpeechTypes, FlowInv, ~spared, S!ReportDone \/ S!ReadLine
  PROVE  FlowInv'
<1> USE DEF S!speaker, S!state, S!process, S!reading, S!history
<1>1. PICK x \in 0 .. Requests : Flow(x)
  BY DEF FlowInv
<1>2. UNCHANGED <<req, spc, complete, alive, restart, stdin, stdout, readers, clean, drain, taken, spared>>
  BY DEF S!ReportDone, S!ReadLine
<1>3. CASE S!ReportDone
  <2>1. working = x /\ working # 0 /\ stdin = <<>> /\ stderr = <<>> /\ ctrlQ = <<>>
    BY <1>1, <1>3 DEF Flow, S!ReportDone
  <2>2. stderr' = <<x>> /\ ctrlQ' = <<>> /\ working' = 0
    BY <1>3, <2>1, OneElement DEF S!ReportDone
  <2>3. Flow(x)'
    BY <1>1, <1>2, <2>1, <2>2 DEF Flow
  <2>4. WorkerIsEmpty'
    BY <1>2, <2>1 DEF FlowInv, WorkerIsEmpty, Empty
  <2> QED
    BY <1>1, <1>2, <2>3, <2>4 DEF FlowInv, SpeechTypes, S!OutputIsItsOwn
<1>4. CASE S!ReadLine
  <2>1. stderr # <<>> /\ stderr = <<x>> /\ ctrlQ = <<>> /\ working = 0 /\ stdin = <<>>
    BY <1>1, <1>4 DEF Flow, S!ReadLine, SpeechTypes
  <2>2. stderr' = <<>> /\ ctrlQ' = <<x>> /\ UNCHANGED <<working, made>>
    BY <1>4, <2>1, OneElement DEF S!ReadLine
  <2>3. Flow(x)'
    BY <1>1, <1>2, <2>1, <2>2 DEF Flow
  <2>4. WorkerIsEmpty'
    BY <1>2, <2>1 DEF FlowInv, WorkerIsEmpty, Empty
  <2> QED
    BY <1>1, <1>2, <2>3, <2>4 DEF FlowInv, SpeechTypes, S!OutputIsItsOwn
<1> QED
  BY <1>3, <1>4

(* The reader takes the audio of its own request, and ends.                 *)
LEMMA FlowRead ==
  ASSUME SpeechTypes, FlowInv, ~spared, NEW r \in readers, S!Read(r) \/ S!ReadEnds(r)
  PROVE  FlowInv'
<1> USE DEF S!speaker, S!state, S!process, S!lines, S!history
<1>1. PICK x \in 0 .. Requests : Flow(x)
  BY DEF FlowInv
<1>2. r = x /\ readers = {x}
  BY <1>1 DEF Flow
<1>3. UNCHANGED <<req, spc, complete, alive, restart, stdin, working, made, stderr, ctrlQ, drain, spared>>
  BY DEF S!Read, S!ReadEnds
<1>4. CASE S!Read(r)
  <2>1. stdout # <<>> /\ stdout' = Tail(stdout) /\ taken' = <<Head(stdout)[1], r>>
    BY <1>4 DEF S!Read
  <2>2. OutputOf(stdout, x) /\ stdout \in Seq(Output)
    BY <1>1 DEF Flow, OutputOf, SpeechTypes
  <2>3. /\ OutputOf(Tail(stdout), x) /\ Head(stdout)[1] = x
        /\ Head(stdout)[2] = "end" => Tail(stdout) = <<>>
    BY <2>1, <2>2, OutputTail
  <2>4. CASE Head(stdout)[2] = "end"
    <3>1. stdout[1][2] = "end" /\ 1 \in 1 .. Len(stdout)
      <4>1. Len(stdout) \in Nat \ {0} /\ Head(stdout) = stdout[1]
        BY <2>1, <2>2, EmptySeq
      <4> QED
        BY <2>4, <4>1
    <3>2. stdin = <<>> /\ (working # 0 => made > Chunks)
      BY <1>1, <2>1, <3>1 DEF Flow
    <3>3. stdout' = <<>> /\ readers' = {} /\ clean' = clean \cup {x}
      BY <1>2, <1>4, <2>1, <2>3, <2>4 DEF S!Read
    <3>4. Len(stdout') = 0
      BY <3>3
    <3>5. Flow(x)'
      BY <1>1, <1>3, <3>2, <3>3, <3>4 DEF Flow
    <3>6. WorkerIsEmpty'
      <4>1. spc \in {"stream", "timeout", "control", "finish"} => x = req
        BY <1>1 DEF Flow
      <4> QED
        BY <1>2, <1>3, <3>3, <4>1 DEF FlowInv, WorkerIsEmpty, Empty
    <3> QED
      BY <1>1, <1>2, <1>3, <2>1, <2>3, <3>5, <3>6 DEF FlowInv, SpeechTypes, S!OutputIsItsOwn
  <2>5. CASE Head(stdout)[2] # "end"
    <3>1. UNCHANGED <<readers, clean>>
      BY <1>4, <2>5 DEF S!Read, S!reading
    <3>2. \A i \in 1 .. Len(stdout') :
            /\ stdout'[i][1] = x
            /\ stdout'[i][2] = "end" => i = Len(stdout') /\ (working # 0 => made > Chunks)
      <4>1. \A i \in 1 .. Len(stdout') :
              stdout'[i][1] = x /\ (stdout'[i][2] = "end" => i = Len(stdout'))
        BY <2>1, <2>3 DEF OutputOf
      <4>2. \A i \in 1 .. Len(stdout') : i + 1 \in 1 .. Len(stdout) /\ stdout'[i] = stdout[i + 1]
        <5>1. Len(stdout) \in Nat /\ Len(Tail(stdout)) = Len(stdout) - 1
              /\ \A i \in 1 .. Len(Tail(stdout)) : Tail(stdout)[i] = stdout[i + 1]
          BY <2>1, <2>2, HeadTailProperties, LenProperties
        <5> QED
          BY <2>1, <5>1
      <4> QED
        BY <1>1, <4>1, <4>2 DEF Flow
    <3>3. Flow(x)'
      BY <1>1, <1>2, <1>3, <2>1, <3>1, <3>2 DEF Flow
    <3>4. WorkerIsEmpty'
      BY <1>2, <1>3, <3>1 DEF FlowInv, WorkerIsEmpty, Empty
    <3> QED
      BY <1>1, <1>2, <1>3, <2>1, <2>3, <3>3, <3>4 DEF FlowInv, SpeechTypes, S!OutputIsItsOwn
  <2> QED
    BY <2>4, <2>5
<1>5. CASE S!ReadEnds(r)
  <2>1. readers' = {} /\ ~alive /\ UNCHANGED <<stdout, clean, taken>>
    BY <1>2, <1>5 DEF S!ReadEnds
  <2>2. Flow(x)'
    BY <1>1, <1>3, <2>1 DEF Flow
  <2>3. WorkerIsEmpty'
    BY <1>2, <1>3, <2>1 DEF FlowInv, WorkerIsEmpty, Empty
  <2> QED
    BY <1>1, <1>3, <2>1, <2>2, <2>3 DEF FlowInv, SpeechTypes, S!OutputIsItsOwn
<1> QED
  BY <1>4, <1>5

(* The drain takes the line of the request it drains.                       *)
LEMMA FlowDrain ==
  ASSUME SpeechTypes, FlowInv, ~spared, S!DrainEnds \/ S!DrainFails
  PROVE  FlowInv'
<1> USE DEF S!speaker, S!state, S!process, S!lines, S!reading, S!history
<1>1. PICK x \in 0 .. Requests : Flow(x)
  BY DEF FlowInv
<1>2. /\ UNCHANGED <<req, spc, complete, alive, stdin, stdout, working, made, stderr, readers, clean, spared>>
      /\ drain # 0 /\ drain = x /\ drain' = 0
  BY <1>1 DEF Flow, S!DrainEnds, S!DrainFails
<1>3. ctrlQ # <<>> => Head(ctrlQ) = x /\ Tail(ctrlQ) = <<>>
  BY <1>1, OneElement DEF Flow
<1>4. CASE S!DrainEnds
  <2>1. /\ ctrlQ # <<>> /\ ctrlQ' = <<>> /\ restart' = restart /\ taken' = <<x, x>>
        /\ readers = {} /\ stdin = <<>> /\ stdout = <<>> /\ stderr = <<>> /\ working = 0
    BY <1>1, <1>2, <1>3, <1>4 DEF Flow, S!DrainEnds, SpeechTypes
  <2>2. Flow(x)'
    BY <1>1, <1>2, <2>1 DEF Flow
  <2>3. WorkerIsEmpty'
    BY <1>2, <2>1 DEF FlowInv, WorkerIsEmpty, Empty
  <2> QED
    BY <1>1, <1>2, <2>1, <2>2, <2>3 DEF FlowInv, SpeechTypes, S!OutputIsItsOwn
<1>5. CASE S!DrainFails
  <2>1. restart' = TRUE /\ UNCHANGED <<ctrlQ, taken>>
    BY <1>5 DEF S!DrainFails
  <2>2. Flow(x)'
    BY <1>1, <1>2, <2>1 DEF Flow
  <2>3. WorkerIsEmpty'
    BY <1>2, <2>1 DEF FlowInv, WorkerIsEmpty, Empty
  <2> QED
    BY <1>1, <1>2, <2>1, <2>2, <2>3 DEF FlowInv, SpeechTypes, S!OutputIsItsOwn
<1> QED
  BY <1>4, <1>5

(* The inductive step of the whole: a worker that was spared stays so until *)
(* it is replaced.                                                          *)
LEMMA FlowStep ==
  ASSUME SpeechTypes, SpeakerIsActive, FlowInv, S!Next
  PROVE  FlowInv'
<1>1. CASE S!StartWorker
  BY <1>1, FlowStart
<1>2. CASE ~S!StartWorker
  <2>1. SUFFICES ASSUME ~spared' PROVE FlowInv'
    BY DEF FlowInv
  <2>2. ~spared
    <3>1. S!Speaker => spared' \/ ~spared
      BY <1>2, <2>1 DEF S!Speaker, S!Speak, S!ClearAudio, S!DrainTimesOut, S!Drained, S!KeepWorker,
         S!NotSent, S!Send, S!SpeakFails, S!ReadTimesOut, S!Streamed, S!GetLine, S!NoLine, S!Cancelled,
         S!NotCancelled, S!Abort, S!AbortActive, S!AbortOvertaken, S!Close, S!history, SpeechTypes
    <3>2. S!Worker \/ S!Background => spared' = spared
      BY DEF S!Worker, S!Background, S!Take, S!MakeChunk, S!EndRequest, S!ReportDone, S!Die, S!Stop,
         S!SetStopEvent, S!StopClears, S!Store, S!ReadLine, S!Read, S!ReadEnds, S!DrainEnds,
         S!DrainFails, S!history
    <3> QED
      BY <2>1, <3>1, <3>2 DEF S!Next
  <2> QED
    BY <1>2, <2>1, <2>2, FlowGoesOn, FlowSend, FlowLine, FlowEnds, FlowStop, FlowTake, FlowMakes,
       FlowReport, FlowRead, FlowDrain DEF S!Next, S!Speaker, S!Worker, S!Background
<1> QED
  BY <1>1, <1>2

SpeechInv == SpeechTypes /\ SpeakerIsActive /\ FlowInv

LEMMA SpeechNext == SpeechInv /\ [S!Next]_speech => SpeechInv'
<1> SUFFICES ASSUME SpeechInv, [S!Next]_speech PROVE SpeechInv'
  OBVIOUS
<1>1. CASE S!Next
  BY <1>1, SpeechTypesStep, SpeakerStep, FlowStep DEF SpeechInv
<1>2. CASE UNCHANGED speech
  <2>1. SpeechTypes' /\ SpeakerIsActive'
    BY <1>2 DEF speech, SpeechInv, SpeechTypes, SpeakerIsActive, S!BufferIsCurrent
  <2>2. FlowInv'
    BY <1>2 DEF speech, SpeechInv, FlowInv, Flow, WorkerIsEmpty, Empty, S!OutputIsItsOwn
  <2> QED
    BY <2>1, <2>2 DEF SpeechInv
<1> QED
  BY <1>1, <1>2

(* What moves CosyVoice is CosyVoice.                                       *)
LEMMA SpeechSpec == Parts => S!Init /\ [][S!Next]_speech
<1>1. Start => S!Init
  BY DEF Start
<1>2. [Moved /\ UNCHANGED part]_all => [S!Next]_speech
  BY DEF Moved, all, speech
<1> QED
  BY <1>1, <1>2, PTL DEF Parts

(* OutputIsItsOwn (TLC: voice): neither the audio in the pipe nor the DONE  *)
(* and ERROR lines say which request they belong to, yet each is read for   *)
(* the request it was made for, and the buffer of the active request holds  *)
(* no audio another reader stored; for any number of requests, chunks,      *)
(* restarts and stops, the drains of stopped requests included.  The        *)
(* property names the one exception, a worker that _abort_request() spared. *)
THEOREM OwnOutput == Parts => []OutputIsItsOwn
<1>1. SpeechInv => OutputIsItsOwn
  BY SpeechTyped DEF SpeechInv, SpeakerIsActive, FlowInv, S!OutputIsItsOwn, OutputIsItsOwn
<1>2. S!Init => SpeechInv
  BY SpeechInit DEF SpeechInv
<1> QED
  BY <1>1, <1>2, SpeechNext, SpeechSpec, PTL

=============================================================================

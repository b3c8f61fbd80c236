------------------------------ MODULE MCVoice ------------------------------
(* Small instances of VoiceActivation (two holders of push-to-talk), of     *)
(* CosyVoice (three requests of one chunk, two restarts) and of            *)
(* AssistantTurn, which share nothing, for one run of TLC: the initial      *)
(* state chooses the one that moves, the others stand still.                *)
EXTENDS Naturals, Sequences, VoiceActivation

VARIABLES
  part,                                                \* the component that moves
  req, spc, speaking, stopped, complete, alive, restart, worker, stdin, working,
  made, stdout, stderr, ctrlQ, readers, clean, drain, pcmLock, buffer, clearing,
  taken, spared,                                                                \* CosyVoice
  place, out, saved, tts, lock, cancelled, activeCancel, ack, tools, saying, heard  \* AssistantTurn

CONSTANTS Requests, Chunks, Restarts, Voice, Text, MaxTools

S == INSTANCE CosyVoice WITH pc <- spc, active <- speaking
T == INSTANCE AssistantTurn WITH pc <- place

ASSUME VoiceAssumption ==
  /\ {Requests, Chunks, Restarts, MaxTools} \subseteq Nat
  /\ T!Nobody \notin Voice \cup Text

speech == <<req, spc, speaking, stopped, complete, alive, restart, worker, stdin, working,
            made, stdout, stderr, ctrlQ, readers, clean, drain, pcmLock, buffer, clearing,
            taken, spared>>

turns == <<place, out, saved, tts, lock, cancelled, activeCancel, ack, tools, saying, heard>>
all == <<part, vars, speech, turns>>

Start ==
  /\ part \in {"in", "out", "turn"}
  /\ Init /\ S!Init /\ T!Init
  /\ part # "in" => mic /\ wakeWord

Moved ==
  \/ part = "in" /\ Next /\ UNCHANGED <<speech, turns>>
  \/ part = "out" /\ S!Next /\ UNCHANGED <<vars, turns>>
  \/ part = "turn" /\ T!Next /\ UNCHANGED <<vars, speech>>

Parts ==
  /\ Start /\ [][Moved /\ UNCHANGED part]_all
  /\ WF_vars(part = "in" /\ Thread)
  /\ WF_vars(part = "in" /\ (RequestListening \/ RefreshSettings \/ StopWakes))

(* CosyVoice: what is read, and what is in the buffer, belongs to the      *)
(* request it is for.                                                       *)
OutputIsItsOwn == S!TypeOK /\ S!OutputIsItsOwn /\ S!BufferIsCurrent

(* AssistantTurn: a request gives back the speech channel it replaced. *)
ChannelIsRestored == T!TypeOK /\ T!ChannelIsRestored

(* AssistantTurn: stop_speaking() cancels the request that is running. *)
CancelHitsTheRunning == T!CancelHitsTheRunning
=============================================================================

--------------------------- MODULE AssistantTurn ---------------------------
(***************************************************************************)
(* One request to the assistant (commands/ai_command.py, _run_interaction) *)
(* against the requests that run beside it: voice commands on the command  *)
(* thread, typed ones on a thread of the text window, stop_speaking() from *)
(* any thread, and the timer of the instant acknowledgement                *)
(* (agent/instant_ack.py).                                                 *)
(*                                                                         *)
(* A channel is what a message is given to: the speech output, the list a  *)
(* typed request collects its reply in, or the emit_output of a running    *)
(* request, which tts_wrapper is while that request runs.  The language    *)
(* model and the tools are choices between their outcomes.                 *)
(***************************************************************************)
EXTENDS Naturals, FiniteSets

CONSTANTS Voice,      \* requests by voice
          Text,       \* requests typed into the text window
          MaxTools    \* tool calls of one answer, at most

Turn == Voice \cup Text
Nobody == "nobody"

VARIABLES
  pc,            \* request -> where it is
  out,           \* request -> its output_callback
  saved,         \* request -> original_tts
  tts,           \* tts_wrapper of the command, executor and orchestrator
  lock,          \* holder of _exec_lock
  cancelled,     \* request -> cancel_event is set
  activeCancel,  \* the request of _active_response_cancel
  ack,           \* request -> its InstantAckTimer
  tools,         \* request -> tool calls still to run
  saying,        \* requests whose message has passed the check of emit_output
  heard          \* whose message arrived last, and where

turnState == <<out, saved, tools>>
shared == <<tts, lock, activeCancel>>
vars == <<pc, turnState, shared, cancelled, ack, saying, heard>>

Speaker == <<"speaker">>
Lost == <<"lost">>
Screen(t) == <<"screen", t>>
Emit(t) == <<"emit", t>>
Channel == {Speaker} \cup {Screen(t) : t \in Text} \cup {Emit(t) : t \in Turn}

Init ==
  /\ pc = [t \in Turn |-> "new"]
  /\ out = [t \in Turn |-> Speaker] /\ saved = [t \in Turn |-> Speaker]
  /\ tts = Speaker /\ lock = Nobody /\ activeCancel = Nobody
  /\ cancelled = [t \in Turn |-> FALSE] /\ ack = [t \in Turn |-> "none"]
  /\ tools = [t \in Turn |-> 0] /\ saying = {}
  /\ heard = <<Nobody, Lost>>

Goto(t, place) == pc' = [pc EXCEPT ![t] = place]

\* Where a message given to channel c arrives.  emit_output drops it when its
\* request is cancelled; a reply that was returned collects nothing more.
Through(c) ==
  CASE c[1] = "emit"   -> IF cancelled[c[2]] THEN Lost ELSE out[c[2]]
    [] c[1] = "screen" -> IF pc[c[2]] = "done" THEN Lost ELSE c
    [] OTHER           -> c
Deliver(t, c) == heard' = <<t, Through(Through(Through(c)))>>

-----------------------------------------------------------------------------
(* Asking. *)

\* execute() reads tts_wrapper before anything is locked; run_interaction()
\* collects.  The command thread runs one voice command at a time.
Ask(t) ==
  /\ pc[t] = "new"
  /\ t \in Voice => \A v \in Voice : pc[v] \in {"new", "done"}
  /\ out' = [out EXCEPT ![t] = IF t \in Voice THEN tts ELSE Screen(t)]
  /\ Goto(t, "asked")
  /\ UNCHANGED <<saved, tools, shared, cancelled, ack, saying, heard>>

\* "stop": neither takes the lock nor waits for it.
Interrupt(t) ==
  /\ pc[t] = "asked"
  /\ Deliver(t, out[t])
  /\ Goto(t, "done")
  /\ UNCHANGED <<turnState, shared, cancelled, ack, saying>>

\* "continue": the resumed run speaks through whatever channel is set.
Resume(t) ==
  /\ pc[t] = "asked"
  /\ Deliver("run", tts)
  /\ Goto(t, "resumed")
  /\ UNCHANGED <<turnState, shared, cancelled, ack, saying>>

ResumeEnds(t) ==
  /\ pc[t] = "resumed"
  /\ Deliver(t, out[t])
  /\ Goto(t, "done")
  /\ UNCHANGED <<turnState, shared, cancelled, ack, saying>>

\* The lock is taken: a notice, at most one every five seconds, and no answer.
Busy(t) ==
  /\ pc[t] = "asked" /\ lock # Nobody
  /\ Deliver(t, out[t]) \/ UNCHANGED heard
  /\ Goto(t, "done")
  /\ UNCHANGED <<turnState, shared, cancelled, ack, saying>>

Acquire(t) ==
  /\ pc[t] = "asked" /\ lock = Nobody
  /\ lock' = t
  /\ Goto(t, "locked")
  /\ UNCHANGED <<turnState, tts, activeCancel, cancelled, ack, saying, heard>>

Register(t) ==
  /\ pc[t] = "locked"
  /\ activeCancel' = t
  /\ Goto(t, "swap")
  /\ UNCHANGED <<turnState, tts, lock, cancelled, ack, saying, heard>>

Swap(t) ==
  /\ pc[t] = "swap"
  /\ saved' = [saved EXCEPT ![t] = tts]
  /\ tts' = Emit(t)
  /\ Goto(t, "started")
  /\ UNCHANGED <<out, tools, lock, activeCancel, cancelled, ack, saying, heard>>

-----------------------------------------------------------------------------
(* Answering. *)

\* The fast path answers without the language model; else the model is asked,
\* with or without an acknowledgement timer.
FastPath(t) ==
  /\ pc[t] = "started"
  /\ Goto(t, "answer")
  /\ UNCHANGED <<turnState, shared, cancelled, ack, saying, heard>>

StartAck(t) ==
  /\ pc[t] = "started"
  /\ ack' \in {ack} \cup IF cancelled[t] THEN {} ELSE {[ack EXCEPT ![t] = "armed"]}
  /\ Goto(t, "think")
  /\ UNCHANGED <<turnState, shared, cancelled, saying, heard>>

Finished(t) == [ack EXCEPT ![t] = IF @ = "armed" THEN "none" ELSE @]

\* A streamed chunk, or the whole answer: first_response() stops the timer.
Respond(t) ==
  /\ pc[t] = "think"
  /\ ack' = Finished(t)
  /\ \E n \in 0..MaxTools :
       IF n > 0 /\ ~cancelled[t]
       THEN tools' = [tools EXCEPT ![t] = n] /\ pc' \in {[pc EXCEPT ![t] = p] : p \in {"preface", "tool"}}
       ELSE Goto(t, "answer") /\ UNCHANGED tools
  /\ UNCHANGED <<out, saved, shared, cancelled, saying, heard>>

\* emit_output(): the check, then the callback.
Say(t) ==
  /\ pc[t] \in {"preface", "answer", "report"} /\ t \notin saying
  /\ ~cancelled[t]
  /\ saying' = saying \cup {t}
  /\ UNCHANGED <<pc, turnState, shared, cancelled, ack, heard>>

AfterSaying(t) == Goto(t, IF pc[t] = "answer" THEN "restore" ELSE "tool")

Said(t) ==
  /\ t \in saying
  /\ Deliver(t, out[t])
  /\ saying' = saying \ {t}
  /\ AfterSaying(t)
  /\ UNCHANGED <<turnState, shared, cancelled, ack>>

SayNothing(t) ==
  /\ pc[t] \in {"preface", "answer", "report"} /\ t \notin saying
  /\ cancelled[t]
  /\ AfterSaying(t)
  /\ UNCHANGED <<turnState, shared, cancelled, ack, saying, heard>>

\* A tool may speak (a run_agent_task does); a cancelled request still runs the
\* tools it has begun.
RunTool(t) ==
  /\ pc[t] = "tool" /\ tools[t] > 0
  /\ tools' = [tools EXCEPT ![t] = @ - 1]
  /\ pc' \in {pc, [pc EXCEPT ![t] = "report"]}
  /\ UNCHANGED <<out, saved, shared, cancelled, ack, saying, heard>>

ToolsDone(t) ==
  /\ pc[t] = "tool" /\ tools[t] = 0
  /\ Goto(t, "answer")
  /\ UNCHANGED <<turnState, shared, cancelled, ack, saying, heard>>

\* Any exception is caught, and said through tts_wrapper.
Error(t) ==
  /\ pc[t] \in {"started", "think", "tool"}
  /\ Deliver(t, tts)
  /\ Goto(t, "restore")
  /\ UNCHANGED <<turnState, shared, cancelled, ack, saying>>

-----------------------------------------------------------------------------
(* The finally clause. *)

KeptIfCancelled(t) == IF cancelled[t] THEN tts ELSE saved[t]  \* mutant: an early return
Original(t) == saved[t]

Restore(t) ==
  /\ pc[t] = "restore"
  /\ ack' = Finished(t)
  /\ tts' = Original(t)
  /\ Goto(t, "unregister")
  /\ UNCHANGED <<turnState, lock, activeCancel, cancelled, saying, heard>>

StillRegistered(t) == activeCancel  \* mutant: the event is not taken back
Unregistered(t) == IF activeCancel = t THEN Nobody ELSE activeCancel

Unregister(t) ==
  /\ pc[t] = "unregister"
  /\ activeCancel' = Unregistered(t)
  /\ Goto(t, "release")
  /\ UNCHANGED <<turnState, tts, lock, cancelled, ack, saying, heard>>

Unlock(t) ==
  /\ pc[t] = "release"
  /\ lock' = Nobody
  /\ Goto(t, "done")
  /\ UNCHANGED <<turnState, tts, activeCancel, cancelled, ack, saying, heard>>

-----------------------------------------------------------------------------
(* Other threads. *)

\* cancel_current_response(), by stop_speaking().
Cancel ==
  /\ activeCancel # Nobody
  /\ cancelled' = [cancelled EXCEPT ![activeCancel] = TRUE]
  /\ ack' = Finished(activeCancel)
  /\ UNCHANGED <<pc, turnState, shared, saying, heard>>

\* The timer: _fire() under its own lock, then the callback.
AckFires(t) ==
  /\ ack[t] = "armed"
  /\ ack' = [ack EXCEPT ![t] = "fired"]
  /\ UNCHANGED <<pc, turnState, shared, cancelled, saying, heard>>

MayAck(t) == ~cancelled[t] /\ activeCancel = t

AckSays(t) ==
  /\ ack[t] = "fired"
  /\ MayAck(t)
  /\ ack' = [ack EXCEPT ![t] = "none"]
  /\ UNCHANGED <<pc, turnState, shared, cancelled, saying, heard>>

AckIsSilent(t) ==
  /\ ack[t] = "fired"
  /\ ~MayAck(t)
  /\ ack' = [ack EXCEPT ![t] = "none"]
  /\ UNCHANGED <<pc, turnState, shared, cancelled, saying, heard>>

-----------------------------------------------------------------------------
Step(t) == \/ Interrupt(t) \/ Resume(t) \/ ResumeEnds(t) \/ Busy(t) \/ Acquire(t)
           \/ Register(t) \/ Swap(t) \/ FastPath(t) \/ StartAck(t) \/ Respond(t)
           \/ Say(t) \/ Said(t) \/ SayNothing(t) \/ RunTool(t) \/ ToolsDone(t)
           \/ Error(t) \/ Restore(t) \/ Unregister(t) \/ Unlock(t)

Next == \/ Cancel
        \/ \E t \in Turn : Ask(t) \/ Step(t) \/ AckFires(t) \/ AckSays(t) \/ AckIsSilent(t)

Spec == Init /\ [][Next]_vars

-----------------------------------------------------------------------------
(* Properties *)

Places == {"new", "asked", "resumed", "locked", "swap", "started", "think", "preface",
           "answer", "tool", "report", "restore", "unregister", "release", "done"}
Holding == {"locked", "swap", "started", "think", "preface", "answer", "tool", "report",
            "restore", "unregister", "release"}
Swapped == {"started", "think", "preface", "answer", "tool", "report", "restore"}

TypeOK ==
  /\ pc \in [Turn -> Places] /\ out \in [Turn -> Channel] /\ saved \in [Turn -> Channel]
  /\ tts \in Channel /\ lock \in Turn \cup {Nobody} /\ activeCancel \in Turn \cup {Nobody}
  /\ cancelled \in [Turn -> BOOLEAN]
  /\ ack \in [Turn -> {"none", "armed", "fired"}]
  /\ tools \in [Turn -> 0..MaxTools] /\ saying \subseteq Turn

\* However a request ends - answered, cancelled or by an exception - the speech
\* channel it replaced is the original one again when the next may start, and
\* while it runs no other request has replaced it.
ChannelIsRestored ==
  tts = IF lock # Nobody /\ pc[lock] \in Swapped THEN Emit(lock) ELSE Speaker

\* stop_speaking() stops the request that is running, never one that ended or
\* the one that starts next.
CancelHitsTheRunning == [][Cancel => lock = activeCancel]_vars

\* run_interaction() documents its result as the reply to the text it was
\* given: nothing another request said is part of it.
ReplyIsItsOwn == \A t \in Text : heard[2] = Screen(t) => heard[1] \in {t, "run"}
=============================================================================

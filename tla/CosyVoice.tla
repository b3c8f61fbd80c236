----------------------------- MODULE CosyVoice -----------------------------
(***************************************************************************)
(* Speech by the CosyVoice worker process (tts/cosyvoice_tts.py and the    *)
(* request loop of cosyvoice_worker.py).                                   *)
(*                                                                         *)
(* A request is written to the worker's stdin; its audio comes back on     *)
(* stdout, closed by an end mark, and one DONE or ERROR line on stderr.    *)
(* Neither says which request it belongs to.  A stopped request leaves the *)
(* worker running: a background thread drains what is still to come, or    *)
(* asks for a restart.  Requests are numbered as in the code; the worker   *)
(* that a restart replaces is dead, and its pipes are gone with it.        *)
(* Abstraction: frames are read whole, also when two readers share a pipe. *)
(***************************************************************************)
EXTENDS Naturals, Sequences

CONSTANTS Requests,   \* bound on _request_id
          Chunks,     \* bound on the audio chunks of one request
          Restarts    \* bound on worker restarts

VARIABLES
  req,        \* _request_id
  pc,         \* where the holder of _speak_lock is
  active,     \* _active_request_id, or 0
  stopped,    \* requests whose stop_event is set
  complete,   \* worker_complete
  alive,      \* the worker runs
  restart,    \* _restart_required
  worker,     \* number of the worker, to bound restarts
  stdin,      \* requests the worker has still to take
  working,    \* the request it synthesises, or 0
  made,       \* chunks it has made of it
  stdout,     \* its audio, unread
  stderr,     \* the requests of its DONE and ERROR lines, unread
  ctrlQ,      \* _ctrl_q: those that were read
  readers,    \* the requests whose pipe_reader reads from this worker
  clean,      \* the requests whose reader_state says that the end mark was read
  drain,      \* the request being drained, or 0
  pcmLock,    \* the request whose pipe_reader holds _pcm_lock, or 0
  buffer,     \* the requests whose audio is in _pcm_buffer
  clearing,   \* a stop() or watcher that has still to clear the buffer
  taken,      \* <<what was read, for which request>>, the latest from this worker
  spared      \* history: _abort_request() let this worker live with output to come

speaker == <<req, pc, complete>>
state == <<active, stopped>>
process == <<alive, restart, worker, stdin, working, made>>
lines == <<stderr, ctrlQ>>
reading == <<readers, clean>>
audio == <<pcmLock, buffer, clearing>>
history == <<taken, spared>>
vars == <<speaker, state, process, stdout, lines, reading, drain, audio, history>>

Init ==
  /\ req = 0 /\ pc = "idle" /\ active = 0 /\ stopped = {} /\ complete = FALSE
  /\ alive = TRUE /\ restart = FALSE /\ worker = 0
  /\ stdin = <<>> /\ working = 0 /\ made = 0
  /\ stdout = <<>> /\ stderr = <<>> /\ ctrlQ = <<>>
  /\ readers = {} /\ clean = {} /\ drain = 0
  /\ pcmLock = 0 /\ buffer = {} /\ clearing = 0
  /\ taken = <<0, 0>> /\ spared = FALSE

-----------------------------------------------------------------------------
(* speak(). *)

Speak ==
  /\ pc = "idle" /\ req < Requests
  /\ req' = req + 1 /\ active' = req + 1
  /\ complete' = FALSE
  /\ pc' = "clear"
  /\ UNCHANGED <<stopped, process, stdout, lines, reading, drain, audio, history>>

\* _clear_pcm_state() waits for _pcm_lock.
ClearAudio ==
  /\ pc = "clear" /\ pcmLock = 0
  /\ buffer' = {}
  /\ pc' = "ensure"
  /\ UNCHANGED <<req, complete, state, process, stdout, lines, reading, drain, pcmLock, clearing, history>>

\* _wait_for_pending_drain(): the drain ends, or its deadline passes.
DrainTimesOut ==
  /\ pc = "ensure" /\ drain # 0
  /\ restart' = TRUE
  /\ pc' = "worker"
  /\ UNCHANGED <<req, complete, state, alive, worker, stdin, working, made, stdout, lines, reading, drain, audio, history>>

Drained ==
  /\ pc = "ensure" /\ drain = 0
  /\ pc' = "worker"
  /\ UNCHANGED <<req, complete, state, process, stdout, lines, reading, drain, audio, history>>

\* _ensure_worker(): a worker that is dead, or not to be trusted, is replaced.
KeepWorker ==
  /\ pc = "worker" /\ req \notin stopped
  /\ alive /\ ~restart
  /\ pc' = "send"
  /\ UNCHANGED <<req, complete, state, process, stdout, lines, reading, drain, audio, history>>

NewPipes == stdin' = <<>> /\ working' = 0 /\ made' = 0 /\ stdout' = <<>> /\ stderr' = <<>> /\ ctrlQ' = <<>>

StartWorker ==
  /\ pc = "worker" /\ req \notin stopped
  /\ ~alive \/ restart
  /\ worker < Restarts
  /\ NewPipes
  /\ alive' = TRUE /\ restart' = FALSE /\ worker' = worker + 1
  /\ readers' = {} /\ drain' = 0
  /\ taken' = <<0, 0>> /\ spared' = FALSE
  /\ pc' = "send"
  /\ UNCHANGED <<req, complete, state, clean, audio>>

\* The stop came before anything was sent, or the worker does not get ready.
NotSent ==
  /\ \/ pc \in {"ensure", "worker", "send"} /\ req \in stopped
     \/ pc = "worker"
  /\ pc' = "unsent"
  /\ UNCHANGED <<req, complete, state, process, stdout, lines, reading, drain, audio, history>>

\* _ctrl_q is emptied, the text written and pipe_reader started.
Send ==
  /\ pc = "send"
  /\ alive
  /\ stdin' = Append(stdin, req)
  /\ ctrlQ' = <<>>
  /\ readers' = readers \cup {req}
  /\ pc' = "stream"
  /\ UNCHANGED <<req, complete, state, alive, restart, worker, working, made, stdout, stderr,
                 clean, drain, audio, history>>

\* A broken pipe, before the text was sent; the output device does not open.
SpeakFails ==
  /\ \/ pc = "send" /\ ~alive /\ pc' = "unsent"
     \/ pc = "stream" /\ pc' = "finish"
  /\ UNCHANGED <<req, complete, state, process, stdout, lines, reading, drain, audio, history>>

\* The deadline of the reader has passed when stop_event is looked at.
ReadTimesOut ==
  /\ pc = "stream" /\ req \in readers /\ req \notin stopped
  /\ pc' = "timeout"
  /\ UNCHANGED <<req, complete, state, process, stdout, lines, reading, drain, audio, history>>

\* The reader has ended, or the request was stopped.
Streamed ==
  /\ pc = "stream"
  /\ req \notin readers \/ req \in stopped
  /\ pc' = IF req \in stopped THEN "finish" ELSE "control"
  /\ UNCHANGED <<req, complete, state, process, stdout, lines, reading, drain, audio, history>>

\* _wait_ctrl() in speak(): a line, a dead worker, a stop or the time-out.
GetLine ==
  /\ pc = "control" /\ ctrlQ # <<>>
  /\ taken' = <<Head(ctrlQ), req>>
  /\ ctrlQ' = Tail(ctrlQ)
  /\ complete' = TRUE
  /\ pc' = "finish"
  /\ UNCHANGED <<req, state, process, stdout, stderr, reading, drain, audio, spared>>

NoLine ==
  /\ pc = "control"
  /\ complete' = (~alive /\ req \notin stopped)
  /\ pc' = "finish"
  /\ UNCHANGED <<req, state, process, stdout, lines, reading, drain, audio, history>>

NoDrain == drain  \* mutant: what was sent is left in the pipes
Drains == IF ~complete /\ pc = "finish" THEN req ELSE drain

\* The finally clause of a stopped request: _cancel_request(), and a drain of
\* what was sent.
Cancelled ==
  /\ pc \in {"finish", "unsent"} /\ req \in stopped
  /\ active = req => pcmLock = 0
  /\ drain' = Drains
  /\ buffer' = IF active = req THEN {} ELSE buffer
  /\ active' = IF active = req THEN 0 ELSE active
  /\ pc' = "idle"
  /\ UNCHANGED <<req, complete, stopped, process, stdout, lines, reading, pcmLock, clearing, history>>

\* Its look at stop_event, when it is not set: what failed is to be aborted.
NotCancelled ==
  /\ pc \in {"finish", "unsent"} /\ req \notin stopped
  /\ pc' = IF complete THEN "close" ELSE IF pc = "unsent" THEN "drop" ELSE "abort"
  /\ UNCHANGED <<req, complete, state, process, stdout, lines, reading, drain, audio, history>>

\* _abort_request() kills the worker, if the request is still the active one;
\* one that a stop has overtaken leaves the worker as it is.  After the
\* deadline of the reader the finally clause is still to come.
AbortActive ==
  /\ active = req /\ pcmLock = 0
  /\ active' = 0 /\ buffer' = {}
  /\ alive' = FALSE /\ restart' = TRUE
  /\ UNCHANGED spared

AbortOvertaken ==
  /\ active # req
  /\ spared' = (spared \/ (pc = "abort" /\ alive /\ ~restart))
  /\ UNCHANGED <<active, buffer, alive, restart>>

Abort ==
  /\ pc \in {"timeout", "abort", "drop"}
  /\ AbortActive \/ AbortOvertaken
  /\ pc' = IF pc = "timeout" THEN "finish" ELSE "close"
  /\ UNCHANGED <<req, complete, stopped, worker, stdin, working, made, stdout, lines, reading,
                 drain, pcmLock, clearing, taken>>

Close ==
  /\ pc = "close"
  /\ active' = IF active = req THEN 0 ELSE active
  /\ pc' = "idle"
  /\ UNCHANGED <<req, complete, stopped, process, stdout, lines, reading, drain, audio, history>>

-----------------------------------------------------------------------------
(* stop(), and the watcher of a stop_event: the state first, then the audio. *)
(* One such call at a time, which bounds the model.                          *)

Stop ==
  /\ active # 0 /\ clearing = 0
  /\ stopped' = stopped \cup {active}
  /\ active' = 0
  /\ clearing' = active
  /\ UNCHANGED <<speaker, process, stdout, lines, reading, drain, pcmLock, buffer, history>>

\* The caller of speak() sets the event itself.
SetStopEvent ==
  /\ pc # "idle" /\ req \notin stopped
  /\ stopped' = stopped \cup {req}
  /\ UNCHANGED <<active, speaker, process, stdout, lines, reading, drain, audio, history>>

StopClears ==
  /\ clearing # 0 /\ pcmLock = 0
  /\ buffer' = {}
  /\ clearing' = 0
  /\ UNCHANGED <<speaker, state, process, stdout, lines, reading, drain, pcmLock, history>>

-----------------------------------------------------------------------------
(* The worker process. *)

Take ==
  /\ alive /\ working = 0 /\ stdin # <<>>
  /\ working' = Head(stdin) /\ stdin' = Tail(stdin) /\ made' = 0
  /\ UNCHANGED <<speaker, state, alive, restart, worker, stdout, lines, reading, drain, audio, history>>

MakeChunk ==
  /\ alive /\ working # 0 /\ made < Chunks
  /\ stdout' = Append(stdout, <<working, "pcm">>)
  /\ made' = made + 1
  /\ UNCHANGED <<speaker, state, alive, restart, worker, stdin, working, lines, reading, drain, audio, history>>

\* The end mark is written before the line; an exception writes both as well.
EndRequest ==
  /\ alive /\ working # 0 /\ made <= Chunks
  /\ stdout' = Append(stdout, <<working, "end">>)
  /\ made' = Chunks + 1
  /\ UNCHANGED <<speaker, state, alive, restart, worker, stdin, working, lines, reading, drain, audio, history>>

ReportDone ==
  /\ alive /\ working # 0 /\ made = Chunks + 1
  /\ stderr' = Append(stderr, working)
  /\ working' = 0 /\ made' = 0
  /\ UNCHANGED <<speaker, state, alive, restart, worker, stdin, stdout, ctrlQ, reading, drain, audio, history>>

Die ==
  /\ alive
  /\ alive' = FALSE
  /\ UNCHANGED <<speaker, state, restart, worker, stdin, working, made, stdout, lines, reading, drain, audio, history>>

-----------------------------------------------------------------------------
(* pipe_reader(), which goes on after a stop, _stderr_reader() and           *)
(* _drain_request().                                                         *)

\* Audio of an active request goes to the buffer, under _pcm_lock.
Read(r) ==
  LET plays == Head(stdout)[2] = "pcm" /\ active = r /\ r \notin stopped IN
  /\ r \in readers /\ stdout # <<>>
  /\ pcmLock = 0 \/ (pcmLock # r /\ ~plays)
  /\ stdout' = Tail(stdout)
  /\ taken' = <<Head(stdout)[1], r>>
  /\ pcmLock' = IF plays THEN r ELSE pcmLock
  /\ IF Head(stdout)[2] = "end"
     THEN readers' = readers \ {r} /\ clean' = clean \cup {r}
     ELSE UNCHANGED reading
  /\ UNCHANGED <<speaker, state, process, lines, drain, buffer, clearing, spared>>

Store ==
  /\ pcmLock # 0
  /\ buffer' = buffer \cup {pcmLock}
  /\ pcmLock' = 0
  /\ UNCHANGED <<speaker, state, process, stdout, lines, reading, drain, clearing, history>>

\* The pipe of a dead worker ends without the mark.
ReadEnds(r) ==
  /\ r \in readers /\ pcmLock # r /\ ~alive /\ stdout = <<>>
  /\ readers' = readers \ {r}
  /\ UNCHANGED <<speaker, state, process, stdout, lines, clean, drain, audio, history>>

ReadLine ==
  /\ stderr # <<>>
  /\ ctrlQ' = Append(ctrlQ, Head(stderr))
  /\ stderr' = Tail(stderr)
  /\ UNCHANGED <<speaker, state, process, stdout, reading, drain, audio, history>>

\* Both the end mark and the line have come.
DrainEnds ==
  /\ drain # 0 /\ drain \notin readers /\ drain \in clean /\ ctrlQ # <<>>
  /\ taken' = <<Head(ctrlQ), drain>>
  /\ ctrlQ' = Tail(ctrlQ)
  /\ drain' = 0
  /\ UNCHANGED <<speaker, state, process, stdout, stderr, reading, audio, spared>>

\* The end mark is missing, the worker died or the deadline passed.
DrainFails ==
  /\ drain # 0
  /\ restart' = TRUE
  /\ drain' = 0
  /\ UNCHANGED <<speaker, state, alive, worker, stdin, working, made, stdout, lines, reading, audio, history>>

-----------------------------------------------------------------------------
Speaker == \/ Speak \/ ClearAudio \/ DrainTimesOut \/ Drained \/ KeepWorker \/ StartWorker
           \/ NotSent \/ Send \/ SpeakFails \/ ReadTimesOut \/ Streamed \/ GetLine \/ NoLine
           \/ Cancelled \/ NotCancelled \/ Abort \/ Close
Worker == Take \/ MakeChunk \/ EndRequest \/ ReportDone \/ Die
Background == \/ Stop \/ SetStopEvent \/ StopClears \/ Store \/ ReadLine
              \/ \E r \in readers : Read(r) \/ ReadEnds(r)
              \/ DrainEnds \/ DrainFails

Next == Speaker \/ Worker \/ Background

Spec == Init /\ [][Next]_vars

-----------------------------------------------------------------------------
(* Properties *)

TypeOK ==
  /\ req \in 0..Requests /\ active \in 0..Requests
  /\ {stopped, readers, clean, buffer} \subseteq SUBSET (1..Requests)
  /\ {complete, alive, restart, spared} \subseteq BOOLEAN
  /\ worker \in 0..Restarts /\ made \in 0..(Chunks + 1)
  /\ {working, drain, clearing, pcmLock} \subseteq 0..Requests

\* Audio and status lines carry no request, yet each is read on behalf of the
\* request it was made for, whatever was stopped, drained or restarted before;
\* but for a worker whose failed request a stop overtook in the finally clause
\* (StoppedIsDiscarded shows that case), until that worker is replaced.
OutputIsItsOwn == spared \/ taken[1] = taken[2]

\* Once a request has emptied the buffer it holds no audio that another reader
\* stored, though those of earlier requests may still be running.
BufferIsCurrent == active # 0 /\ pc # "clear" => buffer \subseteq {active}

\* What a stop leaves in the worker is discarded by the drain of speak(), as
\* the comment in stop() says: nobody reads it for another request.
StoppedIsDiscarded == taken[1] \in stopped => taken[1] = taken[2]

=============================================================================

---------------------------- MODULE Confirmation ----------------------------
(***************************************************************************)
(* Asking the user to confirm a dangerous action                           *)
(* (agent/confirmation_manager.py).  A thread emits a signal and waits for *)
(* the event of its own holder; the GUI thread opens the dialogs from its  *)
(* event loop.  exec() is an event loop as well, so dialogs nest: the user *)
(* reaches the innermost only, the countdowns of all go on, and an exec()  *)
(* returns after those it contains.  The caller waits a few seconds longer *)
(* than the countdown, which starts when the dialog opens: with a busy GUI *)
(* thread, or an inner dialog, the caller may give up first.               *)
(***************************************************************************)
EXTENDS Naturals, Sequences

CONSTANTS Caller,    \* calls of request_confirmation()
          MaxNested  \* bound on nested dialogs

VARIABLES
  pc,       \* call -> where it is
  queue,    \* signals the GUI thread has not handled
  stack,    \* the calls whose dialogs are in exec(), the innermost last
  dialog,   \* call -> where its dialog is
  said,     \* call -> confirmed of its dialog
  result,   \* call -> result of its holder
  event,    \* call -> the event of its holder is set
  answer    \* call -> what request_confirmation() returned

asked == <<pc, queue, answer>>
shown == <<stack, dialog, said>>
holder == <<result, event>>
vars == <<asked, shown, holder>>

Init ==
  /\ pc = [c \in Caller |-> "new"] /\ queue = <<>> /\ stack = <<>>
  /\ dialog = [c \in Caller |-> "none"]
  /\ said = [c \in Caller |-> FALSE] /\ answer = [c \in Caller |-> FALSE]
  /\ result = [c \in Caller |-> FALSE] /\ event = [c \in Caller |-> FALSE]

-----------------------------------------------------------------------------
(* request_confirmation(). *)

Request(c) ==
  /\ pc[c] = "new"
  /\ pc' = [pc EXCEPT ![c] = "waits"] /\ queue' = Append(queue, c)
  /\ UNCHANGED <<answer, shown, holder>>

\* wait() returns because the event is set, or because the time is over.
Answered(c) ==
  /\ pc[c] = "waits" /\ event[c]
  /\ answer' = [answer EXCEPT ![c] = result[c]]
  /\ pc' = [pc EXCEPT ![c] = "answered"]
  /\ UNCHANGED <<queue, shown, holder>>

GiveUp(c) ==
  /\ pc[c] = "waits" /\ ~event[c]
  /\ pc' = [pc EXCEPT ![c] = "gaveUp"]
  /\ UNCHANGED <<queue, answer, shown, holder>>

-----------------------------------------------------------------------------
(* The GUI thread. *)

Innermost == stack[Len(stack)]
At(place) == stack # <<>> /\ dialog[Innermost] = place

\* _show_dialog_on_main_thread() is called by the innermost event loop, also
\* for a caller that has given up.
Open ==
  /\ queue # <<>> /\ Len(stack) < MaxNested
  /\ stack = <<>> \/ At("open")
  /\ dialog' = [dialog EXCEPT ![Head(queue)] = "open"]
  /\ stack' = Append(stack, Head(queue)) /\ queue' = Tail(queue)
  /\ UNCHANGED <<pc, answer, said, holder>>

Confirm ==
  /\ At("open")
  /\ said' = [said EXCEPT ![Innermost] = TRUE]
  /\ dialog' = [dialog EXCEPT ![Innermost] = "closing"]
  /\ UNCHANGED <<asked, stack, holder>>

\* The cancel button, or a countdown, which also ends outside the innermost.
Refuse(c) ==
  /\ At("open") /\ dialog[c] = "open"
  /\ dialog' = [dialog EXCEPT ![c] = "closing"]
  /\ UNCHANGED <<asked, stack, said, holder>>

\* exec() returns, and the result is written; an exception counts as refused.
WrittenForAll(c) == [d \in Caller |-> said[c]]  \* mutant: one shared result
Written(c) == [result EXCEPT ![c] = said[c]]

WriteResult ==
  /\ At("closing")
  /\ result' = Written(Innermost)
  /\ dialog' = [dialog EXCEPT ![Innermost] = "closed"]
  /\ UNCHANGED <<asked, stack, said, event>>

\* The finally clause.  A holder that was cleared has no event: KeyError.
SetEvent ==
  /\ At("closed")
  /\ event' = [event EXCEPT ![Innermost] = pc[Innermost] = "waits"]
  /\ stack' = SubSeq(stack, 1, Len(stack) - 1)
  /\ UNCHANGED <<asked, dialog, said, result>>

Next == \/ Open \/ Confirm \/ WriteResult \/ SetEvent
        \/ \E c \in Caller : Request(c) \/ Answered(c) \/ GiveUp(c) \/ Refuse(c)

Spec == Init /\ [][Next]_vars

-----------------------------------------------------------------------------
TypeOK ==
  /\ pc \in [Caller -> {"new", "waits", "answered", "gaveUp"}]
  /\ dialog \in [Caller -> {"none", "open", "closing", "closed"}]
  /\ {said, result, event, answer} \subseteq [Caller -> BOOLEAN]
  /\ queue \in Seq(Caller) /\ stack \in Seq(Caller)

\* The action is run only when the user confirmed this very action, and a call
\* that heard of the answer returns it, whatever other dialogs were open above
\* or below and whichever calls had given up.
AnswerIsOwn ==
  \A c \in Caller : answer[c] = (said[c] /\ pc[c] = "answered")
=============================================================================

------------------------------- MODULE Timers -------------------------------
(***************************************************************************)
(* Named timers (services/timer_manager.py).  A timer is a threading.Timer *)
(* whose thread may be past its wait when the timer is cancelled or        *)
(* replaced: the table and the order number decide then, under the lock.   *)
(*                                                                         *)
(* Name i is the one _auto_name() makes of i; a caller may give it too.    *)
(* set_timer() and cancel_timer() come from the command thread, from       *)
(* scheduled tasks and from the user's scripts, and are atomic under the   *)
(* lock.                                                                   *)
(***************************************************************************)
EXTENDS Naturals, FiniteSets, FiniteSetsExt

CONSTANTS Name,        \* the numbers of names
          MaxTimers,   \* _MAX_TIMERS
          MaxOrder     \* bound on _order_counter

VARIABLES
  table,     \* _timers: name -> the order of its entry, or 0
  counter,   \* _order_counter
  thread,    \* order -> where its thread is
  called     \* the orders whose entry a caller cancelled or replaced

vars == <<table, counter, thread, called>>

Order == 1..MaxOrder
Set == {n \in Name : table[n] # 0}

Init == /\ table = [n \in Name |-> 0] /\ counter = 0
        /\ thread = [o \in Order |-> "none"] /\ called = {}

\* threading.Timer.cancel(): a thread past its wait does not notice.
Cancelled(o) == IF o \in Order /\ thread[o] = "waits" THEN [thread EXCEPT ![o] = "ended"] ELSE thread

\* set_timer() for a name that was given, or the first free one.
SetTimer(n) ==
  /\ counter < MaxOrder
  /\ n \in Set \/ Cardinality(Set) < MaxTimers
  /\ counter' = counter + 1
  /\ thread' = [Cancelled(table[n]) EXCEPT ![counter + 1] = "waits"]
  /\ called' = called \cup ({table[n]} \ {0})
  /\ table' = [table EXCEPT ![n] = counter + 1]

SetNamed == \E n \in Name : SetTimer(n)
AutoName == Min(Name \ Set)
SetAutoNamed == Name # Set /\ SetTimer(AutoName)

Remove(n) ==
  /\ thread' = Cancelled(table[n])
  /\ called' = called \cup {table[n]}
  /\ table' = [table EXCEPT ![n] = 0]
  /\ UNCHANGED counter

\* cancel_timer(): the one that was named, or the one set last.
CancelNamed == \E n \in Set : Remove(n)
Latest(n) == \A m \in Set : table[m] <= table[n]
CancelLatest == \E n \in Set : Latest(n) /\ Remove(n)

\* The wait of a timer's thread is over, and _on_alarm() is called.
Fire(o) ==
  /\ thread[o] = "waits"
  /\ thread' = [thread EXCEPT ![o] = "alarm"]
  /\ UNCHANGED <<table, counter, called>>

\* The part of _on_alarm() under the lock: an entry of another order, or none,
\* keeps the thread silent.
EnteredByAny(n, o) == table[n] # 0  \* mutant: the order is not compared
Entered(n, o) == table[n] = o

Alarm(o) ==
  /\ thread[o] = "alarm"
  /\ IF \E n \in Name : Entered(n, o)
     THEN /\ \E n \in Name : Entered(n, o) /\ table' = [table EXCEPT ![n] = 0]
          /\ thread' = [thread EXCEPT ![o] = "rings"]
     ELSE /\ thread' = [thread EXCEPT ![o] = "ended"]
          /\ UNCHANGED table
  /\ UNCHANGED <<counter, called>>

\* The announcement, without the lock.
Announce(o) ==
  /\ thread[o] = "rings"
  /\ thread' = [thread EXCEPT ![o] = "ended"]
  /\ UNCHANGED <<table, counter, called>>

Thread(o) == Fire(o) \/ Alarm(o) \/ Announce(o)

Next == \/ SetNamed \/ SetAutoNamed \/ CancelNamed \/ CancelLatest
        \/ \E o \in Order : Thread(o)

Spec == Init /\ [][Next]_vars

-----------------------------------------------------------------------------
TypeOK ==
  /\ table \in [Name -> 0..MaxOrder] /\ counter \in 0..MaxOrder
  /\ thread \in [Order -> {"none", "waits", "alarm", "rings", "ended"}]
  /\ called \subseteq Order

\* Each timer that was set has its entry until it rings or a caller takes it
\* away, and never both: a cancelled or replaced timer is silent even if its
\* thread was past its wait, and its alarm does not take the entry of the timer
\* that replaced it.
RingsUnlessCalledOff ==
  /\ \A o \in Order : thread[o] \in {"waits", "alarm"} /\ o \notin called =>
                        \E n \in Name : table[n] = o
  /\ \A o \in called : thread[o] \in {"alarm", "ended"}
  /\ \A n \in Set : thread[table[n]] \in {"waits", "alarm"} /\ table[n] \notin called
=============================================================================

------------------------ MODULE MCProactiveScheduler ------------------------
(* Small instances of ProactiveScheduler: the initial state chooses between *)
(* no file and writes that may fail, with a fair ticker, and an old file of *)
(* more tasks than the limit that can always be written.                    *)
EXTENDS ProactiveScheduler, TLC

(* A file with one task more than the limit of one: a finished one-shot,     *)
(* kept by an older version, and a repeating task.                           *)
LegacyTask(period, enabled) ==
  [due |-> 1, period |-> period, skip |-> {}, internal |-> FALSE,
   enabled |-> enabled, completed |-> ~enabled]
OldFile == 1 :> LegacyTask(Once, FALSE) @@ 2 :> LegacyTask(1, TRUE)

Files == {EmptyTable, OldFile}

(* except_dates: none, or one day. *)
OneSkip == {{}, {2}}

(* Bounds of their own: one task and all the time where writes may fail; one *)
(* restart, two ticks, no flag and no run by hand beside the old file.       *)
WithinBounds ==
  IF reliable THEN now <= 2 /\ blocked = {} /\ manual = 0 /\ crashes <= 1 ELSE nextId <= 2

Both ==
  /\ Init /\ (reliable <=> disk = OldFile)
  /\ [][Next /\ WithinBounds']_vars
  /\ WF_vars(~reliable /\ CheckDueTasks) /\ WF_vars(~reliable /\ Execution)

(* The types, and FileIsCurrent: a restart forgets nothing. *)
FileIsUpToDate == TypeOK /\ FileIsCurrent

(* DueTasksAreClaimed by the fair ticker. *)
ArmedTasksAreClaimed == ~reliable => DueTasksAreClaimed
=============================================================================

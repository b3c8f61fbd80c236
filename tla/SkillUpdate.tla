----------------------------- MODULE SkillUpdate -----------------------------
(***************************************************************************)
(* Installing and updating skills (agent/skill_installer.py), and the      *)
(* recovery that a new SkillManager runs (agent/skill_manager.py).         *)
(*                                                                         *)
(* update() moves every folder it replaces to a backup, after naming it in *)
(* a journal; deleting the journal is the commit.  A failure rolls back,   *)
(* and a crash at any step is repaired from the journal at the next start. *)
(* A SkillManager that is created while an update runs, on another thread, *)
(* finds the journal of that update and undoes it step by step beside it.  *)
(* File operations are steps: another step, a failure or a crash may come  *)
(* between two of them.  The content of a folder is one word:              *)
(*   absent   no folder                part    partly copied or deleted    *)
(*   old      installed earlier        inst    copied by a plain install   *)
(*   fresh    copied by update()       new     fresh, with the metadata    *)
(*                                             update() restores           *)
(***************************************************************************)
CONSTANT Skill   \* folder names

VARIABLES
  live,        \* skill -> content of its folder
  backup,      \* skill -> content of the backup folder of the latest update
  journal,     \* skill -> its entry in .ari-update-journal.json
  touched,     \* skill -> its entry in _update_backups (memory)
  target,      \* the skill the user asked to update
  archive,     \* the skills of its source
  todo,        \* skills the current loop has still to visit
  cur,         \* the skill being installed
  pc,          \* where the install thread is
  kept,        \* keep_journal: a restore failed
  recovering,  \* a SkillManager is being created and has read a journal
  left,        \* skill -> the entry it read and has still to visit
  disturbed    \* history: since both were at rest, a recovery and the
               \* install thread have worked at the same time

reload == <<recovering, left>>
files == <<live, backup, journal, touched, target, archive, todo, cur, pc, kept, reload>>
vars == <<files, disturbed>>
disk == <<live, backup, journal>>
memory == <<touched, target, archive, todo, cur, kept>>

Content == {"absent", "part", "old", "inst", "fresh", "new"}
Entry == {"none", "backup", "created"}
NoEntries == [s \in Skill |-> "none"]
Named(f) == {s \in Skill : f[s] # "none"}

\* Where a failed file operation sends update() to its except clause.
Installing == {"next", "move", "copy", "copying", "meta"}
Updating == Installing \cup {"clear", "purge", "rollback"}
Busy == pc \in Updating \cup {"install"}

Init ==
  /\ live \in [Skill -> {"absent", "old"}]
  /\ backup = [s \in Skill |-> "absent"]
  /\ journal = NoEntries /\ touched = NoEntries
  /\ archive = {} /\ todo = {} /\ target \in Skill /\ cur = target
  /\ pc = "idle" /\ kept = FALSE
  /\ recovering = FALSE /\ left = NoEntries
  /\ disturbed = FALSE

-----------------------------------------------------------------------------
(* update(). *)

\* The target has metadata with a source; a pending journal refuses the update.
\* The dialog has asked for the SkillManager, and waits while one is created.
BeginUpdate ==
  /\ pc = "idle" /\ ~recovering
  /\ \E t \in Skill : live[t] \notin {"absent", "part"} /\ target' = t
  /\ journal = NoEntries
  /\ archive' \in SUBSET Skill \ {{}}
  /\ todo' = archive'
  /\ pc' = "next"
  /\ UNCHANGED <<disk, touched, cur, kept, reload>>

\* A backup has a fresh name: nothing is there yet.
Choose(s) ==
  /\ touched' = [touched EXCEPT ![s] = IF live[s] = "absent" THEN "created" ELSE "backup"]
  /\ backup' = [backup EXCEPT ![s] = "absent"]
  /\ cur' = s

RecordedTooEarly(entries) == touched  \* mutant: written before the entry is added
Recorded(entries) == entries

\* The journal names the folder before anything moves.
Record ==
  /\ pc = "next"
  /\ \E s \in todo : Choose(s)
  /\ journal' = Recorded(touched')
  /\ pc' = "move"
  /\ UNCHANGED <<live, target, archive, todo, kept, reload>>

\* write_json_atomic() fails: the journal stays as it was.
RecordFails ==
  /\ pc = "next"
  /\ \E s \in todo : Choose(s)
  /\ todo' = Named(touched')
  /\ pc' = "rollback"
  /\ UNCHANGED <<live, journal, target, archive, kept, reload>>

Move ==
  /\ pc = "move"
  /\ touched[cur] = "backup" => live[cur] # "absent"
  /\ IF touched[cur] = "backup"
     THEN /\ backup' = [backup EXCEPT ![cur] = live[cur]]
          /\ live' = [live EXCEPT ![cur] = "absent"]
     ELSE UNCHANGED <<live, backup>>
  /\ pc' = "copy"
  /\ UNCHANGED <<journal, memory, reload>>

Copy ==
  /\ pc = "copy"
  /\ live' = [live EXCEPT ![cur] = "part"]
  /\ pc' = "copying"
  /\ UNCHANGED <<backup, journal, memory, reload>>

\* A copy that another thread works on may end with files of both.
Copies(whole) == IF disturbed THEN {whole, "part"} ELSE {whole}

\* The folder has to be there still for its metadata to be written.
Copied ==
  /\ pc = "copying" /\ live[cur] # "absent"
  /\ \E c \in Copies("fresh") : live' = [live EXCEPT ![cur] = c]
  /\ todo' = todo \ {cur}
  /\ pc' = "next"
  /\ UNCHANGED <<backup, journal, touched, target, archive, cur, kept, reload>>

\* Every skill of the source is in place.  A source without the updated skill
\* raises here: Fail.
AllCopied ==
  /\ pc = "next" /\ todo = {} /\ target \in archive
  /\ todo' = archive
  /\ pc' = "meta"
  /\ UNCHANGED <<disk, touched, target, archive, cur, kept, reload>>

WriteMetadata ==
  /\ pc = "meta"
  /\ \E s \in todo : /\ live[s] # "absent"
                     /\ live' = [live EXCEPT ![s] = IF @ = "fresh" THEN "new" ELSE "part"]
                     /\ todo' = todo \ {s}
  /\ pc' = IF todo' = {} THEN "clear" ELSE "meta"
  /\ UNCHANGED <<backup, journal, touched, target, archive, cur, kept, reload>>

\* The commit.
ClearJournal ==
  /\ pc = "clear"
  /\ journal' = NoEntries
  /\ todo' = {s \in Skill : touched[s] = "backup"}
  /\ pc' = "purge"
  /\ UNCHANGED <<live, backup, touched, target, archive, cur, kept, reload>>

\* rmtree(ignore_errors=True) may leave a backup, or a part of it.
Purge ==
  /\ pc = "purge"
  /\ \E s \in todo, c \in {"absent", "part"} :
       /\ backup' = [backup EXCEPT ![s] = IF @ = "absent" THEN "absent" ELSE c]
       /\ todo' = todo \ {s}
  /\ UNCHANGED <<live, journal, touched, target, archive, cur, pc, kept, reload>>

UpdateReturns ==
  /\ pc = "purge" /\ todo = {}
  /\ pc' = "idle" /\ archive' = {} /\ touched' = NoEntries
  /\ UNCHANGED <<disk, target, todo, cur, kept, reload>>

\* Any exception before the commit, a journal that cannot be deleted included.
Fail ==
  /\ pc \in Installing \cup {"clear"}
  /\ pc' = "rollback"
  /\ todo' = Named(touched)
  /\ UNCHANGED <<disk, touched, target, archive, cur, kept, reload>>

HasWork(s, entry) == entry = "created" \/ backup[s] # "absent"

\* The folder and the backup of s once its entry has been undone.
Restore(s, entry) ==
  /\ live' = [live EXCEPT ![s] = IF entry = "created" THEN "absent"
                                 ELSE IF backup[s] # "absent" THEN backup[s] ELSE @]
  /\ backup' = [backup EXCEPT ![s] = IF entry = "backup" THEN "absent" ELSE @]

\* rmtree() of the folder of s, interrupted or half failed.
Dismantle(s, entry) ==
  /\ HasWork(s, entry)
  /\ live[s] # "absent"
  /\ \E c \in {"part", "absent"} : live' = [live EXCEPT ![s] = c]

RollBack ==
  /\ pc = "rollback"
  /\ \E s \in todo : Restore(s, touched[s]) /\ todo' = todo \ {s}
  /\ UNCHANGED <<journal, touched, target, archive, cur, pc, kept, reload>>

RollBackFails ==
  /\ pc = "rollback"
  /\ \E s \in todo : HasWork(s, touched[s]) /\ todo' = todo \ {s}
  /\ kept' = TRUE
  /\ UNCHANGED <<disk, touched, target, archive, cur, pc, reload>>

RollBackRemoves ==
  /\ pc = "rollback"
  /\ \E s \in todo : Dismantle(s, touched[s])
  /\ UNCHANGED <<backup, journal, memory, pc, reload>>

\* A kept journal is left to the next start; the deletion may also fail.
RollBackEnds ==
  /\ pc = "rollback" /\ todo = {}
  /\ journal' \in IF kept THEN {journal} ELSE {journal, NoEntries}
  /\ pc' = "idle" /\ kept' = FALSE /\ archive' = {} /\ touched' = NoEntries
  /\ UNCHANGED <<live, backup, target, todo, cur, reload>>

-----------------------------------------------------------------------------
(* install(): no backup and no journal. *)

BeginInstall ==
  /\ pc = "idle" /\ ~recovering
  /\ \E s \in Skill : cur' = s /\ live' = [live EXCEPT ![s] = "part"]
  /\ pc' = "install"
  /\ UNCHANGED <<backup, journal, touched, target, archive, todo, kept, reload>>

EndInstall ==
  /\ pc = "install" /\ live[cur] # "absent"
  /\ \E c \in Copies("inst") : live' = [live EXCEPT ![cur] = c]
  /\ pc' = "idle"
  /\ UNCHANGED <<backup, journal, memory, reload>>

InstallFails ==
  /\ pc = "install"
  /\ pc' = "idle"
  /\ UNCHANGED <<disk, memory, reload>>

-----------------------------------------------------------------------------
(* Crashes, and _recover_interrupted_update(). *)

Crash ==
  /\ pc # "down"
  /\ pc' = "down"
  /\ touched' = NoEntries /\ archive' = {} /\ todo' = {} /\ kept' = FALSE
  /\ recovering' = FALSE /\ left' = NoEntries
  /\ UNCHANGED <<disk, target, cur>>

\* The constructor reads the journal, if there is one.
ReadJournal == recovering' = (journal # NoEntries) /\ left' = journal

Start ==
  /\ pc = "down"
  /\ pc' = "idle"
  /\ ReadJournal
  /\ UNCHANGED <<disk, memory>>

\* reset_skill_manager() on a language change: the next user of the skills
\* creates a manager, whatever the install thread is doing.
Reload ==
  /\ pc # "down" /\ ~recovering
  /\ journal # NoEntries /\ ReadJournal
  /\ UNCHANGED <<disk, memory, pc>>

RecoverEntry ==
  /\ recovering
  /\ \E s \in Named(left) : Restore(s, left[s]) /\ left' = [left EXCEPT ![s] = "none"]
  /\ UNCHANGED <<journal, memory, pc, recovering>>

RecoverRemoves ==
  /\ recovering
  /\ \E s \in Named(left) : Dismantle(s, left[s])
  /\ UNCHANGED <<backup, journal, memory, pc, reload>>

\* The first error ends the recovery; the journal stays for the next start.
RecoverFails ==
  /\ recovering
  /\ recovering' = FALSE /\ left' = NoEntries
  /\ UNCHANGED <<disk, memory, pc>>

\* The journal is deleted, if the update has not done so itself.
RecoverEnds ==
  /\ recovering /\ left = NoEntries
  /\ journal' = NoEntries
  /\ recovering' = FALSE
  /\ UNCHANGED <<live, backup, memory, pc, left>>

-----------------------------------------------------------------------------
Update == \/ BeginUpdate \/ Record \/ RecordFails \/ Move \/ Copy \/ Copied
          \/ AllCopied \/ WriteMetadata \/ ClearJournal \/ Purge \/ UpdateReturns
          \/ Fail \/ RollBack \/ RollBackFails \/ RollBackRemoves \/ RollBackEnds
PlainInstall == BeginInstall \/ EndInstall \/ InstallFails
Recovery == \/ Crash \/ Start \/ Reload \/ RecoverEntry \/ RecoverRemoves
            \/ RecoverFails \/ RecoverEnds

\* What history notes of a step.
Notes ==
  disturbed' = ((recovering /\ Busy)' \/ (disturbed /\ (recovering \/ Busy)'))

Next == (Update \/ PlainInstall \/ Recovery) /\ Notes

Spec == Init /\ [][Next]_vars

-----------------------------------------------------------------------------
(* Properties *)

FilesOK ==
  /\ live \in [Skill -> Content] /\ backup \in [Skill -> Content]
  /\ journal \in [Skill -> Entry] /\ touched \in [Skill -> Entry]
  /\ left \in [Skill -> Entry]
  /\ archive \subseteq Skill /\ todo \subseteq Skill
  /\ {target, cur} \subseteq Skill /\ kept \in BOOLEAN /\ recovering \in BOOLEAN
  /\ pc \in Updating \cup {"idle", "install", "down"}

TypeOK == FilesOK /\ disturbed \in BOOLEAN

\* What the user is left with if the program stops now and recovers.
Effective ==
  [s \in Skill |-> IF journal[s] = "created" THEN "absent"
                   ELSE IF journal[s] = "backup" /\ backup[s] # "absent" THEN backup[s]
                   ELSE live[s]]

\* The skills an update or a recovery is at work on, or has left to be undone.
InWork == archive \cup Named(journal) \cup Named(left)

Store == INSTANCE SkillStore WITH installed <- Effective, source <- InWork

\* Whatever fails and wherever the program stops, the skills of a source are
\* replaced together or not at all; only while a manager is created beside an
\* update may its own skills end differently.  update() implements SkillStore.
ImplementsStore == Store!Spec

\* A comment of SkillManager.__init__ says that recovery runs once at start and
\* that the backups of an update in progress must not be touched: no step of a
\* recovery moves a backup while an update of this process runs.
UpdateIsLeftAlone == [][RecoverEntry /\ pc \in Updating => backup' = backup]_vars
=============================================================================

-------------------------- MODULE SkillUpdateProofs --------------------------
(***************************************************************************)
(* SkillUpdate implements SkillStore, for any set of skills: whatever      *)
(* fails and wherever the program stops, the skills of a source are        *)
(* replaced together or not at all; where a SkillManager is created while  *)
(* an update runs, nothing but the skills in work changes.                 *)
(***************************************************************************)
EXTENDS SkillUpdate, TLAPS

USE DEF reload

(* The backup holds what the user had, or there was nothing. *)
Covered(s) == touched[s] = "created" \/ (touched[s] = "backup" /\ backup[s] # "absent")

(* The entry of s has no effect any more. *)
Undone(s) == /\ journal[s] = "created" => live[s] = "absent"
             /\ journal[s] = "backup" => backup[s] = "absent"

(* A recovery by itself: what it has visited is undone.                     *)
Recovers ==
  /\ recovering => /\ pc = "idle"
                   /\ \A s \in Skill : /\ left[s] \in {"none", journal[s]}
                                       /\ left[s] = "none" => Undone(s)
  /\ ~recovering => left = NoEntries

Rests == pc \in {"idle", "install", "down"} => touched = NoEntries /\ archive = {}

(* The journal is what update() knows, and up to the folder in work all     *)
(* that was touched is covered.                                             *)
Installs ==
  /\ pc \in Installing \cup {"clear"} => journal = touched
  /\ pc = "next" => /\ archive = todo \cup Named(touched) /\ todo \cap Named(touched) = {}
                    /\ \A s \in Named(touched) : Covered(s) /\ live[s] = "fresh"
  /\ pc \in {"move", "copy", "copying"} =>
       /\ archive = todo \cup Named(touched) /\ todo \cap Named(touched) = {cur}
       /\ \A s \in Named(touched) \ {cur} : Covered(s) /\ live[s] = "fresh"
       /\ pc = "move" => backup[cur] = "absent" /\ (touched[cur] = "created" <=> live[cur] = "absent")
       /\ pc # "move" => Covered(cur)
  /\ pc \in {"meta", "clear"} =>
       /\ archive = Named(touched) /\ todo \subseteq archive
       /\ \A s \in Named(touched) : Covered(s)
       /\ \A s \in archive : live[s] = IF s \in todo THEN "fresh" ELSE "new"
       /\ pc = "clear" => todo = {}

Purges == pc = "purge" => journal = NoEntries

(* An entry that did not reach the journal has nothing to be undone.        *)
RollsBack ==
  pc = "rollback" =>
    /\ todo \subseteq Named(touched)
    /\ \A s \in Skill : journal[s] # "none" => journal[s] = touched[s]
    /\ \A s \in Named(touched) : journal[s] = "none" =>
         backup[s] = "absent" /\ (touched[s] = "created" => live[s] = "absent")
    /\ ~kept => \A s \in Named(journal) \ todo : Undone(s)

(* What update() works on are skills of its source.                         *)
Sources ==
  pc \in Updating => /\ todo \subseteq archive /\ Named(touched) \subseteq archive
                     /\ pc \in {"move", "copy", "copying"} => cur \in archive

Base == FilesOK /\ Rests /\ Sources /\ (~recovering => left = NoEntries)

(* The install thread and the recovery, one at a time. *)
Core == FilesOK /\ Recovers /\ Rests /\ Installs /\ Purges /\ RollsBack

Inv == TypeOK /\ Base /\ (disturbed \/ Core)

(* What a step may do to what the user is left with. *)
Same == \A s \in Skill : Effective'[s] = Effective[s]
Commits == InWork' = InWork /\ \A s \in Skill : Effective'[s] = IF s \in InWork THEN "new" ELSE Effective[s]
Installed ==
  /\ InWork' = InWork
  /\ \E s \in Skill, c \in {"part", "inst"} :
       \A t \in Skill : Effective'[t] = IF t = s THEN c ELSE Effective[t]
Others == \A s \in Skill \ (InWork \cup InWork') : Effective'[s] = Effective[s]
Allowed == Same \/ Commits \/ Installed

LEMMA EffectiveOf ==
  \A s \in Skill : /\ journal[s] = "created" => Effective[s] = "absent"
                   /\ journal[s] = "backup" /\ backup[s] # "absent" => Effective[s] = backup[s]
                   /\ journal[s] = "backup" /\ backup[s] = "absent" => Effective[s] = live[s]
                   /\ journal[s] = "none" => Effective[s] = live[s]
  BY DEF Effective

LEMMA EffectiveNext ==
  \A s \in Skill : /\ journal'[s] = "created" => Effective'[s] = "absent"
                   /\ journal'[s] = "backup" /\ backup'[s] # "absent" => Effective'[s] = backup'[s]
                   /\ journal'[s] = "backup" /\ backup'[s] = "absent" => Effective'[s] = live'[s]
                   /\ journal'[s] = "none" => Effective'[s] = live'[s]
  BY DEF Effective

LEMMA SameDisk == ASSUME UNCHANGED disk PROVE Same
  BY DEF disk, Same, Effective

LEMMA InvInit == Init => Inv
<1> SUFFICES ASSUME Init PROVE Inv
  OBVIOUS
<1>1. FilesOK
  BY DEF Init, FilesOK, Content, Entry, NoEntries, Updating, Installing
<1> QED
  BY <1>1 DEF Init, Inv, TypeOK, Base, Core, Recovers, Rests, Installs, Purges, RollsBack,
     Sources, Updating, Installing

-----------------------------------------------------------------------------
(* update() before the commit.                                              *)
LEMMA BeginUpdateStep == ASSUME Core, BeginUpdate PROVE Core' /\ Allowed
<1> USE DEF Core, BeginUpdate
<1>1. FilesOK'
  BY DEF FilesOK, Updating, Installing, disk
<1>2. Named(touched) = {} /\ journal = touched
  BY DEF Rests, NoEntries, Named
<1>3. Named(touched)' = {} /\ journal' = touched'
  BY <1>2 DEF Named, disk
<1>4. Installs'
  BY <1>3 DEF Installs
<1>5. Recovers' /\ Rests' /\ Purges' /\ RollsBack'
  BY DEF Recovers, Rests, Purges, RollsBack
<1> QED
  BY <1>1, <1>4, <1>5, SameDisk DEF Allowed

LEMMA ChooseStep ==
  ASSUME Core, pc = "next", NEW s \in todo, Choose(s)
  PROVE  /\ touched' \in [Skill -> Entry] /\ backup' \in [Skill -> Content] /\ s \in Skill
         /\ \A t \in Skill : t # s => touched'[t] = touched[t] /\ backup'[t] = backup[t]
         /\ touched[s] = "none" /\ touched'[s] \in {"created", "backup"} /\ backup'[s] = "absent" /\ cur' = s
         /\ touched'[s] = "created" <=> live[s] = "absent"
         /\ Named(touched)' = Named(touched) \cup {s}
<1>1. touched' \in [Skill -> Entry] /\ backup' \in [Skill -> Content] /\ s \in Skill
  BY DEF Core, FilesOK, Choose, Entry, Content
<1>2. \A t \in Skill : t # s => touched'[t] = touched[t] /\ backup'[t] = backup[t]
  BY DEF Core, FilesOK, Choose
<1>3. /\ touched'[s] \in {"created", "backup"} /\ backup'[s] = "absent" /\ cur' = s
      /\ touched'[s] = "created" <=> live[s] = "absent"
  BY <1>1 DEF Core, FilesOK, Choose
<1>4. touched[s] = "none"
  BY <1>1 DEF Core, Installs, Named
<1> QED
  BY <1>1, <1>2, <1>3, <1>4 DEF Named

LEMMA RecordStep == ASSUME Core, Record PROVE Core' /\ Allowed
<1>1. PICK s \in todo : Choose(s)
  BY DEF Record
<1>2. /\ touched' \in [Skill -> Entry] /\ backup' \in [Skill -> Content] /\ s \in Skill
      /\ \A t \in Skill : t # s => touched'[t] = touched[t] /\ backup'[t] = backup[t]
      /\ touched[s] = "none" /\ touched'[s] \in {"created", "backup"} /\ backup'[s] = "absent" /\ cur' = s
      /\ touched'[s] = "created" <=> live[s] = "absent"
      /\ Named(touched)' = Named(touched) \cup {s}
  BY <1>1, ChooseStep DEF Record
<1>3. journal' = touched' /\ journal = touched /\ live' = live /\ pc' = "move" /\ UNCHANGED <<archive, todo, recovering, left>>
  BY DEF Core, Installs, Installing, Record, Recorded
<1>4. FilesOK'
  BY <1>2, <1>3 DEF Core, FilesOK, Record, Updating, Installing
<1>5. Installs'
  BY <1>1, <1>2, <1>3 DEF Core, Installs, Covered, Named, Record
<1>6. Recovers' /\ Rests' /\ Purges' /\ RollsBack'
  BY <1>3 DEF Core, Recovers, Rests, Purges, RollsBack, Record
<1>7. Same
  BY <1>2, <1>3 DEF Same, Effective
<1> QED
  BY <1>4, <1>5, <1>6, <1>7 DEF Core, Allowed

LEMMA RecordFailsStep == ASSUME Core, RecordFails PROVE Core' /\ Allowed
<1>1. PICK s \in todo : Choose(s)
  BY DEF RecordFails
<1>2. /\ touched' \in [Skill -> Entry] /\ backup' \in [Skill -> Content] /\ s \in Skill
      /\ \A t \in Skill : t # s => touched'[t] = touched[t] /\ backup'[t] = backup[t]
      /\ touched[s] = "none" /\ touched'[s] \in {"created", "backup"} /\ backup'[s] = "absent" /\ cur' = s
      /\ touched'[s] = "created" <=> live[s] = "absent"
      /\ Named(touched)' = Named(touched) \cup {s}
  BY <1>1, ChooseStep DEF RecordFails
<1>3. /\ journal' = journal /\ journal = touched /\ live' = live /\ pc' = "rollback"
      /\ todo' = Named(touched)' /\ UNCHANGED <<archive, recovering, left>>
  BY DEF Core, Installs, Installing, RecordFails, Named
<1>4. FilesOK'
  BY <1>2, <1>3 DEF Core, FilesOK, RecordFails, Updating, Installing, Named
<1>5. RollsBack'
  BY <1>2, <1>3 DEF RollsBack, Named
<1>6. Recovers' /\ Rests' /\ Purges' /\ Installs'
  BY <1>3 DEF Core, Recovers, Rests, Purges, Installs, Installing, RecordFails
<1>7. Same
  BY <1>2, <1>3 DEF Same, Effective
<1> QED
  BY <1>4, <1>5, <1>6, <1>7 DEF Core, Allowed

LEMMA MoveStep == ASSUME Core, Move PROVE Core' /\ Allowed
<1>1. /\ UNCHANGED <<journal, touched, archive, todo, cur, recovering, left>> /\ journal = touched
      /\ pc = "move" /\ pc' = "copy" /\ cur \in Skill /\ cur \in Named(touched)
  BY DEF Core, FilesOK, Installs, Installing, Move, memory
<1>2. FilesOK'
  BY <1>1 DEF Core, FilesOK, Content, Move, Updating, Installing, memory
<1>3. /\ \A t \in Skill : t # cur => live'[t] = live[t] /\ backup'[t] = backup[t]
      /\ touched[cur] = "backup" => backup'[cur] = live[cur] /\ live[cur] # "absent" /\ live'[cur] = "absent"
      /\ touched[cur] # "backup" => backup'[cur] = backup[cur] /\ live'[cur] = live[cur]
      /\ touched[cur] \in {"created", "backup"} /\ backup[cur] = "absent"
  BY <1>1 DEF Core, FilesOK, Installs, Move, Named, Entry
<1>4. Installs'
  BY <1>1, <1>3 DEF Core, Installs, Installing, Covered, Named
<1>5. Recovers' /\ Rests' /\ Purges' /\ RollsBack'
  BY <1>1 DEF Core, Recovers, Rests, Purges, RollsBack
<1>6. Same
  BY <1>1, <1>3 DEF Same, Effective
<1> QED
  BY <1>2, <1>4, <1>5, <1>6 DEF Core, Allowed

(* A step that changes the folder of one covered skill shows nothing. *)
LEMMA CopyStep == ASSUME Core, ~disturbed, Copy \/ Copied PROVE Core' /\ Allowed
<1>1. /\ UNCHANGED <<backup, journal, touched, archive, cur, recovering, left>> /\ journal = touched
      /\ pc \in {"copy", "copying"} /\ cur \in Skill /\ cur \in Named(touched) /\ Covered(cur)
  BY DEF Core, FilesOK, Installs, Installing, Copy, Copied, memory
<1>2. /\ live' \in [Skill -> Content] /\ \A t \in Skill : t # cur => live'[t] = live[t]
      /\ \/ pc' = "copying" /\ todo' = todo
         \/ pc' = "next" /\ todo' = todo \ {cur} /\ live'[cur] = "fresh"
  BY <1>1 DEF Core, FilesOK, Content, Copy, Copied, Copies, memory
<1>3. FilesOK'
  BY <1>1, <1>2 DEF Core, FilesOK, Copy, Copied, Updating, Installing, memory
<1>4. Installs'
  BY <1>1, <1>2 DEF Core, Installs, Installing, Covered, Named
<1>5. Recovers' /\ Rests' /\ Purges' /\ RollsBack'
  BY <1>1, <1>2 DEF Core, Recovers, Rests, Purges, RollsBack
<1>6. Same
  BY <1>1, <1>2 DEF Same, Effective, Covered
<1> QED
  BY <1>3, <1>4, <1>5, <1>6 DEF Core, Allowed

LEMMA MetadataStep == ASSUME Core, AllCopied \/ WriteMetadata PROVE Core' /\ Allowed
<1>1. CASE AllCopied
  <2>1. FilesOK'
    BY <1>1 DEF Core, FilesOK, AllCopied, disk, Updating, Installing
  <2>2. Installs'
    BY <1>1 DEF Core, Installs, Installing, AllCopied, disk, Covered, Named
  <2>3. Recovers' /\ Rests' /\ Purges' /\ RollsBack'
    BY <1>1 DEF Core, Recovers, Rests, Purges, RollsBack, AllCopied
  <2> QED
    BY <1>1, <2>1, <2>2, <2>3, SameDisk DEF Core, Allowed, AllCopied
<1>2. CASE WriteMetadata
  <2>1. PICK s \in todo : /\ live' = [live EXCEPT ![s] = "new"]
                         /\ todo' = todo \ {s}
    <3>1. PICK s \in todo : /\ live' = [live EXCEPT ![s] = IF @ = "fresh" THEN "new" ELSE "part"]
                           /\ todo' = todo \ {s}
      BY <1>2 DEF WriteMetadata
    <3>2. s \in Skill /\ live[s] = "fresh"
      BY <1>2 DEF Core, FilesOK, Installs, WriteMetadata
    <3> QED
      BY <3>1, <3>2 DEF Core, FilesOK
  <2>2. /\ UNCHANGED <<backup, journal, touched, archive, recovering, left>> /\ journal = touched
        /\ pc = "meta" /\ pc' = (IF todo' = {} THEN "clear" ELSE "meta")
        /\ s \in Skill /\ s \in Named(touched) /\ Covered(s)
    BY <1>2 DEF Core, FilesOK, Installs, Installing, WriteMetadata
  <2>3. \A t \in Skill : live'[t] = IF t = s THEN "new" ELSE live[t]
    BY <2>1, <2>2 DEF Core, FilesOK
  <2>4. FilesOK'
    BY <1>2, <2>1, <2>2 DEF Core, FilesOK, Content, WriteMetadata, Updating, Installing
  <2>5. Installs'
    BY <2>1, <2>2, <2>3 DEF Core, FilesOK, Installs, Installing, Covered, Named
  <2>6. Recovers' /\ Rests' /\ Purges' /\ RollsBack'
    BY <2>2 DEF Core, Recovers, Rests, Purges, RollsBack
  <2>7. Same
    BY <2>2, <2>3 DEF Same, Effective, Covered
  <2> QED
    BY <2>4, <2>5, <2>6, <2>7 DEF Core, Allowed
<1> QED
  BY <1>1, <1>2

-----------------------------------------------------------------------------
(* The commit, and what follows it.                                         *)
LEMMA CommitStep == ASSUME Core, ClearJournal PROVE Core' /\ Allowed
<1>1. /\ UNCHANGED <<live, backup, touched, archive, recovering, left>> /\ journal = touched /\ journal' = NoEntries
      /\ pc = "clear" /\ pc' = "purge" /\ archive = Named(touched) /\ \A s \in archive : live[s] = "new"
  BY DEF Core, Installs, Installing, ClearJournal
<1>2. FilesOK'
  BY <1>1 DEF Core, FilesOK, ClearJournal, NoEntries, Entry, Updating, Installing
<1>3. Recovers' /\ Rests' /\ Purges' /\ RollsBack' /\ Installs'
  BY <1>1 DEF Core, Recovers, Rests, Purges, RollsBack, Installs, Installing
<1>4. \A s \in Skill : journal'[s] = "none" /\ (s \notin archive => journal[s] = "none")
  BY <1>1 DEF NoEntries, Named
<1>5. InWork = archive /\ InWork' = archive
  <2>1. Named(left) = {} /\ Named(left') = {} /\ Named(journal') = {}
    BY <1>1 DEF Core, Recovers, Named, NoEntries, ClearJournal
  <2> QED
    BY <1>1, <2>1 DEF InWork, Named
<1>6. Commits
  BY <1>1, <1>4, <1>5 DEF Commits, Effective
<1> QED
  BY <1>2, <1>3, <1>6 DEF Core, Allowed

LEMMA PurgeStep == ASSUME Core, Purge \/ UpdateReturns PROVE Core' /\ Allowed
<1>1. /\ UNCHANGED <<live, journal, recovering, left>> /\ journal = NoEntries
      /\ \/ pc' = "purge" /\ UNCHANGED <<touched, archive>>
         \/ pc' = "idle" /\ touched' = NoEntries /\ archive' = {}
      /\ pc = "purge"
  BY DEF Core, Purges, Purge, UpdateReturns, disk
<1>2. FilesOK'
  <2>1. CASE Purge
    BY <2>1 DEF Core, FilesOK, Purge, Content
  <2>2. CASE UpdateReturns
    BY <2>2 DEF Core, FilesOK, UpdateReturns, NoEntries, Entry, disk
  <2> QED
    BY <2>1, <2>2
<1>3. Recovers' /\ Rests' /\ Purges' /\ RollsBack' /\ Installs'
  BY <1>1 DEF Core, Recovers, Rests, Purges, RollsBack, Installs, Installing
<1>4. Same
  BY <1>1 DEF Same, Effective, NoEntries
<1> QED
  BY <1>2, <1>3, <1>4 DEF Core, Allowed

-----------------------------------------------------------------------------
(* Rolling back.                                                            *)
LEMMA FailStep == ASSUME Core, Fail PROVE Core' /\ Allowed
<1>1. /\ UNCHANGED <<live, backup, journal, touched, archive, recovering, left>> /\ journal = touched
      /\ pc \in Installing \cup {"clear"} /\ pc' = "rollback" /\ todo' = Named(touched)
  BY DEF Core, Installs, Fail, disk
<1>2. FilesOK'
  BY <1>1 DEF Core, FilesOK, Fail, Named, Updating, Installing
<1>3. Recovers' /\ Rests' /\ Purges' /\ Installs'
  BY <1>1 DEF Core, Recovers, Rests, Purges, Installs, Installing
<1>4. RollsBack'
  BY <1>1 DEF RollsBack, Named
<1> QED
  BY <1>1, <1>2, <1>3, <1>4, SameDisk DEF Core, Allowed, disk

LEMMA RestoreStep ==
  ASSUME FilesOK, NEW s \in Skill, NEW e \in {"created", "backup"}, Restore(s, e), UNCHANGED journal,
         journal[s] = e \/ (journal[s] = "none" /\ backup[s] = "absent" /\ (e = "created" => live[s] = "absent"))
  PROVE  /\ live' \in [Skill -> Content] /\ backup' \in [Skill -> Content]
         /\ \A t \in Skill : t # s => live'[t] = live[t] /\ backup'[t] = backup[t]
         /\ e = "created" => live'[s] = "absent" /\ backup'[s] = backup[s]
         /\ e = "backup" => backup'[s] = "absent"
         /\ Same
<1>1. live' \in [Skill -> Content] /\ backup' \in [Skill -> Content]
  BY DEF FilesOK, Restore, Content
<1>2. /\ \A t \in Skill : t # s => live'[t] = live[t] /\ backup'[t] = backup[t]
      /\ e = "created" => live'[s] = "absent" /\ backup'[s] = backup[s]
      /\ e = "backup" => backup'[s] = "absent" /\ live'[s] = (IF backup[s] # "absent" THEN backup[s] ELSE live[s])
  BY DEF FilesOK, Restore
<1>3. Same
  BY <1>2 DEF Same, Effective
<1> QED
  BY <1>1, <1>2, <1>3

LEMMA DismantleStep ==
  ASSUME FilesOK, NEW s \in Skill, NEW e \in {"created", "backup"}, Dismantle(s, e), UNCHANGED <<journal, backup>>,
         journal[s] = e \/ (journal[s] = "none" /\ backup[s] = "absent" /\ (e = "created" => live[s] = "absent"))
  PROVE  /\ live' \in [Skill -> Content] /\ journal[s] = e
         /\ \A t \in Skill : t # s => live'[t] = live[t]
         /\ Same
<1>1. live' \in [Skill -> Content] /\ \A t \in Skill : t # s => live'[t] = live[t]
  BY DEF FilesOK, Dismantle, Content
<1>2. journal[s] = e /\ (e = "created" \/ backup[s] # "absent")
  BY DEF Dismantle, HasWork
<1>3. Same
  BY <1>1, <1>2 DEF Same, Effective
<1> QED
  BY <1>1, <1>2, <1>3

LEMMA RollBackStep == ASSUME Core, RollBack \/ RollBackFails \/ RollBackRemoves PROVE Core' /\ Allowed
<1>1. /\ UNCHANGED <<journal, touched, target, archive, cur, recovering, left, pc>> /\ pc = "rollback"
      /\ FilesOK /\ RollsBack /\ ~recovering
  <2>1. UNCHANGED <<journal, touched, target, archive, cur, recovering, left, pc>> /\ pc = "rollback"
    <3>1. CASE RollBack BY <3>1 DEF RollBack
    <3>2. CASE RollBackFails BY <3>2 DEF RollBackFails, disk
    <3>3. CASE RollBackRemoves BY <3>3 DEF RollBackRemoves, memory
    <3> QED BY <3>1, <3>2, <3>3
  <2> QED BY <2>1 DEF Core, Recovers
<1>2. \A s \in todo : /\ s \in Skill /\ touched[s] \in {"created", "backup"}
                      /\ \/ journal[s] = touched[s]
                         \/ journal[s] = "none" /\ backup[s] = "absent" /\ (touched[s] = "created" => live[s] = "absent")
  BY <1>1 DEF FilesOK, RollsBack, Named, Entry
<1>3. Recovers' /\ Rests' /\ Purges' /\ Installs'
  BY <1>1 DEF Core, Recovers, Rests, Purges, Installs, Installing
<1>4. CASE RollBack
  <2>1. PICK s \in todo : Restore(s, touched[s]) /\ todo' = todo \ {s}
    BY <1>4 DEF RollBack
  <2>2. /\ live' \in [Skill -> Content] /\ backup' \in [Skill -> Content]
        /\ \A t \in Skill : t # s => live'[t] = live[t] /\ backup'[t] = backup[t]
        /\ touched[s] = "created" => live'[s] = "absent" /\ backup'[s] = backup[s]
        /\ touched[s] = "backup" => backup'[s] = "absent"
        /\ Same
    BY <1>1, <1>2, <2>1, RestoreStep
  <2>3. FilesOK'
    BY <1>1, <1>4, <2>1, <2>2 DEF FilesOK, RollBack
  <2>4. RollsBack'
    BY <1>1, <1>2, <1>4, <2>1, <2>2 DEF FilesOK, RollsBack, Named, Undone, RollBack
  <2> QED
    BY <1>3, <2>2, <2>3, <2>4 DEF Core, Allowed
<1>5. CASE RollBackFails
  <2>1. UNCHANGED <<live, backup>> /\ kept' = TRUE /\ todo' \subseteq todo
    BY <1>5 DEF RollBackFails, disk
  <2>2. FilesOK' /\ RollsBack'
    BY <1>1, <2>1 DEF FilesOK, RollsBack, Named
  <2> QED
    BY <1>1, <1>3, <2>1, <2>2, SameDisk DEF Core, Allowed, disk
<1>6. CASE RollBackRemoves
  <2>1. PICK s \in todo : Dismantle(s, touched[s])
    BY <1>6 DEF RollBackRemoves
  <2>2. UNCHANGED <<backup, todo, kept>>
    BY <1>6 DEF RollBackRemoves, memory
  <2>3. /\ live' \in [Skill -> Content] /\ journal[s] = touched[s] /\ Same
        /\ \A t \in Skill : t # s => live'[t] = live[t]
    BY <1>1, <1>2, <2>1, <2>2, DismantleStep
  <2>4. FilesOK'
    BY <1>1, <2>2, <2>3 DEF FilesOK
  <2>5. RollsBack'
    BY <1>1, <1>2, <2>1, <2>2, <2>3 DEF FilesOK, RollsBack, Named, Undone
  <2> QED
    BY <1>3, <2>3, <2>4, <2>5 DEF Core, Allowed
<1> QED
  BY <1>4, <1>5, <1>6

(* A journal is deleted only when none of its entries has an effect. *)
LEMMA UndoneIsSame ==
  ASSUME FilesOK, \A s \in Named(journal) : Undone(s), journal' = NoEntries, UNCHANGED <<live, backup>>
  PROVE  Same
<1>1. \A s \in Skill : journal'[s] = "none" /\ journal[s] \in Entry
  BY DEF FilesOK, NoEntries
<1> QED
  BY <1>1 DEF Same, Effective, Undone, Named, Entry

LEMMA RollBackEndsStep == ASSUME Core, RollBackEnds PROVE Core' /\ Allowed
<1>1. /\ UNCHANGED <<live, backup, recovering, left>> /\ touched' = NoEntries /\ archive' = {}
      /\ pc = "rollback" /\ pc' = "idle" /\ todo = {} /\ ~recovering
  BY DEF Core, Recovers, RollBackEnds
<1>2. FilesOK'
  BY DEF Core, FilesOK, RollBackEnds, NoEntries, Entry, Updating, Installing
<1>3. Recovers' /\ Rests' /\ Purges' /\ Installs' /\ RollsBack'
  BY <1>1 DEF Core, Recovers, Rests, Purges, Installs, Installing, RollsBack
<1>4. CASE journal' = journal
  BY <1>1, <1>2, <1>3, <1>4, SameDisk DEF Core, Allowed, disk
<1>5. CASE journal' # journal
  <2>1. journal' = NoEntries /\ ~kept
    BY <1>5 DEF RollBackEnds
  <2>2. \A s \in Named(journal) : Undone(s)
    BY <1>1, <2>1 DEF Core, RollsBack
  <2> QED
    BY <1>1, <1>2, <1>3, <2>1, <2>2, UndoneIsSame DEF Core, Allowed
<1> QED
  BY <1>4, <1>5

-----------------------------------------------------------------------------
(* Plain installs.                                                          *)
LEMMA InstallShows ==
  ASSUME FilesOK, PlainInstall
  PROVE  FilesOK' /\ (Same \/ Installed)
<1>1. UNCHANGED <<backup, journal, touched, target, archive, todo, kept, recovering, left>>
  BY DEF PlainInstall, BeginInstall, EndInstall, InstallFails, disk, memory
<1>3. CASE InstallFails
  <2>1. FilesOK' /\ UNCHANGED disk
    BY <1>3 DEF FilesOK, InstallFails, disk, memory, Updating, Installing
  <2> QED
    BY <2>1, SameDisk
<1>4. CASE BeginInstall \/ EndInstall
  <2>1. PICK s \in Skill, c \in {"part", "inst"} : live' = [live EXCEPT ![s] = c] /\ cur' \in Skill
    BY <1>4 DEF FilesOK, BeginInstall, EndInstall, Copies, memory
  <2>2. live' \in [Skill -> Content] /\ \A t \in Skill : live'[t] = IF t = s THEN c ELSE live[t]
    BY <2>1 DEF FilesOK, Content
  <2>3. FilesOK'
    BY <1>1, <1>4, <2>1, <2>2 DEF FilesOK, BeginInstall, EndInstall
  <2>4. Same \/ \A t \in Skill : Effective'[t] = IF t = s THEN c ELSE Effective[t]
    <3>1. \A t \in Skill : t # s => Effective'[t] = Effective[t]
      BY <1>1, <2>2 DEF Effective
    <3>2. Effective'[s] = Effective[s] \/ Effective'[s] = c
      BY <1>1, <2>2 DEF Effective
    <3> QED
      BY <3>1, <3>2 DEF Same
  <2>5. InWork' = InWork
    BY <1>1 DEF InWork
  <2> QED
    BY <2>3, <2>4, <2>5 DEF Installed
<1> QED
  BY <1>3, <1>4 DEF PlainInstall

LEMMA InstallStep == ASSUME Core, ~recovering, PlainInstall PROVE Core' /\ Allowed
<1>1. /\ UNCHANGED <<backup, journal, touched, archive, recovering, left>>
      /\ pc \in {"idle", "install"} /\ pc' \in {"idle", "install"}
  BY DEF PlainInstall, BeginInstall, EndInstall, InstallFails, disk, memory
<1>2. Recovers' /\ Rests' /\ Purges' /\ Installs' /\ RollsBack'
  BY <1>1 DEF Core, Recovers, Rests, Purges, Installs, Installing, RollsBack
<1> QED
  BY <1>2, InstallShows DEF Core, Allowed

-----------------------------------------------------------------------------
(* Crashes and the recovery.                                                *)
LEMMA CrashStep == ASSUME Core, Crash \/ Start PROVE Core' /\ Allowed
<1>1. UNCHANGED disk
  BY DEF Crash, Start
<1>2. FilesOK'
  BY DEF Core, FilesOK, Crash, Start, ReadJournal, disk, memory, NoEntries, Entry, Updating, Installing
<1>3. Recovers'
  BY DEF Core, FilesOK, Entry, Recovers, Crash, Start, ReadJournal, disk, NoEntries, Undone
<1>4. Rests' /\ Purges' /\ Installs' /\ RollsBack'
  BY DEF Core, Rests, Purges, Installs, Installing, RollsBack, Crash, Start, memory
<1> QED
  BY <1>1, <1>2, <1>3, <1>4, SameDisk DEF Core, Allowed

LEMMA RecoveryStep ==
  ASSUME Core,
         (Reload /\ pc = "idle") \/ RecoverEntry \/ RecoverRemoves \/ RecoverFails \/ RecoverEnds
  PROVE  Core' /\ Allowed
<1>1. UNCHANGED memory /\ pc = "idle" /\ pc' = "idle" /\ FilesOK /\ UNCHANGED <<touched, archive>>
  BY DEF Core, Recovers, Reload, RecoverEntry, RecoverRemoves, RecoverFails, RecoverEnds, memory
<1>2. Rests' /\ Purges' /\ Installs' /\ RollsBack'
  BY <1>1 DEF Core, Rests, Purges, Installs, Installing, RollsBack
<1>3. CASE Reload \/ RecoverFails
  <2>1. UNCHANGED disk /\ FilesOK'
    BY <1>1, <1>3 DEF FilesOK, Reload, ReadJournal, RecoverFails, disk, memory, NoEntries, Entry
  <2>2. Recovers'
    BY <1>1, <1>3 DEF FilesOK, Entry, Recovers, Reload, ReadJournal, RecoverFails, disk, NoEntries, Undone
  <2> QED
    BY <1>2, <2>1, <2>2, SameDisk DEF Core, Allowed
<1>4. CASE RecoverEntry
  <2>1. PICK s \in Named(left) : Restore(s, left[s]) /\ left' = [left EXCEPT ![s] = "none"]
    BY <1>4 DEF RecoverEntry
  <2>2. /\ UNCHANGED <<journal, recovering>> /\ recovering
        /\ s \in Skill /\ left[s] = journal[s] /\ journal[s] \in {"created", "backup"}
    BY <1>1, <1>4, <2>1 DEF Core, FilesOK, Recovers, RecoverEntry, Named, Entry
  <2>3. /\ live' \in [Skill -> Content] /\ backup' \in [Skill -> Content]
        /\ \A t \in Skill : t # s => live'[t] = live[t] /\ backup'[t] = backup[t]
        /\ journal[s] = "created" => live'[s] = "absent" /\ backup'[s] = backup[s]
        /\ journal[s] = "backup" => backup'[s] = "absent"
        /\ Same
    BY <1>1, <2>1, <2>2, RestoreStep
  <2>4. FilesOK'
    BY <1>1, <2>1, <2>2, <2>3 DEF FilesOK, memory, Entry
  <2>5. Recovers'
    BY <1>1, <2>1, <2>2, <2>3 DEF Core, FilesOK, Recovers, Undone
  <2> QED
    BY <1>2, <2>3, <2>4, <2>5 DEF Core, Allowed
<1>5. CASE RecoverRemoves
  <2>1. PICK s \in Named(left) : Dismantle(s, left[s])
    BY <1>5 DEF RecoverRemoves
  <2>2. /\ UNCHANGED <<backup, journal, left, recovering>> /\ recovering
        /\ s \in Skill /\ left[s] = journal[s] /\ journal[s] \in {"created", "backup"}
    BY <1>1, <1>5, <2>1 DEF Core, FilesOK, Recovers, RecoverRemoves, Named, Entry
  <2>3. live' \in [Skill -> Content] /\ Same /\ \A t \in Skill : t # s => live'[t] = live[t]
    BY <1>1, <2>1, <2>2, DismantleStep
  <2>4. FilesOK'
    BY <1>1, <2>2, <2>3 DEF FilesOK, memory
  <2>5. Recovers'
    BY <1>1, <2>1, <2>2, <2>3 DEF Core, FilesOK, Recovers, Undone
  <2> QED
    BY <1>2, <2>3, <2>4, <2>5 DEF Core, Allowed
<1>6. CASE RecoverEnds
  <2>1. /\ UNCHANGED <<live, backup, left>> /\ left = NoEntries /\ journal' = NoEntries /\ ~recovering'
        /\ \A s \in Named(journal) : Undone(s)
    BY <1>6 DEF Core, Recovers, RecoverEnds, Named, NoEntries
  <2>2. FilesOK'
    <3>1. journal' \in [Skill -> Entry]
      BY <2>1 DEF NoEntries, Entry
    <3>2. UNCHANGED <<target, archive, todo, cur, kept, pc>> /\ recovering' \in BOOLEAN
      BY <1>6 DEF RecoverEnds, memory
    <3> QED
      BY <1>1, <2>1, <3>1, <3>2 DEF FilesOK
  <2>3. Recovers'
    BY <2>1 DEF Recovers, NoEntries
  <2> QED
    BY <1>1, <1>2, <2>1, <2>2, <2>3, UndoneIsSame DEF Core, Allowed
<1> QED
  BY <1>3, <1>4, <1>5, <1>6

-----------------------------------------------------------------------------
(* An update and a recovery at once: what they are at work on may change,   *)
(* and nothing else.                                                        *)
LEMMA BaseUpdate == ASSUME Base, Update PROVE Base'
<1> USE DEF Base, disk, memory
<1>1. CASE BeginUpdate
  BY <1>1 DEF BeginUpdate, FilesOK, Rests, Sources, Updating, Installing, Named, NoEntries
<1>2. CASE Record \/ RecordFails
  <2>1. PICK s \in todo : Choose(s)
    BY <1>2 DEF Record, RecordFails
  <2>2. pc = "next" /\ s \in archive /\ s \in Skill /\ Named(touched) \subseteq archive /\ todo \subseteq archive
    BY <1>2 DEF Record, RecordFails, FilesOK, Sources, Updating, Installing
  <2>3. /\ touched' \in [Skill -> Entry] /\ backup' \in [Skill -> Content] /\ cur' = s
        /\ \A t \in Skill : t # s => touched'[t] = touched[t]
    BY <2>1, <2>2 DEF FilesOK, Choose, Entry, Content
  <2>4. Named(touched') \subseteq archive /\ Named(touched') \subseteq Skill
    BY <2>2, <2>3 DEF Named
  <2>5. /\ UNCHANGED <<live, target, archive, kept, recovering, left>>
        /\ \/ journal' = touched' /\ todo' = todo /\ pc' = "move"
           \/ journal' = journal /\ todo' = Named(touched') /\ pc' = "rollback"
    BY <1>2 DEF Record, Recorded, RecordFails, Named
  <2> QED
    BY <2>2, <2>3, <2>4, <2>5 DEF FilesOK, Rests, Sources, Updating, Installing, Named
<1>3. CASE Move \/ Copy \/ Copied
  <2>1. /\ UNCHANGED <<journal, touched, target, archive, cur, kept, recovering, left>>
        /\ live' \in [Skill -> Content] /\ backup' \in [Skill -> Content]
        /\ todo' \subseteq todo /\ pc' \in {"copy", "copying", "next"}
        /\ pc \in {"move", "copy", "copying"}
    BY <1>3 DEF Move, Copy, Copied, Copies, FilesOK, Content
  <2> QED
    BY <2>1 DEF FilesOK, Rests, Sources, Updating, Installing, Named
<1>4. CASE AllCopied \/ WriteMetadata \/ ClearJournal \/ Fail
  <2>1. /\ UNCHANGED <<backup, touched, target, archive, cur, kept, recovering, left>>
        /\ live' \in [Skill -> Content] /\ journal' \in [Skill -> Entry]
        /\ todo' \subseteq todo \cup archive \cup Named(touched)
        /\ pc' \in {"meta", "clear", "purge", "rollback"} /\ pc \in Installing \cup {"clear"}
    BY <1>4 DEF AllCopied, WriteMetadata, ClearJournal, Fail, FilesOK, Content, NoEntries, Entry,
       Named, Installing
  <2> QED
    BY <2>1 DEF FilesOK, Rests, Sources, Updating, Installing, Named
<1>5. CASE Purge \/ RollBack \/ RollBackFails \/ RollBackRemoves
  <2>1. /\ UNCHANGED <<journal, touched, target, archive, cur, recovering, left, pc>>
        /\ live' \in [Skill -> Content] /\ backup' \in [Skill -> Content]
        /\ todo' \subseteq todo /\ kept' \in BOOLEAN /\ pc \in {"purge", "rollback"}
    BY <1>5 DEF Purge, RollBack, RollBackFails, RollBackRemoves, Restore, Dismantle, FilesOK, Content
  <2> QED
    BY <2>1 DEF FilesOK, Rests, Sources, Updating, Installing, Named
<1>6. CASE UpdateReturns \/ RollBackEnds
  <2>1. NoEntries \in [Skill -> Entry]
    BY DEF NoEntries, Entry
  <2>2. /\ UNCHANGED <<live, backup, target, todo, cur, recovering, left>>
        /\ journal' = journal \/ journal' = NoEntries
        /\ kept' = kept \/ kept' = FALSE
        /\ pc' = "idle" /\ archive' = {} /\ touched' = NoEntries
    BY <1>6 DEF UpdateReturns, RollBackEnds
  <2>3. FilesOK'
    BY <2>1, <2>2 DEF FilesOK
  <2> QED
    BY <2>2, <2>3 DEF Rests, Sources, Updating, Installing
<1> QED
  BY <1>1, <1>2, <1>3, <1>4, <1>5, <1>6 DEF Update

LEMMA BaseOther == ASSUME Base, PlainInstall \/ Recovery PROVE Base'
<1> USE DEF Base, disk, memory
<1>1. CASE PlainInstall
  <2>1. /\ UNCHANGED <<touched, archive, recovering, left>>
        /\ pc \in {"idle", "install"} /\ pc' \in {"idle", "install"}
    BY <1>1 DEF PlainInstall, BeginInstall, EndInstall, InstallFails
  <2> QED
    BY <1>1, <2>1, InstallShows DEF Rests, Sources, Updating, Installing
<1>2. CASE Crash \/ Start
  <2>1. NoEntries \in [Skill -> Entry] /\ Named(NoEntries) = {}
    BY DEF NoEntries, Entry, Named
  <2>2. CASE Crash
    <3>1. /\ UNCHANGED <<live, backup, journal, target, cur>>
          /\ touched' = NoEntries /\ left' = NoEntries /\ archive' = {} /\ todo' = {}
          /\ kept' = FALSE /\ recovering' = FALSE /\ pc' = "down"
      BY <2>2 DEF Crash
    <3>2. FilesOK'
      BY <2>1, <3>1 DEF FilesOK
    <3> QED
      BY <3>1, <3>2 DEF Rests, Sources, Updating, Installing
  <2>3. CASE Start
    <3>1. /\ UNCHANGED <<live, backup, journal, touched, target, archive, todo, cur, kept>>
          /\ left' = journal /\ pc = "down" /\ pc' = "idle"
          /\ recovering' \in BOOLEAN /\ (~recovering' => left' = NoEntries)
      BY <2>3 DEF Start, ReadJournal
    <3>2. FilesOK'
      BY <3>1 DEF FilesOK
    <3> QED
      BY <3>1, <3>2 DEF Rests, Sources, Updating, Installing
  <2> QED
    BY <1>2, <2>2, <2>3
<1>3. CASE Reload \/ RecoverEntry \/ RecoverRemoves \/ RecoverFails \/ RecoverEnds
  <2>1. UNCHANGED <<touched, target, archive, todo, cur, kept, pc>>
    BY <1>3 DEF Reload, RecoverEntry, RecoverRemoves, RecoverFails, RecoverEnds
  <2>2. /\ live' \in [Skill -> Content] /\ backup' \in [Skill -> Content]
        /\ journal' \in [Skill -> Entry] /\ left' \in [Skill -> Entry]
        /\ recovering' \in BOOLEAN /\ (~recovering' => left' = NoEntries)
    <3>1. NoEntries \in [Skill -> Entry]
      BY DEF NoEntries, Entry
    <3>2. CASE Reload \/ RecoverFails \/ RecoverEnds
      BY <1>3, <3>1, <3>2 DEF Reload, ReadJournal, RecoverFails, RecoverEnds, FilesOK
    <3>3. CASE RecoverEntry
      <4>1. PICK s \in Skill : Restore(s, left[s]) /\ left' = [left EXCEPT ![s] = "none"]
        BY <3>3 DEF RecoverEntry, Named
      <4>2. UNCHANGED <<journal, recovering>> /\ recovering
        BY <3>3 DEF RecoverEntry
      <4> QED
        BY <4>1, <4>2 DEF Restore, FilesOK, Content, Entry
    <3>4. CASE RecoverRemoves
      <4>1. PICK s \in Skill : Dismantle(s, left[s])
        BY <3>4 DEF RecoverRemoves, Named
      <4>2. UNCHANGED <<backup, journal, recovering, left>>
        BY <3>4 DEF RecoverRemoves
      <4> QED
        BY <4>1, <4>2 DEF Dismantle, FilesOK, Content
    <3> QED
      BY <1>3, <3>2, <3>3, <3>4
  <2>3. FilesOK'
    BY <2>1, <2>2 DEF FilesOK
  <2> QED
    BY <2>1, <2>2, <2>3 DEF Rests, Sources
<1> QED
  BY <1>1, <1>2, <1>3 DEF Recovery

(* A step that changes only folders in work shows nothing of the others.    *)
LEMMA OnlyInWork ==
  ASSUME FilesOK, FilesOK', \A s \in Skill \ (InWork \cup InWork') : live'[s] = live[s]
  PROVE  Others
<1>1. \A s \in Skill \ (InWork \cup InWork') : journal[s] = "none" /\ journal'[s] = "none"
  BY DEF InWork, Named
<1> QED
  BY <1>1 DEF Others, Effective

LEMMA OthersStep == ASSUME Base, Update \/ PlainInstall \/ Recovery PROVE Others \/ Installed
<1>1. FilesOK /\ FilesOK'
  BY BaseUpdate, BaseOther DEF Base
<1>2. CASE PlainInstall
  BY <1>1, <1>2, InstallShows DEF Same, Others
<1>3. CASE Update \/ Recovery
  <2>1. \A s \in Skill \ (archive \cup Named(left)) : live'[s] = live[s]
    <3>1. CASE Move \/ Copy \/ Copied
      BY <1>1, <3>1 DEF Base, FilesOK, Sources, Updating, Installing, Move, Copy, Copied
    <3>2. CASE WriteMetadata \/ RollBack \/ RollBackRemoves
      BY <1>1, <3>2 DEF Base, FilesOK, Sources, Updating, Installing, WriteMetadata, RollBack,
         RollBackRemoves, Restore, Dismantle
    <3>3. CASE RecoverEntry \/ RecoverRemoves
      BY <1>1, <3>3 DEF FilesOK, RecoverEntry, RecoverRemoves, Restore, Dismantle
    <3>4. CASE live' = live
      BY <3>4
    <3>5. CASE BeginUpdate \/ Record \/ RecordFails \/ AllCopied \/ ClearJournal \/ Purge \/ UpdateReturns
      BY <3>4, <3>5 DEF BeginUpdate, Record, RecordFails, AllCopied, ClearJournal, Purge, UpdateReturns, disk
    <3>6. CASE \/ Fail \/ RollBackFails \/ RollBackEnds
               \/ Crash \/ Start \/ Reload \/ RecoverFails \/ RecoverEnds
      BY <3>4, <3>6 DEF Fail, RollBackFails, RollBackEnds, Crash, Start, Reload, RecoverFails, RecoverEnds, disk
    <3> QED
      BY <1>3, <3>1, <3>2, <3>3, <3>5, <3>6 DEF Update, Recovery
  <2> QED
    BY <1>1, <2>1, OnlyInWork DEF InWork
<1> QED
  BY <1>2, <1>3

(* Both are at rest again. *)
LEMMA CoreAgain ==
  ASSUME Base', ~(recovering \/ Busy)'
  PROVE  Core'
<1>1. ~recovering' /\ pc' \in {"idle", "down"}
  BY DEF Base, FilesOK, Busy
<1> QED
  BY <1>1 DEF Base, Core, Recovers, Installs, Purges, RollsBack, Installing

LEMMA Step ==
  ASSUME Inv, [Next]_vars
  PROVE  Inv' /\ (Allowed \/ (disturbed /\ Others))
<1>1. CASE UNCHANGED vars
  <2>1. UNCHANGED <<live, backup, journal, touched, target, archive, todo, cur, pc, kept, recovering, left, disturbed>>
    BY <1>1 DEF vars, files
  <2>2. Inv'
    BY <2>1 DEF Inv, TypeOK, Base, Core, FilesOK, Recovers, Rests, Sources, Installs, Purges,
       RollsBack, Covered, Undone, Named
  <2>3. UNCHANGED disk
    BY <2>1 DEF disk
  <2> QED
    BY <2>2, <2>3, SameDisk DEF Allowed
<1>2. ASSUME Next
      PROVE  Inv' /\ (Allowed \/ (disturbed /\ Others))
  <2>1. Base /\ Base' /\ (disturbed' \in BOOLEAN)
    BY <1>2, BaseUpdate, BaseOther DEF Inv, Next, Notes
  <2>2. TypeOK'
    BY <2>1 DEF TypeOK, Base
  <2>3. CASE disturbed
    <3>1. disturbed' \/ Core'
      BY <1>2, <2>1, <2>3, CoreAgain DEF Next, Notes
    <3>2. Others \/ Installed
      BY <1>2, <2>1, OthersStep DEF Next
    <3> QED
      BY <2>1, <2>2, <2>3, <3>1, <3>2 DEF Inv, Allowed
  <2>4. CASE ~disturbed
    <3>1. Core
      BY <2>4 DEF Inv
    <3>2. CASE Update
      BY <2>1, <2>2, <2>4, <3>1, <3>2, BeginUpdateStep, RecordStep, RecordFailsStep, MoveStep, CopyStep,
         MetadataStep, CommitStep, PurgeStep, FailStep, RollBackStep, RollBackEndsStep DEF Update, Inv
    <3>3. CASE PlainInstall
      <4>1. ~recovering
        BY <3>1, <3>3 DEF Core, Recovers, PlainInstall, BeginInstall, EndInstall, InstallFails
      <4> QED
        BY <2>1, <2>2, <3>1, <3>3, <4>1, InstallStep DEF Inv
    <3>4. CASE Crash \/ Start
      BY <2>1, <2>2, <3>1, <3>4, CrashStep DEF Inv
    <3>5. CASE Reload /\ pc # "idle"
      <4>1. UNCHANGED disk /\ recovering' /\ Busy'
        BY <2>1, <3>5 DEF Reload, ReadJournal, Busy, Base, FilesOK
      <4>2. disturbed'
        BY <1>2, <4>1 DEF Next, Notes
      <4> QED
        BY <2>1, <2>2, <4>1, <4>2, SameDisk DEF Inv, Allowed
    <3>6. CASE (Reload /\ pc = "idle") \/ RecoverEntry \/ RecoverRemoves \/ RecoverFails \/ RecoverEnds
      BY <2>1, <2>2, <3>1, <3>6, RecoveryStep DEF Inv
    <3> QED
      BY <1>2, <3>2, <3>3, <3>4, <3>5, <3>6 DEF Next, Recovery
  <2> QED
    BY <2>3, <2>4
<1> QED
  BY <1>1, <1>2

-----------------------------------------------------------------------------
(* The types, the journal that agrees with the memory of update(), and the  *)
(* backups that cover what was replaced, in every state of an update, a     *)
(* rollback and a recovery that are alone (skill_installer.py,              *)
(* skill_manager.py); beside each other, that they keep to their skills.    *)
THEOREM Invariant == Spec => []Inv
<1>1. Inv /\ [Next]_vars => Inv'
  BY Step
<1> QED
  BY <1>1, InvInit, PTL DEF Spec

(* ImplementsStore: update(), its rollback and the recovery of the next     *)
(* start implement SkillStore: what the user would be left with changes     *)
(* for all skills of a source at once, when the journal is deleted, or not  *)
(* at all.  Only while a recovery of the same process works beside an       *)
(* update may the skills of the two end as anything.                        *)
THEOREM Implements == Spec => ImplementsStore
<1>1. Init => Store!Init
  <2> SUFFICES ASSUME Init PROVE Store!Init
    OBVIOUS
  <2>1. Effective \in [Skill -> Content]
    BY DEF Init, Effective, Content, NoEntries
  <2>2. InWork = {}
    BY DEF Init, InWork, Named, NoEntries
  <2> QED
    BY <2>1, <2>2 DEF Init, Store!Init, Store!Content, Content
<1>2. Inv /\ [Next]_vars => [Store!Next]_(Store!vars)
  <2> SUFFICES ASSUME Inv, [Next]_vars PROVE [Store!Next]_(Store!vars)
    OBVIOUS
  <2>1. Inv' /\ (Allowed \/ (disturbed /\ Others))
    BY Step
  <2>2. InWork' \in SUBSET Skill /\ disturbed' \in BOOLEAN
    BY <2>1 DEF Inv, TypeOK, FilesOK, InWork, Named
  <2>3. Effective = [s \in Skill |-> Effective[s]] /\ Effective' = [s \in Skill |-> Effective'[s]]
    BY DEF Effective
  <2>4. CASE Same
    <3>1. Effective' = Effective
      BY <2>3, <2>4 DEF Same
    <3> QED
      BY <2>2, <3>1 DEF Store!Next, Store!Choose
  <2>5. CASE Commits
    <3>1. Effective' = [s \in Skill |-> IF s \in InWork THEN "new" ELSE Effective[s]]
      BY <2>3, <2>5 DEF Commits
    <3> QED
      BY <2>2, <2>5, <3>1 DEF Store!Next, Store!Commit, Commits
  <2>6. CASE Installed
    <3>1. PICK s \in Skill, c \in {"part", "inst"} : \A t \in Skill : Effective'[t] = IF t = s THEN c ELSE Effective[t]
      BY <2>6 DEF Installed
    <3>2. Effective' = [Effective EXCEPT ![s] = c]
      BY <2>3, <3>1
    <3> QED
      BY <2>2, <2>6, <3>2 DEF Store!Next, Store!Install, Installed
  <2>7. CASE disturbed /\ Others
    <3>1. Effective' \in [Skill -> Store!Content]
      <4>1. FilesOK'
        BY <2>1 DEF Inv, TypeOK
      <4> QED
        BY <4>1 DEF FilesOK, Effective, Content, Store!Content
    <3> QED
      BY <2>2, <2>7, <3>1 DEF Store!Next, Store!Disturb, Others
  <2> QED
    BY <2>1, <2>4, <2>5, <2>6, <2>7 DEF Allowed
<1> QED
  BY <1>1, <1>2, Invariant, PTL DEF Spec, ImplementsStore, Store!Spec
=============================================================================

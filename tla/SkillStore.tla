----------------------------- MODULE SkillStore -----------------------------
(***************************************************************************)
(* What updating an installed skill promises (agent/skill_installer.py,    *)
(* update(), and the recovery of agent/skill_manager.py): the skills of    *)
(* one source are replaced together or not at all, whatever fails and      *)
(* wherever the program stops.  A plain install promises less: it may      *)
(* leave its skill half copied.  So does an update that a recovery of the  *)
(* same process disturbs: the skills in work may end as anything, and the  *)
(* others are left alone.                                                  *)
(***************************************************************************)
CONSTANT Skill        \* the folders under the skills directory

VARIABLES installed,  \* skill -> content the user is left with
          source,     \* the skills an update replaces or a recovery undoes
          disturbed   \* both have been at work at the same time

Content == {"absent", "part", "old", "inst", "fresh", "new"}

vars == <<installed, source, disturbed>>

Init == /\ installed \in [Skill -> Content]
        /\ source = {} /\ disturbed = FALSE

\* An update or a recovery starts, ends or dies: only what they work on changes.
Choose == /\ source' \in SUBSET Skill
          /\ UNCHANGED installed

\* The whole source becomes current at once.
Commit == /\ installed' = [s \in Skill |-> IF s \in source THEN "new" ELSE installed[s]]
          /\ UNCHANGED source

Install == /\ \E s \in Skill, c \in {"part", "inst"} :
                 installed' = [installed EXCEPT ![s] = c]
           /\ UNCHANGED source

Disturb == /\ disturbed
           /\ source' \in SUBSET Skill
           /\ installed' \in [Skill -> Content]
           /\ \A s \in Skill \ (source \cup source') : installed'[s] = installed[s]

Next == (Choose \/ Commit \/ Install \/ Disturb) /\ disturbed' \in BOOLEAN

Spec == Init /\ [][Next]_vars
=============================================================================

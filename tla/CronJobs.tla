------------------------------ MODULE CronJobs ------------------------------
(***************************************************************************)
(* The jobs of the cron.  The upload of the PDFs and the reminders share   *)
(* no state, so a behaviour is one of the two: the states of the two parts *)
(* add up instead of multiplying.                                          *)
(***************************************************************************)
EXTENDS Archive, Reminders

VARIABLE job

vars == <<archiveVars, remindersVars, job>>

Init == ArchiveInit /\ RemindersInit /\ job \in {"r2-sync", "reminders"}

Next ==
    /\ \/ job = "r2-sync" /\ ArchiveNext /\ UNCHANGED remindersVars
       \/ job = "reminders" /\ RemindersNext /\ UNCHANGED archiveVars
    /\ UNCHANGED job

Spec == Init /\ [][Next]_vars /\ ArchiveFairness
=============================================================================

-------------------------------- MODULE Views --------------------------------
(***************************************************************************)
(* What a browser keeps, shows and sends: drafts and their queue, the      *)
(* pages of a quote and its invoice, the settings, the lists that a page   *)
(* reads by itself, the statistics, and the page of the journal, which     *)
(* verifies rows that may have been changed in the database.  The six      *)
(* share no state, so a behaviour is one of them, and their states add up. *)
(***************************************************************************)
EXTENDS Drafts, Dashboard, Settings, Panels, Stats

CONSTANTS Events, Writers, MaxSeq, MaxChanges   \* of the journal

ASSUME JournalAssumption == {MaxSeq, MaxChanges} \subseteq Nat /\ Null \notin Writers

VARIABLES
    entries, lock, call, before, changes,           \* of the journal
    part

Journal == INSTANCE AuditTamper

journalVars == <<entries, lock, call, before, changes>>
lists == <<panelsVars, statsVars>>
vars == <<draftsVars, dashboardVars, settingsVars, lists, journalVars, part>>

\* A part that does not run starts in one state.
Init ==
    /\ part \in {"drafts", "dashboard", "settings", "panels", "stats", "journal"}
    /\ DraftsInit /\ (part # "drafts" => invalid = {})
    /\ DashboardInit /\ (part # "dashboard" => ~tampered)
    /\ SettingsInit
    /\ PanelsInit /\ (part # "panels" => panel = "team")
    /\ StatsInit
    /\ Journal!TInit

Next ==
    /\ \/ /\ UNCHANGED journalVars
          /\ \/ part = "drafts" /\ DraftsNext /\ UNCHANGED <<dashboardVars, settingsVars, lists>>
             \/ part = "dashboard" /\ DashboardNext /\ UNCHANGED <<draftsVars, settingsVars, lists>>
             \/ part = "settings" /\ SettingsNext /\ UNCHANGED <<draftsVars, dashboardVars, lists>>
             \/ part = "panels" /\ PanelsNext
                /\ UNCHANGED <<draftsVars, dashboardVars, settingsVars, statsVars>>
             \/ part = "stats" /\ StatsNext
                /\ UNCHANGED <<draftsVars, dashboardVars, settingsVars, panelsVars>>
       \/ part = "journal" /\ Journal!TNext
          /\ UNCHANGED <<draftsVars, dashboardVars, settingsVars, lists>>
    /\ UNCHANGED part

Spec == Init /\ [][Next]_vars

\* What AuditTamper says of the rows that verifyAuditChain accepts after changes made in
\* the database (audit.ts, verifyAuditChain): no entry that was left alone follows other
\* entries than it did.
JournalDetectsChanges == Journal!DetectsChanges
=============================================================================

------------------------------ MODULE Settings ------------------------------
(***************************************************************************)
(* The settings page: the forms of the profile and of the company, the     *)
(* logo, the deletion of the account (SettingsForm.tsx, api/settings and   *)
(* logo-storage.ts).                                                       *)
(*                                                                         *)
(* A logo is a file that is unlinked, opened and written, then a path in   *)
(* the row of the company.  Two uploads can be at it at once, and the      *)
(* server can die between two steps.                                       *)
(***************************************************************************)
EXTENDS Naturals, FiniteSets

CONSTANTS
    Windows      \* tabs that show the settings

VARIABLES
    account,     \* "open", or "deleted" by softDeleteAccount
    company,     \* the row: the logo's path is set, the building insurance is
    file,        \* storage/logos/<user>.png: "absent", "empty", "torn", or whose logo it is
    upload,      \* the step of each window's upload
    linked,      \* the windows whose open handle is the file of that name
    settings,    \* what each window shows and waits for
    spoiled      \* two uploads were at the file at once, or one died there (history)

settingsVars == <<account, company, file, upload, linked, settings, spoiled>>

-----------------------------------------------------------------------------
(* The forms                                                               *)

\* Of the fields of the form, the insurance stands for all: its inputs are on the page
\* while BTP is ticked, and are saved as empty when they are not.
Loaded(row) == [insured |-> row.insured, saving |-> {}, told |-> "nothing"]

OpenSettings(w) ==
    /\ account = "open"
    /\ settings' = [settings EXCEPT ![w] = Loaded(company)]
    /\ UNCHANGED <<account, company, file, upload, linked, spoiled>>

\* The answer of the server sets the box again.
TickBtp(w) ==
    /\ "company" \notin settings[w].saving
    /\ settings' = [settings EXCEPT ![w].insured = ~@]
    /\ UNCHANGED <<account, company, file, upload, linked, spoiled>>

Sections == {"profile", "company", "delete"}

\* Each form has a button of its own, busy while its section is saved.
Submits(w, section) ==
    /\ section \notin settings[w].saving
    /\ settings' = [settings EXCEPT ![w].saving = @ \union {section}, ![w].told = "nothing"]
    /\ UNCHANGED <<account, company, file, upload, linked, spoiled>>

\* requireAuth turns down the sessions of a deleted account.
SaveProfile(w) ==
    /\ "profile" \in settings[w].saving /\ account = "open"
    /\ settings' = [settings EXCEPT ![w].saving = @ \ {"profile"}]
    /\ UNCHANGED <<account, company, file, upload, linked, spoiled>>

\* The form carries every field of the company but the logo, whatever other windows
\* have saved since it was loaded.
SaveCompany(w) ==
    /\ "company" \in settings[w].saving /\ account = "open"
    /\ company' = [company EXCEPT !.insured = settings[w].insured]
    /\ settings' = [settings EXCEPT ![w].saving = @ \ {"company"}]
    /\ UNCHANGED <<account, file, upload, linked, spoiled>>

DeleteAccount(w) ==
    /\ "delete" \in settings[w].saving /\ account = "open"
    /\ account' = "deleted"
    /\ settings' = [settings EXCEPT ![w].saving = @ \ {"delete"}, ![w].told = "delete"]
    /\ UNCHANGED <<company, file, upload, linked, spoiled>>

SaveRefused(w, section) ==
    /\ section \in settings[w].saving
    /\ settings' = [settings EXCEPT ![w].saving = @ \ {section}]
    /\ UNCHANGED <<account, company, file, upload, linked, spoiled>>

-----------------------------------------------------------------------------
(* The logo                                                                *)

Touching == {w \in Windows: upload[w] \in {"unlink", "open", "write"}}

\* The steps of an upload; the mutant unlinks the old files once it has written.
UnlinkLast(step) ==
    CASE step = "none" -> "open" [] step = "open" -> "write"
      [] step = "write" -> "unlink" [] step = "unlink" -> "upsert"
After(step) ==
    CASE step = "none" -> "unlink" [] step = "unlink" -> "open"
      [] step = "open" -> "write" [] step = "write" -> "upsert"
Uploading(w, step, next) == upload[w] = step /\ upload' = [upload EXCEPT ![w] = next]

\* A file within the limit is read, sent, checked and re-encoded.
UploadLogo(w) ==
    /\ Uploading(w, "none", After("none"))
    /\ account = "open"
    /\ spoiled' = (spoiled \/ Touching # {})
    /\ UNCHANGED <<account, company, file, linked, settings>>

UploadRefused(w) ==
    /\ Uploading(w, After("none"), "none")
    /\ UNCHANGED <<account, company, file, linked, settings, spoiled>>

\* A handle that others hold goes on writing to a file without a name.
Unlink(w) ==
    /\ Uploading(w, "unlink", After("unlink"))
    /\ file' = "absent"
    /\ linked' = {}
    /\ UNCHANGED <<account, company, settings, spoiled>>

\* writeFile opens with truncation ...
OpenFile(w) ==
    /\ Uploading(w, "open", After("open"))
    /\ file' = "empty"
    /\ linked' = linked \union {w}
    /\ UNCHANGED <<account, company, settings, spoiled>>

\* ... and writes from the start: over a longer content its end remains.
WriteFile(w) ==
    /\ Uploading(w, "write", After("write"))
    /\ file' \in IF w \notin linked THEN {file}
                 ELSE IF file = "empty" THEN {w} ELSE {w, "torn"}
    /\ linked' = linked \ {w}
    /\ UNCHANGED <<account, company, settings, spoiled>>

\* The path goes to the row once the file is written.
UpsertLogo(w) ==
    /\ Uploading(w, "upsert", "none")
    /\ company' = [company EXCEPT !.logo = TRUE]
    /\ settings' = [settings EXCEPT ![w].told = "logo"]
    /\ UNCHANGED <<account, file, linked, spoiled>>

\* The process ends: what was under way stays as it is.
ServerDies ==
    /\ Touching # {}
    /\ spoiled' = TRUE
    /\ upload' = [w \in Windows |-> "none"]
    /\ linked' = {}
    /\ UNCHANGED <<account, company, file, settings>>

-----------------------------------------------------------------------------
SettingsInit ==
    /\ account = "open"
    /\ company = [logo |-> FALSE, insured |-> FALSE]
    /\ file = "absent" /\ linked = {} /\ spoiled = FALSE
    /\ upload = [w \in Windows |-> "none"]
    /\ settings = [w \in Windows |-> Loaded(company)]

SettingsNext == \E w \in Windows:
    \/ OpenSettings(w) \/ TickBtp(w)
    \/ \E section \in Sections: Submits(w, section) \/ SaveRefused(w, section)
    \/ SaveProfile(w) \/ SaveCompany(w) \/ DeleteAccount(w)
    \/ UploadLogo(w) \/ UploadRefused(w) \/ Unlink(w) \/ OpenFile(w) \/ WriteFile(w)
    \/ UpsertLogo(w) \/ ServerDies

-----------------------------------------------------------------------------
(* Properties                                                              *)

\* The path in the company's row leads to a whole image, except between the steps of an
\* upload, after one that died there, or when two windows uploaded at once
\* (logo-storage.ts: saveLogoFile unlinks before it writes); what a window tells of the
\* logo and of the account is so, whatever the other windows do.
LogoKept ==
    /\ company.logo /\ ~spoiled /\ (\A w \in Windows: upload[w] \notin {"open", "write"}) =>
           file \in Windows
    /\ \A w \in Windows:
           /\ settings[w].told = "logo" => company.logo
           /\ settings[w].told = "delete" => account = "deleted"
=============================================================================

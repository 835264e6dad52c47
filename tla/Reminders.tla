----------------------------- MODULE Reminders -----------------------------
(***************************************************************************)
(* The reminder of a quote that stays without answer (reminders.ts): a run *)
(* of the cron takes the quotes that are due, claims them one by one,      *)
(* mails the client and the craftsman, and gives the claim back when       *)
(* neither mail went out.  Two runs may overlap.                           *)
(***************************************************************************)
EXTENDS Naturals

CONSTANTS
    Devis,      \* the quotes sent more than three days ago by a paying user
    Runs        \* the runs of the job

VARIABLES
    devis,      \* each quote: whether it is still open, and reminderSentAt
    run,        \* what each run is doing, with the quotes left to it
    mails       \* the reminders that went out

remindersVars == <<devis, run, mails>>

NoRun == [pc |-> "idle", todo |-> {}, current |-> {}, sent |-> FALSE]

\* The quotes that are left on the list.
Listing(todo) == [pc |-> "claim", todo |-> todo, current |-> {}, sent |-> FALSE]

\* The run is at this step for this quote.
Remind(c, pc, d) == run[c].pc = pc /\ d \in run[c].current
RunTo(c, pc, sent) ==
    run' = [run EXCEPT ![c] = [pc |-> pc, todo |-> run[c].todo, current |-> run[c].current,
                               sent |-> sent]]

SetReminded(d, reminded) ==
    devis' = [devis EXCEPT ![d] = [open |-> devis[d].open, reminded |-> reminded]]

\* The mutant trusts the list it read.
StillListed(d) == devis[d].open
Claimable(d) == devis[d].open /\ ~devis[d].reminded

-----------------------------------------------------------------------------
\* The quotes that are due are read once, at the start.
StartRun(c) ==
    /\ run[c].pc = "idle"
    /\ \E d \in Devis: Claimable(d)
    /\ run' = [run EXCEPT ![c] = Listing({d \in Devis: Claimable(d)})]
    /\ UNCHANGED <<devis, mails>>

\* The guarded update; a quote that another run claimed is skipped.
Claim(c, d) ==
    /\ run[c].pc = "claim" /\ d \in run[c].todo
    /\ IF Claimable(d)
       THEN /\ SetReminded(d, TRUE)
            /\ run' = [run EXCEPT ![c] = [pc |-> "client", todo |-> run[c].todo \ {d},
                                          current |-> {d}, sent |-> FALSE]]
       ELSE /\ run' = [run EXCEPT ![c] = Listing(run[c].todo \ {d})]
            /\ UNCHANGED devis
    /\ UNCHANGED mails

\* A mail may be refused, and a client without an address gets none.
Mail(c, d, sent, next) ==
    /\ \/ mails' = [mails EXCEPT ![d] = sent] /\ RunTo(c, next, TRUE)
       \/ RunTo(c, next, run[c].sent) /\ UNCHANGED mails
    /\ UNCHANGED devis

MailClient(c, d) ==
    /\ Remind(c, "client", d)
    /\ Mail(c, d, [client |-> mails[d].client + 1, artisan |-> mails[d].artisan], "artisan")

MailArtisan(c, d) ==
    /\ Remind(c, "artisan", d)
    /\ Mail(c, d, [client |-> mails[d].client, artisan |-> mails[d].artisan + 1], "mark")

\* When neither mail went out the quote is due again.
Mark(c, d) ==
    /\ Remind(c, "mark", d)
    /\ SetReminded(d, run[c].sent)
    /\ RunTo(c, "audit", run[c].sent)
    /\ UNCHANGED mails

LogReminder(c, d) ==
    /\ Remind(c, "audit", d)
    /\ run' = [run EXCEPT ![c] = Listing(run[c].todo)]
    /\ UNCHANGED <<devis, mails>>

\* The list is through; or a mail, the journal or the process fails, which ends the run
\* and leaves a claim as it is.
EndRun(c) ==
    /\ run[c].pc # "idle"
    /\ run' = [run EXCEPT ![c] = NoRun]
    /\ UNCHANGED <<devis, mails>>

\* The client answers, or the craftsman deletes the quote.
Close(d) ==
    /\ devis[d].open
    /\ devis' = [devis EXCEPT ![d] = [open |-> FALSE, reminded |-> devis[d].reminded]]
    /\ UNCHANGED <<run, mails>>

-----------------------------------------------------------------------------
RemindersInit ==
    /\ devis = [d \in Devis |-> [open |-> TRUE, reminded |-> FALSE]]
    /\ run = [c \in Runs |-> NoRun]
    /\ mails = [d \in Devis |-> [client |-> 0, artisan |-> 0]]

RemindersNext ==
    \/ \E c \in Runs:
        \/ StartRun(c) \/ EndRun(c)
        \/ \E d \in Devis:
            Claim(c, d) \/ MailClient(c, d) \/ MailArtisan(c, d) \/ Mark(c, d) \/ LogReminder(c, d)
    \/ \E d \in Devis: Close(d)

-----------------------------------------------------------------------------
(* Property                                                                *)

\* Neither the client nor the craftsman is reminded twice of a quote, although runs
\* overlap, work on lists they read earlier, and give claims back (reminders.ts:50-102).
RemindedOnce == \A d \in Devis: mails[d].client <= 1 /\ mails[d].artisan <= 1
=============================================================================

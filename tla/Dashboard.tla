----------------------------- MODULE Dashboard -----------------------------
(***************************************************************************)
(* A quote and its invoice as the tabs of the dashboard show them and act  *)
(* on them (DevisActions.tsx, FactureActions.tsx and the routes they call) *)
(* while the client answers on the public page.                            *)
(*                                                                         *)
(* A tab shows the status it was rendered with, and one of its buttons at  *)
(* a time waits for an answer.  What the routes do to the documents is     *)
(* modelled in DevisLifecycle and FactureChain: here a request succeeds,   *)
(* is refused or is lost, and a stored answer may be replayed.             *)
(***************************************************************************)
EXTENDS Naturals

CONSTANTS
    Tabs         \* tabs of the dashboard

VARIABLES
    tampered,    \* the quote is no longer what was hashed: never changes
    quote,       \* Devis.status
    invoice,     \* Facture.status of its invoice, "none" before it is made
    decidedBy,   \* who accepted or refused the quote (history)
    kept,        \* the answers stored under the keys of the tabs
    active,      \* the session and the subscription that requireAuth asks for
    tab          \* what each tab shows and waits for

documents == <<quote, invoice, decidedBy, kept>>
dashboardVars == <<tampered, documents, active, tab>>

-----------------------------------------------------------------------------
(* What the tabs show                                                      *)

Decisions == {"ACCEPTE", "REFUSE"}
Issued == {"EMISE", "PAYEE"}

Tab(on, sees, paid) ==
    [on |-> on, sees |-> sees, paid |-> paid, dialog |-> FALSE, loading |-> "no",
     reply |-> "no", toast |-> "none", verdict |-> "none", resent |-> FALSE]

\* The page of the quote or of its invoice, rendered from what is stored now.
Rendered(on) == Tab(on, IF on = "devis" THEN quote ELSE invoice, active)

\* An issued invoice has a link; its panel sends the mail with it once.
ShareUrl(t) == t.sees \in Issued

\* The buttons of a tab: what sees allows, while nothing is loading.
DevisButtons(t) ==
    (IF t.sees = "BROUILLON" /\ t.paid THEN {"send"} ELSE {})
        \union (IF t.sees = "ENVOYE" THEN Decisions ELSE {})
        \union (IF t.sees = "ACCEPTE" /\ t.paid THEN {"facture", "facture-issue"} ELSE {})
FactureButtons(t) ==
    (IF t.sees = "BROUILLON" THEN {"issue", "cancel"} ELSE {})
        \union (IF t.sees = "EMISE" THEN {"pay"} ELSE {})
        \union (IF ShareUrl(t) /\ ~t.resent THEN {"resend"} ELSE {})
Buttons(t) ==
    IF t.loading # "no" THEN {}
    ELSE IF t.on = "devis" THEN DevisButtons(t) ELSE FactureButtons(t)

Confirmed == {"send", "cancel"}     \* the buttons that open a dialog first

-----------------------------------------------------------------------------
(* The tabs                                                                *)

Open(t, on) ==
    /\ on = "facture" => invoice # "none"
    /\ tab' = [tab EXCEPT ![t] = Rendered(on)]
    /\ UNCHANGED <<tampered, documents, active>>

Confirm(t) ==
    /\ Buttons(tab[t]) \intersect Confirmed # {} /\ ~tab[t].dialog
    /\ tab' = [tab EXCEPT ![t].dialog = TRUE]
    /\ UNCHANGED <<tampered, documents, active>>

Dismiss(t) ==
    /\ tab[t].dialog /\ tab[t].loading = "no"
    /\ tab' = [tab EXCEPT ![t].dialog = FALSE]
    /\ UNCHANGED <<tampered, documents, active>>

Press(t, b) ==
    /\ b \in Buttons(tab[t])
    /\ b \in Confirmed <=> tab[t].dialog
    /\ tab' = [tab EXCEPT ![t].loading = b, ![t].toast = "none"]
    /\ UNCHANGED <<tampered, documents, active>>

-----------------------------------------------------------------------------
(* The routes                                                              *)

Waiting(t) == tab[t].loading # "no" /\ tab[t].reply = "no"
Reply(t, answer) == tab' = [tab EXCEPT ![t].reply = answer]

\* The key that a button sends: the two decisions share one.
KeyOf(b) ==
    CASE b \in Decisions -> "status"
      [] b \in {"facture", "facture-issue"} -> "facture"
      [] OTHER -> "none"

Allowed(b) ==
    CASE b = "send" -> quote = "BROUILLON"
      [] b \in Decisions -> quote = "ENVOYE"
      [] b \in {"facture", "facture-issue"} -> quote = "ACCEPTE"
      [] b \in {"issue", "cancel"} -> invoice = "BROUILLON"
      [] b = "pay" -> invoice = "EMISE"

Effect(b) ==
    /\ quote' = CASE b = "send" -> "ENVOYE"
                  [] b \in Decisions -> b
                  [] b \in {"facture", "facture-issue"} -> "FACTURE"
                  [] OTHER -> quote
    /\ invoice' = CASE b \in {"facture", "facture-issue"} -> "BROUILLON"
                    [] b = "issue" -> "EMISE"
                    [] b = "pay" -> "PAYEE"
                    [] b = "cancel" -> "ANNULEE"
                    [] OTHER -> invoice
    /\ decidedBy' = IF b \in Decisions THEN "tab" ELSE decidedBy

\* The handler runs; its answer is stored unless the server dies in between.
Serve(t) ==
    LET b == tab[t].loading IN
    /\ Waiting(t) /\ active /\ b # "resend" /\ Allowed(b) /\ KeyOf(b) \notin kept
    /\ Effect(b)
    /\ \/ kept' = kept \union ({KeyOf(b)} \ {"none"})
       \/ kept' = kept /\ KeyOf(b) # "none"
    /\ Reply(t, "ok")
    /\ UNCHANGED <<tampered, active>>

\* The public page of an invoice.
Readable == invoice \in Issued

\* The mail with the link to the client.
ResendLink(t) ==
    /\ Waiting(t) /\ active /\ tab[t].loading = "resend" /\ Readable
    /\ Reply(t, "ok")
    /\ UNCHANGED <<tampered, documents, active>>

\* An answer stored under the key comes back, whatever the body asks for.
Replay(t) ==
    /\ Waiting(t) /\ active /\ KeyOf(tab[t].loading) \in kept
    /\ Reply(t, "ok")
    /\ UNCHANGED <<tampered, documents, active>>

\* A status that forbids it, a rate limit, an archive or a mail that fails.
Deny(t) ==
    /\ Waiting(t)
    /\ Reply(t, "error")
    /\ UNCHANGED <<tampered, documents, active>>

\* fetch throws: the handler stops there, and its button stays busy until a reload.
LoseReply(t) ==
    /\ tab[t].reply = "ok" \/ Waiting(t)
    /\ Reply(t, "lost")
    /\ UNCHANGED <<tampered, documents, active>>

ForgetAnswer(k) ==
    /\ k \in kept
    /\ kept' = kept \ {k}
    /\ UNCHANGED <<tampered, quote, invoice, decidedBy, active, tab>>

\* The client answers on the public page, under keys of its own.
ClientDecides(s) ==
    /\ quote = "ENVOYE"
    /\ quote' = s /\ decidedBy' = "client"
    /\ UNCHANGED <<tampered, invoice, kept, active, tab>>

\* The subscription or the session ends; this model does not take it up again.
Lapse ==
    /\ active
    /\ active' = FALSE
    /\ UNCHANGED <<tampered, documents, tab>>

-----------------------------------------------------------------------------
(* The answers                                                             *)

\* The mutant tells of success before it looks at the answer.
ToldAnyway(b, reply) ==
    CASE b \in {"pay", "cancel"} -> "none" [] OTHER -> b
Told(b, reply) ==
    IF b \in {"pay", "cancel"} THEN "none"
    ELSE IF reply = "error" THEN "error" ELSE b

\* What the page shows after the handler: rendered anew, or what it was.
Refreshed(t, toast) ==
    IF toast = "error" \/ toast = "resend"
    THEN [tab[t] EXCEPT !.loading = "no", !.reply = "no", !.dialog = FALSE,
                        !.toast = toast, !.resent = @ \/ toast = "resend"]
    ELSE [Rendered(tab[t].on) EXCEPT !.toast = toast, !.verdict = tab[t].verdict,
                                     !.resent = tab[t].resent]

Answered(t) ==
    LET b == tab[t].loading IN
    /\ tab[t].reply \in {"ok", "error"}
    /\ b \notin {"facture", "facture-issue"} /\ ~(tab[t].on = "devis" /\ b = "issue")
    /\ tab' = [tab EXCEPT ![t] = Refreshed(t, Told(b, tab[t].reply))]
    /\ UNCHANGED <<tampered, documents, active>>

\* toFacture: after an error the page stays; a draft opens the page of the invoice,
\* and issueNow posts the issue first.
FactureMade(t) ==
    LET b == tab[t].loading IN
    /\ tab[t].reply \in {"ok", "error"} /\ b \in {"facture", "facture-issue"}
    /\ \/ /\ tab[t].reply = "error"
          /\ tab' = [tab EXCEPT ![t] = Refreshed(t, "error")]
       \/ /\ tab[t].reply = "ok" /\ b = "facture"
          /\ tab' = [tab EXCEPT ![t] = [Rendered("facture") EXCEPT !.toast = b]]
       \/ /\ tab[t].reply = "ok" /\ b = "facture-issue"
          /\ tab' = [tab EXCEPT ![t].loading = "issue", ![t].reply = "no"]
    /\ UNCHANGED <<tampered, documents, active>>

\* The issue that followed: the invoice opens whether it was issued or not.
IssueNowAnswered(t) ==
    /\ tab[t].on = "devis" /\ tab[t].loading = "issue" /\ tab[t].reply \in {"ok", "error"}
    /\ tab' = [tab EXCEPT ![t] =
                  [Rendered("facture") EXCEPT
                      !.toast = IF tab[t].reply = "ok" THEN "issue" ELSE "facture"]]
    /\ UNCHANGED <<tampered, documents, active>>

\* verify shows what data.valid is: for the body of an error that is undefined,
\* which the page shows as an alteration.
Verify(t) ==
    /\ tab[t].on = "devis" /\ tab[t].sees # "BROUILLON"
    /\ tab' = [tab EXCEPT ![t].verdict =
                  IF active /\ ~tampered THEN "intact" ELSE "altered"]
    /\ UNCHANGED <<tampered, documents, active>>

-----------------------------------------------------------------------------
DashboardInit ==
    /\ tampered \in BOOLEAN
    /\ quote = "BROUILLON" /\ invoice = "none" /\ decidedBy = "nobody"
    /\ kept = {} /\ active = TRUE
    /\ tab = [t \in Tabs |-> Tab("devis", "BROUILLON", TRUE)]

Act(t) ==
    \/ \E on \in {"devis", "facture"}: Open(t, on)
    \/ Confirm(t) \/ Dismiss(t)
    \/ \E b \in Buttons(tab[t]): Press(t, b)
    \/ Serve(t) \/ ResendLink(t) \/ Replay(t) \/ Deny(t) \/ LoseReply(t)
    \/ Answered(t) \/ FactureMade(t) \/ IssueNowAnswered(t) \/ Verify(t)

DashboardNext ==
    \/ \E t \in Tabs: Act(t)
    \/ \E k \in kept: ForgetAnswer(k)
    \/ \E s \in Decisions: ClientDecides(s)
    \/ Lapse

-----------------------------------------------------------------------------
(* Properties                                                              *)

\* What a tab tells is so, whatever other tabs and the client do meanwhile: a quote
\* told as sent is no draft, an invoice told as made or issued is; a decision told
\* against the one taken is the replay of the other button's answer, never the
\* overruling of a client's; a link that was mailed or is shown for sharing leads to an
\* issued invoice; a quote shown as altered is, or the check was refused
\* (DevisActions.tsx: setStatus, toFacture, verify; FactureSharePanel.tsx).
ToldIsTrue ==
    \A t \in Tabs: LET told == tab[t].toast IN
        /\ told = "send" => quote # "BROUILLON"
        /\ told \in Decisions /\ told # quote /\ quote # "FACTURE" => decidedBy = "tab"
        /\ told = "REFUSE" /\ quote = "FACTURE" => decidedBy = "tab"
        /\ told \in {"facture", "issue"} => quote = "FACTURE" /\ invoice # "none"
        /\ told = "issue" => invoice \in Issued
        /\ told = "resend" \/ (tab[t].on = "facture" /\ ShareUrl(tab[t])) => Readable
        /\ tab[t].verdict = "intact" => ~tampered
        /\ tab[t].verdict = "altered" => tampered \/ ~active
=============================================================================

------------------------------- MODULE Quotes -------------------------------
(***************************************************************************)
(* How a quote comes to be: its row, number and quota on the server, the   *)
(* amounts that the form shows and the server stores, the PDF that is      *)
(* printed, and the link by which it is shown.  The four share no state    *)
(* here, so a behaviour is one of them, and their states add up.           *)
(***************************************************************************)
EXTENDS DevisCreation, QuoteForm, Paper, PublicLinks

VARIABLE part

others == <<quoteFormVars, paperVars>>
vars == <<serverVars, others, linksVars, part>>

Blank == CHOOSE d \in Papers: TRUE

\* A part that does not run starts in one state.
Init ==
    /\ part \in {"server", "form", "paper", "links"}
    /\ ServerInit
    /\ QuoteFormInit /\ (part # "form" => visitor /\ up)
    /\ \/ part = "paper" /\ doc \in Papers
       \/ part # "paper" /\ doc = Blank
    /\ PaperInit
    /\ LinksInit /\ (part # "links" => given = {})

Next ==
    /\ \/ part = "server" /\ ServerNext /\ UNCHANGED <<others, linksVars>>
       \/ part = "form" /\ QuoteFormNext /\ UNCHANGED <<serverVars, paperVars, linksVars>>
       \/ part = "paper" /\ PaperNext /\ UNCHANGED <<serverVars, quoteFormVars, linksVars>>
       \/ part = "links" /\ LinksNext /\ UNCHANGED <<serverVars, others>>
    /\ UNCHANGED part

Spec == Init /\ [][Next]_vars
=============================================================================

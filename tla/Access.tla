------------------------------- MODULE Access -------------------------------
(***************************************************************************)
(* What a user may do: the plan and the team, the ways into the account,   *)
(* the attempts that are let through, and the pages that ask for them: the *)
(* sign-in forms and the checkout.  The five share no state here, so a     *)
(* behaviour is one of them, and their states add up.                      *)
(***************************************************************************)
EXTENDS Billing, Accounts, RateLimit, SignIn, Activation

VARIABLE part

server == <<billingVars, accountVars, rateVars>>
pages == <<signInVars, activationVars>>
vars == <<server, pages, part>>

Init ==
    /\ part \in {"billing", "accounts", "rate", "signIn", "activation"}
    /\ BillingInit /\ AccountsInit /\ RateInit
    /\ SignInInit /\ ActivationInit

Next ==
    /\ \/ /\ UNCHANGED pages
          /\ \/ part = "billing" /\ BillingNext /\ UNCHANGED <<accountVars, rateVars>>
             \/ part = "accounts" /\ AccountsNext /\ UNCHANGED <<billingVars, rateVars>>
             \/ part = "rate" /\ RateNext /\ UNCHANGED <<billingVars, accountVars>>
       \/ /\ UNCHANGED server
          /\ \/ part = "signIn" /\ SignInNext /\ UNCHANGED activationVars
             \/ part = "activation" /\ ActivationNext /\ UNCHANGED signInVars
    /\ UNCHANGED part

Spec == Init /\ [][Next]_vars
=============================================================================

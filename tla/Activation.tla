----------------------------- MODULE Activation -----------------------------
(***************************************************************************)
(* From the free plan to a subscription: the pages that start a Stripe     *)
(* checkout (ActivateTrialCheckout.tsx, SubscriptionPanel.tsx,             *)
(* PricingPlanCards.tsx), the session they ask for (stripe-checkout.ts),   *)
(* the return to the dashboard, and the gate that keeps a user who never   *)
(* subscribed on some pages (proxy.ts, api-helpers.ts, billing.ts).        *)
(*                                                                         *)
(* What Stripe tells afterwards is handled as in Billing; here an event    *)
(* of a checkout or of an end is applied in one step.                      *)
(***************************************************************************)
EXTENDS Naturals, FiniteSets

CONSTANTS
    Screens,     \* pages of the user that are open at once
    MaxCheckouts \* bound on the checkout sessions

VARIABLES
    plan,        \* User.plan
    customer,    \* User.stripeCustomerId is set
    checkouts,   \* the checkout sessions that Stripe has made, by number
    screen,      \* what each page shows and waits for
    early        \* a session was opened, or paid for, while another was open or not yet
                 \* known here (history)

activationVars == <<plan, customer, checkouts, screen, early>>

Paid == {"STARTER", "PRO"}
userNeedsSubscriptionSetup == plan = "FREE" /\ ~customer

-----------------------------------------------------------------------------
(* The gate                                                                *)

Places == {"home", "factures", "activer", "settings", "tarifs"}
Gated == {"factures"}

\* proxy.ts sends a user without a subscription to the activation.
Through(place) == IF place \in Gated /\ userNeedsSubscriptionSetup THEN "activer" ELSE place

NoOffer == <<"none", FALSE>>

\* What a page was rendered with matters on the settings only.
Screen(place) ==
    [place |-> place, sees |-> IF place = "settings" THEN plan ELSE "FREE",
     trial |-> place = "settings" /\ userNeedsSubscriptionSetup,
     loading |-> NoOffer, session |-> 0, told |-> "nothing"]

Visit(s, place) ==
    /\ screen' = [screen EXCEPT ![s] = Screen(Through(place))]
    /\ UNCHANGED <<plan, customer, checkouts, early>>

-----------------------------------------------------------------------------
(* The buttons                                                             *)

\* What is above the plan the page was rendered with.
SettingsOffers(t) ==
    (IF t.sees \notin Paid THEN {<<"STARTER", t.trial>>} ELSE {})
        \union (IF t.sees # "PRO" THEN {<<"PRO", FALSE>>} ELSE {})

\* The plans a page offers, and whether it asks for a trial: the activation starts its
\* checkout by itself, the price list offers both to everybody.
Offers(t) ==
    CASE t.place = "activer" -> {<<"STARTER", TRUE>>}
      [] t.place = "settings" -> SettingsOffers(t)
      [] t.place = "tarifs" -> {<<"STARTER", TRUE>>, <<"PRO", FALSE>>}
      [] OTHER -> {}

StartCheckout(s, offer) ==
    /\ screen[s].loading = NoOffer /\ screen[s].session = 0
    /\ offer \in Offers(screen[s])
    /\ screen' = [screen EXCEPT ![s].loading = offer]
    /\ UNCHANGED <<plan, customer, checkouts, early>>

\* openPortal: for a customer whose page was rendered as one, who then leaves for Stripe.
OpenPortal(s) ==
    /\ screen[s].place = "settings" /\ screen[s].loading = NoOffer /\ customer
    /\ screen' = [screen EXCEPT ![s].place = "stripe"]
    /\ UNCHANGED <<plan, customer, checkouts, early>>

\* An error is shown, and the button is there again.
CheckoutRefused(s) ==
    /\ screen[s].loading # NoOffer
    /\ screen' = [screen EXCEPT ![s].loading = NoOffer]
    /\ UNCHANGED <<plan, customer, checkouts, early>>

-----------------------------------------------------------------------------
(* The checkout                                                            *)

\* The mutant gives the trial to whoever is on the free plan.
TrialOfFreePlan(asked) == asked /\ plan = "FREE"
ApplyTrial(asked) == asked /\ ~customer

Unsettled == {c \in DOMAIN checkouts: checkouts[c].state \in {"open", "paid"}}

\* createSubscriptionCheckoutSession, and the page leaves for it.
CreateCheckoutSession(s) ==
    LET n == Cardinality(DOMAIN checkouts) + 1 IN
    /\ screen[s].loading # NoOffer /\ n <= MaxCheckouts
    /\ checkouts' = [c \in 1 .. n |->
            IF c = n THEN [plan |-> screen[s].loading[1], state |-> "open",
                           trial |-> ApplyTrial(screen[s].loading[2])]
            ELSE checkouts[c]]
    /\ screen' = [screen EXCEPT ![s].place = "stripe", ![s].loading = NoOffer, ![s].session = n]
    /\ early' = (early \/ Unsettled # {})
    /\ UNCHANGED <<plan, customer>>

\* Stripe: the user pays and is sent back to success_url.
Pay(s) ==
    LET c == screen[s].session IN
    /\ c # 0 /\ checkouts[c].state = "open"
    /\ checkouts' = [checkouts EXCEPT ![c].state = "paid"]
    /\ screen' = [screen EXCEPT ![s] = [Screen("home") EXCEPT !.told = "success"]]
    /\ UNCHANGED <<plan, customer, early>>

\* Stripe: the user goes back to cancel_url, which starts no checkout by itself.
GiveUp(s) ==
    LET c == screen[s].session IN
    /\ c # 0 /\ checkouts[c].state = "open"
    /\ checkouts' = [checkouts EXCEPT ![c].state = "dropped"]
    /\ screen' = [screen EXCEPT ![s] =
            [Screen(IF checkouts[c].trial THEN "activer" ELSE "tarifs") EXCEPT !.told = "cancel"]]
    /\ UNCHANGED <<plan, customer, early>>

\* Stripe: a session that nobody pays for ends after a day.
CheckoutExpires(c) ==
    /\ checkouts[c].state = "open"
    /\ checkouts' = [checkouts EXCEPT ![c].state = "dropped"]
    /\ UNCHANGED <<plan, customer, screen, early>>

\* checkout.session.completed has been processed.
Activate(c) ==
    /\ checkouts[c].state = "paid"
    /\ checkouts' = [checkouts EXCEPT ![c].state = "active"]
    /\ customer' = TRUE
    /\ plan' = checkouts[c].plan
    /\ UNCHANGED <<screen, early>>

\* customer.subscription.deleted has been processed: the customer stays known.
EndSubscription(c) ==
    /\ checkouts[c].state = "active"
    /\ checkouts' = [checkouts EXCEPT ![c].state = "ended"]
    /\ plan' = "FREE"
    /\ UNCHANGED <<customer, screen, early>>

-----------------------------------------------------------------------------
ActivationInit ==
    /\ plan = "FREE" /\ customer = FALSE
    /\ checkouts = << >>
    /\ screen = [s \in Screens |-> Screen("home")]
    /\ early = FALSE

ActivationNext ==
    \/ \E s \in Screens:
        \/ \E place \in Places: Visit(s, place)
        \/ \E offer \in Offers(screen[s]): StartCheckout(s, offer)
        \/ OpenPortal(s) \/ CheckoutRefused(s) \/ CreateCheckoutSession(s) \/ Pay(s) \/ GiveUp(s)
    \/ \E c \in DOMAIN checkouts: CheckoutExpires(c) \/ Activate(c) \/ EndSubscription(c)

-----------------------------------------------------------------------------
(* Properties                                                              *)

Subscribed(c) == checkouts[c].state \in {"paid", "active", "ended"}

\* A user has one trial, also after a subscription that ended, and from whichever page
\* the checkouts start, unless a checkout began before the one before it was settled;
\* and who has subscribed once is never held back by the gate again
\* (billing-constants.ts: isEligibleForTrial, billing.ts: userNeedsSubscriptionSetup).
TrialOnce ==
    /\ ~early => Cardinality({c \in DOMAIN checkouts: Subscribed(c) /\ checkouts[c].trial}) <= 1
    /\ (\E c \in DOMAIN checkouts: checkouts[c].state \in {"active", "ended"}) =>
           ~userNeedsSubscriptionSetup
=============================================================================

--------------------------- MODULE Access_proofs ---------------------------
(***************************************************************************)
(* What a user may do, for any number of deliveries, requests, sessions,   *)
(* links, calls, pages and checkouts.  The five parts share no state, so   *)
(* each has an inductive invariant of its own.                             *)
(***************************************************************************)
EXTENDS Access, FiniteSetTheorems, TLAPS

\* Every step is a step of one part, and leaves the others alone.
LEMMA Parts ==
  ASSUME [Next]_vars
  PROVE  /\ BillingNext \/ UNCHANGED billingVars
         /\ AccountsNext \/ UNCHANGED accountVars
         /\ RateNext \/ UNCHANGED rateVars
         /\ SignInNext \/ UNCHANGED signInVars
         /\ ActivationNext \/ UNCHANGED activationVars
<1>1. CASE UNCHANGED vars
  BY <1>1 DEF vars, server, pages
<1>2. CASE Next
  BY <1>2 DEF Next, server, pages
<1> QED BY <1>1, <1>2

-----------------------------------------------------------------------------
(* The sign-in forms.  What the form holds is good, or was spent by the    *)
(* request that left it there, unless an error is about to take it away.   *)

Request == [pc: {"none", "sent", "ok", "error", "lost"}, token: Nat]
Reusable(k) == k \notin denied /\ (k \in spent => k \in left)

SignInTypes ==
    /\ issued \in Nat /\ widget \in 0 .. issued /\ token \in 0 .. issued
    /\ spent \subseteq 1 .. issued /\ denied \subseteq 1 .. issued
    /\ request \in Request /\ request.token \in 0 .. issued
    /\ request.pc = "sent" => request.token # 0

FormHolds ==
    token # 0 /\ request.pc \in {"none", "sent", "ok"} =>
        \/ Reusable(token)
        \/ request.pc = "ok" /\ token = request.token /\ token \notin denied

SignInInv == SignInTypes /\ FormHolds /\ NoDeadToken

LEMMA SignInFirst == Init => SignInInv
  BY DEF Init, SignInInit, SignInInv, SignInTypes, FormHolds, NoDeadToken, NoRequest, Request

LEMMA SignInStep == SignInInv /\ [Next]_vars => SignInInv'
<1> SUFFICES ASSUME SignInInv, [Next]_vars PROVE SignInInv'
  OBVIOUS
<1> USE DEF SignInInv, SignInTypes, FormHolds, NoDeadToken, Reusable, Request, NoRequest
<1>1. CASE UNCHANGED signInVars
  BY <1>1 DEF signInVars
<1>2. CASE Solve
  BY <1>2 DEF Solve
<1>3. CASE Expire
  BY <1>3 DEF Expire
<1>4. ASSUME NEW k, ExpireUnseen(k) PROVE SignInInv'
  BY <1>4 DEF ExpireUnseen
<1>5. CASE SwitchForm
  BY <1>5 DEF SwitchForm
<1>6. ASSUME NEW form, OpenPage(form) PROVE SignInInv'
  BY <1>6 DEF OpenPage
<1>7. CASE SubmitForm
  BY <1>7 DEF SubmitForm
<1>8. CASE Limited429
  BY <1>8 DEF Limited429
<1>9. CASE VerifyToken
  BY <1>9 DEF VerifyToken, Good
<1>10. CASE RequestFailed
  BY <1>10 DEF RequestFailed, Reset
<1>11. CASE RequestSucceeded
  BY <1>11 DEF RequestSucceeded
<1>12. CASE LoseRequest
  BY <1>12 DEF LoseRequest
<1> QED
  BY <1>1, <1>2, <1>3, <1>4, <1>5, <1>6, <1>7, <1>8, <1>9, <1>10, <1>11, <1>12, Parts DEF SignInNext

\* The second try after a refusal has a token of its own: whatever the widget, the forms of
\* the page, the rate limits and the network do, no token is sent that the server refused,
\* and a verified one only by the form that its request left as it was (LoginForm.tsx,
\* RegisterForm.tsx).
THEOREM TokensFresh == Spec => []NoDeadToken
<1>1. SignInInv => NoDeadToken
  BY DEF SignInInv
<1> QED BY <1>1, SignInFirst, SignInStep, PTL DEF Spec

-----------------------------------------------------------------------------
(* The trial.  While no checkout began before the one before it was        *)
(* settled, at most one is open or paid for, and one that asks for a trial *)
(* was made before the user was a customer.                                *)

States == {"open", "paid", "dropped", "active", "ended"}
CheckoutRecord == [plan: Paid, state: States, trial: BOOLEAN]
Offer == (Paid \X BOOLEAN) \union {NoOffer}
ScreenRecord == [place: Places \union {"stripe"}, sees: Paid \union {"FREE"}, trial: BOOLEAN,
                 loading: Offer, session: Nat, told: {"nothing", "success", "cancel"}]

ActivationTypes ==
    /\ plan \in Paid \union {"FREE"} /\ customer \in BOOLEAN /\ early \in BOOLEAN
    /\ \E n \in Nat: checkouts \in [1 .. n -> CheckoutRecord]
    /\ screen \in [Screens -> ScreenRecord]
    /\ \A s \in Screens: screen[s].session # 0 => screen[s].session \in DOMAIN checkouts

Trial(c) == checkouts[c].trial /\ checkouts[c].state # "dropped"

ActivationInv ==
    /\ ActivationTypes
    /\ \A c \in DOMAIN checkouts: checkouts[c].state \in {"active", "ended"} => customer
    /\ ~early => /\ \A c, d \in Unsettled: c = d
                 /\ \A c, d \in DOMAIN checkouts: Trial(c) /\ Trial(d) /\ Subscribed(c) => c = d

LEMMA ScreenTyped ==
  ASSUME ActivationTypes, NEW place \in Places \union {"stripe"}
  PROVE  Screen(place) \in ScreenRecord /\ Screen(place).session = 0
<1>1. plan \in Paid \union {"FREE"}
  BY DEF ActivationTypes
<1>2. (IF place = "settings" THEN plan ELSE "FREE") \in Paid \union {"FREE"}
  BY <1>1
<1>3. NoOffer \in Offer
  BY DEF Offer
<1> DEFINE sees == IF place = "settings" THEN plan ELSE "FREE"
           trial == place = "settings" /\ userNeedsSubscriptionSetup
<1>4. trial \in BOOLEAN /\ sees \in Paid \union {"FREE"}
  BY <1>2 DEF userNeedsSubscriptionSetup
<1>5. Screen(place) = [place |-> place, sees |-> sees, trial |-> trial,
                       loading |-> NoOffer, session |-> 0, told |-> "nothing"]
  BY DEF Screen
<1> HIDE DEF sees, trial
<1> QED BY <1>3, <1>4, <1>5 DEF ScreenRecord

LEMMA ScreenTold ==
  ASSUME ActivationTypes, NEW place \in Places, NEW told \in {"success", "cancel"}
  PROVE  LET new == [Screen(place) EXCEPT !.told = told]
         IN  new \in ScreenRecord /\ new.session = 0
  BY ScreenTyped DEF ScreenRecord

\* One page changes, and what it knows of a checkout exists.
LEMMA OneScreen ==
  ASSUME ActivationTypes, NEW s \in Screens, NEW new \in ScreenRecord,
         screen' = [screen EXCEPT ![s] = new],
         DOMAIN checkouts \subseteq DOMAIN checkouts',
         new.session # 0 => new.session \in DOMAIN checkouts'
  PROVE  /\ screen' \in [Screens -> ScreenRecord]
         /\ \A t \in Screens: screen'[t].session # 0 => screen'[t].session \in DOMAIN checkouts'
  BY DEF ActivationTypes

\* A checkout that exists comes into another state.
Settles(c, state) ==
    /\ DOMAIN checkouts' = DOMAIN checkouts
    /\ checkouts'[c].state = state
    /\ \A d \in DOMAIN checkouts: checkouts'[d].trial = checkouts[d].trial
    /\ \A d \in DOMAIN checkouts \ {c}: checkouts'[d] = checkouts[d]
    /\ \E n \in Nat: checkouts' \in [1 .. n -> CheckoutRecord]

LEMMA CheckoutSettles ==
  ASSUME ActivationTypes, NEW c \in DOMAIN checkouts, NEW state \in States,
         checkouts' = [checkouts EXCEPT ![c].state = state]
  PROVE  Settles(c, state)
<1>1. PICK n \in Nat: checkouts \in [1 .. n -> CheckoutRecord]
  BY DEF ActivationTypes
<1>2. checkouts[c] \in CheckoutRecord
  BY <1>1
<1> DEFINE new == [checkouts[c] EXCEPT !.state = state]
<1>3. new \in CheckoutRecord /\ new.state = state /\ new.trial = checkouts[c].trial
  BY <1>2 DEF CheckoutRecord
<1>4. checkouts' = [checkouts EXCEPT ![c] = new]
  BY <1>1
<1> HIDE DEF new
<1> QED BY <1>1, <1>3, <1>4 DEF Settles

LEMMA CheckoutBegins ==
  ASSUME ActivationTypes, NEW s \in Screens, CreateCheckoutSession(s)
  PROVE  \E n \in Nat:
            /\ n \notin DOMAIN checkouts /\ DOMAIN checkouts' = DOMAIN checkouts \union {n}
            /\ \A d \in DOMAIN checkouts: checkouts'[d] = checkouts[d]
            /\ checkouts'[n].state = "open" /\ (checkouts'[n].trial => ~customer)
            /\ \E m \in Nat: checkouts' \in [1 .. m -> CheckoutRecord]
            /\ screen' \in [Screens -> ScreenRecord]
            /\ \A t \in Screens: screen'[t].session # 0 => screen'[t].session \in DOMAIN checkouts'
<1>1. PICK k \in Nat: checkouts \in [1 .. k -> CheckoutRecord]
  BY DEF ActivationTypes
<1>2. DOMAIN checkouts = 1 .. k /\ Cardinality(DOMAIN checkouts) + 1 = k + 1
  <2>1. Cardinality(1 .. k) = k
    BY FS_Interval
  <2> QED BY <1>1, <2>1
<1>3. screen[s] \in ScreenRecord /\ screen[s].loading \in Paid \X BOOLEAN
  BY DEF ActivationTypes, CreateCheckoutSession, ScreenRecord, Offer
<1> DEFINE n == k + 1
           trial == ApplyTrial(screen[s].loading[2])
           new == [plan |-> screen[s].loading[1], state |-> "open", trial |-> trial]
           there == [screen[s] EXCEPT !.place = "stripe", !.loading = NoOffer, !.session = n]
<1>4. trial \in BOOLEAN /\ (trial => ~customer)
  BY <1>3 DEF ApplyTrial
<1>5. new \in CheckoutRecord /\ new.state = "open" /\ new.trial = trial
  <2> HIDE DEF trial
  <2> QED BY <1>3, <1>4 DEF CheckoutRecord, States
<1>6. checkouts' = [c \in 1 .. n |-> IF c = n THEN new ELSE checkouts[c]]
  BY <1>2 DEF CreateCheckoutSession
<1>7. there \in ScreenRecord /\ there.session = n
  <2>1. NoOffer \in Offer /\ n \in Nat
    BY DEF Offer
  <2> HIDE DEF n
  <2> QED BY <1>3, <2>1 DEF ScreenRecord
<1>8. screen' = [screen EXCEPT ![s] = there]
  BY <1>2 DEF CreateCheckoutSession, ActivationTypes
<1> HIDE DEF trial, new, there
<1>9. /\ DOMAIN checkouts' = 1 .. n /\ checkouts' \in [1 .. n -> CheckoutRecord]
      /\ checkouts'[n] = new /\ \A d \in 1 .. k: checkouts'[d] = checkouts[d]
  BY <1>1, <1>5, <1>6
<1>10. n \in Nat /\ n \notin 1 .. k /\ 1 .. n = (1 .. k) \union {n}
  OBVIOUS
<1>11. /\ screen' \in [Screens -> ScreenRecord]
       /\ \A t \in Screens: screen'[t].session # 0 => screen'[t].session \in DOMAIN checkouts'
  BY <1>2, <1>7, <1>8, <1>9, <1>10, OneScreen
<1> HIDE DEF n
<1> QED BY <1>2, <1>4, <1>5, <1>9, <1>10, <1>11

LEMMA ActivationFirst == Init => ActivationInv
<1> SUFFICES ASSUME Init PROVE ActivationInv
  OBVIOUS
<1>1. /\ plan = "FREE" /\ customer = FALSE /\ checkouts = << >> /\ early = FALSE
      /\ screen = [s \in Screens |-> Screen("home")]
  BY DEF Init, ActivationInit
<1>2. DOMAIN checkouts = {} /\ checkouts \in [1 .. 0 -> CheckoutRecord]
  BY <1>1
<1>3. Screen("home") \in ScreenRecord /\ Screen("home").session = 0
  BY <1>1 DEF Screen, ScreenRecord, Offer, Places
<1>4. \E n \in Nat: checkouts \in [1 .. n -> CheckoutRecord]
  <2>1. 0 \in Nat
    OBVIOUS
  <2> QED BY <1>2, <2>1
<1>5. /\ screen \in [Screens -> ScreenRecord]
      /\ \A s \in Screens: screen[s].session = 0
  BY <1>1, <1>3
<1>6. ActivationTypes
  BY <1>1, <1>4, <1>5 DEF ActivationTypes
<1> QED BY <1>2, <1>6 DEF ActivationInv, Unsettled

LEMMA ActivationStep == ActivationInv /\ [Next]_vars => ActivationInv'
<1> SUFFICES ASSUME ActivationInv, [Next]_vars PROVE ActivationInv'
  OBVIOUS
<1>0. ActivationTypes
  BY DEF ActivationInv
<1>1. CASE UNCHANGED activationVars
  BY <1>1 DEF activationVars, ActivationInv, ActivationTypes, Unsettled, Trial, Subscribed
<1>2. ASSUME NEW s \in Screens, NEW new \in ScreenRecord,
             screen' = [screen EXCEPT ![s] = new], UNCHANGED <<plan, customer, checkouts, early>>,
             new.session # 0 => new.session \in DOMAIN checkouts
      PROVE  ActivationInv'
  <2>1. ActivationTypes'
    BY <1>0, <1>2, OneScreen DEF ActivationTypes
  <2> QED BY <1>2, <2>1 DEF ActivationInv, Unsettled, Trial, Subscribed
<1>3. \A s \in Screens: /\ screen[s] \in ScreenRecord
                        /\ screen[s].session # 0 => screen[s].session \in DOMAIN checkouts
  BY <1>0 DEF ActivationTypes
<1>4. ASSUME NEW s \in Screens, NEW place \in Places, Visit(s, place) PROVE ActivationInv'
  <2>1. Through(place) \in Places
    BY DEF Through, Places
  <2> QED BY <1>0, <1>2, <1>4, <2>1, ScreenTyped DEF Visit
<1>5. ASSUME NEW s \in Screens, NEW offer \in Offers(screen[s]), StartCheckout(s, offer)
      PROVE  ActivationInv'
  <2>1. offer \in Offer
    <3>1. SettingsOffers(screen[s]) \subseteq Offer
      <4>1. screen[s].trial \in BOOLEAN
        BY <1>3 DEF ScreenRecord
      <4>2. <<"STARTER", screen[s].trial>> \in Offer /\ <<"PRO", FALSE>> \in Offer
        BY <4>1 DEF Offer, Paid
      <4> QED BY <4>2 DEF SettingsOffers
    <3>2. {<<"STARTER", TRUE>>, <<"PRO", FALSE>>} \subseteq Offer
      <4>1. <<"STARTER", TRUE>> \in Offer /\ <<"PRO", FALSE>> \in Offer
        BY DEF Offer, Paid
      <4> QED BY <4>1
    <3> QED BY <1>5, <3>1, <3>2 DEF Offers
  <2> DEFINE new == [screen[s] EXCEPT !.loading = offer]
  <2>2. new \in ScreenRecord /\ new.session = screen[s].session
    BY <1>3, <2>1 DEF ScreenRecord
  <2>3. screen' = [screen EXCEPT ![s] = new] /\ UNCHANGED <<plan, customer, checkouts, early>>
    BY <1>0, <1>5 DEF StartCheckout, ActivationTypes
  <2> HIDE DEF new
  <2> QED BY <1>2, <1>3, <2>2, <2>3
<1>6. ASSUME NEW s \in Screens, OpenPortal(s) PROVE ActivationInv'
  <2> DEFINE new == [screen[s] EXCEPT !.place = "stripe"]
  <2>2. new \in ScreenRecord /\ new.session = screen[s].session
    BY <1>3 DEF ScreenRecord
  <2>3. screen' = [screen EXCEPT ![s] = new] /\ UNCHANGED <<plan, customer, checkouts, early>>
    BY <1>0, <1>6 DEF OpenPortal, ActivationTypes
  <2> HIDE DEF new
  <2> QED BY <1>2, <1>3, <2>2, <2>3
<1>7. ASSUME NEW s \in Screens, CheckoutRefused(s) PROVE ActivationInv'
  <2> DEFINE new == [screen[s] EXCEPT !.loading = NoOffer]
  <2>1. NoOffer \in Offer
    BY DEF Offer
  <2>2. new \in ScreenRecord /\ new.session = screen[s].session
    BY <1>3, <2>1 DEF ScreenRecord
  <2>3. screen' = [screen EXCEPT ![s] = new] /\ UNCHANGED <<plan, customer, checkouts, early>>
    BY <1>0, <1>7 DEF CheckoutRefused, ActivationTypes
  <2> HIDE DEF new
  <2> QED BY <1>2, <1>3, <2>2, <2>3
<1>8. ASSUME NEW s \in Screens, CreateCheckoutSession(s) PROVE ActivationInv'
  <2>1. PICK n \in Nat:
            /\ n \notin DOMAIN checkouts /\ DOMAIN checkouts' = DOMAIN checkouts \union {n}
            /\ \A d \in DOMAIN checkouts: checkouts'[d] = checkouts[d]
            /\ checkouts'[n].state = "open" /\ (checkouts'[n].trial => ~customer)
            /\ \E m \in Nat: checkouts' \in [1 .. m -> CheckoutRecord]
            /\ screen' \in [Screens -> ScreenRecord]
            /\ \A t \in Screens: screen'[t].session # 0 => screen'[t].session \in DOMAIN checkouts'
    BY <1>0, <1>8, CheckoutBegins
  <2>2. UNCHANGED <<plan, customer>> /\ early' = (early \/ Unsettled # {})
    BY <1>8 DEF CreateCheckoutSession
  <2>3. ActivationTypes'
    BY <1>0, <2>1, <2>2 DEF ActivationTypes
  <2>4. \A c \in DOMAIN checkouts': checkouts'[c].state \in {"active", "ended"} => customer'
    BY <2>1, <2>2 DEF ActivationInv
  <2>5. ASSUME ~early'
        PROVE  /\ (\A c, d \in Unsettled: c = d)'
               /\ (\A c, d \in DOMAIN checkouts: Trial(c) /\ Trial(d) /\ Subscribed(c) => c = d)'
    <3>1. Unsettled = {} /\ ~early
      BY <2>2, <2>5
    <3>2. Unsettled' = {n}
      BY <2>1, <3>1 DEF Unsettled
    <3>3. ASSUME NEW c \in DOMAIN checkouts, Subscribed(c) PROVE ~checkouts'[n].trial
      BY <2>1, <3>1, <3>3 DEF ActivationInv, Subscribed, Unsettled
    <3>4. ~Subscribed(n)'
      BY <2>1 DEF Subscribed
    <3> QED BY <2>1, <3>1, <3>2, <3>3, <3>4 DEF ActivationInv, Trial, Subscribed
  <2> QED BY <2>3, <2>4, <2>5 DEF ActivationInv
<1>9. ASSUME NEW c \in DOMAIN checkouts, NEW state \in States, Settles(c, state),
             checkouts[c].state \in {"open", "paid", "active"},
             state = "paid" => checkouts[c].state = "open",
             state = "active" => checkouts[c].state = "paid",
             state = "ended" => checkouts[c].state = "active",
             state # "open",
             early' = early, state = "active" => customer', customer => customer', ActivationTypes'
      PROVE  ActivationInv'
  <2>1. \A d \in DOMAIN checkouts': checkouts'[d].state \in {"active", "ended"} => customer'
    BY <1>9 DEF ActivationInv, Settles
  <2>2. Unsettled' \subseteq Unsettled
    BY <1>9 DEF Unsettled, Settles
  <2>3. ASSUME ~early, NEW a \in DOMAIN checkouts, NEW b \in DOMAIN checkouts,
               Trial(a)', Trial(b)', Subscribed(a)'
        PROVE  a = b
    <3>1. Trial(a) /\ Trial(b)
      BY <1>9, <2>3 DEF Trial, Settles
    <3>2. Subscribed(a) \/ (a = c /\ checkouts[c].state = "open")
      BY <1>9, <2>3 DEF Subscribed, Settles
    <3>3. checkouts[b].state \in {"open", "paid"} \/ Subscribed(b)
      <4>1. checkouts[b].state \in States
        BY <1>0 DEF ActivationTypes, CheckoutRecord
      <4> QED BY <3>1, <4>1 DEF Subscribed, Trial, States
    <3>4. CASE Subscribed(a)
      BY <2>3, <3>1, <3>4 DEF ActivationInv
    <3>5. CASE a = c /\ checkouts[c].state = "open" /\ Subscribed(b)
      BY <2>3, <3>1, <3>5 DEF ActivationInv
    <3>6. CASE a = c /\ checkouts[c].state = "open" /\ checkouts[b].state \in {"open", "paid"}
      <4>1. a \in Unsettled /\ b \in Unsettled
        BY <3>6 DEF Unsettled
      <4> QED BY <2>3, <4>1 DEF ActivationInv
    <3> QED BY <3>2, <3>3, <3>4, <3>5, <3>6
  <2>4. DOMAIN checkouts' = DOMAIN checkouts
    BY <1>9 DEF Settles
  <2>5. ~early => \A a, b \in Unsettled': a = b
    BY <2>2 DEF ActivationInv
  <2>6. ~early => \A a, b \in DOMAIN checkouts': Trial(a)' /\ Trial(b)' /\ Subscribed(a)' => a = b
    BY <2>3, <2>4
  <2> QED BY <1>9, <2>1, <2>5, <2>6 DEF ActivationInv
<1>10. ASSUME NEW s \in Screens, NEW c \in DOMAIN checkouts, NEW state \in {"paid", "dropped"},
              NEW new \in ScreenRecord, new.session = 0,
              checkouts[c].state = "open", checkouts' = [checkouts EXCEPT ![c].state = state],
              screen' = [screen EXCEPT ![s] = new], UNCHANGED <<plan, customer, early>>
       PROVE  ActivationInv'
  <2>1. Settles(c, state)
    BY <1>0, <1>10, CheckoutSettles DEF States
  <2>2. ActivationTypes'
    BY <1>0, <1>10, <2>1, OneScreen DEF ActivationTypes, Settles
  <2> QED BY <1>9, <1>10, <2>1, <2>2 DEF States
<1>11. ASSUME NEW s \in Screens, Pay(s) PROVE ActivationInv'
  <2>1. [Screen("home") EXCEPT !.told = "success"] \in ScreenRecord
        /\ [Screen("home") EXCEPT !.told = "success"].session = 0
    BY <1>0, ScreenTold DEF Places
  <2>2. screen[s].session \in DOMAIN checkouts
    BY <1>3, <1>11 DEF Pay
  <2> QED BY <1>10, <1>11, <2>1, <2>2 DEF Pay
<1>12. ASSUME NEW s \in Screens, GiveUp(s) PROVE ActivationInv'
  <2> DEFINE place == IF checkouts[screen[s].session].trial THEN "activer" ELSE "tarifs"
             new == [Screen(place) EXCEPT !.told = "cancel"]
  <2>1. new \in ScreenRecord /\ new.session = 0
    <3>1. place \in Places
      BY DEF Places
    <3> HIDE DEF place
    <3> QED BY <1>0, <3>1, ScreenTold
  <2>2. screen[s].session \in DOMAIN checkouts
    BY <1>3, <1>12 DEF GiveUp
  <2>3. screen' = [screen EXCEPT ![s] = new]
    BY <1>12 DEF GiveUp
  <2> HIDE DEF new
  <2> QED BY <1>10, <1>12, <2>1, <2>2, <2>3 DEF GiveUp
<1>13. ASSUME NEW c \in DOMAIN checkouts, CheckoutExpires(c) PROVE ActivationInv'
  <2>1. Settles(c, "dropped")
    BY <1>0, <1>13, CheckoutSettles DEF CheckoutExpires, States
  <2>2. ActivationTypes'
    BY <1>0, <1>13, <2>1 DEF CheckoutExpires, ActivationTypes, Settles
  <2> QED BY <1>9, <1>13, <2>1, <2>2 DEF CheckoutExpires, States
<1>14. ASSUME NEW c \in DOMAIN checkouts, Activate(c) PROVE ActivationInv'
  <2>1. Settles(c, "active")
    BY <1>0, <1>14, CheckoutSettles DEF Activate, States
  <2>2. ActivationTypes'
    BY <1>0, <1>14, <2>1 DEF Activate, ActivationTypes, Settles, CheckoutRecord
  <2> QED BY <1>9, <1>14, <2>1, <2>2 DEF Activate, States
<1>15. ASSUME NEW c \in DOMAIN checkouts, EndSubscription(c) PROVE ActivationInv'
  <2>1. Settles(c, "ended")
    BY <1>0, <1>15, CheckoutSettles DEF EndSubscription, States
  <2>2. ActivationTypes'
    BY <1>0, <1>15, <2>1 DEF EndSubscription, ActivationTypes, Settles
  <2> QED BY <1>9, <1>15, <2>1, <2>2 DEF EndSubscription, States
<1> QED
  BY <1>1, <1>4, <1>5, <1>6, <1>7, <1>8, <1>11, <1>12, <1>13, <1>14, <1>15, Parts
     DEF ActivationNext

\* A user has one trial, whatever pages start the checkouts and whatever becomes of them,
\* while none begins before the one before it was settled; and who has subscribed is not
\* held back by the gate again (billing-constants.ts, isEligibleForTrial).
THEOREM OneTrial == Spec => []TrialOnce
<1>1. ASSUME ActivationInv PROVE TrialOnce
  <2> DEFINE trials == {c \in DOMAIN checkouts: Subscribed(c) /\ checkouts[c].trial}
  <2>1. ASSUME ~early PROVE Cardinality(trials) <= 1
    <3>1. \A c, d \in trials: c = d
      BY <1>1, <2>1 DEF ActivationInv, Trial, Subscribed
    <3>2. CASE trials = {}
      BY <3>2, FS_EmptySet
    <3>3. CASE trials # {}
      <4>1. PICK c: trials = {c}
        BY <3>1, <3>3
      <4> QED BY <4>1, FS_Singleton
    <3> QED BY <3>2, <3>3
  <2>2. (\E c \in DOMAIN checkouts: checkouts[c].state \in {"active", "ended"}) =>
           ~userNeedsSubscriptionSetup
    BY <1>1 DEF ActivationInv, userNeedsSubscriptionSetup
  <2> QED BY <2>1, <2>2 DEF TrialOnce
<1> QED BY <1>1, ActivationFirst, ActivationStep, PTL DEF Spec

-----------------------------------------------------------------------------
(* The rate limit.  What a window can still let through: the attempts that *)
(* are left and every call that may have been told to count, or those that *)
(* were told so; and after each call told to start the window again, as    *)
(* much once more.                                                         *)

Told(decision) == {c \in Calls: call[c] = decision}
Restarts == Cardinality(Told("restart"))
Counts == Cardinality(Told("count"))
Size == Cardinality(Calls)

\* Twice what k restarts can let through.
Twice(k) == 2 * k * (MaxAttempts + Size - 1) - k * (k - 1)

Left == IF bucket.count < MaxAttempts THEN MaxAttempts - 1 - bucket.count + Size - Restarts
        ELSE Counts

RateTypes ==
    /\ bucket \in [count: Nat, over: BOOLEAN]
    /\ call \in [Calls -> {"idle", "restart", "count"}]
    /\ passed \in Nat

RateInv ==
    /\ RateTypes
    /\ 2 * passed <= Twice(Size)
    /\ ~bucket.over => bucket.count >= 1 /\ 2 * passed + 2 * Left + Twice(Restarts) <= Twice(Size)

LEMMA SizeNat == Size \in Nat
  BY CallsAssumption, FS_CardinalityType DEF Size

LEMMA TwiceStep ==
  ASSUME NEW k \in Nat
  PROVE  /\ Twice(k) \in Int
         /\ Twice(k + 1) = Twice(k) + 2 * (MaxAttempts + Size - 1 - k)
<1>1. PICK m \in Nat: m = MaxAttempts
  BY AttemptsAssumption
<1>2. PICK n \in Nat: n = Size
  BY SizeNat
<1>3. /\ 2 * k * (m + n - 1) - k * (k - 1) \in Int
      /\ 2 * (k + 1) * (m + n - 1) - (k + 1) * k
            = 2 * k * (m + n - 1) - k * (k - 1) + 2 * (m + n - 1 - k)
  OBVIOUS
<1> QED BY <1>1, <1>2, <1>3 DEF Twice

\* More restarts let more through.
LEMMA TwiceGrows ==
  ASSUME NEW k \in 0 .. Size
  PROVE  Twice(k) >= 0 /\ Twice(k) <= Twice(Size) /\ Twice(k) \in Int
<1>1. PICK m \in Nat \ {0}: m = MaxAttempts
  BY AttemptsAssumption
<1>2. PICK n \in Nat: n = Size
  BY SizeNat
<1>3. PICK d \in Nat: n = k + d
  <2>1. n - k \in Nat /\ n = k + (n - k)
    BY <1>2
  <2> QED BY <2>1
<1>4. 2 * k * (m + n - 1) - k * (k - 1) = k * (2 * m + k - 1 + 2 * d)
  BY <1>3
<1>5. 2 * n * (m + n - 1) - n * (n - 1)
        = 2 * k * (m + n - 1) - k * (k - 1) + d * (2 * m + d - 1)
  BY <1>3
<1>6. k * (2 * m + k - 1 + 2 * d) \in Nat /\ d * (2 * m + d - 1) \in Nat
  <2>1. 2 * m + k - 1 + 2 * d \in Nat /\ 2 * m + d - 1 \in Nat /\ k \in Nat
    BY <1>2
  <2>2. \A a, b \in Nat: a * b \in Nat
    OBVIOUS
  <2> HIDE DEF Twice
  <2> QED BY <2>1, <2>2
<1>7. /\ Twice(k) = 2 * k * (m + n - 1) - k * (k - 1)
      /\ Twice(Size) = 2 * n * (m + n - 1) - n * (n - 1)
  BY <1>1, <1>2 DEF Twice
<1>8. Twice(k) \in Int /\ Twice(Size) \in Int
  BY SizeNat, TwiceStep
<1> QED BY <1>4, <1>5, <1>6, <1>7, <1>8

\* The calls told one thing and those told the other are different calls.
LEMMA ToldBounds ==
  ASSUME RateTypes
  PROVE  /\ Restarts \in Nat /\ Counts \in Nat /\ Restarts + Counts <= Size
         /\ IsFiniteSet(Told("restart")) /\ IsFiniteSet(Told("count"))
<1> DEFINE rs == Told("restart")  cs == Told("count")
<1>1. rs \subseteq Calls /\ cs \subseteq Calls /\ rs \intersect cs = {}
  BY DEF Told
<1>2. IsFiniteSet(rs) /\ IsFiniteSet(cs)
  BY <1>1, CallsAssumption, FS_Subset
<1>3. Cardinality(rs) \in Nat /\ Cardinality(cs) \in Nat
  BY <1>2, FS_CardinalityType
<1>4. Cardinality(rs \union cs) = Cardinality(rs) + Cardinality(cs) /\ IsFiniteSet(rs \union cs)
  <2>1. Cardinality(rs \intersect cs) = 0
    BY <1>1, FS_EmptySet
  <2>2. /\ Cardinality(rs \union cs) =
              Cardinality(rs) + Cardinality(cs) - Cardinality(rs \intersect cs)
        /\ IsFiniteSet(rs \union cs)
    BY <1>2, FS_Union
  <2> HIDE DEF rs, cs
  <2> QED BY <1>3, <2>1, <2>2
<1>5. Cardinality(rs \union cs) <= Size
  BY <1>1, CallsAssumption, FS_Subset DEF Size
<1> QED BY <1>2, <1>3, <1>4, <1>5 DEF Restarts, Counts

\* A call is told something, or has acted on it.
LEMMA ToldMore ==
  ASSUME RateTypes, NEW c \in Calls, NEW decision \in {"restart", "count"},
         call[c] = "idle", call' = [call EXCEPT ![c] = decision]
  PROVE  /\ Restarts' = Restarts + (IF decision = "restart" THEN 1 ELSE 0)
         /\ Counts' = Counts + (IF decision = "count" THEN 1 ELSE 0)
<1>1. /\ Told("restart")' = Told("restart") \union (IF decision = "restart" THEN {c} ELSE {})
      /\ Told("count")' = Told("count") \union (IF decision = "count" THEN {c} ELSE {})
      /\ c \notin Told("restart") /\ c \notin Told("count")
  BY DEF Told, RateTypes
<1>2. /\ Restarts \in Nat /\ Counts \in Nat
      /\ IsFiniteSet(Told("restart")) /\ IsFiniteSet(Told("count"))
  BY ToldBounds
<1>3. ASSUME NEW s, IsFiniteSet(s), c \notin s
      PROVE  Cardinality(s \union {c}) = Cardinality(s) + 1
  BY <1>3, FS_AddElement
<1> QED BY <1>1, <1>2, <1>3 DEF Restarts, Counts

LEMMA ToldLess ==
  ASSUME RateTypes, NEW c \in Calls, call[c] \in {"restart", "count"},
         call' = [call EXCEPT ![c] = "idle"]
  PROVE  /\ Restarts' = Restarts - (IF call[c] = "restart" THEN 1 ELSE 0)
         /\ Counts' = Counts - (IF call[c] = "count" THEN 1 ELSE 0)
         /\ Restarts' \in Nat /\ Counts' \in Nat
<1>1. /\ Told("restart")' = Told("restart") \ (IF call[c] = "restart" THEN {c} ELSE {})
      /\ Told("count")' = Told("count") \ (IF call[c] = "count" THEN {c} ELSE {})
      /\ c \in Told(call[c])
  BY DEF Told, RateTypes
<1>2. /\ Restarts \in Nat /\ Counts \in Nat
      /\ IsFiniteSet(Told("restart")) /\ IsFiniteSet(Told("count"))
  BY ToldBounds
<1>3. ASSUME NEW s, IsFiniteSet(s), c \in s
      PROVE  Cardinality(s \ {c}) = Cardinality(s) - 1 /\ Cardinality(s \ {c}) \in Nat
  BY <1>3, FS_RemoveElement, FS_CardinalityType
<1>4. CASE call[c] = "restart"
  <2>1. Restarts' = Cardinality(Told("restart") \ {c}) /\ Counts' = Counts
    BY <1>1, <1>4 DEF Restarts, Counts
  <2> QED BY <1>1, <1>2, <1>3, <1>4, <2>1 DEF Restarts
<1>5. CASE call[c] = "count"
  <2>1. Counts' = Cardinality(Told("count") \ {c}) /\ Restarts' = Restarts
    BY <1>1, <1>5 DEF Restarts, Counts
  <2> QED BY <1>1, <1>2, <1>3, <1>5, <2>1 DEF Counts
<1> QED BY <1>4, <1>5

\* A window that is not over can be used up, and no further.
LEMMA PassedBound ==
  ASSUME RateTypes, ~bucket.over => 2 * passed + 2 * Left + Twice(Restarts) <= Twice(Size),
         bucket.over => 2 * passed <= Twice(Size)
  PROVE  2 * passed <= Twice(Size)
<1>1. /\ Restarts \in Nat /\ Counts \in Nat /\ Size \in Nat /\ Restarts \in 0 .. Size
      /\ Restarts + Counts <= Size
  BY ToldBounds, SizeNat
<1>2. /\ Twice(Restarts) \in Int /\ Twice(Restarts) >= 0
      /\ Size \in 0 .. Size /\ Twice(Size) \in Int
  BY <1>1, TwiceGrows
<1>3. Left \in Nat
  BY <1>1, AttemptsAssumption DEF Left, RateTypes
<1>4. passed \in Nat
  BY DEF RateTypes
<1> QED BY <1>2, <1>3, <1>4

LEMMA RateFirst == Init => RateInv
<1> SUFFICES ASSUME Init PROVE RateInv
  OBVIOUS
<1>1. RateTypes /\ passed = 0 /\ bucket.over
  BY DEF Init, RateInit, RateTypes
<1>2. Size \in 0 .. Size
  BY SizeNat
<1>3. 0 <= Twice(Size)
  BY <1>2, TwiceGrows
<1> QED BY <1>1, <1>3 DEF RateInv

\* A call that is let through into the window, or that starts one.
LEMMA PassKeeps ==
  ASSUME RateInv, NEW c \in Calls, RestartWindow(c) \/ (CountAttempt(c) /\ ~bucket.over)
  PROVE  RateInv'
<1> DEFINE r == Restarts  k == Counts  n == Size  m == MaxAttempts  b == bucket.count
<1>1. RateTypes /\ passed \in Nat /\ b \in Nat /\ bucket.over \in BOOLEAN
  BY DEF RateInv, RateTypes
<1>2. /\ call[c] \in {"restart", "count"} /\ call' = [call EXCEPT ![c] = "idle"]
      /\ bucket' = [count |-> IF call[c] = "restart" THEN 1 ELSE b + 1, over |-> FALSE]
      /\ passed' = (IF bucket.over THEN 1 ELSE passed + 1)
      /\ call[c] = "count" => ~bucket.over
  BY DEF RestartWindow, CountAttempt, Pass
<1>3. /\ Restarts' = r - (IF call[c] = "restart" THEN 1 ELSE 0)
      /\ Counts' = k - (IF call[c] = "count" THEN 1 ELSE 0)
      /\ Restarts' \in Nat /\ Counts' \in Nat
  BY <1>1, <1>2, ToldLess
<1>4. RateTypes'
  <2>1. b + 1 \in Nat /\ passed + 1 \in Nat
    BY <1>1
  <2> HIDE DEF b
  <2> QED BY <1>1, <1>2, <2>1 DEF RateTypes
<1>5. /\ r \in Nat /\ k \in Nat /\ n \in Nat /\ r + k <= n /\ m \in Nat /\ m >= 1
      /\ Restarts' \in Nat /\ Counts' \in Nat
  BY <1>1, <1>3, ToldBounds, SizeNat, AttemptsAssumption
<1>6. /\ bucket'.over = FALSE /\ bucket'.count >= 1
      /\ bucket'.count = IF call[c] = "restart" THEN 1 ELSE b + 1
  BY <1>1, <1>2
<1>7. Size' = n
  BY DEF Size
<1>8. Left' = IF bucket'.count < m THEN m - 1 - bucket'.count + n - Restarts' ELSE Counts'
  BY <1>7 DEF Left
<1>9. /\ Twice(r) \in Int /\ Twice(n) \in Int /\ Twice(r) <= Twice(n)
      /\ \A i \in Nat: Twice(i)' = Twice(i)
  <2>1. r \in 0 .. n
    BY <1>5
  <2>2. \A i \in Nat: Twice(i)' = Twice(i)
    BY DEF Twice, Size
  <2> QED BY <1>5, <2>1, <2>2, TwiceGrows, TwiceStep
<1>10. (2 * passed + 2 * Left + Twice(Restarts))' <= Twice(n)
  <2>1. CASE call[c] = "restart"
    <3>1. PICK e \in Nat: r = e + 1 /\ Restarts' = e /\ Counts' = k
      <4>1. r >= 1 /\ r - 1 \in Nat
        BY <1>3, <1>5, <2>1
      <4>2. r = (r - 1) + 1
        BY <1>5
      <4> QED BY <1>3, <1>5, <2>1, <4>1, <4>2
    <3>2. Twice(e + 1) = Twice(e) + 2 * (m + n - 1 - e) /\ Twice(e) \in Int
      BY TwiceStep
    <3>3. Left' \in Int /\ Left' <= m - 2 + n - e /\ (m = 1 => Left' = k)
      BY <1>5, <1>6, <1>8, <2>1, <3>1
    <3>4. (2 * passed + 2 * Left + Twice(Restarts))' = 2 * passed' + 2 * Left' + Twice(e)
      BY <1>9, <3>1
    <3>5. CASE bucket.over
      <4>1. passed' = 1
        BY <1>2, <3>5
      <4> HIDE DEF r, n, m, k
      <4> QED BY <1>5, <1>9, <3>1, <3>2, <3>3, <3>4, <4>1
    <3>6. CASE ~bucket.over
      <4>1. passed' = passed + 1 /\ 2 * passed + 2 * Left + Twice(r) <= Twice(n)
        BY <1>2, <3>6 DEF RateInv
      <4>2. Left = IF b < m THEN m - 1 - b + n - r ELSE k
        BY DEF Left
      <4>3. Left \in Int /\ Left' <= Left + (m + n - 1 - e) - 1
        BY <1>1, <1>5, <3>1, <3>3, <4>2
      <4> HIDE DEF r, n, m, k, b
      <4> QED BY <1>1, <1>5, <1>9, <3>1, <3>2, <3>3, <3>4, <4>1, <4>3
    <3> QED BY <3>5, <3>6
  <2>2. CASE call[c] = "count"
    <3>1. /\ Restarts' = r /\ Counts' = k - 1
          /\ passed' = passed + 1 /\ 2 * passed + 2 * Left + Twice(r) <= Twice(n)
      BY <1>2, <1>3, <1>5, <2>2 DEF RateInv
    <3>2. Left = IF b < m THEN m - 1 - b + n - r ELSE k
      BY DEF Left
    <3>3. Left \in Int /\ Left' \in Int /\ Left' <= Left - 1
      BY <1>1, <1>5, <1>6, <1>8, <2>2, <3>1, <3>2
    <3>4. (2 * passed + 2 * Left + Twice(Restarts))' = 2 * passed' + 2 * Left' + Twice(r)
      BY <1>5, <1>9, <3>1
    <3> HIDE DEF r, n, m, k, b
    <3> QED BY <1>1, <1>9, <3>1, <3>3, <3>4
  <2> QED BY <1>2, <2>1, <2>2
<1>11. (2 * passed <= Twice(Size))'
  <2>1. /\ Left' \in Nat /\ passed' \in Nat
    BY <1>4, <1>5, <1>6, <1>8, <1>3, ToldBounds DEF RateTypes
  <2>2. Twice(Restarts') >= 0 /\ Twice(Restarts') \in Int
    <3>1. Restarts' \in 0 .. Size
      BY <1>3, <1>5
    <3> QED BY <3>1, TwiceGrows
  <2>3. 2 * passed' + 2 * Left' + Twice(Restarts') <= Twice(n)
    BY <1>5, <1>9, <1>10
  <2>4. (2 * passed <= Twice(Size))' <=> 2 * passed' <= Twice(n)
    BY <1>5, <1>7, <1>9
  <2> HIDE DEF r, n, m, k, b
  <2> QED BY <1>9, <2>1, <2>2, <2>3, <2>4
<1>12. Twice(Size)' = Twice(n)
  BY <1>5, <1>7, <1>9
<1> QED BY <1>4, <1>6, <1>10, <1>11, <1>12 DEF RateInv

LEMMA RateStep == RateInv /\ [Next]_vars => RateInv'
<1> SUFFICES ASSUME RateInv, [Next]_vars PROVE RateInv'
  OBVIOUS
<1>1. RateTypes /\ \A i: Twice(i)' = Twice(i)
  BY DEF RateInv, Twice, Size
<1>2. Size \in Nat /\ Size' = Size
  BY SizeNat DEF Size
<1>3. CASE UNCHANGED rateVars
  BY <1>3 DEF rateVars, RateInv, RateTypes, Left, Restarts, Counts, Told, Twice, Size
<1>4. CASE WindowEnds
  BY <1>1, <1>2, <1>4 DEF WindowEnds, RateInv, RateTypes
<1>5. ASSUME NEW c \in Calls, ReadBucket(c) PROVE RateInv'
  <2> DEFINE d == Decision(bucket)
  <2>1. CASE d = "refuse"
    <3>1. UNCHANGED rateVars
      BY <1>1, <1>5, <2>1 DEF ReadBucket, RateTypes, rateVars
    <3> QED BY <1>3, <3>1
  <2>2. CASE d = "restart"
    <3>1. bucket.over /\ call' = [call EXCEPT ![c] = "restart"] /\ UNCHANGED <<bucket, passed>>
      BY <1>5, <2>2 DEF ReadBucket, Decision
    <3> QED BY <1>1, <1>2, <3>1 DEF RateInv, RateTypes
  <2>3. CASE d = "count"
    <3>1. /\ call[c] = "idle" /\ call' = [call EXCEPT ![c] = "count"]
          /\ UNCHANGED <<bucket, passed>>
      BY <1>5, <2>3 DEF ReadBucket
    <3>2. ~bucket.over /\ ~(bucket.count >= MaxAttempts)
      BY <2>3 DEF Decision
    <3>3. bucket.count < MaxAttempts
      BY <1>1, <3>2, AttemptsAssumption DEF RateTypes
    <3>4. Restarts' = Restarts + 0
      BY <1>1, <3>1, ToldMore
    <3>5. Restarts' = Restarts
      BY <1>1, <3>4, ToldBounds
    <3>6. Left' = Left
      BY <1>2, <3>1, <3>3, <3>5 DEF Left
    <3> QED BY <1>1, <1>2, <3>1, <3>2, <3>5, <3>6 DEF RateInv, RateTypes
  <2> QED BY <2>1, <2>2, <2>3 DEF Decision
<1>6. ASSUME NEW c \in Calls, RestartWindow(c) PROVE RateInv'
  BY <1>6, PassKeeps
<1>7. ASSUME NEW c \in Calls, CountAttempt(c) PROVE RateInv'
  <2>1. CASE bucket.over
    BY <1>1, <1>2, <1>7, <2>1 DEF CountAttempt, RateInv, RateTypes
  <2>2. CASE ~bucket.over
    BY <1>7, <2>2, PassKeeps
  <2> QED BY <2>1, <2>2
<1> QED BY <1>3, <1>4, <1>5, <1>6, <1>7, Parts DEF RateNext

\* However many calls there are at a time and however they interleave, a window lets
\* through at most its attempts once for each of them, and the calls that were let through
\* on an older count (rate-limit.ts:19-40).
THEOREM RateBounded == Spec => []WindowBounded
<1>1. ASSUME RateInv PROVE WindowBounded
  <2>1. PICK m \in Nat: m = MaxAttempts
    BY AttemptsAssumption
  <2>2. PICK n \in Nat: n = Size
    BY SizeNat
  <2>3. PICK x \in Nat: x = n * (n - 1)
    <3>1. n = 0 \/ n - 1 \in Nat
      OBVIOUS
    <3> QED BY <3>1
  <2>4. PICK y \in Nat: y = n * m
    OBVIOUS
  <2>5. 2 * n * (m + n - 1) - n * (n - 1) = 2 * (n * m) + n * (n - 1)
    OBVIOUS
  <2>6. 2 * passed <= 2 * y + x /\ passed \in Nat
    BY <1>1, <2>1, <2>2, <2>3, <2>4, <2>5 DEF RateInv, RateTypes, Twice
  <2>7. passed <= y + x \div 2
    BY <2>6
  <2> QED BY <2>1, <2>2, <2>3, <2>4, <2>7 DEF WindowBounded, Size
<1> QED BY <1>1, RateFirst, RateStep, PTL DEF Spec

-----------------------------------------------------------------------------
(* The account.  A link is opened by one request, and opens one session.   *)
(* A row that is open is old exactly if its version is.  A request that    *)
(* has read the rows has room for its own, but for those that were         *)
(* inserted since.  And once a session is there with the present version,  *)
(* there is one still, or a request that will insert one.                  *)

Pcs == {"idle", "clean", "create", "verified", "bump", "revoke", "hash", "session", "insert",
        "end", "delete"}
Ways == {"none", "login", "password", "delete", "one", "others"} \union Purposes
TokenRecord == [purpose: Ways, state: {"fresh", "sent", "gone", "used"}, opened: Nat]
RowRecord == [version: Nat, ended: BOOLEAN, old: BOOLEAN]
VisitRecord == [pc: Pcs, way: Ways, token: Nat, version: Nat, ends: SUBSET Nat, old: BOOLEAN]
AccountRecord == [version: Nat, verified: BOOLEAN, deleted: BOOLEAN]

AccountTypes ==
    /\ account \in AccountRecord /\ entered \in BOOLEAN
    /\ tokens \in Seq(TokenRecord) /\ rows \in Seq(RowRecord)
    /\ visit \in [Visits -> VisitRecord]

TokenInv ==
    /\ \A t \in DOMAIN tokens:
        tokens[t].opened <= 1 /\ (Usable(tokens[t].state) => tokens[t].opened = 0)
    /\ \A v \in Visits: visit[v].token # 0 =>
        /\ visit[v].token \in DOMAIN tokens
        /\ tokens[visit[v].token].opened = 0 /\ ~Usable(tokens[visit[v].token].state)
    /\ \A v, w \in Visits: v # w /\ visit[v].token # 0 => visit[w].token # visit[v].token

RowOk(s) ==
    /\ rows[s].version <= account.version
    /\ ~rows[s].ended => (rows[s].old <=> rows[s].version < account.version)

VisitOk(v) ==
    /\ visit[v].pc # "insert" => ~visit[v].old
    /\ visit[v].pc = "insert" =>
        /\ visit[v].version <= account.version
        /\ visit[v].old <=> visit[v].version < account.version
        /\ \A s \in visit[v].ends: s \in DOMAIN rows /\ rows[s].version <= visit[v].version
    /\ visit[v].pc \in {"bump", "revoke", "hash", "session", "insert"} =>
        account.verified \/ account.deleted
    /\ visit[v].pc \in {"bump", "revoke"} /\ visit[v].way = "delete" => account.deleted

Opening(v) ==
    \/ visit[v].pc \in {"revoke", "hash", "session"}
    \/ visit[v].pc = "insert" /\ ~visit[v].old

StillIn ==
    entered /\ ~account.deleted =>
        (\E s \in DOMAIN rows: Active(s)) \/ (\E v \in Visits: Opening(v))

\* since[v]: the requests that have inserted a row since v read them.
RoomFor(since) ==
    \A v \in Visits: visit[v].pc = "insert" =>
        /\ v \notin since[v]
        /\ Cardinality(Open \ visit[v].ends) <= MaxSessions - 1 + Cardinality(since[v])
        /\ \A w \in since[v]: visit[w].pc = "insert" => since[w] \subseteq since[v]

Room ==
    /\ Cardinality(Open) <= MaxSessions + Cardinality(Visits) - 1
    /\ \E since \in [Visits -> SUBSET Visits]: RoomFor(since)

SessionInv ==
    /\ \A s \in DOMAIN rows: RowOk(s)
    /\ \A v \in Visits: VisitOk(v)
    /\ StillIn /\ Room

AccountInv == AccountTypes /\ TokenInv /\ SessionInv

\* The oldest rows that leave room are as many as were asked for: a row that is not among
\* them has as many before it.
LEMMA OldestMany ==
  ASSUME IsFiniteSet(Open), Open \subseteq Nat, NEW k \in 0 .. Cardinality(Open)
  PROVE  Cardinality(Open \ Oldest(k)) <= Cardinality(Open) - k
<1> DEFINE before(s) == {o \in Open: o < s}
           rest == Open \ Oldest(k)
           n == Cardinality(Open)
           rank == [s \in rest |-> Cardinality(before(s))]
<1>1. n \in Nat /\ k \in Nat
  BY FS_CardinalityType
<1>2. ASSUME NEW s \in Open
      PROVE  /\ IsFiniteSet(before(s)) /\ Cardinality(before(s)) \in Nat
             /\ Cardinality(before(s)) <= n - 1
  <2>1. before(s) \subseteq Open \ {s}
    <3>1. \A o \in Nat: ~(o < o)
      OBVIOUS
    <3> QED BY <3>1
  <2>3. IsFiniteSet(Open \ {s})
    BY FS_RemoveElement
  <2>2. Cardinality(Open \ {s}) = n - 1
    BY FS_RemoveElement
  <2> HIDE DEF before, n
  <2>4. IsFiniteSet(before(s)) /\ Cardinality(before(s)) <= Cardinality(Open \ {s})
    BY <2>1, <2>3, FS_Subset
  <2> QED BY <2>2, <2>4, FS_CardinalityType
<1>3. ASSUME NEW s \in Open, NEW t \in Open, s < t
      PROVE  Cardinality(before(s)) < Cardinality(before(t))
  <2>1. before(s) \union {s} \subseteq before(t) /\ s \notin before(s)
    <3>1. \A o \in Open: (o < s => o < t) /\ ~(o < o)
      BY <1>3
    <3> QED BY <1>3, <3>1
  <2>2. Cardinality(before(s) \union {s}) = Cardinality(before(s)) + 1
    BY <1>2, <2>1, FS_AddElement
  <2>3. Cardinality(before(s) \union {s}) <= Cardinality(before(t))
    BY <1>2, <2>1, FS_Subset
  <2> HIDE DEF before
  <2> QED BY <1>2, <2>2, <2>3
<1>4. ASSUME NEW s \in rest PROVE rank[s] \in k .. n - 1
  <2>1. s \in Open /\ ~(Cardinality(before(s)) < k)
    BY DEF Oldest
  <2> HIDE DEF before, n
  <2> QED BY <1>1, <1>2, <2>1
<1>5. rank \in Injection(rest, k .. n - 1)
  <2>1. rank \in [rest -> k .. n - 1]
    BY <1>4
  <2>2. ASSUME NEW s \in rest, NEW t \in rest, s # t PROVE rank[s] # rank[t]
    <3>1. s \in Open /\ t \in Open /\ (s < t \/ t < s)
      BY <2>2
    <3>2. rank[s] = Cardinality(before(s)) /\ rank[t] = Cardinality(before(t))
      OBVIOUS
    <3>3. Cardinality(before(s)) \in Nat /\ Cardinality(before(t)) \in Nat
      BY <1>2, <3>1
    <3> HIDE DEF before, rank
    <3> QED BY <1>3, <3>1, <3>2, <3>3
  <2> HIDE DEF rank, rest
  <2> QED BY <2>1, <2>2 DEF Injection, IsInjective
<1>6. IsFiniteSet(k .. n - 1) /\ Cardinality(k .. n - 1) = n - k
  <2>1. IsFiniteSet(k .. n - 1)
        /\ Cardinality(k .. n - 1) = IF k > n - 1 THEN 0 ELSE n - 1 - k + 1
    <3>1. k \in Int /\ n - 1 \in Int
      BY <1>1
    <3> HIDE DEF n
    <3> QED BY <3>1, FS_Interval
  <2>2. k <= n
    OBVIOUS
  <2> HIDE DEF n
  <2> QED BY <1>1, <2>1, <2>2
<1>7. Cardinality(rest) <= Cardinality(k .. n - 1)
  <2> HIDE DEF rest, rank, n
  <2> QED BY <1>5, <1>6, FS_Injection
<1> QED BY <1>6, <1>7

\* What a session table is made of.
LEMMA RowFacts ==
  ASSUME AccountTypes
  PROVE  /\ DOMAIN rows = 1 .. Len(rows) /\ Len(rows) \in Nat /\ Open \subseteq Nat
         /\ \A s \in DOMAIN rows: rows[s] \in RowRecord
         /\ IsFiniteSet(Open) /\ Cardinality(Open) \in Nat
<1>1. DOMAIN rows = 1 .. Len(rows) /\ Len(rows) \in Nat /\ \A s \in DOMAIN rows: rows[s] \in RowRecord
  BY DEF AccountTypes
<1>2. Open \subseteq 1 .. Len(rows) /\ IsFiniteSet(1 .. Len(rows))
  BY <1>1, FS_Interval DEF Open
<1>3. IsFiniteSet(Open)
  BY <1>2, FS_Subset
<1>4. Cardinality(Open) \in Nat
  BY <1>3, FS_CardinalityType
<1> QED BY <1>1, <1>2, <1>3, <1>4

\* The rows that are ended, and nothing else changes.
LEMMA RowsEnded ==
  ASSUME AccountTypes, NEW set
  PROVE  /\ EndRows(set) \in Seq(RowRecord)
         /\ DOMAIN EndRows(set) = DOMAIN rows /\ Len(EndRows(set)) = Len(rows)
         /\ \A s \in DOMAIN rows: EndRows(set)[s] = IF s \in set THEN Ended ELSE rows[s]
<1>1. Ended \in RowRecord
  BY DEF Ended, RowRecord
<1>2. \A s \in 1 .. Len(rows): (IF s \in set THEN Ended ELSE rows[s]) \in RowRecord
  BY <1>1, RowFacts
<1>3. EndRows(set) = [s \in 1 .. Len(rows) |-> IF s \in set THEN Ended ELSE rows[s]]
  BY RowFacts DEF EndRows
<1> QED BY <1>2, <1>3, RowFacts

\* A request that goes on, and one that begins.
LEMMA MoveTurns ==
  ASSUME AccountTypes, NEW v \in Visits, NEW pc \in Pcs, Move(v, pc)
  PROVE  \E new \in VisitRecord:
            /\ visit' = [visit EXCEPT ![v] = new] /\ new.pc = pc
            /\ new.way = visit[v].way /\ new.token = visit[v].token /\ new.old = visit[v].old
<1> DEFINE new == [visit[v] EXCEPT !.pc = pc]
<1>1. visit[v] \in VisitRecord
  BY DEF AccountTypes
<1>2. /\ new \in VisitRecord /\ new.pc = pc
      /\ new.way = visit[v].way /\ new.token = visit[v].token /\ new.old = visit[v].old
  BY <1>1 DEF VisitRecord
<1>3. visit' = [visit EXCEPT ![v] = new]
  BY DEF Move, AccountTypes
<1> HIDE DEF new
<1> QED BY <1>2, <1>3

LEMMA IdleVisit ==
  /\ Idle \in VisitRecord /\ Idle.pc = "idle" /\ Idle.way = "none" /\ Idle.token = 0
  /\ Idle.old = FALSE
  BY DEF Idle, VisitRecord, Pcs, Ways

LEMMA BeginTurns ==
  ASSUME NEW v \in Visits, NEW pc \in Pcs, NEW how \in Ways, NEW link \in Nat,
         Begin(v, pc, how, link)
  PROVE  \E new \in VisitRecord:
            /\ visit' = [visit EXCEPT ![v] = new] /\ new.pc = pc
            /\ new.way = how /\ new.token = link /\ ~new.old
<1> DEFINE new == [Idle EXCEPT !.pc = pc, !.way = how, !.token = link]
<1>1. new \in VisitRecord
  <2> HIDE DEF Pcs, Ways
  <2> QED BY IdleVisit DEF VisitRecord
<1>2. new.pc = pc /\ new.way = how /\ new.token = link /\ ~new.old
  BY IdleVisit DEF VisitRecord
<1>3. visit' = [visit EXCEPT ![v] = new]
  BY DEF Begin
<1> HIDE DEF new
<1> QED BY <1>1, <1>2, <1>3

\* No link is made, opened or used for a session.
LEMMA TokensKeep ==
  ASSUME AccountTypes, TokenInv, visit' \in [Visits -> VisitRecord],
         DOMAIN tokens' = DOMAIN tokens,
         \A t \in DOMAIN tokens: /\ tokens'[t].opened = tokens[t].opened
                                 /\ Usable(tokens'[t].state) => Usable(tokens[t].state),
         \A v \in Visits: visit'[v].token \in {0, visit[v].token}
  PROVE  TokenInv'
<1>1. (\A t \in DOMAIN tokens:
          tokens[t].opened <= 1 /\ (Usable(tokens[t].state) => tokens[t].opened = 0))'
  BY DEF TokenInv, Usable
<1>2. (\A v \in Visits: visit[v].token # 0 =>
        /\ visit[v].token \in DOMAIN tokens
        /\ tokens[visit[v].token].opened = 0 /\ ~Usable(tokens[visit[v].token].state))'
  BY DEF TokenInv, Usable
<1>3. (\A v, w \in Visits: v # w /\ visit[v].token # 0 => visit[w].token # visit[v].token)'
  BY DEF TokenInv
<1> QED BY <1>1, <1>2, <1>3 DEF TokenInv

\* The rows stay, and a request that has not read them does something.
LEMMA RowsStay ==
  ASSUME AccountTypes, SessionInv, NEW v \in Visits, NEW new \in VisitRecord,
         visit' = [visit EXCEPT ![v] = new], rows' = rows,
         account' \in AccountRecord, account'.version = account.version,
         account.verified => account'.verified, account.deleted => account'.deleted,
         entered' => entered /\ account'.deleted = account.deleted,
         ~new.old, new.pc # "insert",
         new.pc \in {"bump", "revoke", "hash", "session"} => account'.verified \/ account'.deleted,
         new.pc \in {"bump", "revoke"} /\ new.way = "delete" => account'.deleted,
         entered' /\ ~account'.deleted /\ Opening(v) => new.pc \in {"revoke", "hash", "session"}
  PROVE  SessionInv'
<1>1. visit'[v] = new /\ \A w \in Visits \ {v}: visit'[w] = visit[w]
  BY DEF AccountTypes
<1>2. \A s \in DOMAIN rows': RowOk(s)'
  BY DEF SessionInv, RowOk
<1>3. ASSUME NEW w \in Visits PROVE VisitOk(w)'
  <2>1. CASE w = v
    BY <1>1, <2>1 DEF VisitOk
  <2>2. CASE w # v
    BY <1>1, <2>2 DEF SessionInv, VisitOk
  <2> QED BY <2>1, <2>2
<1>4. StillIn'
  <2> SUFFICES ASSUME entered', ~account'.deleted
               PROVE  (\E s \in DOMAIN rows: Active(s))' \/ (\E w \in Visits: Opening(w))'
    BY DEF StillIn
  <2>1. (\E s \in DOMAIN rows: Active(s)) \/ (\E w \in Visits: Opening(w))
    BY DEF SessionInv, StillIn
  <2>2. ASSUME NEW s \in DOMAIN rows, Active(s) PROVE Active(s)'
    BY <2>2 DEF Active, isSessionActive
  <2>3. ASSUME NEW w \in Visits, Opening(w) PROVE Opening(w)'
    BY <1>1, <2>3 DEF Opening
  <2> QED BY <2>1, <2>2, <2>3
<1>5. Room'
  <2>1. Open' = Open
    BY DEF Open
  <2>2. PICK since \in [Visits -> SUBSET Visits]: RoomFor(since)
    BY DEF SessionInv, Room
  <2>3. RoomFor(since)'
    BY <1>1, <2>1, <2>2 DEF RoomFor
  <2>4. (Cardinality(Open) <= MaxSessions + Cardinality(Visits) - 1)'
    BY <2>1 DEF SessionInv, Room
  <2> QED BY <2>3, <2>4 DEF Room
<1> QED BY <1>2, <1>3, <1>4, <1>5 DEF SessionInv

\* Rows are ended by somebody who ends them on demand, or when no session is left to a
\* request that goes on.
LEMMA RowsEnd ==
  ASSUME AccountTypes, SessionInv, NEW set, rows' = EndRows(set), account' = account,
         \A w \in Visits: visit'[w].pc = "insert" => visit'[w] = visit[w],
         \A w \in Visits: VisitOk(w)', StillIn'
  PROVE  SessionInv'
<1>1. /\ DOMAIN rows' = DOMAIN rows
      /\ \A s \in DOMAIN rows: rows'[s] = IF s \in set THEN Ended ELSE rows[s]
  BY RowsEnded
<1>2. \A s \in DOMAIN rows': RowOk(s)'
  <2>1. account.version \in Nat
    BY DEF AccountTypes, AccountRecord
  <2> QED BY <1>1, <2>1 DEF SessionInv, RowOk, Ended
<1>3. Open' \subseteq Open
  BY <1>1 DEF Open, Ended
<1>4. IsFiniteSet(Open)
  BY RowFacts
<1>5. ASSUME NEW out
      PROVE  /\ Cardinality(Open' \ out) <= Cardinality(Open \ out)
             /\ Cardinality(Open' \ out) \in Nat /\ Cardinality(Open \ out) \in Nat
  <2>1. Open' \ out \subseteq Open \ out /\ Open \ out \subseteq Open
    BY <1>3
  <2>2. IsFiniteSet(Open \ out)
    BY <1>4, <2>1, FS_Subset
  <2> QED BY <2>1, <2>2, FS_Subset, FS_CardinalityType
<1>6. Room'
  <2>1. PICK since \in [Visits -> SUBSET Visits]: RoomFor(since)
    BY DEF SessionInv, Room
  <2>2. ASSUME NEW w \in Visits, visit'[w].pc = "insert"
        PROVE  Cardinality(Open' \ visit'[w].ends) <= MaxSessions - 1 + Cardinality(since[w])
    <3>1. visit'[w] = visit[w]
      BY <2>2
    <3>2. Cardinality(Open \ visit[w].ends) <= MaxSessions - 1 + Cardinality(since[w])
      BY <2>1, <2>2, <3>1 DEF RoomFor
    <3>3. /\ Cardinality(Open' \ visit[w].ends) <= Cardinality(Open \ visit[w].ends)
          /\ Cardinality(Open' \ visit[w].ends) \in Nat /\ Cardinality(Open \ visit[w].ends) \in Nat
      BY <1>5
    <3>4. Cardinality(since[w]) \in Nat /\ MaxSessions \in Nat
      BY VisitsAssumption, SessionsAssumption, FS_Subset, FS_CardinalityType
    <3> QED BY <3>1, <3>2, <3>3, <3>4
  <2>3. RoomFor(since)'
    BY <2>1, <2>2 DEF RoomFor
  <2>4. (Cardinality(Open) <= MaxSessions + Cardinality(Visits) - 1)'
    <3>1. Open \ {} = Open /\ Open' \ {} = Open'
      OBVIOUS
    <3>2. Cardinality(Open') <= Cardinality(Open) /\ Cardinality(Open') \in Nat
          /\ Cardinality(Open) \in Nat
      BY <1>5, <3>1
    <3>3. Cardinality(Visits) \in Nat /\ MaxSessions \in Nat
      BY VisitsAssumption, SessionsAssumption, FS_CardinalityType
    <3> QED BY <3>2, <3>3 DEF SessionInv, Room
  <2> QED BY <2>3, <2>4 DEF Room
<1> QED BY <1>2, <1>6 DEF SessionInv

LEMMA ReadKeeps ==
  ASSUME AccountTypes, SessionInv, NEW v \in Visits, ReadSessions(v), ~account.deleted
  PROVE  /\ SessionInv'
         /\ visit' \in [Visits -> VisitRecord]
         /\ \A w \in Visits: visit'[w].token = visit[w].token
<1> DEFINE new == [visit[v] EXCEPT !.pc = "insert", !.version = account.version,
                                   !.ends = Overflowing]
<1>1. visit[v] \in VisitRecord /\ account.version \in Nat
  BY DEF AccountTypes, AccountRecord
<1>2. Overflowing \subseteq Open /\ Open \subseteq Nat /\ Open \subseteq DOMAIN rows
  BY RowFacts DEF Overflowing, Overflow, Oldest, Open
<1>3. visit' = [visit EXCEPT ![v] = new] /\ UNCHANGED <<account, tokens, rows, entered>>
  BY DEF ReadSessions, AccountTypes
<1>4. visit[v].pc = "session" /\ visit[v].old = FALSE /\ (account.verified \/ account.deleted)
  BY <1>1 DEF ReadSessions, Doing, SessionInv, VisitOk, VisitRecord
<1>5. /\ new \in VisitRecord /\ new.pc = "insert" /\ new.version = account.version
      /\ new.ends = Overflowing /\ new.old = FALSE /\ new.token = visit[v].token
  <2>1. "insert" \in Pcs /\ Overflowing \in SUBSET Nat
    BY <1>2 DEF Pcs
  <2> HIDE DEF Pcs, Ways
  <2> QED BY <1>1, <1>4, <2>1 DEF VisitRecord
<1> HIDE DEF new
<1>6. visit'[v] = new /\ \A w \in Visits \ {v}: visit'[w] = visit[w]
  BY <1>3 DEF AccountTypes
<1>7. \A s \in DOMAIN rows': RowOk(s)'
  BY <1>3 DEF SessionInv, RowOk
<1>8. ASSUME NEW w \in Visits PROVE VisitOk(w)'
  <2>1. CASE w = v
    <3>1. \A s \in Overflowing: s \in DOMAIN rows /\ rows[s].version <= account.version
      BY <1>2 DEF SessionInv, RowOk
    <3> QED BY <1>1, <1>3, <1>4, <1>5, <1>6, <2>1, <3>1 DEF VisitOk
  <2>2. CASE w # v
    BY <1>3, <1>6, <2>2 DEF SessionInv, VisitOk
  <2> QED BY <2>1, <2>2
<1>9. StillIn'
  <2>1. Opening(v)'
    BY <1>5, <1>6 DEF Opening
  <2> QED BY <2>1 DEF StillIn
<1>10. Room'
  <2>1. PICK since \in [Visits -> SUBSET Visits]: RoomFor(since)
    BY DEF SessionInv, Room
  <2> DEFINE now == [since EXCEPT ![v] = {}]
  <2>2. now \in [Visits -> SUBSET Visits] /\ now[v] = {} /\ \A w \in Visits \ {v}: now[w] = since[w]
    OBVIOUS
  <2>3. Open' = Open
    BY <1>3 DEF Open
  <2>4. Cardinality(Open \ Overflowing) <= MaxSessions - 1
    <3>1. /\ IsFiniteSet(Open) /\ Open \subseteq Nat /\ Cardinality(Open) \in Nat
          /\ MaxSessions \in Nat /\ MaxSessions >= 1
      BY RowFacts, SessionsAssumption
    <3>2. CASE Cardinality(Open) < MaxSessions
      <4>1. Cardinality(Open \ Overflowing) = Cardinality(Open)
        <5>1. Open \ {} = Open
          OBVIOUS
        <5> QED BY <3>2, <5>1 DEF Overflowing
      <4>2. \A c, m \in Nat: c < m => c <= m - 1
        OBVIOUS
      <4>3. Cardinality(Open) <= MaxSessions - 1
        BY <3>1, <3>2, <4>2
      <4> QED BY <4>1, <4>3
    <3>3. CASE ~(Cardinality(Open) < MaxSessions)
      <4>1. PICK k \in 0 .. Cardinality(Open): k = Cardinality(Open) + 1 - MaxSessions
        BY <3>1, <3>3
      <4>2. Overflowing = Oldest(k)
        BY <3>3, <4>1 DEF Overflowing, Overflow
      <4>3. Cardinality(Open \ Oldest(k)) <= Cardinality(Open) - k
        BY <3>1, OldestMany
      <4> QED BY <3>1, <4>1, <4>2, <4>3
    <3> QED BY <3>2, <3>3
  <2> HIDE DEF now
  <2>5. ASSUME NEW w \in Visits, visit'[w].pc = "insert"
        PROVE  /\ w \notin now[w]
               /\ Cardinality(Open' \ visit'[w].ends) <= MaxSessions - 1 + Cardinality(now[w])
               /\ \A x \in now[w]: visit'[x].pc = "insert" => now[x] \subseteq now[w]
    <3>1. CASE w = v
      <4>1. Cardinality(now[w]) = 0 /\ now[w] = {}
        BY <2>2, <3>1, FS_EmptySet
      <4>2. Cardinality(Open' \ visit'[w].ends) <= MaxSessions - 1
        BY <1>5, <1>6, <2>3, <2>4, <3>1
      <4>3. MaxSessions - 1 + Cardinality(now[w]) = MaxSessions - 1
        BY <4>1, SessionsAssumption
      <4> QED BY <4>1, <4>2, <4>3
    <3>2. CASE w # v
      <4>1. now[w] = since[w] /\ visit'[w] = visit[w]
        BY <1>6, <2>2, <3>2
      <4>2. \A x \in now[w]: visit'[x].pc = "insert" => now[x] \subseteq now[w]
        BY <1>6, <2>1, <2>2, <2>5, <4>1 DEF RoomFor
      <4> QED BY <2>1, <2>3, <2>5, <4>1, <4>2 DEF RoomFor
    <3> QED BY <3>1, <3>2
  <2>6. RoomFor(now)'
    BY <2>5 DEF RoomFor
  <2>7. (Cardinality(Open) <= MaxSessions + Cardinality(Visits) - 1)'
    BY <2>3 DEF SessionInv, Room
  <2> QED BY <2>2, <2>6, <2>7 DEF Room
<1>11. visit' \in [Visits -> VisitRecord]
  BY <1>3, <1>5 DEF AccountTypes
<1>12. \A w \in Visits: visit'[w].token = visit[w].token
  BY <1>5, <1>6
<1> QED BY <1>7, <1>8, <1>9, <1>10, <1>11, <1>12 DEF SessionInv

\* What a request inserts.
LEMMA RowInserted ==
  ASSUME AccountTypes, NEW v \in Visits, InsertSession(v)
  PROVE  \E n \in Nat:
            /\ rows' \in Seq(RowRecord) /\ n \notin DOMAIN rows
            /\ DOMAIN rows' = DOMAIN rows \union {n}
            /\ rows'[n] = [version |-> visit[v].version, ended |-> FALSE, old |-> visit[v].old]
            /\ \A s \in DOMAIN rows: rows'[s] = IF s \in visit[v].ends THEN Ended ELSE rows[s]
<1> DEFINE kept == EndRows(visit[v].ends)
           row == [version |-> visit[v].version, ended |-> FALSE, old |-> visit[v].old]
           n == Len(rows) + 1
<1>1. /\ kept \in Seq(RowRecord) /\ DOMAIN kept = DOMAIN rows /\ Len(kept) = Len(rows)
      /\ \A s \in DOMAIN rows: kept[s] = IF s \in visit[v].ends THEN Ended ELSE rows[s]
  BY RowsEnded
<1>2. row \in RowRecord
  BY DEF AccountTypes, VisitRecord, RowRecord
<1>3. rows' = Append(kept, row)
  BY DEF InsertSession
<1>4. DOMAIN rows = 1 .. Len(rows) /\ Len(rows) \in Nat
  BY RowFacts
<1> HIDE DEF kept, row
<1>5. /\ rows' \in Seq(RowRecord) /\ DOMAIN rows' = 1 .. Len(kept) + 1 /\ rows'[Len(kept) + 1] = row
      /\ \A s \in 1 .. Len(kept): rows'[s] = kept[s]
  BY <1>1, <1>2, <1>3
<1>6. n \in Nat /\ n \notin DOMAIN rows /\ DOMAIN rows \union {n} = 1 .. n
  BY <1>4
<1>7. rows'[n] = row /\ DOMAIN rows' = 1 .. n /\ \A s \in DOMAIN rows: rows'[s] = kept[s]
  BY <1>1, <1>4, <1>5
<1> HIDE DEF n
<1> QED BY <1>1, <1>5, <1>6, <1>7 DEF row

LEMMA InsertKeeps ==
  ASSUME AccountTypes, SessionInv, NEW v \in Visits, InsertSession(v)
  PROVE  SessionInv'
<1> DEFINE ends == visit[v].ends
           row == [version |-> visit[v].version, ended |-> FALSE, old |-> visit[v].old]
<1>1. PICK n \in Nat:
        /\ rows' \in Seq(RowRecord) /\ n \notin DOMAIN rows
        /\ DOMAIN rows' = DOMAIN rows \union {n} /\ rows'[n] = row
        /\ \A s \in DOMAIN rows: rows'[s] = IF s \in ends THEN Ended ELSE rows[s]
  BY RowInserted
<1>2. /\ visit[v].pc = "insert" /\ visit' = [visit EXCEPT ![v] = Idle]
      /\ account' = account /\ entered' = (entered \/ ~visit[v].old)
  BY DEF InsertSession, Doing
<1>3. /\ visit'[v].pc = "idle" /\ ~visit'[v].old
      /\ \A w \in Visits \ {v}: visit'[w] = visit[w]
  BY <1>2, IdleVisit DEF AccountTypes
<1>4. /\ account.version \in Nat /\ visit[v].version \in Nat /\ visit[v].old \in BOOLEAN
      /\ account.deleted \in BOOLEAN
  BY DEF AccountTypes, AccountRecord, VisitRecord
<1>5. /\ visit[v].version <= account.version
      /\ visit[v].old <=> visit[v].version < account.version
      /\ \A s \in ends: s \in DOMAIN rows /\ rows[s].version <= visit[v].version
      /\ account.verified \/ account.deleted
  BY <1>2 DEF SessionInv, VisitOk
<1>6. row.version = visit[v].version /\ row.ended = FALSE /\ row.old = visit[v].old
  OBVIOUS
<1> HIDE DEF row
<1>7. ASSUME NEW s \in DOMAIN rows' PROVE RowOk(s)'
  <2>1. CASE s = n
    BY <1>1, <1>2, <1>5, <1>6, <2>1 DEF RowOk
  <2>2. CASE s # n /\ s \in ends
    BY <1>1, <1>2, <1>4, <2>2 DEF RowOk, Ended
  <2>3. CASE s # n /\ s \notin ends
    BY <1>1, <1>2, <2>3 DEF SessionInv, RowOk
  <2> QED BY <2>1, <2>2, <2>3
<1>8. ASSUME NEW w \in Visits PROVE VisitOk(w)'
  <2>1. CASE w = v
    BY <1>3, <2>1 DEF VisitOk
  <2>2. CASE w # v
    <3>1. \A s \in visit[w].ends:
             s \in DOMAIN rows /\ rows[s].version <= visit[w].version /\ visit[w].version \in Nat =>
             s \in DOMAIN rows' /\ rows'[s].version <= visit[w].version
      BY <1>1 DEF Ended
    <3>2. visit[w].version \in Nat
      BY DEF AccountTypes, VisitRecord
    <3> QED BY <1>2, <1>3, <2>2, <3>1, <3>2 DEF SessionInv, VisitOk
  <2> QED BY <2>1, <2>2
<1>9. StillIn'
  <2> SUFFICES ASSUME entered', ~account'.deleted
               PROVE  (\E s \in DOMAIN rows: Active(s))' \/ (\E w \in Visits: Opening(w))'
    BY DEF StillIn
  <2>1. CASE ~visit[v].old
    <3>1. Active(n)'
      <4>1. visit[v].version = account.version
        BY <1>4, <1>5, <2>1
      <4> QED BY <1>1, <1>2, <1>5, <1>6, <4>1 DEF Active, isSessionActive
    <3> QED BY <1>1, <3>1
  <2>2. CASE visit[v].old
    <3>1. (\E s \in DOMAIN rows: Active(s)) \/ (\E w \in Visits: Opening(w))
      BY <1>2, <2>2 DEF SessionInv, StillIn
    <3>2. ASSUME NEW s \in DOMAIN rows, Active(s) PROVE Active(s)'
      <4>1. s \notin ends
        BY <1>4, <1>5, <2>2, <3>2 DEF Active, isSessionActive
      <4> QED BY <1>1, <1>2, <3>2, <4>1 DEF Active, isSessionActive
    <3>3. ASSUME NEW w \in Visits, Opening(w) PROVE Opening(w)'
      BY <1>2, <1>3, <2>2, <3>3 DEF Opening
    <3> QED BY <1>1, <3>1, <3>2, <3>3
  <2> QED BY <2>1, <2>2
<1>10. Open' = (Open \ ends) \union {n} /\ n \notin Open
  BY <1>1, <1>6 DEF Open, Ended
<1>11. /\ IsFiniteSet(Visits) /\ Cardinality(Visits) \in Nat
       /\ MaxSessions \in Nat /\ IsFiniteSet(Open)
  BY VisitsAssumption, SessionsAssumption, RowFacts, FS_CardinalityType
<1>12. PICK since \in [Visits -> SUBSET Visits]: RoomFor(since)
  BY DEF SessionInv, Room
<1>13. ASSUME NEW w \in Visits
       PROVE  /\ IsFiniteSet(since[w]) /\ Cardinality(since[w]) \in Nat
              /\ \A x \in Visits: x \in since[w] =>
                    Cardinality(since[w] \ {x}) = Cardinality(since[w]) - 1
  <2>1. IsFiniteSet(since[w])
    BY <1>11, FS_Subset
  <2> QED BY <2>1, FS_CardinalityType, FS_RemoveElement
<1>14. ASSUME NEW s PROVE IsFiniteSet(Open \ s) /\ Cardinality(Open \ s) \in Nat
  <2>1. IsFiniteSet(Open \ s)
    BY <1>11, FS_Subset
  <2> QED BY <2>1, FS_CardinalityType
\* With the new row the table exceeds the limit by those who were there first.
<1>15. /\ IsFiniteSet(Open') /\ Cardinality(Open') \in Nat
       /\ Cardinality(Open') <= MaxSessions + Cardinality(since[v])
  <2>1. /\ Cardinality(Open') = Cardinality(Open \ ends) + 1 /\ IsFiniteSet(Open')
    BY <1>10, <1>14, FS_AddElement
  <2>2. Cardinality(Open \ ends) <= MaxSessions - 1 + Cardinality(since[v])
    BY <1>2, <1>12 DEF RoomFor
  <2>3. PICK a \in Nat: a = Cardinality(Open \ ends)
    BY <1>14
  <2>4. PICK b \in Nat: b = Cardinality(since[v])
    BY <1>13
  <2>5. Cardinality(Open') = a + 1 /\ a <= MaxSessions - 1 + b
    BY <2>1, <2>2, <2>3, <2>4
  <2> QED BY <1>11, <2>1, <2>4, <2>5
<1>16. v \notin since[v]
  BY <1>2, <1>12 DEF RoomFor
<1>17. (Cardinality(Open) <= MaxSessions + Cardinality(Visits) - 1)'
  <2>1. since[v] \subseteq Visits \ {v}
    BY <1>16
  <2>2. IsFiniteSet(Visits \ {v}) /\ Cardinality(Visits \ {v}) = Cardinality(Visits) - 1
    BY <1>11, FS_RemoveElement
  <2>3. Cardinality(since[v]) <= Cardinality(Visits) - 1
    BY <2>1, <2>2, FS_Subset
  <2> QED BY <1>11, <1>13, <1>15, <2>3
<1> DEFINE now == [w \in Visits |-> since[w] \union {v}]
<1>18. ASSUME NEW w \in Visits, visit'[w].pc = "insert"
       PROVE  /\ w \notin now[w]
              /\ Cardinality(Open' \ visit'[w].ends) <= MaxSessions - 1 + Cardinality(now[w])
              /\ \A x \in now[w]: visit'[x].pc = "insert" => now[x] \subseteq now[w]
  <2>1. w # v /\ visit'[w] = visit[w]
    BY <1>3, <1>18
  <2>2. /\ w \notin since[w]
        /\ Cardinality(Open \ visit[w].ends) <= MaxSessions - 1 + Cardinality(since[w])
        /\ \A x \in since[w]: visit[x].pc = "insert" => since[x] \subseteq since[w]
    BY <1>12, <1>18, <2>1 DEF RoomFor
  <2>3. \A x \in now[w]: visit'[x].pc = "insert" => now[x] \subseteq now[w]
    BY <1>3, <2>2
  <2>4. Cardinality(Open' \ visit[w].ends) <= MaxSessions - 1 + Cardinality(now[w])
    <3>1. CASE v \in since[w]
      <4>1. now[w] = since[w]
        BY <3>1
      <4>2. since[v] \subseteq since[w] \ {v}
        BY <1>2, <1>16, <2>2, <3>1
      <4>3. IsFiniteSet(since[w] \ {v})
        BY <1>13, FS_RemoveElement
      <4>4. Cardinality(since[v]) <= Cardinality(since[w]) - 1
        BY <1>13, <3>1, <4>2, <4>3, FS_Subset
      <4>5. Cardinality(Open' \ visit[w].ends) <= Cardinality(Open')
            /\ Cardinality(Open' \ visit[w].ends) \in Nat
        BY <1>15, FS_Subset, FS_CardinalityType
      <4> HIDE DEF now
      <4> QED BY <1>11, <1>13, <1>15, <4>1, <4>4, <4>5
    <3>2. CASE v \notin since[w]
      <4>1. Cardinality(now[w]) = Cardinality(since[w]) + 1
        BY <1>13, <3>2, FS_AddElement
      <4> DEFINE rest == Open \ visit[w].ends
      <4>2. Open' \ visit[w].ends \subseteq rest \union {n}
        BY <1>10
      <4>3. IsFiniteSet(rest) /\ Cardinality(rest) \in Nat
        BY <1>14
      <4>4. IsFiniteSet(rest \union {n}) /\ Cardinality(rest \union {n}) <= Cardinality(rest) + 1
            /\ Cardinality(rest \union {n}) \in Nat
        <5> HIDE DEF rest
        <5>1. IsFiniteSet(rest \union {n}) /\ Cardinality(rest \union {n})
                 = IF n \in rest THEN Cardinality(rest) ELSE Cardinality(rest) + 1
          BY <4>3, FS_AddElement
        <5> QED BY <4>3, <5>1
      <4>5. Cardinality(Open' \ visit[w].ends) <= Cardinality(rest \union {n})
            /\ Cardinality(Open' \ visit[w].ends) \in Nat
        <5> HIDE DEF rest
        <5>1. IsFiniteSet(Open' \ visit[w].ends)
          BY <4>2, <4>4, FS_Subset
        <5> QED BY <4>2, <4>4, <5>1, FS_Subset, FS_CardinalityType
      <4>6. Cardinality(rest) <= MaxSessions - 1 + Cardinality(since[w])
        BY <2>2
      <4> HIDE DEF rest, now
      <4> QED BY <1>11, <1>13, <4>1, <4>3, <4>4, <4>5, <4>6
    <3> QED BY <3>1, <3>2
  <2>5. w \notin now[w]
    BY <2>1, <2>2
  <2> QED BY <2>1, <2>3, <2>4, <2>5
<1>19. now \in [Visits -> SUBSET Visits]
  OBVIOUS
<1> HIDE DEF now
<1>20. RoomFor(now)'
  BY <1>18 DEF RoomFor
<1>21. Room'
  BY <1>17, <1>19, <1>20 DEF Room
<1> QED BY <1>7, <1>8, <1>9, <1>21 DEF SessionInv

LEMMA BumpKeeps ==
  ASSUME AccountTypes, TokenInv, SessionInv, NEW v \in Visits, BumpVersion(v)
  PROVE  AccountInv'
<1>1. /\ visit[v].pc = "bump" /\ account' = [account EXCEPT !.version = @ + 1]
      /\ rows' = [s \in DOMAIN rows |-> [rows[s] EXCEPT !.old = ~rows[s].ended]]
      /\ visit' = [w \in Visits |->
                    IF w = v THEN [visit[v] EXCEPT !.pc = "revoke"]
                    ELSE IF Doing(w, "insert") THEN [visit[w] EXCEPT !.old = TRUE] ELSE visit[w]]
      /\ UNCHANGED <<tokens, entered>>
  BY DEF BumpVersion, Doing, NextVersion
<1>2. /\ account' \in AccountRecord /\ account'.version = account.version + 1
      /\ account'.verified = account.verified /\ account'.deleted = account.deleted
      /\ account.version \in Nat
  BY <1>1 DEF AccountTypes, AccountRecord
<1>3. ASSUME NEW s \in DOMAIN rows
      PROVE  /\ rows'[s] \in RowRecord /\ rows'[s].ended = rows[s].ended
             /\ rows'[s].version = rows[s].version /\ rows'[s].version \in Nat
             /\ rows'[s].old = ~rows[s].ended
  <2>1. rows[s] \in RowRecord
    BY RowFacts
  <2> QED BY <1>1, <2>1 DEF RowRecord
<1>4. DOMAIN rows' = DOMAIN rows /\ rows' \in Seq(RowRecord)
  <2>1. DOMAIN rows = 1 .. Len(rows) /\ Len(rows) \in Nat
    BY RowFacts
  <2>2. \A s \in 1 .. Len(rows): [rows[s] EXCEPT !.old = ~rows[s].ended] \in RowRecord
    BY <1>1, <1>3, <2>1
  <2>3. rows' = [s \in 1 .. Len(rows) |-> [rows[s] EXCEPT !.old = ~rows[s].ended]]
    BY <1>1, <2>1
  <2> QED BY <2>1, <2>2, <2>3
<1>5. ASSUME NEW w \in Visits
      PROVE  /\ visit'[w] \in VisitRecord /\ visit'[w].token = visit[w].token
             /\ visit'[w].way = visit[w].way /\ visit'[w].version = visit[w].version
             /\ visit'[w].ends = visit[w].ends
             /\ visit'[w].pc = IF w = v THEN "revoke" ELSE visit[w].pc
             /\ visit'[w].old = IF visit[w].pc = "insert" THEN TRUE ELSE visit[w].old
  <2>1. visit[w] \in VisitRecord
    BY DEF AccountTypes
  <2>2. CASE w = v
    <3>1. visit'[w] = [visit[w] EXCEPT !.pc = "revoke"] /\ "revoke" \in Pcs
      BY <1>1, <2>2 DEF Pcs
    <3> HIDE DEF Pcs, Ways
    <3> QED BY <1>1, <2>1, <2>2, <3>1 DEF VisitRecord
  <2>3. CASE w # v /\ visit[w].pc = "insert"
    <3>1. visit'[w] = [visit[w] EXCEPT !.old = TRUE]
      BY <1>1, <2>3 DEF Doing
    <3> QED BY <2>1, <2>3, <3>1 DEF VisitRecord
  <2>4. CASE w # v /\ visit[w].pc # "insert"
    <3>1. visit'[w] = visit[w]
      BY <1>1, <2>4 DEF Doing
    <3> QED BY <2>1, <2>4, <3>1
  <2> QED BY <2>2, <2>3, <2>4
<1>6. visit' \in [Visits -> VisitRecord]
  BY <1>1, <1>5
<1>7. AccountTypes'
  BY <1>1, <1>2, <1>4, <1>6 DEF AccountTypes
<1>8. TokenInv'
  BY <1>1, <1>5, <1>6, TokensKeep
<1>9. ASSUME NEW s \in DOMAIN rows' PROVE RowOk(s)'
  <2>1. rows'[s].version < account'.version /\ rows'[s].version <= account'.version
    <3>1. rows[s].version <= account.version
      BY <1>4 DEF SessionInv, RowOk
    <3> QED BY <1>2, <1>3, <1>4, <3>1
  <2>2. ~rows'[s].ended => rows'[s].old
    BY <1>3, <1>4
  <2> QED BY <2>1, <2>2 DEF RowOk
<1>10. ASSUME NEW w \in Visits PROVE VisitOk(w)'
  <2>1. visit[w].version \in Nat
    BY DEF AccountTypes, VisitRecord
  <2>2. w = v => visit[w].pc = "bump"
    BY <1>1
  <2>3. visit[w].pc = "insert" => visit[w].version <= account.version
    BY DEF SessionInv, VisitOk
  <2>4. visit[w].pc = "insert" => visit'[w].version < account'.version
                               /\ visit'[w].version <= account'.version
    <3>1. \A a, b \in Nat: a <= b => a < b + 1 /\ a <= b + 1
      OBVIOUS
    <3>2. visit'[w].version = visit[w].version /\ account'.version = account.version + 1
      BY <1>2, <1>5
    <3> QED BY <1>2, <2>1, <2>3, <3>1, <3>2
  <2>5. visit[w].pc = "insert" => visit'[w].old /\ \A s \in visit'[w].ends:
            s \in DOMAIN rows' /\ rows'[s].version <= visit'[w].version
    BY <1>3, <1>4, <1>5 DEF SessionInv, VisitOk
  <2>6. visit'[w].pc # "insert" => ~visit'[w].old
    BY <1>5, <2>2 DEF SessionInv, VisitOk
  <2>7. visit'[w].pc = "insert" => visit[w].pc = "insert"
    BY <1>5
  <2>8. visit'[w].pc \in {"bump", "revoke", "hash", "session", "insert"} =>
            account'.verified \/ account'.deleted
    BY <1>2, <1>5, <2>2 DEF SessionInv, VisitOk
  <2>9. visit'[w].pc \in {"bump", "revoke"} /\ visit'[w].way = "delete" => account'.deleted
    BY <1>2, <1>5, <2>2 DEF SessionInv, VisitOk
  <2> QED BY <2>4, <2>5, <2>6, <2>7, <2>8, <2>9 DEF VisitOk
<1>11. StillIn'
  <2>1. Opening(v)'
    BY <1>5 DEF Opening
  <2> QED BY <2>1 DEF StillIn
<1>12. Room'
  <2>1. Open' = Open
    BY <1>3, <1>4 DEF Open
  <2>2. PICK since \in [Visits -> SUBSET Visits]: RoomFor(since)
    BY DEF SessionInv, Room
  <2>3. \A w \in Visits: (visit'[w].pc = "insert" => visit[w].pc = "insert")
                         /\ visit'[w].ends = visit[w].ends
    BY <1>5
  <2>4. RoomFor(since)'
    BY <2>1, <2>2, <2>3 DEF RoomFor
  <2>5. (Cardinality(Open) <= MaxSessions + Cardinality(Visits) - 1)'
    BY <2>1 DEF SessionInv, Room
  <2> QED BY <2>4, <2>5 DEF Room
<1> QED BY <1>7, <1>8, <1>9, <1>10, <1>11, <1>12 DEF AccountInv, SessionInv

\* The three ways in which rows end: by a new version, on demand, and by their age.
LEMMA EndKeeps ==
  ASSUME AccountTypes, TokenInv, SessionInv, NEW set,
         rows' = EndRows(set), UNCHANGED <<account, tokens>>, entered' \in BOOLEAN,
         \/ visit' = visit
         \/ \E v \in Visits: \E new \in VisitRecord:
                /\ visit' = [visit EXCEPT ![v] = new] /\ ~new.old
                /\ new.token \in {0, visit[v].token}
                /\ \/ new.pc = "idle"
                   \/ visit[v].pc = "revoke" /\ new.pc \in {"hash", "session"},
         entered' => StillIn'
  PROVE  AccountInv'
<1>1. ASSUME NEW w \in Visits
      PROVE  /\ visit'[w] \in VisitRecord
             /\ visit'[w].token \in {0, visit[w].token}
             /\ \/ visit'[w] = visit[w]
                \/ ~visit'[w].old /\ (visit'[w].pc = "idle" \/ (/\ visit[w].pc = "revoke"
                                                               /\ visit'[w].pc \in {"hash", "session"}))
  BY DEF AccountTypes
<1>2. visit' \in [Visits -> VisitRecord]
  BY DEF AccountTypes
<1>3. TokenInv'
  BY <1>1, <1>2, TokensKeep
<1>4. AccountTypes'
  BY <1>2, RowsEnded DEF AccountTypes
<1>5. ASSUME NEW w \in Visits PROVE VisitOk(w)'
  <2>1. CASE visit'[w] = visit[w]
    <3>1. \A s \in DOMAIN rows: s \in DOMAIN rows' /\ rows'[s] = IF s \in set THEN Ended ELSE rows[s]
      BY RowsEnded
    <3>2. visit[w].version \in Nat
      BY DEF AccountTypes, VisitRecord
    <3>3. \A s \in DOMAIN rows:
             rows[s].version <= visit[w].version => rows'[s].version <= visit[w].version
      BY <3>1, <3>2 DEF Ended
    <3> QED BY <2>1, <3>1, <3>3 DEF SessionInv, VisitOk
  <2>2. CASE visit'[w] # visit[w]
    BY <1>1, <2>2 DEF SessionInv, VisitOk
  <2> QED BY <2>1, <2>2
<1>6. StillIn'
  BY DEF StillIn
<1>7. \A w \in Visits: visit'[w].pc = "insert" => visit'[w] = visit[w]
  BY <1>1
<1>8. SessionInv'
  BY <1>5, <1>6, <1>7, RowsEnd
<1> QED BY <1>3, <1>4, <1>8 DEF AccountInv

\* A link that is opened was held by nobody, and is held by one.
LEMMA LinkOpened ==
  ASSUME AccountTypes, TokenInv, NEW v \in Visits, NEW t \in DOMAIN tokens,
         Usable(tokens[t].state), NEW new \in VisitRecord, visit' = [visit EXCEPT ![v] = new],
         new.token = t, tokens' = [tokens EXCEPT ![t].state = "used"]
  PROVE  TokenInv' /\ tokens' \in Seq(TokenRecord)
<1>1. \A k \in DOMAIN tokens: tokens[k] \in TokenRecord
  BY DEF AccountTypes
<1> DEFINE used == [tokens[t] EXCEPT !.state = "used"]
<1>2. used \in TokenRecord /\ used.state = "used" /\ used.opened = tokens[t].opened
  BY <1>1 DEF TokenRecord
<1>3. tokens' = [tokens EXCEPT ![t] = used]
  BY DEF AccountTypes
<1> HIDE DEF used
<1>4. /\ DOMAIN tokens' = DOMAIN tokens /\ tokens'[t] = used
      /\ \A k \in DOMAIN tokens \ {t}: tokens'[k] = tokens[k]
      /\ tokens' \in Seq(TokenRecord)
  BY <1>2, <1>3 DEF AccountTypes
<1>5. visit'[v] = new /\ \A w \in Visits \ {v}: visit'[w] = visit[w]
  BY DEF AccountTypes
<1>6. t \in Nat \ {0}
  BY DEF AccountTypes
<1>7. \A w \in Visits: visit[w].token # t
  BY <1>6 DEF TokenInv
<1>8. (\A k \in DOMAIN tokens:
          tokens[k].opened <= 1 /\ (Usable(tokens[k].state) => tokens[k].opened = 0))'
  BY <1>2, <1>4 DEF TokenInv, Usable
<1>9. (\A w \in Visits: visit[w].token # 0 =>
        /\ visit[w].token \in DOMAIN tokens
        /\ tokens[visit[w].token].opened = 0 /\ ~Usable(tokens[visit[w].token].state))'
  BY <1>2, <1>4, <1>5, <1>7 DEF TokenInv, Usable
<1>10. (\A w, x \in Visits: w # x /\ visit[w].token # 0 => visit[x].token # visit[w].token)'
  BY <1>5, <1>7 DEF TokenInv
<1> QED BY <1>4, <1>8, <1>9, <1>10 DEF TokenInv

LEMMA LinkCreated ==
  ASSUME AccountTypes, TokenInv, NEW v \in Visits, CreateToken(v)
  PROVE  TokenInv' /\ tokens' \in Seq(TokenRecord)
<1> DEFINE link == [purpose |-> visit[v].way, state |-> "fresh", opened |-> 0]
<1>1. tokens' = Append(tokens, link) /\ visit' = [visit EXCEPT ![v] = Idle]
  BY DEF CreateToken
<1>2. tokens \in Seq(TokenRecord)
  BY DEF AccountTypes
<1>3. link \in TokenRecord /\ link.opened = 0
  BY DEF AccountTypes, VisitRecord, TokenRecord
<1> DEFINE n == Len(tokens)
<1>4. n \in Nat /\ DOMAIN tokens = 1 .. n
  BY <1>2
<1> HIDE DEF link
<1>5. /\ tokens' \in Seq(TokenRecord) /\ DOMAIN tokens' = 1 .. n + 1 /\ tokens'[n + 1] = link
      /\ \A t \in 1 .. n: tokens'[t] = tokens[t]
  BY <1>1, <1>2, <1>3
<1>6. visit'[v].token = 0 /\ \A w \in Visits \ {v}: visit'[w] = visit[w]
  BY <1>1, IdleVisit DEF AccountTypes
<1> HIDE DEF n
<1>7. \A t \in DOMAIN tokens': t \in DOMAIN tokens \/ t = n + 1
  BY <1>4, <1>5
<1>8. (\A k \in DOMAIN tokens:
          tokens[k].opened <= 1 /\ (Usable(tokens[k].state) => tokens[k].opened = 0))'
  <2>1. ASSUME NEW k \in DOMAIN tokens'
        PROVE  tokens'[k].opened <= 1 /\ (Usable(tokens'[k].state) => tokens'[k].opened = 0)
    <3>1. CASE k \in DOMAIN tokens
      BY <1>4, <1>5, <3>1 DEF TokenInv
    <3>2. CASE k = n + 1
      BY <1>3, <1>5, <3>2
    <3> QED BY <1>7, <3>1, <3>2
  <2> QED BY <2>1 DEF Usable
<1>9. (\A w \in Visits: visit[w].token # 0 =>
        /\ visit[w].token \in DOMAIN tokens
        /\ tokens[visit[w].token].opened = 0 /\ ~Usable(tokens[visit[w].token].state))'
  <2>1. \A t \in DOMAIN tokens: t \in DOMAIN tokens' /\ tokens'[t] = tokens[t]
    BY <1>4, <1>5
  <2> QED BY <1>6, <2>1 DEF TokenInv, Usable
<1>10. (\A w, x \in Visits: w # x /\ visit[w].token # 0 => visit[x].token # visit[w].token)'
  BY <1>6 DEF TokenInv
<1> QED BY <1>5, <1>8, <1>9, <1>10 DEF TokenInv

\* A session that is inserted is the one of its link.
LEMMA LinkUsed ==
  ASSUME AccountTypes, TokenInv, NEW v \in Visits, InsertSession(v)
  PROVE  TokenInv' /\ tokens' \in Seq(TokenRecord)
<1> DEFINE more(t) == [tokens[t] EXCEPT !.opened = @ + 1]
<1>1. /\ tokens' = [t \in DOMAIN tokens |-> IF t = visit[v].token THEN more(t) ELSE tokens[t]]
      /\ visit' = [visit EXCEPT ![v] = Idle]
  BY DEF InsertSession
<1>2. /\ DOMAIN tokens = 1 .. Len(tokens) /\ Len(tokens) \in Nat
      /\ \A t \in DOMAIN tokens: tokens[t] \in TokenRecord
  BY DEF AccountTypes
<1>3. ASSUME NEW t \in DOMAIN tokens
      PROVE  /\ more(t) \in TokenRecord /\ more(t).opened = tokens[t].opened + 1
             /\ more(t).state = tokens[t].state
  BY <1>2 DEF TokenRecord
<1> HIDE DEF more
<1>4. tokens' \in Seq(TokenRecord) /\ DOMAIN tokens' = DOMAIN tokens
  <2>1. tokens' = [t \in 1 .. Len(tokens) |-> IF t = visit[v].token THEN more(t) ELSE tokens[t]]
    BY <1>1, <1>2
  <2>2. \A t \in 1 .. Len(tokens): (IF t = visit[v].token THEN more(t) ELSE tokens[t]) \in TokenRecord
    BY <1>2, <1>3
  <2> QED BY <1>2, <2>1, <2>2
<1>5. ASSUME NEW t \in DOMAIN tokens
      PROVE  /\ tokens'[t].state = tokens[t].state
             /\ t # visit[v].token => tokens'[t].opened = tokens[t].opened
             /\ t = visit[v].token => tokens'[t].opened = tokens[t].opened + 1
  BY <1>1, <1>3
<1>6. visit'[v].token = 0 /\ \A w \in Visits \ {v}: visit'[w] = visit[w]
  BY <1>1, IdleVisit DEF AccountTypes
<1>7. ASSUME NEW t \in DOMAIN tokens, t = visit[v].token
      PROVE  tokens[t].opened = 0 /\ ~Usable(tokens[t].state)
  BY <1>2, <1>7 DEF TokenInv
<1>8. (\A k \in DOMAIN tokens:
          tokens[k].opened <= 1 /\ (Usable(tokens[k].state) => tokens[k].opened = 0))'
  BY <1>4, <1>5, <1>7 DEF TokenInv, Usable
<1>9. (\A w \in Visits: visit[w].token # 0 =>
        /\ visit[w].token \in DOMAIN tokens
        /\ tokens[visit[w].token].opened = 0 /\ ~Usable(tokens[visit[w].token].state))'
  BY <1>4, <1>5, <1>6 DEF TokenInv, Usable
<1>10. (\A w, x \in Visits: w # x /\ visit[w].token # 0 => visit[x].token # visit[w].token)'
  BY <1>6 DEF TokenInv
<1> QED BY <1>4, <1>8, <1>9, <1>10 DEF TokenInv

LEMMA AccountFirst == Init => AccountInv
<1> SUFFICES ASSUME Init PROVE AccountInv
  OBVIOUS
<1>1. /\ account = [version |-> 0, verified |-> FALSE, deleted |-> FALSE]
      /\ tokens = <<>> /\ rows = <<>>
      /\ visit = [v \in Visits |-> Idle] /\ entered = FALSE
  BY DEF Init, AccountsInit
<1>2. AccountTypes
  <2>1. account \in AccountRecord /\ entered \in BOOLEAN
    BY <1>1 DEF AccountRecord
  <2>2. tokens \in Seq(TokenRecord) /\ rows \in Seq(RowRecord)
    BY <1>1
  <2>3. visit \in [Visits -> VisitRecord]
    BY <1>1, IdleVisit
  <2> QED BY <2>1, <2>2, <2>3 DEF AccountTypes
<1>3. DOMAIN tokens = {} /\ DOMAIN rows = {}
  BY <1>1
<1>4. TokenInv
  BY <1>1, <1>3, IdleVisit DEF TokenInv
<1>5. \A v \in Visits: visit[v].pc = "idle" /\ ~visit[v].old
  BY <1>1, IdleVisit
<1>6. StillIn /\ \A v \in Visits: VisitOk(v)
  BY <1>1, <1>5 DEF StillIn, VisitOk
<1>7. Room
  <2>1. Cardinality(Open) = 0
    BY <1>3, FS_EmptySet DEF Open
  <2>2. Cardinality(Visits) \in Nat /\ MaxSessions \in Nat /\ MaxSessions >= 1
    BY VisitsAssumption, SessionsAssumption, FS_CardinalityType
  <2>3. RoomFor([v \in Visits |-> {}])
    BY <1>5 DEF RoomFor
  <2>4. [v \in Visits |-> {}] \in [Visits -> SUBSET Visits]
    OBVIOUS
  <2>5. Cardinality(Open) <= MaxSessions + Cardinality(Visits) - 1
    BY <2>1, <2>2
  <2> QED BY <2>3, <2>4, <2>5 DEF Room
<1> QED BY <1>2, <1>3, <1>4, <1>6, <1>7 DEF AccountInv, SessionInv

LEMMA AccountStep == AccountInv /\ [Next]_vars => AccountInv'
<1> SUFFICES ASSUME AccountInv, [Next]_vars PROVE AccountInv'
  OBVIOUS
<1>0. AccountTypes /\ TokenInv /\ SessionInv
  BY DEF AccountInv
<1>1. CASE UNCHANGED accountVars
  BY <1>1 DEF accountVars, AccountInv, AccountTypes, TokenInv, SessionInv, RowOk, VisitOk, StillIn,
              Active, isSessionActive, Opening, Room, RoomFor, Open
\* What most requests do: they go on, and change nothing yet.
<1>2. ASSUME NEW v \in Visits, NEW new \in VisitRecord, visit' = [visit EXCEPT ![v] = new],
             UNCHANGED <<account, tokens, rows, entered>>,
             new.token \in {0, visit[v].token}, ~new.old, new.pc # "insert",
             new.pc \in {"bump", "revoke", "hash", "session"} => account.verified \/ account.deleted,
             new.pc \in {"bump", "revoke"} /\ new.way = "delete" => account.deleted,
             Opening(v) => new.pc \in {"revoke", "hash", "session"}
      PROVE  AccountInv'
  <2>1. visit' \in [Visits -> VisitRecord]
        /\ \A w \in Visits: visit'[w].token \in {0, visit[w].token}
    BY <1>0, <1>2 DEF AccountTypes
  <2>2. AccountTypes'
    BY <1>0, <1>2, <2>1 DEF AccountTypes
  <2>3. TokenInv'
    BY <1>0, <1>2, <2>1, TokensKeep
  <2>4. SessionInv'
    <3>1. account' \in AccountRecord
      BY <1>0, <1>2 DEF AccountTypes
    <3> QED BY <1>0, <1>2, <3>1, RowsStay
  <2> QED BY <2>2, <2>3, <2>4 DEF AccountInv
<1>3. ASSUME NEW v \in Visits, NEW purpose \in Purposes, RequestLink(v, purpose) PROVE AccountInv'
  <2>1. PICK new \in VisitRecord: /\ visit' = [visit EXCEPT ![v] = new] /\ new.pc = "clean"
                                  /\ new.way = purpose /\ new.token = 0 /\ ~new.old
    <3>1. purpose \in Ways /\ "clean" \in Pcs /\ Begin(v, "clean", purpose, 0)
      BY <1>3 DEF RequestLink, Pcs, Ways
    <3> HIDE DEF Pcs, Ways
    <3> QED BY <3>1, BeginTurns
  <2> QED BY <1>2, <1>3, <2>1 DEF RequestLink, Opening, Doing
<1>4. ASSUME NEW v \in Visits, Login(v) PROVE AccountInv'
  <2>1. PICK new \in VisitRecord: /\ visit' = [visit EXCEPT ![v] = new] /\ new.pc = "session"
                                  /\ new.way = "login" /\ new.token = 0 /\ ~new.old
    BY <1>4, BeginTurns DEF Login, Pcs, Ways
  <2> QED BY <1>2, <1>4, <2>1 DEF Login, Opening, Doing
<1>5. ASSUME NEW v \in Visits, ChangePassword(v) PROVE AccountInv'
  <2>1. PICK new \in VisitRecord: /\ visit' = [visit EXCEPT ![v] = new] /\ new.pc = "bump"
                                  /\ new.way = "password" /\ new.token = 0 /\ ~new.old
    BY <1>5, BeginTurns DEF ChangePassword, Pcs, Ways
  <2> QED BY <1>2, <1>5, <2>1 DEF ChangePassword, Opening, Doing, Active
<1>6. ASSUME NEW v \in Visits, AskDeletion(v) PROVE AccountInv'
  <2>1. PICK new \in VisitRecord: /\ visit' = [visit EXCEPT ![v] = new] /\ new.pc = "delete"
                                  /\ new.way = "delete" /\ new.token = 0 /\ ~new.old
    BY <1>6, BeginTurns DEF AskDeletion, Pcs, Ways
  <2> QED BY <1>2, <1>6, <2>1 DEF AskDeletion, Opening, Doing
<1>7. ASSUME NEW v \in Visits, StoreHash(v) PROVE AccountInv'
  <2>1. PICK new \in VisitRecord:
          /\ visit' = [visit EXCEPT ![v] = new] /\ new.pc = "session"
          /\ new.way = visit[v].way /\ new.token = visit[v].token /\ new.old = visit[v].old
    BY <1>0, <1>7, MoveTurns DEF StoreHash, Pcs
  <2>2. visit[v].pc = "hash" /\ ~visit[v].old /\ (account.verified \/ account.deleted)
    BY <1>0, <1>7 DEF StoreHash, Doing, SessionInv, VisitOk
  <2> QED BY <1>2, <1>7, <2>1, <2>2 DEF StoreHash
<1>8. ASSUME NEW v \in Visits, NEW how \in {"one", "others"}, NEW named \in SUBSET (DOMAIN rows),
             BeginEnd(v, how, named)
      PROVE  AccountInv'
  <2> DEFINE new == [Idle EXCEPT !.pc = "end", !.way = how, !.ends = named]
  <2>1. new \in VisitRecord /\ new.pc = "end" /\ new.token = 0 /\ ~new.old
    <3>1. named \in SUBSET Nat
      BY <1>0, RowFacts
    <3>2. "end" \in Pcs /\ how \in Ways
      BY DEF Pcs, Ways
    <3> HIDE DEF Pcs, Ways
    <3> QED BY <3>1, <3>2, IdleVisit DEF VisitRecord
  <2>2. visit' = [visit EXCEPT ![v] = new] /\ UNCHANGED <<account, tokens, rows, entered>>
        /\ visit[v].pc = "idle"
    BY <1>8 DEF BeginEnd, Doing
  <2> HIDE DEF new
  <2> QED BY <1>2, <2>1, <2>2 DEF Opening
<1>9. ASSUME NEW v \in Visits, NEW s \in DOMAIN rows, logoutSession(v, s) PROVE AccountInv'
  <2>1. BeginEnd(v, "one", {s}) /\ {s} \in SUBSET (DOMAIN rows)
    BY <1>9 DEF logoutSession
  <2> QED BY <1>8, <2>1
<1>10. ASSUME NEW v \in Visits, NEW s \in DOMAIN rows, NEW t \in DOMAIN rows,
              \/ AskToEnd(v, s, "one", {t})
              \/ AskToEnd(v, s, "others", {s}) \/ AskToEnd(v, s, "others", {})
       PROVE  AccountInv'
  <2>1. \/ BeginEnd(v, "one", {t}) \/ BeginEnd(v, "others", {s}) \/ BeginEnd(v, "others", {})
    BY <1>10 DEF AskToEnd
  <2>2. {t} \in SUBSET (DOMAIN rows) /\ {s} \in SUBSET (DOMAIN rows) /\ {} \in SUBSET (DOMAIN rows)
    OBVIOUS
  <2> QED BY <1>8, <2>1, <2>2
<1>11. ASSUME NEW v \in Visits, DeleteUnused(v) PROVE AccountInv'
  <2>1. PICK new \in VisitRecord:
          /\ visit' = [visit EXCEPT ![v] = new] /\ new.pc = "create"
          /\ new.way = visit[v].way /\ new.token = visit[v].token /\ new.old = visit[v].old
    BY <1>0, <1>11, MoveTurns DEF DeleteUnused, Pcs
  <2>2. visit[v].pc = "clean" /\ ~visit[v].old /\ UNCHANGED <<account, rows, entered>>
    BY <1>0, <1>11 DEF DeleteUnused, Doing, SessionInv, VisitOk
  <2> DEFINE gone(t) == [tokens[t] EXCEPT !.state = "gone"]
  <2>3. tokens' = [t \in DOMAIN tokens |->
                    IF tokens[t].purpose = visit[v].way /\ tokens[t].state \in {"fresh", "sent"}
                    THEN gone(t) ELSE tokens[t]]
    BY <1>11 DEF DeleteUnused
  <2>4. ASSUME NEW t \in DOMAIN tokens
        PROVE  /\ tokens[t] \in TokenRecord /\ gone(t) \in TokenRecord
               /\ gone(t).state = "gone" /\ gone(t).opened = tokens[t].opened
    <3>1. tokens[t] \in TokenRecord
      BY <1>0 DEF AccountTypes
    <3> QED BY <3>1 DEF TokenRecord
  <2> HIDE DEF gone
  <2>5. tokens' \in Seq(TokenRecord) /\ DOMAIN tokens' = DOMAIN tokens
    <3>1. DOMAIN tokens = 1 .. Len(tokens) /\ Len(tokens) \in Nat
      BY <1>0 DEF AccountTypes
    <3> DEFINE next == [t \in DOMAIN tokens |->
                    IF tokens[t].purpose = visit[v].way /\ tokens[t].state \in {"fresh", "sent"}
                    THEN gone(t) ELSE tokens[t]]
    <3>2. next \in [1 .. Len(tokens) -> TokenRecord]
      BY <2>4, <3>1
    <3> HIDE DEF next
    <3> QED BY <2>3, <3>1, <3>2 DEF next
  <2>6. \A t \in DOMAIN tokens: /\ tokens'[t].opened = tokens[t].opened
                                /\ Usable(tokens'[t].state) => Usable(tokens[t].state)
    BY <2>3, <2>4 DEF Usable
  <2>7. visit' \in [Visits -> VisitRecord] /\ account' \in AccountRecord
        /\ \A w \in Visits: visit'[w].token \in {0, visit[w].token}
    BY <1>0, <2>1, <2>2 DEF AccountTypes
  <2>8. TokenInv'
    BY <1>0, <2>5, <2>6, <2>7, TokensKeep
  <2>9. AccountTypes'
    BY <1>0, <2>2, <2>5, <2>7 DEF AccountTypes
  <2>10. SessionInv'
    BY <1>0, <2>1, <2>2, <2>7, RowsStay DEF Opening
  <2> QED BY <2>8, <2>9, <2>10 DEF AccountInv
<1>12. ASSUME NEW v \in Visits, visit' = [visit EXCEPT ![v] = Idle],
              UNCHANGED <<account, rows>>, TokenInv', tokens' \in Seq(TokenRecord),
              \/ entered' = FALSE
              \/ entered' = entered /\ (visit[v].pc = "create" \/ account.deleted)
       PROVE  AccountInv'
  <2>1. visit' \in [Visits -> VisitRecord] /\ account' \in AccountRecord
    BY <1>0, <1>12, IdleVisit DEF AccountTypes
  <2>2. AccountTypes'
    BY <1>0, <1>12, <2>1 DEF AccountTypes
  <2>3. SessionInv'
    <3>1. entered' => entered /\ account'.deleted = account.deleted
      BY <1>12
    <3>2. entered' /\ ~account'.deleted => ~Opening(v)
      BY <1>12 DEF Opening
    <3> QED BY <1>0, <1>12, <2>1, <3>1, <3>2, IdleVisit, RowsStay
  <2> QED BY <1>12, <2>2, <2>3 DEF AccountInv
<1>13. ASSUME NEW v \in Visits, CreateToken(v) PROVE AccountInv'
  BY <1>0, <1>12, <1>13, LinkCreated DEF CreateToken, Doing
<1>14. ASSUME NEW v \in Visits, NEW t \in DOMAIN tokens, OpenLink(v, t) PROVE AccountInv'
  <2>1. tokens[t].purpose \in Ways /\ t \in Nat
    <3>1. tokens[t] \in TokenRecord /\ t \in Nat
      BY <1>0 DEF AccountTypes
    <3> HIDE DEF Ways
    <3> QED BY <3>1 DEF TokenRecord
  <2>2. PICK new \in VisitRecord: /\ visit' = [visit EXCEPT ![v] = new] /\ new.pc = "verified"
                                  /\ new.way = tokens[t].purpose /\ new.token = t /\ ~new.old
    <3>1. "verified" \in Pcs /\ Begin(v, "verified", tokens[t].purpose, t)
      BY <1>14 DEF OpenLink, Pcs
    <3> HIDE DEF Pcs, Ways
    <3> QED BY <2>1, <3>1, BeginTurns
  <2>3. TokenInv' /\ tokens' \in Seq(TokenRecord)
    BY <1>0, <1>14, <2>2, LinkOpened DEF OpenLink
  <2>4. visit[v].pc = "idle" /\ UNCHANGED <<account, rows, entered>>
    BY <1>14 DEF OpenLink, Doing
  <2>5. visit' \in [Visits -> VisitRecord] /\ account' \in AccountRecord
    BY <1>0, <2>2, <2>4 DEF AccountTypes
  <2>6. AccountTypes'
    BY <1>0, <2>3, <2>4, <2>5 DEF AccountTypes
  <2>7. SessionInv'
    BY <1>0, <2>2, <2>4, <2>5, RowsStay DEF Opening
  <2> QED BY <2>3, <2>6, <2>7 DEF AccountInv
<1>15. ASSUME NEW v \in Visits, MarkVerified(v) PROVE AccountInv'
  <2> DEFINE marked == account.verified \/ ~account.deleted \/ visit[v].way = "EMAIL_VERIFICATION"
             next == IF visit[v].way = "MAGIC_LINK" THEN "bump" ELSE "session"
             new == IF account.deleted THEN Idle ELSE [visit[v] EXCEPT !.pc = next]
  <2>1. /\ account' = [account EXCEPT !.verified = marked] /\ visit' = [visit EXCEPT ![v] = new]
        /\ UNCHANGED <<tokens, rows, entered>> /\ visit[v].pc = "verified" /\ ~visit[v].old
    BY <1>0, <1>15 DEF MarkVerified, Doing, SessionInv, VisitOk, AccountTypes, AccountRecord
  <2>2. marked \in BOOLEAN /\ (account.verified => marked) /\ (marked \/ account.deleted)
    BY <1>0 DEF AccountTypes, AccountRecord
  <2>3. /\ account' \in AccountRecord /\ account'.version = account.version
        /\ account'.deleted = account.deleted /\ account'.verified = marked
    <3> HIDE DEF marked
    <3> QED BY <1>0, <2>1, <2>2 DEF AccountTypes, AccountRecord
  <2>4. /\ new \in VisitRecord /\ ~new.old /\ new.token \in {0, visit[v].token}
        /\ new.pc \in {"idle", "bump", "session"} /\ (new.pc = "bump" => new.way = "MAGIC_LINK")
    <3>1. CASE account.deleted
      BY <3>1, IdleVisit
    <3>2. CASE ~account.deleted
      <4>1. /\ next \in Pcs /\ next \in {"bump", "session"}
            /\ next = "bump" => visit[v].way = "MAGIC_LINK"
        BY DEF Pcs
      <4>2. visit[v] \in VisitRecord
        BY <1>0 DEF AccountTypes
      <4> HIDE DEF Pcs, Ways, next
      <4> QED BY <2>1, <3>2, <4>1, <4>2 DEF VisitRecord
    <3> QED BY <3>1, <3>2
  <2> HIDE DEF new, marked, next
  <2>5. visit' \in [Visits -> VisitRecord] /\ \A w \in Visits: visit'[w].token \in {0, visit[w].token}
    BY <1>0, <2>1, <2>4 DEF AccountTypes
  <2>6. AccountTypes' /\ TokenInv'
    BY <1>0, <2>1, <2>3, <2>5, TokensKeep DEF AccountTypes
  <2>7. SessionInv'
    BY <1>0, <2>1, <2>2, <2>3, <2>4, RowsStay DEF Opening
  <2> QED BY <2>6, <2>7 DEF AccountInv
<1>16. ASSUME NEW v \in Visits, BumpVersion(v) PROVE AccountInv'
  BY <1>0, <1>16, BumpKeeps
<1>17. ASSUME NEW v \in Visits, RevokeAll(v) PROVE AccountInv'
  <2>1. /\ visit[v].pc = "revoke" /\ rows' = EndRows(DOMAIN rows)
        /\ UNCHANGED <<account, tokens, entered>> /\ ~visit[v].old /\ entered \in BOOLEAN
        /\ visit[v].way = "delete" => account.deleted
    BY <1>0, <1>17 DEF RevokeAll, Doing, SessionInv, VisitOk, AccountTypes
  <2>2. CASE visit[v].way = "delete"
    <3>1. visit' = [visit EXCEPT ![v] = Idle]
      BY <1>17, <2>2 DEF RevokeAll
    <3>2. StillIn'
      BY <2>1, <2>2 DEF StillIn
    <3> QED BY <1>0, <2>1, <3>1, <3>2, IdleVisit, EndKeeps
  <2>3. CASE visit[v].way # "delete"
    <3>1. PICK pc \in {"hash", "session"}: Move(v, pc)
      BY <1>17, <2>3 DEF RevokeAll
    <3>2. PICK new \in VisitRecord:
            /\ visit' = [visit EXCEPT ![v] = new] /\ new.pc = pc
            /\ new.way = visit[v].way /\ new.token = visit[v].token /\ new.old = visit[v].old
      BY <1>0, <3>1, MoveTurns DEF Pcs
    <3>3. StillIn'
      <4>1. Opening(v)'
        BY <1>0, <3>2 DEF Opening, AccountTypes
      <4> QED BY <4>1 DEF StillIn
    <3> QED BY <1>0, <2>1, <3>2, <3>3, EndKeeps
  <2> QED BY <2>2, <2>3
<1>18. ASSUME NEW v \in Visits, ReadSessions(v) PROVE AccountInv'
  <2>1. UNCHANGED <<account, tokens, rows, entered>> /\ visit[v].pc = "session"
    BY <1>18 DEF ReadSessions, Doing
  <2>2. CASE account.deleted
    <3>1. visit' = [visit EXCEPT ![v] = Idle]
      BY <1>0, <1>18, <2>2 DEF ReadSessions, AccountTypes
    <3>2. /\ visit' \in [Visits -> VisitRecord]
          /\ \A w \in Visits: visit'[w].token \in {0, visit[w].token}
      BY <1>0, <3>1, IdleVisit DEF AccountTypes
    <3>3. TokenInv'
      BY <1>0, <2>1, <3>2, TokensKeep
    <3>4. tokens' \in Seq(TokenRecord)
      BY <1>0, <2>1 DEF AccountTypes
    <3> QED BY <1>12, <2>1, <2>2, <3>1, <3>3, <3>4
  <2>3. CASE ~account.deleted
    <3>1. /\ SessionInv' /\ visit' \in [Visits -> VisitRecord]
          /\ \A w \in Visits: visit'[w].token = visit[w].token
      BY <1>0, <1>18, <2>3, ReadKeeps
    <3>2. AccountTypes' /\ TokenInv'
      BY <1>0, <2>1, <3>1, TokensKeep DEF AccountTypes
    <3> QED BY <3>1, <3>2 DEF AccountInv
  <2> QED BY <2>2, <2>3
<1>19. ASSUME NEW v \in Visits, InsertSession(v) PROVE AccountInv'
  <2>1. SessionInv' /\ TokenInv' /\ tokens' \in Seq(TokenRecord) /\ rows' \in Seq(RowRecord)
    BY <1>0, <1>19, InsertKeeps, LinkUsed, RowInserted
  <2>2. visit' = [visit EXCEPT ![v] = Idle] /\ account' = account
        /\ entered' = (entered \/ ~visit[v].old)
    BY <1>19 DEF InsertSession
  <2>3. AccountTypes'
    BY <1>0, <2>1, <2>2, IdleVisit DEF AccountTypes, VisitRecord
  <2> QED BY <2>1, <2>3 DEF AccountInv
<1>20. ASSUME NEW v \in Visits, EndSessions(v) PROVE AccountInv'
  <2>1. PICK set: rows' = EndRows(set)
    BY <1>20 DEF EndSessions
  <2>2. visit' = [visit EXCEPT ![v] = Idle] /\ entered' = FALSE /\ UNCHANGED <<account, tokens>>
    BY <1>20 DEF EndSessions
  <2> QED BY <1>0, <2>1, <2>2, IdleVisit, EndKeeps
<1>21. ASSUME NEW s \in DOMAIN rows, SessionExpires(s) PROVE AccountInv'
  BY <1>0, <1>21, EndKeeps DEF SessionExpires
<1>22. ASSUME NEW v \in Visits, VisitFails(v) PROVE AccountInv'
  <2>1. visit' = [visit EXCEPT ![v] = Idle] /\ entered' = FALSE /\ UNCHANGED <<account, tokens, rows>>
    BY <1>22 DEF VisitFails
  <2>2. visit' \in [Visits -> VisitRecord] /\ \A w \in Visits: visit'[w].token \in {0, visit[w].token}
    BY <1>0, <2>1, IdleVisit DEF AccountTypes
  <2>3. TokenInv' /\ tokens' \in Seq(TokenRecord)
    BY <1>0, <2>1, <2>2, TokensKeep DEF AccountTypes
  <2> QED BY <1>12, <2>1, <2>3
\* A link that is too old, or goes with the account.
<1>23. ASSUME NEW t \in DOMAIN tokens, NEW state \in {"sent", "gone"}, Usable(tokens[t].state),
              tokens' = [tokens EXCEPT ![t].state = state], UNCHANGED <<account, rows, visit, entered>>
       PROVE  AccountInv'
  <2>1. tokens[t] \in TokenRecord
    BY <1>0 DEF AccountTypes
  <2> DEFINE new == [tokens[t] EXCEPT !.state = state]
  <2>2. new \in TokenRecord /\ new.opened = tokens[t].opened
    BY <2>1 DEF TokenRecord
  <2>3. tokens' = [tokens EXCEPT ![t] = new]
    BY <1>0, <1>23 DEF AccountTypes
  <2> HIDE DEF new
  <2>4. /\ tokens' \in Seq(TokenRecord) /\ DOMAIN tokens' = DOMAIN tokens
        /\ tokens'[t] = new /\ \A k \in DOMAIN tokens \ {t}: tokens'[k] = tokens[k]
    BY <1>0, <2>2, <2>3 DEF AccountTypes
  <2>5. AccountTypes'
    BY <1>0, <1>23, <2>4 DEF AccountTypes
  <2>6. TokenInv'
    <3>1. visit' \in [Visits -> VisitRecord]
          /\ \A w \in Visits: visit'[w].token \in {0, visit[w].token}
      BY <1>0, <1>23 DEF AccountTypes
    <3>2. \A k \in DOMAIN tokens: /\ tokens'[k].opened = tokens[k].opened
                                  /\ Usable(tokens'[k].state) => Usable(tokens[k].state)
      BY <1>23, <2>2, <2>4
    <3> QED BY <1>0, <2>4, <3>1, <3>2, TokensKeep
  <2>7. SessionInv'
    BY <1>0, <1>23 DEF SessionInv, RowOk, VisitOk, StillIn, Active, isSessionActive, Opening, Room,
                       RoomFor, Open
  <2> QED BY <2>5, <2>6, <2>7 DEF AccountInv
<1>24. ASSUME NEW t \in DOMAIN tokens, CooldownEnds(t) \/ LinkExpires(t) PROVE AccountInv'
  BY <1>23, <1>24 DEF CooldownEnds, LinkExpires, Usable
<1>25. ASSUME NEW v \in Visits, DeleteAccount(v) PROVE AccountInv'
  <2>1. PICK new \in VisitRecord:
          /\ visit' = [visit EXCEPT ![v] = new] /\ new.pc = "bump"
          /\ new.way = visit[v].way /\ new.token = visit[v].token /\ new.old = visit[v].old
    BY <1>0, <1>25, MoveTurns DEF DeleteAccount, Pcs
  <2>2. /\ visit[v].pc = "delete" /\ ~visit[v].old /\ entered' = FALSE /\ rows' = rows
        /\ account' = [account EXCEPT !.deleted = TRUE]
        /\ tokens' = [t \in DOMAIN tokens |-> [tokens[t] EXCEPT !.state = "gone"]]
    BY <1>0, <1>25 DEF DeleteAccount, Doing, SessionInv, VisitOk
  <2>3. /\ account' \in AccountRecord /\ account'.version = account.version
        /\ account'.verified = account.verified /\ account'.deleted = TRUE
    BY <1>0, <2>2 DEF AccountTypes, AccountRecord
  <2>4. ASSUME NEW t \in DOMAIN tokens
        PROVE  /\ [tokens[t] EXCEPT !.state = "gone"] \in TokenRecord
               /\ [tokens[t] EXCEPT !.state = "gone"].state = "gone"
               /\ [tokens[t] EXCEPT !.state = "gone"].opened = tokens[t].opened
    <3>1. tokens[t] \in TokenRecord
      BY <1>0 DEF AccountTypes
    <3> QED BY <3>1 DEF TokenRecord
  <2>5. tokens' \in Seq(TokenRecord) /\ DOMAIN tokens' = DOMAIN tokens
    <3>1. DOMAIN tokens = 1 .. Len(tokens) /\ Len(tokens) \in Nat
      BY <1>0 DEF AccountTypes
    <3>2. tokens' \in [1 .. Len(tokens) -> TokenRecord]
      BY <2>2, <2>4, <3>1
    <3> QED BY <3>1, <3>2
  <2>6. \A t \in DOMAIN tokens: /\ tokens'[t].opened = tokens[t].opened
                                /\ Usable(tokens'[t].state) => Usable(tokens[t].state)
    BY <2>2, <2>4 DEF Usable
  <2>7. visit' \in [Visits -> VisitRecord] /\ \A w \in Visits: visit'[w].token \in {0, visit[w].token}
    BY <1>0, <2>1 DEF AccountTypes
  <2>8. TokenInv'
    BY <1>0, <2>5, <2>6, <2>7, TokensKeep
  <2>9. AccountTypes'
    BY <1>0, <2>2, <2>3, <2>5, <2>7 DEF AccountTypes
  <2>10. SessionInv'
    BY <1>0, <2>1, <2>2, <2>3, RowsStay DEF Opening
  <2> QED BY <2>8, <2>9, <2>10 DEF AccountInv
<1>26. AccountsNext => AccountInv'
  BY <1>3, <1>4, <1>5, <1>6, <1>7, <1>9, <1>10, <1>11, <1>13, <1>14, <1>15, <1>16, <1>17, <1>18,
     <1>19, <1>20, <1>21, <1>22, <1>24, <1>25 DEF AccountsNext
<1> QED BY <1>1, <1>26, Parts

\* However many requests there are at a time, and whatever links, passwords and buttons they
\* come by, and wherever they fail: the sessions are bounded in number, a link opens one,
\* none outlives a new version of the account, and those who enter at the same time do not
\* all shut each other out (user-session.ts, magic-link.ts, email-verification.ts).
THEOREM SessionsBounded == Spec => []SessionsSound
<1>1. ASSUME AccountInv PROVE SessionsSound
  <2>0. AccountTypes /\ TokenInv /\ SessionInv
    BY <1>1 DEF AccountInv
  <2>1. Capped
    <3> DEFINE active == {s \in DOMAIN rows: Active(s)}
    <3>1. active \subseteq Open
      BY DEF Active, isSessionActive, Open
    <3>2. IsFiniteSet(Open) /\ Cardinality(Open) \in Nat
      BY <2>0, RowFacts
    <3>3. IsFiniteSet(active) /\ Cardinality(active) <= Cardinality(Open)
      <4> HIDE DEF active
      <4> QED BY <3>1, <3>2, FS_Subset
    <3>4. Cardinality(active) \in Nat
      <4> HIDE DEF active
      <4> QED BY <3>3, FS_CardinalityType
    <3>5. /\ Cardinality(Open) <= MaxSessions + Cardinality(Visits) - 1
          /\ Cardinality(Visits) \in Nat /\ MaxSessions \in Nat
      BY <2>0, VisitsAssumption, SessionsAssumption, FS_CardinalityType DEF SessionInv, Room
    <3>6. Cardinality(active) <= MaxSessions + Cardinality(Visits) - 1
      <4> HIDE DEF active
      <4> QED BY <3>2, <3>3, <3>4, <3>5
    <3> QED BY <3>6 DEF Capped
  <2>2. OpenedOnce
    BY <2>0 DEF OpenedOnce, TokenInv
  <2>3. SignedOut
    <3>1. account.version \in Nat
      BY <2>0 DEF AccountTypes, AccountRecord
    <3> QED BY <2>0, <3>1 DEF SignedOut, SessionInv, RowOk, Active, isSessionActive
  <2>4. SomeoneIn
    BY <2>0 DEF SomeoneIn, SessionInv, StillIn, Opening, Doing
  <2> QED BY <2>1, <2>2, <2>3, <2>4 DEF SessionsSound
<1> QED BY <1>1, AccountFirst, AccountStep, PTL DEF Spec

-----------------------------------------------------------------------------
(* The subscription.  An event that was processed in its turn leaves the   *)
(* plan that Stripe bills, or a later one will; the last one leaves the    *)
(* flag; and what is wrong in the team is put right by the event whose     *)
(* turn it is.                                                             *)

Statuses == {"none", "active", "past_due", "canceled"}
EventRecord == [type: {"checkout", "updated", "deleted", "payment_failed", "paid"},
                status: Statuses, plan: Plans]
HandlerPcs == {"idle", "link", "retrieve", "clear", "pastDue", "downgrade", "plan", "ensure",
               "suspend", "mark"}
HandlerRecord == [pc: HandlerPcs, event: Nat, status: Statuses, plan: Plans \union {"none"}]
UserRecord == [linked: BOOLEAN, plan: Plans \union {"FREE", "none"}, pastDue: BOOLEAN]
TeamRecord == [exists: BOOLEAN, mate: {"none", "PENDING", "ACTIVE"}]

BillingTypes ==
    /\ sub \in [status: Statuses, plan: Plans]
    /\ events \in Seq(EventRecord)
    /\ stored \in [claimed: SUBSET Nat, processed: SUBSET Nat]
    /\ handler \in [Handlers -> HandlerRecord]
    /\ user \in UserRecord /\ team \in TeamRecord
    /\ disorder \in BOOLEAN /\ late \in BOOLEAN

Known == Len(events)

\* An event whose processing sets the plan, and the plan it leaves.
Sets(j) ==
    \/ events[j].type = "checkout" \/ events[j].status = "canceled"
    \/ events[j].type = "updated" /\ events[j].status = "active"
Effect(j) == IF events[j].status = "canceled" THEN "FREE" ELSE events[j].plan
SetLater(e) == \E j \in e + 1 .. Known: Sets(j)
Billed == IF Paying THEN sub.plan ELSE "FREE"

EventOk(j) ==
    /\ events[j].status # "none"
    /\ events[j].type \in {"checkout", "paid"} => events[j].status = "active"
    /\ events[j].type = "payment_failed" => events[j].status = "past_due"
    /\ events[j].type = "deleted" => events[j].status = "canceled"

EventsInv ==
    /\ \A j \in 1 .. Known: EventOk(j) /\ (Sets(j) => SetLater(j) \/ Effect(j) = Billed)
    /\ Known = 0 => sub.status = "none"
    /\ Known # 0 => events[1].type = "checkout" /\ events[Known].status = sub.status

PlanAfter(e) == SetLater(e) \/ user.plan = Billed
FlagAfter(e) == e < Known \/ user.pastDue = (sub.status = "past_due")
TeamOk == user.plan # "PRO" /\ team.mate = "ACTIVE" => late

HandlerOk(h, e) ==
    LET pc == handler[h].pc IN
    /\ e <= Known /\ handler[h].event = e
    /\ pc \in {"link", "retrieve"} => events[e].type = "checkout"
    /\ pc # "link" => user.linked
    /\ pc = "pastDue" => events[e].status = "past_due"
    /\ pc \in {"clear", "plan", "downgrade"} => events[e].status # "past_due"
    /\ pc = "plan" \/ (pc = "clear" /\ events[e].type # "paid") =>
           Sets(e) /\ (SetLater(e) \/ handler[h].plan = Billed)
    /\ pc = "downgrade" => Sets(e) /\ (SetLater(e) \/ Billed = "FREE")
    /\ pc \in {"plan", "ensure", "suspend", "mark"} => FlagAfter(e)
    /\ pc \in {"ensure", "suspend", "mark"} => PlanAfter(e)
    /\ pc \in {"ensure", "mark"} => TeamOk

\* k events were processed, and a handler that is at work is at the next.
Turn(k) ==
    /\ k <= Known /\ applied = 1 .. k
    /\ k # 0 => user.linked
    /\ PlanAfter(k) /\ FlagAfter(k)
    /\ TeamOk \/ (k < Known /\ Sets(k + 1))
    /\ \A h, g \in Handlers: ~At(h, "idle") /\ ~At(g, "idle") => h = g
    /\ \A h \in Handlers: ~At(h, "idle") => HandlerOk(h, k + 1)

BillingInv ==
    /\ BillingTypes /\ EventsInv
    /\ acked \subseteq applied /\ applied = stored.processed
    /\ ~disorder => \E k \in Nat: Turn(k)

\* A handler goes on.
LEMMA GoesTo ==
  ASSUME BillingTypes, NEW h \in Handlers, NEW pc \in HandlerPcs, GoTo(h, pc)
  PROVE  /\ handler' \in [Handlers -> HandlerRecord]
         /\ handler'[h].pc = pc /\ handler'[h].event = handler[h].event
         /\ handler'[h].plan = handler[h].plan
         /\ \A g \in Handlers \ {h}: handler'[g] = handler[g]
<1> DEFINE new == [handler[h] EXCEPT !.pc = pc]
<1>1. handler[h] \in HandlerRecord
  BY DEF BillingTypes
<1>2. /\ new \in HandlerRecord /\ new.pc = pc /\ new.event = handler[h].event
      /\ new.plan = handler[h].plan
  <2> HIDE DEF HandlerPcs
  <2> QED BY <1>1 DEF HandlerRecord
<1>3. handler' = [handler EXCEPT ![h] = new]
  BY DEF GoTo, BillingTypes
<1> HIDE DEF new
<1> QED BY <1>2, <1>3 DEF BillingTypes

\* What Stripe knows stays as it is.
LEMMA StripeSame ==
  ASSUME UNCHANGED billing
  PROVE  /\ Known' = Known /\ Billed' = Billed /\ sub' = sub /\ events' = events
         /\ \A j: /\ Sets(j)' = Sets(j) /\ SetLater(j)' = SetLater(j) /\ Effect(j)' = Effect(j)
                  /\ EventOk(j)' = EventOk(j)
         /\ EventsInv => EventsInv'
<1>1. sub' = sub /\ events' = events
  BY DEF billing
<1> QED
  BY <1>1 DEF Known, Billed, Paying, Sets, SetLater, Effect, EventOk, EventsInv

LEMMA KnownNat == BillingTypes => Known \in Nat
  BY DEF BillingTypes, Known

\* The handler whose turn it is takes a step.
LEMMA Works ==
  ASSUME BillingTypes, NEW k \in Nat, Turn(k), NEW h \in Handlers, ~At(h, "idle"),
         UNCHANGED <<billing, applied>>,
         \A g \in Handlers \ {h}: handler'[g] = handler[g],
         user' \in UserRecord, user.linked => user'.linked,
         user'.plan = user.plan \/ Sets(k + 1),
         TeamOk => TeamOk' \/ Sets(k + 1),
         At(h, "idle")' \/ HandlerOk(h, k + 1)'
  PROVE  Turn(k)'
<1>1. HandlerOk(h, k + 1) /\ k + 1 <= Known /\ Known \in Nat
  BY KnownNat DEF Turn, HandlerOk
<1>2. /\ Known' = Known /\ Billed' = Billed
      /\ \A j: Sets(j)' = Sets(j) /\ SetLater(j)' = SetLater(j)
  BY StripeSame
<1>3. k < Known
  BY <1>1
<1>4. PlanAfter(k)'
  <2>1. CASE Sets(k + 1)
    <3>1. SetLater(k)
      BY <1>1, <2>1 DEF SetLater
    <3> QED BY <1>2, <3>1 DEF PlanAfter
  <2>2. CASE ~Sets(k + 1)
    BY <1>2, <2>2 DEF PlanAfter, Turn
  <2> QED BY <2>1, <2>2
<1>5. FlagAfter(k)'
  BY <1>2, <1>3 DEF FlagAfter
<1>6. TeamOk' \/ (k < Known' /\ Sets(k + 1)')
  BY <1>2, <1>3 DEF Turn
<1>7. ASSUME NEW g \in Handlers, ~At(g, "idle")' PROVE g = h
  BY <1>7 DEF Turn, At
<1>8. ASSUME NEW g \in Handlers, ~At(g, "idle")' PROVE HandlerOk(g, k + 1)'
  BY <1>7, <1>8
<1> QED BY <1>2, <1>3, <1>4, <1>5, <1>6, <1>7, <1>8 DEF Turn

\* Nothing happens to the handlers, and what the team becomes is right.
LEMMA Waits ==
  ASSUME BillingTypes, NEW k \in Nat, Turn(k), UNCHANGED <<billing, applied, handler, user>>,
         TeamOk => TeamOk'
  PROVE  Turn(k)'
<1>1. /\ Known' = Known /\ Billed' = Billed /\ sub' = sub /\ events' = events
      /\ \A j: Sets(j)' = Sets(j) /\ SetLater(j)' = SetLater(j)
  BY StripeSame
<1>2. \A j: (PlanAfter(j) => PlanAfter(j)') /\ (FlagAfter(j) => FlagAfter(j)')
  BY <1>1 DEF PlanAfter, FlagAfter
<1>3. ASSUME NEW h \in Handlers, HandlerOk(h, k + 1) PROVE HandlerOk(h, k + 1)'
  BY <1>1, <1>2, <1>3 DEF HandlerOk
<1> QED BY <1>1, <1>2, <1>3 DEF Turn, At

LEMMA LinkKeeps ==
  ASSUME BillingTypes, EventsInv, NEW k \in Nat, Turn(k), NEW h \in Handlers, Link(h)
  PROVE  Turn(k)'
<1>1. /\ handler[h].pc = "link" /\ user' = [user EXCEPT !.linked = TRUE] /\ GoTo(h, "retrieve")
      /\ UNCHANGED <<billing, applied, team, late>>
  BY DEF Link, At
<1>2. /\ user' \in UserRecord /\ user'.linked /\ user'.plan = user.plan
  BY <1>1 DEF BillingTypes, UserRecord
<1>3. /\ handler'[h].pc = "retrieve" /\ handler'[h].event = handler[h].event
      /\ \A g \in Handlers \ {h}: handler'[g] = handler[g]
  BY <1>1, GoesTo DEF HandlerPcs
<1>4. HandlerOk(h, k + 1)'
  <2>1. HandlerOk(h, k + 1)
    BY <1>1 DEF Turn, At
  <2> QED BY <1>1, <1>2, <1>3, <2>1, StripeSame DEF HandlerOk
<1>5. TeamOk => TeamOk'
  BY <1>1, <1>2 DEF TeamOk
<1> QED BY <1>1, <1>2, <1>3, <1>4, <1>5, Works DEF At

LEMMA RetrieveKeeps ==
  ASSUME BillingTypes, EventsInv, NEW k \in Nat, Turn(k), NEW h \in Handlers, Retrieve(h), ~disorder'
  PROVE  Turn(k)'
<1>1. /\ handler[h].pc = "retrieve" /\ sub.status # "past_due"
      /\ UNCHANGED <<billing, applied, user, team, late>>
      /\ handler' = [handler EXCEPT ![h].pc = SyncStep(sub.status), ![h].status = sub.status,
                                    ![h].plan = sub.plan]
  BY DEF Retrieve, At, BillingTypes
<1> DEFINE pc == SyncStep(sub.status)
           new == [handler[h] EXCEPT !.pc = pc, !.status = sub.status, !.plan = sub.plan]
<1>2. pc = IF sub.status = "active" THEN "clear" ELSE "downgrade"
  BY <1>1 DEF SyncStep
<1>3. new.pc = pc /\ new.event = handler[h].event /\ new.plan = sub.plan
  <2>1. handler[h] \in HandlerRecord
    BY DEF BillingTypes
  <2> QED BY <2>1 DEF HandlerRecord
<1>4. handler' = [handler EXCEPT ![h] = new]
  BY <1>1 DEF BillingTypes
<1> HIDE DEF new, pc
<1>5. handler'[h] = new /\ \A g \in Handlers \ {h}: handler'[g] = handler[g]
  BY <1>4 DEF BillingTypes
<1>6. HandlerOk(h, k + 1)'
  <2>1. HandlerOk(h, k + 1) /\ events[k + 1].type = "checkout" /\ user.linked
    BY <1>1 DEF Turn, At, HandlerOk
  <2>2. k + 1 \in 1 .. Known
    BY <2>1, KnownNat DEF HandlerOk
  <2>3. events[k + 1].status = "active" /\ Sets(k + 1)
    BY <2>1, <2>2 DEF EventsInv, EventOk, Sets
  <2>4. sub.status = "active" => sub.plan = Billed
    BY DEF Billed, Paying
  <2>5. sub.status # "active" => Billed = "FREE"
    BY <1>1 DEF Billed, Paying
  <2> QED BY <1>1, <1>2, <1>3, <1>5, <2>1, <2>2, <2>3, <2>4, <2>5, StripeSame DEF HandlerOk
<1>7. TeamOk => TeamOk'
  BY <1>1 DEF TeamOk
<1>8. user' \in UserRecord
  BY <1>1 DEF BillingTypes
<1> QED BY <1>1, <1>5, <1>6, <1>7, <1>8, Works DEF At

\* The flag of the event is the one of the subscription, unless there are later events.
LEMMA FlagSet ==
  ASSUME BillingTypes, EventsInv, NEW e \in 1 .. Known, UNCHANGED billing,
         user'.pastDue = (events[e].status = "past_due")
  PROVE  FlagAfter(e)'
<1>1. Known' = Known /\ sub' = sub /\ Known \in Nat
  BY StripeSame, KnownNat
<1>2. CASE e = Known
  BY <1>1, <1>2 DEF EventsInv, FlagAfter
<1>3. CASE e < Known
  BY <1>1, <1>3 DEF FlagAfter
<1> QED BY <1>1, <1>2, <1>3

\* What the handler at work knows.
LEMMA AtWork ==
  ASSUME BillingTypes, EventsInv, NEW k \in Nat, Turn(k), NEW h \in Handlers, ~At(h, "idle")
  PROVE  /\ HandlerOk(h, k + 1) /\ k + 1 \in 1 .. Known /\ handler[h].event = k + 1
         /\ EventOk(k + 1) /\ PlanAfter(k) /\ user \in UserRecord
         /\ (Sets(k + 1) => SetLater(k + 1) \/ Effect(k + 1) = Billed)
         /\ (~Sets(k + 1) => PlanAfter(k + 1) /\ TeamOk)
<1>1. HandlerOk(h, k + 1) /\ k + 1 \in 1 .. Known /\ handler[h].event = k + 1
  BY KnownNat DEF Turn, HandlerOk
<1>2. ASSUME ~Sets(k + 1) PROVE PlanAfter(k + 1)
  <2>1. CASE user.plan = Billed
    BY <2>1 DEF PlanAfter
  <2>2. CASE SetLater(k)
    <3>1. PICK j \in k + 1 .. Known: Sets(j)
      BY <2>2 DEF SetLater
    <3>2. j # k + 1
      BY <1>2, <3>1
    <3>3. j \in k + 1 + 1 .. Known
      BY <1>1, <3>1, <3>2, KnownNat
    <3> QED BY <3>1, <3>3 DEF PlanAfter, SetLater
  <2> QED BY <2>1, <2>2 DEF Turn, PlanAfter
<1>3. ~Sets(k + 1) => TeamOk
  BY DEF Turn
<1> QED BY <1>1, <1>2, <1>3 DEF Turn, EventsInv, BillingTypes

LEMMA PastDueKeeps ==
  ASSUME BillingTypes, EventsInv, NEW k \in Nat, Turn(k), NEW h \in Handlers, SetPastDue(h)
  PROVE  Turn(k)'
<1>1. /\ handler[h].pc = "pastDue" /\ GoTo(h, Rest(h)) /\ ~At(h, "idle")
      /\ UNCHANGED <<billing, applied, team, late>>
  BY DEF SetPastDue, At
<1>2. /\ HandlerOk(h, k + 1) /\ k + 1 \in 1 .. Known /\ handler[h].event = k + 1
      /\ EventOk(k + 1) /\ user \in UserRecord
      /\ (~Sets(k + 1) => PlanAfter(k + 1) /\ TeamOk)
  BY <1>1, AtWork
<1>3. user.linked /\ events[k + 1].status = "past_due"
  BY <1>1, <1>2 DEF HandlerOk
<1>4. ~Sets(k + 1) /\ events[k + 1].type # "checkout"
  BY <1>2, <1>3 DEF EventOk, Sets
<1>5. user' \in UserRecord /\ user'.linked /\ user'.plan = user.plan /\ user'.pastDue = TRUE
  BY <1>2, <1>3 DEF SetPastDue, UpdateUser, UserRecord
<1>6. Rest(h) = "mark"
  BY <1>2, <1>4 DEF Rest
<1>7. /\ handler'[h].pc = "mark" /\ handler'[h].event = k + 1
      /\ \A g \in Handlers \ {h}: handler'[g] = handler[g]
  BY <1>1, <1>2, <1>6, GoesTo DEF HandlerPcs
<1>8. FlagAfter(k + 1)'
  BY <1>1, <1>2, <1>3, <1>5, FlagSet
<1>9. PlanAfter(k + 1)'
  BY <1>1, <1>2, <1>4, <1>5, StripeSame DEF PlanAfter
<1>10. TeamOk'
  BY <1>1, <1>2, <1>4, <1>5 DEF TeamOk
<1>11. HandlerOk(h, k + 1)'
  BY <1>1, <1>2, <1>5, <1>7, <1>8, <1>9, <1>10, StripeSame DEF HandlerOk
<1> QED BY <1>1, <1>5, <1>7, <1>10, <1>11, Works

LEMMA ClearKeeps ==
  ASSUME BillingTypes, EventsInv, NEW k \in Nat, Turn(k), NEW h \in Handlers, ClearPastDue(h)
  PROVE  Turn(k)'
<1> DEFINE next == IF events[handler[h].event].type = "paid" THEN "mark" ELSE "plan"
<1>1. /\ handler[h].pc = "clear" /\ GoTo(h, next) /\ ~At(h, "idle")
      /\ UNCHANGED <<billing, applied, team, late>>
  BY DEF ClearPastDue, At
<1>2. /\ HandlerOk(h, k + 1) /\ k + 1 \in 1 .. Known /\ handler[h].event = k + 1
      /\ EventOk(k + 1) /\ user \in UserRecord
      /\ (~Sets(k + 1) => PlanAfter(k + 1) /\ TeamOk)
  BY <1>1, AtWork
<1>3. user.linked /\ events[k + 1].status # "past_due"
  BY <1>1, <1>2 DEF HandlerOk
<1>4. user' \in UserRecord /\ user'.linked /\ user'.plan = user.plan /\ user'.pastDue = FALSE
  BY <1>2, <1>3 DEF ClearPastDue, UpdateUser, UserRecord
<1>5. next \in HandlerPcs
  BY DEF HandlerPcs
<1> HIDE DEF next
<1>6. /\ handler'[h].pc = next /\ handler'[h].event = k + 1 /\ handler'[h].plan = handler[h].plan
      /\ \A g \in Handlers \ {h}: handler'[g] = handler[g]
  BY <1>1, <1>2, <1>5, GoesTo
<1>7. FlagAfter(k + 1)'
  BY <1>1, <1>2, <1>3, <1>4, FlagSet
<1>8. TeamOk => TeamOk'
  BY <1>1, <1>4 DEF TeamOk
<1>9. HandlerOk(h, k + 1)'
  <2>1. CASE events[k + 1].type = "paid"
    <3>1. next = "mark" /\ ~Sets(k + 1)
      BY <1>2, <2>1 DEF next, Sets, EventOk
    <3>2. PlanAfter(k + 1)'
      BY <1>1, <1>2, <1>4, <3>1, StripeSame DEF PlanAfter
    <3> QED BY <1>1, <1>2, <1>4, <1>6, <1>7, <1>8, <3>1, <3>2, StripeSame DEF HandlerOk
  <2>2. CASE events[k + 1].type # "paid"
    <3>1. next = "plan"
      BY <1>2, <2>2 DEF next
    <3> QED BY <1>1, <1>2, <1>3, <1>4, <1>6, <1>7, <2>2, <3>1, StripeSame DEF HandlerOk
  <2> QED BY <2>1, <2>2
<1> QED BY <1>1, <1>4, <1>6, <1>8, <1>9, Works

LEMMA PlanKeeps ==
  ASSUME BillingTypes, EventsInv, NEW k \in Nat, Turn(k), NEW h \in Handlers, SetPlan(h)
  PROVE  Turn(k)'
<1> DEFINE next == IF handler[h].plan = "PRO" THEN "ensure" ELSE "suspend"
<1>1. /\ handler[h].pc = "plan" /\ ~At(h, "idle") /\ UNCHANGED <<billing, applied, team, late>>
  BY DEF SetPlan, At
<1>2. /\ HandlerOk(h, k + 1) /\ k + 1 \in 1 .. Known /\ handler[h].event = k + 1
      /\ user \in UserRecord
  BY <1>1, AtWork
<1>3. /\ user.linked /\ events[k + 1].status # "past_due" /\ FlagAfter(k + 1)
      /\ Sets(k + 1) /\ (SetLater(k + 1) \/ handler[h].plan = Billed)
  BY <1>1, <1>2 DEF HandlerOk
<1>4. GoTo(h, next) /\ next \in HandlerPcs
  BY <1>3 DEF SetPlan, HandlerPcs
<1>5. /\ user' \in UserRecord /\ user'.linked /\ user'.plan = handler[h].plan
      /\ user'.pastDue = user.pastDue
  <2>1. handler[h].plan \in Plans \union {"FREE", "none"}
    BY DEF BillingTypes, HandlerRecord
  <2>2. user' = [user EXCEPT !.plan = handler[h].plan]
    BY <1>3 DEF SetPlan, UpdateUser
  <2> QED BY <1>2, <1>3, <2>1, <2>2 DEF UserRecord
<1>6. /\ handler'[h].pc = next /\ handler'[h].event = k + 1 /\ handler'[h].plan = handler[h].plan
      /\ \A g \in Handlers \ {h}: handler'[g] = handler[g]
  BY <1>2, <1>4, GoesTo
<1>7. FlagAfter(k + 1)' /\ PlanAfter(k + 1)'
  BY <1>1, <1>3, <1>5, StripeSame DEF FlagAfter, PlanAfter
<1>8. next = "ensure" => TeamOk'
  BY <1>5 DEF TeamOk
<1>9. next \in {"ensure", "suspend"}
  OBVIOUS
<1> HIDE DEF next
<1>10. HandlerOk(h, k + 1)'
  BY <1>1, <1>2, <1>5, <1>6, <1>7, <1>8, <1>9, StripeSame DEF HandlerOk
<1> QED BY <1>1, <1>3, <1>5, <1>6, <1>10, Works

LEMMA DowngradeKeeps ==
  ASSUME BillingTypes, EventsInv, NEW k \in Nat, Turn(k), NEW h \in Handlers, DowngradeToFree(h)
  PROVE  Turn(k)'
<1>1. /\ handler[h].pc = "downgrade" /\ ~At(h, "idle") /\ UNCHANGED <<billing, applied, team, late>>
  BY DEF DowngradeToFree, At
<1>2. /\ HandlerOk(h, k + 1) /\ k + 1 \in 1 .. Known /\ handler[h].event = k + 1
      /\ user \in UserRecord
  BY <1>1, AtWork
<1>3. /\ user.linked /\ events[k + 1].status # "past_due"
      /\ Sets(k + 1) /\ (SetLater(k + 1) \/ Billed = "FREE")
  BY <1>1, <1>2 DEF HandlerOk
<1>4. GoTo(h, "suspend") /\ user' = Downgraded
  BY <1>3 DEF DowngradeToFree, UpdateUser
<1>5. user' \in UserRecord /\ user'.linked /\ user'.plan = "FREE" /\ user'.pastDue = FALSE
  BY <1>2, <1>3, <1>4 DEF UserRecord, Downgraded
<1>6. /\ handler'[h].pc = "suspend" /\ handler'[h].event = k + 1
      /\ \A g \in Handlers \ {h}: handler'[g] = handler[g]
  BY <1>2, <1>4, GoesTo DEF HandlerPcs
<1>7. FlagAfter(k + 1)'
  BY <1>1, <1>2, <1>3, <1>5, FlagSet
<1>8. PlanAfter(k + 1)'
  BY <1>1, <1>3, <1>5, StripeSame DEF PlanAfter
<1>9. HandlerOk(h, k + 1)'
  BY <1>1, <1>2, <1>5, <1>6, <1>7, <1>8, StripeSame DEF HandlerOk
<1> QED BY <1>1, <1>3, <1>5, <1>6, <1>9, Works

\* The steps that work on the team, and leave the user alone.
LEMMA TeamStepKeeps ==
  ASSUME BillingTypes, EventsInv, NEW k \in Nat, Turn(k), NEW h \in Handlers,
         EnsureProTeam(h) \/ SuspendMembers(h)
  PROVE  Turn(k)'
<1> DEFINE next == IF handler[h].pc = "ensure" THEN "mark" ELSE Rest(h)
<1>1. /\ handler[h].pc \in {"ensure", "suspend"} /\ ~At(h, "idle") /\ GoTo(h, next)
      /\ UNCHANGED <<billing, applied, user>> /\ next \in {"ensure", "mark"}
  BY DEF EnsureProTeam, SuspendMembers, At, Rest
<1>2. /\ HandlerOk(h, k + 1) /\ k + 1 \in 1 .. Known /\ handler[h].event = k + 1
      /\ user \in UserRecord
  BY <1>1, AtWork
<1>3. user.linked /\ FlagAfter(k + 1) /\ PlanAfter(k + 1) /\ (handler[h].pc = "ensure" => TeamOk)
  BY <1>1, <1>2 DEF HandlerOk
<1>4. TeamOk'
  <2>1. CASE EnsureProTeam(h)
    <3>1. team'.mate = team.mate /\ late' = late
      BY <2>1 DEF EnsureProTeam, BillingTypes, TeamRecord
    <3>2. TeamOk
      BY <1>3, <2>1 DEF EnsureProTeam, At
    <3> QED BY <1>1, <3>1, <3>2 DEF TeamOk
  <2>2. CASE SuspendMembers(h)
    <3>1. team'.mate # "ACTIVE"
      BY <2>2 DEF SuspendMembers, BillingTypes, TeamRecord
    <3> QED BY <3>1 DEF TeamOk
  <2> QED BY <2>1, <2>2
<1> HIDE DEF next
<1>5. /\ handler'[h].pc = next /\ handler'[h].event = k + 1
      /\ \A g \in Handlers \ {h}: handler'[g] = handler[g]
  BY <1>1, <1>2, GoesTo DEF HandlerPcs
<1>6. FlagAfter(k + 1)' /\ PlanAfter(k + 1)'
  BY <1>1, <1>3, StripeSame DEF FlagAfter, PlanAfter
<1>7. HandlerOk(h, k + 1)'
  BY <1>1, <1>2, <1>3, <1>4, <1>5, <1>6, StripeSame DEF HandlerOk
<1> QED BY <1>1, <1>2, <1>4, <1>5, <1>7, Works

LEMMA MarkKeeps ==
  ASSUME BillingTypes, EventsInv, NEW k \in Nat, Turn(k), NEW h \in Handlers, MarkProcessed(h)
  PROVE  Turn(k + 1)'
<1>1. /\ handler[h].pc = "mark" /\ ~At(h, "idle") /\ UNCHANGED <<billing, user, team, late>>
      /\ applied' = applied \union {handler[h].event}
      /\ handler' = [handler EXCEPT ![h] = NoEvent]
  BY DEF MarkProcessed, At
<1>2. HandlerOk(h, k + 1) /\ k + 1 \in 1 .. Known /\ handler[h].event = k + 1
  BY <1>1, AtWork
<1>3. user.linked /\ FlagAfter(k + 1) /\ PlanAfter(k + 1) /\ TeamOk
  BY <1>1, <1>2 DEF HandlerOk
<1>4. applied' = 1 .. k + 1
  BY <1>1, <1>2 DEF Turn
<1>5. \A g \in Handlers: handler'[g].pc = "idle"
  <2>1. ASSUME NEW g \in Handlers, g # h PROVE handler[g].pc = "idle"
    BY <1>1, <2>1 DEF Turn, At
  <2> QED BY <1>1, <2>1 DEF NoEvent, BillingTypes
<1>6. FlagAfter(k + 1)' /\ PlanAfter(k + 1)' /\ TeamOk' /\ Known' = Known /\ user'.linked
  BY <1>1, <1>3, StripeSame DEF FlagAfter, PlanAfter, TeamOk
<1>7. k + 1 <= Known'
  BY <1>2, <1>6, KnownNat
<1> QED BY <1>4, <1>5, <1>6, <1>7 DEF Turn, At

LEMMA FailKeeps ==
  ASSUME BillingTypes, EventsInv, NEW k \in Nat, Turn(k), NEW h \in Handlers, HandlerFails(h)
  PROVE  Turn(k)'
<1>1. /\ ~At(h, "idle") /\ UNCHANGED <<billing, applied, user, team, late>>
      /\ handler' = [handler EXCEPT ![h] = NoEvent]
  BY DEF HandlerFails
<1>2. At(h, "idle")' /\ \A g \in Handlers \ {h}: handler'[g] = handler[g]
  BY <1>1 DEF BillingTypes, NoEvent, At
<1>3. user' \in UserRecord /\ (TeamOk => TeamOk')
  BY <1>1 DEF BillingTypes, TeamOk
<1> QED BY <1>1, <1>2, <1>3, Works

\* A claim in its turn starts on the event after those that were processed.
LEMMA ClaimKeeps ==
  ASSUME BillingTypes, EventsInv, NEW h \in Handlers, NEW e \in 1 .. Known, Claim(h, e),
         ~disorder', ~disorder => \E k \in Nat: Turn(k)
  PROVE  \E k \in Nat: Turn(k)'
<1>0. UNCHANGED <<billing, applied, user, team, late>> /\ ~disorder
  BY DEF Claim
<1>1. PICK k \in Nat: Turn(k)
  BY <1>0
<1>2. CASE e \in stored.processed
  <2>1. handler' = handler
    BY <1>2 DEF Claim
  <2>2. TeamOk => TeamOk'
    BY <1>0 DEF TeamOk
  <2>3. Turn(k)'
    BY <1>0, <1>1, <2>1, <2>2, Waits
  <2> QED BY <2>3
<1>3. CASE e \notin stored.processed
  <2>1. /\ InTurn(e)
        /\ handler' = [handler EXCEPT ![h] =
              [pc |-> FirstStep(events[e]), event |-> e,
               status |-> events[e].status, plan |-> events[e].plan]]
    BY <1>3 DEF Claim
  <2>2. \A g \in Handlers: At(g, "idle")
    BY <2>1 DEF InTurn
  <2>3. e = k + 1
    <3>1. \A f \in 1 .. Known: f < e <=> f \in 1 .. k
      BY <1>1, <2>1 DEF InTurn, Turn, Known
    <3>2. k \in Nat /\ k <= Known /\ Known \in Nat
      BY <1>1, KnownNat DEF Turn
    <3>3. ~(e \in 1 .. k)
      BY <3>1
    <3>4. e > k
      BY <3>2, <3>3
    <3>5. CASE e > k + 1
      <4>1. k + 1 \in 1 .. Known /\ k + 1 < e
        BY <3>2, <3>5
      <4>2. k + 1 \in 1 .. k
        BY <3>1, <4>1
      <4> QED BY <3>2, <4>2
    <3> QED BY <3>2, <3>4, <3>5
  <2> DEFINE pc == FirstStep(events[e])
  <2>4. /\ handler'[h].pc = pc /\ handler'[h].event = e /\ handler'[h].plan = events[e].plan
        /\ \A g \in Handlers \ {h}: handler'[g] = handler[g]
    BY <2>1 DEF BillingTypes
  <2>5. events[e] \in EventRecord /\ EventOk(e) /\ (Sets(e) => SetLater(e) \/ Effect(e) = Billed)
    BY DEF EventsInv, BillingTypes, Known
  <2>6. /\ pc = "link" <=> events[e].type = "checkout"
        /\ pc \in {"link", "downgrade", "pastDue", "clear"}
        /\ pc = "pastDue" => events[e].status = "past_due"
        /\ pc = "clear" => events[e].status = "active"
        /\ pc = "clear" /\ events[e].type # "paid" => events[e].type = "updated"
        /\ pc = "downgrade" => events[e].status = "canceled"
    BY <2>5 DEF FirstStep, SyncStep, EventRecord, EventOk, Statuses
  <2> HIDE DEF pc
  <2>7. pc # "link" => user.linked
    <3>1. CASE k = 0
      <4>1. events[1].type = "checkout"
        BY <2>3, <3>1, KnownNat DEF EventsInv
      <4> QED BY <2>3, <2>6, <3>1, <4>1
    <3>2. CASE k # 0
      BY <1>1, <3>2 DEF Turn
    <3> QED BY <3>1, <3>2
  <2>8. HandlerOk(h, k + 1)'
    <3>1. e <= Known'
      BY <1>0, StripeSame, KnownNat
    <3>2. pc = "clear" /\ events[e].type # "paid" =>
             Sets(e) /\ (SetLater(e) \/ events[e].plan = Billed)
      BY <2>5, <2>6 DEF Sets, Effect
    <3>3. pc = "downgrade" => Sets(e) /\ (SetLater(e) \/ Billed = "FREE")
      BY <2>5, <2>6 DEF Sets, Effect
    <3> QED BY <1>0, <2>3, <2>4, <2>6, <2>7, <3>1, <3>2, <3>3, StripeSame DEF HandlerOk
  <2>9. Turn(k)'
    <3>1. /\ Known' = Known /\ Billed' = Billed /\ sub' = sub
          /\ \A j: Sets(j)' = Sets(j) /\ SetLater(j)' = SetLater(j)
      BY <1>0, StripeSame
    <3>2. PlanAfter(k)' /\ FlagAfter(k)' /\ (TeamOk' \/ (k < Known' /\ Sets(k + 1)'))
      BY <1>0, <1>1, <3>1 DEF Turn, PlanAfter, FlagAfter, TeamOk
    <3>3. \A g \in Handlers: ~At(g, "idle")' => g = h
      BY <2>2, <2>4 DEF At
    <3> QED BY <1>0, <1>1, <2>8, <3>1, <3>2, <3>3 DEF Turn
  <2> QED BY <2>9
<1> QED BY <1>2, <1>3

\* What Stripe tells at once, and what one of its steps leaves.
TaleOk(told, last) ==
    /\ told \in Seq(EventRecord) /\ Len(told) \in {1, 2} /\ told[Len(told)].status = last
    /\ \A i \in 1 .. Len(told):
          /\ told[i].status # "none"
          /\ told[i].type \in {"checkout", "paid"} => told[i].status = "active"
          /\ told[i].type = "payment_failed" => told[i].status = "past_due"
          /\ told[i].type = "deleted" => told[i].status = "canceled"
    /\ sub.status = "none" => told[1].type = "checkout"

SetNothing(n, m) == \A i \in 1 .. m: ~Sets(n + i)

StripeTold ==
    /\ EventsInv' /\ events' \in Seq(EventRecord) /\ sub' \in [status: Statuses, plan: Plans]
    /\ \A k \in Nat: Turn(k) => Turn(k)'
    /\ UNCHANGED <<stored, acked, handler, applied, disorder, user, team, late>>

\* What Stripe tells: one event, or the two about a payment.  The plan that it bills
\* changes with an event that sets the plan, at the end.
LEMMA TellKeeps ==
  ASSUME BillingTypes, EventsInv, NEW status \in Statuses \ {"none"}, NEW billed \in Plans,
         NEW told, Tell(status, billed, told), TaleOk(told, status), NEW n \in Nat, n = Known,
         Sets(n + Len(told))' \/ (SetNothing(n, Len(told))' /\ Billed' = Billed),
         Sets(n + Len(told))' => Effect(n + Len(told))' = Billed'
  PROVE  StripeTold
<1>0. /\ told \in Seq(EventRecord) /\ Len(told) \in {1, 2} /\ told[Len(told)].status = status
      /\ \A i \in 1 .. Len(told):
            /\ told[i].status # "none"
            /\ told[i].type \in {"checkout", "paid"} => told[i].status = "active"
            /\ told[i].type = "payment_failed" => told[i].status = "past_due"
            /\ told[i].type = "deleted" => told[i].status = "canceled"
      /\ sub.status = "none" => told[1].type = "checkout"
  BY DEF TaleOk
<1> DEFINE m == Len(told)
<1>1. /\ events' = events \o told /\ sub' = [status |-> status, plan |-> billed]
      /\ UNCHANGED <<stored, acked, handler, applied, disorder, user, team, late>>
  BY DEF Tell, delivery
<1>2. /\ events \in Seq(EventRecord) /\ n \in Nat /\ m \in {1, 2}
  BY <1>0 DEF BillingTypes
<1>3. /\ events' \in Seq(EventRecord) /\ Known' = n + m
      /\ \A j \in 1 .. n: events'[j] = events[j]
      /\ \A i \in 1 .. m: events'[n + i] = told[i]
  BY <1>0, <1>1, <1>2 DEF Known
<1>4. sub' \in [status: Statuses, plan: Plans] /\ sub'.status = status
  BY <1>1
<1> HIDE DEF m
<1>5. ASSUME NEW j \in 1 .. n
      PROVE  (Sets(j)' <=> Sets(j)) /\ Effect(j)' = Effect(j) /\ (EventOk(j) => EventOk(j)')
  <2>1. events'[j] = events[j]
    BY <1>3
  <2>2. Sets(j)' <=> Sets(j)
    BY <2>1 DEF Sets
  <2>3. Effect(j)' = Effect(j)
    BY <2>1 DEF Effect
  <2>4. EventOk(j) => EventOk(j)'
    BY <2>1 DEF EventOk
  <2> QED BY <2>2, <2>3, <2>4
<1>6. ASSUME NEW j \in 1 .. n + m PROVE j \in 1 .. n \/ \E i \in 1 .. m: j = n + i
  <2>1. CASE j <= n
    BY <1>2, <2>1
  <2>2. CASE ~(j <= n)
    <3>1. j - n \in 1 .. m /\ j = n + (j - n)
      BY <1>2, <2>2
    <3> QED BY <3>1
  <2> QED BY <2>1, <2>2
<1>7. ASSUME NEW j \in Nat, SetLater(j) PROVE SetLater(j)'
  <2>1. PICK i \in j + 1 .. n: Sets(i)
    BY <1>7 DEF SetLater
  <2>2. i \in 1 .. n /\ i \in j + 1 .. n + m
    BY <1>2
  <2>3. i \in j + 1 .. Known' /\ Sets(i)'
    BY <1>3, <1>5, <2>1, <2>2
  <2> QED BY <2>3 DEF SetLater
<1>8. ASSUME Sets(n + m)', NEW j \in Nat, j < n + m PROVE SetLater(j)'
  <2>1. n + m \in j + 1 .. n + m
    BY <1>2, <1>8
  <2>2. n + m \in j + 1 .. Known'
    BY <1>3, <2>1
  <2> QED BY <1>8, <2>2 DEF SetLater
<1>9. ASSUME NEW j \in Nat, j <= n PROVE SetLater(j)' \/ Billed' = Billed
  <2>1. j < n + m
    BY <1>2, <1>9
  <2> QED BY <1>8, <2>1 DEF m
<1>10. EventsInv'
  <2>1. ASSUME NEW j \in 1 .. n + m
        PROVE  EventOk(j)' /\ (Sets(j)' => SetLater(j)' \/ Effect(j)' = Billed')
    <3>1. CASE j \in 1 .. n
      <4>1. EventOk(j) /\ (Sets(j) => SetLater(j) \/ Effect(j) = Billed)
        BY <3>1 DEF EventsInv
      <4> QED BY <1>2, <1>5, <1>7, <1>9, <3>1, <4>1
    <3>2. ASSUME NEW i \in 1 .. m, j = n + i
          PROVE  EventOk(j)' /\ (Sets(j)' => SetLater(j)' \/ Effect(j)' = Billed')
      <4>1. EventOk(j)'
        BY <1>0, <1>3, <3>2 DEF EventOk, m
      <4>2. CASE i = m
        BY <3>2, <4>1, <4>2 DEF m
      <4>3. CASE i # m
        <5>1. CASE Sets(n + m)'
          <6>1. j < n + m /\ j \in Nat
            BY <1>2, <3>2, <4>3
          <6> QED BY <1>8, <4>1, <5>1, <6>1
        <5>2. CASE ~Sets(n + m)'
          <6>1. SetNothing(n, Len(told))'
            BY <5>2 DEF m
          <6>2. ~Sets(n + i)'
            BY <3>2, <6>1 DEF SetNothing, m
          <6> QED BY <3>2, <4>1, <6>2
        <5> QED BY <5>1, <5>2
      <4> QED BY <4>2, <4>3
    <3> QED BY <1>6, <3>1, <3>2
  <2>2. n + m # 0 /\ n + m \in Nat
    BY <1>2
  <2>3. events'[1].type = "checkout"
    <3>1. CASE n = 0
      <4>1. sub.status = "none" /\ 1 \in 1 .. m
        BY <1>2, <3>1 DEF EventsInv
      <4>2. events'[1] = told[1]
        BY <1>2, <1>3, <3>1, <4>1
      <4> QED BY <1>0, <4>1, <4>2
    <3>2. CASE n # 0
      BY <1>2, <1>3, <3>2 DEF EventsInv
    <3> QED BY <3>1, <3>2
  <2>4. events'[n + m].status = sub'.status
    BY <1>0, <1>2, <1>3, <1>4 DEF m
  <2> QED BY <1>3, <2>1, <2>2, <2>3, <2>4 DEF EventsInv
<1>11. ASSUME NEW k \in Nat, Turn(k) PROVE Turn(k)'
  <2>1. k <= n /\ n < Known' /\ Known' \in Nat
    BY <1>2, <1>3, <1>11 DEF Turn
  <2>2. ASSUME NEW e \in Nat, e <= n
        PROVE  (PlanAfter(e) => PlanAfter(e)') /\ FlagAfter(e)'
    BY <1>1, <1>2, <1>7, <1>9, <2>1, <2>2 DEF PlanAfter, FlagAfter
  <2>3. TeamOk' = TeamOk
    BY <1>1 DEF TeamOk
  <2>4. k < Known /\ Sets(k + 1) => k < Known' /\ Sets(k + 1)'
    BY <1>2, <1>5, <2>1
  <2>5. ASSUME NEW h \in Handlers, HandlerOk(h, k + 1) PROVE HandlerOk(h, k + 1)'
    <3> DEFINE e == k + 1
    <3>1. e \in 1 .. n /\ e <= n /\ e \in Nat
      BY <1>2, <2>5 DEF HandlerOk
    <3>2. /\ events'[e] = events[e] /\ (Sets(e)' <=> Sets(e)) /\ handler' = handler /\ user' = user
          /\ e <= Known'
      <4> HIDE DEF e
      <4>1. e <= Known'
        BY <1>2, <1>3, <3>1
      <4> QED BY <1>1, <1>3, <1>5, <3>1, <4>1
    <3>3. SetLater(e)' \/ (Billed' = Billed /\ ~SetLater(e))
      BY <1>7, <1>9, <3>1
    <3>4. (PlanAfter(e) => PlanAfter(e)') /\ FlagAfter(e)'
      BY <2>2, <3>1
    <3> HIDE DEF e
    <3>5. HandlerOk(h, e)
      BY <2>5 DEF e
    <3>6. HandlerOk(h, e)'
      BY <2>3, <3>2, <3>3, <3>4, <3>5 DEF HandlerOk
    <3> QED BY <3>6 DEF e
  <2>6. PlanAfter(k)' /\ FlagAfter(k)'
    BY <1>2, <1>11, <2>1, <2>2 DEF Turn
  <2>7. k <= Known'
    BY <1>2, <2>1
  <2> QED BY <1>1, <1>11, <2>3, <2>4, <2>5, <2>6, <2>7 DEF Turn, At
<1> QED BY <1>1, <1>3, <1>4, <1>10, <1>11 DEF StripeTold

LEMMA ConcatAt ==
  ASSUME NEW S, NEW s \in Seq(S), NEW t \in Seq(S)
  PROVE  \A i \in 1 .. Len(t): (s \o t)[Len(s) + i] = t[i]
  OBVIOUS

\* One event that sets the plan.
LEMMA OneTold ==
  ASSUME BillingTypes, EventsInv, NEW type \in {"checkout", "updated", "deleted"},
         NEW status \in {"active", "canceled"}, NEW p \in Plans,
         Tell(status, p, <<Event(type, status, p)>>),
         type = "checkout" => status = "active", type = "deleted" => status = "canceled",
         sub.status = "none" => type = "checkout"
  PROVE  StripeTold
<1> DEFINE ev == Event(type, status, p)
           told == <<ev>>
<1>1. PICK n \in Nat: n = Known
  BY KnownNat
<1>2. events \in Seq(EventRecord)
  BY DEF BillingTypes
<1>3. ev \in EventRecord /\ ev.type = type /\ ev.status = status /\ ev.plan = p
  BY DEF Event, EventRecord, Statuses
<1> HIDE DEF ev
<1>4. told \in Seq(EventRecord) /\ Len(told) = 1 /\ told[1] = ev
  BY <1>3
<1>5. events' = events \o told /\ sub' = [status |-> status, plan |-> p]
  BY DEF Tell, ev
<1>6. Tell(status, p, told)
  BY DEF ev
<1> HIDE DEF told
<1>7. events'[n + 1] = ev
  <2>1. n = Len(events) /\ 1 \in 1 .. Len(told)
    BY <1>1, <1>4 DEF Known
  <2>2. \A i \in 1 .. Len(told): (events \o told)[Len(events) + i] = told[i]
    BY <1>2, <1>4, ConcatAt
  <2> QED BY <1>4, <1>5, <2>1, <2>2
<1>8. Sets(n + 1)'
  BY <1>3, <1>7 DEF Sets
<1>9. Effect(n + 1)' = Billed'
  BY <1>3, <1>5, <1>7 DEF Effect, Billed, Paying
<1>10. TaleOk(told, status)
  <2>1. \A i \in 1 .. Len(told): told[i] = ev
    BY <1>4
  <2> QED BY <1>3, <1>4, <2>1 DEF TaleOk
<1>11. status \in Statuses \ {"none"}
  BY DEF Statuses
<1>12. Sets(n + Len(told))' /\ Effect(n + Len(told))' = Billed'
  BY <1>4, <1>8, <1>9
<1> QED BY <1>1, <1>6, <1>10, <1>11, <1>12, TellKeeps

\* The two events of a payment: the second is an update, the first sets nothing.
LEMMA TwoTold ==
  ASSUME BillingTypes, EventsInv, NEW type \in {"paid", "payment_failed"},
         NEW status \in {"active", "past_due"}, NEW p \in Plans, p = sub.plan,
         Tell(status, p, <<Event(type, status, p), Event("updated", status, p)>>),
         type = "paid" <=> status = "active", sub.status \in {"active", "past_due"}
  PROVE  StripeTold
<1> DEFINE one == Event(type, status, p)
           two == Event("updated", status, p)
           told == <<one, two>>
<1>1. PICK n \in Nat: n = Known
  BY KnownNat
<1>2. events \in Seq(EventRecord)
  BY DEF BillingTypes
<1>3. /\ one \in EventRecord /\ one.type = type /\ one.status = status /\ one.plan = p
      /\ two \in EventRecord /\ two.type = "updated" /\ two.status = status /\ two.plan = p
  BY DEF Event, EventRecord, Statuses
<1> HIDE DEF one, two
<1>4. told \in Seq(EventRecord) /\ Len(told) = 2 /\ told[1] = one /\ told[2] = two
  BY <1>3
<1>5. events' = events \o told /\ sub' = [status |-> status, plan |-> p]
  BY DEF Tell, one, two
<1>6. Tell(status, p, told)
  BY DEF one, two
<1> HIDE DEF told
<1>7. events'[n + 1] = one /\ events'[n + 2] = two
  <2>1. n = Len(events) /\ 1 \in 1 .. Len(told) /\ 2 \in 1 .. Len(told)
    BY <1>1, <1>4 DEF Known
  <2>2. \A i \in 1 .. Len(told): (events \o told)[Len(events) + i] = told[i]
    BY <1>2, <1>4, ConcatAt
  <2> QED BY <1>4, <1>5, <2>1, <2>2
<1>8. Billed' = Billed
  BY <1>5 DEF Billed, Paying
<1>9. ~Sets(n + 1)' /\ (status = "past_due" => ~Sets(n + 2)') /\ (status = "active" => Sets(n + 2)')
  BY <1>3, <1>7 DEF Sets
<1>10. Effect(n + 2)' = Billed'
  BY <1>3, <1>5, <1>7 DEF Effect, Billed, Paying
<1>11. \A i \in 1 .. Len(told): (i = 1 /\ told[i] = one) \/ (i = 2 /\ told[i] = two)
  BY <1>4
<1>12. TaleOk(told, status)
  BY <1>3, <1>4, <1>11 DEF TaleOk
<1>13. status \in Statuses \ {"none"}
  BY DEF Statuses
<1>14. Sets(n + Len(told))' \/ (SetNothing(n, Len(told))' /\ Billed' = Billed)
  <2>1. status = "past_due" => SetNothing(n, Len(told))'
    BY <1>4, <1>9, <1>11 DEF SetNothing
  <2> QED BY <1>4, <1>8, <1>9, <2>1
<1>15. Sets(n + Len(told))' => Effect(n + Len(told))' = Billed'
  BY <1>4, <1>10
<1> QED BY <1>1, <1>6, <1>12, <1>13, <1>14, <1>15, TellKeeps

\* Each of Stripe's steps tells so.
LEMMA StripeKeeps ==
  ASSUME BillingTypes, EventsInv,
         \/ \E p \in Plans: Checkout(p) \/ ChangePlan(p)
         \/ PaymentFails \/ PaymentSucceeds \/ Cancel
  PROVE  StripeTold
<1>1. PICK q \in Plans: q = sub.plan
  BY DEF BillingTypes
<1>2. ASSUME NEW p \in Plans, Checkout(p) PROVE StripeTold
  BY <1>2, OneTold DEF Checkout
<1>3. ASSUME NEW p \in Plans, ChangePlan(p) PROVE StripeTold
  BY <1>3, OneTold DEF ChangePlan
<1>4. CASE PaymentFails
  BY <1>1, <1>4, TwoTold DEF PaymentFails
<1>5. CASE PaymentSucceeds
  BY <1>1, <1>5, TwoTold DEF PaymentSucceeds
<1>6. CASE Cancel
  <2>1. PICK type \in {"deleted", "updated"}: Tell("canceled", q, <<Event(type, "canceled", q)>>)
    BY <1>1, <1>6 DEF Cancel
  <2>2. sub.status # "none"
    BY <1>6 DEF Cancel
  <2> QED BY <2>1, <2>2, OneTold
<1> QED BY <1>2, <1>3, <1>4, <1>5, <1>6

\* What happens in the team leaves it right.
LEMMA TeamKeeps ==
  ASSUME BillingTypes, Invite \/ StoreInvite \/ AcceptInvite \/ RemoveMember
  PROVE  /\ UNCHANGED <<billing, delivery, user>>
         /\ team' \in TeamRecord /\ late' \in BOOLEAN /\ (TeamOk => TeamOk')
<1>0. team \in TeamRecord /\ late \in BOOLEAN
  BY DEF BillingTypes
<1>1. ASSUME Join, user' = user PROVE team' \in TeamRecord /\ late' \in BOOLEAN /\ TeamOk'
  BY <1>1 DEF Join, TeamRecord, TeamOk
<1>2. CASE Invite
  BY <1>0, <1>2 DEF Invite, TeamOk
<1>3. CASE StoreInvite
  <2>1. UNCHANGED <<billing, delivery, user>>
    BY <1>3 DEF StoreInvite
  <2>2. CASE Join
    BY <1>1, <2>1, <2>2
  <2>3. CASE /\ team' = [exists |-> TRUE,
                         mate |-> IF team.mate = "none" THEN "PENDING" ELSE team.mate]
             /\ UNCHANGED late
    BY <1>0, <2>1, <2>3 DEF TeamRecord, TeamOk
  <2> QED BY <1>3, <2>1, <2>2, <2>3 DEF StoreInvite
<1>4. CASE AcceptInvite
  BY <1>1, <1>4 DEF AcceptInvite
<1>5. CASE RemoveMember
  BY <1>0, <1>5 DEF RemoveMember, TeamRecord, TeamOk
<1> QED BY <1>2, <1>3, <1>4, <1>5

LEMMA BillingFirst == BillingInit => BillingInv
<1> SUFFICES ASSUME BillingInit PROVE BillingInv
  OBVIOUS
<1>1. /\ sub = [status |-> "none", plan |-> "STARTER"] /\ events = <<>>
      /\ stored = [claimed |-> {}, processed |-> {}] /\ acked = {} /\ applied = {}
      /\ handler = [h \in Handlers |-> NoEvent]
      /\ user = [linked |-> FALSE, plan |-> "FREE", pastDue |-> FALSE]
      /\ team = [exists |-> FALSE, mate |-> "none"] /\ disorder = FALSE /\ late = FALSE
  BY DEF BillingInit
<1>2. BillingTypes
  <2>1. events \in Seq(EventRecord) /\ sub \in [status: Statuses, plan: Plans]
    BY <1>1 DEF Statuses, Plans
  <2>2. stored \in [claimed: SUBSET Nat, processed: SUBSET Nat]
    BY <1>1
  <2>3. handler \in [Handlers -> HandlerRecord]
    <3>1. NoEvent \in HandlerRecord
      BY DEF NoEvent, HandlerRecord, HandlerPcs, Statuses
    <3> QED BY <1>1, <3>1
  <2>4. user \in UserRecord /\ team \in TeamRecord
    BY <1>1 DEF UserRecord, TeamRecord, Plans
  <2> QED BY <1>1, <2>1, <2>2, <2>3, <2>4 DEF BillingTypes
<1>3. Known = 0
  BY <1>1 DEF Known
<1>4. EventsInv
  BY <1>1, <1>3 DEF EventsInv
<1>5. Turn(0)
  <2>1. 1 .. 0 = {} /\ 0 \in Nat
    OBVIOUS
  <2>2. PlanAfter(0) /\ FlagAfter(0) /\ TeamOk
    BY <1>1 DEF PlanAfter, FlagAfter, TeamOk, Billed, Paying
  <2>3. \A h \in Handlers: At(h, "idle")
    BY <1>1 DEF At, NoEvent
  <2> QED BY <1>1, <1>3, <2>1, <2>2, <2>3 DEF Turn
<1> QED BY <1>1, <1>2, <1>4, <1>5 DEF BillingInv

\* What a delivery does to the types, and to the events that were answered and processed.
LEMMA DeliveryTypes ==
  ASSUME BillingTypes, acked \subseteq applied, applied = stored.processed, NEW h \in Handlers,
         (\E e \in 1 .. Known: Claim(h, e)) \/ HandlerStep(h) \/ HandlerFails(h)
  PROVE  BillingTypes' /\ acked' \subseteq applied' /\ applied' = stored'.processed
         /\ UNCHANGED billing
<1>0. /\ sub \in [status: Statuses, plan: Plans] /\ events \in Seq(EventRecord)
      /\ stored \in [claimed: SUBSET Nat, processed: SUBSET Nat]
      /\ handler \in [Handlers -> HandlerRecord] /\ handler[h] \in HandlerRecord
      /\ user \in UserRecord /\ team \in TeamRecord /\ disorder \in BOOLEAN /\ late \in BOOLEAN
  BY DEF BillingTypes
<1>1. NoEvent \in HandlerRecord
  BY DEF NoEvent, HandlerRecord, HandlerPcs, Statuses
<1>2. ASSUME NEW pc \in HandlerPcs, GoTo(h, pc) PROVE handler' \in [Handlers -> HandlerRecord]
  BY <1>2, GoesTo
<1>3. /\ Rest(h) \in HandlerPcs
      /\ \A s \in Statuses: SyncStep(s) \in HandlerPcs
  BY DEF Rest, SyncStep, HandlerPcs
<1>4. ASSUME UNCHANGED billing,
             stored' \in [claimed: SUBSET Nat, processed: SUBSET Nat],
             handler' \in [Handlers -> HandlerRecord], user' \in UserRecord, team' \in TeamRecord,
             disorder' \in BOOLEAN, late' \in BOOLEAN
      PROVE  BillingTypes'
  BY <1>0, <1>4 DEF BillingTypes, billing
<1>5. ASSUME NEW e \in 1 .. Known, Claim(h, e)
      PROVE  BillingTypes' /\ acked' \subseteq applied' /\ applied' = stored'.processed
             /\ UNCHANGED billing
  <2>1. CASE e \in stored.processed
    BY <1>0, <1>4, <1>5, <2>1 DEF Claim
  <2>2. CASE e \notin stored.processed
    <3> DEFINE new == [pc |-> FirstStep(events[e]), event |-> e,
                       status |-> events[e].status, plan |-> events[e].plan]
    <3>1. /\ stored' = Claimed(e) /\ disorder' \in BOOLEAN /\ handler' = [handler EXCEPT ![h] = new]
          /\ UNCHANGED <<billing, acked, applied, user, team, late>>
      BY <1>5, <2>2 DEF Claim
    <3>2. e \in Nat /\ events[e] \in EventRecord
      BY <1>0, KnownNat DEF Known
    <3>3. FirstStep(events[e]) \in HandlerPcs
      BY <1>3, <3>2 DEF FirstStep, EventRecord, HandlerPcs
    <3>4. new \in HandlerRecord
      <4> HIDE DEF HandlerPcs
      <4> QED BY <3>2, <3>3 DEF HandlerRecord, EventRecord, Statuses
    <3>5. /\ stored' \in [claimed: SUBSET Nat, processed: SUBSET Nat]
          /\ stored'.processed = stored.processed
      BY <1>0, <3>1, <3>2 DEF Claimed
    <3> HIDE DEF new
    <3> QED BY <1>0, <1>4, <3>1, <3>4, <3>5
  <2> QED BY <2>1, <2>2
<1>6. CASE Link(h)
  <2>1. "retrieve" \in HandlerPcs
    BY DEF HandlerPcs
  <2> QED BY <1>0, <1>2, <1>4, <1>6, <2>1 DEF Link, UserRecord
<1>7. CASE Retrieve(h)
  <2> DEFINE new == [handler[h] EXCEPT !.pc = SyncStep(sub.status), !.status = sub.status,
                                       !.plan = sub.plan]
  <2>1. handler' = [handler EXCEPT ![h] = new] /\ disorder' \in BOOLEAN
        /\ UNCHANGED <<billing, stored, acked, applied, user, team, late>>
    BY <1>0, <1>7 DEF Retrieve
  <2>2. SyncStep(sub.status) \in HandlerPcs
    BY <1>0, <1>3
  <2>3. new \in HandlerRecord
    <3> HIDE DEF HandlerPcs
    <3> QED BY <1>0, <2>2 DEF HandlerRecord, Statuses
  <2> HIDE DEF new
  <2> QED BY <1>0, <1>4, <2>1, <2>3
<1>8. CASE SetPastDue(h)
  BY <1>0, <1>2, <1>3, <1>4, <1>8 DEF SetPastDue, UpdateUser, UserRecord
<1>9. CASE ClearPastDue(h)
  <2>1. "mark" \in HandlerPcs /\ "plan" \in HandlerPcs
    BY DEF HandlerPcs
  <2> QED BY <1>0, <1>2, <1>4, <1>9, <2>1 DEF ClearPastDue, UpdateUser, UserRecord
<1>10. CASE SetPlan(h)
  <2>1. "mark" \in HandlerPcs /\ "ensure" \in HandlerPcs /\ "suspend" \in HandlerPcs
    BY DEF HandlerPcs
  <2>2. handler[h].plan \in Plans \union {"FREE", "none"}
    BY <1>0 DEF HandlerRecord
  <2>3. user' \in UserRecord
    BY <1>0, <1>10, <2>2 DEF SetPlan, UpdateUser, UserRecord
  <2> QED BY <1>0, <1>2, <1>4, <1>10, <2>1, <2>3 DEF SetPlan
<1>11. CASE DowngradeToFree(h)
  <2>1. "suspend" \in HandlerPcs
    BY DEF HandlerPcs
  <2>2. user' \in UserRecord
    BY <1>0, <1>11 DEF DowngradeToFree, UpdateUser, Downgraded, UserRecord
  <2> QED BY <1>0, <1>2, <1>3, <1>4, <1>11, <2>1, <2>2 DEF DowngradeToFree
<1>12. CASE EnsureProTeam(h)
  <2>1. "mark" \in HandlerPcs
    BY DEF HandlerPcs
  <2>2. team' \in TeamRecord
    BY <1>0, <1>12 DEF EnsureProTeam, TeamRecord
  <2> QED BY <1>0, <1>2, <1>4, <1>12, <2>1, <2>2 DEF EnsureProTeam
<1>13. CASE SuspendMembers(h)
  <2>1. team' \in TeamRecord
    BY <1>0, <1>13 DEF SuspendMembers, TeamRecord
  <2> QED BY <1>0, <1>2, <1>3, <1>4, <1>13, <2>1 DEF SuspendMembers
<1>14. CASE MarkProcessed(h)
  <2>1. /\ stored' = [stored EXCEPT !.processed = @ \union {handler[h].event}]
        /\ applied' = applied \union {handler[h].event}
        /\ acked' \in {acked, acked \union {handler[h].event}}
        /\ handler' = [handler EXCEPT ![h] = NoEvent]
        /\ UNCHANGED <<billing, disorder, user, team, late>>
    BY <1>14 DEF MarkProcessed
  <2>2. handler[h].event \in Nat
    BY <1>0 DEF HandlerRecord
  <2>3. /\ stored' \in [claimed: SUBSET Nat, processed: SUBSET Nat]
        /\ stored'.processed = stored.processed \union {handler[h].event}
    BY <1>0, <2>1, <2>2
  <2> QED BY <1>0, <1>1, <1>4, <2>1, <2>3
<1>15. CASE HandlerFails(h)
  BY <1>0, <1>1, <1>4, <1>15 DEF HandlerFails
<1> QED
  BY <1>5, <1>6, <1>7, <1>8, <1>9, <1>10, <1>11, <1>12, <1>13, <1>14, <1>15 DEF HandlerStep

\* A step of a delivery leaves the turns as they are, or ends one.
LEMMA DeliveryKeeps ==
  ASSUME BillingTypes, EventsInv, ~disorder => \E k \in Nat: Turn(k), ~disorder',
         NEW h \in Handlers,
         (\E e \in 1 .. Known: Claim(h, e)) \/ HandlerStep(h) \/ HandlerFails(h)
  PROVE  \E k \in Nat: Turn(k)'
<1>1. CASE \E e \in 1 .. Known: Claim(h, e)
  BY <1>1, ClaimKeeps
<1>2. CASE HandlerStep(h) \/ HandlerFails(h)
  <2>1. ~disorder
    BY <1>2 DEF HandlerStep, Link, Retrieve, SetPastDue, ClearPastDue, SetPlan, DowngradeToFree,
                EnsureProTeam, SuspendMembers, MarkProcessed, HandlerFails
  <2>2. PICK k \in Nat: Turn(k)
    BY <2>1
  <2>3. CASE MarkProcessed(h)
    <3>1. k + 1 \in Nat /\ Turn(k + 1)'
      BY <2>2, <2>3, MarkKeeps
    <3>2. PICK n \in Nat: n = k + 1
      BY <3>1
    <3>3. Turn(n)'
      BY <3>1, <3>2
    <3> QED BY <3>3
  <2>4. CASE ~MarkProcessed(h)
    <3>1. Turn(k)'
      BY <1>2, <2>2, <2>4, LinkKeeps, RetrieveKeeps, PastDueKeeps, ClearKeeps, PlanKeeps,
         DowngradeKeeps, TeamStepKeeps, FailKeeps DEF HandlerStep
    <3> QED BY <3>1
  <2> QED BY <2>3, <2>4
<1> QED BY <1>1, <1>2

LEMMA BillingStep == BillingInv /\ [BillingNext]_billingVars => BillingInv'
<1> SUFFICES ASSUME BillingInv, [BillingNext]_billingVars PROVE BillingInv'
  OBVIOUS
<1>0. /\ BillingTypes /\ EventsInv /\ acked \subseteq applied /\ applied = stored.processed
      /\ (~disorder => \E k \in Nat: Turn(k))
  BY DEF BillingInv
<1>1. ASSUME StripeTold PROVE BillingInv'
  <2>1. BillingTypes'
    BY <1>0, <1>1 DEF StripeTold, BillingTypes
  <2>2. ASSUME ~disorder' PROVE \E k \in Nat: Turn(k)'
    <3>1. PICK k \in Nat: Turn(k)
      BY <1>0, <1>1, <2>2 DEF StripeTold
    <3> QED BY <1>1, <3>1 DEF StripeTold
  <2> QED BY <1>0, <1>1, <2>1, <2>2 DEF StripeTold, BillingInv
<1>2. ASSUME NEW h \in Handlers,
             (\E e \in 1 .. Known: Claim(h, e)) \/ HandlerStep(h) \/ HandlerFails(h)
      PROVE  BillingInv'
  <2>1. BillingTypes' /\ acked' \subseteq applied' /\ applied' = stored'.processed
        /\ UNCHANGED billing
    BY <1>0, <1>2, DeliveryTypes
  <2>2. EventsInv'
    BY <1>0, <2>1, StripeSame
  <2>3. ~disorder' => \E k \in Nat: Turn(k)'
    BY <1>0, <1>2, DeliveryKeeps
  <2> QED BY <2>1, <2>2, <2>3 DEF BillingInv
<1>3. CASE Invite \/ StoreInvite \/ AcceptInvite \/ RemoveMember
  <2>1. /\ UNCHANGED <<billing, delivery, user>>
        /\ team' \in TeamRecord /\ late' \in BOOLEAN /\ (TeamOk => TeamOk')
    BY <1>0, <1>3, TeamKeeps
  <2>2. BillingTypes'
    BY <1>0, <2>1 DEF BillingTypes, billing, delivery
  <2>3. EventsInv'
    BY <1>0, <2>1, StripeSame
  <2>4. ASSUME ~disorder' PROVE \E k \in Nat: Turn(k)'
    <3>1. PICK k \in Nat: Turn(k)
      BY <1>0, <2>1, <2>4 DEF delivery
    <3>2. Turn(k)'
      BY <1>0, <2>1, <3>1, Waits DEF delivery
    <3> QED BY <3>2
  <2> QED BY <1>0, <2>1, <2>2, <2>3, <2>4 DEF BillingInv, delivery
<1>4. CASE UNCHANGED billingVars
  <2>1. /\ UNCHANGED <<billing, delivery, user, team, late>>
    BY <1>4 DEF billingVars
  <2>2. BillingTypes'
    BY <1>0, <2>1 DEF BillingTypes, billing, delivery
  <2>3. EventsInv'
    BY <1>0, <2>1, StripeSame
  <2>4. ASSUME ~disorder' PROVE \E k \in Nat: Turn(k)'
    <3>1. PICK k \in Nat: Turn(k)
      BY <1>0, <2>1, <2>4 DEF delivery
    <3>2. TeamOk => TeamOk'
      BY <2>1 DEF TeamOk
    <3>3. Turn(k)'
      BY <1>0, <2>1, <3>1, <3>2, Waits DEF delivery
    <3> QED BY <3>3
  <2> QED BY <1>0, <2>1, <2>2, <2>3, <2>4 DEF BillingInv, delivery
<1>5. CASE BillingNext
  <2>1. CASE \/ \E p \in Plans: Checkout(p) \/ ChangePlan(p)
             \/ PaymentFails \/ PaymentSucceeds \/ Cancel
    BY <1>0, <1>1, <2>1, StripeKeeps
  <2>2. CASE \E h \in Handlers:
                (\E e \in 1 .. Known: Claim(h, e)) \/ HandlerStep(h) \/ HandlerFails(h)
    BY <1>2, <2>2
  <2> QED BY <1>3, <1>5, <2>1, <2>2 DEF BillingNext, Known
<1> QED BY <1>4, <1>5

\* When all was processed in turn, the turn is the one after the last event.
LEMMA BillingAgrees == BillingInv => InSync
<1> SUFFICES ASSUME BillingInv PROVE InSync
  OBVIOUS
<1>1. ASSUME ~disorder, applied = 1 .. Known, \A h \in Handlers: At(h, "idle")
      PROVE  /\ user.plan = Billed /\ user.pastDue = (sub.status = "past_due")
             /\ (user.plan # "PRO" /\ team.mate = "ACTIVE" => late)
  <2>1. PICK k \in Nat: Turn(k)
    BY <1>1 DEF BillingInv
  <2>2. Known \in Nat /\ k <= Known /\ 1 .. k = 1 .. Known
    BY <1>1, <2>1, KnownNat DEF BillingInv, Turn
  <2>3. k = Known
    <3>1. \A a, b \in Nat: a <= b /\ 1 .. a = 1 .. b => a = b
      <4> SUFFICES ASSUME NEW a \in Nat, NEW b \in Nat, a <= b, 1 .. a = 1 .. b, a # b PROVE FALSE
        OBVIOUS
      <4>1. b \in 1 .. b
        OBVIOUS
      <4>2. ~(b \in 1 .. a)
        OBVIOUS
      <4> QED BY <4>1, <4>2
    <3> QED BY <2>2, <3>1
  <2>4. ~SetLater(k)
    BY <2>2, <2>3 DEF SetLater
  <2>5. PlanAfter(k) /\ FlagAfter(k) /\ TeamOk
    BY <2>1, <2>2, <2>3 DEF Turn
  <2> QED BY <2>2, <2>3, <2>4, <2>5 DEF PlanAfter, FlagAfter, TeamOk
<1> QED BY <1>1 DEF InSync, BillingInv, Known, Billed

\* Stripe's events reach the user: what was answered was processed, and when all were
\* processed in turn, the user has what Stripe bills, whatever else happened in between.
THEOREM PlanInSync == Spec => []InSync
<1>1. Init => BillingInv
  BY BillingFirst DEF Init
<1>2. BillingInv /\ [Next]_vars => BillingInv'
  BY Parts, BillingStep
<1> QED BY <1>1, <1>2, BillingAgrees, PTL DEF Spec
=============================================================================

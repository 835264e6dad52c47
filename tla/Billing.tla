------------------------------ MODULE Billing ------------------------------
(***************************************************************************)
(* The subscription of a user and the team that comes with it.  Stripe     *)
(* tells what happened to the subscription in events that it delivers at   *)
(* least once and in any order (stripe/webhook/route.ts); each is claimed, *)
(* processed step by step (stripe-webhook-handler.ts,                      *)
(* stripe-subscription.ts, billing-status.ts) and marked.  Meanwhile the   *)
(* owner invites and removes a teammate, who joins when logging in         *)
(* (team/route.ts, account-context.ts).                                    *)
(***************************************************************************)
EXTENDS Naturals, Sequences

CONSTANTS
    Handlers,       \* the deliveries handled at the same time
    MaxEvents       \* bound on the events

ASSUME EventsAssumption == MaxEvents \in Nat

VARIABLES
    sub,         \* the subscription at Stripe
    events,      \* the events in the order of what they tell
    stored,      \* StripeWebhookEvent: the events claimed, and those processed
    acked,       \* the events that were answered with a 2xx
    handler,     \* what each delivery is doing
    user,        \* the owner: stripeCustomerId is set, plan, subscriptionPastDue
    team,        \* a Team exists, and the state of the teammate in it
    invite,      \* an invitation that was let through and is being stored
    applied,     \* the events whose processing went to its end
    disorder,    \* an event was processed out of its turn or with another, or a checkout
                 \* found its subscription past due: the plan is then never set
    late         \* the teammate joined when the plan was not PRO

billing == <<sub, events>>
delivery == <<stored, acked, handler, applied, disorder>>
billingVars == <<billing, delivery, user, team, invite, late>>

Plans == {"STARTER", "PRO"}
Event(type, status, plan) == [type |-> type, status |-> status, plan |-> plan]
NoEvent == [pc |-> "idle", event |-> 0, status |-> "none", plan |-> "none"]

-----------------------------------------------------------------------------
(* Stripe                                                                  *)

Tell(status, plan, told) ==
    /\ Len(events) + Len(told) <= MaxEvents
    /\ sub' = [status |-> status, plan |-> plan]
    /\ events' = events \o told
    /\ UNCHANGED <<delivery, user, team, invite, late>>

Checkout(plan) ==
    /\ sub.status \in {"none", "canceled"}
    /\ Tell("active", plan, <<Event("checkout", "active", plan)>>)

ChangePlan(plan) ==
    /\ sub.status = "active" /\ sub.plan # plan
    /\ Tell("active", plan, <<Event("updated", "active", plan)>>)

PaymentFails ==
    /\ sub.status = "active"
    /\ Tell("past_due", sub.plan, <<Event("payment_failed", "past_due", sub.plan),
                                    Event("updated", "past_due", sub.plan)>>)

PaymentSucceeds ==
    /\ sub.status = "past_due"
    /\ Tell("active", sub.plan, <<Event("paid", "active", sub.plan),
                                  Event("updated", "active", sub.plan)>>)

\* Canceled, or unpaid in the end.
Cancel ==
    /\ sub.status \in {"active", "past_due"}
    /\ \E type \in {"deleted", "updated"}:
           Tell("canceled", sub.plan, <<Event(type, "canceled", sub.plan)>>)

-----------------------------------------------------------------------------
(* The webhook                                                             *)

At(h, pc) == handler[h].pc = pc
GoTo(h, pc) == handler' = [handler EXCEPT ![h].pc = pc]

\* syncUserPlanFromSubscription: the first step for a status.
SyncStep(status) ==
    CASE status = "active" -> "clear"
      [] status = "past_due" -> "pastDue"
      [] OTHER -> "downgrade"

\* processStripeWebhookEvent: the first step for a type.
FirstStep(event) ==
    CASE event.type = "checkout" -> "link"
      [] event.type = "deleted" -> "downgrade"
      [] event.type = "payment_failed" -> "pastDue"
      [] event.type = "paid" -> "clear"
      [] OTHER -> SyncStep(event.status)

InTurn(e) ==
    /\ \A f \in 1 .. Len(events): f < e <=> f \in applied
    /\ \A h \in Handlers: At(h, "idle")

Claimed(e) == [stored EXCEPT !.claimed = @ \union {e}]

\* Any event is delivered, again if need be, and claimStripeWebhookEvent asks under the lock
\* of the event: a processed one is acknowledged again, a claimed one processed again.
Claim(h, e) ==
    /\ At(h, "idle")
    /\ IF e \in stored.processed
       THEN acked' = acked \union {e} /\ UNCHANGED <<stored, handler, disorder>>
       ELSE /\ stored' = Claimed(e)
            /\ disorder' = (disorder \/ ~InTurn(e))
            /\ handler' = [handler EXCEPT ![h] =
                    [pc |-> FirstStep(events[e]), event |-> e,
                     status |-> events[e].status, plan |-> events[e].plan]]
            /\ UNCHANGED acked
    /\ UNCHANGED <<billing, applied, user, team, invite, late>>

\* checkout.session.completed: the customer becomes known, then the subscription is
\* asked for as it is now.
Link(h) ==
    /\ At(h, "link")
    /\ user' = [user EXCEPT !.linked = TRUE]
    /\ GoTo(h, "retrieve")
    /\ UNCHANGED <<billing, stored, acked, applied, disorder, team, invite, late>>

Retrieve(h) ==
    /\ At(h, "retrieve")
    /\ handler' = [handler EXCEPT ![h].pc = SyncStep(sub.status), ![h].status = sub.status,
                                  ![h].plan = sub.plan]
    /\ disorder' = (disorder \/ sub.status = "past_due")
    /\ UNCHANGED <<billing, stored, acked, applied, user, team, invite, late>>

\* An update by customer finds the user once the customer is known.
UpdateUser(new) == user' = IF user.linked THEN new ELSE user

\* A checkout of PRO makes sure of the team once more, whatever the status was.
Rest(h) ==
    IF events[handler[h].event].type = "checkout" /\ handler[h].plan = "PRO"
    THEN "ensure" ELSE "mark"

\* The mutant leaves the plan.
FlagOnly == [user EXCEPT !.pastDue = FALSE]
Downgraded == [user EXCEPT !.plan = "FREE", !.pastDue = FALSE]

SetPastDue(h) ==
    /\ At(h, "pastDue")
    /\ UpdateUser([user EXCEPT !.pastDue = TRUE])
    /\ GoTo(h, Rest(h))
    /\ UNCHANGED <<billing, stored, acked, applied, disorder, team, invite, late>>

\* clearCustomerPastDue, all that invoice.paid does.
ClearPastDue(h) ==
    /\ At(h, "clear")
    /\ UpdateUser([user EXCEPT !.pastDue = FALSE])
    /\ GoTo(h, IF events[handler[h].event].type = "paid" THEN "mark" ELSE "plan")
    /\ UNCHANGED <<billing, stored, acked, applied, disorder, team, invite, late>>

SetPlan(h) ==
    /\ At(h, "plan")
    /\ UpdateUser([user EXCEPT !.plan = handler[h].plan])
    /\ GoTo(h, IF ~user.linked THEN "mark"
               ELSE IF handler[h].plan = "PRO" THEN "ensure" ELSE "suspend")
    /\ UNCHANGED <<billing, stored, acked, applied, disorder, team, invite, late>>

DowngradeToFree(h) ==
    /\ At(h, "downgrade")
    /\ UpdateUser(Downgraded)
    /\ GoTo(h, IF user.linked THEN "suspend" ELSE Rest(h))
    /\ UNCHANGED <<billing, stored, acked, applied, disorder, team, invite, late>>

EnsureProTeam(h) ==
    /\ At(h, "ensure")
    /\ team' = [team EXCEPT !.exists = TRUE]
    /\ GoTo(h, "mark")
    /\ UNCHANGED <<billing, stored, acked, applied, disorder, user, invite, late>>

\* suspendProTeamMembers: those who have joined; an invitation without a user stays.
SuspendMembers(h) ==
    /\ At(h, "suspend")
    /\ team' = [team EXCEPT !.mate = IF @ = "ACTIVE" THEN "none" ELSE @]
    /\ late' = FALSE
    /\ GoTo(h, Rest(h))
    /\ UNCHANGED <<billing, stored, acked, applied, disorder, user, invite>>

\* markStripeWebhookEventProcessed; the answer may get lost.
MarkProcessed(h) ==
    /\ At(h, "mark")
    /\ LET e == handler[h].event
       IN /\ stored' = [stored EXCEPT !.processed = @ \union {e}]
          /\ applied' = applied \union {e}
          /\ acked' \in {acked, acked \union {e}}
    /\ handler' = [handler EXCEPT ![h] = NoEvent]
    /\ UNCHANGED <<billing, disorder, user, team, invite, late>>

\* An exception answers 500; or the process dies.
HandlerFails(h) ==
    /\ ~At(h, "idle")
    /\ handler' = [handler EXCEPT ![h] = NoEvent]
    /\ UNCHANGED <<billing, stored, acked, applied, disorder, user, team, invite, late>>

-----------------------------------------------------------------------------
(* The team                                                                *)

Join == /\ team' = [exists |-> TRUE, mate |-> "ACTIVE"]
        /\ late' = (user.plan # "PRO")

\* The plan is looked at when the request begins.
Invite ==
    /\ ~invite /\ user.plan = "PRO" /\ team.mate # "ACTIVE"
    /\ invite' = TRUE
    /\ UNCHANGED <<billing, delivery, user, team, late>>

\* A teammate with an account joins at once, whatever became of the plan.
StoreInvite ==
    /\ invite /\ invite' = FALSE
    /\ \/ Join
       \/ team' = [exists |-> TRUE, mate |-> IF team.mate = "none" THEN "PENDING" ELSE team.mate]
          /\ UNCHANGED late
    /\ UNCHANGED <<billing, delivery, user>>

\* acceptTeamInvites, at the login of the teammate.
AcceptInvite ==
    /\ team.mate = "PENDING"
    /\ Join
    /\ UNCHANGED <<billing, delivery, user, invite>>

RemoveMember ==
    /\ user.plan = "PRO" /\ team.mate # "none"
    /\ team' = [team EXCEPT !.mate = "none"]
    /\ late' = FALSE
    /\ UNCHANGED <<billing, delivery, user, invite>>

-----------------------------------------------------------------------------
BillingInit ==
    /\ sub = [status |-> "none", plan |-> "STARTER"] /\ events = <<>>
    /\ stored = [claimed |-> {}, processed |-> {}] /\ acked = {}
    /\ handler = [h \in Handlers |-> NoEvent]
    /\ user = [linked |-> FALSE, plan |-> "FREE", pastDue |-> FALSE]
    /\ team = [exists |-> FALSE, mate |-> "none"] /\ invite = FALSE
    /\ applied = {} /\ disorder = FALSE /\ late = FALSE

HandlerStep(h) ==
    \/ Link(h) \/ Retrieve(h) \/ SetPastDue(h) \/ ClearPastDue(h) \/ SetPlan(h)
    \/ DowngradeToFree(h) \/ EnsureProTeam(h) \/ SuspendMembers(h) \/ MarkProcessed(h)

BillingNext ==
    \/ \E plan \in Plans: Checkout(plan) \/ ChangePlan(plan)
    \/ PaymentFails \/ PaymentSucceeds \/ Cancel
    \/ \E h \in Handlers:
        \/ \E e \in 1 .. Len(events): Claim(h, e)
        \/ HandlerStep(h) \/ HandlerFails(h)
    \/ Invite \/ StoreInvite \/ AcceptInvite \/ RemoveMember

-----------------------------------------------------------------------------
(* Properties                                                              *)

Paying == sub.status \in {"active", "past_due"}

\* Stripe never stops delivering an event before its effects are there, through crashes,
\* repeated and concurrent deliveries (stripe-webhook-idempotency.ts).
\* When every event was processed, in order and one after the other although some were
\* begun several times, and no checkout found its subscription past due already
\* (syncUserPlanFromSubscription returns before the plan, and nothing sets it later than
\* an update of the subscription), the user has the plan that Stripe bills, the flag of a failed
\* payment, and outside PRO nobody in the team who did not join after the plan had
\* changed.
InSync ==
    /\ acked \subseteq applied
    /\ /\ ~disorder /\ applied = 1 .. Len(events)
       /\ \A h \in Handlers: At(h, "idle")
       => /\ user.plan = IF Paying THEN sub.plan ELSE "FREE"
          /\ user.pastDue = (sub.status = "past_due")
          /\ user.plan # "PRO" /\ team.mate = "ACTIVE" => late
=============================================================================

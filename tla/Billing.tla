------------------------------ MODULE Billing ------------------------------
(***************************************************************************)
(* The subscription of one workspace: app/services/billing.py and          *)
(* app/services/plans.py, with Stripe or the mock provider.                *)
(*                                                                         *)
(* Opening a checkout and canceling are requests that call the provider    *)
(* and commit afterwards.  The provider is external: it opens, charges and *)
(* ends its own subscriptions, and reports each change by a webhook.  The  *)
(* mock provider does nothing and sends none; what Stripe would know is    *)
(* kept in "remote" for it too.                                            *)
(***************************************************************************)
EXTENDS Integers, Sequences

CONSTANTS
  Checkouts,      \* provider_checkout_id: each is opened once, and has one row
  Requests,       \* threads of the web process
  Providers,      \* values of settings.billing_provider
  Offered,        \* bound: the plans that users choose
  InOrder,        \* TRUE: the webhooks of one subscription arrive in order
  TrialDays,      \* settings.trial_days
  Month,          \* thirty days
  MaxTime,        \* bound: the last day
  None

Plans == {"free", "starter", "pro"}
ACTIVE_SUBSCRIPTION_STATUSES == {"active", "trialing"}
Statuses == {"absent", "checkout_pending", "active", "trialing", "past_due", "canceled"}

MockSub == "mock_sub"  \* a provider_subscription_id made up here (one for each row)

ASSUME BillingAssumption ==
  /\ None \notin Checkouts /\ MockSub \notin Checkouts /\ None # MockSub
  /\ Providers \subseteq {"mock", "stripe"}
  /\ Offered \subseteq Plans /\ InOrder \in BOOLEAN
  /\ TrialDays \in Nat /\ Month \in Nat \ {0} /\ MaxTime \in Nat

VARIABLES
  provider,  \* settings.billing_provider
  now,       \* the day
  sub,       \* the row of each checkout in the table subscriptions
  current,   \* get_current_subscription: the row updated last
  remote,    \* the provider's subscription for each checkout
  mail,      \* its webhooks, not yet acknowledged
  req,       \* the requests in progress
  bought,    \* history: plans that were ever paid for, or confirmed by a card
  loaded     \* history: rows that the provider knows nothing of as they are:
             \* last written when their completion address was loaded

db == <<sub, current, loaded>>
vars == <<provider, now, db, remote, mail, req, bought>>

Absent == [status |-> "absent", plan |-> "free", psub |-> None, end |-> 0]
Idle == [pc |-> "idle", row |-> None, plan |-> "free"]

Init ==
  /\ provider \in Providers
  /\ now = 1
  /\ sub = [c \in Checkouts |-> Absent]
  /\ current = None
  /\ remote = [c \in Checkouts |-> [state |-> "none", plan |-> "free", end |-> 0]]
  /\ mail = [c \in Checkouts |-> <<>>]
  /\ req = [q \in Requests |-> Idle]
  /\ bought = {} /\ loaded = {}

-----------------------------------------------------------------------------
(* get_current_subscription orders by updated_at, which onupdate sets when *)
(* an UPDATE changes a column; it always does if dated, that is when it    *)
(* writes the time of day.  A current_period_end of 0 is NULL.             *)
Put(c, rec, dated) ==
  /\ sub' = [sub EXCEPT ![c] = rec]
  /\ current' = IF rec = sub[c] /\ ~dated THEN current ELSE c
Write(c, rec, dated) == Put(c, rec, dated) /\ loaded' = loaded \ {c}

(* workspace_has_billing_access *)
HasAccess == current # None /\ sub[current].status \in ACTIVE_SUBSCRIPTION_STATUSES

Expired == HasAccess /\ sub[current].end # 0 /\ sub[current].end < now

(* get_workspace_plan cancels an expired subscription when it is asked.    *)
ExpireOnTheFly ==
  IF Expired THEN Write(current, [sub[current] EXCEPT !.status = "canceled"], FALSE)
  ELSE UNCHANGED db

-----------------------------------------------------------------------------
(* The webhooks of Stripe, as its adapter parses them.                     *)

Kinds == {"completed", "created", "updated", "payment_failed", "deleted"}

(* checkout.session.completed alone names the checkout, and has no period; *)
(* all but invoices carry the metadata: the workspace and the plan.  Each  *)
(* checkout has its own subscription (and customer, which thus finds the   *)
(* same rows), named after the checkout here.                              *)
EventPlanDefaults(c) == "starter"
EventPlan(c) == remote[c].plan
Event(c, kind, end) ==
  [kind |-> kind,
   checkout |-> IF kind = "completed" THEN c ELSE None,
   psub |-> c,
   ws |-> kind # "payment_failed",
   plan |-> EventPlan(c),
   end |-> IF kind = "completed" THEN 0 ELSE end]

Notify(c, kinds, end) ==
  mail' = [mail EXCEPT ![c] = @ \o [i \in DOMAIN kinds |-> Event(c, kinds[i], end)]]

SendsWebhooks == provider = "stripe"

(* The user pays for an opened checkout, or confirms a card for Free.      *)
Pay(c) ==
  /\ SendsWebhooks /\ remote[c].state = "opened" /\ sub[c].status # "absent"
  /\ bought' = bought \cup {remote[c].plan}
  /\ IF remote[c].plan = "free"
     THEN /\ remote' = [remote EXCEPT ![c].state = "card"]
          /\ Notify(c, <<"completed">>, 0)
     ELSE /\ remote' = [remote EXCEPT ![c].state = "live", ![c].end = now + Month]
          /\ Notify(c, <<"completed", "created">>, now + Month)
  /\ UNCHANGED <<provider, now, db, req>>

(* When a period ends it is renewed or the payment fails, ... *)
Renew(c) ==
  /\ SendsWebhooks /\ remote[c].state \in {"live", "past_due"} /\ now = remote[c].end
  /\ remote' = [remote EXCEPT ![c].state = "live", ![c].end = now + Month]
  /\ Notify(c, <<"updated">>, now + Month)
  /\ UNCHANGED <<provider, now, db, req, bought>>

PaymentFails(c) ==
  /\ SendsWebhooks /\ remote[c].state = "live" /\ now = remote[c].end
  /\ remote' = [remote EXCEPT ![c].state = "past_due"]
  /\ Notify(c, <<"payment_failed">>, 0)
  /\ UNCHANGED <<provider, now, db, req, bought>>

(* ... and an unpaid subscription is ended by the provider itself.         *)
GiveUp(c) ==
  /\ SendsWebhooks /\ remote[c].state = "past_due"
  /\ remote' = [remote EXCEPT ![c].state = "ended"]
  /\ Notify(c, <<"deleted">>, 0)
  /\ UNCHANGED <<provider, now, db, req, bought>>

Tomorrow ==
  /\ now < MaxTime /\ now' = now + 1
  /\ \A c \in Checkouts : remote[c].state = "live" /\ SendsWebhooks => now # remote[c].end
  /\ UNCHANGED <<provider, db, remote, mail, req, bought>>

-----------------------------------------------------------------------------
(* apply_billing_webhook *)

Present == {c \in Checkouts : sub[c].status # "absent"}
ByCheckout(e) == {c \in Present : c = e.checkout}
BySubscription(e) == {c \in Present : sub[c].psub = e.psub}
OfWorkspace(e) == IF e.ws /\ current # None THEN {current} ELSE {}

(* The row an event is about: the first kind of match that exists.         *)
MatchesWorkspaceFirst(e) ==
  IF ByCheckout(e) # {} THEN ByCheckout(e)
  ELSE IF OfWorkspace(e) # {} THEN OfWorkspace(e) ELSE BySubscription(e)
Matches(e) ==
  IF ByCheckout(e) # {} THEN ByCheckout(e)
  ELSE IF BySubscription(e) # {} THEN BySubscription(e) ELSE OfWorkspace(e)

ActivatedBackwards(c, e) ==
  [status |-> "active", plan |-> e.plan, psub |-> e.psub,
   end |-> IF e.plan = "free" THEN 0 ELSE IF e.end # 0 THEN e.end ELSE now - Month]
Activated(c, e) ==
  [status |-> "active", plan |-> e.plan, psub |-> e.psub,
   end |-> IF e.plan = "free" THEN 0 ELSE IF e.end # 0 THEN e.end ELSE now + Month]

UpdatedIgnoresDeleted(c, e) ==
  IF e.kind \in {"completed", "created", "updated"} THEN Activated(c, e)
  ELSE IF e.kind = "payment_failed" THEN [sub[c] EXCEPT !.status = "past_due"] ELSE sub[c]
Updated(c, e) ==
  IF e.kind \in {"completed", "created", "updated"} THEN Activated(c, e)
  ELSE [sub[c] EXCEPT !.status = IF e.kind = "deleted" THEN "canceled" ELSE "past_due"]

Without(s, i) == [k \in 1 .. (Len(s) - 1) |-> IF k < i THEN s[k] ELSE s[k + 1]]

(* The provider delivers until it is acknowledged: acked is FALSE when the *)
(* acknowledgement is lost, and when the webhook is refused because it has *)
(* no match and names no workspace.  (One that names the workspace has one *)
(* of its rows to match: a checkout is saved before it can be paid.)       *)
Apply(e) == \E r \in Matches(e) : Write(r, Updated(r, e), e.kind = "completed" /\ e.plan # "free")
Refused(e) == Matches(e) = {} /\ ~e.ws
Deliver(c, i, acked) ==
  LET e == mail[c][i] IN
  /\ i \in DOMAIN mail[c] /\ (InOrder => i = 1)
  /\ \/ Apply(e)
     \/ Refused(e) /\ ~acked /\ UNCHANGED db
  /\ mail' = IF acked THEN [mail EXCEPT ![c] = Without(@, i)] ELSE mail
  /\ UNCHANGED <<provider, now, remote, req, bought>>

-----------------------------------------------------------------------------
(* Requests. *)

At(q, p) == req[q].pc = p
Step(q, p, row) == req' = [req EXCEPT ![q].pc = p, ![q].row = row]

(* StripeBillingAdapter.create_checkout: the checkout carries the plan, as *)
(* metadata that the webhooks repeat; the mock provider keeps it likewise. *)
Opened(c, plan) == [remote EXCEPT ![c].state = "opened", ![c].plan = plan]

(* create_checkout_session: the provider opens it, then the row is saved.  *)
(* Only the answer that follows tells the user where to pay.               *)
OpenCheckout(q, c, plan) ==
  /\ At(q, "idle") /\ remote[c].state = "none"
  /\ remote' = Opened(c, plan)
  /\ req' = [req EXCEPT ![q] = [Idle EXCEPT !.pc = "checkout", !.row = c, !.plan = plan]]
  /\ UNCHANGED <<provider, now, db, mail, bought>>

SaveCheckout(q) ==
  LET c == req[q].row IN
  /\ At(q, "checkout")
  /\ Write(c, [status |-> "checkout_pending", plan |-> req[q].plan, psub |-> None, end |-> 0], TRUE)
  /\ req' = [req EXCEPT ![q] = Idle]
  /\ UNCHANGED <<provider, now, remote, mail, bought>>

(* activate_checkout_session: the address that the mock provider sends the *)
(* user to.  Whoever loads it, as often as it is loaded, has the checkout  *)
(* activated, with every provider: none is asked what became of it.  The   *)
(* customer's id that is made up here may be new to the row.               *)
Activation(c) ==
  IF sub[c].plan = "free" THEN [sub[c] EXCEPT !.status = "active", !.end = 0]
  ELSE [sub[c] EXCEPT !.psub = IF @ = None THEN MockSub ELSE @,
                      !.status = IF TrialDays > 0 THEN "trialing" ELSE "active",
                      !.end = now + IF TrialDays > 0 THEN TrialDays ELSE Month]
ActivateCheckout(c) ==
  /\ sub[c].status # "absent"
  /\ \E newCustomer \in {FALSE, SendsWebhooks} :
       Put(c, Activation(c), sub[c].plan # "free" \/ newCustomer)
  /\ IF SendsWebhooks
     THEN loaded' = loaded \cup {c} /\ UNCHANGED <<remote, bought>>
     ELSE /\ bought' = bought \cup {sub[c].plan}
          /\ remote' = [remote EXCEPT ![c].state = IF sub[c].plan = "free" THEN "card" ELSE "live"]
          /\ UNCHANGED loaded
  /\ UNCHANGED <<provider, now, mail, req>>

(* The adapter deletes the subscription at Stripe, which knows only paid   *)
(* ones that have not ended; any other answer raises, so that a row with a *)
(* made up name cannot be canceled.                                        *)
EndAtProvider(p) ==
  /\ p \in Checkouts
  /\ remote[p].state \in {"live", "past_due"}
  /\ remote' = [remote EXCEPT ![p].state = "ended"]
  /\ Notify(p, <<"deleted">>, 0)

(* cancel_current_subscription calls the provider (the mock does nothing), *)
(* unless the subscription has no name there, ...                          *)
StartCancel(q) ==
  /\ At(q, "idle") /\ current # None
  /\ sub[current].status # "canceled"
  /\ LET p == sub[current].psub IN
     \/ /\ p = None \/ ~SendsWebhooks
        /\ UNCHANGED <<remote, mail>>
     \/ p # None /\ SendsWebhooks /\ EndAtProvider(p)
  /\ Step(q, "cancel", current)
  /\ UNCHANGED <<provider, now, db, bought>>

(* ... and then the row is saved, which is all the mock provider has.      *)
SaveCancel(q) ==
  LET c == req[q].row IN
  /\ At(q, "cancel")
  /\ Write(c, [sub[c] EXCEPT !.status = "canceled", !.end = now], TRUE)
  /\ remote' = IF SendsWebhooks THEN remote ELSE [remote EXCEPT ![c].state = "ended"]
  /\ req' = [req EXCEPT ![q] = Idle]
  /\ UNCHANGED <<provider, now, mail, bought>>

(* Whoever asks for the plan: a page, a quota check, a job being created.  *)
AskForPlan ==
  /\ Expired /\ ExpireOnTheFly
  /\ UNCHANGED <<provider, now, remote, mail, req, bought>>

(* The process restarts, or the database fails, between two steps.         *)
Die(q) ==
  /\ ~At(q, "idle")
  /\ req' = [req EXCEPT ![q] = Idle]
  /\ UNCHANGED <<provider, now, db, remote, mail, bought>>

-----------------------------------------------------------------------------
Next ==
  \/ \E c \in Checkouts :
       \/ Pay(c) \/ Renew(c) \/ PaymentFails(c) \/ GiveUp(c) \/ ActivateCheckout(c)
       \/ \E i \in 1 .. Len(mail[c]), acked \in BOOLEAN : Deliver(c, i, acked)
       \/ \E q \in Requests, plan \in Offered : OpenCheckout(q, c, plan)
  \/ \E q \in Requests :
       \/ SaveCheckout(q) \/ StartCancel(q) \/ SaveCancel(q)
       \/ Die(q)
  \/ Tomorrow \/ AskForPlan

Spec == Init /\ [][Next]_vars

(* The provider repeats a webhook until it is acknowledged. *)
Fairness == \A c \in Checkouts : WF_vars(Deliver(c, 1, TRUE))

FairSpec == Spec /\ Fairness
-----------------------------------------------------------------------------
Events == [kind : Kinds, checkout : Checkouts \cup {None}, psub : Checkouts,
           ws : BOOLEAN, plan : Plans, end : Nat]

Rows == [status : Statuses, plan : Plans, psub : Checkouts \cup {None, MockSub}, end : Nat]
Remotes == [state : {"none", "opened", "card", "live", "past_due", "ended"},
            plan : Plans, end : Nat]
Reqs == [pc : {"idle"}, row : {None}, plan : {"free"}]
          \cup [pc : {"checkout", "cancel"}, row : Checkouts, plan : Plans]

(* Type invariant: a request in progress has a row. *)
TypeOK ==
  /\ provider \in Providers
  /\ now \in Nat
  /\ sub \in [Checkouts -> Rows]
  /\ current \in Checkouts \cup {None}
  /\ remote \in [Checkouts -> Remotes]
  /\ mail \in [Checkouts -> Seq(Events)]
  /\ req \in [Requests -> Reqs]
  /\ bought \subseteq Plans
  /\ loaded \subseteq Checkouts

(* get_workspace_plan never grants a plan that nobody paid for, or          *)
(* confirmed with a card, whichever row a webhook is matched with: but for  *)
(* the rows that are as activate_checkout_session left them.                *)
PlanWasBought == HasAccess => sub[current].plan \in bought \/ current \in loaded

(* apply_billing_webhook binds a subscription of the provider to one row:   *)
(* a later event about it cannot find another one.                          *)
OneRowPerSubscription ==
  \A b, c \in Present : sub[b].psub = sub[c].psub /\ sub[b].psub \in Checkouts => b = c

(* When every subscription of the workspace has ended at the provider, the  *)
(* workspace ends without billing access, whichever step of a cancellation  *)
(* a crash interrupted: but for what activate_checkout_session grants.      *)
NothingPaid == \A c \in Checkouts : remote[c].state \in {"none", "opened", "ended"}
EndsWithSubscription == <>[]NothingPaid => <>[](HasAccess => current \in loaded)

(* "Depois do teste, cadastre um cartao valido para continuar usando a      *)
(* plataforma" (templates/billing.html 27): access is for plans that were   *)
(* paid for, or confirmed with a card.  With the constants of the run       *)
(* Billing TLC refutes it.                                                  *)
AccessIsBought == HasAccess => sub[current].plan \in bought
=============================================================================

--------------------------- MODULE BillingProofs ---------------------------
(***************************************************************************)
(* Proofs about the subscription of a workspace, for any checkouts,        *)
(* requests, days and order of the webhooks.                               *)
(***************************************************************************)
EXTENDS Billing, SequenceTheorems, TLAPS

-----------------------------------------------------------------------------
(* What a webhook says, as its adapter parses it, is an event. *)
LEMMA EventType ==
  ASSUME NEW c \in Checkouts, NEW kind \in Kinds, NEW end \in Nat,
         remote \in [Checkouts -> Remotes]
  PROVE  Event(c, kind, end) \in Events
BY DEF Event, EventPlan, Events, Remotes, Plans

(* New webhooks are queued behind the old ones. *)
LEMMA NotifyType ==
  ASSUME NEW c \in Checkouts, NEW kinds \in Seq(Kinds), NEW end \in Nat,
         remote \in [Checkouts -> Remotes], mail \in [Checkouts -> Seq(Events)],
         Notify(c, kinds, end)
  PROVE  mail' \in [Checkouts -> Seq(Events)]
<1> DEFINE es == [i \in DOMAIN kinds |-> Event(c, kinds[i], end)]
<1>1. es \in Seq(Events)
  <2>1. kinds \in [1 .. Len(kinds) -> Kinds] /\ Len(kinds) \in Nat /\ DOMAIN kinds = 1 .. Len(kinds)
    OBVIOUS
  <2>2. \A i \in 1 .. Len(kinds) : Event(c, kinds[i], end) \in Events
    BY <2>1, EventType
  <2>3. es \in [1 .. Len(kinds) -> Events]
    BY <2>1, <2>2
  <2> QED BY <2>1, <2>3
<1>2. mail[c] \o es \in Seq(Events)
  BY <1>1
<1> QED BY <1>2 DEF Notify

(* An acknowledged webhook leaves the queue, and nothing enters it. *)
LEMMA WithoutType ==
  ASSUME NEW s \in Seq(Events), NEW i \in DOMAIN s
  PROVE  /\ Without(s, i) \in Seq(Events)
         /\ \A k \in DOMAIN Without(s, i) : \E l \in DOMAIN s : Without(s, i)[k] = s[l]
<1>1. \A k \in 1 .. (Len(s) - 1) : k \in DOMAIN s /\ k + 1 \in DOMAIN s
  OBVIOUS
<1>2. Len(s) - 1 \in Nat
  OBVIOUS
<1>3. \A k \in 1 .. (Len(s) - 1) : (IF k < i THEN s[k] ELSE s[k + 1]) \in Events
  BY <1>1
<1>4. Without(s, i) \in [1 .. (Len(s) - 1) -> Events]
  BY <1>3 DEF Without
<1>5. Without(s, i) \in Seq(Events)
  BY <1>2, <1>4
<1>6. \A k \in DOMAIN Without(s, i) : \E l \in DOMAIN s : Without(s, i)[k] = s[l]
  BY <1>1 DEF Without
<1> QED BY <1>5, <1>6

(* What a row becomes is again a row. *)
LEMMA UpdatedType ==
  ASSUME BillingAssumption, TypeOK, NEW c \in Checkouts, NEW e \in Events
  PROVE  Updated(c, e) \in Rows
<1>1. sub[c] \in Rows
  BY DEF TypeOK, Rows
<1>2. CASE e.kind \in {"completed", "created", "updated"}
  BY <1>2 DEF Updated, Activated, Rows, Events, Statuses, Plans, TypeOK, BillingAssumption
<1>3. CASE e.kind \notin {"completed", "created", "updated"}
  BY <1>1, <1>3 DEF Updated, Rows, Statuses
<1> QED BY <1>2, <1>3

(* Write changes one row, which may become the current one. *)
LEMMA WriteType ==
  ASSUME TypeOK, NEW c \in Checkouts, NEW rec \in Rows, NEW dated, Write(c, rec, dated)
  PROVE  /\ sub' \in [Checkouts -> Rows] /\ current' \in Checkouts \cup {None}
         /\ loaded' \subseteq Checkouts
BY DEF TypeOK, Put, Write, Rows

(* What a completion address makes of a row is a row with its plan.        *)
LEMMA ActivationType ==
  ASSUME BillingAssumption, TypeOK, NEW c \in Checkouts
  PROVE  /\ Activation(c) \in Rows /\ Activation(c).plan = sub[c].plan
         /\ Activation(c).status \in ACTIVE_SUBSCRIPTION_STATUSES
         /\ Activation(c).psub \in {sub[c].psub, MockSub}
         /\ sub[c].psub # None => Activation(c).psub = sub[c].psub
<1>1. sub[c] \in Rows /\ now \in Nat /\ TrialDays \in Nat /\ Month \in Nat
  BY DEF TypeOK, BillingAssumption
<1>2. CASE sub[c].plan = "free"
  <2>1. PICK rec : rec = [sub[c] EXCEPT !.status = "active", !.end = 0]
    OBVIOUS
  <2>2. Activation(c) = rec
    BY <1>2, <2>1 DEF Activation
  <2>3. rec \in Rows /\ rec.plan = sub[c].plan /\ rec.status = "active" /\ rec.psub = sub[c].psub
    BY <1>1, <2>1 DEF Rows, Statuses
  <2> QED BY <2>2, <2>3 DEF ACTIVE_SUBSCRIPTION_STATUSES
<1>3. CASE sub[c].plan # "free"
  <2>1. PICK status, end, name :
          /\ status = IF TrialDays > 0 THEN "trialing" ELSE "active"
          /\ end = now + IF TrialDays > 0 THEN TrialDays ELSE Month
          /\ name = IF sub[c].psub = None THEN MockSub ELSE sub[c].psub
    OBVIOUS
  <2>2. status \in {"trialing", "active"} /\ end \in Nat /\ name \in {sub[c].psub, MockSub}
    BY <1>1, <2>1
  <2>3. PICK rec : rec = [sub[c] EXCEPT !.psub = name, !.status = status, !.end = end]
    OBVIOUS
  <2>4. Activation(c) = rec
    BY <1>3, <2>1, <2>3 DEF Activation
  <2>5. rec.plan = sub[c].plan /\ rec.status = status /\ rec.psub = name /\ rec \in Rows
    BY <1>1, <2>2, <2>3 DEF Rows, Statuses
  <2> QED BY <2>1, <2>2, <2>4, <2>5 DEF ACTIVE_SUBSCRIPTION_STATUSES
<1> QED BY <1>2, <1>3

(* A webhook is matched with rows that exist. *)
LEMMA MatchesPresent ==
  ASSUME TypeOK, NEW e \in Events
  PROVE  Matches(e) \subseteq Checkouts
BY DEF TypeOK, Matches, ByCheckout, BySubscription, OfWorkspace, Present
-----------------------------------------------------------------------------
(* What an action assigns in remote. *)
LEMMA SetRemote ==
  ASSUME remote \in [Checkouts -> Remotes], NEW c \in Checkouts, NEW plan \in Plans, NEW end \in Nat,
         NEW state \in {"none", "opened", "card", "live", "past_due", "ended"}
  PROVE  /\ [remote EXCEPT ![c].state = state] \in [Checkouts -> Remotes]
         /\ [remote EXCEPT ![c].state = state, ![c].plan = plan] \in [Checkouts -> Remotes]
         /\ [remote EXCEPT ![c].state = state, ![c].end = end] \in [Checkouts -> Remotes]
<1>1. remote[c] \in Remotes
  OBVIOUS
<1>2. [remote[c] EXCEPT !.state = state] \in Remotes
  BY <1>1 DEF Remotes
<1>3. [remote[c] EXCEPT !.state = state, !.plan = plan] \in Remotes
  BY <1>1 DEF Remotes
<1>4. [remote[c] EXCEPT !.state = state, !.end = end] \in Remotes
  BY <1>1 DEF Remotes
<1>5. /\ [remote EXCEPT ![c] = [remote[c] EXCEPT !.state = state]] \in [Checkouts -> Remotes]
      /\ [remote EXCEPT ![c] = [remote[c] EXCEPT !.state = state, !.plan = plan]] \in [Checkouts -> Remotes]
      /\ [remote EXCEPT ![c] = [remote[c] EXCEPT !.state = state, !.end = end]] \in [Checkouts -> Remotes]
  BY <1>2, <1>3, <1>4
<1>6. [remote EXCEPT ![c].state = state] = [remote EXCEPT ![c] = [remote[c] EXCEPT !.state = state]]
  OBVIOUS
<1>7. [remote EXCEPT ![c].state = state, ![c].plan = plan]
        = [remote EXCEPT ![c] = [remote[c] EXCEPT !.state = state, !.plan = plan]]
  OBVIOUS
<1>8. [remote EXCEPT ![c].state = state, ![c].end = end]
        = [remote EXCEPT ![c] = [remote[c] EXCEPT !.state = state, !.end = end]]
  OBVIOUS
<1> QED BY <1>5, <1>6, <1>7, <1>8

(* Nobody has opened a checkout yet. *)
LEMMA InitTypeOK == BillingAssumption /\ Init => TypeOK
<1> SUFFICES ASSUME BillingAssumption, Init PROVE TypeOK
  OBVIOUS
<1>1. mail \in [Checkouts -> Seq(Events)]
  BY DEF Init
<1>2. Absent \in Rows /\ [state |-> "none", plan |-> "free", end |-> 0] \in Remotes /\ Idle \in Reqs
  BY DEF Absent, Rows, Remotes, Idle, Reqs, Statuses, Plans
<1>3. /\ sub \in [Checkouts -> Rows] /\ remote \in [Checkouts -> Remotes]
      /\ req \in [Requests -> Reqs]
  BY <1>2 DEF Init
<1> QED BY <1>1, <1>3 DEF Init, TypeOK

(* Every action keeps the types; a row is written by Write only. *)
LEMMA NextTypeOK == BillingAssumption /\ TypeOK /\ [Next]_vars => TypeOK'
<1> SUFFICES ASSUME BillingAssumption, TypeOK, [Next]_vars PROVE TypeOK'
  OBVIOUS
<1>t. /\ sub \in [Checkouts -> Rows] /\ remote \in [Checkouts -> Remotes]
      /\ req \in [Requests -> Reqs] /\ mail \in [Checkouts -> Seq(Events)]
      /\ current \in Checkouts \cup {None} /\ now \in Nat /\ Month \in Nat /\ TrialDays \in Nat
      /\ provider \in Providers /\ bought \subseteq Plans /\ loaded \subseteq Checkouts
  BY DEF TypeOK, BillingAssumption
<1>q. ASSUME /\ sub' \in [Checkouts -> Rows] /\ remote' \in [Checkouts -> Remotes]
             /\ req' \in [Requests -> Reqs] /\ mail' \in [Checkouts -> Seq(Events)]
             /\ current' \in Checkouts \cup {None} /\ now' \in Nat
             /\ provider' \in Providers /\ bought' \subseteq Plans /\ loaded' \subseteq Checkouts
      PROVE  TypeOK'
  BY <1>q DEF TypeOK
<1>1. ASSUME NEW c \in Checkouts, Pay(c) PROVE TypeOK'
  <2>1. remote[c].plan \in Plans
    BY <1>t DEF Remotes
  <2>2. remote' \in [Checkouts -> Remotes]
    <3>1. CASE remote[c].plan = "free"
      <4>1. remote' = [remote EXCEPT ![c].state = "card"]
        BY <1>1, <3>1 DEF Pay
      <4> QED BY <4>1, <2>1, <1>t, SetRemote
    <3>2. CASE remote[c].plan # "free"
      <4>1. remote' = [remote EXCEPT ![c].state = "live", ![c].end = now + Month]
        BY <1>1, <3>2 DEF Pay
      <4>2. now + Month \in Nat
        BY <1>t
      <4> QED BY <4>1, <4>2, <2>1, <1>t, SetRemote
    <3> QED BY <3>1, <3>2
  <2>3. mail' \in [Checkouts -> Seq(Events)]
    <3>1. CASE remote[c].plan = "free"
      <4>1. <<"completed">> \in Seq(Kinds) /\ 0 \in Nat
        BY DEF Kinds
      <4> QED BY <1>1, <3>1, <4>1, <1>t, NotifyType DEF Pay
    <3>2. CASE remote[c].plan # "free"
      <4>1. <<"completed", "created">> \in Seq(Kinds) /\ now + Month \in Nat
        BY <1>t DEF Kinds
      <4> QED BY <1>1, <3>2, <4>1, <1>t, NotifyType DEF Pay
    <3> QED BY <3>1, <3>2
  <2> QED BY <1>1, <1>q, <1>t, <2>1, <2>2, <2>3 DEF Pay, db
<1>2. ASSUME NEW c \in Checkouts, Renew(c) PROVE TypeOK'
  <2>1. <<"updated">> \in Seq(Kinds) /\ now + Month \in Nat
    BY <1>t DEF Kinds
  <2>2. mail' \in [Checkouts -> Seq(Events)]
    BY <1>2, <2>1, <1>t, NotifyType DEF Renew
  <2>3. remote' \in [Checkouts -> Remotes]
    <3>1. remote' = [remote EXCEPT ![c].state = "live", ![c].end = now + Month] /\ "free" \in Plans
      BY <1>2 DEF Renew, Plans
    <3> QED BY <3>1, <2>1, <1>t, SetRemote
  <2> QED BY <1>2, <1>q, <1>t, <2>2, <2>3 DEF Renew, db
<1>3. ASSUME NEW c \in Checkouts, PaymentFails(c) PROVE TypeOK'
  <2>1. <<"payment_failed">> \in Seq(Kinds) /\ 0 \in Nat
    BY DEF Kinds
  <2>2. mail' \in [Checkouts -> Seq(Events)]
    BY <1>3, <2>1, <1>t, NotifyType DEF PaymentFails
  <2>3. remote' \in [Checkouts -> Remotes]
    <3>1. remote' = [remote EXCEPT ![c].state = "past_due"] /\ "free" \in Plans
      BY <1>3 DEF PaymentFails, Plans
    <3> QED BY <3>1, <2>1, <1>t, SetRemote
  <2> QED BY <1>3, <1>q, <1>t, <2>2, <2>3 DEF PaymentFails, db
<1>4. ASSUME NEW c \in Checkouts, GiveUp(c) PROVE TypeOK'
  <2>1. <<"deleted">> \in Seq(Kinds) /\ 0 \in Nat
    BY DEF Kinds
  <2>2. mail' \in [Checkouts -> Seq(Events)]
    BY <1>4, <2>1, <1>t, NotifyType DEF GiveUp
  <2>3. remote' \in [Checkouts -> Remotes]
    <3>1. remote' = [remote EXCEPT ![c].state = "ended"] /\ "free" \in Plans
      BY <1>4 DEF GiveUp, Plans
    <3> QED BY <3>1, <2>1, <1>t, SetRemote
  <2> QED BY <1>4, <1>q, <1>t, <2>2, <2>3 DEF GiveUp, db
<1>5. ASSUME NEW c \in Checkouts, ActivateCheckout(c) PROVE TypeOK'
  <2>1. sub[c] \in Rows /\ sub[c].plan \in Plans
    BY <1>t DEF Rows
  <2>2. PICK rec, dated : rec \in Rows /\ Put(c, rec, dated)
    BY <1>5, ActivationType, BillingAssumption DEF ActivateCheckout
  <2>3. sub' \in [Checkouts -> Rows] /\ current' \in Checkouts \cup {None}
    BY <1>t, <2>2 DEF Put
  <2>4. remote' \in [Checkouts -> Remotes] /\ bought' \subseteq Plans /\ loaded' \subseteq Checkouts
    <3>1. CASE SendsWebhooks
      BY <1>5, <1>t, <3>1 DEF ActivateCheckout
    <3>2. CASE ~SendsWebhooks
      <4>1. PICK state : state = IF sub[c].plan = "free" THEN "card" ELSE "live"
        OBVIOUS
      <4>2. remote' = [remote EXCEPT ![c].state = state]
        BY <1>5, <3>2, <4>1 DEF ActivateCheckout
      <4>3. state \in {"card", "live"} /\ 0 \in Nat
        BY <4>1
      <4>4. remote' \in [Checkouts -> Remotes]
        BY <4>2, <4>3, <2>1, <1>t, SetRemote
      <4> QED BY <1>5, <1>t, <2>1, <3>2, <4>4 DEF ActivateCheckout
    <3> QED BY <3>1, <3>2
  <2> QED BY <1>5, <1>q, <1>t, <2>3, <2>4 DEF ActivateCheckout
<1>6. ASSUME NEW c \in Checkouts, NEW i \in 1 .. Len(mail[c]), NEW acked \in BOOLEAN,
             Deliver(c, i, acked)
      PROVE  TypeOK'
  <2>1. mail[c] \in Seq(Events) /\ i \in DOMAIN mail[c] /\ mail[c][i] \in Events
    BY <1>t
  <2>2. /\ sub' \in [Checkouts -> Rows] /\ current' \in Checkouts \cup {None}
        /\ loaded' \subseteq Checkouts
    <3>1. CASE \E r \in Matches(mail[c][i]) : \E dated \in BOOLEAN :
                 Write(r, Updated(r, mail[c][i]), dated)
      <4>1. PICK r \in Checkouts, dated \in BOOLEAN : Write(r, Updated(r, mail[c][i]), dated)
        BY <3>1, <2>1, MatchesPresent
      <4>2. Updated(r, mail[c][i]) \in Rows
        BY <2>1, UpdatedType
      <4> QED BY <4>1, <4>2, WriteType
    <3>2. CASE UNCHANGED db
      BY <3>2, <1>t DEF db
    <3> QED BY <1>6, <3>1, <3>2 DEF Deliver, Apply, Refused
  <2>3. mail' \in [Checkouts -> Seq(Events)]
    <3>1. Without(mail[c], i) \in Seq(Events)
      BY <2>1, WithoutType
    <3> QED BY <1>6, <1>t, <3>1 DEF Deliver, Apply, Refused
  <2> QED BY <1>6, <1>q, <1>t, <2>2, <2>3 DEF Deliver, Apply, Refused
<1>7. ASSUME NEW c \in Checkouts, NEW q \in Requests, NEW plan \in Offered, OpenCheckout(q, c, plan)
      PROVE  TypeOK'
  <2>1. remote' \in [Checkouts -> Remotes]
    <3>1. remote' = [remote EXCEPT ![c].state = "opened", ![c].plan = plan] /\ 0 \in Nat /\ plan \in Plans
      BY <1>7, BillingAssumption DEF OpenCheckout, Opened
    <3> QED BY <3>1, <1>t, SetRemote
  <2>2. [Idle EXCEPT !.pc = "checkout", !.row = c, !.plan = plan] \in Reqs
    BY BillingAssumption DEF Idle, Reqs
  <2>3. req' \in [Requests -> Reqs]
    BY <1>7, <1>t, <2>2 DEF OpenCheckout, Opened
  <2> QED BY <1>7, <1>q, <1>t, <2>1, <2>3 DEF OpenCheckout, Opened, db
<1>8. ASSUME NEW q \in Requests, SaveCheckout(q) PROVE TypeOK'
  <2> DEFINE rec == [status |-> "checkout_pending", plan |-> req[q].plan, psub |-> None, end |-> 0]
  <2>0. req[q].row \in Checkouts /\ req[q].plan \in Plans
    BY <1>8, <1>t DEF SaveCheckout, At, Reqs
  <2>1. rec \in Rows
    BY <2>0 DEF Rows, Statuses
  <2>2. req' \in [Requests -> Reqs]
    BY <1>8, <1>t DEF SaveCheckout, Idle, Reqs, Plans
  <2>3. /\ sub' \in [Checkouts -> Rows] /\ current' \in Checkouts \cup {None}
        /\ loaded' \subseteq Checkouts
    BY <1>8, <2>0, <2>1, WriteType DEF SaveCheckout
  <2> QED BY <1>8, <1>q, <1>t, <2>2, <2>3 DEF SaveCheckout
<1>9. ASSUME NEW q \in Requests, StartCancel(q) PROVE TypeOK'
  <2>1. current \in Checkouts
    BY <1>9, <1>t DEF StartCancel, EndAtProvider
  <2>2. remote' \in [Checkouts -> Remotes] /\ mail' \in [Checkouts -> Seq(Events)]
    <3> DEFINE p == sub[current].psub
    <3>1. CASE UNCHANGED <<remote, mail>>
      BY <3>1, <1>t
    <3>2. CASE /\ p \in Checkouts
               /\ remote' = [remote EXCEPT ![p].state = "ended"]
               /\ Notify(p, <<"deleted">>, 0)
      <4>1. p \in Checkouts
        BY <3>2
      <4>2. <<"deleted">> \in Seq(Kinds) /\ 0 \in Nat /\ "free" \in Plans
        BY DEF Kinds, Plans
      <4> HIDE DEF p
      <4>3. mail' \in [Checkouts -> Seq(Events)]
        BY <3>2, <4>1, <4>2, <1>t, NotifyType
      <4>4. remote' \in [Checkouts -> Remotes]
        BY <3>2, <4>1, <4>2, <1>t, SetRemote
      <4> QED BY <4>3, <4>4
    <3> QED BY <1>9, <3>1, <3>2 DEF StartCancel, EndAtProvider
  <2>3. req' \in [Requests -> Reqs]
    <3>1. [req[q] EXCEPT !.pc = "cancel", !.row = current] \in Reqs
      <4>1. req[q] \in [pc : {"idle"}, row : {None}, plan : {"free"}]
        BY <1>9, <1>t DEF StartCancel, EndAtProvider, At, Reqs
      <4> QED BY <4>1, <2>1 DEF Reqs, Plans
    <3>2. req' = [req EXCEPT ![q] = [req[q] EXCEPT !.pc = "cancel", !.row = current]]
      BY <1>9 DEF StartCancel, EndAtProvider, Step
    <3> QED BY <3>1, <3>2, <1>t
  <2> QED BY <1>9, <1>q, <1>t, <2>2, <2>3 DEF StartCancel, EndAtProvider, db
<1>10. ASSUME NEW q \in Requests, SaveCancel(q) PROVE TypeOK'
  <2> DEFINE c == req[q].row
             rec == [sub[c] EXCEPT !.status = "canceled", !.end = now]
  <2>1. c \in Checkouts
    BY <1>10, <1>t DEF SaveCancel, At, Reqs
  <2>2. rec \in Rows
    <3>1. sub[c] \in Rows /\ now \in Nat
      BY <2>1, <1>t
    <3> HIDE DEF c
    <3> QED BY <3>1 DEF Rows, Statuses
  <2>3. /\ sub' \in [Checkouts -> Rows] /\ current' \in Checkouts \cup {None}
        /\ loaded' \subseteq Checkouts
    <3>1. Write(c, rec, TRUE)
      BY <1>10 DEF SaveCancel
    <3> HIDE DEF c, rec
    <3> QED BY <2>1, <2>2, <3>1, WriteType
  <2>4. remote' \in [Checkouts -> Remotes]
    <3>1. remote' = remote \/ remote' = [remote EXCEPT ![c].state = "ended"]
      BY <1>10 DEF SaveCancel
    <3>2. "free" \in Plans /\ 0 \in Nat
      BY DEF Plans
    <3> HIDE DEF c
    <3>3. [remote EXCEPT ![c].state = "ended"] \in [Checkouts -> Remotes]
      BY <2>1, <3>2, <1>t, SetRemote
    <3> QED BY <3>1, <3>3, <1>t
  <2>5. req' \in [Requests -> Reqs]
    BY <1>10, <1>t DEF SaveCancel, Idle, Reqs
  <2> QED BY <1>10, <1>q, <1>t, <2>3, <2>4, <2>5 DEF SaveCancel
<1>11. ASSUME NEW q \in Requests, Die(q) PROVE TypeOK'
  <2>1. req' \in [Requests -> Reqs]
    BY <1>11, <1>t DEF Die, Idle, Reqs
  <2> QED BY <1>11, <1>q, <1>t, <2>1 DEF Die, db
<1>12. CASE Tomorrow
  BY <1>12, <1>q, <1>t DEF Tomorrow, db
<1>13. CASE AskForPlan
  <2>1. current \in Checkouts
    BY <1>13, <1>t DEF AskForPlan, Expired, HasAccess
  <2>2. [sub[current] EXCEPT !.status = "canceled"] \in Rows
    <3>1. sub[current] \in Rows
      BY <2>1, <1>t
    <3> QED BY <3>1 DEF Rows, Statuses
  <2>3. /\ sub' \in [Checkouts -> Rows] /\ current' \in Checkouts \cup {None}
        /\ loaded' \subseteq Checkouts
    BY <1>13, <2>1, <2>2, WriteType DEF AskForPlan, ExpireOnTheFly
  <2> QED BY <1>13, <1>q, <1>t, <2>3 DEF AskForPlan
<1>14. CASE UNCHANGED vars
  BY <1>14, <1>q, <1>t DEF vars, db
<1> QED BY <1>1, <1>2, <1>3, <1>4, <1>5, <1>6, <1>7, <1>8, <1>9, <1>10, <1>11, <1>12, <1>13,
           <1>14 DEF Next

(* Type correctness: in particular every request in progress has a row.    *)
THEOREM BillingTypeCorrect == Spec => []TypeOK
<1>1. Init => TypeOK
  BY BillingAssumption, InitTypeOK
<1>2. TypeOK /\ [Next]_vars => TypeOK'
  BY BillingAssumption, NextTypeOK
<1> QED BY <1>1, <1>2, PTL DEF Spec

-----------------------------------------------------------------------------
(* A plan that a row could grant was bought, unless the row is as its      *)
(* completion address left it, and so was every plan that an activating    *)
(* webhook on its way, or a later renewal, could put in a row.             *)
Activating == {"completed", "created", "updated"}
RowsAreBought == \A c \in Checkouts :
  sub[c].status \in ACTIVE_SUBSCRIPTION_STATUSES => sub[c].plan \in bought \/ c \in loaded
RemoteIsBought == \A c \in Checkouts :
  SendsWebhooks /\ remote[c].state \in {"card", "live", "past_due"} => remote[c].plan \in bought
MailIsBought == \A c \in Checkouts : \A i \in DOMAIN mail[c] :
  mail[c][i].kind \in Activating => mail[c][i].plan \in bought
Bought == RowsAreBought /\ RemoteIsBought /\ MailIsBought

(* New webhooks about plans that were bought, if they activate anything.   *)
LEMMA NotifyBought ==
  ASSUME TypeOK, MailIsBought, NEW c \in Checkouts, NEW kinds \in Seq(Kinds), NEW end,
         Notify(c, kinds, end), bought \subseteq bought',
         (\E i \in DOMAIN kinds : kinds[i] \in Activating) => remote[c].plan \in bought'
  PROVE  MailIsBought'
<1> SUFFICES ASSUME NEW d \in Checkouts, NEW i \in DOMAIN mail'[d], mail'[d][i].kind \in Activating
             PROVE  mail'[d][i].plan \in bought'
  BY DEF MailIsBought
<1>1. mail[d] \in Seq(Events) /\ mail[c] \in Seq(Events)
  BY DEF TypeOK
<1>2. CASE d # c
  <2>1. mail'[d] = mail[d]
    BY <1>2 DEF Notify, TypeOK
  <2> QED BY <2>1 DEF MailIsBought
<1>3. CASE d = c
  <2> DEFINE es == [k \in DOMAIN kinds |-> Event(c, kinds[k], end)]
  <2>1. mail'[c] = mail[c] \o es
    BY DEF Notify, TypeOK
  <2>2. /\ DOMAIN kinds = 1 .. Len(kinds) /\ Len(kinds) \in Nat
        /\ es \in Seq({Event(c, kinds[k], end) : k \in DOMAIN kinds}) /\ Len(es) = Len(kinds)
    OBVIOUS
  <2>3. CASE i \in 1 .. Len(mail[c])
    <3>1. mail'[c][i] = mail[c][i] /\ i \in DOMAIN mail[c]
      BY <2>1, <2>2, <2>3, <1>1
    <3> QED BY <1>3, <3>1 DEF MailIsBought
  <2>4. CASE i \notin 1 .. Len(mail[c])
    <3>1. i - Len(mail[c]) \in DOMAIN kinds /\ mail'[c][i] = es[i - Len(mail[c])]
      BY <2>1, <2>2, <2>4, <1>1, <1>3
    <3>2. PICK k \in DOMAIN kinds : mail'[c][i] = Event(c, kinds[k], end)
      BY <3>1
    <3> QED BY <1>3, <3>2 DEF Event, EventPlan
  <2> QED BY <2>3, <2>4
<1> QED BY <1>2, <1>3

(* A row may become active with a plan that was bought. *)
LEMMA WriteBought ==
  ASSUME TypeOK, RowsAreBought, NEW c \in Checkouts, NEW rec, NEW dated, Write(c, rec, dated),
         bought \subseteq bought',
         rec.status \in ACTIVE_SUBSCRIPTION_STATUSES => rec.plan \in bought'
  PROVE  RowsAreBought'
BY DEF TypeOK, RowsAreBought, Put, Write

(* There is no row, no subscription and no webhook. *)
LEMMA InitBought == Init => Bought
BY DEF Init, Bought, RowsAreBought, RemoteIsBought, MailIsBought, Absent,
       ACTIVE_SUBSCRIPTION_STATUSES

(* Plans enter rows from webhooks, those from the provider, that from Pay. *)
LEMMA NextBought == BillingAssumption /\ TypeOK /\ Bought /\ [Next]_vars => Bought'
<1> SUFFICES ASSUME BillingAssumption, TypeOK, Bought, [Next]_vars PROVE Bought'
  OBVIOUS
<1>t. /\ sub \in [Checkouts -> Rows] /\ remote \in [Checkouts -> Remotes]
      /\ req \in [Requests -> Reqs] /\ mail \in [Checkouts -> Seq(Events)]
      /\ current \in Checkouts \cup {None}
  BY DEF TypeOK
<1>b. RowsAreBought /\ RemoteIsBought /\ MailIsBought
  BY DEF Bought
<1>q. ASSUME RowsAreBought', RemoteIsBought', MailIsBought' PROVE Bought'
  BY <1>q DEF Bought
<1>1. ASSUME NEW c \in Checkouts, Pay(c) PROVE Bought'
  <2>1. bought' = bought \cup {remote[c].plan}
    BY <1>1 DEF Pay
  <2>2. RowsAreBought'
    BY <1>1, <1>b, <2>1 DEF Pay, db, RowsAreBought
  <2>3. RemoteIsBought'
    <3>1. \A d \in Checkouts : /\ remote'[d].plan = remote[d].plan
                             /\ (d # c => remote'[d].state = remote[d].state)
      BY <1>1, <1>t DEF Pay, Remotes
    <3> QED BY <1>1, <1>b, <2>1, <3>1 DEF RemoteIsBought, SendsWebhooks, Pay
  <2>4. MailIsBought'
    <3>1. <<"completed">> \in Seq(Kinds) /\ <<"completed", "created">> \in Seq(Kinds)
      BY DEF Kinds
    <3>2. PICK kinds \in Seq(Kinds), end \in {0, now + Month} : Notify(c, kinds, end)
      BY <1>1, <3>1 DEF Pay
    <3> QED BY <1>b, <2>1, <3>2, NotifyBought
  <2> QED BY <1>q, <2>2, <2>3, <2>4
<1>2. ASSUME NEW c \in Checkouts, Renew(c) PROVE Bought'
  <2>1. remote[c].plan \in bought /\ bought' = bought
    BY <1>2, <1>b DEF Renew, RemoteIsBought
  <2>2. <<"updated">> \in Seq(Kinds)
    BY DEF Kinds
  <2>3. MailIsBought'
    BY <1>2, <1>b, <2>1, <2>2, NotifyBought DEF Renew
  <2>4. RemoteIsBought'
    <3>1. \A d \in Checkouts : /\ remote'[d].plan = remote[d].plan
                             /\ (d # c => remote'[d].state = remote[d].state)
      BY <1>2, <1>t DEF Renew, Remotes
    <3> QED BY <1>2, <1>b, <2>1, <3>1 DEF RemoteIsBought, SendsWebhooks, Renew
  <2> QED BY <1>2, <1>b, <1>q, <2>3, <2>4 DEF Renew, db, RowsAreBought
<1>3. ASSUME NEW c \in Checkouts, PaymentFails(c) PROVE Bought'
  <2>1. <<"payment_failed">> \in Seq(Kinds)
        /\ ~\E i \in DOMAIN <<"payment_failed">> : <<"payment_failed">>[i] \in Activating
    BY DEF Kinds, Activating
  <2>2. MailIsBought'
    BY <1>3, <1>b, <2>1, NotifyBought DEF PaymentFails
  <2>3. RemoteIsBought'
    <3>1. \A d \in Checkouts : /\ remote'[d].plan = remote[d].plan
                             /\ (d # c => remote'[d].state = remote[d].state)
      BY <1>3, <1>t DEF PaymentFails, Remotes
    <3> QED BY <1>3, <1>b, <3>1 DEF RemoteIsBought, SendsWebhooks, PaymentFails
  <2> QED BY <1>3, <1>b, <1>q, <2>2, <2>3 DEF PaymentFails, db, RowsAreBought
<1>4. ASSUME NEW c \in Checkouts, GiveUp(c) PROVE Bought'
  <2>1. <<"deleted">> \in Seq(Kinds)
        /\ ~\E i \in DOMAIN <<"deleted">> : <<"deleted">>[i] \in Activating
    BY DEF Kinds, Activating
  <2>2. MailIsBought'
    BY <1>4, <1>b, <2>1, NotifyBought DEF GiveUp
  <2>3. RemoteIsBought'
    <3>1. \A d \in Checkouts : /\ remote'[d].plan = remote[d].plan
                             /\ (d # c => remote'[d].state = remote[d].state)
      BY <1>4, <1>t DEF GiveUp, Remotes
    <3> QED BY <1>4, <1>b, <3>1 DEF RemoteIsBought, SendsWebhooks, GiveUp
  <2> QED BY <1>4, <1>b, <1>q, <2>2, <2>3 DEF GiveUp, db, RowsAreBought
<1>5. ASSUME NEW c \in Checkouts, ActivateCheckout(c) PROVE Bought'
  <2>1. /\ provider' = provider /\ mail' = mail /\ bought \subseteq bought' /\ loaded \subseteq loaded'
        /\ sub[c].plan \in bought' \/ c \in loaded'
        /\ SendsWebhooks => UNCHANGED <<remote, bought>>
    BY <1>5 DEF ActivateCheckout
  <2>2. PICK rec, dated : Put(c, rec, dated) /\ rec.plan = sub[c].plan
    BY <1>5, ActivationType DEF ActivateCheckout
  <2>3. sub'[c] = rec /\ \A d \in Checkouts : d # c => sub'[d] = sub[d]
    BY <1>t, <2>2 DEF Put
  <2>4. RowsAreBought'
    BY <1>b, <2>1, <2>2, <2>3 DEF RowsAreBought
  <2> QED BY <1>b, <1>q, <2>1, <2>4 DEF RemoteIsBought, SendsWebhooks, MailIsBought
<1>6. ASSUME NEW c \in Checkouts, NEW i \in 1 .. Len(mail[c]), NEW acked \in BOOLEAN,
             Deliver(c, i, acked)
      PROVE  Bought'
  <2> DEFINE e == mail[c][i]
  <2>1. /\ mail[c] \in Seq(Events) /\ i \in DOMAIN mail[c] /\ e \in Events
        /\ bought' = bought /\ remote' = remote /\ provider' = provider
    BY <1>6, <1>t DEF Deliver, Apply, Refused
  <2>2. RowsAreBought'
    <3>1. CASE \E r \in Matches(e) : \E dated \in BOOLEAN : Write(r, Updated(r, e), dated)
      <4>1. PICK r \in Checkouts, dated \in BOOLEAN : Write(r, Updated(r, e), dated)
        BY <3>1, <2>1, MatchesPresent
      <4>2. sub[r] \in Rows
        BY <1>t
      <4>3. Updated(r, e).status \in ACTIVE_SUBSCRIPTION_STATUSES => Updated(r, e).plan \in bought
        <5>1. CASE e.kind \in Activating
          <6>1. e.plan \in bought
            BY <5>1, <2>1, <1>b DEF MailIsBought
          <6> QED BY <5>1, <6>1 DEF Updated, Activated, Activating
        <5>2. CASE e.kind \notin Activating
          BY <5>2, <4>2 DEF Updated, Activating, Rows, ACTIVE_SUBSCRIPTION_STATUSES
        <5> QED BY <5>1, <5>2
      <4> HIDE DEF e
      <4> QED BY <4>1, <4>3, <2>1, <1>b, WriteBought
    <3>2. CASE UNCHANGED db
      BY <3>2, <2>1, <1>b DEF db, RowsAreBought
    <3> QED BY <1>6, <3>1, <3>2 DEF Deliver, Apply, Refused
  <2>3. MailIsBought'
    <3>1. CASE mail' = mail
      BY <3>1, <2>1, <1>b DEF MailIsBought
    <3>2. CASE mail' = [mail EXCEPT ![c] = Without(mail[c], i)]
      <4>1. ASSUME NEW k \in DOMAIN Without(mail[c], i)
            PROVE  \E l \in DOMAIN mail[c] : Without(mail[c], i)[k] = mail[c][l]
        BY <2>1, WithoutType
      <4>2. mail'[c] = Without(mail[c], i) /\ \A d \in Checkouts : d # c => mail'[d] = mail[d]
        BY <3>2, <1>t
      <4> QED BY <4>1, <4>2, <2>1, <1>b DEF MailIsBought
    <3> QED BY <1>6, <3>1, <3>2 DEF Deliver, Apply, Refused
  <2> QED BY <1>b, <1>q, <2>1, <2>2, <2>3 DEF RemoteIsBought, SendsWebhooks
<1>7. ASSUME NEW c \in Checkouts, NEW q \in Requests, NEW plan \in Offered, OpenCheckout(q, c, plan)
      PROVE  Bought'
  <2>1. \A d \in Checkouts : /\ (d # c => remote'[d].state = remote[d].state)
                             /\ remote'[d].plan = remote[d].plan \/ d = c
                             /\ (d = c => remote'[d].state = "opened")
    BY <1>7, <1>t DEF OpenCheckout, Opened, Remotes
  <2>2. provider' = provider /\ mail' = mail /\ bought' = bought /\ UNCHANGED db
    BY <1>7 DEF OpenCheckout, Opened
  <2>3. RemoteIsBought'
    BY <1>b, <2>1, <2>2 DEF RemoteIsBought, SendsWebhooks
  <2> QED BY <1>b, <1>q, <2>2, <2>3 DEF db, RowsAreBought, MailIsBought
<1>8. ASSUME NEW q \in Requests, SaveCheckout(q) PROVE Bought'
  <2>1. req[q].row \in Checkouts /\ bought' = bought
    BY <1>8, <1>t DEF SaveCheckout, At, Reqs
  <2>2. PICK rec : Write(req[q].row, rec, TRUE) /\ rec.status = "checkout_pending"
    <3> DEFINE new == [status |-> "checkout_pending", plan |-> req[q].plan, psub |-> None, end |-> 0]
    <3>1. Write(req[q].row, new, TRUE)
      BY <1>8 DEF SaveCheckout
    <3>2. new.status = "checkout_pending"
      OBVIOUS
    <3> HIDE DEF new
    <3> QED BY <3>1, <3>2
  <2>3. RowsAreBought'
    BY <2>1, <2>2, <1>b, WriteBought DEF ACTIVE_SUBSCRIPTION_STATUSES
  <2> QED BY <1>8, <1>b, <1>q, <2>3 DEF SaveCheckout, RemoteIsBought, MailIsBought, SendsWebhooks
<1>9. ASSUME NEW q \in Requests, StartCancel(q) PROVE Bought'
  <2>1. current \in Checkouts /\ sub[current] \in Rows /\ bought' = bought /\ UNCHANGED db
        /\ provider' = provider
    BY <1>9, <1>t DEF StartCancel, EndAtProvider
  <2>2. RemoteIsBought' /\ MailIsBought'
    <3> DEFINE p == sub[current].psub
    <3>1. CASE UNCHANGED <<remote, mail>>
      BY <3>1, <2>1, <1>b DEF RemoteIsBought, MailIsBought, SendsWebhooks
    <3>2. CASE /\ p \in Checkouts
               /\ remote' = [remote EXCEPT ![p].state = "ended"]
               /\ Notify(p, <<"deleted">>, 0)
      <4>1. p \in Checkouts
        BY <3>2
      <4>2. <<"deleted">> \in Seq(Kinds)
            /\ ~\E i \in DOMAIN <<"deleted">> : <<"deleted">>[i] \in Activating
        BY DEF Kinds, Activating
      <4> HIDE DEF p
      <4>3. MailIsBought'
        BY <3>2, <4>1, <4>2, <1>b, <2>1, NotifyBought
      <4>4. \A d \in Checkouts : /\ remote'[d].plan = remote[d].plan
                               /\ (d # p => remote'[d].state = remote[d].state)
                               /\ (d = p => remote'[d].state = "ended")
        BY <3>2, <4>1, <1>t DEF Remotes
      <4>5. RemoteIsBought'
        BY <4>4, <2>1, <1>b DEF RemoteIsBought, SendsWebhooks
      <4> QED BY <4>3, <4>5
    <3> QED BY <1>9, <3>1, <3>2 DEF StartCancel, EndAtProvider
  <2> QED BY <1>b, <1>q, <2>1, <2>2 DEF db, RowsAreBought
<1>10. ASSUME NEW q \in Requests, SaveCancel(q) PROVE Bought'
  <2> DEFINE c == req[q].row
             rec == [sub[c] EXCEPT !.status = "canceled", !.end = now]
  <2>1. c \in Checkouts /\ bought' = bought /\ mail' = mail /\ provider' = provider
    BY <1>10, <1>t DEF SaveCancel, At, Reqs
  <2>2. Write(c, rec, TRUE) /\ rec.status = "canceled"
    <3>1. sub[c] \in Rows
      BY <2>1, <1>t
    <3>2. rec.status = "canceled"
      BY <3>1 DEF Rows
    <3> QED BY <1>10, <3>2 DEF SaveCancel
  <2>3. RowsAreBought'
    <3> HIDE DEF c, rec
    <3> QED BY <2>1, <2>2, <1>b, WriteBought DEF ACTIVE_SUBSCRIPTION_STATUSES
  <2>4. SendsWebhooks => remote' = remote
    BY <1>10 DEF SaveCancel
  <2> QED BY <2>1, <2>3, <2>4, <1>b, <1>q DEF RemoteIsBought, MailIsBought, SendsWebhooks
<1>11. ASSUME NEW q \in Requests, Die(q) PROVE Bought'
  BY <1>11, <1>b, <1>q DEF Die, db, RowsAreBought, RemoteIsBought, MailIsBought, SendsWebhooks
<1>12. CASE Tomorrow
  BY <1>12, <1>b, <1>q DEF Tomorrow, db, RowsAreBought, RemoteIsBought, MailIsBought, SendsWebhooks
<1>13. CASE AskForPlan
  <2>1. current \in Checkouts /\ sub[current] \in Rows /\ bought' = bought
    BY <1>13, <1>t DEF AskForPlan, Expired, HasAccess
  <2> DEFINE rec == [sub[current] EXCEPT !.status = "canceled"]
  <2>2. Write(current, rec, FALSE) /\ rec.status = "canceled"
    <3>1. rec.status = "canceled"
      BY <2>1 DEF Rows
    <3> QED BY <1>13, <3>1 DEF AskForPlan, ExpireOnTheFly
  <2>3. RowsAreBought'
    <3> HIDE DEF rec
    <3> QED BY <2>1, <2>2, <1>b, WriteBought DEF ACTIVE_SUBSCRIPTION_STATUSES
  <2> QED BY <1>13, <2>3, <1>b, <1>q DEF AskForPlan, RemoteIsBought, MailIsBought, SendsWebhooks
<1>14. CASE UNCHANGED vars
  BY <1>14, <1>b, <1>q DEF vars, db, RowsAreBought, RemoteIsBought, MailIsBought, SendsWebhooks
<1> QED BY <1>1, <1>2, <1>3, <1>4, <1>5, <1>6, <1>7, <1>8, <1>9, <1>10, <1>11, <1>12, <1>13,
           <1>14 DEF Next

(* No plan is granted that nobody paid for, or confirmed a card for, but    *)
(* by a row that is as its completion address left it: whatever the order  *)
(* in which the webhooks arrive, and however often.                        *)
THEOREM PlansAreBought == Spec => []PlanWasBought
<1>1. Init => Bought
  BY InitBought
<1>2. TypeOK /\ TypeOK' /\ Bought /\ [Next]_vars => Bought'
  BY BillingAssumption, NextBought
<1>3. TypeOK /\ Bought => PlanWasBought
  BY DEF TypeOK, Bought, RowsAreBought, PlanWasBought, HasAccess
<1> QED BY <1>1, <1>2, <1>3, BillingTypeCorrect, PTL DEF Spec
-----------------------------------------------------------------------------
(* A subscription is bound to the row of its checkout, by the webhook that *)
(* names the checkout, before any other of its webhooks is delivered.      *)
Completing(s) == \E j \in DOMAIN s : s[j].kind = "completed"
Led(s) == \A i \in DOMAIN s :
  s[i].kind # "completed" => \E j \in DOMAIN s : j < i /\ s[j].kind = "completed"
OwnEvents(c, s) == \A i \in DOMAIN s :
  s[i].psub = c /\ s[i].checkout = IF s[i].kind = "completed" THEN c ELSE None
Charging == {"live", "past_due"}
Settled(c) ==
  /\ sub[c].psub \in {None, MockSub, c}
  /\ OwnEvents(c, mail[c])
  /\ sub[c].status = "absent" => mail[c] = <<>> /\ remote[c].state \in {"none", "opened"}
  /\ sub[c].psub # c => Led(mail[c])
  /\ sub[c].psub # c /\ SendsWebhooks /\ remote[c].state \in Charging => Completing(mail[c])
AllSettled == \A c \in Checkouts : Settled(c)

(* A checkout is opened by one request, which alone inserts its row; the   *)
(* others work on rows that are there.                                     *)
Here(c) == sub[c].status # "absent"
RowsThere ==
  /\ current # None => Here(current)
  /\ \A c \in Checkouts : remote[c].state = "none" => ~Here(c)
  /\ \A q \in Requests : At(q, "cancel") => Here(req[q].row)
  /\ \A q \in Requests : At(q, "checkout") => ~Here(req[q].row) /\ remote[req[q].row].state # "none"
  /\ \A p, q \in Requests : At(p, "checkout") /\ At(q, "checkout") /\ req[p].row = req[q].row => p = q

SameCheckout(c) ==
  provider' = provider /\ sub'[c] = sub[c] /\ mail'[c] = mail[c] /\ remote'[c].state = remote[c].state
LEMMA SameSettled == ASSUME NEW c, Settled(c), SameCheckout(c) PROVE Settled(c)'
BY DEF Settled, SameCheckout, SendsWebhooks

LEMMA Appended ==
  ASSUME NEW S, NEW s \in Seq(S), NEW e \in Seq(S), NEW m, NEW n, m = Len(s), n = Len(e)
  PROVE  /\ m \in Nat /\ n \in Nat /\ DOMAIN s = 1 .. m /\ DOMAIN (s \o e) = 1 .. (m + n)
         /\ \A i \in 1 .. m : (s \o e)[i] = s[i]
         /\ \A i \in 1 .. n : (s \o e)[m + i] = e[i]
<1>1. Len(s) \in Nat /\ Len(e) \in Nat /\ DOMAIN s = 1 .. Len(s)
  OBVIOUS
<1>2. DOMAIN (s \o e) = 1 .. (Len(s) + Len(e))
  BY ConcatProperties
<1>3. \A i \in 1 .. Len(s) : (s \o e)[i] = s[i]
  OBVIOUS
<1>4. \A i \in 1 .. Len(e) : (s \o e)[Len(s) + i] = e[i]
  OBVIOUS
<1> QED BY <1>1, <1>2, <1>3, <1>4

(* A new webhook is behind all that were queued. *)
LEMMA Queued ==
  ASSUME TypeOK, NEW c \in Checkouts, NEW kinds \in Seq(Kinds), NEW end \in Nat, Notify(c, kinds, end)
  PROVE  \E m, n \in Nat :
           /\ DOMAIN mail[c] = 1 .. m /\ DOMAIN kinds = 1 .. n /\ DOMAIN mail'[c] = 1 .. (m + n)
           /\ \A i \in 1 .. m : mail'[c][i] = mail[c][i]
           /\ \A i \in 1 .. n : mail'[c][m + i] = Event(c, kinds[i], end)
<1>1. PICK es : es = [i \in DOMAIN kinds |-> Event(c, kinds[i], end)]
  OBVIOUS
<1>2. mail \in [Checkouts -> Seq(Events)] /\ remote \in [Checkouts -> Remotes]
  BY DEF TypeOK
<1>3. PICK s : s = mail[c] /\ s \in Seq(Events) /\ mail'[c] = s \o es
  BY <1>1, <1>2 DEF Notify
<1>4. PICK n \in Nat : DOMAIN kinds = 1 .. n /\ \A i \in 1 .. n : kinds[i] \in Kinds
  <2>1. Len(kinds) \in Nat /\ DOMAIN kinds = 1 .. Len(kinds)
    OBVIOUS
  <2>2. \A i \in 1 .. Len(kinds) : kinds[i] \in Kinds
    OBVIOUS
  <2> QED BY <2>1, <2>2
<1>5. \A i \in 1 .. n : Event(c, kinds[i], end) \in Events
  BY <1>2, <1>4, EventType
<1>6. es \in [1 .. n -> Events] /\ \A i \in 1 .. n : es[i] = Event(c, kinds[i], end)
  BY <1>1, <1>4, <1>5
<1>7. es \in Seq(Events) /\ Len(es) = n
  BY <1>6
<1>8. PICK m : m = Len(s)
  OBVIOUS
<1>9. /\ m \in Nat /\ DOMAIN s = 1 .. m /\ DOMAIN (s \o es) = 1 .. (m + n)
      /\ \A i \in 1 .. m : (s \o es)[i] = s[i]
      /\ \A i \in 1 .. n : (s \o es)[m + i] = es[i]
  <2>1. s \in Seq(Events) /\ n = Len(es)
    BY <1>3, <1>7
  <2> QED BY <1>7, <1>8, <2>1, Appended
<1>10. /\ DOMAIN mail[c] = 1 .. m /\ DOMAIN kinds = 1 .. n /\ DOMAIN mail'[c] = 1 .. (m + n)
       /\ \A i \in 1 .. m : mail'[c][i] = mail[c][i]
  BY <1>3, <1>4, <1>9
<1>11. \A i \in 1 .. n : mail'[c][m + i] = Event(c, kinds[i], end)
  BY <1>3, <1>6, <1>9
<1> QED BY <1>4, <1>9, <1>10, <1>11

LEMMA OwnStays ==
  ASSUME TypeOK, NEW c \in Checkouts, NEW kinds \in Seq(Kinds), NEW end \in Nat, Notify(c, kinds, end),
         OwnEvents(c, mail[c])
  PROVE  OwnEvents(c, mail'[c])
<1>1. PICK m, n \in Nat :
        /\ DOMAIN mail[c] = 1 .. m /\ DOMAIN kinds = 1 .. n /\ DOMAIN mail'[c] = 1 .. (m + n)
        /\ \A i \in 1 .. m : mail'[c][i] = mail[c][i]
        /\ \A i \in 1 .. n : mail'[c][m + i] = Event(c, kinds[i], end)
  BY Queued
<1>2. \A i \in 1 .. n : /\ Event(c, kinds[i], end).psub = c
                        /\ Event(c, kinds[i], end).checkout
                             = IF Event(c, kinds[i], end).kind = "completed" THEN c ELSE None
  BY DEF Event
<1> SUFFICES ASSUME NEW i \in 1 .. (m + n)
             PROVE  /\ mail'[c][i].psub = c
                    /\ mail'[c][i].checkout = IF mail'[c][i].kind = "completed" THEN c ELSE None
  BY <1>1 DEF OwnEvents
<1>3. CASE i \in 1 .. m
  BY <1>1, <1>3 DEF OwnEvents
<1>4. CASE i \notin 1 .. m
  <2>1. PICK k \in 1 .. n : i = m + k
    <3>1. i - m \in 1 .. n /\ i = m + (i - m)
      BY <1>4
    <3> QED BY <3>1
  <2> QED BY <1>1, <1>2, <2>1
<1> QED BY <1>3, <1>4

(* New webhooks come behind one that names the checkout. *)
LEMMA NotifyLeads ==
  ASSUME TypeOK, NEW c \in Checkouts, NEW kinds \in Seq(Kinds), NEW end \in Nat, Notify(c, kinds, end),
         (1 \in DOMAIN kinds /\ kinds[1] = "completed") \/ Completing(mail[c])
  PROVE  Completing(mail'[c]) /\ (Led(mail[c]) => Led(mail'[c]))
<1>1. PICK m, n \in Nat :
        /\ DOMAIN mail[c] = 1 .. m /\ DOMAIN kinds = 1 .. n /\ DOMAIN mail'[c] = 1 .. (m + n)
        /\ \A i \in 1 .. m : mail'[c][i] = mail[c][i]
        /\ \A i \in 1 .. n : mail'[c][m + i] = Event(c, kinds[i], end)
  BY Queued
<1>2. PICK j \in 1 .. (m + n) : mail'[c][j].kind = "completed" /\ j <= m + 1
  <2>1. CASE 1 \in DOMAIN kinds /\ kinds[1] = "completed"
    <3>1. m + 1 \in 1 .. (m + n) /\ 1 \in 1 .. n
      BY <1>1, <2>1
    <3>2. mail'[c][m + 1] = Event(c, "completed", end)
      BY <1>1, <2>1, <3>1
    <3> QED BY <3>1, <3>2 DEF Event
  <2>2. CASE Completing(mail[c])
    <3>1. PICK j \in 1 .. m : mail[c][j].kind = "completed"
      BY <1>1, <2>2 DEF Completing
    <3>2. j \in 1 .. (m + n) /\ j <= m + 1
      OBVIOUS
    <3> QED BY <1>1, <3>1, <3>2
  <2> QED BY <2>1, <2>2
<1>3. Completing(mail'[c])
  BY <1>1, <1>2 DEF Completing
<1>4. ASSUME Led(mail[c]), NEW i \in 1 .. (m + n), mail'[c][i].kind # "completed"
      PROVE  \E k \in 1 .. (m + n) : k < i /\ mail'[c][k].kind = "completed"
  <2>1. CASE i \in 1 .. m
    <3>1. PICK k \in 1 .. m : k < i /\ mail[c][k].kind = "completed"
      BY <1>1, <1>4, <2>1 DEF Led
    <3>2. k \in 1 .. (m + n)
      OBVIOUS
    <3> QED BY <1>1, <3>1, <3>2
  <2>2. CASE i \notin 1 .. m
    <3>1. j <= i /\ j # i
      BY <1>2, <1>4, <2>2
    <3> QED BY <1>2, <3>1
  <2> QED BY <2>1, <2>2
<1> QED BY <1>1, <1>3, <1>4 DEF Led

(* The provider changes a subscription whose row is there, and reports it. *)
LEMMA ProviderSettles ==
  ASSUME TypeOK, AllSettled, NEW c \in Checkouts, NEW kinds \in Seq(Kinds), NEW end \in Nat,
         Notify(c, kinds, end), sub' = sub, Here(c), SendsWebhooks, provider' = provider,
         \A d \in Checkouts : d # c => remote'[d].state = remote[d].state,
         (1 \in DOMAIN kinds /\ kinds[1] = "completed") \/ remote[c].state \in Charging
  PROVE  AllSettled'
<1>1. ASSUME NEW d \in Checkouts, d # c PROVE Settled(d)'
  <2>1. mail'[d] = mail[d]
    BY <1>1 DEF Notify, TypeOK
  <2> QED BY <1>1, <2>1, SameSettled DEF SameCheckout, AllSettled
<1>2. Settled(c)
  BY DEF AllSettled
<1>3. CASE sub[c].psub # c
  <2>1. OwnEvents(c, mail'[c]) /\ Completing(mail'[c]) /\ Led(mail'[c])
    BY <1>2, <1>3, NotifyLeads, OwnStays DEF Settled
  <2> QED BY <1>1, <1>2, <2>1 DEF Settled, Here, AllSettled
<1>4. CASE sub[c].psub = c
  <2>1. OwnEvents(c, mail'[c])
    BY <1>2, OwnStays DEF Settled
  <2> QED BY <1>1, <1>2, <1>4, <2>1 DEF Settled, Here, AllSettled
<1> QED BY <1>3, <1>4

(* The row of a checkout is changed; once it has the name of the           *)
(* checkout's subscription it keeps it.                                    *)
LEMMA RowSettles ==
  ASSUME TypeOK, AllSettled, NEW c \in Checkouts, NEW rec, NEW dated, Put(c, rec, dated), mail' = mail,
         provider' = provider,
         rec.psub \in {None, MockSub, c}, sub[c].psub = c => rec.psub = c, Here(c), rec.status # "absent",
         \A d \in Checkouts : d # c => remote'[d].state = remote[d].state,
         SendsWebhooks /\ remote'[c].state \in Charging => remote[c].state \in Charging
  PROVE  AllSettled'
<1>1. sub'[c] = rec /\ \A d \in Checkouts : d # c => sub'[d] = sub[d]
  BY DEF Put, TypeOK
<1>2. ASSUME NEW d \in Checkouts, d # c PROVE Settled(d)'
  BY <1>1, <1>2, SameSettled DEF SameCheckout, AllSettled
<1>3. Settled(c)'
  <2>1. Settled(c)
    BY DEF AllSettled
  <2> QED BY <1>1, <2>1 DEF Settled, SendsWebhooks
<1> QED BY <1>2, <1>3 DEF AllSettled

(* A row is inserted only while it is not there, and stays. *)
LEMMA ThereStays ==
  ASSUME TypeOK, RowsThere, req' = req, \A c \in Checkouts : Here(c)' <=> Here(c),
         \A c \in Checkouts : remote'[c].state = "none" <=> remote[c].state = "none",
         current' = current \/ (current' \in Checkouts /\ Here(current'))
  PROVE  RowsThere'
<1>1. \A q \in Requests : (At(q, "cancel") \/ At(q, "checkout")) => req[q].row \in Checkouts
  BY DEF TypeOK, Reqs, At
<1>2. current \in Checkouts \cup {None}
  BY DEF TypeOK
<1>3. current' # None => Here(current)'
  BY <1>2 DEF RowsThere, Here
<1>4. \A q \in Requests : (At(q, "cancel")' <=> At(q, "cancel")) /\ (At(q, "checkout")' <=> At(q, "checkout"))
  BY DEF At
<1>5. \A c \in Checkouts : remote'[c].state = "none" => ~Here(c)'
  BY DEF RowsThere
<1>6. \A q \in Requests : At(q, "cancel")' => Here(req[q].row)'
  BY <1>1, <1>4 DEF RowsThere, Here
<1>7. \A q \in Requests : At(q, "checkout")' => ~Here(req[q].row)' /\ remote'[req[q].row].state # "none"
  BY <1>1, <1>4 DEF RowsThere, Here
<1> QED BY <1>3, <1>4, <1>5, <1>6, <1>7 DEF RowsThere

(* The steps of the provider *)
LEMMA ProviderStep ==
  ASSUME BillingAssumption, TypeOK, AllSettled, RowsThere, NEW c \in Checkouts,
         Pay(c) \/ Renew(c) \/ PaymentFails(c) \/ GiveUp(c)
  PROVE  AllSettled' /\ RowsThere'
<1>1. /\ remote \in [Checkouts -> Remotes] /\ sub \in [Checkouts -> Rows] /\ now + Month \in Nat
      /\ UNCHANGED <<sub, current, req, provider>> /\ SendsWebhooks
  BY DEF TypeOK, BillingAssumption, Pay, Renew, PaymentFails, GiveUp, db
<1>2. /\ \A d \in Checkouts : d # c => remote'[d].state = remote[d].state
      /\ remote[c].state # "none" /\ remote'[c].state # "none"
  BY <1>1 DEF Pay, Renew, PaymentFails, GiveUp, Remotes
<1>3. remote[c].state \in Charging \cup {"opened"} /\ Here(c)
  BY DEF Pay, Renew, PaymentFails, GiveUp, Charging, AllSettled, Settled, Here
<1>4. PICK kinds \in Seq(Kinds), end \in Nat :
        /\ Notify(c, kinds, end)
        /\ (1 \in DOMAIN kinds /\ kinds[1] = "completed") \/ remote[c].state \in Charging
  <2>1. \A k \in Kinds : <<k>> \in Seq(Kinds)
    OBVIOUS
  <2>2. <<"completed">> \in Seq(Kinds) /\ <<"completed", "created">> \in Seq(Kinds)
    BY DEF Kinds
  <2>3. <<"updated">> \in Seq(Kinds) /\ <<"payment_failed">> \in Seq(Kinds) /\ <<"deleted">> \in Seq(Kinds)
    BY <2>1 DEF Kinds
  <2>4. CASE Pay(c)
    <3>1. \/ Notify(c, <<"completed">>, 0)
          \/ Notify(c, <<"completed", "created">>, now + Month)
      BY <2>4 DEF Pay
    <3>2. /\ 1 \in DOMAIN <<"completed">> /\ <<"completed">>[1] = "completed"
          /\ 1 \in DOMAIN <<"completed", "created">> /\ <<"completed", "created">>[1] = "completed"
      OBVIOUS
    <3> QED BY <1>1, <2>2, <3>1, <3>2
  <2>5. CASE Renew(c)
    <3>1. Notify(c, <<"updated">>, now + Month) /\ remote[c].state \in Charging
      BY <2>5 DEF Renew, Charging
    <3> QED BY <1>1, <2>3, <3>1
  <2>6. CASE PaymentFails(c)
    <3>1. Notify(c, <<"payment_failed">>, 0) /\ remote[c].state \in Charging
      BY <2>6 DEF PaymentFails, Charging
    <3> QED BY <2>3, <3>1
  <2>7. CASE GiveUp(c)
    <3>1. Notify(c, <<"deleted">>, 0) /\ remote[c].state \in Charging
      BY <2>7 DEF GiveUp, Charging
    <3> QED BY <2>3, <3>1
  <2> QED BY <2>4, <2>5, <2>6, <2>7
<1>5. AllSettled'
  BY <1>1, <1>2, <1>3, <1>4, ProviderSettles
<1>6. \A d \in Checkouts : remote'[d].state = "none" <=> remote[d].state = "none"
  BY <1>2
<1>7. RowsThere'
  BY <1>1, <1>6, ThereStays DEF Here
<1> QED BY <1>5, <1>7

(* The steps that change a row that is there *)
LEMMA RowStep ==
  ASSUME BillingAssumption, TypeOK, AllSettled, RowsThere,
         AskForPlan \/ \E c \in Checkouts : ActivateCheckout(c)
  PROVE  AllSettled' /\ RowsThere'
<1>1. req' = req /\ mail' = mail /\ provider' = provider
  BY DEF AskForPlan, ActivateCheckout
<1>n. \A d \in Checkouts : sub[d].psub \in {None, MockSub, d}
  BY DEF AllSettled, Settled
<1>2. PICK c, rec, dated :
        /\ c \in Checkouts
        /\ Put(c, rec, dated) /\ Here(c) /\ rec.status # "absent"
        /\ rec.psub \in {None, MockSub, c} /\ (sub[c].psub = c => rec.psub = c)
        /\ \A d \in Checkouts : d # c => remote'[d].state = remote[d].state
        /\ SendsWebhooks /\ remote'[c].state \in Charging => remote[c].state \in Charging
        /\ remote'[c].state = "none" => remote[c].state = "none"
  <2>1. CASE AskForPlan
    <3>1. current \in Checkouts /\ Here(current) /\ remote' = remote /\ sub[current] \in Rows
      BY <2>1 DEF TypeOK, AskForPlan, Expired, HasAccess, RowsThere
    <3>2. PICK rec : rec = [sub[current] EXCEPT !.status = "canceled"]
      OBVIOUS
    <3>3. Put(current, rec, FALSE) /\ rec.status = "canceled" /\ rec.psub = sub[current].psub
      BY <2>1, <3>1, <3>2 DEF AskForPlan, ExpireOnTheFly, Write, Rows
    <3> QED BY <1>n, <3>1, <3>3
  <2>2. ASSUME NEW c \in Checkouts, ActivateCheckout(c)
        PROVE  \E rec, dated :
                 /\ Put(c, rec, dated) /\ Here(c) /\ rec.status # "absent"
                 /\ rec.psub \in {None, MockSub, c} /\ (sub[c].psub = c => rec.psub = c)
                 /\ \A d \in Checkouts : d # c => remote'[d].state = remote[d].state
                 /\ SendsWebhooks /\ remote'[c].state \in Charging => remote[c].state \in Charging
                 /\ remote'[c].state = "none" => remote[c].state = "none"
    <3>1. remote \in [Checkouts -> Remotes] /\ Here(c)
      BY <2>2 DEF TypeOK, ActivateCheckout, Here
    <3>2. PICK rec, dated : rec = Activation(c) /\ Put(c, rec, dated)
      BY <2>2 DEF ActivateCheckout
    <3>3. /\ rec.status # "absent"
          /\ rec.psub \in {None, MockSub, c} /\ (sub[c].psub = c => rec.psub = c)
      BY <1>n, <3>2, ActivationType DEF ACTIVE_SUBSCRIPTION_STATUSES, BillingAssumption
    <3>4. /\ \A d \in Checkouts : d # c => remote'[d].state = remote[d].state
          /\ SendsWebhooks /\ remote'[c].state \in Charging => remote[c].state \in Charging
          /\ remote'[c].state = "none" => remote[c].state = "none"
      <4>1. CASE SendsWebhooks
        BY <2>2, <4>1 DEF ActivateCheckout
      <4>2. CASE ~SendsWebhooks
        <5>1. PICK state \in {"card", "live"} : remote' = [remote EXCEPT ![c].state = state]
          BY <2>2, <4>2 DEF ActivateCheckout
        <5> QED BY <3>1, <4>2, <5>1 DEF Remotes
      <4> QED BY <4>1, <4>2
    <3> QED BY <3>1, <3>2, <3>3, <3>4
  <2> QED BY <2>1, <2>2
<1>3. AllSettled'
  BY <1>1, <1>2, RowSettles
<1>4. sub'[c] = rec /\ \A d \in Checkouts : d # c => sub'[d] = sub[d]
  BY <1>2 DEF Put, TypeOK
<1>5. /\ \A d \in Checkouts : Here(d)' <=> Here(d)
      /\ \A d \in Checkouts : remote'[d].state = "none" <=> remote[d].state = "none"
      /\ current' = current \/ (current' \in Checkouts /\ Here(current'))
  <2>1. remote[c].state = "none" <=> remote'[c].state = "none"
    BY <1>2 DEF RowsThere
  <2> QED BY <1>2, <1>4, <2>1 DEF Here, Put
<1> QED BY <1>1, <1>3, <1>5, ThereStays

(* A webhook is delivered: it is the first of its checkout, and binds the  *)
(* row of its checkout, if it is not bound already.                        *)
LEMMA DeliverStep ==
  ASSUME BillingAssumption, InOrder, TypeOK, AllSettled, RowsThere,
         NEW c \in Checkouts, NEW i \in 1 .. Len(mail[c]), NEW acked \in BOOLEAN, Deliver(c, i, acked)
  PROVE  AllSettled' /\ RowsThere'
<1>1. PICK s, e : s = mail[c] /\ e = s[1] /\ s \in Seq(Events) /\ i = 1 /\ 1 \in DOMAIN s /\ e \in Events
  BY DEF Deliver, TypeOK
<1>2. UNCHANGED <<remote, req, provider>>
  BY DEF Deliver
<1>3. Settled(c) /\ Here(c) /\ e.psub = c /\ e.checkout = IF e.kind = "completed" THEN c ELSE None
  <2>1. Settled(c)
    BY DEF AllSettled
  <2>2. s # <<>>
    BY <1>1
  <2> QED BY <1>1, <2>1, <2>2 DEF Settled, Here, OwnEvents
<1>4. e.kind # "completed" => sub[c].psub = c
  <2>1. ~\E j \in DOMAIN s : j < 1
    BY <1>1
  <2> QED BY <1>1, <1>3, <2>1 DEF Settled, Led
<1>5. Matches(e) = {c}
  <2>1. CASE e.kind = "completed"
    <3>1. ByCheckout(e) = {c}
      BY <1>3, <2>1 DEF ByCheckout, Present, Here
    <3> QED BY <3>1 DEF Matches
  <2>2. CASE e.kind # "completed"
    <3>1. ByCheckout(e) = {}
      BY <1>3, <2>2 DEF ByCheckout, Present, BillingAssumption
    <3>2. \A d \in Checkouts : sub[d].psub \in {None, MockSub, d}
      BY DEF AllSettled, Settled
    <3>3. BySubscription(e) = {c}
      BY <1>3, <1>4, <2>2, <3>2 DEF BySubscription, Present, Here, BillingAssumption
    <3> QED BY <3>1, <3>3 DEF Matches
  <2> QED BY <2>1, <2>2
<1>6. PICK rec : rec = Updated(c, e)
  OBVIOUS
<1>7. PICK dated : Write(c, rec, dated)
  BY <1>1, <1>5, <1>6 DEF Deliver, Apply, Refused
<1>8. rec.psub = c /\ rec.status # "absent"
  <2>1. sub[c] \in Rows
    BY DEF TypeOK
  <2>2. CASE e.kind \in {"completed", "created", "updated"}
    BY <1>3, <1>6, <2>2 DEF Updated, Activated
  <2>3. CASE e.kind \notin {"completed", "created", "updated"}
    <3>1. PICK status \in {"canceled", "past_due"} : rec = [sub[c] EXCEPT !.status = status]
      BY <1>6, <2>3 DEF Updated
    <3> QED BY <1>4, <2>1, <2>3, <3>1 DEF Rows
  <2> QED BY <2>2, <2>3
<1>9. sub'[c] = rec /\ \A d \in Checkouts : d # c => sub'[d] = sub[d]
  BY <1>7 DEF Put, Write, TypeOK
<1>10. OwnEvents(c, mail'[c]) /\ \A d \in Checkouts : d # c => mail'[d] = mail[d]
  <2>1. mail \in [Checkouts -> Seq(Events)]
    BY DEF TypeOK
  <2>2. CASE mail' = mail
    BY <1>3, <2>2 DEF Settled
  <2>3. CASE mail' = [mail EXCEPT ![c] = Without(s, 1)]
    <3>1. mail'[c] = Without(s, 1)
      BY <2>1, <2>3
    <3>2. \A k \in DOMAIN Without(s, 1) : \E l \in DOMAIN s : Without(s, 1)[k] = s[l]
      BY <1>1, WithoutType
    <3>3. OwnEvents(c, s)
      BY <1>1, <1>3 DEF Settled
    <3>4. OwnEvents(c, Without(s, 1))
      BY <3>2, <3>3 DEF OwnEvents
    <3> QED BY <2>1, <2>3, <3>1, <3>4
  <2> QED BY <1>1, <2>2, <2>3 DEF Deliver
<1>11. ASSUME NEW d \in Checkouts PROVE Settled(d)'
  <2>1. CASE d = c
    BY <1>8, <1>9, <1>10, <2>1 DEF Settled
  <2>2. CASE d # c
    BY <1>2, <1>9, <1>10, <2>2, SameSettled DEF SameCheckout, AllSettled
  <2> QED BY <2>1, <2>2
<1>12. /\ \A d \in Checkouts : Here(d)' <=> Here(d)
       /\ current' = current \/ (current' \in Checkouts /\ Here(current'))
  BY <1>3, <1>7, <1>8, <1>9 DEF Here, Put, Write
<1> QED BY <1>2, <1>11, <1>12, ThereStays DEF AllSettled

(* The requests *)
LEMMA CheckoutStep ==
  ASSUME BillingAssumption, TypeOK, AllSettled, RowsThere, NEW q \in Requests,
         SaveCheckout(q) \/ \E c \in Checkouts, plan \in Offered : OpenCheckout(q, c, plan)
  PROVE  AllSettled' /\ RowsThere'
<1>p. provider' = provider
  BY DEF OpenCheckout, SaveCheckout, StartCancel, SaveCancel, Die
<1>0. /\ sub \in [Checkouts -> Rows] /\ remote \in [Checkouts -> Remotes] /\ req \in [Requests -> Reqs]
      /\ current \in Checkouts \cup {None} /\ None \notin Checkouts
  BY DEF TypeOK, BillingAssumption
<1>r. \A p \in Requests : (At(p, "cancel") \/ At(p, "checkout")) => req[p].row \in Checkouts
  BY <1>0 DEF Reqs, At
<1>1. ASSUME NEW c \in Checkouts, NEW plan \in Offered, OpenCheckout(q, c, plan)
      PROVE  AllSettled' /\ RowsThere'
  <2>1. /\ UNCHANGED <<sub, current, mail>> /\ remote[c].state = "none" /\ ~Here(c)
    <3>1. UNCHANGED <<sub, current, mail>> /\ remote[c].state = "none"
      BY <1>1 DEF OpenCheckout, db
    <3> QED BY <3>1 DEF RowsThere
  <2>2. /\ remote'[c].state = "opened"
        /\ \A d \in Checkouts : d # c => remote'[d].state = remote[d].state
    <3>1. remote' = [remote EXCEPT ![c].state = "opened", ![c].plan = plan]
      BY <1>1 DEF OpenCheckout, Opened
    <3>2. PICK r : r = [remote[c] EXCEPT !.state = "opened", !.plan = plan]
      OBVIOUS
    <3>3. r.state = "opened"
      BY <1>0, <3>2 DEF Remotes
    <3>4. remote' = [remote EXCEPT ![c] = r]
      BY <1>0, <3>1, <3>2
    <3> QED BY <1>0, <3>3, <3>4
  <2>3. ASSUME NEW d \in Checkouts PROVE Settled(d)'
    <3>1. Settled(d)
      BY DEF AllSettled
    <3>2. CASE d = c
      BY <2>1, <2>2, <3>1, <3>2 DEF Settled, Charging
    <3>3. CASE d # c
      BY <1>p, <2>1, <2>2, <3>1, <3>3, SameSettled DEF SameCheckout
    <3> QED BY <3>2, <3>3
  <2>4. PICK new : new = [Idle EXCEPT !.pc = "checkout", !.row = c, !.plan = plan]
    OBVIOUS
  <2>5. new.pc = "checkout" /\ new.row = c /\ req' = [req EXCEPT ![q] = new]
    BY <1>1, <2>4 DEF Idle, OpenCheckout
  <2>6. req'[q] = new /\ \A p \in Requests : p # q => req'[p] = req[p]
    BY <1>0, <2>5
  <2>7. \A p \in Requests : At(p, "checkout") => req[p].row # c
    BY <2>1 DEF RowsThere
  <2>8. current' # None => Here(current)'
    BY <2>1 DEF RowsThere, Here
  <2>9. \A d \in Checkouts : remote'[d].state = "none" => ~Here(d)'
    BY <2>1, <2>2 DEF RowsThere, Here
  <2>10. \A p \in Requests : At(p, "cancel")' => Here(req[p].row)'
    BY <2>1, <2>5, <2>6 DEF RowsThere, Here, At
  <2>11. \A p \in Requests : At(p, "checkout")' => ~Here(req[p].row)' /\ remote'[req'[p].row].state # "none"
    BY <1>r, <2>1, <2>2, <2>5, <2>6 DEF RowsThere, Here, At
  <2>12. \A o, p \in Requests : At(o, "checkout")' /\ At(p, "checkout")' /\ req'[o].row = req'[p].row => o = p
    BY <2>5, <2>6, <2>7 DEF RowsThere, At
  <2> QED BY <2>3, <2>8, <2>9, <2>10, <2>11, <2>12 DEF AllSettled, RowsThere
<1>2. CASE SaveCheckout(q)
  <2>1. PICK c \in Checkouts : c = req[q].row /\ At(q, "checkout")
    BY <1>r, <1>2 DEF SaveCheckout
  <2>2. ~Here(c) /\ remote[c].state # "none" /\ UNCHANGED <<remote, mail>>
    BY <1>2, <2>1 DEF SaveCheckout, RowsThere
  <2>3. PICK rec : rec = [status |-> "checkout_pending", plan |-> req[q].plan, psub |-> None, end |-> 0]
    OBVIOUS
  <2>4. Write(c, rec, TRUE) /\ rec.status = "checkout_pending" /\ rec.psub = None
    BY <1>2, <2>1, <2>3 DEF SaveCheckout
  <2>5. sub'[c] = rec /\ (\A d \in Checkouts : d # c => sub'[d] = sub[d]) /\ current' = c
    BY <1>0, <2>4 DEF Put, Write
  <2>6. ASSUME NEW d \in Checkouts PROVE Settled(d)'
    <3>1. Settled(d)
      BY DEF AllSettled
    <3>2. CASE d = c
      <4>1. mail'[c] = <<>> /\ remote'[c].state \notin Charging
        BY <2>2, <3>1, <3>2 DEF Settled, Here, Charging
      <4>2. OwnEvents(c, <<>>) /\ Led(<<>>)
        BY DEF OwnEvents, Led
      <4> QED BY <2>4, <2>5, <3>2, <4>1, <4>2 DEF Settled
    <3>3. CASE d # c
      BY <1>p, <2>2, <2>5, <3>1, <3>3, SameSettled DEF SameCheckout
    <3> QED BY <3>2, <3>3
  <2>7. req'[q] = Idle /\ \A p \in Requests : p # q => req'[p] = req[p]
    BY <1>0, <1>2 DEF SaveCheckout
  <2>8. \A p \in Requests : (At(p, "cancel")' => At(p, "cancel") /\ req'[p] = req[p])
                             /\ (At(p, "checkout")' => At(p, "checkout") /\ req'[p] = req[p] /\ p # q)
    BY <2>7 DEF At, Idle
  <2>9. current' # None => Here(current)'
    BY <2>4, <2>5 DEF Here
  <2>10. \A d \in Checkouts : remote'[d].state = "none" => ~Here(d)'
    BY <2>2, <2>5 DEF RowsThere, Here
  <2>11. \A p \in Requests : At(p, "cancel")' => Here(req[p].row)'
    BY <1>r, <2>4, <2>5, <2>8 DEF RowsThere, Here
  <2>12. \A p \in Requests : At(p, "checkout")' => req'[p].row # c
    BY <2>1, <2>8 DEF RowsThere
  <2>13. \A p \in Requests : At(p, "checkout")' => ~Here(req[p].row)' /\ remote'[req'[p].row].state # "none"
    BY <1>r, <2>2, <2>5, <2>8, <2>12 DEF RowsThere, Here
  <2>14. \A o, p \in Requests : At(o, "checkout")' /\ At(p, "checkout")' /\ req'[o].row = req'[p].row => o = p
    BY <2>8 DEF RowsThere
  <2> QED BY <2>6, <2>9, <2>10, <2>11, <2>13, <2>14 DEF AllSettled, RowsThere
<1> QED BY <1>1, <1>2

LEMMA CancelStep ==
  ASSUME BillingAssumption, TypeOK, AllSettled, RowsThere, NEW q \in Requests,
         StartCancel(q) \/ SaveCancel(q) \/ Die(q)
  PROVE  AllSettled' /\ RowsThere'
<1>p. provider' = provider
  BY DEF OpenCheckout, SaveCheckout, StartCancel, SaveCancel, Die
<1>0. /\ sub \in [Checkouts -> Rows] /\ remote \in [Checkouts -> Remotes] /\ req \in [Requests -> Reqs]
      /\ current \in Checkouts \cup {None} /\ None \notin Checkouts
  BY DEF TypeOK, BillingAssumption
<1>r. \A p \in Requests : (At(p, "cancel") \/ At(p, "checkout")) => req[p].row \in Checkouts
  BY <1>0 DEF Reqs, At
<1>1. ASSUME \A c \in Checkouts : Here(c)' <=> Here(c),
             \A c \in Checkouts : remote'[c].state = "none" <=> remote[c].state = "none",
             current' = current \/ (current' \in Checkouts /\ Here(current')),
             \A p \in Requests : At(p, "cancel")' => req'[p].row = current \/ (At(p, "cancel") /\ req'[p] = req[p]),
             \A p \in Requests : At(p, "cancel")' /\ req'[p].row = current => current # None,
             \A p \in Requests : At(p, "checkout")' => At(p, "checkout") /\ req'[p] = req[p]
      PROVE  RowsThere'
  <2>1. current' # None => Here(current)'
    BY <1>0, <1>1 DEF RowsThere, Here
  <2>2. \A c \in Checkouts : remote'[c].state = "none" => ~Here(c)'
    BY <1>1 DEF RowsThere
  <2>3. \A p \in Requests : At(p, "cancel")' => Here(req[p].row)'
    BY <1>0, <1>1, <1>r DEF RowsThere, Here
  <2>4. \A p \in Requests : At(p, "checkout")' => ~Here(req[p].row)' /\ remote'[req'[p].row].state # "none"
    BY <1>1, <1>r DEF RowsThere, Here
  <2>5. \A o, p \in Requests : At(o, "checkout")' /\ At(p, "checkout")' /\ req'[o].row = req'[p].row => o = p
    BY <1>1 DEF RowsThere
  <2> QED BY <2>1, <2>2, <2>3, <2>4, <2>5 DEF RowsThere
<1>2. CASE Die(q)
  <2>1. /\ UNCHANGED <<sub, current, remote, mail>>
        /\ req'[q] = Idle /\ \A p \in Requests : p # q => req'[p] = req[p]
    BY <1>0, <1>2 DEF Die, db
  <2>2. AllSettled'
    BY <1>p, <2>1, SameSettled DEF AllSettled, SameCheckout
  <2>3. \A p \in Requests : /\ (At(p, "cancel")' => At(p, "cancel") /\ req'[p] = req[p])
                             /\ (At(p, "checkout")' => At(p, "checkout") /\ req'[p] = req[p])
    BY <2>1 DEF At, Idle
  <2>4. \A p \in Requests : At(p, "cancel") /\ req[p].row = current => current # None
    BY <1>0, <1>r
  <2>5. RowsThere'
    <3>1. /\ \A c \in Checkouts : Here(c)' <=> Here(c)
          /\ \A c \in Checkouts : remote'[c].state = "none" <=> remote[c].state = "none"
      BY <2>1 DEF Here
    <3> QED BY <1>1, <2>1, <2>3, <2>4, <3>1
  <2> QED BY <2>2, <2>5
<1>3. CASE StartCancel(q)
  <2>1. current \in Checkouts /\ Here(current) /\ UNCHANGED <<sub, current>>
    BY <1>0, <1>3 DEF StartCancel, RowsThere, db
  <2>2. \A p \in Requests : p # q => req'[p] = req[p]
    BY <1>0, <1>3 DEF StartCancel, Step
  <2>3. req'[q].row = current /\ req'[q].pc = "cancel"
    <3>1. req' = [req EXCEPT ![q].pc = "cancel", ![q].row = current]
      BY <1>3 DEF StartCancel, Step
    <3>2. req[q] \in Reqs
      BY <1>0
    <3>3. PICK r : r = [req[q] EXCEPT !.pc = "cancel", !.row = current]
      OBVIOUS
    <3>4. r.pc = "cancel" /\ r.row = current
      BY <3>2, <3>3 DEF Reqs
    <3>5. req'[q] = r
      BY <1>0, <3>1, <3>3
    <3> QED BY <3>4, <3>5
  <2>4. PICK p : p = sub[current].psub
    OBVIOUS
  <2>5. AllSettled' /\ \A c \in Checkouts : remote'[c].state = "none" <=> remote[c].state = "none"
    <3>1. CASE UNCHANGED <<remote, mail>>
      BY <1>p, <2>1, <3>1, SameSettled DEF AllSettled, SameCheckout
    <3>2. CASE p # None /\ SendsWebhooks /\ EndAtProvider(p)
      <4>1. p = current
        BY <2>1, <2>4, <3>2, BillingAssumption DEF AllSettled, Settled, EndAtProvider
      <4>2. remote[p].state \in Charging /\ Notify(p, <<"deleted">>, 0)
        BY <3>2 DEF EndAtProvider, Charging
      <4>3. /\ \A d \in Checkouts : d # p => remote'[d].state = remote[d].state
            /\ remote'[p].state = "ended"
        BY <1>0, <2>1, <3>2, <4>1 DEF EndAtProvider, Remotes
      <4>4. <<"deleted">> \in Seq(Kinds)
        BY DEF Kinds
      <4>5. AllSettled'
        BY <1>p, <2>1, <3>2, <4>1, <4>2, <4>3, <4>4, ProviderSettles
      <4> QED BY <4>2, <4>3, <4>5 DEF Charging
    <3> QED BY <1>3, <2>4, <3>1, <3>2 DEF StartCancel
  <2>6. \A o \in Requests :
          /\ (At(o, "cancel")' => req'[o].row = current \/ (At(o, "cancel") /\ req'[o] = req[o]))
          /\ (At(o, "checkout")' => At(o, "checkout") /\ req'[o] = req[o])
    BY <2>2, <2>3 DEF At
  <2>7. RowsThere'
    <3>1. (\A c \in Checkouts : Here(c)' <=> Here(c)) /\ current # None
      BY <1>0, <2>1 DEF Here
    <3> QED BY <1>1, <2>1, <2>5, <2>6, <3>1
  <2> QED BY <2>5, <2>7
<1>4. CASE SaveCancel(q)
  <2>1. PICK c \in Checkouts : c = req[q].row /\ Here(c)
    BY <1>4, <1>r DEF SaveCancel, RowsThere
  <2>2. PICK rec : rec = [sub[c] EXCEPT !.status = "canceled", !.end = now]
    OBVIOUS
  <2>3. Write(c, rec, TRUE) /\ rec.status = "canceled" /\ rec.psub = sub[c].psub
    <3>1. sub[c] \in Rows
      BY <1>0
    <3> QED BY <1>4, <2>1, <2>2, <3>1 DEF SaveCancel, Rows
  <2>4. /\ mail' = mail
        /\ \A d \in Checkouts : d # c => remote'[d].state = remote[d].state
        /\ remote'[c].state \in {"ended", remote[c].state}
    BY <1>0, <1>4, <2>1 DEF SaveCancel, Remotes
  <2>5. AllSettled'
    <3>1. Put(c, rec, TRUE) /\ sub[c].psub \in {None, MockSub, c} /\ rec.status # "absent"
      BY <2>1, <2>3 DEF Write, AllSettled, Settled
    <3>2. SendsWebhooks /\ remote'[c].state \in Charging => remote[c].state \in Charging
      BY <2>4 DEF Charging
    <3> QED BY <1>p, <2>1, <2>3, <2>4, <3>1, <3>2, RowSettles
  <2>6. sub'[c] = rec /\ (\A d \in Checkouts : d # c => sub'[d] = sub[d]) /\ current' = c
    BY <1>0, <2>3 DEF Put, Write
  <2>7. /\ \A d \in Checkouts : Here(d)' <=> Here(d)
        /\ \A d \in Checkouts : remote'[d].state = "none" <=> remote[d].state = "none"
        /\ current' = current \/ (current' \in Checkouts /\ Here(current'))
    BY <2>1, <2>3, <2>4, <2>6 DEF Here, RowsThere
  <2>8. req'[q] = Idle /\ \A p \in Requests : p # q => req'[p] = req[p]
    BY <1>0, <1>4 DEF SaveCancel
  <2>9. \A p \in Requests : /\ (At(p, "cancel")' => At(p, "cancel") /\ req'[p] = req[p])
                             /\ (At(p, "checkout")' => At(p, "checkout") /\ req'[p] = req[p])
    BY <2>8 DEF At, Idle
  <2>10. \A p \in Requests : At(p, "cancel") /\ req[p].row = current => current # None
    BY <1>0, <1>r
  <2>11. RowsThere'
    BY <1>1, <2>7, <2>9, <2>10
  <2> QED BY <2>5, <2>11
<1> QED BY <1>2, <1>3, <1>4

(* Where the webhooks of a subscription arrive in order, it is bound to    *)
(* one row, that of its checkout: no other of its webhooks is delivered    *)
(* before the one that names the checkout, however often one is repeated,  *)
(* whatever is bought or canceled meanwhile, and whatever step a crash     *)
(* interrupts.                                                             *)
THEOREM OneRowEach == ASSUME InOrder PROVE Spec => []OneRowPerSubscription
<1>1. Init => AllSettled /\ RowsThere
  <2> SUFFICES ASSUME Init PROVE AllSettled /\ RowsThere
    OBVIOUS
  <2>1. \A c \in Checkouts : sub[c] = Absent /\ mail[c] = <<>> /\ remote[c].state = "none"
    BY DEF Init
  <2>2. \A c \in Checkouts : OwnEvents(c, <<>>) /\ Led(<<>>)
    BY DEF OwnEvents, Led
  <2>3. AllSettled
    <3> SUFFICES ASSUME NEW c \in Checkouts PROVE Settled(c)
      BY DEF AllSettled
    <3>1. sub[c].psub = None /\ mail[c] = <<>> /\ remote[c].state \in {"none", "opened"}
      BY <2>1 DEF Absent
    <3>2. OwnEvents(c, mail[c]) /\ Led(mail[c]) /\ remote[c].state \notin Charging
      BY <2>1, <2>2, <3>1 DEF Charging
    <3> QED BY <3>1, <3>2 DEF Settled
  <2>4. RowsThere
    BY <2>1 DEF Init, RowsThere, Here, Absent, At, Idle
  <2> QED BY <2>3, <2>4
<1>2. TypeOK /\ AllSettled /\ RowsThere /\ [Next]_vars => AllSettled' /\ RowsThere'
  <2> SUFFICES ASSUME TypeOK, AllSettled, RowsThere, [Next]_vars PROVE AllSettled' /\ RowsThere'
    OBVIOUS
  <2>1. CASE UNCHANGED vars \/ Tomorrow
    <3>1. UNCHANGED <<provider, sub, current, remote, mail, req>>
      BY <2>1 DEF vars, db, Tomorrow
    <3>2. AllSettled'
      BY <3>1, SameSettled DEF AllSettled, SameCheckout
    <3>3. RowsThere'
      BY <3>1, ThereStays DEF Here
    <3> QED BY <3>2, <3>3
  <2>2. CASE \E c \in Checkouts : Pay(c) \/ Renew(c) \/ PaymentFails(c) \/ GiveUp(c)
    BY <2>2, BillingAssumption, ProviderStep
  <2>3. CASE AskForPlan \/ \E c \in Checkouts : ActivateCheckout(c)
    BY <2>3, BillingAssumption, RowStep
  <2>4. CASE \E c \in Checkouts : \E i \in 1 .. Len(mail[c]), acked \in BOOLEAN : Deliver(c, i, acked)
    BY <2>4, BillingAssumption, DeliverStep
  <2>5. CASE \E q \in Requests :
               SaveCheckout(q) \/ \E c \in Checkouts, plan \in Offered : OpenCheckout(q, c, plan)
    BY <2>5, BillingAssumption, CheckoutStep
  <2>6. CASE \E q \in Requests : StartCancel(q) \/ SaveCancel(q) \/ Die(q)
    BY <2>6, BillingAssumption, CancelStep
  <2> QED BY <2>1, <2>2, <2>3, <2>4, <2>5, <2>6 DEF Next
<1>3. AllSettled => OneRowPerSubscription
  BY BillingAssumption DEF AllSettled, Settled, OneRowPerSubscription, Present
<1> QED BY <1>1, <1>2, <1>3, BillingTypeCorrect, PTL DEF Spec
=============================================================================

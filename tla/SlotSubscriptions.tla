--------------------------- MODULE SlotSubscriptions ---------------------------
(***************************************************************************)
(* Slots rented by the month (ccfleetd/slot_subscriptions.py,              *)
(* subscription_billing.py) through Stripe's subscriptions.                *)
(*                                                                         *)
(* An order reserves its slot, opens a Checkout Session and, once paid, is *)
(* bound to a subscription that Stripe renews until it is cancelled.  The  *)
(* handlers are threads: a browser's request, a notification of Stripe or  *)
(* the monitor's pass, each a sequence of steps, a step being one of the   *)
(* store's write transactions or one call of Stripe's API.  Between two    *)
(* steps anything else may happen, and a thread may be lost at any of them *)
(* (an API error, a restart).  Notifications are repeated, delayed, lost   *)
(* and reordered.  What a step read of Stripe travels in its job.          *)
(***************************************************************************)
EXTENDS Integers, FiniteSets

CONSTANTS
  Orders,      \* identities of slot_subscription_orders rows
  Accounts, Slots,
  AccountOf, SlotOf,  \* the immutable account and slot of an order
  Others,      \* holders who did not come through a monthly order
  None,
  Threads, Monitor,
  MaxMonths    \* bound on the months Stripe is paid for

ASSUME SubscriptionsAssumption ==
  /\ AccountOf \in [Orders -> Accounts] /\ SlotOf \in [Orders -> Slots]
  /\ Others \cap Orders = {} /\ None \notin Orders \cup Others
  /\ Monitor \in Threads
  /\ MaxMonths \in Nat

VARIABLES
  status, session, bound,      \* the order's row, its Session and its binding
  terminal, required,          \* provider_status; cancel_required, and a cancel intent
                               \* with it: they are set and completed together
  holds, claimed, recorded,    \* unresolved holds, claim_id, the invoices' months
  slot, tenant,                \* the slots, and who holds them
  sess, sub, ends, months, over, \* Stripe: Session, subscription, its paid months
  unpaid,                      \* and whether its latest invoice, a renewal's, is open
  age,                         \* time since the order was made, in steps
  asked,                       \* the customer asked to cancel, and Stripe does not know
  job,
  outage                       \* calls of the monitor may fail still

orderVars  == <<status, session, bound>>
cancelVars == <<terminal, required>>
paidVars   == <<holds, claimed, recorded>>
slotVars   == <<slot, tenant>>
stripeVars == <<sess, sub, ends, months, over, unpaid>>
storeVars  == <<orderVars, cancelVars, paidVars, slotVars>>
worldVars  == <<stripeVars, age, asked, outage>>
vars == <<storeVars, worldVars, job>>

Statuses == {"none", "reserved", "checkout_open", "unknown", "active", "closed"}
Months == 1..MaxMonths    \* a paid invoice's period, as retrieve_paid_invoice reads it

(* age 0: a Session with the order's fixed expiry may still be made; 1: it  *)
(* may not (Stripe wants half an hour); 2: the Session's expiry has passed; *)
(* 3: so has CREATE_RETRY_WINDOW, 23 hours.                                 *)
Ages == 0..3
CREATABLE == 0
EXPIRED == 2
RECOVERABLE == 2

(* Where a thread may be between two steps: start_checkout and its recovery *)
(* go from mark to create and attach, and so do all who need a lost Session.*)
Steps == {"idle", "mark", "create", "attach", "look", "expire", "close", "fetch",
          "bind", "update", "record", "hold", "ask", "read", "require", "post",
          "again", "confirm"}
Purposes == {"none", "cancel", "reconcile", "paid", "hold", "update"}
Jobs == [at : Steps, order : Orders \cup {None}, why : Purposes,
         dead : BOOLEAN, ends : BOOLEAN, month : 0..MaxMonths + 1]
Job(step, o, why, m) ==
  [at |-> step, order |-> o, why |-> why, dead |-> FALSE, ends |-> FALSE, month |-> m]
Idle == Job("idle", None, "none", 0)

-----------------------------------------------------------------------------
(* Reading the store.                                                       *)
Open(o) == status[o] \notin {"none", "closed"}

reservation_blocks(s) == \E o \in Orders : SlotOf[o] = s /\ Open(o)

(* The recorded months are over: Stripe's clock says so of the last one.    *)
PaidOver(o) == \A m \in recorded[o] : m < months[o] \/ over[o]

(* Mutant: a terminal subscription gives the slot up, paid for or not.      *)
release_allowed_unpaid(s, dead) ==
  \A o \in Orders : SlotOf[o] = s /\ Open(o) =>
    bound[o] /\ status[o] # "unknown" /\ dead[o]

release_allowed(s, dead) ==
  \A o \in Orders : SlotOf[o] = s /\ Open(o) =>
    bound[o] /\ status[o] # "unknown" /\ dead[o] /\ PaidOver(o)

(* The orders a slot that is free again leaves behind; `where` and `dead`   *)
(* are the slots and the provider's states the transaction leaves.          *)
retire_released(s, where, dead) ==
  status' = [o \in Orders |->
    IF /\ SlotOf[o] = s /\ Open(o) /\ claimed[o]
       /\ where[s] = "free" /\ release_allowed(s, dead)
    THEN "closed" ELSE status[o]]

(* _claim_available and the claim's own conditions.  Whether the machine is  *)
(* enabled, open to the account and heard from lately is not kept: a slot   *)
(* that is available here may still be refused.                             *)
claim_available(o) ==
  LET s == SlotOf[o] IN
  /\ slot[s] = "free"
  /\ \A p \in Orders \ {o} : SlotOf[p] = s => ~Open(p)

Pending(o) == Open(o) /\ ~claimed[o]

(* Mutant: an order once bound is not looked at again.                      *)
Reconcilable_unbound(o) == Open(o) /\ ~bound[o]

(* list_slot_subscription_reconciliation                                    *)
Reconcilable(o) == Open(o) /\ (session[o] \/ bound[o] \/ status[o] = "unknown")

(* pending_slot_subscription_cancellations                                  *)
Cancellable(o) == bound[o] /\ (required[o] \/ holds[o] # {})

-----------------------------------------------------------------------------
(* Threads.                                                                 *)
At(t, step) == job[t].at = step
Turn(t, j) == job' = [job EXCEPT ![t] = j]
Begin(t, step, o, why) == At(t, "idle") /\ Turn(t, Job(step, o, why, 0))
Go(t, step) == job' = [job EXCEPT ![t].at = step]
Done(t) == Turn(t, Idle)

(* Go on with what was read of the subscription: to the proof _cancel_bound *)
(* makes of it, or to the update of the order.                              *)
Seen(t, step, o, why, m) ==
  Turn(t, [at |-> step, order |-> o, why |-> why, dead |-> (sub[o] = "canceled"),
           ends |-> ends[o], month |-> m])

(* Any API call may fail, and any thread may die between two steps.         *)
Fail(t) ==
  /\ ~At(t, "idle")
  /\ t = Monitor => outage
  /\ Done(t)
  /\ UNCHANGED <<storeVars, worldVars>>

-----------------------------------------------------------------------------
(* A browser's checkout.  The identity of the form is the order's: to send  *)
(* it again is to go on with the same order.                                *)
reserve(t, o) ==
  LET s == SlotOf[o] IN
  /\ t # Monitor /\ status[o] = "none"
  /\ ~ \E p \in Orders : AccountOf[p] = AccountOf[o] /\ Pending(p)
  /\ slot[s] = "free" /\ ~reservation_blocks(s)
  /\ status' = [status EXCEPT ![o] = "reserved"]
  /\ Begin(t, "mark", o, "none")
  /\ UNCHANGED <<session, bound, cancelVars, paidVars, slotVars, worldVars>>

resume_checkout(t, o) ==
  /\ t # Monitor /\ Open(o) /\ ~session[o] /\ holds[o] = {}
  /\ age[o] <= RECOVERABLE
  /\ Begin(t, "mark", o, "none")
  /\ UNCHANGED <<storeVars, worldVars>>

(* To prove a checkout unpaid its Session is needed: a lost one is asked    *)
(* for again first.                                                         *)
cancel_checkout(t, o) ==
  /\ t # Monitor /\ status[o] # "none"
  /\ IF session[o] THEN Begin(t, "expire", o, "cancel")
     ELSE age[o] <= RECOVERABLE /\ Begin(t, "mark", o, "cancel")
  /\ UNCHANGED <<storeVars, worldVars>>

mark_slot_subscription_unknown(t, o) ==
  /\ At(t, "mark")
  /\ status' = IF status[o] \in {"reserved", "checkout_open", "unknown"}
               THEN [status EXCEPT ![o] = "unknown"] ELSE status
  /\ Go(t, "create")
  /\ UNCHANGED <<session, bound, cancelVars, paidVars, slotVars, worldVars>>

(* The request is the same every time, its idempotency key with it: Stripe  *)
(* makes one Session, and refuses once the expiry is too near.              *)
recover_subscription_session(t, o) ==
  /\ At(t, "create")
  /\ IF sess[o] = "none" /\ age[o] > CREATABLE
     THEN Done(t) /\ UNCHANGED sess
     ELSE /\ sess' = IF sess[o] = "none" THEN [sess EXCEPT ![o] = "open"] ELSE sess
          /\ Go(t, "attach")
  /\ UNCHANGED <<storeVars, sub, ends, months, over, unpaid, age, asked, outage>>

(* Mutant: a status the table's CHECK does not know.                        *)
attach_slot_subscription_session_as_open(t, o) ==
  /\ At(t, "attach")
  /\ session' = [session EXCEPT ![o] = TRUE]
  /\ status' = [status EXCEPT ![o] = "open"]
  /\ Done(t)
  /\ UNCHANGED <<bound, cancelVars, paidVars, slotVars, worldVars>>

attach_slot_subscription_session(t, o) ==
  /\ At(t, "attach")
  /\ IF session[o]
     THEN UNCHANGED <<status, session>>
     ELSE /\ session' = [session EXCEPT ![o] = TRUE]
          /\ status' = [status EXCEPT ![o] = "checkout_open"]
  /\ CASE job[t].why = "cancel" -> Go(t, "expire")
       [] job[t].why = "reconcile" -> Go(t, "look")
       [] OTHER -> Done(t)
  /\ UNCHANGED <<bound, cancelVars, paidVars, slotVars, worldVars>>

(* Mutant: the local clock is proof enough.                                 *)
expire_unpaid_session_by_clock(t, o) ==
  /\ At(t, "expire")
  /\ IF age[o] >= EXPIRED THEN Go(t, "close") ELSE Done(t)
  /\ UNCHANGED <<storeVars, worldVars>>

(* expire_unpaid_session: Stripe alone says that nothing can be paid.       *)
expire_unpaid_session(t, o) ==
  /\ At(t, "expire")
  /\ sess' = IF sess[o] = "open" THEN [sess EXCEPT ![o] = "expired"] ELSE sess
  /\ CASE sess'[o] = "expired" -> Go(t, "close")
       [] sess'[o] = "complete" /\ job[t].why = "cancel" -> Go(t, "fetch")
       [] OTHER -> Done(t)
  /\ UNCHANGED <<storeVars, sub, ends, months, over, unpaid, age, asked, outage>>

close_slot_subscription(t, o) ==
  /\ At(t, "close")
  /\ status' = IF session[o] /\ ~bound[o] /\ ~claimed[o] /\ recorded[o] = {}
               THEN [status EXCEPT ![o] = "closed"] ELSE status
  /\ Done(t)
  /\ UNCHANGED <<session, bound, cancelVars, paidVars, slotVars, worldVars>>

-----------------------------------------------------------------------------
(* Stripe's notifications: of a paid month, of a change of the              *)
(* subscription, of an expired Session, of a refund or a dispute.           *)
invoice_paid(t, o, m) ==
  /\ t # Monitor /\ m \in 1..months[o]
  /\ At(t, "idle")
  /\ Turn(t, Job("fetch", o, "paid", m))
  /\ UNCHANGED <<storeVars, worldVars>>

(* A subscription under review is cancelled again when it changes, unless   *)
(* an unpaid invoice is what tells of the change.                           *)
subscription_updated(t, o) ==
  /\ t # Monitor /\ sub[o] # "none"
  /\ \/ bound[o] /\ holds[o] # {} /\ Begin(t, "read", o, "none")
     \/ Begin(t, "fetch", o, "update")
  /\ UNCHANGED <<storeVars, worldVars>>

session_expired(t, o) ==
  /\ t # Monitor /\ sess[o] = "expired" /\ session[o]
  /\ Begin(t, "expire", o, "none")
  /\ UNCHANGED <<storeVars, worldVars>>

payment_review(t, o) ==
  /\ t # Monitor /\ sub[o] # "none"
  /\ IF bound[o] THEN Begin(t, "hold", o, "none") ELSE Begin(t, "fetch", o, "hold")
  /\ UNCHANGED <<storeVars, worldVars>>

-----------------------------------------------------------------------------
(* The monitor: every order with something at Stripe, then every            *)
(* subscription somebody wants cancelled.                                   *)
reconcile_pending(t, o) ==
  /\ t = Monitor /\ Reconcilable(o)
  /\ IF session[o] THEN Begin(t, "look", o, "reconcile")
     ELSE age[o] <= RECOVERABLE /\ Begin(t, "mark", o, "reconcile")
  /\ UNCHANGED <<storeVars, worldVars>>

retry_cancel(t, o) ==
  /\ t = Monitor /\ Cancellable(o)
  /\ Begin(t, "read", o, "none")
  /\ UNCHANGED <<storeVars, worldVars>>

retrieve_session(t, o) ==
  /\ At(t, "look")
  /\ CASE sess[o] = "complete" -> Go(t, "fetch")
       [] sess[o] # "complete" /\ age[o] >= EXPIRED -> Go(t, "expire")
       [] OTHER -> Done(t)
  /\ UNCHANGED <<storeVars, worldVars>>

(* The subscription's latest_invoice: the last paid month's, or the open    *)
(* one of the renewal that follows it.                                      *)
latest_invoice(o) == months[o] + (IF unpaid[o] THEN 1 ELSE 0)

(* _bind reads the Session and its subscription, and only then writes.      *)
retrieve_subscription(t, o) ==
  /\ At(t, "fetch") /\ sess[o] = "complete"
  /\ LET why == job[t].why
     IN  IF why \in {"update", "reconcile"}
         THEN Seen(t, "bind", o, why, IF why = "update" THEN 0 ELSE latest_invoice(o))
         ELSE Go(t, "bind")
  /\ UNCHANGED <<storeVars, worldVars>>

bind_slot_subscription(t, o) ==
  /\ At(t, "bind")
  /\ IF bound[o] \/ status[o] # "closed"
     THEN /\ bound' = [bound EXCEPT ![o] = TRUE]
          /\ Go(t, CASE job[t].why = "cancel" -> "ask"
                     [] job[t].why = "paid" -> "record"
                     [] job[t].why = "hold" -> "hold"
                     [] OTHER -> "update")
     ELSE UNCHANGED bound /\ Done(t)
  /\ UNCHANGED <<status, session, cancelVars, paidVars, slotVars, worldVars>>

(* Mutant: the order a freed slot left behind is not looked at again.       *)
update_slot_subscription_state_only(t, o) ==
  /\ At(t, "update")
  /\ terminal' = [terminal EXCEPT ![o] = job[t].dead]
  /\ required' = [required EXCEPT ![o] = @ \/ (holds[o] # {} /\ ~job[t].ends)]
  /\ IF job[t].why = "reconcile"
     THEN Turn(t, Job("record", o, "none", job[t].month))
     ELSE Done(t)
  /\ UNCHANGED <<orderVars, paidVars, slotVars, worldVars>>

update_slot_subscription_state(t, o) ==
  /\ At(t, "update")
  /\ terminal' = [terminal EXCEPT ![o] = job[t].dead]
  /\ required' = [required EXCEPT ![o] = @ \/ (holds[o] # {} /\ ~job[t].ends)]
  /\ retire_released(SlotOf[o], slot, terminal')
  /\ IF job[t].why = "reconcile"
     THEN Turn(t, Job("record", o, "none", job[t].month))
     ELSE Done(t)
  /\ UNCHANGED <<session, bound, paidVars, slotVars, worldVars>>

-----------------------------------------------------------------------------
(* A paid month.  The first claims the slot, or is held for review when the *)
(* slot cannot be had; a later one needs the claim to stand.  The month of  *)
(* an invoice that is not paid is refused, and no earlier one taken for it. *)
Recorded(o, m) == recorded' = [recorded EXCEPT ![o] = @ \cup {m}]

(* After _paid: a subscription under review is cancelled at once.           *)
Reviewed(t, o) ==
  Turn(t, IF holds'[o] = {} THEN Idle ELSE Job("read", o, "none", 0))

granted(t, o, m) ==
  /\ ~claimed[o] /\ claim_available(o)
  /\ slot' = [slot EXCEPT ![SlotOf[o]] = "claiming"]
  /\ tenant' = [tenant EXCEPT ![SlotOf[o]] = o]
  /\ claimed' = [claimed EXCEPT ![o] = TRUE]
  /\ status' = [status EXCEPT ![o] = "active"]
  /\ Recorded(o, m)
  /\ UNCHANGED <<holds, required>>

review_required(t, o, m) ==
  /\ ~claimed[o]
  /\ Recorded(o, m)
  /\ holds' = [holds EXCEPT ![o] = @ \cup {"service"}]
  /\ required' = [required EXCEPT ![o] = @ \/ "service" \notin holds[o]]
  /\ UNCHANGED <<slot, tenant, claimed, status>>

renewed(t, o, m) ==
  /\ claimed[o] /\ tenant[SlotOf[o]] = o /\ slot[SlotOf[o]] # "releasing"
  /\ Recorded(o, m)
  /\ UNCHANGED <<holds, required, slot, tenant, claimed, status>>

record_slot_subscription_invoice(t, o) ==
  LET m == job[t].month IN
  /\ At(t, "record")
  /\ \/ /\ m \notin recorded[o] /\ Open(o) /\ m <= months[o]
        /\ granted(t, o, m) \/ review_required(t, o, m) \/ renewed(t, o, m)
        /\ Reviewed(t, o)
     \/ /\ m \in recorded[o]
        /\ UNCHANGED <<holds, required, slot, tenant, claimed, status, recorded>>
        /\ Reviewed(t, o)
     \/ /\ m \notin recorded[o]
        /\ \/ ~Open(o) \/ m > months[o]
           \/ claimed[o] /\ (tenant[SlotOf[o]] # o \/ slot[SlotOf[o]] = "releasing")
        /\ Done(t)
        /\ UNCHANGED <<holds, required, slot, tenant, claimed, status, recorded>>
  /\ UNCHANGED <<session, bound, terminal, worldVars>>

hold_slot_subscription(t, o) ==
  /\ At(t, "hold")
  /\ holds' = [holds EXCEPT ![o] = @ \cup {"review"}]
  /\ required' = [required EXCEPT ![o] = TRUE]
  /\ Turn(t, Job("read", o, "none", 0))
  /\ UNCHANGED <<orderVars, terminal, claimed, recorded, slotVars, worldVars>>

resolve_slot_subscription_hold(o, kind) ==
  /\ kind \in holds[o]
  /\ holds' = [holds EXCEPT ![o] = @ \ {kind}]
  /\ UNCHANGED <<orderVars, cancelVars, claimed, recorded, slotVars, stripeVars, age,
                 asked, job, outage>>

-----------------------------------------------------------------------------
(* Cancelling: the intent is saved before Stripe is called, Stripe is read  *)
(* first, and only what Stripe says completes the intent.                   *)
cancel(t, o) ==
  /\ t # Monitor /\ bound[o]
  /\ Begin(t, "ask", o, "none")
  /\ UNCHANGED <<storeVars, worldVars>>

prepare_slot_subscription_cancellation(t, o) ==
  /\ At(t, "ask")
  /\ required' = [required EXCEPT ![o] = TRUE]
  /\ asked' = [asked EXCEPT ![o] = (sub[o] = "active" /\ ~ends[o])]
  /\ Turn(t, Job("read", o, "none", 0))
  /\ UNCHANGED <<orderVars, terminal, paidVars, slotVars, stripeVars, age, outage>>

bound_subscription_identity(t, o) ==
  /\ At(t, "read")
  /\ IF sub[o] = "canceled" \/ ends[o]
     THEN Seen(t, "confirm", o, "none", 0) ELSE Go(t, "require")
  /\ UNCHANGED <<storeVars, worldVars>>

(* require_..., then next_..._cancel_attempt: both only set cancel_required *)
(* here, for the number of the attempt is never used twice.                 *)
next_slot_subscription_cancel_attempt(t, o) ==
  /\ At(t, "require")
  /\ required' = [required EXCEPT ![o] = TRUE]
  /\ Go(t, "post")
  /\ UNCHANGED <<orderVars, terminal, paidVars, slotVars, worldVars>>

(* Mutant: a subscription whose payment is overdue is left alone.           *)
cancel_after_paid_period_if_paid(t, o) ==
  /\ At(t, "post")
  /\ ends' = [ends EXCEPT ![o] = @ \/ (sub[o] = "active" /\ ~over[o])]
  /\ asked' = [asked EXCEPT ![o] = @ /\ ~ends'[o]]
  /\ Go(t, "again")
  /\ UNCHANGED <<storeVars, sess, sub, months, over, unpaid, age, outage>>

cancel_after_paid_period(t, o) ==
  /\ At(t, "post")
  /\ ends' = [ends EXCEPT ![o] = @ \/ sub[o] = "active"]
  /\ asked' = [asked EXCEPT ![o] = FALSE]
  /\ Go(t, "again")
  /\ UNCHANGED <<storeVars, sess, sub, months, over, unpaid, age, outage>>

cancellation_confirmed(t, o) ==
  /\ At(t, "again")
  /\ IF sub[o] = "canceled" \/ ends[o]
     THEN Seen(t, "confirm", o, "none", 0) ELSE Done(t)
  /\ UNCHANGED <<storeVars, worldVars>>

confirm_slot_subscription_cancellation(t, o) ==
  /\ At(t, "confirm")
  /\ required' = [required EXCEPT ![o] = FALSE]
  /\ terminal' = [terminal EXCEPT ![o] = job[t].dead]
  /\ retire_released(SlotOf[o], slot, terminal')
  /\ Done(t)
  /\ UNCHANGED <<session, bound, paidVars, slotVars, worldVars>>

-----------------------------------------------------------------------------
(* The slots, as far as orders touch them; SlotLifecycle has the rest.      *)
UnchangedButSlots == UNCHANGED <<worldVars, job>>

(* Mutant: a claim that does not look for a monthly order.                  *)
claim_slot_unreserved(s, who) ==
  /\ slot[s] = "free"
  /\ slot' = [slot EXCEPT ![s] = "claiming"]
  /\ tenant' = [tenant EXCEPT ![s] = who]
  /\ UNCHANGED <<orderVars, cancelVars, paidVars>> /\ UnchangedButSlots

(* Another account's claim, with an allowance or with prepaid credit.       *)
claim_slot(s, who) ==
  /\ slot[s] = "free" /\ ~reservation_blocks(s)
  /\ slot' = [slot EXCEPT ![s] = "claiming"]
  /\ tenant' = [tenant EXCEPT ![s] = who]
  /\ UNCHANGED <<orderVars, cancelVars, paidVars>> /\ UnchangedButSlots

provisioned(s) ==
  /\ slot[s] = "claiming"
  /\ slot' = [slot EXCEPT ![s] = "held"]
  /\ UNCHANGED <<tenant, orderVars, cancelVars, paidVars>> /\ UnchangedButSlots

(* A failed or expired claim is wiped, unless a monthly order protects it:  *)
(* then the order is held, and its subscription is to be cancelled.         *)
hold_failed_provision(s) ==
  LET failed == {o \in Orders : SlotOf[o] = s /\ Open(o) /\ claimed[o] /\ tenant[s] = o}
  IN  /\ slot[s] = "claiming"
      /\ IF reservation_blocks(s)
         THEN /\ holds' = [o \in Orders |->
                   IF o \in failed THEN holds[o] \cup {"service"} ELSE holds[o]]
              /\ required' = [o \in Orders |->
                   required[o] \/ (o \in failed /\ "service" \notin holds[o])]
              /\ UNCHANGED slot
         ELSE slot' = [slot EXCEPT ![s] = "releasing"] /\ UNCHANGED <<holds, required>>
      /\ UNCHANGED <<tenant, orderVars, terminal, claimed, recorded>>
      /\ UnchangedButSlots

begin_release(s) ==
  /\ slot[s] \in {"claiming", "held"} /\ release_allowed(s, terminal)
  /\ slot' = [slot EXCEPT ![s] = "releasing"]
  /\ UNCHANGED <<tenant, orderVars, cancelVars, paidVars>> /\ UnchangedButSlots

free_released(s) ==
  /\ slot[s] = "releasing"
  /\ slot' = [slot EXCEPT ![s] = "free"]
  /\ tenant' = [tenant EXCEPT ![s] = None]
  /\ retire_released(s, slot', terminal)
  /\ UNCHANGED <<session, bound, cancelVars, paidVars>> /\ UnchangedButSlots

-----------------------------------------------------------------------------
(* Stripe and the customer, as the code uses them.                          *)
UnchangedStore == UNCHANGED <<storeVars, job, outage>>

(* What the monitor's liveness needs: its calls do not fail for ever.       *)
outage_ends ==
  /\ outage /\ outage' = FALSE
  /\ UNCHANGED <<storeVars, stripeVars, age, asked, job>>

(* Only a Session whose link the browser was sent can be paid.  The order's *)
(* age decides nothing any more once it is.                                 *)
customer_pays(o) ==
  /\ sess[o] = "open" /\ session[o] /\ age[o] < EXPIRED /\ MaxMonths > 0
  /\ sess' = [sess EXCEPT ![o] = "complete"]
  /\ sub' = [sub EXCEPT ![o] = "active"]
  /\ months' = [months EXCEPT ![o] = 1]
  /\ age' = [age EXCEPT ![o] = EXPIRED]
  /\ UNCHANGED <<ends, over, unpaid, asked>> /\ UnchangedStore

stripe_expires(o) ==
  /\ sess[o] = "open" /\ age[o] >= EXPIRED
  /\ sess' = [sess EXCEPT ![o] = "expired"]
  /\ UNCHANGED <<sub, ends, months, over, unpaid, age, asked>> /\ UnchangedStore

(* The end of the last paid month ends a subscription set to be cancelled,  *)
(* and brings any other the invoice of the next.                            *)
period_ends(o) ==
  /\ months[o] > 0 /\ ~over[o]
  /\ over' = [over EXCEPT ![o] = TRUE]
  /\ sub' = IF ends[o] THEN [sub EXCEPT ![o] = "canceled"] ELSE sub
  /\ unpaid' = [unpaid EXCEPT ![o] = (sub'[o] = "active")]
  /\ UNCHANGED <<sess, ends, months, age, asked>> /\ UnchangedStore

(* Which is paid at once, later or never.                                   *)
stripe_renews(o) ==
  /\ unpaid[o] /\ months[o] < MaxMonths
  /\ unpaid' = [unpaid EXCEPT ![o] = FALSE]
  /\ months' = [months EXCEPT ![o] = @ + 1]
  /\ over' = [over EXCEPT ![o] = FALSE]
  /\ UNCHANGED <<sess, sub, ends, age, asked>> /\ UnchangedStore

(* Payment fails for good, or the merchant cancels in Stripe's dashboard.   *)
stripe_cancels(o) ==
  /\ sub[o] = "active"
  /\ sub' = [sub EXCEPT ![o] = "canceled"]
  /\ asked' = [asked EXCEPT ![o] = FALSE]
  /\ UNCHANGED <<sess, ends, months, over, unpaid, age>> /\ UnchangedStore

(* Stripe's portal lets the customer cancel, and take that back.            *)
portal_cancels(o) ==
  /\ sub[o] = "active" /\ ~ends[o]
  /\ ends' = [ends EXCEPT ![o] = TRUE]
  /\ asked' = [asked EXCEPT ![o] = FALSE]
  /\ UNCHANGED <<sess, sub, months, over, unpaid, age>> /\ UnchangedStore

portal_reactivates(o) ==
  /\ sub[o] = "active" /\ ends[o] /\ ~over[o]
  /\ ends' = [ends EXCEPT ![o] = FALSE]
  /\ UNCHANGED <<sess, sub, months, over, unpaid, age, asked>> /\ UnchangedStore

(* As far as any handler asks for the order's age.                          *)
Tick(o) ==
  /\ Open(o) /\ sess[o] # "complete" /\ age[o] < (IF session[o] THEN EXPIRED ELSE 3)
  /\ age' = [age EXCEPT ![o] = @ + 1]
  /\ UNCHANGED <<stripeVars, asked>> /\ UnchangedStore

-----------------------------------------------------------------------------
Start(t, o) ==
  \/ reserve(t, o) \/ resume_checkout(t, o) \/ cancel_checkout(t, o)
  \/ \E m \in Months : invoice_paid(t, o, m)
  \/ subscription_updated(t, o) \/ session_expired(t, o) \/ payment_review(t, o)
  \/ reconcile_pending(t, o) \/ retry_cancel(t, o) \/ cancel(t, o)

Step(t, o) ==
  /\ job[t].order = o
  /\ \/ mark_slot_subscription_unknown(t, o) \/ recover_subscription_session(t, o)
     \/ attach_slot_subscription_session(t, o) \/ expire_unpaid_session(t, o)
     \/ close_slot_subscription(t, o) \/ retrieve_session(t, o)
     \/ retrieve_subscription(t, o) \/ bind_slot_subscription(t, o)
     \/ update_slot_subscription_state(t, o) \/ record_slot_subscription_invoice(t, o)
     \/ hold_slot_subscription(t, o) \/ prepare_slot_subscription_cancellation(t, o)
     \/ bound_subscription_identity(t, o) \/ next_slot_subscription_cancel_attempt(t, o)
     \/ cancel_after_paid_period(t, o) \/ cancellation_confirmed(t, o)
     \/ confirm_slot_subscription_cancellation(t, o)

SlotStep(s) ==
  \/ \E who \in Others : claim_slot(s, who)
  \/ provisioned(s) \/ hold_failed_provision(s) \/ begin_release(s) \/ free_released(s)

StripeStep(o) ==
  \/ customer_pays(o) \/ stripe_expires(o) \/ period_ends(o) \/ stripe_renews(o)
  \/ stripe_cancels(o) \/ portal_cancels(o) \/ portal_reactivates(o) \/ Tick(o)

Init ==
  /\ status = [o \in Orders |-> "none"]
  /\ session = [o \in Orders |-> FALSE] /\ bound = [o \in Orders |-> FALSE]
  /\ terminal = [o \in Orders |-> FALSE] /\ required = [o \in Orders |-> FALSE]
  /\ holds = [o \in Orders |-> {}] /\ claimed = [o \in Orders |-> FALSE]
  /\ recorded = [o \in Orders |-> {}]
  /\ slot = [s \in Slots |-> "free"] /\ tenant = [s \in Slots |-> None]
  /\ sess = [o \in Orders |-> "none"] /\ sub = [o \in Orders |-> "none"]
  /\ ends = [o \in Orders |-> FALSE] /\ months = [o \in Orders |-> 0]
  /\ over = [o \in Orders |-> FALSE] /\ unpaid = [o \in Orders |-> FALSE]
  /\ age = [o \in Orders |-> 0] /\ asked = [o \in Orders |-> FALSE]
  /\ job = [t \in Threads |-> Idle] /\ outage = TRUE

Next ==
  \/ \E t \in Threads, o \in Orders : Start(t, o) \/ Step(t, o)
  \/ \E t \in Threads : Fail(t)
  \/ \E o \in Orders, kind \in {"service", "review"} :
       resolve_slot_subscription_hold(o, kind)
  \/ \E s \in Slots : SlotStep(s)
  \/ \E o \in Orders : StripeStep(o)
  \/ outage_ends

Spec == Init /\ [][Next]_vars

(* The monitor runs its pass every minute and gets to every order, whatever *)
(* each pass meets; time passes, an open Session expires, an outage ends.   *)
(* Nothing makes a customer act, a notification arrive, or a machine wipe.  *)
Fairness ==
  \A o \in Orders :
    /\ SF_vars(reconcile_pending(Monitor, o)) /\ SF_vars(retry_cancel(Monitor, o))
    /\ WF_vars(Step(Monitor, o))
    /\ WF_vars(stripe_expires(o) \/ Tick(o) \/ outage_ends)

FairSpec == Spec /\ Fairness

-----------------------------------------------------------------------------
(* Every variable has the type of what it stands for.                       *)
TypeOK ==
  /\ status \in [Orders -> Statuses]
  /\ session \in [Orders -> BOOLEAN] /\ bound \in [Orders -> BOOLEAN]
  /\ terminal \in [Orders -> BOOLEAN] /\ required \in [Orders -> BOOLEAN]
  /\ holds \in [Orders -> SUBSET {"service", "review"}]
  /\ claimed \in [Orders -> BOOLEAN] /\ recorded \in [Orders -> SUBSET Months]
  /\ slot \in [Slots -> {"free", "claiming", "held", "releasing"}]
  /\ tenant \in [Slots -> Orders \cup Others \cup {None}]
  /\ sess \in [Orders -> {"none", "open", "complete", "expired"}]
  /\ sub \in [Orders -> {"none", "active", "canceled"}]
  /\ ends \in [Orders -> BOOLEAN] /\ months \in [Orders -> 0..MaxMonths]
  /\ over \in [Orders -> BOOLEAN] /\ unpaid \in [Orders -> BOOLEAN]
  /\ age \in [Orders -> Ages] /\ asked \in [Orders -> BOOLEAN]
  /\ job \in [Threads -> Jobs] /\ outage \in BOOLEAN

(* A payable reservation is never freed: an order with a Checkout Session   *)
(* still open, or a subscription Stripe still renews, is not closed         *)
(* (slot_subscriptions.py:3-5, close_slot_subscription, retire_released).   *)
ContractNeverForgotten ==
  \A o \in Orders : sess[o] = "open" \/ sub[o] = "active" => status[o] # "closed"

(* While a monthly order is open nobody else holds or is being given its    *)
(* slot, whichever way they claim (reservation_blocks, claim_slot).         *)
ReservedSlotIsTheirs ==
  \A o \in Orders : Open(o) => tenant[SlotOf[o]] \in {o, None}

(* A recorded month that is not over keeps the slot: it is neither wiped    *)
(* nor given back, even when the subscription is terminal at Stripe         *)
(* (release_allowed, begin_release, record_slot_subscription_invoice).      *)
KeptWhilePaid ==
  \A o \in Orders : claimed[o] /\ ~PaidOver(o) =>
    tenant[SlotOf[o]] = o /\ slot[SlotOf[o]] \in {"claiming", "held"}

(* An attached Session leads somewhere, even if every notification is lost: *)
(* a paid month of it is recorded, with the slot claimed or the order held  *)
(* for review, or the order is closed unpaid - unless its latest invoice    *)
(* stays, or is ever again, a renewal's that is not paid: the monitor takes *)
(* the latest invoice only and "does not claim historical invoice backfill" *)
(* (reconcile_pending, subscription_billing.py:423-427).                    *)
CheckoutEnds ==
  \A o \in Orders :
    session[o] ~> recorded[o] # {} \/ status[o] = "closed" \/ unpaid[o]

(* An order under review stops being renewed, whatever fails on the way and *)
(* although the portal may take a cancellation back (_cancel_bound,         *)
(* pending_slot_subscription_cancellations).                                *)
HeldIsCancelled ==
  \A o \in Orders : bound[o] /\ holds[o] # {} ~>
    holds[o] = {} \/ ends[o] \/ sub[o] = "canceled"

(* A slot given back after its contract does not stay reserved by it.       *)
FreedIsRetired ==
  \A o \in Orders : claimed[o] /\ tenant[SlotOf[o]] # o ~> status[o] = "closed"

(* What is to be given up is given up: the contract of an order under       *)
(* review, and the reservation of a slot given back.                        *)
ContractsSettle == HeldIsCancelled /\ FreedIsRetired

(* A cancellation asked for on the site that Stripe does not know of, and   *)
(* that nobody is working on, is one the monitor will try again.  So say    *)
(* confirm_slot_subscription_cancellation ("Only a fresh matched provider   *)
(* confirmation completes pending cancel intents.", slot_subscriptions.py:  *)
(* 763) and cancel ("Intent and retry marker survive uncertain provider     *)
(* state; no false success.", subscription_billing.py:536); but the proof   *)
(* that completes an intent may have been read before it was saved.         *)
UnansweredAskIsRetried ==
  \A o \in Orders : asked[o] /\ (\A t \in Threads : job[t].order # o) => Cancellable(o)
=============================================================================

-------------------------------- MODULE Wallet --------------------------------
(***************************************************************************)
(* Prepaid credit: Stripe top-ups (ccfleetd/stripe_billing.py,             *)
(* wallet_topups.py), the append-only ledger and the months bought with it *)
(* (store.py, wallet.py).                                                  *)
(*                                                                         *)
(* A browser keeps the forms it was shown and may submit any of them, at   *)
(* any later time, any number of times; each carries the identity its page *)
(* was made with.  A checkout request is several steps with the server's   *)
(* transactions and Stripe's API between them, and may be lost at any.     *)
(* Stripe repeats and reorders its notifications.  A slot is modelled only *)
(* as far as money touches it; SlotLifecycle has the rest.                 *)
(***************************************************************************)
EXTENDS Integers, FiniteSets, FiniteSetsExt

CONSTANTS
  Accounts, Slots, None,
  Prices,              \* what a month of a slot may cost
  Amounts,             \* wallet_topups.ALLOWED_CENTS, and what an admin grants
  MAX_CENTS,           \* the largest balance
  Month,               \* wallet.month_period, in ticks of the clock
  CREATE_RETRY_WINDOW, \* how long the server retries creating a Session
  Retention,           \* how long Stripe remembers an idempotency key
  MaxClock,            \* bound on the clock
  MaxForms,            \* bound on the forms shown
  Shown,               \* bound on the operations forms are shown for
  MaxClaims,           \* bound on the claims made
  MaxReviews           \* bound on the review notices of one payment

ASSUME WalletAssumption ==
  /\ None \notin Accounts
  /\ Prices \subseteq Nat \ {0} /\ Amounts \subseteq Nat \ {0}
  /\ MAX_CENTS \in Nat /\ MaxClock \in Nat /\ MaxForms \in Nat
  /\ MaxClaims \in Nat /\ MaxReviews \in Nat
  /\ Month \in Nat \ {0}
  /\ CREATE_RETRY_WINDOW \in Nat /\ Retention \in Nat
  /\ CREATE_RETRY_WINDOW < Retention

VARIABLES
  clock,
  forms, links,                                     \* the browsers
  entries, purchases,                               \* the ledger
  topups, bound, receipts, holds, resolved,         \* the top-ups
  held_by, claim, state, price, claims,             \* slots and their prices
  request,                                          \* checkout requests in flight
  sessions, closed, payments, reviews               \* Stripe

pageVars   == <<forms, links>>
ledgerVars == <<entries, purchases>>
topupVars  == <<topups, bound, receipts, holds, resolved>>
slotVars   == <<held_by, claim, state, price, claims>>
stripeVars == <<sessions, closed, payments, reviews>>
vars == <<clock, pageVars, ledgerVars, topupVars, slotVars, request, stripeVars>>

Keys == 1..MaxForms
Times == 0..MaxClock
Sessions == [order : Keys, made : Times]

-----------------------------------------------------------------------------
(* Reading the ledger.                                                      *)

Delta(e) == e.delta

EntriesOf(a) == {e \in entries : e.account = a}

_wallet_balance(a) == MapThenSumSet(Delta, EntriesOf(a))

Used(key) == \E e \in entries : e.key = key

(* A payment under review stops everything its account would spend.         *)
spending_blocked(a) == \E h \in holds \ resolved : h.account = a

Returned(key) ==
  MapThenSumSet(Delta, {e \in entries : e.kind = "purchase_return" /\ e.original = key})

PeriodsOf(s, c) == {p \in purchases : p.slot = s /\ p.claim = c}

(* The end of what is paid for a claim; None for one never bought.          *)
paid_slot_through(s, c) ==
  IF PeriodsOf(s, c) = {} THEN None ELSE Max({p.end : p \in PeriodsOf(s, c)})

-----------------------------------------------------------------------------
Init ==
  /\ clock = 0
  /\ forms = {} /\ links = {}
  /\ entries = {} /\ purchases = {}
  /\ topups = {} /\ bound = {} /\ receipts = {} /\ holds = {} /\ resolved = {}
  /\ held_by = [s \in Slots |-> None]
  /\ claim = [s \in Slots |-> 0]
  /\ state = [s \in Slots |-> "free"]
  /\ price \in [Slots -> Prices]
  /\ claims = 0
  /\ request = [k \in Keys |-> [at |-> "none", now |-> 0]]
  /\ sessions = {} /\ closed = {} /\ payments = {} /\ reviews = {}

-----------------------------------------------------------------------------
(* Pages: each shows a form, with an identity of its own.                   *)

Form(op, a, s, c, cents, of) ==
  [key |-> Cardinality(forms) + 1, op |-> op, account |-> a, slot |-> s,
   claim |-> c, cents |-> cents, of |-> of]

Show(f) ==
  /\ Cardinality(forms) < MaxForms /\ f.op \in Shown
  /\ forms' = forms \cup {f}
  /\ UNCHANGED <<clock, links, ledgerVars, topupVars, slotVars, request, stripeVars>>

topup_page(a) == \E n \in Amounts :
  ~spending_blocked(a) /\ Show(Form("topup", a, None, 0, n, 0))

purchase_page(a, s) ==
  ~spending_blocked(a) /\ state[s] = "free" /\ Show(Form("purchase", a, s, 0, price[s], 0))

renew_page(a, s) ==
  /\ ~spending_blocked(a)
  /\ held_by[s] = a /\ state[s] = "claimed" /\ paid_slot_through(s, claim[s]) # None
  /\ Show(Form("renewal", a, s, claim[s], price[s], 0))

adjust_page(a) == \E n \in Amounts :
  \/ Show(Form("admin_credit", a, None, 0, n, 0))
  \/ Show(Form("admin_debit", a, None, 0, n, 0))
  \/ \E p \in purchases : p.account = a /\ Show(Form("purchase_return", a, None, 0, n, p.key))

-----------------------------------------------------------------------------
(* Writing the ledger.                                                      *)

Entry(f, kind, delta) ==
  [seq |-> Cardinality(entries) + 1, key |-> f.key, account |-> f.account,
   kind |-> kind, delta |-> delta, original |-> f.of]

(* Mutant: what was already given back for the purchase is forgotten.       *)
Returnable_once(f) == \E p \in purchases : p.key = f.of /\ f.cents <= p.cents

(* Credit given back for a purchase stays within what it cost.              *)
Returnable(f) == \E p \in purchases :
  p.key = f.of /\ Returned(f.of) + f.cents <= p.cents

_adjust_wallet_credit(f) ==
  LET delta == IF f.op = "admin_debit" THEN -f.cents ELSE f.cents
  IN  /\ f.op \in {"admin_credit", "admin_debit", "purchase_return"}
      /\ ~Used(f.key)
      /\ f.op = "purchase_return" => Returnable(f)
      /\ _wallet_balance(f.account) + delta \in 0..MAX_CENTS
      /\ entries' = entries \cup {Entry(f, f.op, delta)}
      /\ UNCHANGED <<clock, pageVars, purchases, topupVars, slotVars, request, stripeVars>>

(* The debit and its order, one transaction with what it pays for.          *)
_wallet_order(f, c, start) ==
  /\ entries' = entries \cup {Entry(f, "slot_purchase", -f.cents)}
  /\ purchases' = purchases \cup
       {[key |-> f.key, operation |-> f.op, account |-> f.account, slot |-> f.slot,
         claim |-> c, cents |-> f.cents, start |-> start, end |-> start + Month]}

(* What purchase_slot and renew_paid_slot ask alike: the request is a new   *)
(* one, nothing is under review, the price is the one the page showed and   *)
(* the credit is there.                                                     *)
Payable(f) ==
  /\ ~Used(f.key)
  /\ ~spending_blocked(f.account)
  /\ price[f.slot] = f.cents
  /\ _wallet_balance(f.account) >= f.cents

purchase_slot(f) ==
  LET s == f.slot
  IN  /\ f.op = "purchase" /\ Payable(f)
      /\ state[s] = "free" /\ claims < MaxClaims
      /\ claims' = claims + 1
      /\ held_by' = [held_by EXCEPT ![s] = f.account]
      /\ claim' = [claim EXCEPT ![s] = claims + 1]
      /\ state' = [state EXCEPT ![s] = "claiming"]
      /\ _wallet_order(f, claims + 1, clock)
      /\ UNCHANGED <<clock, pageVars, topupVars, price, request, stripeVars>>

(* Mutant: a renewal starts now, whatever is paid for already.              *)
RenewalStart_now(f) == clock

RenewalStart(f) == Max({clock, paid_slot_through(f.slot, f.claim)})

(* Mutant: the slot is the account's, whichever claim the page was about.   *)
_wallet_current_slot_any_claim(f) ==
  held_by[f.slot] = f.account /\ state[f.slot] = "claimed"

_wallet_current_slot(f) ==
  held_by[f.slot] = f.account /\ state[f.slot] = "claimed" /\ claim[f.slot] = f.claim

renew_paid_slot(f) ==
  /\ f.op = "renewal" /\ Payable(f)
  /\ _wallet_current_slot(f)
  /\ paid_slot_through(f.slot, f.claim) # None
  /\ _wallet_order(f, claim[f.slot], RenewalStart(f))
  /\ UNCHANGED <<clock, pageVars, topupVars, slotVars, request, stripeVars>>

-----------------------------------------------------------------------------
(* The slot, as far as money touches it: SlotLifecycle's moves.             *)

(* Mutant: the slot comes back free still under the claim that was paid.    *)
freed_keeps_claim(s) ==
  /\ state' = [state EXCEPT ![s] = "free"]
  /\ held_by' = [held_by EXCEPT ![s] = None]
  /\ UNCHANGED claim

_free_released(s) ==
  /\ state' = [state EXCEPT ![s] = "free"]
  /\ held_by' = [held_by EXCEPT ![s] = None]
  /\ claim' = [claim EXCEPT ![s] = 0]

slot_moves(s) ==
  \/ /\ state[s] = "claiming"
     /\ state' = [state EXCEPT ![s] = "claimed"]
     /\ UNCHANGED <<held_by, claim>>
  \/ /\ state[s] \in {"claiming", "claimed"}
     /\ state' = [state EXCEPT ![s] = "releasing"]
     /\ UNCHANGED <<held_by, claim>>
  \/ state[s] = "releasing" /\ _free_released(s)

SlotMoves(s) ==
  /\ slot_moves(s)
  /\ UNCHANGED <<clock, pageVars, ledgerVars, topupVars, price, claims, request, stripeVars>>

(* A slot claimed under an allowance is never paid for with credit.         *)
claim_slot(a, s) ==
  /\ state[s] = "free" /\ claims < MaxClaims
  /\ claims' = claims + 1
  /\ held_by' = [held_by EXCEPT ![s] = a]
  /\ claim' = [claim EXCEPT ![s] = claims + 1]
  /\ state' = [state EXCEPT ![s] = "claiming"]
  /\ UNCHANGED <<clock, pageVars, ledgerVars, topupVars, price, request, stripeVars>>

set_node_offer(s, n) ==
  /\ price[s] # n
  /\ price' = [price EXCEPT ![s] = n]
  /\ UNCHANGED <<clock, pageVars, ledgerVars, topupVars, held_by, claim, state, claims,
                 request, stripeVars>>

-----------------------------------------------------------------------------
(* start_checkout, a step at a time.                                        *)

At(k, where) ==
  request' = [request EXCEPT ![k].at = where]

Done(k) == request' = [request EXCEPT ![k] = [at |-> "none", now |-> 0]]

(* The order comes first, or is found again by the form's identity.         *)
create_wallet_topup(f) ==
  /\ f.op = "topup" /\ request[f.key].at = "none"
  /\ request' = [request EXCEPT ![f.key] = [at |-> "ordered", now |-> clock]]
  /\ \/ /\ \E t \in topups : t.key = f.key
        /\ UNCHANGED topups
     \/ /\ \A t \in topups : t.key # f.key
        /\ ~spending_blocked(f.account)
        /\ _wallet_balance(f.account) + f.cents <= MAX_CENTS
        /\ topups' = topups \cup {[key |-> f.key, account |-> f.account,
                                   cents |-> f.cents, created |-> clock]}
  /\ UNCHANGED <<clock, pageVars, ledgerVars, bound, receipts, holds, resolved, slotVars,
                 stripeVars>>

(* Mutant: an order is retried for as long as Stripe remembers it.          *)
InWindow_to_the_end(t) == request[t.key].now - t.created < Retention

InWindow(t) == request[t.key].now - t.created < CREATE_RETRY_WINDOW

BoundTo(k) == {x \in bound : x.order = k}

(* Stripe remembers the Session of an order's identity for a while.         *)
Remembered(k) == {x \in sessions : x.order = k /\ clock - x.made < Retention}

create_session(t) ==
  /\ request[t.key].at = "ordered"
  /\ ~spending_blocked(t.account) /\ BoundTo(t.key) = {} /\ InWindow(t)
  /\ Remembered(t.key) \cap (closed \cup payments) = {}
  /\ sessions' = IF Remembered(t.key) # {} THEN sessions
                 ELSE sessions \cup {[order |-> t.key, made |-> clock]}
  /\ At(t.key, "created")
  /\ UNCHANGED <<clock, pageVars, ledgerVars, topupVars, slotVars, closed, payments, reviews>>

(* The Session in the provider's answer is the one it remembers.            *)
Answered(k) == CHOOSE x \in sessions :
  x.order = k /\ \A y \in sessions : y.order = k => y.made <= x.made

bind_wallet_checkout(t) ==
  /\ request[t.key].at = "created"
  /\ BoundTo(t.key) \subseteq {Answered(t.key)}
  /\ bound' = bound \cup {Answered(t.key)}
  /\ At(t.key, "bound")
  /\ UNCHANGED <<clock, pageVars, ledgerVars, topups, receipts, holds, resolved, slotVars,
                 stripeVars>>

(* An order already bound has its Session looked up, which must be open.    *)
retrieve_open_session(t) ==
  /\ request[t.key].at = "ordered" /\ ~spending_blocked(t.account)
  /\ BoundTo(t.key) # {} /\ BoundTo(t.key) \cap (closed \cup payments) = {}
  /\ At(t.key, "bound")
  /\ UNCHANGED <<clock, pageVars, ledgerVars, topupVars, slotVars, stripeVars>>

(* The link goes out, unless a review was heard of in the meantime.         *)
hand_out(t) ==
  /\ request[t.key].at = "bound" /\ ~spending_blocked(t.account)
  /\ Done(t.key)
  /\ links' = links \cup BoundTo(t.key)
  /\ UNCHANGED <<clock, forms, ledgerVars, topupVars, slotVars, stripeVars>>

(* Refused, failed, its answer lost, or the server restarted.               *)
request_ends(t) ==
  /\ request[t.key].at # "none"
  /\ Done(t.key)
  /\ UNCHANGED <<clock, pageVars, ledgerVars, topupVars, slotVars, stripeVars>>

-----------------------------------------------------------------------------
(* Stripe, and the customer on its pages.                                   *)

customer_pays(x) ==
  /\ x \in links \ (closed \cup payments)
  /\ payments' = payments \cup {x}
  /\ UNCHANGED <<clock, pageVars, ledgerVars, topupVars, slotVars, request, sessions, closed,
                 reviews>>

session_expires(x) ==
  /\ x \in sessions \ (closed \cup payments)
  /\ closed' = closed \cup {x}
  /\ UNCHANGED <<clock, pageVars, ledgerVars, topupVars, slotVars, request, sessions, payments,
                 reviews>>

(* A refund or a dispute; the notice of it, as of a payment, is repeated    *)
(* until the server has taken it, and after.                                *)
payment_reviewed(x, n) ==
  /\ x \in payments /\ [id |-> n, session |-> x] \notin reviews
  /\ reviews' = reviews \cup {[id |-> n, session |-> x]}
  /\ UNCHANGED <<clock, pageVars, ledgerVars, topupVars, slotVars, request, sessions, closed,
                 payments>>

-----------------------------------------------------------------------------
(* handle_webhook.  A payment is told twice, as completed and as succeeded, *)
(* each any number of times.                                                *)
PAID_EVENTS == {"completed", "async_payment_succeeded"}

(* Mutant: only the same event is taken for a repetition.                   *)
Unsettled_by_event(t, kind) == [order |-> t.key, kind |-> kind] \notin receipts

(* A receipt is kept with the event that settled its order.                 *)
Unsettled(t, kind) == \A r \in receipts : r.order # t.key

settle_wallet_topup(t, kind) ==
  /\ BoundTo(t.key) \cap payments # {}
  /\ \/ /\ Unsettled(t, kind)
        /\ _wallet_balance(t.account) + t.cents <= MAX_CENTS
        /\ entries' = entries \cup
             {[seq |-> Cardinality(entries) + 1, key |-> t.key, account |-> t.account,
               kind |-> "stripe_topup", delta |-> t.cents, original |-> 0]}
        /\ receipts' = receipts \cup {[order |-> t.key, kind |-> kind]}
     \/ /\ ~Unsettled(t, kind)
        /\ UNCHANGED <<entries, receipts>>
  /\ UNCHANGED <<clock, pageVars, purchases, topups, bound, holds, resolved, slotVars, request,
                 stripeVars>>

(* A review may be heard of before the payment it is about is credited.     *)
hold_wallet_topup(t) == \E r \in reviews :
  LET h == [order |-> t.key, account |-> t.account, event |-> r.id]
  IN  /\ r.session.order = t.key /\ h \notin holds
      /\ holds' = holds \cup {h}
      /\ UNCHANGED <<clock, pageVars, ledgerVars, topups, bound, receipts, resolved, slotVars,
                     request, stripeVars>>

(* Mutant: a review may be closed before its credit has come.               *)
Resolvable_early(h) == h \in holds \ resolved

(* An operator closes a review, when the credit it is about is there.       *)
Resolvable(h) == h \in holds \ resolved /\ \E r \in receipts : r.order = h.order

resolve_wallet_topup_hold(h) ==
  /\ Resolvable(h)
  /\ resolved' = resolved \cup {h}
  /\ UNCHANGED <<clock, pageVars, ledgerVars, topups, bound, receipts, holds, slotVars,
                 request, stripeVars>>

-----------------------------------------------------------------------------
(* A request ends within a tick of the clock it began in, or the next.      *)
Tick ==
  /\ clock < MaxClock
  /\ \A k \in Keys : request[k].at # "none" => request[k].now = clock
  /\ clock' = clock + 1
  /\ UNCHANGED <<pageVars, ledgerVars, topupVars, slotVars, request, stripeVars>>

Pages == \E a \in Accounts :
  topup_page(a) \/ adjust_page(a) \/ \E s \in Slots : purchase_page(a, s) \/ renew_page(a, s)

Submissions == \E f \in forms :
  _adjust_wallet_credit(f) \/ purchase_slot(f) \/ renew_paid_slot(f) \/ create_wallet_topup(f)

Checkouts == \E t \in topups :
  create_session(t) \/ bind_wallet_checkout(t) \/ retrieve_open_session(t) \/ hand_out(t)
    \/ request_ends(t)

Webhooks == \E t \in topups :
  hold_wallet_topup(t) \/ \E kind \in PAID_EVENTS : settle_wallet_topup(t, kind)

Stripe == \E x \in sessions :
  session_expires(x) \/ customer_pays(x) \/ \E n \in 1..MaxReviews : payment_reviewed(x, n)

Fleet == \E s \in Slots :
  \/ SlotMoves(s)
  \/ \E a \in Accounts : claim_slot(a, s)
  \/ \E n \in Prices : set_node_offer(s, n)

Next ==
  \/ Pages \/ Submissions \/ Checkouts \/ Webhooks \/ Stripe \/ Fleet
  \/ \E h \in holds : resolve_wallet_topup_hold(h)
  \/ Tick

Spec == Init /\ [][Next]_vars

-----------------------------------------------------------------------------
Operations == {"topup", "purchase", "renewal", "admin_credit", "admin_debit", "purchase_return"}

(* Every variable has the type its column or field has; a free slot has     *)
(* neither holder nor claim.                                                *)
TypeOK ==
  /\ clock \in Times
  /\ \A f \in forms : f.key \in Keys /\ f.op \in Operations /\ f.account \in Accounts
  /\ \A e \in entries : e.key \in Keys /\ e.account \in Accounts /\ e.delta \in Int
  /\ \A p \in purchases : p.claim \in 1..claims /\ p.start \in Nat /\ p.end \in Nat
  /\ \A t \in topups : t.key \in Keys /\ t.account \in Accounts /\ t.cents \in Amounts
  /\ bound \subseteq sessions /\ sessions \subseteq Sessions
  /\ \A r \in receipts : r.order \in Keys /\ r.kind \in PAID_EVENTS
  /\ resolved \subseteq holds
  /\ links \subseteq sessions /\ closed \subseteq sessions /\ payments \subseteq sessions
  /\ held_by \in [Slots -> Accounts \cup {None}]
  /\ claim \in [Slots -> 0..MaxClaims] /\ claims \in 0..MaxClaims
  /\ state \in [Slots -> {"free", "claiming", "claimed", "releasing"}]
  /\ \A s \in Slots : (state[s] = "free") = (held_by[s] = None) /\ (state[s] = "free") = (claim[s] = 0)
  /\ price \in [Slots -> Prices]
  /\ request \in [Keys -> [at : {"none", "ordered", "created", "bound"}, now : Times]]

(* Credit from outside is money paid: each payment a customer made for an   *)
(* order is credited at most once, to whoever ordered it and as much as was *)
(* ordered, however its notices are repeated, doubled or reordered.         *)
EachPaymentCreditedOnce ==
  /\ \A e \in entries : e.kind = "stripe_topup" =>
       /\ \E x \in payments : x.order = e.key
       /\ \E t \in topups : t.key = e.key /\ t.account = e.account /\ t.cents = e.delta
  /\ \A d, e \in entries :
       d.kind = "stripe_topup" /\ e.kind = "stripe_topup" /\ d.key = e.key => d = e

(* An order has one Session for ever: no lost answer, repeated form or      *)
(* restart gives the customer a second link to pay the same order by, and   *)
(* whatever they pay is already bound to its order.                         *)
OnePayableLink ==
  /\ \A x, y \in sessions : x.order = y.order => x = y
  /\ payments \subseteq bound

(* A form moves money once, however often and late it is submitted, and     *)
(* moves what its page said: that amount, for that slot, and for a renewal  *)
(* that claim of it, or else nothing.                                       *)
OneFormOneDebit ==
  /\ \A d, e \in entries : d.key = e.key => d = e
  /\ \A p \in purchases : \E f \in forms :
       /\ f.key = p.key /\ f.op = p.operation /\ f.account = p.account
       /\ f.slot = p.slot /\ f.cents = p.cents
       /\ f.op = "renewal" => f.claim = p.claim

(* Each month paid for is a month more: no two orders of a claim cover the  *)
(* same day, and only who bought a claim renews it.                         *)
PaidMonthsApart == \A p, q \in purchases : p.claim = q.claim =>
  /\ p.account = q.account /\ p.slot = q.slot
  /\ p # q => p.end <= q.start \/ q.end <= p.start

(* What is given back for a purchase never exceeds its price, and no        *)
(* account's ledger, summed, leaves the range of a balance.                 *)
LedgerSound ==
  /\ \A p \in purchases : Returned(p.key) <= p.cents
  /\ \A a \in Accounts : _wallet_balance(a) \in 0..MAX_CENTS

(* A customer's money comes in once, by the one link of its order.          *)
TopupsSound == EachPaymentCreditedOnce /\ OnePayableLink

(* Credit is spent once for what its page showed, for months that follow    *)
(* each other, and is given back no more than was paid.                     *)
MonthsSound == OneFormOneDebit /\ PaidMonthsApart /\ LedgerSound

(* From the notice of a refund or a dispute until an operator has closed    *)
(* it, which cannot be before the credit it is about has come, the account  *)
(* buys nothing: credit in doubt is not spent.                              *)
ReviewStopsSpending ==
  [][\A h \in holds :
       /\ h \notin resolved =>
            {p \in purchases' : p.account = h.account} = {p \in purchases : p.account = h.account}
       /\ h \in resolved' => \E e \in entries : e.kind = "stripe_topup" /\ e.key = h.order]_vars

-----------------------------------------------------------------------------
(* Seen as PrepaidCredit: a balance is the ledger of its account, summed;   *)
(* the payments are credited, the orders spent, and every other entry is an *)
(* adjustment.                                                              *)
MoveOf(e) == [identity |-> e.key, account |-> e.account, cents |-> e.delta]

OrderMove(p) == [identity |-> p.key, account |-> p.account, cents |-> p.cents]

Balances == [a \in Accounts |-> _wallet_balance(a)]

Credited == {MoveOf(e) : e \in {d \in entries : d.kind = "stripe_topup"}}

Spent == {OrderMove(p) : p \in purchases}

Adjusted == {MoveOf(e) : e \in {d \in entries : d.kind \notin {"stripe_topup", "slot_purchase"}}}

Credit == INSTANCE PrepaidCredit WITH
  Limit <- MAX_CENTS, Identities <- Keys, Events <- 1..MaxReviews,
  balance <- Balances, credited <- Credited, spent <- Spent, adjusted <- Adjusted,
  doubted <- holds, settled <- resolved

(* The ledger, the orders and the review holds are prepaid credit and       *)
(* nothing else: a balance moves only with the entry or the order that says *)
(* so, each identity once; an account with a review open buys nothing; and  *)
(* a review, once closed, was of credit that came to that account, and is   *)
(* not opened again by a notice repeated.                                   *)
ImplementsCredit == Credit!Spec

=============================================================================

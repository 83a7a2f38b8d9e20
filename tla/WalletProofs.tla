---------------------------- MODULE WalletProofs ----------------------------
(***************************************************************************)
(* Theorems about Wallet, for every set of accounts, slots, prices and     *)
(* amounts, every clock, and every number of forms, claims and reviews.    *)
(* What is said of the ledger's sums rests on the lemmas of Sums.          *)
(***************************************************************************)
EXTENDS Wallet, Sums

-----------------------------------------------------------------------------
(* The inductive invariant, in four parts that speak of different variables.*)

(* A form's identity is its own, and a top-up order is of one form.         *)
FormsApart ==
  /\ clock \in Nat /\ IsFiniteSet(forms)
  /\ \A f \in forms :
       /\ f.key \in Keys /\ f.key \in 1..Cardinality(forms) /\ f.account \in Accounts
       /\ f.op \in {"purchase", "renewal"} => f.slot \in Slots
  /\ \A f, g \in forms : f.key = g.key => f = g
  /\ \A t \in topups :
       /\ t.created \in Nat /\ t.created <= clock
       /\ \E f \in forms : f.key = t.key /\ f.op = "topup"
  /\ \A t, u \in topups : t.key = u.key => t = u

(* An entry is of one form, and a credit of one receipt.                    *)
EntriesApart ==
  /\ \A d, e \in entries : d.key = e.key => d = e
  /\ \A e \in entries : \E f \in forms :
       f.key = e.key /\ (e.kind = "stripe_topup" <=> f.op = "topup")
  /\ \A e \in entries : e.kind = "stripe_topup" =>
       /\ \E r \in receipts : r.order = e.key
       /\ \E x \in payments : x.order = e.key
       /\ \E t \in topups : t.key = e.key /\ t.account = e.account /\ t.cents = e.delta
  /\ \A r \in receipts : \E e \in entries : e.kind = "stripe_topup" /\ e.key = r.order
  /\ \A h \in resolved : \E e \in entries : e.kind = "stripe_topup" /\ e.key = h.order

(* Requests are of now, and a Session is made after its order.              *)
SessionsApart ==
  /\ request \in [Keys -> [at : {"none", "ordered", "created", "bound"}, now : Nat]]
  /\ \A k \in Keys : request[k].at # "none" =>
       request[k].now <= clock /\ clock <= request[k].now + 1
  /\ \A x \in sessions :
       /\ x.made \in Nat /\ \E t \in topups : t.key = x.order
       /\ \A t \in topups : t.key = x.order => t.created <= x.made
  /\ \A x, y \in sessions : x.order = y.order => x = y
  /\ links \subseteq bound /\ payments \subseteq bound

(* A claim is one buyer's of one slot, its months follow each other, and    *)
(* one of them is the last.                                                 *)
MonthsApart ==
  /\ claims \in Nat /\ claim \in [Slots -> Nat]
  /\ held_by \in [Slots -> Accounts \cup {None}]
  /\ \A s \in Slots : claim[s] <= claims
  /\ \A p \in purchases :
       /\ p.claim \in 1..claims /\ p.start \in Int /\ p.end \in Int
       /\ \E f \in forms :
            /\ f.key = p.key /\ f.op = p.operation /\ f.account = p.account
            /\ f.slot = p.slot /\ f.cents = p.cents
            /\ f.op = "renewal" => f.claim = p.claim
       /\ \A s \in Slots : claim[s] = p.claim => p.slot = s /\ p.account = held_by[s]
       /\ \E q \in purchases : q.claim = p.claim /\ \A r \in purchases :
            r.claim = p.claim => r.end <= q.end
  /\ PaidMonthsApart

WalletInv == FormsApart /\ EntriesApart /\ SessionsApart /\ MonthsApart

USE WalletAssumption
USE DEF pageVars, ledgerVars, topupVars, slotVars, stripeVars

LEMMA InvGivesProperties == ASSUME WalletInv PROVE TopupsSound /\ OneFormOneDebit /\ PaidMonthsApart
<1>1. EachPaymentCreditedOnce
  BY DEF WalletInv, EntriesApart, EachPaymentCreditedOnce
<1>2. OnePayableLink
  BY DEF WalletInv, SessionsApart, OnePayableLink
<1>3. OneFormOneDebit
  BY DEF WalletInv, EntriesApart, MonthsApart, OneFormOneDebit
<1> QED
  BY <1>1, <1>2, <1>3 DEF TopupsSound, WalletInv, MonthsApart

-----------------------------------------------------------------------------
(* What leaves a part alone.                                                *)

LEMMA FormsStay ==
  ASSUME FormsApart, UNCHANGED <<forms, topups>>, clock' \in Nat, clock <= clock'
  PROVE  FormsApart'
BY DEF FormsApart, Keys

(* More forms, orders and payments take nothing from an entry.              *)
LEMMA EntriesStay ==
  ASSUME EntriesApart, UNCHANGED <<entries, receipts, resolved>>,
         forms \subseteq forms', topups \subseteq topups', payments \subseteq payments'
  PROVE  EntriesApart'
BY DEF EntriesApart

LEMMA SessionsStay ==
  ASSUME SessionsApart, UNCHANGED <<topups, request, clock, sessions, links, bound, payments>>
  PROVE  SessionsApart'
BY DEF SessionsApart, Keys

LEMMA MonthsStay ==
  ASSUME MonthsApart, UNCHANGED <<purchases, claims, claim, held_by>>, forms \subseteq forms'
  PROVE  MonthsApart'
BY DEF MonthsApart, PaidMonthsApart

-----------------------------------------------------------------------------
(* Pages.                                                                   *)

LEMMA ShowKeeps ==
  ASSUME WalletInv, NEW f, Show(f), f.key = Cardinality(forms) + 1, f.account \in Accounts,
         f.op \in {"purchase", "renewal"} => f.slot \in Slots
  PROVE  WalletInv'
<1>1. /\ forms' = forms \cup {f} /\ Cardinality(forms) < MaxForms
      /\ UNCHANGED <<clock, links, ledgerVars, topupVars, slotVars, request, stripeVars>>
  BY DEF Show
<1>2. IsFiniteSet(forms) /\ Cardinality(forms) \in Nat
  BY FS_CardinalityType DEF WalletInv, FormsApart
<1>3. f \notin forms
  BY <1>2 DEF WalletInv, FormsApart
<1>4. IsFiniteSet(forms') /\ Cardinality(forms') = Cardinality(forms) + 1
  BY <1>1, <1>2, <1>3, FS_AddElement
<1>5. FormsApart'
  <2>1. \A g \in forms' : g \in forms \/ g = f
    BY <1>1
  <2>2. \A g \in forms' :
          /\ g.key \in Keys /\ g.key \in 1..Cardinality(forms') /\ g.account \in Accounts
          /\ g.op \in {"purchase", "renewal"} => g.slot \in Slots
    BY <1>1, <1>2, <1>4, <2>1 DEF WalletInv, FormsApart, Keys
  <2>3. \A g, h \in forms' : g.key = h.key => g = h
    BY <1>2, <2>1 DEF WalletInv, FormsApart
  <2>4. \A t \in topups' :
          /\ t.created \in Nat /\ t.created <= clock'
          /\ \E g \in forms' : g.key = t.key /\ g.op = "topup"
    BY <1>1 DEF WalletInv, FormsApart
  <2>5. clock' \in Nat /\ \A t, u \in topups' : t.key = u.key => t = u
    BY <1>1 DEF WalletInv, FormsApart
  <2> QED
    BY <1>4, <2>2, <2>3, <2>4, <2>5 DEF FormsApart, Keys
<1> QED
  BY <1>1, <1>5, EntriesStay, SessionsStay, MonthsStay DEF WalletInv

LEMMA PagesKeep == ASSUME WalletInv, Pages PROVE WalletInv'
<1>1. PICK a \in Accounts : topup_page(a) \/ adjust_page(a) \/ \E s \in Slots : purchase_page(a, s) \/ renew_page(a, s)
  BY DEF Pages
<1>2. CASE topup_page(a)
  BY <1>2, ShowKeeps DEF topup_page, Form
<1>3. CASE adjust_page(a)
  <2>1. PICK op \in {"admin_credit", "admin_debit", "purchase_return"} : \E n, of : Show(Form(op, a, None, 0, n, of))
    BY <1>3 DEF adjust_page
  <2> QED
    BY <2>1, ShowKeeps DEF Form
<1>4. CASE \E s \in Slots : purchase_page(a, s) \/ renew_page(a, s)
  <2>1. PICK s \in Slots, op \in {"purchase", "renewal"} : \E c, n : Show(Form(op, a, s, c, n, 0))
    BY <1>4 DEF purchase_page, renew_page
  <2> QED
    BY <2>1, ShowKeeps DEF Form
<1> QED
  BY <1>1, <1>2, <1>3, <1>4

-----------------------------------------------------------------------------
(* The ledger.                                                              *)

(* A form that has no entry gets one.                                       *)
LEMMA EntryKeeps ==
  ASSUME WalletInv, NEW f \in forms, NEW kind, NEW delta, f.op # "topup", kind # "stripe_topup",
         ~Used(f.key), entries' = entries \cup {Entry(f, kind, delta)},
         UNCHANGED <<forms, topups, receipts, resolved, payments>>
  PROVE  EntriesApart'
<1> DEFINE new == Entry(f, kind, delta)
<1>1. new.key = f.key /\ new.kind = kind /\ entries' = entries \cup {new}
  BY DEF Entry
<1> HIDE DEF new
<1>2. \A e \in entries' : e \in entries \/ e = new
  BY <1>1
<1>3. \A e \in entries : e.key # f.key
  BY DEF Used
<1>4. \A d, e \in entries' : d.key = e.key => d = e
  BY <1>1, <1>2, <1>3 DEF WalletInv, EntriesApart
<1>5. \A e \in entries' : \E g \in forms' : g.key = e.key /\ (e.kind = "stripe_topup" <=> g.op = "topup")
  BY <1>1, <1>2 DEF WalletInv, EntriesApart
<1>6. \A e \in entries' : e.kind = "stripe_topup" => e \in entries
  BY <1>1, <1>2
<1> QED
  BY <1>1, <1>4, <1>5, <1>6 DEF WalletInv, EntriesApart

LEMMA AdjustKeeps == ASSUME WalletInv, NEW f \in forms, _adjust_wallet_credit(f) PROVE WalletInv'
<1> DEFINE delta == IF f.op = "admin_debit" THEN -f.cents ELSE f.cents
<1>1. /\ f.op \in {"admin_credit", "admin_debit", "purchase_return"} /\ ~Used(f.key)
      /\ entries' = entries \cup {Entry(f, f.op, delta)}
      /\ UNCHANGED <<clock, pageVars, purchases, topupVars, slotVars, request, stripeVars>>
  BY DEF _adjust_wallet_credit
<1> HIDE DEF delta
<1>2. EntriesApart'
  BY <1>1, EntryKeeps
<1> QED
  BY <1>1, <1>2, FormsStay, SessionsStay, MonthsStay DEF WalletInv, FormsApart

(* A month is added to a claim: the first, or one after all there are.      *)
LEMMA OrderKeeps ==
  ASSUME WalletInv, NEW f \in forms, NEW s \in Slots, NEW c, NEW start \in Int,
         s = f.slot, f.op = "renewal" => f.claim = c,
         _wallet_order(f, c, start), UNCHANGED forms,
         claims' \in Nat, claims <= claims', c \in 1..claims',
         claim' \in [Slots -> Nat], held_by' \in [Slots -> Accounts \cup {None}],
         \A z \in Slots : claim'[z] <= claims',
         \A z \in Slots : claim'[z] \in 1..claims => claim'[z] = claim[z] /\ held_by'[z] = held_by[z],
         \A z \in Slots : claim'[z] = c => z = s, held_by'[s] = f.account,
         \A q \in purchases : q.claim = c => q.slot = s /\ q.account = f.account /\ q.end <= start
  PROVE  MonthsApart'
<1> DEFINE new == [key |-> f.key, operation |-> f.op, account |-> f.account, slot |-> f.slot,
                   claim |-> c, cents |-> f.cents, start |-> start, end |-> start + Month]
<1>1. purchases' = purchases \cup {new}
  BY DEF _wallet_order
<1>2. /\ new.key = f.key /\ new.operation = f.op /\ new.account = f.account /\ new.slot = s
      /\ new.claim = c /\ new.cents = f.cents /\ new.start = start /\ new.end = start + Month
  OBVIOUS
<1> HIDE DEF new
<1>3. \A p \in purchases' : p \in purchases \/ p = new
  BY <1>1
<1>4. claims \in Nat /\ \A p \in purchases : p.claim \in 1..claims /\ p.start \in Int /\ p.end \in Int
  BY DEF WalletInv, MonthsApart
<1>5. \A p \in purchases' : p.claim \in 1..claims' /\ p.start \in Int /\ p.end \in Int
  BY <1>2, <1>3, <1>4
<1>6. \A p \in purchases' : \E g \in forms' :
        /\ g.key = p.key /\ g.op = p.operation /\ g.account = p.account
        /\ g.slot = p.slot /\ g.cents = p.cents
        /\ g.op = "renewal" => g.claim = p.claim
  BY <1>2, <1>3 DEF WalletInv, MonthsApart
<1>7. \A p \in purchases' : \A z \in Slots : claim'[z] = p.claim => p.slot = z /\ p.account = held_by'[z]
  BY <1>2, <1>3, <1>4 DEF WalletInv, MonthsApart
<1>8. \A p \in purchases' : \E q \in purchases' : q.claim = p.claim /\ \A r \in purchases' :
        r.claim = p.claim => r.end <= q.end
  <2> SUFFICES ASSUME NEW p \in purchases'
               PROVE  \E q \in purchases' : q.claim = p.claim /\ \A r \in purchases' :
                        r.claim = p.claim => r.end <= q.end
    OBVIOUS
  <2>1. CASE p.claim = c
    <3>1. \A r \in purchases' : r.claim = c => r.end <= new.end
      BY <1>2, <1>3, <1>4
    <3> QED
      BY <1>1, <1>2, <2>1, <3>1
  <2>2. CASE p.claim # c
    <3>1. p \in purchases
      BY <1>2, <1>3, <2>2
    <3>2. PICK q \in purchases : q.claim = p.claim /\ \A r \in purchases : r.claim = p.claim => r.end <= q.end
      BY <3>1 DEF WalletInv, MonthsApart
    <3> QED
      BY <1>1, <1>2, <1>3, <2>2, <3>2
  <2> QED
    BY <2>1, <2>2
<1>9. PaidMonthsApart'
  <2> SUFFICES ASSUME NEW p \in purchases', NEW q \in purchases', p.claim = q.claim
               PROVE  /\ p.account = q.account /\ p.slot = q.slot
                      /\ p # q => p.end <= q.start \/ q.end <= p.start
    BY DEF PaidMonthsApart
  <2>1. CASE p \in purchases /\ q \in purchases
    BY <2>1 DEF WalletInv, MonthsApart, PaidMonthsApart
  <2>2. CASE p = new \/ q = new
    BY <1>2, <1>3, <2>2
  <2> QED
    BY <1>3, <2>1, <2>2
<1> QED
  BY <1>5, <1>6, <1>7, <1>8, <1>9 DEF MonthsApart

LEMMA MaxIs ==
  ASSUME NEW S, S \subseteq Int, NEW m \in S, \A x \in S : x <= m
  PROVE  Max(S) = m
<1>1. \A x \in S : m >= x
  OBVIOUS
<1>2. Max(S) \in S /\ \A y \in S : Max(S) >= y
  BY <1>1 DEF Max
<1>3. m \in Int /\ Max(S) \in Int /\ m >= Max(S) /\ Max(S) >= m
  BY <1>1, <1>2
<1> QED
  BY <1>3

LEMMA PurchaseKeeps == ASSUME WalletInv, NEW f \in forms, purchase_slot(f) PROVE WalletInv'
<1>1. /\ f.op = "purchase" /\ ~Used(f.key) /\ f.slot \in Slots /\ f.account \in Accounts
      /\ claims' = claims + 1 /\ held_by' = [held_by EXCEPT ![f.slot] = f.account]
      /\ claim' = [claim EXCEPT ![f.slot] = claims + 1]
      /\ _wallet_order(f, claims + 1, clock)
      /\ UNCHANGED <<clock, pageVars, topupVars, price, request, stripeVars>>
  BY DEF purchase_slot, Payable, WalletInv, FormsApart
<1>2. /\ clock \in Nat /\ claims \in Nat /\ claim \in [Slots -> Nat]
      /\ held_by \in [Slots -> Accounts \cup {None}] /\ \A z \in Slots : claim[z] <= claims
      /\ \A q \in purchases : q.claim \in 1..claims
  BY DEF WalletInv, FormsApart, MonthsApart
<1>3. /\ claim' \in [Slots -> Nat] /\ claim'[f.slot] = claims + 1
      /\ held_by' \in [Slots -> Accounts \cup {None}] /\ held_by'[f.slot] = f.account
      /\ \A z \in Slots : z # f.slot => claim'[z] = claim[z] /\ held_by'[z] = held_by[z]
  BY <1>1, <1>2
<1>4. MonthsApart'
  <2>1. /\ claims' \in Nat /\ claims <= claims' /\ claims + 1 \in 1..claims'
        /\ \A z \in Slots : claim'[z] <= claims'
        /\ \A z \in Slots : claim'[z] \in 1..claims => claim'[z] = claim[z] /\ held_by'[z] = held_by[z]
        /\ \A z \in Slots : claim'[z] = claims + 1 => z = f.slot
        /\ \A q \in purchases : q.claim # claims + 1
    BY <1>1, <1>2, <1>3
  <2> QED
    BY <1>1, <1>2, <1>3, <2>1, OrderKeeps
<1>5. EntriesApart'
  BY <1>1, EntryKeeps DEF _wallet_order
<1> QED
  BY <1>1, <1>4, <1>5, FormsStay, SessionsStay DEF WalletInv, FormsApart

(* A renewal begins no earlier than the last month of its claim ends.       *)
LEMMA RenewKeeps == ASSUME WalletInv, NEW f \in forms, renew_paid_slot(f) PROVE WalletInv'
<1> DEFINE s == f.slot
           c == claim[s]
<1>1. /\ f.op = "renewal" /\ ~Used(f.key) /\ s \in Slots /\ f.account \in Accounts
      /\ held_by[s] = f.account /\ c = f.claim /\ paid_slot_through(s, c) # None
      /\ _wallet_order(f, c, RenewalStart(f))
      /\ UNCHANGED <<clock, pageVars, topupVars, slotVars, request, stripeVars>>
  BY DEF renew_paid_slot, Payable, _wallet_current_slot, WalletInv, FormsApart
<1>2. /\ clock \in Int /\ claims \in Nat /\ claim \in [Slots -> Nat]
      /\ held_by \in [Slots -> Accounts \cup {None}] /\ \A z \in Slots : claim[z] <= claims
      /\ \A q \in purchases : q.claim \in 1..claims /\ q.end \in Int
  BY DEF WalletInv, FormsApart, MonthsApart
<1>3. \A q \in purchases : q.claim = c => q.slot = s /\ q.account = f.account
  BY <1>1 DEF WalletInv, MonthsApart
<1>4. PICK q \in purchases : q.claim = c
  BY <1>1 DEF paid_slot_through, PeriodsOf
<1>5. \A z \in Slots : claim[z] = c => z = s
  BY <1>1, <1>4 DEF WalletInv, MonthsApart
<1>6. PICK last \in purchases : last.claim = c /\ \A r \in purchases : r.claim = c => r.end <= last.end
  BY <1>4 DEF WalletInv, MonthsApart
<1>7. paid_slot_through(s, c) = last.end
  <2>1. last \in PeriodsOf(s, c)
    BY <1>3, <1>6 DEF PeriodsOf
  <2>2. {p.end : p \in PeriodsOf(s, c)} \subseteq Int
    BY <1>2 DEF PeriodsOf
  <2>3. \A x \in {p.end : p \in PeriodsOf(s, c)} : x <= last.end
    BY <1>6 DEF PeriodsOf
  <2>4. Max({p.end : p \in PeriodsOf(s, c)}) = last.end
    BY <2>1, <2>2, <2>3, MaxIs
  <2> QED
    BY <2>1, <2>4 DEF paid_slot_through
<1>8. RenewalStart(f) \in Int /\ last.end <= RenewalStart(f)
  <2>1. RenewalStart(f) = Max({clock, last.end}) /\ last.end \in Int
    BY <1>1, <1>2, <1>7 DEF RenewalStart
  <2>2. CASE clock <= last.end
    <3>1. {clock, last.end} \subseteq Int /\ \A x \in {clock, last.end} : x <= last.end
      BY <1>2, <2>1, <2>2
    <3> QED
      BY <2>1, <3>1, MaxIs
  <2>3. CASE last.end <= clock
    BY <1>2, <2>1, <2>3, MaxIs
  <2> QED
    BY <1>2, <2>1, <2>2, <2>3
<1>9. \A r \in purchases : r.claim = c => r.end <= RenewalStart(f)
  BY <1>2, <1>6, <1>8
<1> HIDE DEF c
<1>10. MonthsApart'
  <2>1. c \in 1..claims /\ UNCHANGED <<claims, claim, held_by, forms>>
    BY <1>1, <1>2, <1>4
  <2> QED
    BY <1>1, <1>2, <1>3, <1>5, <1>8, <1>9, <2>1, OrderKeeps DEF c
<1>11. EntriesApart'
  BY <1>1, EntryKeeps DEF _wallet_order
<1> QED
  BY <1>1, <1>2, <1>10, <1>11, FormsStay, SessionsStay DEF WalletInv, FormsApart

-----------------------------------------------------------------------------
(* Checkout requests.                                                       *)

LEMMA OrderIsOfOneForm ==
  ASSUME WalletInv, NEW f \in forms, create_wallet_topup(f)
  PROVE  WalletInv'
<1>1. /\ f.op = "topup" /\ f.key \in Keys /\ request[f.key].at = "none"
      /\ request' = [request EXCEPT ![f.key] = [at |-> "ordered", now |-> clock]]
      /\ UNCHANGED <<clock, pageVars, ledgerVars, bound, receipts, holds, resolved, slotVars,
                     stripeVars>>
  BY DEF create_wallet_topup, WalletInv, FormsApart
<1> DEFINE new == [key |-> f.key, account |-> f.account, cents |-> f.cents, created |-> clock]
<1>2. \/ topups' = topups
      \/ (\A t \in topups : t.key # f.key) /\ topups' = topups \cup {new}
  BY Zenon DEF create_wallet_topup
<1>3. new.key = f.key /\ new.created = clock
  OBVIOUS
<1> HIDE DEF new
<1>4. FormsApart'
  <2>1. CASE topups' = topups
    BY <1>1, <2>1, FormsStay DEF WalletInv, FormsApart
  <2>2. CASE (\A t \in topups : t.key # f.key) /\ topups' = topups \cup {new}
    <3>1. \A t \in topups' : t \in topups \/ t = new
      BY <2>2
    <3>2. \A t \in topups' :
            /\ t.created \in Nat /\ t.created <= clock'
            /\ \E g \in forms' : g.key = t.key /\ g.op = "topup"
      BY <1>1, <1>3, <3>1 DEF WalletInv, FormsApart
    <3>3. \A t, u \in topups' : t.key = u.key => t = u
      BY <1>3, <2>2, <3>1 DEF WalletInv, FormsApart
    <3> QED
      BY <1>1, <3>2, <3>3 DEF WalletInv, FormsApart, Keys
  <2> QED
    BY <1>2, <2>1, <2>2
<1>5. SessionsApart'
  <2>1. /\ request' \in [Keys -> [at : {"none", "ordered", "created", "bound"}, now : Nat]]
        /\ \A k \in Keys : k # f.key => request'[k] = request[k]
        /\ request'[f.key].now = clock /\ clock \in Nat
    BY <1>1 DEF WalletInv, SessionsApart, FormsApart
  <2>2. \A k \in Keys : request'[k].at # "none" => request'[k].now <= clock' /\ clock' <= request'[k].now + 1
    BY <1>1, <2>1 DEF WalletInv, SessionsApart
  <2>3. \A x \in sessions : \E t \in topups : t.key = x.order
    BY DEF WalletInv, SessionsApart
  <2>4. \A x \in sessions' :
          /\ x.made \in Nat /\ \E t \in topups' : t.key = x.order
          /\ \A t \in topups' : t.key = x.order => t.created <= x.made
    BY <1>1, <1>2, <1>3, <2>3 DEF WalletInv, SessionsApart
  <2> QED
    BY <1>1, <2>1, <2>2, <2>4 DEF WalletInv, SessionsApart, Keys
<1>6. topups \subseteq topups'
  BY <1>2
<1> QED
  BY <1>1, <1>4, <1>5, <1>6, EntriesStay, MonthsStay DEF WalletInv

(* A request goes on, or ends: it is as old as it was.                      *)
LEMMA RequestKeeps ==
  ASSUME WalletInv, NEW k \in Keys, NEW where \in {"created", "bound"}, request[k].at # "none",
         At(k, where) \/ Done(k)
  PROVE  /\ request' \in [Keys -> [at : {"none", "ordered", "created", "bound"}, now : Nat]]
         /\ \A j \in Keys : request'[j].at # "none" =>
              request'[j].now <= clock /\ clock <= request'[j].now + 1
<1>1. /\ request \in [Keys -> [at : {"none", "ordered", "created", "bound"}, now : Nat]]
      /\ \A j \in Keys : request[j].at # "none" =>
              request[j].now <= clock /\ clock <= request[j].now + 1
  BY DEF WalletInv, SessionsApart
<1>2. CASE At(k, where)
  <2>1. \A j \in Keys : j # k => request'[j] = request[j]
    BY <1>1, <1>2 DEF At
  <2>2. request'[k].now = request[k].now
    BY <1>1, <1>2 DEF At
  <2>3. request' \in [Keys -> [at : {"none", "ordered", "created", "bound"}, now : Nat]]
    BY <1>1, <1>2 DEF At
  <2> QED
    BY <1>1, <2>1, <2>2, <2>3
<1>3. CASE Done(k)
  <2>1. \A j \in Keys : request'[j] = IF j = k THEN [at |-> "none", now |-> 0] ELSE request[j]
    BY <1>1, <1>3 DEF Done
  <2>2. request' \in [Keys -> [at : {"none", "ordered", "created", "bound"}, now : Nat]]
    BY <1>1, <1>3 DEF Done
  <2> QED
    BY <1>1, <2>1, <2>2
<1> QED
  BY <1>2, <1>3

(* What is left of the invariant where Sessions alone can change.           *)
LEMMA RestStays ==
  ASSUME WalletInv, SessionsApart', payments \subseteq payments',
         UNCHANGED <<clock, forms, ledgerVars, topups, receipts, resolved, slotVars>>
  PROVE  WalletInv'
BY FormsStay, EntriesStay, MonthsStay DEF WalletInv, FormsApart

(* A Session that was made for the order is one Stripe still remembers: it  *)
(* is no older than the order, whose retries the window bounds.             *)
LEMMA SessionIsRemembered ==
  ASSUME WalletInv, NEW t \in topups, NEW x \in sessions, x.order = t.key,
         request[t.key].at # "none", InWindow(t)
  PROVE  x \in Remembered(t.key)
<1>1. t.key \in Keys /\ t.created \in Nat /\ clock \in Nat
  BY DEF WalletInv, FormsApart
<1>2. request[t.key].now \in Nat /\ clock <= request[t.key].now + 1
  BY <1>1 DEF WalletInv, SessionsApart
<1>3. x.made \in Nat /\ t.created <= x.made
  BY DEF WalletInv, SessionsApart
<1>4. request[t.key].now - t.created < CREATE_RETRY_WINDOW
  BY DEF InWindow
<1>5. clock - x.made < Retention
  BY <1>1, <1>2, <1>3, <1>4 DEF WalletAssumption
<1> QED
  BY <1>5 DEF Remembered

LEMMA CreateKeeps == ASSUME WalletInv, NEW t \in topups, create_session(t) PROVE WalletInv'
<1>1. /\ request[t.key].at = "ordered" /\ InWindow(t) /\ At(t.key, "created")
      /\ UNCHANGED <<clock, pageVars, ledgerVars, topupVars, slotVars, closed, payments, reviews>>
  BY DEF create_session
<1>2. t.key \in Keys /\ clock \in Nat
  BY DEF WalletInv, FormsApart
<1> DEFINE new == [order |-> t.key, made |-> clock]
<1>3. \/ sessions' = sessions
      \/ (\A x \in sessions : x.order # t.key) /\ sessions' = sessions \cup {new}
  <2>1. CASE \E x \in sessions : x.order = t.key
    BY <1>1, <2>1, SessionIsRemembered DEF create_session
  <2>2. CASE \A x \in sessions : x.order # t.key
    BY <2>2 DEF create_session
  <2> QED
    BY <2>1, <2>2
<1>4. new.order = t.key /\ new.made = clock
  OBVIOUS
<1> HIDE DEF new
<1>5. SessionsApart'
  <2>1. \A x \in sessions' : x \in sessions \/ x = new
    BY <1>3
  <2>2. \A x \in sessions' :
          /\ x.made \in Nat /\ \E u \in topups' : u.key = x.order
          /\ \A u \in topups' : u.key = x.order => u.created <= x.made
    BY <1>1, <1>2, <1>4, <2>1 DEF WalletInv, SessionsApart, FormsApart
  <2>3. \A x, y \in sessions' : x.order = y.order => x = y
    BY <1>3, <1>4, <2>1 DEF WalletInv, SessionsApart
  <2>4. /\ request' \in [Keys -> [at : {"none", "ordered", "created", "bound"}, now : Nat]]
        /\ \A j \in Keys : request'[j].at # "none" =>
              request'[j].now <= clock /\ clock <= request'[j].now + 1
    BY <1>1, <1>2, RequestKeeps
  <2> QED
    BY <1>1, <2>2, <2>3, <2>4 DEF WalletInv, SessionsApart, Keys
<1> QED
  BY <1>1, <1>5, RestStays

LEMMA CheckoutKeeps ==
  ASSUME WalletInv, NEW t \in topups,
         bind_wallet_checkout(t) \/ retrieve_open_session(t) \/ hand_out(t) \/ request_ends(t)
  PROVE  WalletInv'
<1>1. /\ request[t.key].at # "none" /\ (\E w \in {"created", "bound"} : At(t.key, w) \/ Done(t.key))
      /\ UNCHANGED <<clock, forms, ledgerVars, topups, receipts, holds, resolved, slotVars, stripeVars>>
      /\ bound \subseteq bound' /\ links' \subseteq links \cup bound
  BY DEF bind_wallet_checkout, retrieve_open_session, hand_out, request_ends, BoundTo
<1>2. t.key \in Keys
  BY DEF WalletInv, FormsApart
<1>3. /\ request' \in [Keys -> [at : {"none", "ordered", "created", "bound"}, now : Nat]]
      /\ \A j \in Keys : request'[j].at # "none" =>
            request'[j].now <= clock /\ clock <= request'[j].now + 1
  BY <1>1, <1>2, RequestKeeps
<1>4. SessionsApart'
  BY <1>1, <1>3 DEF WalletInv, SessionsApart, Keys
<1> QED
  BY <1>1, <1>4, RestStays

-----------------------------------------------------------------------------
(* Stripe and its notices.                                                  *)

LEMMA StripeKeeps == ASSUME WalletInv, Stripe PROVE WalletInv'
<1>1. /\ UNCHANGED <<clock, pageVars, ledgerVars, topupVars, slotVars, request, sessions>>
      /\ payments \subseteq payments' /\ payments' \subseteq payments \cup links
  BY DEF Stripe, session_expires, customer_pays, payment_reviewed
<1>2. SessionsApart'
  BY <1>1 DEF WalletInv, SessionsApart, Keys
<1> QED
  BY <1>1, <1>2, RestStays

(* An order with no receipt has no credit: an entry of its form would be    *)
(* one, and would have left its receipt.                                    *)
LEMMA SettleKeeps ==
  ASSUME WalletInv, NEW t \in topups, NEW kind \in PAID_EVENTS, settle_wallet_topup(t, kind)
  PROVE  WalletInv'
<1>1. UNCHANGED <<clock, pageVars, purchases, topups, bound, holds, resolved, slotVars, request, stripeVars>>
  BY DEF settle_wallet_topup
<1>2. EntriesApart'
  <2>1. CASE UNCHANGED <<entries, receipts>>
    BY <1>1, <2>1, EntriesStay DEF WalletInv
  <2>2. CASE ~ UNCHANGED <<entries, receipts>>
    <3> DEFINE new == [seq |-> Cardinality(entries) + 1, key |-> t.key, account |-> t.account,
                       kind |-> "stripe_topup", delta |-> t.cents, original |-> 0]
               receipt == [order |-> t.key, kind |-> kind]
    <3>1. /\ Unsettled(t, kind) /\ entries' = entries \cup {new}
          /\ receipts' = receipts \cup {receipt}
      BY <2>2 DEF settle_wallet_topup
    <3>2. /\ new.key = t.key /\ new.account = t.account /\ new.kind = "stripe_topup"
          /\ new.delta = t.cents /\ receipt.order = t.key
      OBVIOUS
    <3> HIDE DEF new, receipt
    <3>3. PICK f \in forms : f.key = t.key /\ f.op = "topup"
      BY DEF WalletInv, FormsApart
    <3>4. \A e \in entries : e.key # t.key
      <4> SUFFICES ASSUME NEW e \in entries, e.key = t.key PROVE FALSE
        OBVIOUS
      <4>1. e.kind = "stripe_topup"
        BY <3>3 DEF WalletInv, EntriesApart, FormsApart
      <4>2. \E r \in receipts : r.order = t.key
        BY <4>1 DEF WalletInv, EntriesApart
      <4> QED
        BY <3>1, <4>2 DEF Unsettled
    <3>5. PICK x \in payments : x.order = t.key
      BY DEF settle_wallet_topup, BoundTo
    <3>6. \A e \in entries' : e \in entries \/ e = new
      BY <3>1
    <3>7. \A d, e \in entries' : d.key = e.key => d = e
      BY <3>2, <3>4, <3>6 DEF WalletInv, EntriesApart
    <3>8. \A e \in entries' : \E g \in forms' :
            g.key = e.key /\ (e.kind = "stripe_topup" <=> g.op = "topup")
      BY <1>1, <3>2, <3>3, <3>6 DEF WalletInv, EntriesApart
    <3>9. \A e \in entries' : e.kind = "stripe_topup" =>
            /\ \E r \in receipts' : r.order = e.key
            /\ \E y \in payments' : y.order = e.key
            /\ \E u \in topups' : u.key = e.key /\ u.account = e.account /\ u.cents = e.delta
      BY <1>1, <3>1, <3>2, <3>5, <3>6 DEF WalletInv, EntriesApart
    <3>10. \A r \in receipts' : \E e \in entries' : e.kind = "stripe_topup" /\ e.key = r.order
      BY <3>1, <3>2 DEF WalletInv, EntriesApart
    <3>11. \A h \in resolved' : \E e \in entries' : e.kind = "stripe_topup" /\ e.key = h.order
      BY <1>1, <3>1 DEF WalletInv, EntriesApart
    <3> QED
      BY <3>7, <3>8, <3>9, <3>10, <3>11 DEF EntriesApart
  <2> QED
    BY <2>1, <2>2
<1> QED
  BY <1>1, <1>2, FormsStay, SessionsStay, MonthsStay DEF WalletInv, FormsApart

LEMMA HoldKeeps == ASSUME WalletInv, NEW t \in topups, hold_wallet_topup(t) PROVE WalletInv'
<1>1. UNCHANGED <<clock, pageVars, ledgerVars, topups, bound, receipts, resolved, slotVars,
                  request, stripeVars>>
  BY DEF hold_wallet_topup
<1> QED
  BY <1>1, FormsStay, EntriesStay, SessionsStay, MonthsStay DEF WalletInv, FormsApart

LEMMA ResolveKeeps == ASSUME WalletInv, NEW h \in holds, resolve_wallet_topup_hold(h) PROVE WalletInv'
<1>1. /\ resolved' = resolved \cup {h} /\ \E r \in receipts : r.order = h.order
      /\ UNCHANGED <<clock, pageVars, ledgerVars, topups, bound, receipts, holds, slotVars,
                     request, stripeVars>>
  BY DEF resolve_wallet_topup_hold, Resolvable
<1>2. EntriesApart'
  BY <1>1 DEF WalletInv, EntriesApart
<1> QED
  BY <1>1, <1>2, FormsStay, SessionsStay, MonthsStay DEF WalletInv, FormsApart

-----------------------------------------------------------------------------
(* Slots and the clock.                                                     *)

(* A claim that has months stays with its buyer till its slot is free.      *)
LEMMA ClaimsKeep ==
  ASSUME WalletInv, claims' \in Nat, claims <= claims', claim' \in [Slots -> Nat],
         held_by' \in [Slots -> Accounts \cup {None}], \A z \in Slots : claim'[z] <= claims',
         \A z \in Slots : claim'[z] \in 1..claims => claim'[z] = claim[z] /\ held_by'[z] = held_by[z],
         UNCHANGED <<clock, pageVars, ledgerVars, topupVars, request, stripeVars>>
  PROVE  WalletInv'
<1>1. MonthsApart'
  <2>1. claims \in Nat /\ \A p \in purchases : p.claim \in 1..claims
    BY DEF WalletInv, MonthsApart
  <2>2. \A p \in purchases : p.claim \in 1..claims'
    BY <2>1
  <2>3. \A p \in purchases : \A s \in Slots : claim'[s] = p.claim => p.slot = s /\ p.account = held_by'[s]
    BY <2>1 DEF WalletInv, MonthsApart
  <2> QED
    BY <2>2, <2>3 DEF WalletInv, MonthsApart, PaidMonthsApart
<1> QED
  BY <1>1, FormsStay, EntriesStay, SessionsStay DEF WalletInv, FormsApart

LEMMA FleetKeeps == ASSUME WalletInv, Fleet PROVE WalletInv'
<1>1. PICK s \in Slots :
        \/ SlotMoves(s)
        \/ \E a \in Accounts : claim_slot(a, s)
        \/ \E n \in Prices : set_node_offer(s, n)
  BY DEF Fleet
<1>2. /\ claims \in Nat /\ claim \in [Slots -> Nat]
      /\ held_by \in [Slots -> Accounts \cup {None}] /\ \A z \in Slots : claim[z] <= claims
  BY DEF WalletInv, MonthsApart
<1>3. CASE SlotMoves(s) /\ UNCHANGED <<held_by, claim>>
  BY <1>2, <1>3, ClaimsKeep DEF SlotMoves
<1>4. CASE SlotMoves(s) /\ _free_released(s)
  <2>1. /\ claim' = [claim EXCEPT ![s] = 0] /\ held_by' = [held_by EXCEPT ![s] = None]
        /\ claims' = claims
        /\ UNCHANGED <<clock, pageVars, ledgerVars, topupVars, request, stripeVars>>
    BY <1>4 DEF SlotMoves, _free_released
  <2>2. /\ claim' \in [Slots -> Nat] /\ held_by' \in [Slots -> Accounts \cup {None}]
        /\ claim'[s] = 0 /\ \A z \in Slots : z # s => claim'[z] = claim[z] /\ held_by'[z] = held_by[z]
    BY <1>2, <2>1
  <2> QED
    BY <1>2, <2>1, <2>2, ClaimsKeep
<1>5. CASE \E a \in Accounts : claim_slot(a, s)
  <2>1. PICK a \in Accounts : claim_slot(a, s)
    BY <1>5
  <2>2. /\ claim' = [claim EXCEPT ![s] = claims + 1] /\ held_by' = [held_by EXCEPT ![s] = a]
        /\ claims' = claims + 1
        /\ UNCHANGED <<clock, pageVars, ledgerVars, topupVars, request, stripeVars>>
    BY <2>1 DEF claim_slot
  <2>3. /\ claim' \in [Slots -> Nat] /\ held_by' \in [Slots -> Accounts \cup {None}]
        /\ claim'[s] = claims + 1
        /\ \A z \in Slots : z # s => claim'[z] = claim[z] /\ held_by'[z] = held_by[z]
    BY <1>2, <2>2
  <2> QED
    BY <1>2, <2>2, <2>3, ClaimsKeep
<1>6. CASE \E n \in Prices : set_node_offer(s, n)
  BY <1>2, <1>6, ClaimsKeep DEF set_node_offer
<1>7. SlotMoves(s) => UNCHANGED <<held_by, claim>> \/ _free_released(s)
  BY DEF SlotMoves, slot_moves
<1> QED
  BY <1>1, <1>3, <1>4, <1>5, <1>6, <1>7

LEMMA TickKeeps == ASSUME WalletInv, Tick PROVE WalletInv'
<1>1. /\ clock' = clock + 1 /\ clock \in Nat
      /\ \A k \in Keys : request[k].at # "none" => request[k].now = clock
      /\ UNCHANGED <<pageVars, ledgerVars, topupVars, slotVars, request, stripeVars>>
  BY DEF Tick, WalletInv, FormsApart
<1>2. FormsApart'
  BY <1>1, FormsStay DEF WalletInv
<1>3. SessionsApart'
  BY <1>1 DEF WalletInv, SessionsApart, Keys
<1> QED
  BY <1>1, <1>2, <1>3, EntriesStay, MonthsStay DEF WalletInv

-----------------------------------------------------------------------------
LEMMA InitHolds == ASSUME Init PROVE WalletInv
<1>1. FormsApart
  BY FS_EmptySet DEF Init, FormsApart, Keys
<1>2. EntriesApart
  BY DEF Init, EntriesApart
<1>3. SessionsApart
  BY DEF Init, SessionsApart, Keys
<1>4. MonthsApart
  BY DEF Init, MonthsApart, PaidMonthsApart
<1> QED
  BY <1>1, <1>2, <1>3, <1>4 DEF WalletInv

LEMMA NextKeeps == ASSUME WalletInv, Next PROVE WalletInv'
<1>1. CASE Pages
  BY <1>1, PagesKeep
<1>2. CASE Submissions
  BY <1>2, AdjustKeeps, PurchaseKeeps, RenewKeeps, OrderIsOfOneForm DEF Submissions
<1>3. CASE Checkouts
  BY <1>3, CreateKeeps, CheckoutKeeps DEF Checkouts
<1>4. CASE Webhooks
  BY <1>4, HoldKeeps, SettleKeeps DEF Webhooks
<1>5. CASE Stripe
  BY <1>5, StripeKeeps
<1>6. CASE Fleet
  BY <1>6, FleetKeeps
<1>7. CASE \E h \in holds : resolve_wallet_topup_hold(h)
  BY <1>7, ResolveKeeps
<1>8. CASE Tick
  BY <1>8, TickKeeps
<1> QED
  BY <1>1, <1>2, <1>3, <1>4, <1>5, <1>6, <1>7, <1>8 DEF Next

LEMMA StutterKeeps == ASSUME WalletInv, UNCHANGED vars PROVE WalletInv'
<1>1. UNCHANGED <<clock, pageVars, ledgerVars, topupVars, slotVars, request, stripeVars>>
  BY DEF vars
<1> QED
  BY <1>1, FormsStay, EntriesStay, SessionsStay, MonthsStay DEF WalletInv, FormsApart

LEMMA InvHolds == Spec => []WalletInv
<1>1. Init => WalletInv
  BY InitHolds
<1>2. WalletInv /\ [Next]_vars => WalletInv'
  BY NextKeeps, StutterKeeps
<1> QED
  BY <1>1, <1>2, PTL DEF Spec

(* Every payment a customer makes for a top-up is credited once, to who     *)
(* ordered it and for what they ordered, and an order never has a second    *)
(* Session to pay it by (stripe_billing.start_checkout, which retries only  *)
(* within CREATE_RETRY_WINDOW; store.settle_wallet_topup).                  *)
THEOREM TopupsSoundAlways == Spec => []TopupsSound
<1>1. WalletInv => TopupsSound
  BY InvGivesProperties
<1> QED
  BY <1>1, InvHolds, PTL

(* A form moves money once and as its page said, and the months bought for  *)
(* a claim follow each other and are one buyer's (store.purchase_slot,      *)
(* renew_paid_slot, _wallet_order), the two parts of MonthsSound that no    *)
(* sum is in.                                                               *)
THEOREM MonthsApartAlways == Spec => [](OneFormOneDebit /\ PaidMonthsApart)
<1>1. WalletInv => OneFormOneDebit /\ PaidMonthsApart
  BY InvGivesProperties
<1> QED
  BY <1>1, InvHolds, PTL

-----------------------------------------------------------------------------
(* The ledger, summed.  A month's debit is its form's only entry, so a      *)
(* purchase begins with nothing given back; and what is given back is added *)
(* to what was.                                                             *)
SumOf(S) == MapThenSumSet(Delta, S)

ReturnsOf(key) == {e \in entries : e.kind = "purchase_return" /\ e.original = key}

Amounted ==
  /\ price \in [Slots -> Prices]
  /\ \A f \in forms : f.cents \in Nat
  /\ \A t \in topups : t.cents \in Nat /\ t.account \in Accounts

Balanced ==
  /\ IsFiniteSet(entries) /\ \A e \in entries : e.delta \in Int
  /\ \A p \in purchases : p.cents \in Nat /\ \E e \in entries : e.key = p.key
  /\ \A p, q \in purchases : p.key = q.key => p = q
  /\ \A e \in entries : e.kind = "purchase_return" => \E p \in purchases : p.key = e.original
  /\ LedgerSound

LEMMA SumOfIsTotal ==
  ASSUME NEW S, IsFiniteSet(S)
  PROVE  SumOf(S) = Total([e \in S |-> e.delta], S)
<1> DEFINE F == [e \in S |-> e.delta]
           P(it) == it = [s \in SUBSET S |-> IF s = {} THEN 0
                           ELSE (CHOOSE x \in s : TRUE).delta + it[s \ {CHOOSE x \in s : TRUE}]]
<1>1. SumOf(S) = (CHOOSE it : P(it))[S]
  BY DEF SumOf, MapThenSumSet, MapThenFoldSet, Delta
<1>2. ASSUME NEW it PROVE P(it) <=> Adds(F, S, it)
  <2>1. \A s \in SUBSET S : s # {} => First(s) \in S /\ F[First(s)] = First(s).delta
    BY FirstIsIn
  <2>2. \A s \in SUBSET S :
          (IF s = {} THEN 0 ELSE F[First(s)] + it[s \ {First(s)}])
             = IF s = {} THEN 0 ELSE First(s).delta + it[s \ {First(s)}]
    BY <2>1
  <2>3. [s \in SUBSET S |-> IF s = {} THEN 0 ELSE F[First(s)] + it[s \ {First(s)}]]
         = [s \in SUBSET S |-> IF s = {} THEN 0 ELSE First(s).delta + it[s \ {First(s)}]]
    BY <2>2
  <2>4. P(it) <=> it = [s \in SUBSET S |-> IF s = {} THEN 0 ELSE First(s).delta + it[s \ {First(s)}]]
    BY DEF First
  <2> QED
    BY <2>3, <2>4 DEF Adds
<1>3. PICK it : Adds(F, S, it)
  BY AddsExists
<1> HIDE DEF P, F
<1>4. P(CHOOSE jt : P(jt))
  BY <1>2, <1>3
<1>5. Adds(F, S, CHOOSE jt : P(jt))
  BY <1>2, <1>4
<1>6. Total(F, S) = (CHOOSE jt : P(jt))[S]
  BY <1>5, TotalIs
<1> QED
  BY <1>1, <1>6 DEF F

LEMMA SumInt ==
  ASSUME NEW S, IsFiniteSet(S), \A e \in S : e.delta \in Int
  PROVE  SumOf(S) \in Int
<1> DEFINE F == [e \in S |-> e.delta]
<1>1. \A e \in S : F[e] \in Int
  OBVIOUS
<1>2. SumOf(S) = Total(F, S)
  BY SumOfIsTotal
<1> HIDE DEF F
<1> QED
  BY <1>1, <1>2, TotalInt

LEMMA SumWith ==
  ASSUME NEW S, IsFiniteSet(S), \A e \in S : e.delta \in Int, NEW x, x \notin S, x.delta \in Int
  PROVE  SumOf(S \cup {x}) = SumOf(S) + x.delta
<1> DEFINE T == S \cup {x}
           F == [e \in T |-> e.delta]
           G == [e \in S |-> e.delta]
<1>1. F[x] = x.delta /\ (\A e \in S : F[e] = e.delta /\ G[e] = e.delta)
  OBVIOUS
<1>2. IsFiniteSet(T)
  BY FS_AddElement
<1>3. SumOf(T) = Total(F, T) /\ SumOf(S) = Total(G, S)
  BY <1>2, SumOfIsTotal
<1> HIDE DEF F, G
<1>4. Total(F, S) = Total(G, S)
  BY <1>1, TotalSame
<1>5. Total(F, T) = F[x] + Total(F, S)
  BY <1>1, TotalWith
<1>6. SumOf(S) \in Int
  BY SumInt
<1> QED
  BY <1>1, <1>3, <1>4, <1>5, <1>6

LEMMA SumsAre ==
  /\ \A a : _wallet_balance(a) = SumOf(EntriesOf(a))
  /\ \A k : Returned(k) = SumOf(ReturnsOf(k))
BY DEF _wallet_balance, Returned, ReturnsOf, SumOf

LEMMA SumsAreNext ==
  /\ \A a : _wallet_balance(a)' = SumOf(EntriesOf(a)')
  /\ \A k : Returned(k)' = SumOf(ReturnsOf(k)')
BY DEF _wallet_balance, Returned, ReturnsOf, SumOf

(* Nothing is summed anew where no entry is written.                        *)
LEMMA SumsStay ==
  ASSUME UNCHANGED entries
  PROVE  /\ \A a : _wallet_balance(a)' = _wallet_balance(a)
         /\ \A k : Returned(k)' = Returned(k)
<1>1. \A a : EntriesOf(a)' = EntriesOf(a)
  BY DEF EntriesOf
<1>2. \A k : ReturnsOf(k)' = ReturnsOf(k)
  BY DEF ReturnsOf
<1> QED
  BY <1>1, <1>2, SumsAre, SumsAreNext

(* An entry counts for its account, and a return for its purchase.          *)
LEMMA EntryCounts ==
  ASSUME Balanced, NEW new, new \notin entries, new.delta \in Int, entries' = entries \cup {new}
  PROVE  /\ IsFiniteSet(entries') /\ \A e \in entries' : e.delta \in Int
         /\ \A a : /\ _wallet_balance(a) \in Int
                   /\ _wallet_balance(a)' = IF new.account = a THEN _wallet_balance(a) + new.delta
                                            ELSE _wallet_balance(a)
         /\ \A k : /\ Returned(k) \in Int
                   /\ Returned(k)' = IF new.kind = "purchase_return" /\ new.original = k
                                     THEN Returned(k) + new.delta ELSE Returned(k)
<1>1. IsFiniteSet(entries) /\ \A e \in entries : e.delta \in Int
  BY DEF Balanced
<1>2. IsFiniteSet(entries') /\ \A e \in entries' : e.delta \in Int
  BY <1>1, FS_AddElement
<1>3. ASSUME NEW S, S \subseteq entries
      PROVE  /\ SumOf(S) \in Int
             /\ SumOf(S \cup {new}) = SumOf(S) + new.delta
  <2>1. IsFiniteSet(S) /\ (\A e \in S : e.delta \in Int) /\ new \notin S
    BY <1>1, <1>3, FS_Subset
  <2> QED
    BY <2>1, SumInt, SumWith
<1>4. ASSUME NEW a
      PROVE  /\ _wallet_balance(a) \in Int
             /\ _wallet_balance(a)' = IF new.account = a THEN _wallet_balance(a) + new.delta
                                      ELSE _wallet_balance(a)
  <2>1. /\ EntriesOf(a) \subseteq entries
        /\ EntriesOf(a)' = IF new.account = a THEN EntriesOf(a) \cup {new} ELSE EntriesOf(a)
    BY DEF EntriesOf
  <2> QED
    BY <1>3, <2>1, SumsAre, SumsAreNext
<1>5. ASSUME NEW k
      PROVE  /\ Returned(k) \in Int
             /\ Returned(k)' = IF new.kind = "purchase_return" /\ new.original = k
                               THEN Returned(k) + new.delta ELSE Returned(k)
  <2>1. /\ ReturnsOf(k) \subseteq entries
        /\ ReturnsOf(k)' = IF new.kind = "purchase_return" /\ new.original = k
                           THEN ReturnsOf(k) \cup {new} ELSE ReturnsOf(k)
    BY DEF ReturnsOf
  <2> QED
    BY <1>3, <2>1, SumsAre, SumsAreNext
<1> QED
  BY <1>2, <1>4, <1>5

LEMMA BalancedStays ==
  ASSUME Balanced, UNCHANGED ledgerVars
  PROVE  Balanced'
<1>1. LedgerSound'
  BY SumsStay DEF Balanced, LedgerSound
<1> QED
  BY <1>1 DEF Balanced

LEMMA FormIsOfAnAmount ==
  ASSUME Amounted, Pages
  PROVE  Amounted'
<1>1. \E f : Show(f) /\ f.cents \in Nat
  <2>1. PICK a \in Accounts :
          topup_page(a) \/ adjust_page(a) \/ \E s \in Slots : purchase_page(a, s) \/ renew_page(a, s)
    BY DEF Pages
  <2>2. CASE topup_page(a)
    BY <2>2 DEF topup_page, Form
  <2>3. CASE adjust_page(a)
    <3>1. PICK op, of : \E n \in Amounts : Show(Form(op, a, None, 0, n, of))
      BY <2>3 DEF adjust_page
    <3> QED
      BY <3>1 DEF Form
  <2>4. CASE \E s \in Slots : purchase_page(a, s) \/ renew_page(a, s)
    <3>1. PICK s \in Slots : \E op, c : Show(Form(op, a, s, c, price[s], 0))
      BY <2>4 DEF purchase_page, renew_page
    <3>2. price[s] \in Nat
      BY DEF Amounted
    <3> QED
      BY <3>1, <3>2 DEF Form
  <2> QED
    BY <2>1, <2>2, <2>3, <2>4
<1>2. PICK f : Show(f) /\ f.cents \in Nat
  BY <1>1
<1> QED
  BY <1>2 DEF Show, Amounted

(* What an adjustment does: a debit stays above nothing, a return within    *)
(* the price of its purchase.                                               *)
LEMMA AdjustBalances ==
  ASSUME WalletInv, Amounted, Balanced, NEW f \in forms, _adjust_wallet_credit(f)
  PROVE  Balanced'
<1> DEFINE delta == IF f.op = "admin_debit" THEN -f.cents ELSE f.cents
           new == Entry(f, f.op, delta)
<1>1. /\ ~Used(f.key)
      /\ f.op = "purchase_return" => Returnable(f)
      /\ _wallet_balance(f.account) + delta \in 0..MAX_CENTS
      /\ entries' = entries \cup {new} /\ purchases' = purchases
  BY DEF _adjust_wallet_credit
<1>2. delta \in Int /\ (f.op = "purchase_return" => delta = f.cents)
  BY DEF Amounted
<1> HIDE DEF delta
<1>3. /\ new.key = f.key /\ new.account = f.account /\ new.kind = f.op /\ new.delta = delta
      /\ new.original = f.of
  BY DEF Entry
<1> HIDE DEF new
<1>4. new \notin entries
  BY <1>1, <1>3 DEF Used
<1>5. /\ IsFiniteSet(entries') /\ \A e \in entries' : e.delta \in Int
      /\ \A a : _wallet_balance(a)' = IF new.account = a THEN _wallet_balance(a) + new.delta
                                      ELSE _wallet_balance(a)
      /\ \A k : /\ Returned(k) \in Int
                /\ Returned(k)' = IF new.kind = "purchase_return" /\ new.original = k
                                  THEN Returned(k) + new.delta ELSE Returned(k)
  BY <1>1, <1>2, <1>3, <1>4, EntryCounts
<1>6. \A a \in Accounts : _wallet_balance(a)' \in 0..MAX_CENTS
  BY <1>1, <1>3, <1>5 DEF Balanced, LedgerSound
<1>7. ASSUME NEW p \in purchases PROVE Returned(p.key)' <= p.cents
  <2>1. CASE new.kind = "purchase_return" /\ new.original = p.key
    <3>1. PICK q \in purchases : q.key = f.of /\ Returned(f.of) + f.cents <= q.cents
      BY <1>1, <1>3, <2>1 DEF Returnable
    <3>2. q = p
      BY <1>3, <2>1, <3>1 DEF Balanced
    <3> QED
      BY <1>2, <1>3, <1>5, <2>1, <3>1, <3>2
  <2>2. CASE ~(new.kind = "purchase_return" /\ new.original = p.key)
    BY <1>5, <2>2 DEF Balanced, LedgerSound
  <2> QED
    BY <2>1, <2>2
<1>8. LedgerSound'
  BY <1>1, <1>6, <1>7 DEF LedgerSound
<1>9. \A e \in entries' : e.kind = "purchase_return" => \E p \in purchases' : p.key = e.original
  BY <1>1, <1>3 DEF Balanced, Returnable
<1> QED
  BY <1>1, <1>5, <1>8, <1>9 DEF Balanced

(* What an order does: the debit is covered, and its form's first entry.    *)
LEMMA OrderBalances ==
  ASSUME WalletInv, Amounted, Balanced, NEW f \in forms, NEW c, NEW start,
         Payable(f), _wallet_order(f, c, start)
  PROVE  Balanced'
<1> DEFINE new == Entry(f, "slot_purchase", -f.cents)
           order == [key |-> f.key, operation |-> f.op, account |-> f.account, slot |-> f.slot,
                     claim |-> c, cents |-> f.cents, start |-> start, end |-> start + Month]
<1>1. /\ ~Used(f.key) /\ _wallet_balance(f.account) >= f.cents
      /\ entries' = entries \cup {new} /\ purchases' = purchases \cup {order}
  BY DEF Payable, _wallet_order
<1>2. /\ new.key = f.key /\ new.account = f.account /\ new.kind = "slot_purchase"
      /\ new.delta = -f.cents /\ order.key = f.key /\ order.cents = f.cents
      /\ f.cents \in Nat /\ f.account \in Accounts
  BY DEF Entry, Amounted, WalletInv, FormsApart
<1> HIDE DEF new, order
<1>3. new \notin entries
  BY <1>1, <1>2 DEF Used
<1>4. /\ IsFiniteSet(entries') /\ \A e \in entries' : e.delta \in Int
      /\ \A a : _wallet_balance(a)' = IF new.account = a THEN _wallet_balance(a) + new.delta
                                      ELSE _wallet_balance(a)
      /\ \A k : Returned(k)' = IF new.kind = "purchase_return" /\ new.original = k
                                THEN Returned(k) + new.delta ELSE Returned(k)
  <2>1. new.delta \in Int /\ entries' = entries \cup {new}
    BY <1>1, <1>2
  <2> QED
    BY <1>3, <2>1, EntryCounts
<1>13. \A k : Returned(k)' = Returned(k)
  BY <1>2, <1>4
<1>5. \A a \in Accounts : _wallet_balance(a)' \in 0..MAX_CENTS
  <2> SUFFICES ASSUME NEW a \in Accounts PROVE _wallet_balance(a)' \in 0..MAX_CENTS
    OBVIOUS
  <2>1. _wallet_balance(a) \in 0..MAX_CENTS
    BY DEF Balanced, LedgerSound
  <2> QED
    BY <1>1, <1>2, <1>4, <2>1
<1>6. \A p \in purchases : p.key # f.key
  BY <1>1 DEF Balanced, Used
<1>7. Returned(f.key) = 0
  <2>1. ReturnsOf(f.key) = {}
    BY <1>6 DEF Balanced, ReturnsOf
  <2>2. SumOf({}) = Total([e \in {} |-> e.delta], {})
    BY SumOfIsTotal, FS_EmptySet
  <2> QED
    BY <2>1, <2>2, SumsAre, TotalEmpty
<1>8. \A p \in purchases' : Returned(p.key)' <= p.cents
  BY <1>1, <1>2, <1>7, <1>13 DEF Balanced, LedgerSound
<1>9. LedgerSound'
  BY <1>5, <1>8 DEF LedgerSound
<1>10. \A p \in purchases' : p.cents \in Nat /\ \E e \in entries' : e.key = p.key
  BY <1>1, <1>2 DEF Balanced
<1>11. \A p, q \in purchases' : p.key = q.key => p = q
  BY <1>1, <1>2, <1>6 DEF Balanced
<1>12. \A e \in entries' : e.kind = "purchase_return" => \E p \in purchases' : p.key = e.original
  BY <1>1, <1>2 DEF Balanced
<1> QED
  BY <1>4, <1>9, <1>10, <1>11, <1>12 DEF Balanced

(* What a payment does, the one time it is credited.                        *)
LEMMA SettleBalances ==
  ASSUME WalletInv, WalletInv', Amounted, Balanced, NEW t \in topups, NEW kind,
         settle_wallet_topup(t, kind)
  PROVE  Balanced'
<1>1. CASE UNCHANGED entries
  BY <1>1, BalancedStays DEF settle_wallet_topup
<1>2. CASE ~UNCHANGED entries
  <2> DEFINE new == [seq |-> Cardinality(entries) + 1, key |-> t.key, account |-> t.account,
                     kind |-> "stripe_topup", delta |-> t.cents, original |-> 0]
  <2>1. /\ _wallet_balance(t.account) + t.cents <= MAX_CENTS
        /\ entries' = entries \cup {new} /\ purchases' = purchases
    BY <1>2 DEF settle_wallet_topup
  <2>2. /\ new.account = t.account /\ new.kind = "stripe_topup" /\ new.delta = t.cents
        /\ t.cents \in Nat /\ t.account \in Accounts
    BY DEF Amounted
  <2> HIDE DEF new
  <2>3. new \notin entries
    BY <1>2, <2>1
  <2>4. /\ IsFiniteSet(entries') /\ \A e \in entries' : e.delta \in Int
        /\ \A a : _wallet_balance(a)' = IF new.account = a THEN _wallet_balance(a) + new.delta
                                        ELSE _wallet_balance(a)
        /\ \A k : Returned(k)' = IF new.kind = "purchase_return" /\ new.original = k
                                  THEN Returned(k) + new.delta ELSE Returned(k)
    <3>1. new.delta \in Int /\ entries' = entries \cup {new}
      BY <2>1, <2>2
    <3> QED
      BY <2>3, <3>1, EntryCounts
  <2>7. \A k : Returned(k)' = Returned(k)
    BY <2>2, <2>4
  <2>5. \A a \in Accounts : _wallet_balance(a)' \in 0..MAX_CENTS
    <3> SUFFICES ASSUME NEW a \in Accounts PROVE _wallet_balance(a)' \in 0..MAX_CENTS
      OBVIOUS
    <3>1. _wallet_balance(a) \in 0..MAX_CENTS
      BY DEF Balanced, LedgerSound
    <3> QED
      BY <2>1, <2>2, <2>4, <3>1
  <2>6. LedgerSound'
    BY <2>1, <2>5, <2>7 DEF Balanced, LedgerSound
  <2> QED
    BY <2>1, <2>2, <2>4, <2>6 DEF Balanced
<1> QED
  BY <1>1, <1>2

LEMMA LedgerStep ==
  ASSUME WalletInv, WalletInv', Amounted, Balanced, [Next]_vars
  PROVE  Amounted' /\ Balanced'
<1>1. CASE Pages
  <2>1. UNCHANGED ledgerVars
    BY <1>1 DEF Pages, topup_page, adjust_page, purchase_page, renew_page, Show
  <2> QED
    BY <1>1, <2>1, FormIsOfAnAmount, BalancedStays
<1>2. CASE Submissions
  <2>1. PICK f \in forms :
          _adjust_wallet_credit(f) \/ purchase_slot(f) \/ renew_paid_slot(f) \/ create_wallet_topup(f)
    BY <1>2 DEF Submissions
  <2>2. CASE _adjust_wallet_credit(f)
    BY <2>2, AdjustBalances DEF _adjust_wallet_credit, Amounted
  <2>3. CASE purchase_slot(f)
    <3>1. Payable(f) /\ _wallet_order(f, claims + 1, clock) /\ UNCHANGED <<forms, topups, price>>
      BY <2>3 DEF purchase_slot
    <3> QED
      BY <3>1, OrderBalances DEF Amounted
  <2>4. CASE renew_paid_slot(f)
    <3>1. /\ Payable(f) /\ _wallet_order(f, claim[f.slot], RenewalStart(f))
          /\ UNCHANGED <<forms, topups, price>>
      BY <2>4 DEF renew_paid_slot
    <3> QED
      BY <3>1, OrderBalances DEF Amounted
  <2>5. CASE create_wallet_topup(f)
    <3>1. UNCHANGED <<forms, ledgerVars, price>>
      BY <2>5 DEF create_wallet_topup
    <3>2. \A t \in topups' : t \in topups \/ (t.cents = f.cents /\ t.account = f.account)
      BY <2>5 DEF create_wallet_topup
    <3>3. f.cents \in Nat /\ f.account \in Accounts
      BY DEF Amounted, WalletInv, FormsApart
    <3> QED
      BY <3>1, <3>2, <3>3, BalancedStays DEF Amounted
  <2> QED
    BY <2>1, <2>2, <2>3, <2>4, <2>5
<1>3. CASE Checkouts
  <2>1. UNCHANGED <<forms, topups, price, ledgerVars>>
    BY <1>3 DEF Checkouts, create_session, bind_wallet_checkout, retrieve_open_session, hand_out, request_ends
  <2> QED
    BY <2>1, BalancedStays DEF Amounted
<1>4. CASE Webhooks
  <2>1. PICK t \in topups : hold_wallet_topup(t) \/ \E kind \in PAID_EVENTS : settle_wallet_topup(t, kind)
    BY <1>4 DEF Webhooks
  <2>2. CASE hold_wallet_topup(t)
    BY <2>2, BalancedStays DEF hold_wallet_topup, Amounted
  <2>3. CASE \E kind \in PAID_EVENTS : settle_wallet_topup(t, kind)
    BY <2>3, SettleBalances DEF settle_wallet_topup, Amounted
  <2> QED
    BY <2>1, <2>2, <2>3
<1>5. CASE Stripe
  BY <1>5, BalancedStays DEF Stripe, session_expires, customer_pays, payment_reviewed, Amounted
<1>6. CASE Fleet
  <2>1. UNCHANGED <<forms, topups, ledgerVars>>
    BY <1>6 DEF Fleet, SlotMoves, claim_slot, set_node_offer
  <2>2. price' \in [Slots -> Prices]
    BY <1>6 DEF Fleet, SlotMoves, claim_slot, set_node_offer, Amounted
  <2> QED
    BY <2>1, <2>2, BalancedStays DEF Amounted
<1>7. CASE \E h \in holds : resolve_wallet_topup_hold(h)
  BY <1>7, BalancedStays DEF resolve_wallet_topup_hold, Amounted
<1>8. CASE Tick
  BY <1>8, BalancedStays DEF Tick, Amounted
<1>9. CASE UNCHANGED vars
  BY <1>9, BalancedStays DEF vars, Amounted
<1> QED
  BY <1>1, <1>2, <1>3, <1>4, <1>5, <1>6, <1>7, <1>8, <1>9 DEF Next

LEMMA LedgerInit == ASSUME Init PROVE Amounted /\ Balanced
<1>1. Amounted
  BY DEF Init, Amounted
<1>2. \A a : EntriesOf(a) = {}
  BY DEF Init, EntriesOf
<1>3. SumOf({}) = 0
  <2>1. SumOf({}) = Total([e \in {} |-> e.delta], {})
    BY SumOfIsTotal, FS_EmptySet
  <2> QED
    BY <2>1, TotalEmpty
<1>4. LedgerSound
  BY <1>2, <1>3, SumsAre DEF Init, LedgerSound
<1> QED
  BY <1>1, <1>4, FS_EmptySet DEF Init, Balanced

(* What is given back for a purchase never exceeds its price, and no        *)
(* account's ledger, summed, is below nothing or above the largest balance  *)
(* (store._wallet_balance, _adjust_wallet_credit, _wallet_order,            *)
(* settle_wallet_topup); with the two parts above, all of MonthsSound.      *)
THEOREM MonthsSoundAlways == Spec => []MonthsSound
<1>1. Init => Amounted /\ Balanced
  BY LedgerInit
<1>2. WalletInv /\ WalletInv' /\ Amounted /\ Balanced /\ [Next]_vars => Amounted' /\ Balanced'
  BY LedgerStep
<1>3. WalletInv /\ Balanced => MonthsSound
  BY InvGivesProperties DEF Balanced, MonthsSound
<1> QED
  BY <1>1, <1>2, <1>3, InvHolds, PTL DEF Spec

-----------------------------------------------------------------------------
(* Months are bought by purchase and renewal alone, for an account that has *)
(* nothing under review.                                                    *)
LEMMA BuyersAreUnblocked ==
  ASSUME [Next]_vars
  PROVE  \/ purchases' = purchases
         \/ \E f \in forms : \E p : ~spending_blocked(f.account) /\ p.account = f.account
                                   /\ purchases' = purchases \cup {p}
<1>1. CASE Submissions
  <2>1. PICK f \in forms : _adjust_wallet_credit(f) \/ purchase_slot(f) \/ renew_paid_slot(f) \/ create_wallet_topup(f)
    BY <1>1 DEF Submissions
  <2>2. CASE _adjust_wallet_credit(f) \/ create_wallet_topup(f)
    BY <2>2 DEF _adjust_wallet_credit, create_wallet_topup
  <2>3. CASE purchase_slot(f) \/ renew_paid_slot(f)
    <3>1. PICK c, start : _wallet_order(f, c, start)
      BY <2>3 DEF purchase_slot, renew_paid_slot
    <3>2. ~spending_blocked(f.account)
      BY <2>3 DEF purchase_slot, renew_paid_slot, Payable
    <3> DEFINE p == [key |-> f.key, operation |-> f.op, account |-> f.account, slot |-> f.slot,
                     claim |-> c, cents |-> f.cents, start |-> start, end |-> start + Month]
    <3>3. purchases' = purchases \cup {p} /\ p.account = f.account
      BY <3>1 DEF _wallet_order
    <3> HIDE DEF p
    <3> QED
      BY <3>2, <3>3
  <2> QED
    BY <2>1, <2>2, <2>3
<1>2. CASE Pages
  BY <1>2 DEF Pages, topup_page, adjust_page, purchase_page, renew_page, Show
<1>3. CASE Checkouts
  BY <1>3 DEF Checkouts, create_session, bind_wallet_checkout, retrieve_open_session, hand_out, request_ends
<1>4. CASE Webhooks \/ Stripe
  BY <1>4 DEF Webhooks, hold_wallet_topup, settle_wallet_topup, Stripe, session_expires, customer_pays, payment_reviewed
<1>5. CASE Fleet \/ Tick
  BY <1>5 DEF Fleet, SlotMoves, claim_slot, set_node_offer, Tick
<1>6. CASE \E h \in holds : resolve_wallet_topup_hold(h)
  BY <1>6 DEF resolve_wallet_topup_hold
<1>7. CASE UNCHANGED vars
  BY <1>7 DEF vars
<1> QED
  BY <1>1, <1>2, <1>3, <1>4, <1>5, <1>6, <1>7 DEF Next

(* A review is closed by its operator alone, who finds the credit there.    *)
LEMMA ClosedWhenCredited ==
  ASSUME WalletInv, [Next]_vars, NEW h \in resolved'
  PROVE  \E e \in entries : e.kind = "stripe_topup" /\ e.key = h.order
<1>1. CASE h \in resolved
  BY <1>1 DEF WalletInv, EntriesApart
<1>2. CASE h \notin resolved
  <2>1. CASE Submissions \/ Pages
    BY <1>2, <2>1 DEF Submissions, _adjust_wallet_credit, purchase_slot, renew_paid_slot, create_wallet_topup,
       Pages, topup_page, adjust_page, purchase_page, renew_page, Show
  <2>2. CASE Checkouts \/ Webhooks \/ Stripe \/ Fleet \/ Tick
    BY <1>2, <2>2 DEF Checkouts, create_session, bind_wallet_checkout, retrieve_open_session, hand_out, request_ends,
       Webhooks, hold_wallet_topup, settle_wallet_topup, Stripe, session_expires, customer_pays, payment_reviewed,
       Fleet, SlotMoves, claim_slot, set_node_offer, Tick
  <2>3. CASE \E g \in holds : resolve_wallet_topup_hold(g)
    BY <1>2, <2>3 DEF resolve_wallet_topup_hold, Resolvable, WalletInv, EntriesApart
  <2>4. CASE UNCHANGED vars
    BY <1>2, <2>4 DEF vars
  <2> QED
    BY <2>1, <2>2, <2>3, <2>4 DEF Next
<1> QED
  BY <1>1, <1>2

(* While a review is open its account buys nothing, and no review closes    *)
(* before the credit it doubts has come (store.spending_blocked, which      *)
(* purchase_slot and renew_paid_slot ask; resolve_wallet_topup_hold).       *)
THEOREM ReviewStopsSpendingAlways == Spec => ReviewStopsSpending
<1>1. ASSUME WalletInv, [Next]_vars, NEW h \in holds
      PROVE  /\ h \notin resolved =>
                  {p \in purchases' : p.account = h.account} = {p \in purchases : p.account = h.account}
             /\ h \in resolved' => \E e \in entries : e.kind = "stripe_topup" /\ e.key = h.order
  <2>1. h \notin resolved => \A f \in forms : ~spending_blocked(f.account) => f.account # h.account
    BY DEF spending_blocked
  <2>2. h \notin resolved =>
          {p \in purchases' : p.account = h.account} = {p \in purchases : p.account = h.account}
    BY <1>1, <2>1, BuyersAreUnblocked
  <2> QED
    BY <1>1, <2>2, ClosedWhenCredited
<1>2. ASSUME WalletInv, [Next]_vars
      PROVE  [\A h \in holds :
       /\ h \notin resolved =>
            {p \in purchases' : p.account = h.account} = {p \in purchases : p.account = h.account}
       /\ h \in resolved' => \E e \in entries : e.kind = "stripe_topup" /\ e.key = h.order]_vars
  BY <1>1, <1>2
<1> QED
  BY <1>2, InvHolds, PTL DEF Spec, ReviewStopsSpending

-----------------------------------------------------------------------------
(* Credit.  Beyond the ledger's invariant: what moves is an amount, a hold  *)
(* is of a payment its order was made for, and a notice has a number.       *)
Reviewed ==
  /\ \A f \in forms : f.cents # 0
  /\ \A t \in topups : t.cents # 0
  /\ \A r \in reviews : r.id \in 1..MaxReviews
  /\ \A h \in holds :
       /\ h \in [order : Keys, account : Accounts, event : 1..MaxReviews]
       /\ \E t \in topups : t.key = h.order /\ t.account = h.account

LEMMA ReviewedInit == ASSUME Init PROVE Reviewed
BY DEF Init, Reviewed

LEMMA ReviewedStays ==
  ASSUME Reviewed, UNCHANGED <<forms, reviews, holds>>,
         topups \subseteq topups', \A t \in topups' : t \in topups \/ t.cents # 0
  PROVE  Reviewed'
BY DEF Reviewed, Keys

LEMMA FormHasAnAmount ==
  ASSUME Amounted, Pages
  PROVE  /\ UNCHANGED <<topups, reviews, holds>>
         /\ \A f \in forms' : f \in forms \/ f.cents # 0
<1>1. PICK a \in Accounts :
        topup_page(a) \/ adjust_page(a) \/ \E s \in Slots : purchase_page(a, s) \/ renew_page(a, s)
  BY DEF Pages
<1>2. \E f : Show(f) /\ f.cents # 0
  <2>1. CASE topup_page(a)
    BY <2>1 DEF topup_page, Form
  <2>2. CASE adjust_page(a)
    <3>1. PICK op, of : \E n \in Amounts : Show(Form(op, a, None, 0, n, of))
      BY <2>2 DEF adjust_page
    <3> QED
      BY <3>1 DEF Form
  <2>3. CASE \E s \in Slots : purchase_page(a, s) \/ renew_page(a, s)
    <3>1. PICK s \in Slots : \E op, c : Show(Form(op, a, s, c, price[s], 0))
      BY <2>3 DEF purchase_page, renew_page
    <3>2. price[s] # 0
      BY DEF Amounted
    <3> QED
      BY <3>1, <3>2 DEF Form
  <2> QED
    BY <1>1, <2>1, <2>2, <2>3
<1> QED
  BY <1>2 DEF Show

LEMMA HoldReviewed ==
  ASSUME WalletInv, Amounted, Reviewed, NEW t \in topups, hold_wallet_topup(t)
  PROVE  Reviewed'
<1>1. PICK r \in reviews :
        /\ holds' = holds \cup {[order |-> t.key, account |-> t.account, event |-> r.id]}
        /\ UNCHANGED <<forms, topups, reviews>>
  BY DEF hold_wallet_topup
<1>2. t.key \in Keys /\ t.account \in Accounts /\ r.id \in 1..MaxReviews
  BY DEF WalletInv, FormsApart, Amounted, Reviewed
<1>3. PICK h : h = [order |-> t.key, account |-> t.account, event |-> r.id]
  OBVIOUS
<1>4. /\ h \in [order : Keys, account : Accounts, event : 1..MaxReviews]
      /\ t.key = h.order /\ t.account = h.account
  BY <1>2, <1>3
<1>5. holds' = holds \cup {h}
  BY <1>1, <1>3
<1> QED
  BY <1>1, <1>4, <1>5 DEF Reviewed, Keys

LEMMA ReviewedStep ==
  ASSUME WalletInv, Amounted, Reviewed, [Next]_vars
  PROVE  Reviewed'
<1>1. CASE Pages
  BY <1>1, FormHasAnAmount DEF Reviewed, Keys
<1>2. CASE Submissions
  <2>1. PICK f \in forms :
          _adjust_wallet_credit(f) \/ purchase_slot(f) \/ renew_paid_slot(f) \/ create_wallet_topup(f)
    BY <1>2 DEF Submissions
  <2>2. UNCHANGED <<forms, reviews, holds>>
    BY <2>1 DEF _adjust_wallet_credit, purchase_slot, renew_paid_slot, create_wallet_topup
  <2>3. topups \subseteq topups' /\ \A t \in topups' : t \in topups \/ t.cents = f.cents
    BY <2>1 DEF _adjust_wallet_credit, purchase_slot, renew_paid_slot, create_wallet_topup
  <2>4. f.cents # 0
    BY DEF Reviewed
  <2> QED
    BY <2>2, <2>3, <2>4, ReviewedStays
<1>3. CASE Checkouts
  BY <1>3, ReviewedStays DEF Checkouts, create_session, bind_wallet_checkout,
     retrieve_open_session, hand_out, request_ends
<1>4. CASE Webhooks
  <2>1. PICK t \in topups : hold_wallet_topup(t) \/ \E kind \in PAID_EVENTS : settle_wallet_topup(t, kind)
    BY <1>4 DEF Webhooks
  <2>2. CASE \E kind \in PAID_EVENTS : settle_wallet_topup(t, kind)
    BY <2>2, ReviewedStays DEF settle_wallet_topup
  <2> QED
    BY <2>1, <2>2, HoldReviewed
<1>5. CASE Stripe
  <2>1. UNCHANGED <<forms, topups, holds>>
    BY <1>5 DEF Stripe, session_expires, customer_pays, payment_reviewed
  <2>2. \A r \in reviews' : r \in reviews \/ r.id \in 1..MaxReviews
    <3>1. \/ reviews' = reviews
          \/ \E x \in sessions : \E n \in 1..MaxReviews : payment_reviewed(x, n)
      BY <1>5 DEF Stripe, session_expires, customer_pays
    <3>2. ASSUME NEW x \in sessions, NEW n \in 1..MaxReviews, payment_reviewed(x, n)
          PROVE  \A r \in reviews' : r \in reviews \/ r.id = n
      BY <3>2 DEF payment_reviewed
    <3> QED
      BY <3>1, <3>2
  <2> QED
    BY <2>1, <2>2 DEF Reviewed, Keys
<1>6. CASE Fleet \/ Tick
  BY <1>6, ReviewedStays DEF Fleet, SlotMoves, claim_slot, set_node_offer, Tick
<1>7. CASE \E h \in holds : resolve_wallet_topup_hold(h)
  BY <1>7, ReviewedStays DEF resolve_wallet_topup_hold
<1>8. CASE UNCHANGED vars
  BY <1>8, ReviewedStays DEF vars
<1> QED
  BY <1>1, <1>2, <1>3, <1>4, <1>5, <1>6, <1>7, <1>8 DEF Next

-----------------------------------------------------------------------------
(* What an entry is, seen as credit.                                        *)

LEMMA BooksStay ==
  ASSUME UNCHANGED ledgerVars
  PROVE  UNCHANGED <<Balances, Credited, Spent, Adjusted>>
<1>1. Balances' = Balances
  BY SumsStay DEF Balances
<1> QED
  BY <1>1 DEF Credited, Spent, Adjusted

LEMMA EntryMoves ==
  ASSUME Balanced, NEW new, new \notin entries, new.delta \in Int, new.account \in Accounts,
         entries' = entries \cup {new}
  PROVE  /\ Balances[new.account] \in Int
         /\ Balances'[new.account] - Balances[new.account] = new.delta
         /\ Balances' = [Balances EXCEPT ![new.account] =
              Balances[new.account] + (Balances'[new.account] - Balances[new.account])]
<1>1. \A a : /\ _wallet_balance(a) \in Int
             /\ _wallet_balance(a)' = IF new.account = a THEN _wallet_balance(a) + new.delta
                                      ELSE _wallet_balance(a)
  BY EntryCounts
<1>2. \A a \in Accounts : /\ Balances[a] \in Int
                          /\ Balances'[a] = IF new.account = a THEN Balances[a] + new.delta
                                            ELSE Balances[a]
  BY <1>1 DEF Balances
<1>3. Balances'[new.account] - Balances[new.account] = new.delta
  BY <1>2
<1>4. DOMAIN Balances = Accounts /\ DOMAIN Balances' = Accounts
      /\ Balances = [a \in Accounts |-> Balances[a]] /\ Balances' = [a \in Accounts |-> Balances'[a]]
  BY DEF Balances
<1> QED
  BY <1>2, <1>3, <1>4

LEMMA EntryIsOfAKind ==
  ASSUME NEW new, entries' = entries \cup {new}
  PROVE  /\ Credited' = IF new.kind = "stripe_topup" THEN Credited \cup {MoveOf(new)} ELSE Credited
         /\ Adjusted' = IF new.kind \in {"stripe_topup", "slot_purchase"} THEN Adjusted
                        ELSE Adjusted \cup {MoveOf(new)}
<1>1. Credited' = {MoveOf(e) : e \in {d \in entries \cup {new} : d.kind = "stripe_topup"}}
  BY DEF Credited, MoveOf
<1>2. Adjusted' = {MoveOf(e) : e \in {d \in entries \cup {new} : d.kind \notin {"stripe_topup", "slot_purchase"}}}
  BY DEF Adjusted, MoveOf
<1> QED
  BY <1>1, <1>2 DEF Credited, Adjusted

(* A key no entry has is a key no move bears.                               *)
LEMMA UnusedIsFresh ==
  ASSUME Balanced, NEW k, \A e \in entries : e.key # k
  PROVE  \A m \in Credited \cup Spent \cup Adjusted : m.identity # k
<1>1. \A e : MoveOf(e).identity = e.key
  BY DEF MoveOf
<1>2. \A p : OrderMove(p).identity = p.key
  BY DEF OrderMove
<1>3. \A m \in Credited \cup Adjusted : \E e \in entries : m = MoveOf(e)
  BY DEF Credited, Adjusted
<1>4. \A m \in Spent : \E p \in purchases : m = OrderMove(p)
  BY DEF Spent
<1>5. \A p \in purchases : p.key # k
  BY DEF Balanced
<1>6. \A m \in Credited \cup Adjusted : m.identity # k
  BY <1>1, <1>3
<1>7. \A m \in Spent : m.identity # k
  BY <1>2, <1>4, <1>5
<1> QED
  BY <1>6, <1>7

-----------------------------------------------------------------------------
(* Each operation is a move, a doubt, its settlement, or nothing.           *)

LEMMA AdjustmentIsAdjust ==
  ASSUME WalletInv, Amounted, Balanced, Reviewed, NEW f \in forms, _adjust_wallet_credit(f)
  PROVE  Credit!Next
<1> DEFINE delta == IF f.op = "admin_debit" THEN -f.cents ELSE f.cents
           new == Entry(f, f.op, delta)
<1>1. /\ \A e \in entries : e.key # f.key
      /\ _wallet_balance(f.account) + delta \in 0..MAX_CENTS
      /\ entries' = entries \cup {new} /\ UNCHANGED <<purchases, holds, resolved>>
      /\ f.op \notin {"stripe_topup", "slot_purchase"}
  BY DEF _adjust_wallet_credit, Used
<1>2. delta \in Int /\ delta # 0 /\ f.account \in Accounts /\ f.key \in Keys
  BY DEF Amounted, Reviewed, WalletInv, FormsApart
<1> HIDE DEF delta
<1>3. new.key = f.key /\ new.account = f.account /\ new.kind = f.op /\ new.delta = delta
  BY DEF Entry
<1>4. MoveOf(new) = [identity |-> f.key, account |-> f.account, cents |-> delta]
  BY <1>3 DEF MoveOf
<1> HIDE DEF new
<1>5. new \notin entries
  BY <1>1, <1>3
<1>6. /\ Balances[f.account] \in Int
      /\ Balances'[f.account] - Balances[f.account] = delta
      /\ Balances' = [Balances EXCEPT ![f.account] =
           Balances[f.account] + (Balances'[f.account] - Balances[f.account])]
  <2>1. new.delta \in Int /\ new.account \in Accounts /\ entries' = entries \cup {new}
    BY <1>1, <1>2, <1>3
  <2> QED
    BY <1>3, <1>5, <2>1, EntryMoves
<1>7. Balances[f.account] = _wallet_balance(f.account)
  BY <1>2 DEF Balances
<1>8. Balances'[f.account] \in 0..MAX_CENTS
  <2>1. Balances'[f.account] = Balances[f.account] + delta
    <3>1. Balances'[f.account] = Balances[f.account] + (Balances'[f.account] - Balances[f.account])
      BY <1>2, <1>6 DEF Balances
    <3> QED
      BY <1>6, <3>1
  <2> QED
    BY <1>1, <1>7, <2>1
<1>9. Credited' = Credited /\ Adjusted' = Adjusted \cup {MoveOf(new)}
  BY <1>1, <1>3, EntryIsOfAKind
<1>10. Spent' = Spent
  BY <1>1 DEF Spent
<1>11. Credit!Gain(f.account) = delta
  BY <1>6 DEF Credit!Gain
<1>12. Credit!Moves(f.key, f.account)
  BY <1>1, <1>6, <1>8, UnusedIsFresh DEF Credit!Moves, Credit!Gain
<1>13. Credit!Adjust(f.key, f.account)
  BY <1>1, <1>4, <1>9, <1>10, <1>11, <1>12 DEF Credit!Adjust, Credit!Move
<1> QED
  BY <1>2, <1>11, <1>13 DEF Credit!Next

LEMMA OrderIsSpend ==
  ASSUME WalletInv, Amounted, Balanced, Reviewed, NEW f \in forms, NEW c, NEW start,
         Payable(f), _wallet_order(f, c, start), UNCHANGED <<holds, resolved>>
  PROVE  Credit!Next
<1> DEFINE new == Entry(f, "slot_purchase", -f.cents)
           order == [key |-> f.key, operation |-> f.op, account |-> f.account, slot |-> f.slot,
                     claim |-> c, cents |-> f.cents, start |-> start, end |-> start + Month]
<1>1. /\ \A e \in entries : e.key # f.key
      /\ _wallet_balance(f.account) >= f.cents
      /\ ~spending_blocked(f.account)
      /\ entries' = entries \cup {new} /\ purchases' = purchases \cup {order}
  BY DEF Payable, _wallet_order, Used
<1>2. f.cents \in Nat \ {0} /\ f.account \in Accounts /\ f.key \in Keys
  BY DEF Amounted, Reviewed, WalletInv, FormsApart
<1>3. /\ new.key = f.key /\ new.account = f.account /\ new.kind = "slot_purchase"
      /\ new.delta = -f.cents
  BY DEF Entry
<1>4. OrderMove(order) = [identity |-> f.key, account |-> f.account, cents |-> f.cents]
  BY DEF OrderMove
<1> HIDE DEF new, order
<1>5. new \notin entries
  BY <1>1, <1>3
<1>6. /\ Balances[f.account] \in Int
      /\ Balances'[f.account] - Balances[f.account] = -f.cents
      /\ Balances' = [Balances EXCEPT ![f.account] =
           Balances[f.account] + (Balances'[f.account] - Balances[f.account])]
  <2>1. new.delta \in Int /\ new.account \in Accounts /\ entries' = entries \cup {new}
    BY <1>1, <1>2, <1>3
  <2> QED
    BY <1>3, <1>5, <2>1, EntryMoves
<1>7. Balances[f.account] = _wallet_balance(f.account) /\ Balances[f.account] \in 0..MAX_CENTS
  BY <1>2 DEF Balances, Balanced, LedgerSound
<1>8. Balances'[f.account] \in 0..MAX_CENTS
  <2>1. Balances'[f.account] = Balances[f.account] - f.cents
    <3>1. Balances'[f.account] = Balances[f.account] + (Balances'[f.account] - Balances[f.account])
      BY <1>2, <1>6 DEF Balances
    <3> QED
      BY <1>2, <1>6, <3>1
  <2> QED
    BY <1>1, <1>2, <1>7, <2>1
<1>9. Credited' = Credited /\ Adjusted' = Adjusted
  BY <1>1, <1>3, EntryIsOfAKind
<1>10. Spent' = Spent \cup {OrderMove(order)}
  BY <1>1 DEF Spent, OrderMove
<1>11. Credit!Gain(f.account) = -f.cents
  BY <1>6 DEF Credit!Gain
<1>12. Credit!Moves(f.key, f.account)
  BY <1>1, <1>6, <1>8, UnusedIsFresh DEF Credit!Moves, Credit!Gain
<1>13. ~Credit!InDoubt(f.account)
  BY <1>1 DEF spending_blocked, Credit!InDoubt
<1>14. -Credit!Gain(f.account) = f.cents /\ Credit!Gain(f.account) < 0
  BY <1>2, <1>11
<1>15. Credit!Spend(f.key, f.account)
  BY <1>4, <1>9, <1>10, <1>12, <1>13, <1>14 DEF Credit!Spend, Credit!Move
<1>16. Credit!Gain(f.account) # 0
  BY <1>2, <1>11
<1> QED
  BY <1>2, <1>15, <1>16 DEF Credit!Next

LEMMA SettlementIsCredit ==
  ASSUME WalletInv, Amounted, Balanced, Reviewed, NEW t \in topups, NEW kind,
         settle_wallet_topup(t, kind)
  PROVE  Credit!Next \/ UNCHANGED Credit!vars
<1>1. UNCHANGED <<purchases, holds, resolved>>
  BY DEF settle_wallet_topup
<1>2. CASE UNCHANGED entries
  BY <1>1, <1>2, BooksStay DEF Credit!vars
<1>3. CASE ~UNCHANGED entries
  <2> DEFINE new == [seq |-> Cardinality(entries) + 1, key |-> t.key, account |-> t.account,
                     kind |-> "stripe_topup", delta |-> t.cents, original |-> 0]
  <2>1. /\ Unsettled(t, kind) /\ _wallet_balance(t.account) + t.cents <= MAX_CENTS
        /\ entries' = entries \cup {new}
    BY <1>3 DEF settle_wallet_topup
  <2>2. t.cents \in Nat \ {0} /\ t.account \in Accounts /\ t.key \in Keys
    BY DEF Amounted, Reviewed, WalletInv, FormsApart
  <2>3. /\ new.key = t.key /\ new.account = t.account /\ new.kind = "stripe_topup"
        /\ new.delta = t.cents
    OBVIOUS
  <2> HIDE DEF new
  <2>4. MoveOf(new) = [identity |-> t.key, account |-> t.account, cents |-> t.cents]
    BY <2>3 DEF MoveOf
  <2>5. \A e \in entries : e.key # t.key
    <3> SUFFICES ASSUME NEW e \in entries, e.key = t.key PROVE FALSE
      OBVIOUS
    <3>1. PICK f \in forms : f.key = t.key /\ f.op = "topup"
      BY DEF WalletInv, FormsApart
    <3>2. e.kind = "stripe_topup"
      BY <3>1 DEF WalletInv, EntriesApart, FormsApart
    <3> QED
      BY <2>1, <3>2 DEF WalletInv, EntriesApart, Unsettled
  <2>6. new \notin entries
    BY <2>3, <2>5
  <2>7. /\ Balances[t.account] \in Int
        /\ Balances'[t.account] - Balances[t.account] = t.cents
        /\ Balances' = [Balances EXCEPT ![t.account] =
             Balances[t.account] + (Balances'[t.account] - Balances[t.account])]
    <3>1. new.delta \in Int /\ new.account \in Accounts /\ entries' = entries \cup {new}
      BY <2>1, <2>2, <2>3
    <3> QED
      BY <2>3, <2>6, <3>1, EntryMoves
  <2>8. Balances[t.account] = _wallet_balance(t.account) /\ Balances[t.account] \in 0..MAX_CENTS
    BY <2>2 DEF Balances, Balanced, LedgerSound
  <2>9. Balances'[t.account] \in 0..MAX_CENTS
    <3>1. Balances'[t.account] = Balances[t.account] + (Balances'[t.account] - Balances[t.account])
      BY <2>2, <2>7 DEF Balances
    <3> QED
      BY <2>1, <2>2, <2>7, <2>8, <3>1
  <2>10. /\ Credited' = Credited \cup {MoveOf(new)} /\ Adjusted' = Adjusted
         /\ Spent' = Spent
    BY <1>1, <2>1, <2>3, EntryIsOfAKind DEF Spent
  <2>11. Credit!Gain(t.account) = t.cents
    BY <2>7 DEF Credit!Gain
  <2>12. Credit!Moves(t.key, t.account)
    BY <2>5, <2>7, <2>9, UnusedIsFresh DEF Credit!Moves, Credit!Gain
  <2>13. Credit!Gain(t.account) > 0 /\ Credit!Gain(t.account) # 0
    BY <2>2, <2>11
  <2>14. Credit!Credit(t.key, t.account)
    BY <1>1, <2>4, <2>10, <2>11, <2>12, <2>13 DEF Credit!Credit, Credit!Move
  <2> QED
    BY <2>2, <2>13, <2>14 DEF Credit!Next
<1> QED
  BY <1>2, <1>3

LEMMA HoldIsDoubt ==
  ASSUME WalletInv, Amounted, Reviewed, NEW t \in topups, hold_wallet_topup(t)
  PROVE  Credit!Next
<1>1. PICK r \in reviews :
        /\ [order |-> t.key, account |-> t.account, event |-> r.id] \notin holds
        /\ holds' = holds \cup {[order |-> t.key, account |-> t.account, event |-> r.id]}
        /\ UNCHANGED <<ledgerVars, resolved>>
  BY DEF hold_wallet_topup
<1>2. t.key \in Keys /\ t.account \in Accounts /\ r.id \in 1..MaxReviews
  BY DEF WalletInv, FormsApart, Amounted, Reviewed
<1>3. PICK h : h = [order |-> t.key, account |-> t.account, event |-> r.id]
  OBVIOUS
<1>4. h \in Credit!Doubts
  BY <1>2, <1>3 DEF Credit!Doubts
<1>5. Credit!Doubt(h)
  BY <1>1, <1>3, BooksStay DEF Credit!Doubt
<1> QED
  BY <1>4, <1>5 DEF Credit!Next

(* The credit a review waits for is of the very account it holds up.        *)
LEMMA ResolutionSettles ==
  ASSUME WalletInv, Reviewed, NEW h \in holds, resolve_wallet_topup_hold(h)
  PROVE  Credit!Next
<1>1. /\ h \in holds \ resolved /\ resolved' = resolved \cup {h}
      /\ UNCHANGED <<ledgerVars, holds>>
  BY DEF resolve_wallet_topup_hold, Resolvable
<1>2. PICK e \in entries : e.kind = "stripe_topup" /\ e.key = h.order
  BY DEF resolve_wallet_topup_hold, Resolvable, WalletInv, EntriesApart
<1>3. PICK t \in topups : t.key = h.order /\ t.account = h.account
  BY DEF Reviewed
<1>4. e.account = h.account
  BY <1>2, <1>3 DEF WalletInv, EntriesApart, FormsApart
<1>5. MoveOf(e) \in Credited /\ MoveOf(e).identity = h.order /\ MoveOf(e).account = h.account
  BY <1>2, <1>4 DEF Credited, MoveOf
<1>6. Credit!Settle(h)
  BY <1>1, <1>5, BooksStay DEF Credit!Settle
<1>7. h \in Credit!Doubts
  BY DEF Reviewed, Credit!Doubts
<1> QED
  BY <1>6, <1>7 DEF Credit!Next

LEMMA CreditStarts == ASSUME Init PROVE Credit!Init
<1>1. entries = {} /\ purchases = {} /\ holds = {} /\ resolved = {}
  BY DEF Init
<1>2. \A a : EntriesOf(a) = {}
  BY <1>1 DEF EntriesOf
<1>3. SumOf({}) = 0
  <2>1. SumOf({}) = Total([e \in {} |-> e.delta], {})
    BY SumOfIsTotal, FS_EmptySet
  <2> QED
    BY <2>1, TotalEmpty
<1>4. Balances = [a \in Accounts |-> 0]
  BY <1>2, <1>3, SumsAre DEF Balances
<1>5. Credited = {} /\ Spent = {} /\ Adjusted = {}
  BY <1>1 DEF Credited, Spent, Adjusted
<1> QED
  BY <1>1, <1>4, <1>5 DEF Credit!Init

LEMMA CreditStep ==
  ASSUME WalletInv, Amounted, Balanced, Reviewed, [Next]_vars
  PROVE  [Credit!Next]_Credit!vars
<1>1. SUFFICES Credit!Next \/ UNCHANGED Credit!vars
  OBVIOUS
<1>2. ASSUME UNCHANGED <<ledgerVars, holds, resolved>>
      PROVE  UNCHANGED Credit!vars
  BY <1>2, BooksStay DEF Credit!vars
<1>3. CASE Pages
  <2>1. UNCHANGED <<ledgerVars, holds, resolved>>
    BY <1>3 DEF Pages, topup_page, adjust_page, purchase_page, renew_page, Show
  <2> QED
    BY <1>2, <2>1
<1>4. CASE Submissions
  <2>1. PICK f \in forms :
          _adjust_wallet_credit(f) \/ purchase_slot(f) \/ renew_paid_slot(f) \/ create_wallet_topup(f)
    BY <1>4 DEF Submissions
  <2>2. CASE _adjust_wallet_credit(f)
    BY <2>2, AdjustmentIsAdjust
  <2>3. CASE purchase_slot(f)
    <3>1. /\ Payable(f) /\ _wallet_order(f, claims + 1, clock)
          /\ UNCHANGED <<holds, resolved>>
      BY <2>3 DEF purchase_slot
    <3> QED
      BY <3>1, OrderIsSpend
  <2>4. CASE renew_paid_slot(f)
    <3>1. /\ Payable(f) /\ _wallet_order(f, claim[f.slot], RenewalStart(f))
          /\ UNCHANGED <<holds, resolved>>
      BY <2>4 DEF renew_paid_slot
    <3> QED
      BY <3>1, OrderIsSpend
  <2>5. CASE create_wallet_topup(f)
    <3>1. UNCHANGED <<ledgerVars, holds, resolved>>
      BY <2>5 DEF create_wallet_topup
    <3> QED
      BY <1>2, <3>1
  <2> QED
    BY <2>1, <2>2, <2>3, <2>4, <2>5
<1>5. CASE Checkouts
  <2>1. UNCHANGED <<ledgerVars, holds, resolved>>
    BY <1>5 DEF Checkouts, create_session, bind_wallet_checkout, retrieve_open_session, hand_out,
       request_ends
  <2> QED
    BY <1>2, <2>1
<1>6. CASE Webhooks
  <2>1. PICK t \in topups : hold_wallet_topup(t) \/ \E kind \in PAID_EVENTS : settle_wallet_topup(t, kind)
    BY <1>6 DEF Webhooks
  <2> QED
    BY <2>1, HoldIsDoubt, SettlementIsCredit
<1>7. CASE Stripe
  <2>1. UNCHANGED <<ledgerVars, holds, resolved>>
    BY <1>7 DEF Stripe, session_expires, customer_pays, payment_reviewed
  <2> QED
    BY <1>2, <2>1
<1>8. CASE Fleet \/ Tick
  <2>1. UNCHANGED <<ledgerVars, holds, resolved>>
    BY <1>8 DEF Fleet, SlotMoves, claim_slot, set_node_offer, Tick
  <2> QED
    BY <1>2, <2>1
<1>9. CASE \E h \in holds : resolve_wallet_topup_hold(h)
  BY <1>9, ResolutionSettles
<1>10. CASE UNCHANGED vars
  <2>1. UNCHANGED <<ledgerVars, holds, resolved>>
    BY <1>10 DEF vars
  <2> QED
    BY <1>2, <2>1
<1> QED
  BY <1>3, <1>4, <1>5, <1>6, <1>7, <1>8, <1>9, <1>10 DEF Next

(* Prepaid credit, with all of its pages, requests, notices and slots, is   *)
(* PrepaidCredit (store._adjust_wallet_credit, purchase_slot,               *)
(* renew_paid_slot, settle_wallet_topup, hold_wallet_topup,                 *)
(* resolve_wallet_topup_hold): each of their steps moves one balance under  *)
(* an identity that moved none, doubts, settles, or shows nothing.          *)
THEOREM CreditImplemented == Spec => ImplementsCredit
<1>1. Init => Reviewed /\ Amounted /\ Balanced /\ Credit!Init
  BY ReviewedInit, LedgerInit, CreditStarts
<1>2. WalletInv /\ WalletInv' /\ Amounted /\ Balanced /\ [Next]_vars => Amounted' /\ Balanced'
  BY LedgerStep
<1>3. WalletInv /\ Amounted /\ Reviewed /\ [Next]_vars => Reviewed'
  BY ReviewedStep
<1>4. WalletInv /\ Amounted /\ Balanced /\ Reviewed /\ [Next]_vars => [Credit!Next]_Credit!vars
  BY CreditStep
<1> QED
  BY <1>1, <1>2, <1>3, <1>4, InvHolds, PTL DEF Spec, ImplementsCredit, Credit!Spec
=============================================================================

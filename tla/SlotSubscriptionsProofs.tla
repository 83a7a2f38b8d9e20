------------------------ MODULE SlotSubscriptionsProofs ------------------------
(***************************************************************************)
(* Theorems about SlotSubscriptions, for every set of orders, accounts,    *)
(* slots, other holders and threads, and every number of months.           *)
(***************************************************************************)
EXTENDS SlotSubscriptions, TLAPS

-----------------------------------------------------------------------------
(* The inductive invariant.                                                 *)

(* One open order a slot, and a free slot is nobody's.                      *)
SlotsOK ==
  /\ \A s \in Slots : slot[s] = "free" => tenant[s] = None
  /\ \A o, p \in Orders : Open(o) /\ Open(p) /\ SlotOf[o] = SlotOf[p] => o = p

(* Nothing is paid but through an attached Session, and what the store      *)
(* knows of Stripe was so and stays so.                                     *)
OrderOK(o) ==
  /\ session[o] => sess[o] # "none" /\ status[o] # "none"
  /\ status[o] = "closed" => session[o]
  /\ sess[o] = "complete" => session[o] /\ months[o] >= 1
  /\ sub[o] # "none" => sess[o] = "complete"
  /\ months[o] >= 1 \/ unpaid[o] => sess[o] = "complete"
  /\ bound[o] \/ claimed[o] => session[o]
  /\ terminal[o] => sub[o] = "canceled"

(* Only paid months are recorded, and an order closed with a claim is paid  *)
(* out.                                                                     *)
PaidOK(o) ==
  /\ \A m \in recorded[o] : m <= months[o]
  /\ claimed[o] /\ status[o] = "closed" => PaidOver(o)

(* On the way to recording a month.                                         *)
PayingStep(j) ==
  \/ j.why = "paid"
  \/ j.at \in {"bind", "update"} /\ j.why = "reconcile"
  \/ j.at = "record"

(* What a thread has in its hands.                                          *)
JobOK(t) ==
  LET j == job[t] IN j.at # "idle" =>
    /\ j.order \in Orders /\ status[j.order] # "none"
    /\ j.dead => sub[j.order] = "canceled"
    /\ PayingStep(j) => j.month >= 1
    /\ j.at = "attach" => sess[j.order] # "none"
    /\ j.at \in {"bind", "update", "record"} => session[j.order]
    /\ j.at = "close" => sess[j.order] = "expired"

IInv ==
  /\ TypeOK
  /\ SlotsOK
  /\ \A o \in Orders : OrderOK(o)
  /\ \A o \in Orders : PaidOK(o)
  /\ \A t \in Threads : JobOK(t)
  /\ ContractNeverForgotten
  /\ ReservedSlotIsTheirs
  /\ KeptWhilePaid

-----------------------------------------------------------------------------
USE SubscriptionsAssumption
USE DEF storeVars, orderVars, cancelVars, paidVars, slotVars, worldVars, stripeVars

(* What no step takes back.                                                 *)
Forward ==
  \A o \in Orders :
    /\ status[o] # "none" => status'[o] # "none"
    /\ session[o] => session'[o]
    /\ sess[o] # "none" => sess'[o] # "none"
    /\ sess[o] = "expired" => sess'[o] = "expired"
    /\ sub[o] = "canceled" => sub'[o] = "canceled"
    /\ months[o] <= months'[o]

(* So what the other threads have in their hands stays good.                *)
LEMMA JobsStayGood ==
  ASSUME IInv, TypeOK', Forward, \A t \in Threads : job'[t] # job[t] => JobOK(t)'
  PROVE  \A t \in Threads : JobOK(t)'
<1> SUFFICES ASSUME NEW t \in Threads, job'[t] = job[t]
             PROVE  JobOK(t)'
  OBVIOUS
<1>1. months \in [Orders -> Int] /\ months' \in [Orders -> Int] /\ job[t] \in Jobs
  BY DEF IInv, TypeOK
<1> QED
  BY <1>1 DEF IInv, Jobs, JobOK, Forward

(* A step that leaves alone whatever the other parts speak of.              *)
LEMMA QuietStep ==
  ASSUME IInv, TypeOK', \A t \in Threads : job'[t] # job[t] => JobOK(t)',
         UNCHANGED <<status, session, bound, terminal, claimed, recorded, slot, tenant,
                     sess, sub, months, over, unpaid>>
  PROVE  IInv'
<1>1. Forward
  BY DEF Forward, IInv, TypeOK
<1>2. \A t \in Threads : JobOK(t)'
  BY <1>1, JobsStayGood
<1> QED
  BY <1>2 DEF IInv, TypeOK, SlotsOK, OrderOK, PaidOK, PaidOver, ContractNeverForgotten,
              ReservedSlotIsTheirs, KeptWhilePaid, Open

(* The forms in which a thread moves on.                                    *)
Moves(t, j) == /\ job' \in [Threads -> Jobs] /\ j \in Jobs /\ job'[t] = j
               /\ \A u \in Threads : job'[u] # job[u] => u = t

(* What the constructor of a job puts in it.                                *)
LEMMA JobFields ==
  /\ Idle.at = "idle"
  /\ \A step, o, why, m : LET j == Job(step, o, why, m) IN
       j.at = step /\ j.order = o /\ j.why = why /\ ~j.dead /\ j.month = m
BY DEF Idle, Job

LEMMA JobType ==
  /\ Idle \in Jobs
  /\ \A step \in Steps, o \in Orders, why \in Purposes, m \in 0..MaxMonths + 1 :
       Job(step, o, why, m) \in Jobs
  /\ 0 \in 0..MaxMonths + 1
BY DEF Idle, Job, Jobs, Steps, Purposes

LEMMA JobMoves ==
  ASSUME TypeOK, NEW t \in Threads
  PROVE  /\ \A j \in Jobs : Turn(t, j) => Moves(t, j)
         /\ \A step \in Steps : Go(t, step) => Moves(t, [job[t] EXCEPT !.at = step])
<1>1. job \in [Threads -> Jobs]
  BY DEF TypeOK
<1>2. ASSUME NEW j \in Jobs, Turn(t, j)
      PROVE  Moves(t, j)
  BY <1>1, <1>2 DEF Moves, Turn
<1>3. ASSUME NEW step \in Steps, Go(t, step)
      PROVE  Moves(t, [job[t] EXCEPT !.at = step])
  <2>1. [job[t] EXCEPT !.at = step] \in Jobs
    BY <1>1 DEF Jobs
  <2>2. Turn(t, [job[t] EXCEPT !.at = step])
    BY <1>1, <1>3 DEF Go, Turn
  <2> QED
    BY <1>2, <2>1, <2>2
<1> QED
  BY <1>2, <1>3

-----------------------------------------------------------------------------
(* Steps that only read, and start a thread or carry it on.                 *)
(* A handler begins: with an order that is there, and a month that is paid. *)
LEMMA StartsOK ==
  ASSUME IInv, NEW t \in Threads, NEW o \in Orders, Start(t, o), ~reserve(t, o)
  PROVE  IInv'
<1>1. TypeOK /\ OrderOK(o)
  BY DEF IInv
<1>2. ASSUME NEW step \in {"mark", "expire", "fetch", "read", "hold", "look", "ask"},
             NEW why \in {"none", "cancel", "hold", "update", "reconcile"},
             Begin(t, step, o, why), status[o] # "none",
             UNCHANGED <<storeVars, worldVars>>
      PROVE  IInv'
  <2>1. Moves(t, Job(step, o, why, 0))
    <3>1. step \in Steps /\ why \in Purposes
      BY DEF Steps, Purposes
    <3>2. Job(step, o, why, 0) \in Jobs
      BY <3>1, JobType
    <3> QED
      BY <1>1, <1>2, <3>2, JobMoves DEF Begin
  <2>2. TypeOK'
    BY <1>1, <1>2, <2>1 DEF TypeOK, Moves
  <2>3. months' = months /\ status' = status
    BY <1>2
  <2>5. months[o] \in 0..MaxMonths
    BY <1>1 DEF TypeOK
  <2>6. /\ job'[t].at = step /\ job'[t].order = o /\ job'[t].why = why
        /\ ~job'[t].dead /\ job'[t].month = 0
    BY <2>1, JobFields DEF Moves
  <2>7. status'[o] # "none" /\ 0 <= months'[o]
    BY <1>2, <2>3, <2>5
  <2>4. JobOK(t)'
    BY <1>2, <2>6, <2>7 DEF JobOK, PayingStep
  <2> QED
    BY <1>2, <2>1, <2>2, <2>4, QuietStep DEF Moves
<1>3. ASSUME NEW m \in Months, invoice_paid(t, o, m)
      PROVE  IInv'
  <2>1. Moves(t, Job("fetch", o, "paid", m))
    <3>1. m \in 0..MaxMonths + 1 /\ "fetch" \in Steps /\ "paid" \in Purposes
      BY DEF Months, Steps, Purposes
    <3> QED
      BY <1>1, <1>3, <3>1, JobMoves, JobType DEF invoice_paid
  <2>2. TypeOK'
    BY <1>1, <1>3, <2>1 DEF TypeOK, Moves, invoice_paid
  <2>3. m >= 1 /\ m <= months[o] /\ months' = months /\ status' = status /\ status[o] # "none"
    BY <1>1, <1>3 DEF invoice_paid, OrderOK, TypeOK, Months
  <2>4. JobOK(t)'
    BY <2>1, <2>3, JobFields DEF Moves, JobOK, PayingStep
  <2> QED
    BY <1>3, <2>1, <2>2, <2>4, QuietStep DEF Moves, invoice_paid
<1>4. CASE resume_checkout(t, o)
  BY <1>2, <1>4 DEF resume_checkout, Open
<1>5. CASE cancel_checkout(t, o)
  BY <1>2, <1>5 DEF cancel_checkout
<1>6. CASE subscription_updated(t, o) \/ session_expired(t, o) \/ payment_review(t, o)
  BY <1>1, <1>2, <1>6 DEF subscription_updated, session_expired, payment_review, OrderOK
<1>7. CASE reconcile_pending(t, o) \/ retry_cancel(t, o) \/ cancel(t, o)
  BY <1>1, <1>2, <1>7 DEF reconcile_pending, retry_cancel, cancel, Reconcilable,
                          Cancellable,
                          OrderOK, Open
<1> QED
  BY <1>3, <1>4, <1>5, <1>6, <1>7 DEF Start

(* A thread lost between two steps leaves nothing behind in the store.      *)
LEMMA FailOK ==
  ASSUME IInv, NEW t \in Threads, Fail(t)
  PROVE  IInv'
<1>1. Moves(t, Idle)
  BY JobMoves, JobType DEF Fail, Done, IInv
<1>2. TypeOK'
  BY <1>1 DEF Fail, IInv, TypeOK, Moves
<1>3. JobOK(t)'
  BY <1>1, JobFields DEF Moves, JobOK
<1> QED
  BY <1>1, <1>2, <1>3, QuietStep DEF Fail, Moves

(* A thread that turned to a step has this in its hands.                    *)
Turned(t, step, o, why, dead, m) ==
  /\ job' \in [Threads -> Jobs] /\ \A u \in Threads : job'[u] # job[u] => u = t
  /\ job'[t].at = step /\ job'[t].order = o /\ job'[t].why = why
  /\ job'[t].dead = dead /\ job'[t].month = m

(* A thread moved on, and what it has in its hands is good.                 *)
Moved(t) ==
  /\ job' \in [Threads -> Jobs] /\ \A u \in Threads : job'[u] # job[u] => u = t
  /\ JobOK(t)'
USE DEF Moved

(* Going on keeps what is in hand, beginning anew replaces it.              *)
LEMMA GoTurns ==
  ASSUME TypeOK, NEW t \in Threads, NEW step \in Steps, Go(t, step)
  PROVE  Turned(t, step, job[t].order, job[t].why, job[t].dead, job[t].month)
<1>1. Moves(t, [job[t] EXCEPT !.at = step]) /\ job[t] \in Jobs
  BY JobMoves DEF TypeOK
<1>2. LET j == [job[t] EXCEPT !.at = step]
      IN  /\ j.at = step /\ j.order = job[t].order /\ j.why = job[t].why
          /\ j.dead = job[t].dead /\ j.month = job[t].month
  BY <1>1 DEF Jobs
<1> QED
  BY <1>1, <1>2 DEF Moves, Turned

LEMMA DoneTurns ==
  ASSUME TypeOK, NEW t \in Threads, Done(t)
  PROVE  Turned(t, "idle", None, "none", FALSE, 0) /\ JobOK(t)'
<1>1. Moves(t, Idle)
  BY JobMoves, JobType DEF Done
<1>2. Turned(t, "idle", None, "none", FALSE, 0)
  BY <1>1, JobFields DEF Moves, Turned, Idle
<1> QED
  BY <1>2 DEF Turned, JobOK

LEMMA TurnTurns ==
  ASSUME TypeOK, NEW t \in Threads, NEW step \in Steps, NEW o \in Orders,
         NEW why \in Purposes, NEW m \in 0..MaxMonths + 1, Turn(t, Job(step, o, why, m))
  PROVE  Turned(t, step, o, why, FALSE, m)
<1>1. Moves(t, Job(step, o, why, m))
  BY JobMoves, JobType
<1> QED
  BY <1>1, JobFields DEF Moves, Turned

LEMMA SeenTurns ==
  ASSUME TypeOK, NEW t \in Threads, NEW step \in Steps, NEW o \in Orders,
         NEW why \in Purposes, NEW m \in 0..MaxMonths + 1, Seen(t, step, o, why, m)
  PROVE  Turned(t, step, o, why, sub[o] = "canceled", m)
<1> DEFINE j == [at |-> step, order |-> o, why |-> why, dead |-> (sub[o] = "canceled"),
                 ends |-> ends[o], month |-> m]
<1>1. ends[o] \in BOOLEAN /\ (sub[o] = "canceled") \in BOOLEAN
  BY DEF TypeOK
<1>2. j \in Jobs
  BY <1>1 DEF Jobs
<1>3. job \in [Threads -> Jobs] /\ job' = [job EXCEPT ![t] = j]
  BY DEF TypeOK, Seen, Turn
<1>4. job' \in [Threads -> Jobs] /\ job'[t] = j /\ \A u \in Threads : job'[u] # job[u] => u = t
  BY <1>2, <1>3
<1> QED
  BY <1>4 DEF Turned

LEMMA Names ==
  /\ {"idle", "mark", "create", "attach", "look", "expire", "close", "fetch", "bind",
      "update", "record", "hold", "ask", "read", "require", "post", "again",
      "confirm"} \subseteq Steps
  /\ {"none", "cancel", "reconcile", "paid", "hold", "update"} \subseteq Purposes
  /\ 0 \in 0..MaxMonths + 1
BY DEF Steps, Purposes

-----------------------------------------------------------------------------
(* Steps of a thread that leave what the invariant says of orders alone.    *)
LEMMA retrieve_sessionOK ==
  ASSUME IInv, NEW t \in Threads, NEW o \in Orders, job[t].order = o,
         retrieve_session(t, o)
  PROVE  IInv'
<1>1. TypeOK /\ JobOK(t)
  BY DEF IInv
<1>2. Moved(t)
  <2>1. CASE Done(t)
    BY <1>1, <2>1, DoneTurns DEF Turned
  <2>2. ASSUME NEW step \in {"fetch", "expire"}, Go(t, step)
        PROVE  /\ Turned(t, step, job[t].order, job[t].why, job[t].dead, job[t].month)
               /\ JobOK(t)'
    <3>1. Turned(t, step, job[t].order, job[t].why, job[t].dead, job[t].month)
      BY <1>1, <2>2, GoTurns, Names
    <3> QED
      BY <1>1, <2>2, <3>1 DEF Turned, JobOK, PayingStep, retrieve_session, At
  <2> QED
    BY <2>1, <2>2 DEF retrieve_session, Turned
<1>3. TypeOK'
  BY <1>1, <1>2 DEF TypeOK, retrieve_session
<1> QED
  BY <1>2, <1>3, QuietStep DEF retrieve_session

LEMMA retrieve_subscriptionOK ==
  ASSUME IInv, NEW t \in Threads, NEW o \in Orders, job[t].order = o,
         retrieve_subscription(t, o)
  PROVE  IInv'
<1>1. TypeOK /\ JobOK(t) /\ OrderOK(o) /\ job[t] \in Jobs
  BY DEF IInv, TypeOK
<1>2. Moved(t)
  <2>1. CASE Go(t, "bind") /\ job[t].why \notin {"update", "reconcile"}
    <3>1. Turned(t, "bind", job[t].order, job[t].why, job[t].dead, job[t].month)
      BY <1>1, <2>1, GoTurns, Names
    <3> QED
      BY <1>1, <2>1, <3>1 DEF Turned, JobOK, OrderOK, PayingStep, retrieve_subscription,
                              At
  <2>2. ASSUME NEW why \in {"update", "reconcile"}, why = job[t].why,
               Seen(t, "bind", o, why, IF why = "update" THEN 0 ELSE latest_invoice(o))
        PROVE  Moved(t)
    <3>1. /\ (IF why = "update" THEN 0 ELSE latest_invoice(o)) \in 0..MaxMonths + 1
          /\ months[o] \in Int /\ months[o] >= 0 /\ latest_invoice(o) >= months[o]
          /\ latest_invoice(o) \in Int
      BY <1>1 DEF TypeOK, latest_invoice
    <3>2. Turned(t, "bind", o, why, sub[o] = "canceled",
                 IF why = "update" THEN 0 ELSE latest_invoice(o))
      BY <1>1, <2>2, <3>1, SeenTurns, Names
    <3>3. /\ status' = status /\ sub' = sub /\ months' = months /\ session' = session
          /\ sess[o] = "complete" /\ status[o] # "none"
      BY <1>1 DEF JobOK, retrieve_subscription, At
    <3>4. months[o] >= 1 /\ session[o]
      BY <1>1, <3>3 DEF OrderOK
    <3>5. CASE why = "update"
      BY <3>1, <3>2, <3>3, <3>4, <3>5 DEF Turned, JobOK, PayingStep
    <3>6. CASE why = "reconcile"
      <4>1. Turned(t, "bind", o, "reconcile", sub[o] = "canceled", latest_invoice(o))
        BY <3>2, <3>6
      <4>2. job'[t].month >= 1
        BY <3>1, <3>3, <3>4, <4>1 DEF Turned
      <4>3. /\ job'[t].at = "bind" /\ job'[t].order = o
            /\ job'[t].dead => sub'[o] = "canceled"
        BY <3>3, <4>1 DEF Turned
      <4>4. JobOK(t)'
        BY <3>3, <3>4, <4>2, <4>3 DEF JobOK
      <4> QED
        BY <4>1, <4>4 DEF Turned
    <3>7. job' \in [Threads -> Jobs] /\ \A u \in Threads : job'[u] # job[u] => u = t
      BY <3>2 DEF Turned
    <3> QED
      BY <3>5, <3>6, <3>7
  <2> QED
    BY <2>1, <2>2 DEF retrieve_subscription, Turned
<1>3. TypeOK'
  BY <1>1, <1>2 DEF TypeOK, retrieve_subscription
<1> QED
  BY <1>2, <1>3, QuietStep DEF retrieve_subscription

LEMMA CancellationReadOK ==
  ASSUME IInv, NEW t \in Threads, NEW o \in Orders, job[t].order = o,
         bound_subscription_identity(t, o) \/ cancellation_confirmed(t, o)
  PROVE  IInv'
<1>1. TypeOK /\ JobOK(t) /\ job[t] \in Jobs
  BY DEF IInv, TypeOK
<1>2. /\ UNCHANGED <<storeVars, worldVars>> /\ job[t].at # "idle"
      /\ Seen(t, "confirm", o, "none", 0) \/ Go(t, "require") \/ Done(t)
  BY DEF bound_subscription_identity, cancellation_confirmed, At
<1>3. Moved(t)
  <2>1. CASE Done(t)
    BY <1>1, <2>1, DoneTurns DEF Turned
  <2>2. CASE Go(t, "require")
    <3>1. Turned(t, "require", job[t].order, job[t].why, job[t].dead, job[t].month)
      BY <1>1, <2>2, GoTurns, Names
    <3> QED
      BY <1>1, <1>2, <3>1 DEF Turned, JobOK, PayingStep
  <2>3. CASE Seen(t, "confirm", o, "none", 0)
    <3>1. Turned(t, "confirm", o, "none", sub[o] = "canceled", 0) /\ months[o] >= 0
      BY <1>1, <2>3, SeenTurns, Names DEF TypeOK
    <3> QED
      BY <1>1, <1>2, <3>1 DEF Turned, JobOK, PayingStep
  <2> QED
    BY <1>2, <2>1, <2>2, <2>3
<1>4. TypeOK'
  BY <1>1, <1>2, <1>3 DEF TypeOK
<1> QED
  BY <1>2, <1>3, <1>4, QuietStep

LEMMA CancellationWriteOK ==
  ASSUME IInv, NEW t \in Threads, NEW o \in Orders, job[t].order = o,
         next_slot_subscription_cancel_attempt(t, o) \/ cancel_after_paid_period(t, o)
  PROVE  IInv'
<1>1. TypeOK /\ JobOK(t)
  BY DEF IInv
<1>2. /\ UNCHANGED <<status, session, bound, terminal, claimed, recorded, slot, tenant,
                     sess, sub, months, over, unpaid>>
      /\ job[t].at # "idle" /\ \E step \in {"post", "again"} : Go(t, step)
  BY DEF next_slot_subscription_cancel_attempt, cancel_after_paid_period, At
<1>3. Moved(t)
  <2>1. PICK step \in {"post", "again"} :
          Turned(t, step, job[t].order, job[t].why, job[t].dead, job[t].month)
    BY <1>1, <1>2, GoTurns, Names
  <2> QED
    BY <1>1, <1>2, <2>1 DEF Turned, JobOK, PayingStep
<1>4. TypeOK'
  BY <1>1, <1>2, <1>3 DEF TypeOK, next_slot_subscription_cancel_attempt,
                          cancel_after_paid_period
<1> QED
  BY <1>2, <1>3, <1>4, QuietStep

LEMMA CancellationStartsOK ==
  ASSUME IInv, NEW t \in Threads, NEW o \in Orders, job[t].order = o,
         hold_slot_subscription(t, o) \/ prepare_slot_subscription_cancellation(t, o)
  PROVE  IInv'
<1>1. TypeOK /\ JobOK(t)
  BY DEF IInv
<1>2. /\ UNCHANGED <<status, session, bound, terminal, claimed, recorded, slot, tenant,
                     sess, sub, months, over, unpaid>>
      /\ job[t].at # "idle" /\ Turn(t, Job("read", o, "none", 0))
  BY DEF hold_slot_subscription, prepare_slot_subscription_cancellation, At
<1>3. Moved(t)
  <2>1. "read" \in Steps /\ "none" \in Purposes /\ 0 \in 0..MaxMonths + 1
    BY Names
  <2>2. Turned(t, "read", o, "none", FALSE, 0)
    BY <1>1, <1>2, <2>1, TurnTurns
  <2>3. months[o] >= 0
    BY <1>1 DEF TypeOK
  <2> QED
    BY <1>1, <1>2, <2>2, <2>3 DEF Turned, JobOK, PayingStep
<1>4. TypeOK'
  <2>1. CASE hold_slot_subscription(t, o)
    BY <1>1, <1>3, <2>1 DEF TypeOK, hold_slot_subscription
  <2>2. CASE prepare_slot_subscription_cancellation(t, o)
    <3>1. (sub[o] = "active" /\ ~ends[o]) \in BOOLEAN
      OBVIOUS
    <3>2. asked' \in [Orders -> BOOLEAN]
      BY <1>1, <2>2, <3>1, Zenon DEF TypeOK, prepare_slot_subscription_cancellation
    <3> QED
      BY <1>1, <1>3, <2>2, <3>2 DEF TypeOK, prepare_slot_subscription_cancellation
  <2> QED
    BY <2>1, <2>2
<1> QED
  BY <1>2, <1>3, <1>4, QuietStep

(* What is not a thread's step leaves the threads alone.                    *)
LEMMA QuietWorldOK ==
  ASSUME IInv,
         \/ \E o \in Orders, kind \in {"service", "review"} :
              resolve_slot_subscription_hold(o, kind)
         \/ \E o \in Orders : portal_cancels(o) \/ portal_reactivates(o) \/ Tick(o)
         \/ outage_ends
  PROVE  IInv'
<1>1. TypeOK'
  <2>1. ASSUME NEW o \in Orders, NEW kind \in {"service", "review"},
               resolve_slot_subscription_hold(o, kind)
        PROVE  TypeOK'
    BY <2>1 DEF IInv, TypeOK, resolve_slot_subscription_hold
  <2>2. ASSUME NEW o \in Orders, portal_cancels(o) \/ portal_reactivates(o)
        PROVE  TypeOK'
    BY <2>2 DEF IInv, TypeOK, portal_cancels, portal_reactivates, UnchangedStore
  <2>3. ASSUME NEW o \in Orders, Tick(o)
        PROVE  TypeOK'
    BY <2>3 DEF IInv, TypeOK, Tick, UnchangedStore, Ages, EXPIRED
  <2>4. CASE outage_ends
    BY <2>4 DEF IInv, TypeOK, outage_ends
  <2> QED
    BY <2>1, <2>2, <2>3, <2>4
<1>2. UNCHANGED <<status, session, bound, terminal, claimed, recorded, slot, tenant,
                  sess, sub, months, over, unpaid, job>>
  BY DEF resolve_slot_subscription_hold, portal_cancels, portal_reactivates,
         Tick, outage_ends, UnchangedStore
<1> QED
  BY <1>1, <1>2, QuietStep

-----------------------------------------------------------------------------
(* Steps that touch what the invariant speaks of.                           *)
LEMMA LoudStep ==
  ASSUME IInv, TypeOK', Forward, \A t \in Threads : job'[t] # job[t] => JobOK(t)',
         SlotsOK', \A o \in Orders : OrderOK(o)' /\ PaidOK(o)',
         ContractNeverForgotten', ReservedSlotIsTheirs', KeptWhilePaid'
  PROVE  IInv'
BY JobsStayGood DEF IInv

(* The first month is paid: nothing was recorded before it.                 *)
LEMMA customer_paysOK ==
  ASSUME IInv, NEW o \in Orders, customer_pays(o)
  PROVE  IInv'
<1>0. UNCHANGED <<storeVars, job, outage>> /\ TypeOK
  BY DEF customer_pays, UnchangedStore, IInv
<1>1. TypeOK'
  BY <1>0 DEF TypeOK, customer_pays, Ages, EXPIRED, Months
<1>2. Forward
  <2>1. months[o] \in Nat /\ ~(months[o] >= 1) /\ sub[o] = "none"
    BY <1>0 DEF TypeOK, IInv, OrderOK, customer_pays
  <2>2. \A p \in Orders : months[p] \in Int /\ months[p] <= months'[p]
    BY <1>0, <2>1 DEF TypeOK, customer_pays
  <2> QED
    BY <1>0, <2>1, <2>2 DEF TypeOK, Forward, customer_pays
<1>9. PaidOver(o)' /\ \A m \in recorded'[o] : m <= months'[o]
  <2>1. months[o] \in Nat /\ recorded[o] \subseteq Nat /\ ~(months[o] >= 1)
    BY <1>0 DEF TypeOK, IInv, OrderOK, customer_pays, Months
  <2>2. recorded[o] = {}
    BY <1>0, <2>1 DEF TypeOK, IInv, PaidOK, Months
  <2> QED
    BY <1>0, <2>2 DEF PaidOver
<1>3. SlotsOK'
  BY <1>0 DEF IInv, TypeOK, SlotsOK, Open, customer_pays, Ages, EXPIRED, Months
<1>4. \A p \in Orders : OrderOK(p)'
  BY <1>0 DEF IInv, TypeOK, OrderOK, customer_pays, Ages, EXPIRED, Months
<1>5. \A p \in Orders : PaidOK(p)'
  <2>1. ASSUME NEW p \in Orders, p # o
        PROVE  /\ PaidOver(p)' <=> PaidOver(p)
               /\ months'[p] = months[p]
    BY <1>0, <2>1 DEF TypeOK, PaidOver, customer_pays
  <2> QED
    BY <1>0, <1>9, <2>1 DEF IInv, PaidOK
<1>6. ContractNeverForgotten'
  BY <1>0 DEF IInv, TypeOK, ContractNeverForgotten, OrderOK, customer_pays, Ages,
              EXPIRED, Months
<1>7. ReservedSlotIsTheirs'
  BY <1>0 DEF IInv, TypeOK, ReservedSlotIsTheirs, Open, SlotsOK, customer_pays, Ages,
              EXPIRED, Months
<1>8. KeptWhilePaid'
  <2>1. ASSUME NEW p \in Orders, p # o
        PROVE  /\ PaidOver(p)' <=> PaidOver(p)
               /\ months'[p] = months[p]
    BY <1>0, <2>1 DEF TypeOK, PaidOver, customer_pays
  <2> QED
    BY <1>0, <1>9, <2>1 DEF IInv, KeptWhilePaid
<1> QED
  BY <1>0, <1>1, <1>2, <1>3, <1>4, <1>5, <1>6, <1>7, <1>8, LoudStep

(* Stripe expires an unpaid Session.                                        *)
LEMMA stripe_expiresOK ==
  ASSUME IInv, NEW o \in Orders, stripe_expires(o)
  PROVE  IInv'
<1>0. UNCHANGED <<storeVars, job, outage>> /\ TypeOK
  BY DEF stripe_expires, UnchangedStore, IInv
<1>1. TypeOK'
  BY <1>0 DEF TypeOK, stripe_expires
<1>2. Forward
  BY <1>0 DEF TypeOK, Forward, stripe_expires
<1>3. SlotsOK'
  BY <1>0 DEF IInv, TypeOK, SlotsOK, Open, stripe_expires
<1>4. \A p \in Orders : OrderOK(p)'
  BY <1>0 DEF IInv, TypeOK, OrderOK, stripe_expires
<1>5. \A p \in Orders : PaidOK(p)'
  BY <1>0 DEF IInv, TypeOK, PaidOK, PaidOver, stripe_expires
<1>6. ContractNeverForgotten'
  BY <1>0 DEF IInv, TypeOK, ContractNeverForgotten, OrderOK, stripe_expires
<1>7. ReservedSlotIsTheirs'
  BY <1>0 DEF IInv, TypeOK, ReservedSlotIsTheirs, Open, SlotsOK, stripe_expires
<1>8. KeptWhilePaid'
  BY <1>0 DEF IInv, TypeOK, KeptWhilePaid, PaidOver, PaidOK, stripe_expires
<1> QED
  BY <1>0, <1>1, <1>2, <1>3, <1>4, <1>5, <1>6, <1>7, <1>8, LoudStep

(* The last paid month is over.                                             *)
LEMMA period_endsOK ==
  ASSUME IInv, NEW o \in Orders, period_ends(o)
  PROVE  IInv'
<1>0. UNCHANGED <<storeVars, job, outage>> /\ TypeOK
  BY DEF period_ends, UnchangedStore, IInv
<1>1. TypeOK'
  BY <1>0 DEF TypeOK, period_ends
<1>2. Forward
  BY <1>0 DEF TypeOK, Forward, period_ends
<1>3. SlotsOK'
  BY <1>0 DEF IInv, TypeOK, SlotsOK, Open, period_ends
<1>4. \A p \in Orders : OrderOK(p)'
  BY <1>0 DEF IInv, TypeOK, OrderOK, period_ends
<1>5. \A p \in Orders : PaidOK(p)'
  BY <1>0 DEF IInv, TypeOK, PaidOK, PaidOver, period_ends
<1>6. ContractNeverForgotten'
  BY <1>0 DEF IInv, TypeOK, ContractNeverForgotten, OrderOK, period_ends
<1>7. ReservedSlotIsTheirs'
  BY <1>0 DEF IInv, TypeOK, ReservedSlotIsTheirs, Open, SlotsOK, period_ends
<1>8. KeptWhilePaid'
  BY <1>0 DEF IInv, TypeOK, KeptWhilePaid, PaidOver, PaidOK, period_ends
<1> QED
  BY <1>0, <1>1, <1>2, <1>3, <1>4, <1>5, <1>6, <1>7, <1>8, LoudStep

(* A renewal: what was recorded before is over.                             *)
LEMMA stripe_renewsOK ==
  ASSUME IInv, NEW o \in Orders, stripe_renews(o)
  PROVE  IInv'
<1>0. UNCHANGED <<storeVars, job, outage>> /\ TypeOK
  BY DEF stripe_renews, UnchangedStore, IInv
<1>1. TypeOK'
  BY <1>0 DEF TypeOK, stripe_renews
<1>2. Forward
  BY <1>0 DEF TypeOK, Forward, stripe_renews
<1>9. PaidOver(o)' /\ \A m \in recorded'[o] : m <= months'[o]
  <2>1. months[o] \in Nat /\ recorded[o] \subseteq Nat /\ months'[o] = months[o] + 1
    BY <1>0 DEF TypeOK, Months, stripe_renews
  <2>2. \A m \in recorded[o] : m <= months[o]
    BY DEF IInv, PaidOK
  <2> QED
    BY <1>0, <2>1, <2>2 DEF PaidOver
<1>3. SlotsOK'
  BY <1>0 DEF IInv, TypeOK, SlotsOK, Open, stripe_renews
<1>4. \A p \in Orders : OrderOK(p)'
  BY <1>0 DEF IInv, TypeOK, OrderOK, stripe_renews
<1>5. \A p \in Orders : PaidOK(p)'
  <2>1. ASSUME NEW p \in Orders, p # o
        PROVE  /\ PaidOver(p)' <=> PaidOver(p)
               /\ months'[p] = months[p]
    BY <1>0, <2>1 DEF TypeOK, PaidOver, stripe_renews
  <2> QED
    BY <1>0, <1>9, <2>1 DEF IInv, PaidOK
<1>6. ContractNeverForgotten'
  BY <1>0 DEF IInv, TypeOK, ContractNeverForgotten, OrderOK, stripe_renews
<1>7. ReservedSlotIsTheirs'
  BY <1>0 DEF IInv, TypeOK, ReservedSlotIsTheirs, Open, SlotsOK, stripe_renews
<1>8. KeptWhilePaid'
  <2>1. ASSUME NEW p \in Orders, p # o
        PROVE  /\ PaidOver(p)' <=> PaidOver(p)
               /\ months'[p] = months[p]
    BY <1>0, <2>1 DEF TypeOK, PaidOver, stripe_renews
  <2> QED
    BY <1>0, <1>9, <2>1 DEF IInv, KeptWhilePaid
<1> QED
  BY <1>0, <1>1, <1>2, <1>3, <1>4, <1>5, <1>6, <1>7, <1>8, LoudStep

(* Stripe ends the subscription; the months paid for stay paid for.         *)
LEMMA stripe_cancelsOK ==
  ASSUME IInv, NEW o \in Orders, stripe_cancels(o)
  PROVE  IInv'
<1>0. UNCHANGED <<storeVars, job, outage>> /\ TypeOK
  BY DEF stripe_cancels, UnchangedStore, IInv
<1>1. TypeOK'
  BY <1>0 DEF TypeOK, stripe_cancels
<1>2. Forward
  BY <1>0 DEF TypeOK, Forward, stripe_cancels
<1>3. SlotsOK'
  BY <1>0 DEF IInv, TypeOK, SlotsOK, Open, stripe_cancels
<1>4. \A p \in Orders : OrderOK(p)'
  BY <1>0 DEF IInv, TypeOK, OrderOK, stripe_cancels
<1>5. \A p \in Orders : PaidOK(p)'
  BY <1>0 DEF IInv, TypeOK, PaidOK, PaidOver, stripe_cancels
<1>6. ContractNeverForgotten'
  BY <1>0 DEF IInv, TypeOK, ContractNeverForgotten, OrderOK, stripe_cancels
<1>7. ReservedSlotIsTheirs'
  BY <1>0 DEF IInv, TypeOK, ReservedSlotIsTheirs, Open, SlotsOK, stripe_cancels
<1>8. KeptWhilePaid'
  BY <1>0 DEF IInv, TypeOK, KeptWhilePaid, PaidOver, PaidOK, stripe_cancels
<1> QED
  BY <1>0, <1>1, <1>2, <1>3, <1>4, <1>5, <1>6, <1>7, <1>8, LoudStep

(* Another's claim takes a slot no open order is on.                        *)
LEMMA claim_slotOK ==
  ASSUME IInv, NEW s \in Slots, NEW who \in Others, claim_slot(s, who)
  PROVE  IInv'
<1>0. UNCHANGED <<session, bound, terminal, claimed, recorded, worldVars, job>> /\ TypeOK
  BY DEF claim_slot, UnchangedButSlots, IInv
<1>1. TypeOK'
  BY <1>0 DEF TypeOK, claim_slot, reservation_blocks, Open
<1>2. Forward
  BY <1>0 DEF TypeOK, Forward, claim_slot, reservation_blocks, Open
<1>3. SlotsOK'
  BY <1>0 DEF IInv, TypeOK, SlotsOK, Open, claim_slot, reservation_blocks, Open
<1>4. \A p \in Orders : OrderOK(p)'
  BY <1>0 DEF IInv, TypeOK, OrderOK, claim_slot, reservation_blocks, Open
<1>5. \A p \in Orders : PaidOK(p)'
  BY <1>0 DEF IInv, TypeOK, PaidOK, PaidOver, claim_slot, reservation_blocks, Open
<1>6. ContractNeverForgotten'
  BY <1>0 DEF IInv, TypeOK, ContractNeverForgotten, OrderOK, claim_slot,
              reservation_blocks, Open
<1>7. ReservedSlotIsTheirs'
  BY <1>0 DEF IInv, TypeOK, ReservedSlotIsTheirs, Open, SlotsOK, claim_slot,
              reservation_blocks, Open
<1>8. KeptWhilePaid'
  BY <1>0 DEF IInv, TypeOK, KeptWhilePaid, PaidOver, PaidOK, claim_slot,
              reservation_blocks, Open
<1> QED
  BY <1>0, <1>1, <1>2, <1>3, <1>4, <1>5, <1>6, <1>7, <1>8, LoudStep

(* The claimed slot is handed over.                                         *)
LEMMA provisionedOK ==
  ASSUME IInv, NEW s \in Slots, provisioned(s)
  PROVE  IInv'
<1>0. UNCHANGED <<session, bound, terminal, claimed, recorded, worldVars, job>> /\ TypeOK
  BY DEF provisioned, UnchangedButSlots, IInv
<1>1. TypeOK'
  BY <1>0 DEF TypeOK, provisioned
<1>2. Forward
  BY <1>0 DEF TypeOK, Forward, provisioned
<1>3. SlotsOK'
  BY <1>0 DEF IInv, TypeOK, SlotsOK, Open, provisioned
<1>4. \A p \in Orders : OrderOK(p)'
  BY <1>0 DEF IInv, TypeOK, OrderOK, provisioned
<1>5. \A p \in Orders : PaidOK(p)'
  BY <1>0 DEF IInv, TypeOK, PaidOK, PaidOver, provisioned
<1>6. ContractNeverForgotten'
  BY <1>0 DEF IInv, TypeOK, ContractNeverForgotten, OrderOK, provisioned
<1>7. ReservedSlotIsTheirs'
  BY <1>0 DEF IInv, TypeOK, ReservedSlotIsTheirs, Open, SlotsOK, provisioned
<1>8. KeptWhilePaid'
  BY <1>0 DEF IInv, TypeOK, KeptWhilePaid, PaidOver, PaidOK, provisioned
<1> QED
  BY <1>0, <1>1, <1>2, <1>3, <1>4, <1>5, <1>6, <1>7, <1>8, LoudStep

(* A claim that failed: wiped only if no open order is on it.               *)
LEMMA hold_failed_provisionOK ==
  ASSUME IInv, NEW s \in Slots, hold_failed_provision(s)
  PROVE  IInv'
<1>0. UNCHANGED <<session, bound, terminal, claimed, recorded, worldVars, job>> /\ TypeOK
  BY DEF hold_failed_provision, UnchangedButSlots, IInv
<1>1. TypeOK'
  BY <1>0 DEF TypeOK, hold_failed_provision, reservation_blocks, Open
<1>2. Forward
  BY <1>0 DEF TypeOK, Forward, hold_failed_provision, reservation_blocks, Open
<1>3. SlotsOK'
  BY <1>0 DEF IInv, TypeOK, SlotsOK, Open, hold_failed_provision, reservation_blocks, Open
<1>4. \A p \in Orders : OrderOK(p)'
  BY <1>0 DEF IInv, TypeOK, OrderOK, hold_failed_provision, reservation_blocks, Open
<1>5. \A p \in Orders : PaidOK(p)'
  BY <1>0 DEF IInv, TypeOK, PaidOK, PaidOver, hold_failed_provision, reservation_blocks,
              Open
<1>6. ContractNeverForgotten'
  BY <1>0 DEF IInv, TypeOK, ContractNeverForgotten, OrderOK, hold_failed_provision,
              reservation_blocks, Open
<1>7. ReservedSlotIsTheirs'
  BY <1>0 DEF IInv, TypeOK, ReservedSlotIsTheirs, Open, SlotsOK, hold_failed_provision,
              reservation_blocks, Open
<1>8. KeptWhilePaid'
  <2>1. ASSUME NEW p \in Orders, claimed[p], ~PaidOver(p) PROVE Open(p)
    BY <2>1 DEF IInv, OrderOK, PaidOK, Open
  <2>2. \A p \in Orders : PaidOver(p)' <=> PaidOver(p)
    BY <1>0 DEF PaidOver
  <2>3. ASSUME NEW p \in Orders, claimed[p], ~PaidOver(p)
        PROVE  tenant'[SlotOf[p]] = p /\ slot'[SlotOf[p]] \in {"claiming", "held"}
    <3>1. /\ tenant[SlotOf[p]] = p /\ slot[SlotOf[p]] \in {"claiming", "held"}
          /\ SlotOf[p] \in Slots
      BY <2>3 DEF IInv, KeptWhilePaid
    <3> QED
      BY <1>0, <2>1, <2>3, <3>1 DEF TypeOK, hold_failed_provision, reservation_blocks
  <2> QED
    BY <1>0, <2>2, <2>3 DEF KeptWhilePaid
<1> QED
  BY <1>0, <1>1, <1>2, <1>3, <1>4, <1>5, <1>6, <1>7, <1>8, LoudStep

(* A release: every open order on the slot is terminal and paid out.        *)
LEMMA begin_releaseOK ==
  ASSUME IInv, NEW s \in Slots, begin_release(s)
  PROVE  IInv'
<1>0. UNCHANGED <<session, bound, terminal, claimed, recorded, worldVars, job>> /\ TypeOK
  BY DEF begin_release, UnchangedButSlots, IInv
<1>1. TypeOK'
  BY <1>0 DEF TypeOK, begin_release, release_allowed, Open
<1>2. Forward
  BY <1>0 DEF TypeOK, Forward, begin_release, release_allowed, Open
<1>3. SlotsOK'
  BY <1>0 DEF IInv, TypeOK, SlotsOK, Open, begin_release, release_allowed, Open
<1>4. \A p \in Orders : OrderOK(p)'
  BY <1>0 DEF IInv, TypeOK, OrderOK, begin_release, release_allowed, Open
<1>5. \A p \in Orders : PaidOK(p)'
  BY <1>0 DEF IInv, TypeOK, PaidOK, PaidOver, begin_release, release_allowed, Open
<1>6. ContractNeverForgotten'
  BY <1>0 DEF IInv, TypeOK, ContractNeverForgotten, OrderOK, begin_release,
              release_allowed, Open
<1>7. ReservedSlotIsTheirs'
  BY <1>0 DEF IInv, TypeOK, ReservedSlotIsTheirs, Open, SlotsOK, begin_release,
              release_allowed, Open
<1>8. KeptWhilePaid'
  <2>1. ASSUME NEW p \in Orders, claimed[p], ~PaidOver(p) PROVE Open(p)
    BY <2>1 DEF IInv, OrderOK, PaidOK, Open
  <2>2. \A p \in Orders : PaidOver(p)' <=> PaidOver(p)
    BY <1>0 DEF PaidOver
  <2>3. ASSUME NEW p \in Orders, claimed[p], ~PaidOver(p)
        PROVE  tenant'[SlotOf[p]] = p /\ slot'[SlotOf[p]] \in {"claiming", "held"}
    <3>1. /\ tenant[SlotOf[p]] = p /\ slot[SlotOf[p]] \in {"claiming", "held"}
          /\ SlotOf[p] \in Slots
      BY <2>3 DEF IInv, KeptWhilePaid
    <3> QED
      BY <1>0, <2>1, <2>3, <3>1 DEF TypeOK, begin_release, release_allowed
  <2> QED
    BY <1>0, <2>2, <2>3 DEF KeptWhilePaid
<1> QED
  BY <1>0, <1>1, <1>2, <1>3, <1>4, <1>5, <1>6, <1>7, <1>8, LoudStep

(* The slot is free again, and what it leaves behind is closed.             *)
LEMMA free_releasedOK ==
  ASSUME IInv, NEW s \in Slots, free_released(s)
  PROVE  IInv'
<1>0. UNCHANGED <<session, bound, terminal, claimed, recorded, worldVars, job>> /\ TypeOK
  BY DEF free_released, UnchangedButSlots, IInv
<1>1. TypeOK'
  <2>1. status' \in [Orders -> Statuses]
    BY <1>0 DEF TypeOK, Statuses, free_released, retire_released
  <2> QED
    BY <1>0, <2>1 DEF TypeOK, free_released
<1>2. Forward
  BY <1>0 DEF TypeOK, Forward, free_released, retire_released, release_allowed, Open
<1>3. SlotsOK'
  BY <1>0 DEF IInv, TypeOK, SlotsOK, Open, free_released, retire_released,
              release_allowed, Open
<1>4. \A p \in Orders : OrderOK(p)'
  BY <1>0 DEF IInv, TypeOK, OrderOK, free_released, retire_released, release_allowed, Open
<1>5. \A p \in Orders : PaidOK(p)'
  BY <1>0 DEF IInv, TypeOK, PaidOK, PaidOver, free_released, retire_released,
              release_allowed, Open
<1>6. ContractNeverForgotten'
  BY <1>0 DEF IInv, TypeOK, ContractNeverForgotten, OrderOK, free_released,
              retire_released, release_allowed, Open
<1>7. ReservedSlotIsTheirs'
  BY <1>0 DEF IInv, TypeOK, ReservedSlotIsTheirs, Open, SlotsOK, free_released,
              retire_released, release_allowed, Open
<1>8. KeptWhilePaid'
  BY <1>0 DEF IInv, TypeOK, KeptWhilePaid, PaidOver, PaidOK, free_released,
              retire_released, release_allowed, Open
<1> QED
  BY <1>0, <1>1, <1>2, <1>3, <1>4, <1>5, <1>6, <1>7, <1>8, LoudStep

(* A new order is the only open one on its slot.                            *)
LEMMA reserveOK ==
  ASSUME IInv, NEW t \in Threads, NEW o \in Orders, reserve(t, o)
  PROVE  IInv'
<1>1. TypeOK /\ JobOK(t) /\ OrderOK(o) /\ job[t] \in Jobs
  BY DEF IInv, TypeOK
<1>2. UNCHANGED <<session, bound, cancelVars, paidVars, slotVars, worldVars>>
  BY DEF reserve
<1>3. Moved(t)
  <2>1. "mark" \in Steps /\ "none" \in Purposes /\ 0 \in 0..MaxMonths + 1
    BY Names
  <2>2. Turned(t, "mark", o, "none", FALSE, 0)
    BY <1>1, <2>1, TurnTurns DEF reserve, Begin
  <2>3. status'[o] # "none" /\ months[o] >= 0
    BY <1>1 DEF TypeOK, reserve
  <2> QED
    BY <1>2, <2>2, <2>3 DEF Turned, JobOK, PayingStep
<1>4. TypeOK'
  BY <1>1, <1>2, <1>3 DEF TypeOK, Statuses, reserve, reservation_blocks, Open
<1>5. Forward
  BY <1>1, <1>2 DEF TypeOK, Forward, reserve, reservation_blocks, Open
<1>6. SlotsOK'
  BY <1>1, <1>2 DEF IInv, TypeOK, SlotsOK, Open, reserve, reservation_blocks, Open
<1>7. \A p \in Orders : OrderOK(p)'
  BY <1>1, <1>2 DEF IInv, TypeOK, OrderOK, reserve, reservation_blocks, Open
<1>8. \A p \in Orders : PaidOK(p)'
  BY <1>1, <1>2 DEF IInv, TypeOK, PaidOK, PaidOver, reserve, reservation_blocks, Open
<1>9. ContractNeverForgotten'
  BY <1>1, <1>2 DEF IInv, TypeOK, ContractNeverForgotten, OrderOK, reserve,
                    reservation_blocks, Open
<1>10. ReservedSlotIsTheirs'
  <2>1. tenant[SlotOf[o]] = None
    BY DEF IInv, SlotsOK, reserve
  <2> QED
    BY <1>1, <1>2, <2>1 DEF IInv, TypeOK, ReservedSlotIsTheirs, Open, reserve
<1>11. KeptWhilePaid'
  BY <1>1, <1>2 DEF IInv, TypeOK, KeptWhilePaid, PaidOver, PaidOK, reserve,
                    reservation_blocks, Open
<1> QED
  BY <1>3, <1>4, <1>5, <1>6, <1>7, <1>8, <1>9, <1>10, <1>11, LoudStep

(* Marking an order unknown closes and opens nothing.                       *)
LEMMA mark_slot_subscription_unknownOK ==
  ASSUME IInv, NEW t \in Threads, NEW o \in Orders, job[t].order = o,
         mark_slot_subscription_unknown(t, o)
  PROVE  IInv'
<1>1. TypeOK /\ JobOK(t) /\ OrderOK(o) /\ job[t] \in Jobs
  BY DEF IInv, TypeOK
<1>2. UNCHANGED <<session, bound, terminal, claimed, recorded, slot, tenant, worldVars>>
  BY DEF mark_slot_subscription_unknown
<1>3. Moved(t)
  <2>1. Turned(t, "create", job[t].order, job[t].why, job[t].dead, job[t].month)
    BY <1>1, GoTurns, Names DEF mark_slot_subscription_unknown
  <2>2. status[o] # "none" => status'[o] # "none"
    BY <1>1 DEF mark_slot_subscription_unknown, TypeOK
  <2> QED
    BY <1>1, <1>2, <2>1, <2>2 DEF Turned, JobOK, PayingStep, At,
                                  mark_slot_subscription_unknown
<1>4. TypeOK'
  BY <1>1, <1>2, <1>3 DEF TypeOK, Statuses, At, mark_slot_subscription_unknown
<1>5. Forward
  BY <1>1, <1>2 DEF TypeOK, Forward, At, mark_slot_subscription_unknown
<1>6. SlotsOK'
  BY <1>1, <1>2 DEF IInv, TypeOK, SlotsOK, Open, At, mark_slot_subscription_unknown
<1>7. \A p \in Orders : OrderOK(p)'
  BY <1>1, <1>2 DEF IInv, TypeOK, OrderOK, At, mark_slot_subscription_unknown
<1>8. \A p \in Orders : PaidOK(p)'
  BY <1>1, <1>2 DEF IInv, TypeOK, PaidOK, PaidOver, At, mark_slot_subscription_unknown
<1>9. ContractNeverForgotten'
  BY <1>1, <1>2 DEF IInv, TypeOK, ContractNeverForgotten, OrderOK, At,
                    mark_slot_subscription_unknown
<1>10. ReservedSlotIsTheirs'
  BY <1>1, <1>2 DEF IInv, TypeOK, ReservedSlotIsTheirs, Open, SlotsOK, At,
                    mark_slot_subscription_unknown
<1>11. KeptWhilePaid'
  BY <1>1, <1>2 DEF IInv, TypeOK, KeptWhilePaid, PaidOver, PaidOK, At,
                    mark_slot_subscription_unknown
<1> QED
  BY <1>3, <1>4, <1>5, <1>6, <1>7, <1>8, <1>9, <1>10, <1>11, LoudStep

(* A Session is made, or found.                                             *)
LEMMA recover_subscription_sessionOK ==
  ASSUME IInv, NEW t \in Threads, NEW o \in Orders, job[t].order = o,
         recover_subscription_session(t, o)
  PROVE  IInv'
<1>1. TypeOK /\ JobOK(t) /\ OrderOK(o) /\ job[t] \in Jobs
  BY DEF IInv, TypeOK
<1>2. UNCHANGED <<storeVars, sub, ends, months, over, unpaid, age, asked, outage>>
  BY DEF recover_subscription_session
<1>3. Moved(t)
  <2>1. CASE Done(t)
    BY <1>1, <2>1, DoneTurns DEF Turned
  <2>2. CASE Go(t, "attach") /\ sess'[o] # "none"
    <3>1. Turned(t, "attach", job[t].order, job[t].why, job[t].dead, job[t].month)
      BY <1>1, <2>2, GoTurns, Names
    <3> QED
      BY <1>1, <1>2, <2>2, <3>1 DEF Turned, JobOK, PayingStep, At,
                                    recover_subscription_session
  <2> QED
    BY <1>1, <2>1, <2>2 DEF recover_subscription_session, TypeOK
<1>4. TypeOK'
  BY <1>1, <1>2, <1>3 DEF TypeOK, Statuses, At, recover_subscription_session
<1>5. Forward
  BY <1>1, <1>2 DEF TypeOK, Forward, At, recover_subscription_session
<1>6. SlotsOK'
  BY <1>1, <1>2 DEF IInv, TypeOK, SlotsOK, Open, At, recover_subscription_session
<1>7. \A p \in Orders : OrderOK(p)'
  BY <1>1, <1>2 DEF IInv, TypeOK, OrderOK, At, recover_subscription_session
<1>8. \A p \in Orders : PaidOK(p)'
  BY <1>1, <1>2 DEF IInv, TypeOK, PaidOK, PaidOver, At, recover_subscription_session
<1>9. ContractNeverForgotten'
  BY <1>1, <1>2 DEF IInv, TypeOK, ContractNeverForgotten, OrderOK, At,
                    recover_subscription_session
<1>10. ReservedSlotIsTheirs'
  BY <1>1, <1>2 DEF IInv, TypeOK, ReservedSlotIsTheirs, Open, SlotsOK, At,
                    recover_subscription_session
<1>11. KeptWhilePaid'
  BY <1>1, <1>2 DEF IInv, TypeOK, KeptWhilePaid, PaidOver, PaidOK, At,
                    recover_subscription_session
<1> QED
  BY <1>3, <1>4, <1>5, <1>6, <1>7, <1>8, <1>9, <1>10, <1>11, LoudStep

(* Attaching the Session: an order not attached yet is not closed.          *)
LEMMA attach_slot_subscription_sessionOK ==
  ASSUME IInv, NEW t \in Threads, NEW o \in Orders, job[t].order = o,
         attach_slot_subscription_session(t, o)
  PROVE  IInv'
<1>1. TypeOK /\ JobOK(t) /\ OrderOK(o) /\ job[t] \in Jobs
  BY DEF IInv, TypeOK
<1>2. UNCHANGED <<bound, terminal, required, holds, claimed, recorded,
                 slot, tenant, worldVars>>
  BY DEF attach_slot_subscription_session
<1>3. Moved(t)
  <2>1. CASE Done(t)
    BY <1>1, <2>1, DoneTurns DEF Turned
  <2>2. status'[o] # "none" /\ session'[o]
    BY <1>1 DEF JobOK, At, TypeOK, attach_slot_subscription_session
  <2>3. ASSUME NEW step \in {"expire", "look"}, Go(t, step)
        PROVE  Moved(t)
    <3>1. Turned(t, step, job[t].order, job[t].why, job[t].dead, job[t].month)
      BY <1>1, <2>3, GoTurns, Names
    <3> QED
      BY <1>1, <1>2, <2>2, <3>1 DEF Turned, JobOK, PayingStep, At,
                                    attach_slot_subscription_session
  <2> QED
    BY <2>1, <2>3 DEF attach_slot_subscription_session
<1>4. TypeOK'
  BY <1>1, <1>2, <1>3 DEF TypeOK, Statuses, At, attach_slot_subscription_session
<1>5. Forward
  BY <1>1, <1>2 DEF TypeOK, Forward, At, attach_slot_subscription_session
<1>6. SlotsOK'
  <2>1. \A p \in Orders : Open(p)' => Open(p)
    BY <1>1, <1>2 DEF TypeOK, Open, JobOK, OrderOK, At, attach_slot_subscription_session
  <2> QED
    BY <1>2, <2>1 DEF IInv, SlotsOK
<1>7. \A p \in Orders : OrderOK(p)'
  BY <1>1, <1>2 DEF IInv, TypeOK, JobOK, OrderOK, At, attach_slot_subscription_session
<1>8. \A p \in Orders : PaidOK(p)'
  BY <1>1, <1>2 DEF IInv, TypeOK, PaidOK, PaidOver, At, attach_slot_subscription_session
<1>9. ContractNeverForgotten'
  BY <1>1, <1>2 DEF IInv, TypeOK, ContractNeverForgotten, OrderOK, At,
                    attach_slot_subscription_session
<1>10. ReservedSlotIsTheirs'
  <2>1. \A p \in Orders : Open(p)' => Open(p)
    BY <1>1, <1>2 DEF TypeOK, Open, JobOK, OrderOK, At, attach_slot_subscription_session
  <2> QED
    BY <1>2, <2>1 DEF IInv, ReservedSlotIsTheirs
<1>11. KeptWhilePaid'
  BY <1>1, <1>2 DEF IInv, TypeOK, KeptWhilePaid, PaidOver, PaidOK, At,
                    attach_slot_subscription_session
<1> QED
  BY <1>3, <1>4, <1>5, <1>6, <1>7, <1>8, <1>9, <1>10, <1>11, LoudStep

(* Only an open Session is expired.                                         *)
LEMMA expire_unpaid_sessionOK ==
  ASSUME IInv, NEW t \in Threads, NEW o \in Orders, job[t].order = o,
         expire_unpaid_session(t, o)
  PROVE  IInv'
<1>1. TypeOK /\ JobOK(t) /\ OrderOK(o) /\ job[t] \in Jobs
  BY DEF IInv, TypeOK
<1>2. UNCHANGED <<storeVars, sub, ends, months, over, unpaid, age, asked, outage>>
  BY DEF expire_unpaid_session
<1>3. Moved(t)
  <2>1. CASE Done(t)
    BY <1>1, <2>1, DoneTurns DEF Turned
  <2>2. ASSUME NEW step \in {"close", "fetch"}, Go(t, step),
               step = "close" => sess'[o] = "expired"
        PROVE  Moved(t)
    <3>1. Turned(t, step, job[t].order, job[t].why, job[t].dead, job[t].month)
      BY <1>1, <2>2, GoTurns, Names
    <3> QED
      BY <1>1, <1>2, <2>2, <3>1 DEF Turned, JobOK, PayingStep, At, expire_unpaid_session
  <2> QED
    BY <2>1, <2>2 DEF expire_unpaid_session
<1>4. TypeOK'
  BY <1>1, <1>2, <1>3 DEF TypeOK, Statuses, At, expire_unpaid_session
<1>5. Forward
  BY <1>1, <1>2 DEF TypeOK, Forward, At, expire_unpaid_session
<1>6. SlotsOK'
  BY <1>1, <1>2 DEF IInv, TypeOK, SlotsOK, Open, At, expire_unpaid_session
<1>7. \A p \in Orders : OrderOK(p)'
  BY <1>1, <1>2 DEF IInv, TypeOK, OrderOK, At, expire_unpaid_session
<1>8. \A p \in Orders : PaidOK(p)'
  BY <1>1, <1>2 DEF IInv, TypeOK, PaidOK, PaidOver, At, expire_unpaid_session
<1>9. ContractNeverForgotten'
  BY <1>1, <1>2 DEF IInv, TypeOK, ContractNeverForgotten, OrderOK, At,
                    expire_unpaid_session
<1>10. ReservedSlotIsTheirs'
  BY <1>1, <1>2 DEF IInv, TypeOK, ReservedSlotIsTheirs, Open, SlotsOK, At,
                    expire_unpaid_session
<1>11. KeptWhilePaid'
  BY <1>1, <1>2 DEF IInv, TypeOK, KeptWhilePaid, PaidOver, PaidOK, At,
                    expire_unpaid_session
<1> QED
  BY <1>3, <1>4, <1>5, <1>6, <1>7, <1>8, <1>9, <1>10, <1>11, LoudStep

(* An order is closed on the word of Stripe that its Session expired.       *)
LEMMA close_slot_subscriptionOK ==
  ASSUME IInv, NEW t \in Threads, NEW o \in Orders, job[t].order = o,
         close_slot_subscription(t, o)
  PROVE  IInv'
<1>1. TypeOK /\ JobOK(t) /\ OrderOK(o) /\ job[t] \in Jobs
  BY DEF IInv, TypeOK
<1>2. UNCHANGED <<session, bound, terminal, required, holds, claimed, recorded,
                 slot, tenant, worldVars>>
  BY DEF close_slot_subscription
<1>3. Moved(t)
  BY <1>1, DoneTurns DEF Turned, close_slot_subscription
<1>4. TypeOK'
  BY <1>1, <1>2, <1>3 DEF TypeOK, Statuses, At, close_slot_subscription
<1>5. Forward
  BY <1>1, <1>2 DEF TypeOK, Forward, At, close_slot_subscription
<1>6. SlotsOK'
  BY <1>1, <1>2 DEF IInv, TypeOK, SlotsOK, Open, At, close_slot_subscription
<1>7. \A p \in Orders : OrderOK(p)'
  BY <1>1, <1>2 DEF IInv, TypeOK, OrderOK, At, close_slot_subscription
<1>8. \A p \in Orders : PaidOK(p)'
  BY <1>1, <1>2 DEF IInv, TypeOK, PaidOK, PaidOver, At, close_slot_subscription
<1>9. ContractNeverForgotten'
  BY <1>1, <1>2 DEF IInv, TypeOK, ContractNeverForgotten, OrderOK, JobOK, At,
                    close_slot_subscription
<1>10. ReservedSlotIsTheirs'
  BY <1>1, <1>2 DEF IInv, TypeOK, ReservedSlotIsTheirs, Open, SlotsOK, At,
                    close_slot_subscription
<1>11. KeptWhilePaid'
  BY <1>1, <1>2 DEF IInv, TypeOK, KeptWhilePaid, PaidOver, PaidOK, At,
                    close_slot_subscription
<1> QED
  BY <1>3, <1>4, <1>5, <1>6, <1>7, <1>8, <1>9, <1>10, <1>11, LoudStep

(* Binding goes on with a month that is paid, or with none.                 *)
LEMMA bind_slot_subscriptionOK ==
  ASSUME IInv, NEW t \in Threads, NEW o \in Orders, job[t].order = o,
         bind_slot_subscription(t, o)
  PROVE  IInv'
<1>1. TypeOK /\ JobOK(t) /\ OrderOK(o) /\ job[t] \in Jobs
  BY DEF IInv, TypeOK
<1>2. UNCHANGED <<status, session, terminal, required, holds, claimed, recorded,
                 slot, tenant, worldVars>>
  BY DEF bind_slot_subscription
<1>3. Moved(t)
  <2>1. CASE Done(t)
    BY <1>1, <2>1, DoneTurns DEF Turned
  <2>2. ASSUME NEW step \in {"ask", "record", "hold", "update"}, Go(t, step),
               step = "record" => job[t].why = "paid"
        PROVE  Moved(t)
    <3>1. Turned(t, step, job[t].order, job[t].why, job[t].dead, job[t].month)
      BY <1>1, <2>2, GoTurns, Names
    <3> QED
      BY <1>1, <1>2, <2>2, <3>1 DEF Turned, JobOK, PayingStep, At, bind_slot_subscription
  <2> QED
    BY <2>1, <2>2 DEF bind_slot_subscription
<1>4. TypeOK'
  BY <1>1, <1>2, <1>3 DEF TypeOK, Statuses, At, bind_slot_subscription
<1>5. Forward
  BY <1>1, <1>2 DEF TypeOK, Forward, At, bind_slot_subscription
<1>6. SlotsOK'
  BY <1>1, <1>2 DEF IInv, TypeOK, SlotsOK, Open, At, bind_slot_subscription
<1>7. \A p \in Orders : OrderOK(p)'
  BY <1>1, <1>2 DEF IInv, TypeOK, JobOK, OrderOK, At, bind_slot_subscription
<1>8. \A p \in Orders : PaidOK(p)'
  BY <1>1, <1>2 DEF IInv, TypeOK, PaidOK, PaidOver, At, bind_slot_subscription
<1>9. ContractNeverForgotten'
  BY <1>1, <1>2 DEF IInv, TypeOK, ContractNeverForgotten, OrderOK, At,
                    bind_slot_subscription
<1>10. ReservedSlotIsTheirs'
  BY <1>1, <1>2 DEF IInv, TypeOK, ReservedSlotIsTheirs, Open, SlotsOK, At,
                    bind_slot_subscription
<1>11. KeptWhilePaid'
  BY <1>1, <1>2 DEF IInv, TypeOK, KeptWhilePaid, PaidOver, PaidOK, At,
                    bind_slot_subscription
<1> QED
  BY <1>3, <1>4, <1>5, <1>6, <1>7, <1>8, <1>9, <1>10, <1>11, LoudStep

(* What was read of Stripe may be old, but a dead subscription stays dead.  *)
LEMMA update_slot_subscription_stateOK ==
  ASSUME IInv, NEW t \in Threads, NEW o \in Orders, job[t].order = o,
         update_slot_subscription_state(t, o)
  PROVE  IInv'
<1>1. TypeOK /\ JobOK(t) /\ OrderOK(o) /\ job[t] \in Jobs
  BY DEF IInv, TypeOK
<1>2. UNCHANGED <<session, bound, holds, claimed, recorded, slot, tenant, worldVars>>
  BY DEF update_slot_subscription_state
<1>3. Moved(t)
  <2>1. CASE Done(t)
    BY <1>1, <2>1, DoneTurns DEF Turned
  <2>2. CASE Turn(t, Job("record", o, "none", job[t].month)) /\ job[t].why = "reconcile"
    <3>1. job[t].month \in 0..MaxMonths + 1 /\ "record" \in Steps /\ "none" \in Purposes
      BY <1>1, Names DEF Jobs
    <3>2. Turned(t, "record", o, "none", FALSE, job[t].month)
      BY <1>1, <2>2, <3>1, TurnTurns
    <3>3. status'[o] # "none" /\ session[o] /\ job[t].month >= 1
      BY <1>1, <2>2 DEF TypeOK, JobOK, PayingStep, At, update_slot_subscription_state,
                        retire_released
    <3> QED
      BY <1>2, <3>2, <3>3 DEF Turned, JobOK, PayingStep
  <2> QED
    BY <2>1, <2>2 DEF update_slot_subscription_state
<1>4. TypeOK'
  <2>1. status' \in [Orders -> Statuses]
    BY <1>1 DEF TypeOK, Statuses, update_slot_subscription_state, retire_released
  <2>2. terminal' \in [Orders -> BOOLEAN] /\ required' \in [Orders -> BOOLEAN]
    BY <1>1 DEF TypeOK, Jobs, update_slot_subscription_state
  <2> QED
    BY <1>1, <1>2, <1>3, <2>1, <2>2 DEF TypeOK
<1>5. Forward
  BY <1>1, <1>2 DEF TypeOK, Forward, At, update_slot_subscription_state, retire_released,
                    release_allowed, Open
<1>6. SlotsOK'
  BY <1>1, <1>2 DEF IInv, TypeOK, SlotsOK, Open, At, update_slot_subscription_state,
                    retire_released, release_allowed, Open
<1>7. \A p \in Orders : OrderOK(p)'
  BY <1>1, <1>2 DEF IInv, TypeOK, JobOK, OrderOK, At, update_slot_subscription_state,
                    retire_released, release_allowed, Open
<1>8. \A p \in Orders : PaidOK(p)'
  BY <1>1, <1>2 DEF IInv, TypeOK, PaidOK, PaidOver, At, update_slot_subscription_state,
                    retire_released, release_allowed, Open
<1>9. ContractNeverForgotten'
  <2>1. \A p \in Orders : terminal'[p] => sub[p] = "canceled"
    BY <1>1, <1>2 DEF IInv, TypeOK, JobOK, OrderOK, At, update_slot_subscription_state
  <2>2. \A p \in Orders : sess[p] = "open" => sub[p] = "none"
    BY DEF IInv, OrderOK
  <2>3. \A p \in Orders : status'[p] = "closed" => status[p] = "closed" \/ terminal'[p]
    BY <1>1, <1>2 DEF TypeOK, update_slot_subscription_state, retire_released,
                      release_allowed, Open
  <2> QED
    BY <1>2, <2>1, <2>2, <2>3 DEF IInv, TypeOK, ContractNeverForgotten
<1>10. ReservedSlotIsTheirs'
  BY <1>1, <1>2 DEF IInv, TypeOK, ReservedSlotIsTheirs, Open, SlotsOK, At,
                    update_slot_subscription_state, retire_released, release_allowed, Open
<1>11. KeptWhilePaid'
  BY <1>1, <1>2 DEF IInv, TypeOK, KeptWhilePaid, PaidOver, PaidOK, At,
                    update_slot_subscription_state, retire_released, release_allowed, Open
<1> QED
  BY <1>3, <1>4, <1>5, <1>6, <1>7, <1>8, <1>9, <1>10, <1>11, LoudStep

(* The same, of what confirms a cancellation.                               *)
LEMMA confirm_slot_subscription_cancellationOK ==
  ASSUME IInv, NEW t \in Threads, NEW o \in Orders, job[t].order = o,
         confirm_slot_subscription_cancellation(t, o)
  PROVE  IInv'
<1>1. TypeOK /\ JobOK(t) /\ OrderOK(o) /\ job[t] \in Jobs
  BY DEF IInv, TypeOK
<1>2. UNCHANGED <<session, bound, holds, claimed, recorded, slot, tenant, worldVars>>
  BY DEF confirm_slot_subscription_cancellation
<1>3. Moved(t)
  BY <1>1, DoneTurns DEF Turned, confirm_slot_subscription_cancellation
<1>4. TypeOK'
  <2>1. status' \in [Orders -> Statuses]
    BY <1>1 DEF TypeOK, Statuses, confirm_slot_subscription_cancellation, retire_released
  <2>2. terminal' \in [Orders -> BOOLEAN] /\ required' \in [Orders -> BOOLEAN]
    BY <1>1 DEF TypeOK, Jobs, confirm_slot_subscription_cancellation
  <2> QED
    BY <1>1, <1>2, <1>3, <2>1, <2>2 DEF TypeOK
<1>5. Forward
  BY <1>1, <1>2 DEF TypeOK, Forward, At, confirm_slot_subscription_cancellation,
                    retire_released, release_allowed, Open
<1>6. SlotsOK'
  BY <1>1, <1>2 DEF IInv, TypeOK, SlotsOK, Open, At,
                    confirm_slot_subscription_cancellation, retire_released,
                    release_allowed, Open
<1>7. \A p \in Orders : OrderOK(p)'
  BY <1>1, <1>2 DEF IInv, TypeOK, JobOK, OrderOK, At,
                    confirm_slot_subscription_cancellation, retire_released,
                    release_allowed, Open
<1>8. \A p \in Orders : PaidOK(p)'
  BY <1>1, <1>2 DEF IInv, TypeOK, PaidOK, PaidOver, At,
                    confirm_slot_subscription_cancellation, retire_released,
                    release_allowed, Open
<1>9. ContractNeverForgotten'
  <2>1. \A p \in Orders : terminal'[p] => sub[p] = "canceled"
    BY <1>1, <1>2 DEF IInv, TypeOK, JobOK, OrderOK, At,
                      confirm_slot_subscription_cancellation
  <2>2. \A p \in Orders : sess[p] = "open" => sub[p] = "none"
    BY DEF IInv, OrderOK
  <2>3. \A p \in Orders : status'[p] = "closed" => status[p] = "closed" \/ terminal'[p]
    BY <1>1, <1>2 DEF TypeOK, confirm_slot_subscription_cancellation, retire_released,
                      release_allowed, Open
  <2> QED
    BY <1>2, <2>1, <2>2, <2>3 DEF IInv, TypeOK, ContractNeverForgotten
<1>10. ReservedSlotIsTheirs'
  BY <1>1, <1>2 DEF IInv, TypeOK, ReservedSlotIsTheirs, Open, SlotsOK, At,
                    confirm_slot_subscription_cancellation, retire_released,
                    release_allowed, Open
<1>11. KeptWhilePaid'
  BY <1>1, <1>2 DEF IInv, TypeOK, KeptWhilePaid, PaidOver, PaidOK, At,
                    confirm_slot_subscription_cancellation, retire_released,
                    release_allowed, Open
<1> QED
  BY <1>3, <1>4, <1>5, <1>6, <1>7, <1>8, <1>9, <1>10, <1>11, LoudStep

-----------------------------------------------------------------------------
(* Recording a month.                                                       *)
LEMMA ReviewedTurns ==
  ASSUME TypeOK, NEW t \in Threads, NEW o \in Orders, status[o] # "none",
         UNCHANGED months, status'[o] # "none", Reviewed(t, o)
  PROVE  Moved(t)
<1>1. CASE Done(t)
  BY <1>1, DoneTurns DEF Turned
<1>2. CASE Turn(t, Job("read", o, "none", 0))
  <2>1. "read" \in Steps /\ "none" \in Purposes /\ 0 \in 0..MaxMonths + 1
    BY Names
  <2>2. Turned(t, "read", o, "none", FALSE, 0)
    BY <1>2, <2>1, TurnTurns
  <2>3. months[o] \in Int /\ months[o] >= 0
    BY DEF TypeOK
  <2> QED
    BY <2>2, <2>3 DEF Turned, JobOK, PayingStep
<1> QED
  BY <1>1, <1>2 DEF Reviewed, Done

(* The first month, and the slot is free: the claim.                        *)
LEMMA grantedOK ==
  ASSUME IInv, NEW t \in Threads, NEW o \in Orders, At(t, "record"), job[t].order = o,
         NEW m, m = job[t].month, m <= months[o], Open(o), granted(t, o, m), Reviewed(t, o),
         UNCHANGED <<session, bound, terminal, worldVars>>
  PROVE  IInv'
<1>1. TypeOK /\ JobOK(t) /\ OrderOK(o) /\ job[t] \in Jobs /\ status[o] # "none"
  BY DEF IInv, TypeOK, JobOK, At
<1>2. m \in Months /\ m <= months[o] /\ session[o]
  BY <1>1 DEF Months, Jobs, JobOK, PayingStep, At, TypeOK
<1>3. Moved(t)
  <2>1. status'[o] # "none"
    BY <1>1 DEF TypeOK, granted
  <2> QED
    BY <1>1, <2>1, ReviewedTurns
<1>4. TypeOK'
  <2>1. recorded' \in [Orders -> SUBSET Months]
    BY <1>1, <1>2 DEF TypeOK, Recorded, granted
  <2> QED
    BY <1>1, <1>3, <2>1 DEF TypeOK, Statuses, granted
<1>5. Forward
  BY <1>1 DEF TypeOK, Forward, granted
<1>6. SlotsOK'
  BY <1>1, <1>2 DEF IInv, TypeOK, SlotsOK, Open, granted, Recorded, claim_available, Open
<1>7. \A p \in Orders : OrderOK(p)'
  BY <1>1, <1>2 DEF IInv, TypeOK, OrderOK, granted, Recorded, claim_available, Open
<1>8. \A p \in Orders : PaidOK(p)'
  <2>1. \A p \in Orders \ {o} : PaidOver(p)' <=> PaidOver(p)
    BY <1>1 DEF TypeOK, PaidOver, Recorded, granted
  <2>2. \A k \in recorded'[o] : k <= months[o]
    BY <1>1, <1>2 DEF IInv, PaidOK, TypeOK, Recorded, granted
  <2>3. status'[o] # "closed"
    BY <1>1 DEF TypeOK, Open, granted
  <2> QED
    BY <1>1, <2>1, <2>2, <2>3 DEF IInv, TypeOK, PaidOK, Recorded, granted
<1>9. ContractNeverForgotten'
  BY <1>1, <1>2 DEF IInv, TypeOK, ContractNeverForgotten, OrderOK, granted, Recorded,
                    claim_available, Open
<1>10. ReservedSlotIsTheirs'
  BY <1>1, <1>2 DEF IInv, TypeOK, ReservedSlotIsTheirs, Open, SlotsOK, granted, Recorded,
                    claim_available, Open
<1>11. KeptWhilePaid'
  <2>1. \A p \in Orders \ {o} : PaidOver(p)' <=> PaidOver(p)
    BY <1>1 DEF TypeOK, PaidOver, Recorded, granted
  <2>2. ASSUME NEW p \in Orders \ {o}, claimed'[p], ~PaidOver(p)'
        PROVE  tenant'[SlotOf[p]] = p /\ slot'[SlotOf[p]] \in {"claiming", "held"}
    <3>1. tenant[SlotOf[p]] = p /\ slot[SlotOf[p]] \in {"claiming", "held"}
      BY <1>1, <2>1, <2>2 DEF IInv, KeptWhilePaid, TypeOK, granted
    <3> QED
      BY <1>1, <2>2, <3>1 DEF TypeOK, claim_available, Open, granted
  <2>3. claimed'[o] => tenant'[SlotOf[o]] = o /\ slot'[SlotOf[o]] \in {"claiming", "held"}
    BY <1>1 DEF IInv, SlotsOK, TypeOK, granted
  <2> QED
    BY <2>2, <2>3 DEF KeptWhilePaid
<1> QED
  BY <1>3, <1>4, <1>5, <1>6, <1>7, <1>8, <1>9, <1>10, <1>11, LoudStep

(* The first month, and the slot is not to be had: no claim to keep.        *)
LEMMA review_requiredOK ==
  ASSUME IInv, NEW t \in Threads, NEW o \in Orders, At(t, "record"), job[t].order = o,
         NEW m, m = job[t].month, m <= months[o], Open(o), review_required(t, o, m), Reviewed(t, o),
         UNCHANGED <<session, bound, terminal, worldVars>>
  PROVE  IInv'
<1>1. TypeOK /\ JobOK(t) /\ OrderOK(o) /\ job[t] \in Jobs /\ status[o] # "none"
  BY DEF IInv, TypeOK, JobOK, At
<1>2. m \in Months /\ m <= months[o] /\ session[o]
  BY <1>1 DEF Months, Jobs, JobOK, PayingStep, At, TypeOK
<1>3. Moved(t)
  <2>1. status'[o] # "none"
    BY <1>1 DEF TypeOK, review_required
  <2> QED
    BY <1>1, <2>1, ReviewedTurns
<1>4. TypeOK'
  <2>1. recorded' \in [Orders -> SUBSET Months]
    BY <1>1, <1>2 DEF TypeOK, Recorded, review_required
  <2> QED
    BY <1>1, <1>3, <2>1 DEF TypeOK, Statuses, review_required
<1>5. Forward
  BY <1>1 DEF TypeOK, Forward, review_required
<1>6. SlotsOK'
  BY <1>1, <1>2 DEF IInv, TypeOK, SlotsOK, Open, review_required, Recorded, Open
<1>7. \A p \in Orders : OrderOK(p)'
  BY <1>1, <1>2 DEF IInv, TypeOK, OrderOK, review_required, Recorded, Open
<1>8. \A p \in Orders : PaidOK(p)'
  <2>1. \A p \in Orders \ {o} : PaidOver(p)' <=> PaidOver(p)
    BY <1>1 DEF TypeOK, PaidOver, Recorded, review_required
  <2>2. \A k \in recorded'[o] : k <= months[o]
    BY <1>1, <1>2 DEF IInv, PaidOK, TypeOK, Recorded, review_required
  <2>3. status'[o] # "closed"
    BY <1>1 DEF TypeOK, Open, review_required
  <2> QED
    BY <1>1, <2>1, <2>2, <2>3 DEF IInv, TypeOK, PaidOK, Recorded, review_required
<1>9. ContractNeverForgotten'
  BY <1>1, <1>2 DEF IInv, TypeOK, ContractNeverForgotten, OrderOK, review_required,
                    Recorded, Open
<1>10. ReservedSlotIsTheirs'
  BY <1>1, <1>2 DEF IInv, TypeOK, ReservedSlotIsTheirs, Open, SlotsOK, review_required,
                    Recorded, Open
<1>11. KeptWhilePaid'
  <2>1. \A p \in Orders \ {o} : PaidOver(p)' <=> PaidOver(p)
    BY <1>1 DEF TypeOK, PaidOver, Recorded, review_required
  <2>2. ASSUME NEW p \in Orders \ {o}, claimed'[p], ~PaidOver(p)'
        PROVE  tenant'[SlotOf[p]] = p /\ slot'[SlotOf[p]] \in {"claiming", "held"}
    <3>1. tenant[SlotOf[p]] = p /\ slot[SlotOf[p]] \in {"claiming", "held"}
      BY <1>1, <2>1, <2>2 DEF IInv, KeptWhilePaid, TypeOK, review_required
    <3> QED
      BY <1>1, <2>2, <3>1 DEF TypeOK, Open, review_required
  <2>3. claimed'[o] => tenant'[SlotOf[o]] = o /\ slot'[SlotOf[o]] \in {"claiming", "held"}
    BY <1>1 DEF IInv, SlotsOK, TypeOK, review_required
  <2> QED
    BY <2>2, <2>3 DEF KeptWhilePaid
<1> QED
  BY <1>3, <1>4, <1>5, <1>6, <1>7, <1>8, <1>9, <1>10, <1>11, LoudStep

(* A later month: the claim stands, on a slot that is not being wiped.      *)
LEMMA renewedOK ==
  ASSUME IInv, NEW t \in Threads, NEW o \in Orders, At(t, "record"), job[t].order = o,
         NEW m, m = job[t].month, m <= months[o], Open(o), renewed(t, o, m), Reviewed(t, o),
         UNCHANGED <<session, bound, terminal, worldVars>>
  PROVE  IInv'
<1>1. TypeOK /\ JobOK(t) /\ OrderOK(o) /\ job[t] \in Jobs /\ status[o] # "none"
  BY DEF IInv, TypeOK, JobOK, At
<1>2. m \in Months /\ m <= months[o] /\ session[o]
  BY <1>1 DEF Months, Jobs, JobOK, PayingStep, At, TypeOK
<1>3. Moved(t)
  <2>1. status'[o] # "none"
    BY <1>1 DEF TypeOK, renewed
  <2> QED
    BY <1>1, <2>1, ReviewedTurns
<1>4. TypeOK'
  <2>1. recorded' \in [Orders -> SUBSET Months]
    BY <1>1, <1>2 DEF TypeOK, Recorded, renewed
  <2> QED
    BY <1>1, <1>3, <2>1 DEF TypeOK, Statuses, renewed
<1>5. Forward
  BY <1>1 DEF TypeOK, Forward, renewed
<1>6. SlotsOK'
  BY <1>1, <1>2 DEF IInv, TypeOK, SlotsOK, Open, renewed, Recorded, Open
<1>7. \A p \in Orders : OrderOK(p)'
  BY <1>1, <1>2 DEF IInv, TypeOK, OrderOK, renewed, Recorded, Open
<1>8. \A p \in Orders : PaidOK(p)'
  <2>1. \A p \in Orders \ {o} : PaidOver(p)' <=> PaidOver(p)
    BY <1>1 DEF TypeOK, PaidOver, Recorded, renewed
  <2>2. \A k \in recorded'[o] : k <= months[o]
    BY <1>1, <1>2 DEF IInv, PaidOK, TypeOK, Recorded, renewed
  <2>3. status'[o] # "closed"
    BY <1>1 DEF TypeOK, Open, renewed
  <2> QED
    BY <1>1, <2>1, <2>2, <2>3 DEF IInv, TypeOK, PaidOK, Recorded, renewed
<1>9. ContractNeverForgotten'
  BY <1>1, <1>2 DEF IInv, TypeOK, ContractNeverForgotten, OrderOK, renewed, Recorded, Open
<1>10. ReservedSlotIsTheirs'
  BY <1>1, <1>2 DEF IInv, TypeOK, ReservedSlotIsTheirs, Open, SlotsOK, renewed, Recorded,
                    Open
<1>11. KeptWhilePaid'
  <2>1. \A p \in Orders \ {o} : PaidOver(p)' <=> PaidOver(p)
    BY <1>1 DEF TypeOK, PaidOver, Recorded, renewed
  <2>2. ASSUME NEW p \in Orders \ {o}, claimed'[p], ~PaidOver(p)'
        PROVE  tenant'[SlotOf[p]] = p /\ slot'[SlotOf[p]] \in {"claiming", "held"}
    <3>1. tenant[SlotOf[p]] = p /\ slot[SlotOf[p]] \in {"claiming", "held"}
      BY <1>1, <2>1, <2>2 DEF IInv, KeptWhilePaid, TypeOK, renewed
    <3> QED
      BY <1>1, <2>2, <3>1 DEF TypeOK, Open, renewed
  <2>3. claimed'[o] => tenant'[SlotOf[o]] = o /\ slot'[SlotOf[o]] \in {"claiming", "held"}
    BY <1>1 DEF IInv, SlotsOK, TypeOK, renewed
  <2> QED
    BY <2>2, <2>3 DEF KeptWhilePaid
<1> QED
  BY <1>3, <1>4, <1>5, <1>6, <1>7, <1>8, <1>9, <1>10, <1>11, LoudStep

(* A month recorded already, or one that is refused, changes nothing.       *)
LEMMA record_slot_subscription_invoiceOK ==
  ASSUME IInv, NEW t \in Threads, NEW o \in Orders, job[t].order = o,
         record_slot_subscription_invoice(t, o)
  PROVE  IInv'
<1> DEFINE m == job[t].month
<1>1. TypeOK /\ JobOK(t) /\ status[o] # "none"
  BY DEF IInv, JobOK, record_slot_subscription_invoice, At
<1>2. CASE /\ Open(o) /\ m <= months[o] /\ Reviewed(t, o)
           /\ granted(t, o, m) \/ review_required(t, o, m) \/ renewed(t, o, m)
  BY <1>2, grantedOK, review_requiredOK, renewedOK DEF record_slot_subscription_invoice
<1>3. CASE /\ UNCHANGED <<holds, required, slot, tenant, claimed, status, recorded>>
           /\ Reviewed(t, o) \/ Done(t)
  <2>1. UNCHANGED <<storeVars, worldVars>>
    BY <1>3 DEF record_slot_subscription_invoice
  <2>2. Moved(t)
    BY <1>1, <1>3, <2>1, ReviewedTurns, DoneTurns DEF Turned
  <2>3. TypeOK'
    BY <1>1, <2>1, <2>2 DEF TypeOK
  <2> QED
    BY <2>1, <2>2, <2>3, QuietStep
<1> QED
  BY <1>2, <1>3 DEF record_slot_subscription_invoice

-----------------------------------------------------------------------------
(* At first there is nothing.                                               *)
LEMMA InitOK == Init => IInv
<1> SUFFICES ASSUME Init PROVE IInv
  OBVIOUS
<1>1. TypeOK
  <2>1. Idle \in Jobs
    BY JobType
  <2> QED
    BY <2>1 DEF Init, TypeOK, Statuses, Months, Ages
<1>2. SlotsOK /\ \A o \in Orders : OrderOK(o) /\ PaidOK(o)
  BY DEF Init, SlotsOK, OrderOK, PaidOK, PaidOver, Open
<1>3. \A t \in Threads : JobOK(t)
  BY JobFields DEF Init, JobOK
<1>4. ContractNeverForgotten /\ ReservedSlotIsTheirs /\ KeptWhilePaid
  BY DEF Init, ContractNeverForgotten, ReservedSlotIsTheirs, KeptWhilePaid, Open
<1> QED
  BY <1>1, <1>2, <1>3, <1>4 DEF IInv

(* Every step keeps the invariant.                                          *)
LEMMA NextOK == IInv /\ [Next]_vars => IInv'
<1> SUFFICES ASSUME IInv, [Next]_vars PROVE IInv'
  OBVIOUS
<1>1. ASSUME NEW t \in Threads, NEW o \in Orders, Start(t, o) PROVE IInv'
  BY <1>1, StartsOK, reserveOK
<1>2. ASSUME NEW t \in Threads, NEW o \in Orders, Step(t, o) PROVE IInv'
  <2>1. job[t].order = o
    BY <1>2 DEF Step
  <2>2. CASE \/ mark_slot_subscription_unknown(t, o) \/ recover_subscription_session(t, o)
             \/ attach_slot_subscription_session(t, o) \/ expire_unpaid_session(t, o)
             \/ close_slot_subscription(t, o) \/ bind_slot_subscription(t, o)
    BY <2>1, <2>2, mark_slot_subscription_unknownOK, recover_subscription_sessionOK,
       attach_slot_subscription_sessionOK, expire_unpaid_sessionOK,
       close_slot_subscriptionOK, bind_slot_subscriptionOK
  <2>3. CASE \/ update_slot_subscription_state(t, o)
             \/ record_slot_subscription_invoice(t, o)
             \/ confirm_slot_subscription_cancellation(t, o)
    BY <2>1, <2>3, update_slot_subscription_stateOK, record_slot_subscription_invoiceOK,
       confirm_slot_subscription_cancellationOK
  <2>4. CASE \/ retrieve_session(t, o) \/ retrieve_subscription(t, o)
             \/ bound_subscription_identity(t, o) \/ cancellation_confirmed(t, o)
    BY <2>1, <2>4, retrieve_sessionOK, retrieve_subscriptionOK, CancellationReadOK
  <2>5. CASE \/ hold_slot_subscription(t, o) \/ prepare_slot_subscription_cancellation(t, o)
             \/ next_slot_subscription_cancel_attempt(t, o) \/ cancel_after_paid_period(t, o)
    BY <2>1, <2>5, CancellationStartsOK, CancellationWriteOK
  <2> QED
    BY <1>2, <2>2, <2>3, <2>4, <2>5 DEF Step
<1>3. ASSUME NEW t \in Threads, Fail(t) PROVE IInv'
  BY <1>3, FailOK
<1>4. ASSUME NEW s \in Slots, SlotStep(s) PROVE IInv'
  BY <1>4, claim_slotOK, provisionedOK, hold_failed_provisionOK, begin_releaseOK,
     free_releasedOK DEF SlotStep
<1>5. ASSUME NEW o \in Orders, StripeStep(o) PROVE IInv'
  BY <1>5, customer_paysOK, stripe_expiresOK, period_endsOK, stripe_renewsOK,
     stripe_cancelsOK, QuietWorldOK DEF StripeStep
<1>6. CASE outage_ends \/ \E o \in Orders, kind \in {"service", "review"} :
                            resolve_slot_subscription_hold(o, kind)
  BY <1>6, QuietWorldOK
<1>7. CASE UNCHANGED vars
  <2>1. TypeOK'
    BY <1>7 DEF IInv, TypeOK, vars
  <2> QED
    BY <1>7, <2>1, QuietStep DEF vars
<1> QED
  BY <1>1, <1>2, <1>3, <1>4, <1>5, <1>6, <1>7 DEF Next

(* The strengthened invariant holds of every behaviour, and with it the     *)
(* type of every variable.                                                  *)
THEOREM TypeCorrect == Spec => []TypeOK
<1>1. IInv => TypeOK
  BY DEF IInv
<1> QED
  BY <1>1, InitOK, NextOK, PTL DEF Spec

(* A payable reservation is never freed: an order whose Session is open or  *)
(* whose subscription Stripe renews is not closed, whichever handler is     *)
(* where, and whatever it read of Stripe before (close_slot_subscription,   *)
(* retire_released).                                                        *)
THEOREM ContractNeverForgottenAlways == Spec => []ContractNeverForgotten
<1>1. IInv => ContractNeverForgotten
  BY DEF IInv
<1> QED
  BY <1>1, InitOK, NextOK, PTL DEF Spec

(* While a monthly order is open nobody else holds or is being given its    *)
(* slot (reservation_blocks, claim_slot).                                   *)
THEOREM ReservedSlotIsTheirsAlways == Spec => []ReservedSlotIsTheirs
<1>1. IInv => ReservedSlotIsTheirs
  BY DEF IInv
<1> QED
  BY <1>1, InitOK, NextOK, PTL DEF Spec

(* A recorded month that is not over keeps the slot: it is neither wiped    *)
(* nor given back (release_allowed, begin_release).                         *)
THEOREM KeptWhilePaidAlways == Spec => []KeptWhilePaid
<1>1. IInv => KeptWhilePaid
  BY DEF IInv
<1> QED
  BY <1>1, InitOK, NextOK, PTL DEF Spec

=============================================================================

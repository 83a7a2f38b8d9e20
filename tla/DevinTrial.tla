----------------------------- MODULE DevinTrial -----------------------------
(***************************************************************************)
(* The daily Devin trial: the ledger that admits and settles its turns     *)
(* (ccfleetd/devin_trial.py), the server threads that carry a request      *)
(* through it (ccfleetd/trial_runtime.py, trial_worker_transport.py) and   *)
(* the worker on another machine that runs the native agent                *)
(* (ccfleet_agent/devin_trial_worker.py).                                  *)
(*                                                                         *)
(* A turn is one request of one account.  It asks for one lease of its own *)
(* and reserves one step under it (trial_runtime.turn), so a turn names    *)
(* its lease and its step too.  Each method of the ledger is one           *)
(* transaction that begins with _tick; between any two of them a thread    *)
(* may be overtaken, the server may restart, the connection to the worker  *)
(* may break, and the worker may die and leave its native agent running.   *)
(***************************************************************************)
EXTENDS Integers, FiniteSets, FiniteSetsExt, Functions

CONSTANTS
  Turns, Accounts, None,
  TOKENS,                   \* TURN_RESERVATION_TOKENS
  DAILY_TOKENS, GLOBAL_DAILY_TOKENS,
  DAILY_REQUESTS, GLOBAL_DAILY_REQUESTS,
  DAILY_RUNTIME, GLOBAL_DAILY_RUNTIME,
  DAILY_LEASES, GLOBAL_DAILY_LEASES,
  Day, Lease, Step,         \* a day, lease_seconds, MAX_STEP_S: in ticks
  MaxClock,                 \* bound on the clock
  MaxRegress,               \* bound on the times the clock steps back
  Reports,                  \* the tokens a turn may report
  Interventions             \* may an operator pause the trial, or cancel a lease?

ASSUME TrialAssumption ==
  /\ None \notin Turns \cup Accounts
  /\ IsFiniteSet(Turns) /\ IsFiniteSet(Accounts)
  /\ TOKENS \in Nat \ {0}
  /\ {DAILY_TOKENS, GLOBAL_DAILY_TOKENS} \subseteq Nat \ {0}
  /\ {DAILY_REQUESTS, GLOBAL_DAILY_REQUESTS, DAILY_RUNTIME, GLOBAL_DAILY_RUNTIME,
      DAILY_LEASES, GLOBAL_DAILY_LEASES} \subseteq Nat
  /\ {Day, Lease, Step} \subseteq Nat \ {0}
  /\ {MaxClock, MaxRegress} \subseteq Nat
  /\ Reports \subseteq Nat /\ Reports # {} /\ IsFiniteSet(Reports)
  /\ Interventions \in BOOLEAN

Times == 0..MaxClock
Days == 0..(MaxClock \div Day)

VARIABLES
  clock, regressed,             \* the server's clock, and how often it went back
  paused, last_now,             \* the ledger: control, sessions, days, holds
  lease, days, totals, unmeasured,
  pc, account, permit, revoked, \* the server's threads
  model_started, receipt, readiness, book,
  asked, worker, native, artifacts, answer  \* the worker's machine

clockVars  == <<clock, regressed>>
ledgerVars == <<paused, last_now, lease, days, totals, unmeasured>>
threadVars == <<pc, account, permit, revoked, model_started, receipt, readiness, book>>
workerVars == <<asked, worker, native, artifacts, answer>>
vars == <<clockVars, ledgerVars, threadVars, workerVars>>

NoLease == [state |-> "none", account |-> None, day |-> 0, expires |-> 0,
            step |-> "none", deadline |-> 0, tokens |-> 0]
NoDay == [used |-> 0, reserved |-> 0, requests |-> 0, leases |-> 0]
NoReceipt == [cleanup |-> FALSE, metering |-> "unconfirmed", tokens |-> 0]

(* What the worker may answer: a turn with every count, one with the cache  *)
(* reads missing, or one that vouches for nothing.                          *)
Receipts ==
  [cleanup : {TRUE}, metering : {"complete", "cache_read_unmeasured"}, tokens : Reports]
    \cup [cleanup : BOOLEAN, metering : {"unconfirmed"}, tokens : {0}]

-----------------------------------------------------------------------------
Init ==
  /\ clock = 0 /\ regressed = 0
  /\ paused = FALSE /\ last_now = 0
  /\ lease = [t \in Turns |-> NoLease]
  /\ days = [a \in Accounts |-> [d \in Days |-> NoDay]]
  /\ totals = [d \in Days |-> NoDay]
  /\ unmeasured = {}
  /\ pc = [t \in Turns |-> "idle"]
  /\ account \in [Turns -> Accounts]
  /\ permit = [t \in Turns |-> 0]
  /\ revoked = {}
  /\ model_started = [t \in Turns |-> FALSE]
  /\ receipt = [t \in Turns |-> NoReceipt]
  /\ readiness = None /\ book = None
  /\ asked = {}                      \* turns whose request is on its way
  /\ worker = [t \in Turns |-> "none"]
  /\ native = {} /\ artifacts = {}
  /\ answer = [t \in Turns |-> None]

-----------------------------------------------------------------------------
(* _tick: every method of the ledger begins by bringing it up to the clock. *)

Now == IF clock < last_now THEN last_now ELSE clock

DayOf(time) == time \div Day

Live(t) == lease[t].state \in {"open", "closing"}

(* Mutant: only work under way runs out of time.                            *)
Overdue_working(t) == Live(t) /\ lease[t].step = "active" /\ Now >= lease[t].deadline

Overdue(t) ==
  /\ Live(t)
  /\ \/ Now >= lease[t].expires
     \/ lease[t].step = "active" /\ Now >= lease[t].deadline

(* The sessions after the sweep: a lease that ran out is closed if nothing  *)
(* was ever begun under it, and otherwise waits for its work.               *)
Swept == [t \in Turns |->
  IF ~Overdue(t) THEN lease[t]
  ELSE [lease[t] EXCEPT !.state = IF lease[t].step = "none" THEN "closed" ELSE "closing"]]

(* ... and the pause it may bring on, which nothing clears.                 *)
Halted ==
  \/ paused
  \/ clock < last_now
  \/ \E t \in Turns : Overdue(t) /\ lease[t].step # "none"

Ticked == last_now' = Now /\ paused' = Halted /\ lease' = Swept

(* A thread holds the runtime's lock over what it does with one book.       *)
Holds(t) == book \in {None, t}

Goto(t, where) == pc' = [pc EXCEPT ![t] = where]

(* The request is over: its connection is closed, its locks are given back. *)
Over(t) ==
  /\ Goto(t, "over")
  /\ readiness' = IF readiness = t THEN None ELSE readiness
  /\ book' = IF book = t THEN None ELSE book

-----------------------------------------------------------------------------
(* trial_runtime.turn, a step at a time: before the worker is reached.      *)

allowance(t) ==
  /\ pc[t] = "idle" /\ Holds(t)
  /\ Ticked
  /\ IF Halted THEN Over(t) ELSE Goto(t, "checked") /\ UNCHANGED <<readiness, book>>
  /\ UNCHANGED <<clockVars, days, totals, unmeasured, account, permit, revoked, model_started,
                 receipt, workerVars>>

(* One request at a time is made ready; a second is refused, not queued.    *)
readiness_lock(t) ==
  /\ pc[t] = "checked"
  /\ IF readiness = None
     THEN readiness' = t /\ Goto(t, "connecting") /\ UNCHANGED book
     ELSE Over(t)
  /\ UNCHANGED <<clockVars, ledgerVars, account, permit, revoked, model_started, receipt, workerVars>>

(* Mutant: what an earlier turn left on the worker is no reason to refuse.  *)
Connectable_always == \A u \in Turns : worker[u] \notin {"ready", "running"}

(* The worker is one process at a time, and takes on nothing while an       *)
(* earlier turn's artifacts are there.                                      *)
Connectable == (\A u \in Turns : worker[u] \notin {"ready", "running"}) /\ artifacts = {}

prepare(t) ==
  /\ pc[t] = "connecting" /\ t \notin revoked
  /\ Connectable
  /\ worker' = [worker EXCEPT ![t] = "ready"]
  /\ Goto(t, "ready")
  /\ UNCHANGED <<clockVars, ledgerVars, account, permit, revoked, model_started, receipt, readiness,
                 book, asked, native, artifacts, answer>>

(* Busy, not there, too slow, or the key was revoked.                       *)
prepare_fails(t) ==
  /\ pc[t] = "connecting"
  /\ Over(t)
  /\ UNCHANGED <<clockVars, ledgerVars, account, permit, revoked, model_started, receipt, workerVars>>

-----------------------------------------------------------------------------
(* The ledger's admission, one transaction each, under one hold of the lock. *)

(* Every charge is made twice: to the account's day and to the day.         *)
Charged(a, d, used, reserved, requests, leases) ==
  LET add(row) == [used |-> row.used + used, reserved |-> row.reserved + reserved,
                   requests |-> row.requests + requests, leases |-> row.leases + leases]
  IN  /\ days' = [days EXCEPT ![a][d] = add(@)]
      /\ totals' = [totals EXCEPT ![d] = add(@)]

(* runtime_seconds: every turn is charged the whole of its step.            *)
Runtime(row) == row.requests * Step

UserLimit(row) ==
  row.used + row.reserved >= DAILY_TOKENS \/ row.requests >= DAILY_REQUESTS
    \/ Runtime(row) >= DAILY_RUNTIME \/ row.leases >= DAILY_LEASES

GlobalLimit(row) ==
  row.used + row.reserved >= GLOBAL_DAILY_TOKENS \/ row.requests >= GLOBAL_DAILY_REQUESTS
    \/ Runtime(row) >= GLOBAL_DAILY_RUNTIME \/ row.leases >= GLOBAL_DAILY_LEASES

(* Mutant: only an open lease is in the way, not one still being closed.    *)
Busy_if_open == \E u \in Turns : Swept[u].state = "open"

Busy == \E u \in Turns : Swept[u].state \in {"open", "closing"}

Min2(m, n) == IF m <= n THEN m ELSE n

(* The bound on the clock lets every lease run out.                         *)
admit(t) ==
  LET d == DayOf(Now)
  IN  /\ pc[t] = "ready" /\ Holds(t)
      /\ Now + Lease <= MaxClock
      /\ last_now' = Now /\ paused' = Halted
      /\ IF Halted \/ UserLimit(days[account[t]][d]) \/ GlobalLimit(totals[d]) \/ Busy
         THEN /\ lease' = Swept /\ Over(t)
              /\ UNCHANGED <<days, totals>>
         ELSE /\ lease' = [Swept EXCEPT ![t] = 
                   [state |-> "open", account |-> account[t], day |-> d,
                    expires |-> Min2(Now + Lease, (d + 1) * Day),
                    step |-> "none", deadline |-> 0, tokens |-> 0]]
              /\ Charged(account[t], d, 0, 0, 0, 1)
              /\ book' = t /\ Goto(t, "admitted") /\ UNCHANGED readiness
      /\ UNCHANGED <<clockVars, unmeasured, account, permit, revoked, model_started, receipt, workerVars>>

(* Mutant: all that is left is reserved for one turn.                       *)
Reservable_all(a, d) ==
  Min2(DAILY_TOKENS - days[a][d].used - days[a][d].reserved,
       GLOBAL_DAILY_TOKENS - totals[d].used - totals[d].reserved)

(* Mutant: what is held for earlier turns counts as left.                   *)
Reservable_held(a, d) ==
  Min2(TOKENS, Min2(DAILY_TOKENS - days[a][d].used, GLOBAL_DAILY_TOKENS - totals[d].used))

(* What is left of the allowance, up to a turn's reservation.               *)
Reservable(a, d) ==
  Min2(TOKENS, Min2(DAILY_TOKENS - days[a][d].used - days[a][d].reserved,
                    GLOBAL_DAILY_TOKENS - totals[d].used - totals[d].reserved))

Startable(t) ==
  LET a == account[t]
      d == Swept[t].day
  IN  /\ ~Halted
      /\ Swept[t].state = "open" /\ d = DayOf(Now) /\ Swept[t].step = "none"
      /\ Reservable(a, d) > 0
      /\ days[a][d].requests < DAILY_REQUESTS /\ totals[d].requests < GLOBAL_DAILY_REQUESTS
      /\ Runtime(days[a][d]) + Step <= DAILY_RUNTIME
      /\ Runtime(totals[d]) + Step <= GLOBAL_DAILY_RUNTIME
      /\ Now + Step <= Swept[t].expires

start_step(t) ==
  LET n == Reservable(account[t], Swept[t].day)
  IN  /\ pc[t] = "admitted" /\ Holds(t)
      /\ last_now' = Now /\ paused' = Halted
      /\ IF ~Startable(t)
         THEN /\ lease' = Swept /\ Goto(t, "unstarted")
              /\ UNCHANGED <<days, totals, permit, book>>
         ELSE /\ lease' = [Swept EXCEPT ![t].step = "active", ![t].tokens = n,
                                        ![t].deadline = Now + Step]
              /\ Charged(account[t], Swept[t].day, 0, n, 1, 0)
              /\ permit' = [permit EXCEPT ![t] = n]
              /\ book' = None /\ Goto(t, "reserved")
      /\ UNCHANGED <<clockVars, unmeasured, account, revoked, model_started, receipt, readiness,
                     workerVars>>

(* close: of a lease nothing runs under.                                    *)
Closed(t) ==
  IF Swept[t].step = "active" THEN Swept ELSE [Swept EXCEPT ![t].state = "closed"]

close(t) ==
  /\ pc[t] \in {"unstarted", "settled"} /\ Holds(t)
  /\ last_now' = Now /\ paused' = Halted /\ lease' = Closed(t)
  /\ Over(t)
  /\ UNCHANGED <<clockVars, days, totals, unmeasured, account, permit, revoked, model_started,
                 receipt, workerVars>>

-----------------------------------------------------------------------------
(* trial_worker_transport.TrialAttempt.perform.                             *)

(* _active, polled before the request is written and while it runs.         *)
authorize_step(t) ==
  ~Halted /\ Swept[t].state = "open" /\ Swept[t].step = "active" /\ t \notin revoked

_active(t) ==
  /\ pc[t] = "reserved" /\ Holds(t)
  /\ Ticked
  /\ Goto(t, IF authorize_step(t) THEN "authorized" ELSE "unsettled")
  /\ UNCHANGED <<clockVars, days, totals, unmeasured, account, permit, revoked, model_started,
                 receipt, readiness, book, workerVars>>

(* Mutant: the request is written before it counts as sent.                 *)
Started_after_write(t) == UNCHANGED model_started

(* It counts as sent before the first byte of it is written.                *)
Started(t) == model_started' = [model_started EXCEPT ![t] = TRUE]

_send_request(t) ==
  /\ pc[t] = "authorized"
  /\ Started(t)
  /\ asked' = asked \cup {t}
  /\ Goto(t, "sent")
  /\ UNCHANGED <<clockVars, ledgerVars, account, permit, revoked, receipt, readiness, book, worker,
                 native, artifacts, answer>>

(* The answer comes, and is a receipt.                                      *)
_receipt(t) ==
  /\ pc[t] = "sent" /\ answer[t] # None
  /\ receipt' = [receipt EXCEPT ![t] = answer[t]]
  /\ Goto(t, "unsettled")
  /\ UNCHANGED <<clockVars, ledgerVars, account, permit, revoked, model_started, readiness, book,
                 workerVars>>

(* Or it does not: the ledger cannot be asked; revoked or paused while it   *)
(* ran, out of time, cut off, not a receipt.                                *)
perform_fails(t) ==
  /\ pc[t] \in {"reserved", "sent"}
  /\ Goto(t, "unsettled")
  /\ UNCHANGED <<clockVars, ledgerVars, account, permit, revoked, model_started, receipt, readiness,
                 book, workerVars>>

-----------------------------------------------------------------------------
(* The settlement.                                                          *)

_permit_matches(t) == Swept[t].step = "active" /\ Swept[t].tokens = permit[t]

Ended(sessions, t, state) ==
  [sessions EXCEPT ![t].state = state, ![t].step = "ended", ![t].deadline = 0, ![t].tokens = 0]

(* Mutant: what is given back is given back to the present day.             *)
RefundDay_today(t) == DayOf(Now)

RefundDay(t) == lease[t].day

(* Nothing of the request was ever written: everything is given back, and   *)
(* the lease is closed before the sweep can call it overdue.                *)
finish_unsent(t) ==
  /\ pc[t] = "unsettled" /\ ~model_started[t] /\ Holds(t)
  /\ lease[t].step = "active" /\ lease[t].tokens = permit[t]
  /\ Charged(lease[t].account, RefundDay(t), 0, -lease[t].tokens, -1, -1)
  /\ lease' = [Swept EXCEPT ![t] = Ended(lease, t, "closed")[t]]
  /\ last_now' = Now
  /\ paused' = (paused \/ clock < last_now
                  \/ \E u \in Turns \ {t} : Overdue(u) /\ lease[u].step # "none")
  /\ Over(t)
  /\ UNCHANGED <<clockVars, unmeasured, account, permit, revoked, model_started, receipt, workerVars>>

(* Every count is there: the tokens replace their reservation.              *)
finish_measured(t) ==
  /\ receipt[t].cleanup /\ receipt[t].metering = "complete"
  /\ Charged(Swept[t].account, Swept[t].day, receipt[t].tokens, -Swept[t].tokens, 0, 0)
  /\ lease' = Ended(Swept, t, IF receipt[t].tokens > Swept[t].tokens THEN "closing"
                              ELSE Swept[t].state)
  /\ paused' = Halted
  /\ book' = t /\ Goto(t, "settled")
  /\ UNCHANGED <<unmeasured, readiness>>

(* Only the cache reads are missing: the reservation, or more if more is    *)
(* known, stays held, and the lease is closed.                              *)
Held(t) == IF receipt[t].tokens > Swept[t].tokens THEN receipt[t].tokens ELSE Swept[t].tokens

finish_unmeasured(t) ==
  /\ receipt[t].cleanup /\ receipt[t].metering = "cache_read_unmeasured"
  /\ Charged(Swept[t].account, Swept[t].day, 0, Held(t) - Swept[t].tokens, 0, 0)
  /\ unmeasured' = unmeasured \cup {[turn |-> t, account |-> Swept[t].account, day |-> Swept[t].day,
                                     held |-> Held(t), known |-> receipt[t].tokens]}
  /\ lease' = Ended(Swept, t, "closed")
  /\ paused' = Halted
  /\ book' = t /\ Goto(t, "settled")
  /\ UNCHANGED readiness

(* Mutant: a turn nothing is known of is taken to have used nothing.        *)
finish_unknown_as_nothing(t) ==
  /\ ~receipt[t].cleanup \/ receipt[t].metering = "unconfirmed"
  /\ Charged(Swept[t].account, Swept[t].day, 0, -Swept[t].tokens, 0, 0)
  /\ lease' = Ended(Swept, t, "closed")
  /\ paused' = Halted
  /\ Over(t)
  /\ UNCHANGED unmeasured

(* Cleanup or usage unknown: the reservation stays, and the trial stops.    *)
finish_unknown(t) ==
  /\ ~receipt[t].cleanup \/ receipt[t].metering = "unconfirmed"
  /\ lease' = [Swept EXCEPT ![t].state = "closing"]
  /\ paused' = TRUE
  /\ Over(t)
  /\ UNCHANGED <<days, totals, unmeasured>>

finish_step(t) ==
  /\ pc[t] = "unsettled" /\ model_started[t] /\ Holds(t)
  /\ _permit_matches(t)
  /\ finish_measured(t) \/ finish_unmeasured(t) \/ finish_unknown(t)
  /\ last_now' = Now
  /\ UNCHANGED <<clockVars, account, permit, revoked, model_started, receipt, workerVars>>

(* The receipt is refused, or the ledger cannot be opened or written.       *)
settlement_fails(t) ==
  /\ pc[t] \in {"idle", "ready", "admitted", "unstarted", "unsettled", "settled"}
  /\ Over(t)
  /\ UNCHANGED <<clockVars, ledgerVars, account, permit, revoked, model_started, receipt, workerVars>>

(* The server stops and starts again: no thread, no lock, the same ledger.  *)
Restart ==
  /\ pc' = [t \in Turns |-> IF pc[t] = "idle" THEN "idle" ELSE "over"]
  /\ pc' # pc
  /\ readiness' = None /\ book' = None
  /\ UNCHANGED <<clockVars, ledgerVars, account, permit, revoked, model_started, receipt, workerVars>>

-----------------------------------------------------------------------------
(* trial_access.AccessKeys: the key a request came with is revoked, or      *)
(* replaced by a new one.                                                   *)
revoke(a) ==
  /\ revoked' = revoked \cup {t \in Turns : account[t] = a /\ pc[t] \notin {"idle", "over"}}
  /\ revoked' # revoked
  /\ UNCHANGED <<clockVars, ledgerVars, pc, account, permit, model_started, receipt, readiness, book,
                 workerVars>>

(* An operator's shell on the ledger.                                       *)
pause ==
  /\ Interventions /\ book = None /\ ~paused
  /\ last_now' = Now /\ paused' = TRUE /\ lease' = Swept
  /\ UNCHANGED <<clockVars, days, totals, unmeasured, threadVars, workerVars>>

cancel(t) ==
  /\ Interventions /\ book = None /\ lease[t].state = "open"
  /\ last_now' = Now /\ paused' = Halted
  /\ lease' = IF Swept[t].state = "closed" THEN Swept ELSE [Swept EXCEPT ![t].state = "closing"]
  /\ UNCHANGED <<clockVars, days, totals, unmeasured, threadVars, workerVars>>

(* The account page and other requests look at the allowance.               *)
Look ==
  /\ book = None
  /\ Ticked
  /\ UNCHANGED <<clockVars, days, totals, unmeasured, threadVars, workerVars>>

-----------------------------------------------------------------------------
(* devin_trial_worker.serve.                                                *)

(* The request was read: the native agent starts on a copy of its own.      *)
work_begins(t) ==
  /\ worker[t] = "ready" /\ t \in asked
  /\ worker' = [worker EXCEPT ![t] = "running"]
  /\ native' = native \cup {t}
  /\ artifacts' = artifacts \cup {t}
  /\ UNCHANGED <<clockVars, ledgerVars, threadVars, asked, answer>>

(* The agent is gone and its copy deleted before the worker says so.        *)
work_ends(t) == \E r \in Receipts :
  /\ worker[t] = "running" /\ t \in native
  /\ worker' = [worker EXCEPT ![t] = "gone"]
  /\ answer' = [answer EXCEPT ![t] = r]
  /\ \/ r.cleanup /\ native' = native \ {t} /\ artifacts' = artifacts \ {t}
     \/ ~r.cleanup /\ UNCHANGED <<native, artifacts>>
  /\ UNCHANGED <<clockVars, ledgerVars, threadVars, asked>>

(* The connection closes with no request, or one the worker turns down.     *)
worker_leaves(t) ==
  /\ worker[t] = "ready"
  /\ worker' = [worker EXCEPT ![t] = "gone"]
  /\ UNCHANGED <<clockVars, ledgerVars, threadVars, asked, native, artifacts, answer>>

(* The worker is killed: its lock goes, its agent and its copy need not.    *)
worker_dies(t) ==
  /\ worker[t] = "running"
  /\ worker' = [worker EXCEPT ![t] = "gone"]
  /\ \E left \in {native, native \ {t}} : native' = left
  /\ UNCHANGED <<clockVars, ledgerVars, threadVars, asked, artifacts, answer>>

agent_ends(t) ==
  /\ t \in native /\ worker[t] = "gone"
  /\ native' = native \ {t}
  /\ UNCHANGED <<clockVars, ledgerVars, threadVars, asked, worker, artifacts, answer>>

-----------------------------------------------------------------------------
Advance ==
  /\ clock < MaxClock
  /\ clock' = clock + 1
  /\ UNCHANGED <<regressed, ledgerVars, threadVars, workerVars>>

(* The clock of the server's machine is set back.                           *)
Regress ==
  /\ regressed < MaxRegress /\ clock > 0
  /\ clock' = clock - 1 /\ regressed' = regressed + 1
  /\ UNCHANGED <<ledgerVars, threadVars, workerVars>>

Thread(t) ==
  \/ allowance(t) \/ readiness_lock(t) \/ prepare(t) \/ prepare_fails(t)
  \/ admit(t) \/ start_step(t) \/ close(t)
  \/ _active(t) \/ _send_request(t) \/ _receipt(t) \/ perform_fails(t)
  \/ finish_unsent(t) \/ finish_step(t) \/ settlement_fails(t)

Worker(t) ==
  work_begins(t) \/ work_ends(t) \/ worker_leaves(t) \/ worker_dies(t) \/ agent_ends(t)

Next ==
  \/ \E t \in Turns : Thread(t) \/ Worker(t) \/ cancel(t)
  \/ \E a \in Accounts : revoke(a)
  \/ Restart \/ pause \/ Look \/ Advance \/ Regress

Spec == Init /\ [][Next]_vars

(* People keep asking about the trial, the clock goes on, and a thread that *)
(* holds the runtime's lock gets on with what it does.                      *)
Fairness ==
  /\ WF_vars(Look) /\ WF_vars(Advance)
  /\ \A t \in Turns : WF_vars(start_step(t)) /\ WF_vars(close(t))

FairSpec == Spec /\ Fairness

-----------------------------------------------------------------------------
LeaseRecords ==
  [state : {"none", "open", "closing", "closed"}, account : Accounts \cup {None}, day : Days,
   expires : Nat, step : {"none", "active", "ended"}, deadline : Nat, tokens : 0..TOKENS]
DayRecords == [used : Nat, reserved : Nat, requests : Nat, leases : Nat]

(* Every variable has the type its column or field has; no counter of the   *)
(* ledger is ever driven below zero (its CHECK constraints).                *)
TypeOK ==
  /\ clock \in Times /\ regressed \in 0..MaxRegress
  /\ paused \in BOOLEAN /\ last_now \in Times
  /\ lease \in [Turns -> LeaseRecords]
  /\ days \in [Accounts -> [Days -> DayRecords]]
  /\ totals \in [Days -> DayRecords]
  /\ unmeasured \subseteq [turn : Turns, account : Accounts, day : Days, held : Nat, known : Nat]
  /\ pc \in [Turns -> {"idle", "checked", "connecting", "ready", "admitted", "unstarted",
                       "reserved", "authorized", "sent", "unsettled", "settled", "over"}]
  /\ account \in [Turns -> Accounts]
  /\ permit \in [Turns -> 0..TOKENS]
  /\ revoked \subseteq Turns
  /\ model_started \in [Turns -> BOOLEAN]
  /\ receipt \in [Turns -> Receipts]
  /\ readiness \in Turns \cup {None} /\ book \in Turns \cup {None}
  /\ asked \subseteq Turns
  /\ worker \in [Turns -> {"none", "ready", "running", "gone"}]
  /\ native \subseteq Turns /\ artifacts \subseteq Turns
  /\ answer \in [Turns -> Receipts \cup {None}]

(* A request went out for it, and the ledger has not settled it.            *)
InFlight(t) == t \in asked /\ lease[t].step = "active"

(* One global worker: while a turn's outcome is unknown no other is sent,   *)
(* whatever broke, expired, was cancelled or restarted in between.          *)
OneInFlight == \A t, u \in Turns : InFlight(t) /\ InFlight(u) => t = u

(* The worker claims to be ready only when no agent of an earlier turn is   *)
(* left running on it, killed workers and broken connections included.      *)
ReadyMeansAlone == \A t \in Turns : worker[t] = "ready" => native = {}

(* Its reservation stands, and keeps the trial busy; or the worker vouched  *)
(* for all of it and it was counted; or the worker vouched for a reply, and *)
(* at least what was reserved, or reported, is held.                        *)
Accounted(t) ==
  \/ /\ lease[t].step = "active" /\ lease[t].state \in {"open", "closing"}
     /\ lease[t].tokens = permit[t]
  \/ /\ lease[t].step = "ended" /\ answer[t] # None
     /\ answer[t].cleanup /\ answer[t].metering = "complete"
  \/ /\ lease[t].step = "ended" /\ answer[t] # None
     /\ answer[t].cleanup /\ answer[t].metering = "cache_read_unmeasured"
     /\ \E h \in unmeasured : h.turn = t /\ h.held >= permit[t] /\ h.held >= answer[t].tokens

(* No turn that was sent is lost or forgiven.                               *)
EveryTurnAccounted == \A t \in asked : Accounted(t)

TurnsOf(a, d) == {t \in Turns : lease[t].account = a /\ lease[t].day = d}
HoldsOf(a, d) == {h \in unmeasured : h.account = a /\ h.day = d}

(* The ledger's sums are right, for each account and day: used is what the  *)
(* worker reported for the turns it measured, reserved is what is in flight *)
(* or held, requests are the turns sent or about to be, leases those and    *)
(* the leases under which nothing was begun; and each day's row is the sum  *)
(* of its accounts'.                                                        *)
LedgerBalances ==
  LET reported == [t \in Turns |-> IF answer[t] # None /\ \A h \in unmeasured : h.turn # t
                                   THEN answer[t].tokens ELSE 0]
      reserved == [t \in Turns |-> lease[t].tokens]
      held     == [h \in unmeasured |-> h.held]
  IN  /\ \A a \in Accounts, d \in Days :
           LET of == TurnsOf(a, d)
               begun == {t \in of : lease[t].step = "active" \/ (lease[t].step = "ended" /\ t \in asked)}
           IN  /\ days[a][d].used =
                    SumFunctionOnSet(reported, {t \in begun : lease[t].step = "ended"})
               /\ days[a][d].reserved =
                    SumFunctionOnSet(reserved, of) + SumFunctionOnSet(held, HoldsOf(a, d))
               /\ days[a][d].requests = Cardinality(begun)
               /\ days[a][d].leases =
                    Cardinality(begun \cup {t \in of : lease[t].step = "none"})
      /\ \A d \in Days : \A f \in {"used", "reserved", "requests", "leases"} :
           totals[d][f] = SumFunctionOnSet([a \in Accounts |-> days[a][d][f]], Accounts)

(* A day's allowance is passed by one turn's report at most, for an account *)
(* and for everyone together; turns, runtime and leases are never passed.   *)
AllowanceKept ==
  LET kept(row, tokens, requests, runtime, leases) ==
        /\ row.used + row.reserved < tokens + Max(Reports \cup {1})
        /\ row.requests <= requests /\ Runtime(row) <= runtime /\ row.leases <= leases
  IN  \A d \in Days :
        /\ kept(totals[d], GLOBAL_DAILY_TOKENS, GLOBAL_DAILY_REQUESTS, GLOBAL_DAILY_RUNTIME,
                GLOBAL_DAILY_LEASES)
        /\ \A a \in Accounts :
             kept(days[a][d], DAILY_TOKENS, DAILY_REQUESTS, DAILY_RUNTIME, DAILY_LEASES)

(* The sums are right, and they keep within the day's allowance.            *)
LedgerKept == LedgerBalances /\ AllowanceKept

(* A lease never keeps the trial busy for ever: it is closed, or the trial  *)
(* stops and says so, even if its thread died right after taking it.        *)
LeaseEnds == \A t \in Turns : Live(t) ~> (~Live(t) \/ paused)

=============================================================================

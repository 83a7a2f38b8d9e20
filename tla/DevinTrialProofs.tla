--------------------------- MODULE DevinTrialProofs ---------------------------
(***************************************************************************)
(* Theorems about DevinTrial, for every finite set of turns and accounts,  *)
(* every allowance and every bound: what is in flight, what the worker     *)
(* answers for, the ledger's sums and the types of its columns.            *)
(***************************************************************************)
EXTENDS DevinTrial, Sums

-----------------------------------------------------------------------------
(* The inductive invariant.                                                 *)

Sessions ==
  [state : {"none", "open", "closing", "closed"}, account : Accounts \cup {None}, day : Days,
   expires : Int, step : {"none", "active", "ended"}, deadline : Int, tokens : Int]
Rows == [used : Int, reserved : Int, requests : Int, leases : Int]

Phases == {"idle", "checked", "connecting", "ready", "admitted", "unstarted",
           "reserved", "authorized", "sent", "unsettled", "settled", "over"}

(* Types, as far as the steps below need them; that no counter of a day is  *)
(* negative is a matter of sums, and of TypeOK.                             *)
Typed ==
  /\ clock \in Times /\ last_now \in Times
  /\ lease \in [Turns -> Sessions]
  /\ days \in [Accounts -> [Days -> Rows]]
  /\ totals \in [Days -> Rows]
  /\ pc \in [Turns -> Phases]
  /\ account \in [Turns -> Accounts]
  /\ permit \in [Turns -> Int]
  /\ model_started \in [Turns -> BOOLEAN]
  /\ receipt \in [Turns -> Receipts]
  /\ asked \subseteq Turns
  /\ worker \in [Turns -> {"none", "ready", "running", "gone"}]
  /\ native \subseteq Turns /\ artifacts \subseteq Turns
  /\ answer \in [Turns -> Receipts \cup {None}]

(* One lease at a time is not closed, and what is under way under one is    *)
(* what its permit says.                                                    *)
OneLease ==
  /\ \A t, u \in Turns : Live(t) /\ Live(u) => t = u
  /\ \A t \in Turns : lease[t].step = "active" => Live(t) /\ lease[t].tokens = permit[t]

(* Where a thread stands tells what was begun under its lease, and whether  *)
(* anything was written to the worker.                                      *)
Phase(t) ==
  /\ pc[t] \in {"idle", "checked", "connecting", "ready", "admitted", "unstarted"} =>
       lease[t].step = "none"
  /\ pc[t] \in {"idle", "checked", "connecting", "ready"} => lease[t].state = "none"
  /\ pc[t] \in {"reserved", "authorized", "sent", "unsettled"} => lease[t].step = "active"
  /\ pc[t] = "settled" => lease[t].step = "ended"
  /\ t \in asked => model_started[t] /\ pc[t] \in {"sent", "unsettled", "settled", "over"}
  /\ pc[t] \in {"idle", "checked", "connecting"} => worker[t] = "none"
  /\ answer[t] # None => worker[t] = "gone"
  /\ receipt[t] # NoReceipt => answer[t] # None /\ receipt[t] = answer[t]

(* The worker's machine: one worker at a time, and no agent without its     *)
(* artifacts.                                                               *)
WorkerAlone ==
  /\ native \subseteq artifacts
  /\ \A t, u \in Turns :
       worker[t] \in {"ready", "running"} /\ worker[u] \in {"ready", "running"} => t = u
  /\ ReadyMeansAlone

IInv == Typed /\ OneLease /\ (\A t \in Turns : Phase(t)) /\ WorkerAlone /\ EveryTurnAccounted

-----------------------------------------------------------------------------
(* The ledger's clock never leaves the range of the server's.               *)
LEMMA NowInRange == ASSUME IInv PROVE Now \in Times /\ DayOf(Now) \in Days
<1>1. Now \in Times
  BY DEF Now, IInv, Typed
<1>2. ASSUME NEW m \in Nat, NEW n \in Nat, NEW k \in Nat \ {0}, m <= n
      PROVE  m \div k \in 0..(n \div k)
  BY <1>2, SMTT(30)
<1>3. MaxClock \in Nat /\ Day \in Nat \ {0}
  BY TrialAssumption
<1> QED
  BY <1>1, <1>2, <1>3 DEF DayOf, Days, Times

(* The sweep moves a lease along, and nothing else of it.                   *)
LEMMA SweepMoves ==
  ASSUME IInv
  PROVE  /\ Swept \in [Turns -> Sessions]
         /\ \A t \in Turns :
              /\ Swept[t].step = lease[t].step /\ Swept[t].tokens = lease[t].tokens
              /\ Swept[t].account = lease[t].account /\ Swept[t].day = lease[t].day
              /\ Swept[t].state # lease[t].state =>
                   /\ Live(t)
                   /\ IF lease[t].step = "none" THEN Swept[t].state = "closed"
                      ELSE Swept[t].state = "closing"
<1>1. lease \in [Turns -> Sessions]
  BY DEF IInv, Typed
<1>2. ASSUME NEW t \in Turns
      PROVE  /\ Swept[t] \in Sessions
             /\ Swept[t].step = lease[t].step /\ Swept[t].tokens = lease[t].tokens
             /\ Swept[t].account = lease[t].account /\ Swept[t].day = lease[t].day
             /\ Swept[t].state # lease[t].state =>
                  /\ Live(t)
                  /\ IF lease[t].step = "none" THEN Swept[t].state = "closed"
                     ELSE Swept[t].state = "closing"
  <2>1. lease[t] \in Sessions
    BY <1>1
  <2>2. CASE ~Overdue(t)
    <3>1. Swept[t] = lease[t]
      BY <2>2 DEF Swept
    <3> QED
      BY <2>1, <3>1
  <2>3. CASE Overdue(t)
    <3>1. Live(t)
      BY <2>3 DEF Overdue
    <3>2. PICK z \in {"closed", "closing"} :
            z = IF lease[t].step = "none" THEN "closed" ELSE "closing"
      OBVIOUS
    <3>3. Swept[t] = [lease[t] EXCEPT !.state = z]
      BY <2>3, <3>2 DEF Swept
    <3> QED
      BY <2>1, <3>1, <3>2, <3>3 DEF Sessions
  <2> QED
    BY <2>2, <2>3
<1>3. Swept = [t \in Turns |-> Swept[t]]
  BY DEF Swept
<1> QED
  BY <1>2, <1>3

(* A charge leaves rows of numbers.                                         *)
LEMMA ChargeType ==
  ASSUME IInv, NEW a \in Accounts \cup {None}, NEW d \in Days,
         NEW m \in Int, NEW n \in Int, NEW r \in Int, NEW l \in Int,
         Charged(a, d, m, n, r, l)
  PROVE  days' \in [Accounts -> [Days -> Rows]] /\ totals' \in [Days -> Rows]
<1>1. CASE a \in Accounts
  BY <1>1 DEF IInv, Typed, Rows, Charged
<1>2. CASE a \notin Accounts
  <2>1. days' = days
    BY <1>2 DEF IInv, Typed, Charged
  <2>2. totals' \in [Days -> Rows]
    BY DEF IInv, Typed, Rows, Charged
  <2> QED
    BY <2>1, <2>2 DEF IInv, Typed
<1> QED
  BY <1>1, <1>2

(* A lease whose step is settled.                                           *)
LEMMA EndedType ==
  ASSUME NEW r \in Sessions, NEW state \in {"open", "closing", "closed"}
  PROVE  LET s == [r EXCEPT !.state = state, !.step = "ended", !.deadline = 0, !.tokens = 0]
         IN  s \in Sessions /\ s.state = state /\ s.step = "ended"
<1> DEFINE s1 == [r EXCEPT !.state = state, !.step = "ended"]
           s2 == [s1 EXCEPT !.deadline = 0, !.tokens = 0]
<1>1. s1 \in Sessions /\ s1.state = state /\ s1.step = "ended"
  BY DEF Sessions
<1>2. ASSUME NEW q \in Sessions
      PROVE  LET z == [[q EXCEPT !.deadline = 0] EXCEPT !.tokens = 0]
             IN  z \in Sessions /\ z.state = q.state /\ z.step = q.step
  <2>1. /\ [q EXCEPT !.deadline = 0] \in Sessions
        /\ [q EXCEPT !.deadline = 0].state = q.state /\ [q EXCEPT !.deadline = 0].step = q.step
    BY DEF Sessions
  <2> QED
    BY <2>1 DEF Sessions
<1>3. s2 = [[s1 EXCEPT !.deadline = 0] EXCEPT !.tokens = 0]
  BY <1>1 DEF Sessions
<1> QED
  BY <1>1, <1>2, <1>3

(* What is reserved is a number.                                            *)
LEMMA ReservableType ==
  ASSUME IInv, NEW a \in Accounts, NEW d \in Days
  PROVE  Reservable(a, d) \in Int
BY TrialAssumption DEF IInv, Typed, Rows, Reservable, Min2

LEMMA ReceiptType ==
  /\ NoReceipt \in Receipts
  /\ \A r \in Receipts : r.cleanup \in BOOLEAN /\ r.tokens \in Nat
<1>1. NoReceipt \in [cleanup : BOOLEAN, metering : {"unconfirmed"}, tokens : {0}]
  BY DEF NoReceipt
<1>2. NoReceipt \in Receipts
  BY <1>1 DEF Receipts
<1>3. ASSUME NEW r \in Receipts PROVE r.cleanup \in BOOLEAN /\ r.tokens \in Nat
  <2>1. CASE r \in [cleanup : {TRUE}, metering : {"complete", "cache_read_unmeasured"}, tokens : Reports]
    <3>1. r.cleanup \in {TRUE} /\ r.tokens \in Reports
      BY <2>1
    <3> QED
      BY <3>1, TrialAssumption
  <2>2. CASE r \in [cleanup : BOOLEAN, metering : {"unconfirmed"}, tokens : {0}]
    <3>1. r.cleanup \in BOOLEAN /\ r.tokens \in {0}
      BY <2>2
    <3> QED
      BY <3>1
  <2> QED
    BY <2>1, <2>2 DEF Receipts
<1> QED
  BY <1>2, <1>3

LEMMA InitEstablishes == Init => IInv
<1> SUFFICES ASSUME Init PROVE IInv
  OBVIOUS
<1>1. 0 \in Times /\ 0 \in Days
  <2>1. MaxClock \in Nat /\ Day \in Nat \ {0}
    BY TrialAssumption
  <2>2. ASSUME NEW n \in Nat, NEW k \in Nat \ {0} PROVE n \div k \in Nat
    BY SMTT(30)
  <2> QED
    BY <2>1, <2>2 DEF Times, Days
<1>2. Typed
  BY <1>1, ReceiptType DEF Init, Typed, NoLease, NoDay, Sessions, Rows, Phases
<1> QED
  BY <1>2 DEF Init, IInv, OneLease, Phase, WorkerAlone, ReadyMeansAlone, EveryTurnAccounted, Accounted, Live,
              NoLease, NoDay

-----------------------------------------------------------------------------
(* Steps that leave the ledger and the worker alone.                        *)
ThreadOnly(t) ==
  readiness_lock(t) \/ prepare_fails(t) \/ _receipt(t) \/ perform_fails(t) \/ settlement_fails(t)

LEMMA ThreadSteps ==
  ASSUME IInv, NEW t \in Turns, ThreadOnly(t)
  PROVE  IInv'
<1>1. /\ UNCHANGED <<clockVars, ledgerVars, account, permit, model_started, workerVars>>
      /\ pc' \in [Turns -> Phases]
      /\ \A u \in Turns : u # t => pc'[u] = pc[u] /\ receipt'[u] = receipt[u]
      /\ receipt' \in [Turns -> Receipts]
      /\ receipt'[t] = receipt[t] \/ (answer[t] # None /\ receipt'[t] = answer[t])
  BY DEF ThreadOnly, readiness_lock, prepare_fails, _receipt, perform_fails, settlement_fails, Over,
         Goto, IInv, Typed, Phases
<1>2. \/ pc[t] \in {"checked", "connecting"} /\ pc'[t] \in {"connecting", "over"}
      \/ pc[t] \in {"reserved", "sent"} /\ pc'[t] = "unsettled"
      \/ pc'[t] = "over"
  BY DEF ThreadOnly, readiness_lock, prepare_fails, _receipt, perform_fails, settlement_fails, Over,
         Goto, IInv, Typed, Phases
<1>3. Typed' /\ OneLease' /\ WorkerAlone' /\ EveryTurnAccounted'
  BY <1>1 DEF IInv, Typed, OneLease, WorkerAlone, ReadyMeansAlone, EveryTurnAccounted, Accounted, Live,
              clockVars, ledgerVars, workerVars
<1>4. ASSUME NEW u \in Turns PROVE Phase(u)'
  <2>1. CASE u # t
    BY <1>1, <2>1 DEF IInv, Phase, clockVars, ledgerVars, workerVars
  <2>2. CASE u = t
    BY <1>1, <1>2, <2>2 DEF IInv, Phase, clockVars, ledgerVars, workerVars
  <2> QED
    BY <2>1, <2>2
<1> QED
  BY <1>3, <1>4 DEF IInv

(* The server's restart.                                                    *)
LEMMA RestartStep == ASSUME IInv, Restart PROVE IInv'
<1>1. Typed' /\ OneLease' /\ WorkerAlone' /\ EveryTurnAccounted'
  BY DEF Restart, IInv, Typed, OneLease, WorkerAlone, ReadyMeansAlone, EveryTurnAccounted, Accounted, Live,
         clockVars, ledgerVars, workerVars, Phases
<1>2. ASSUME NEW u \in Turns PROVE Phase(u)'
  BY DEF Restart, IInv, Phase, clockVars, ledgerVars, workerVars, Typed
<1> QED
  BY <1>1, <1>2 DEF IInv

(* The clock, and a revoked key.                                            *)
LEMMA OutsideSteps ==
  ASSUME IInv, Advance \/ Regress \/ \E a \in Accounts : revoke(a)
  PROVE  IInv'
<1>1. /\ UNCHANGED <<ledgerVars, pc, account, permit, model_started, receipt, workerVars>>
      /\ clock' \in Times
  BY TrialAssumption DEF Advance, Regress, revoke, clockVars, threadVars, IInv, Typed, Times
<1>2. Typed' /\ OneLease' /\ WorkerAlone' /\ EveryTurnAccounted'
  BY <1>1 DEF IInv, Typed, OneLease, WorkerAlone, ReadyMeansAlone, EveryTurnAccounted, Accounted, Live,
              ledgerVars, workerVars
<1>3. ASSUME NEW u \in Turns PROVE Phase(u)'
  BY <1>1 DEF IInv, Phase, ledgerVars, workerVars
<1> QED
  BY <1>2, <1>3 DEF IInv

-----------------------------------------------------------------------------
(* Steps of the worker's machine.                                           *)
LEMMA WorkerSteps ==
  ASSUME IInv, NEW t \in Turns, Worker(t)
  PROVE  IInv'
<1>1. UNCHANGED <<clockVars, ledgerVars, threadVars, asked>>
  BY DEF Worker, work_begins, work_ends, worker_leaves, worker_dies, agent_ends
<1> DEFINE Machine ==
      /\ worker \in [Turns -> {"none", "ready", "running", "gone"}]
      /\ native \subseteq Turns /\ artifacts \subseteq Turns
      /\ answer \in [Turns -> Receipts \cup {None}]
<1>a. ASSUME work_begins(t) PROVE (Machine /\ WorkerAlone)'
  BY <1>a DEF work_begins, IInv, Typed, WorkerAlone, ReadyMeansAlone
<1>b. ASSUME work_ends(t) PROVE (Machine /\ WorkerAlone)'
  <2>1. PICK r \in Receipts :
          /\ worker[t] = "running" /\ t \in native
          /\ worker' = [worker EXCEPT ![t] = "gone"]
          /\ answer' = [answer EXCEPT ![t] = r]
          /\ \/ native' = native \ {t} /\ artifacts' = artifacts \ {t}
             \/ UNCHANGED <<native, artifacts>>
    BY <1>b DEF work_ends
  <2> QED
    BY <2>1 DEF IInv, Typed, WorkerAlone, ReadyMeansAlone
<1>c. ASSUME worker_leaves(t) PROVE (Machine /\ WorkerAlone)'
  BY <1>c DEF worker_leaves, IInv, Typed, WorkerAlone, ReadyMeansAlone
<1>d. ASSUME worker_dies(t) PROVE (Machine /\ WorkerAlone)'
  BY <1>d DEF worker_dies, IInv, Typed, WorkerAlone, ReadyMeansAlone
<1>e. ASSUME agent_ends(t) PROVE (Machine /\ WorkerAlone)'
  BY <1>e DEF agent_ends, IInv, Typed, WorkerAlone, ReadyMeansAlone
<1>0. (Machine /\ WorkerAlone)'
  BY <1>a, <1>b, <1>c, <1>d, <1>e DEF Worker
<1>2. Typed' /\ OneLease'
  BY <1>1, <1>0 DEF IInv, Typed, OneLease, Live, clockVars, ledgerVars, threadVars
<1>3. WorkerAlone'
  BY <1>0
<1>4. /\ \A u \in Turns : answer'[u] # answer[u] => worker[u] = "running" /\ worker'[u] = "gone"
      /\ \A u \in Turns : worker'[u] # worker[u] => worker[u] \in {"ready", "running"}
      /\ \A u \in Turns : worker[u] = "gone" => worker'[u] = "gone"
  BY DEF Worker, work_begins, work_ends, worker_leaves, worker_dies, agent_ends, IInv, Typed
<1>5. ASSUME NEW u \in Turns PROVE Phase(u)'
  BY <1>1, <1>4 DEF IInv, Phase, Typed, ledgerVars, threadVars
<1>6. EveryTurnAccounted'
  BY <1>1, <1>4 DEF IInv, Phase, Typed, EveryTurnAccounted, Accounted, ledgerVars, threadVars
<1> QED
  BY <1>2, <1>3, <1>5, <1>6 DEF IInv

(* The worker takes a connection.                                           *)
LEMMA PrepareStep == ASSUME IInv, NEW t \in Turns, prepare(t) PROVE IInv'
<1>1. Typed' /\ OneLease' /\ EveryTurnAccounted'
  BY DEF prepare, Goto, IInv, Typed, OneLease, EveryTurnAccounted, Accounted, Live, clockVars, ledgerVars, Phases
<1>2. WorkerAlone'
  BY DEF prepare, Connectable, IInv, Typed, WorkerAlone, ReadyMeansAlone
<1>3. ASSUME NEW u \in Turns PROVE Phase(u)'
  BY DEF prepare, Goto, IInv, Typed, Phase, ledgerVars
<1> QED
  BY <1>1, <1>2, <1>3 DEF IInv

(* The request is written, once there is a permit for it.                   *)
LEMMA SendStep == ASSUME IInv, NEW t \in Turns, _send_request(t) PROVE IInv'
<1>1. Typed' /\ OneLease' /\ WorkerAlone'
  BY DEF _send_request, Started, Goto, IInv, Typed, OneLease, Live, WorkerAlone, ReadyMeansAlone,
         clockVars, ledgerVars, Phases
<1>2. lease[t].step = "active" /\ Live(t) /\ lease[t].tokens = permit[t]
  BY DEF _send_request, IInv, Phase, OneLease
<1>3. EveryTurnAccounted'
  BY <1>2 DEF _send_request, IInv, EveryTurnAccounted, Accounted, Live, ledgerVars
<1>4. ASSUME NEW u \in Turns PROVE Phase(u)'
  BY <1>2 DEF _send_request, Started, Goto, IInv, Typed, Phase, ledgerVars
<1> QED
  BY <1>1, <1>3, <1>4 DEF IInv

-----------------------------------------------------------------------------
(* Steps of the ledger.                                                     *)

(* What a step about one turn does to everything else.                      *)
Aside(t) ==
  /\ UNCHANGED <<clockVars, account, model_started, receipt, workerVars>>
  /\ last_now' = Now
  /\ lease' \in [Turns -> Sessions] /\ pc' \in [Turns -> Phases] /\ permit' \in [Turns -> Int]
  /\ days' \in [Accounts -> [Days -> Rows]] /\ totals' \in [Days -> Rows]
  /\ unmeasured \subseteq unmeasured'
  /\ \A u \in Turns : u # t => /\ pc'[u] = pc[u] /\ permit'[u] = permit[u]
                             /\ lease'[u] = Swept[u]

(* Then only the turn it is about needs a second look.                      *)
LEMMA LedgerStep ==
  ASSUME IInv, NEW t \in Turns, Aside(t),
         Phase(t)',
         t \in asked => Accounted(t)',
         lease'[t].step = "active" => Live(t)' /\ lease'[t].tokens = permit'[t],
         Live(t)' => Live(t) \/ \A u \in Turns : u # t => Swept[u].state \notin {"open", "closing"}
  PROVE  IInv'
<1>1. Typed' /\ WorkerAlone'
  BY NowInRange DEF Aside, IInv, Typed, WorkerAlone, ReadyMeansAlone, clockVars, workerVars
<1>2. ASSUME NEW u \in Turns, u # t
      PROVE  /\ Live(u)' => Live(u) /\ Swept[u].state \in {"open", "closing"}
             /\ lease'[u].step = "active" => Live(u)' /\ lease'[u].tokens = permit'[u]
  <2>1. /\ lease'[u] = Swept[u] /\ permit'[u] = permit[u]
        /\ lease[u].step = "active" => Live(u) /\ lease[u].tokens = permit[u]
    BY <1>2 DEF Aside, IInv, OneLease
  <2>2. /\ Swept[u].step = lease[u].step /\ Swept[u].tokens = lease[u].tokens
        /\ Swept[u].state # lease[u].state =>
             /\ Live(u)
             /\ IF lease[u].step = "none" THEN Swept[u].state = "closed"
                ELSE Swept[u].state = "closing"
    BY SweepMoves
  <2>3. Live(u)' <=> Swept[u].state \in {"open", "closing"}
    BY <2>1 DEF Live
  <2>4. Live(u)' => Live(u)
    BY <2>2, <2>3 DEF Live
  <2>5. lease[u].step = "active" => Live(u)'
    BY <2>1, <2>2, <2>3 DEF Live
  <2> QED
    BY <2>1, <2>2, <2>3, <2>4, <2>5
<1>3. \A u, v \in Turns : Live(u)' /\ Live(v)' => u = v
  BY <1>2 DEF IInv, OneLease
<1>4. OneLease'
  BY <1>2, <1>3 DEF OneLease
<1>5. ASSUME NEW u \in Turns, u # t PROVE Phase(u)'
  BY <1>5, SweepMoves DEF Aside, IInv, Phase, Live, workerVars
<1>6. ASSUME NEW u \in asked, u # t PROVE Accounted(u)'
  <2>1. u \in Turns /\ Accounted(u)
    BY DEF IInv, Typed, EveryTurnAccounted
  <2>2. lease'[u].step = lease[u].step /\ lease'[u].tokens = lease[u].tokens
    BY <1>6, <2>1, SweepMoves DEF Aside
  <2>3. UNCHANGED answer /\ permit'[u] = permit[u] /\ unmeasured \subseteq unmeasured'
    BY <1>6, <2>1 DEF Aside, workerVars
  <2>4. lease[u].step = "active" => lease'[u].state \in {"open", "closing"}
    BY <1>6, <2>1, <2>2, <1>2 DEF Live
  <2> QED
    BY <2>1, <2>2, <2>3, <2>4 DEF Accounted
<1>7. EveryTurnAccounted'
  BY <1>6 DEF EveryTurnAccounted, Aside, workerVars
<1> QED
  BY <1>1, <1>4, <1>5, <1>7 DEF IInv

(* The account page, the operator's pause: the clock's sweep alone.         *)
LEMMA LookSteps == ASSUME IInv, pause \/ Look PROVE IInv'
<1>1. /\ UNCHANGED <<clockVars, days, totals, unmeasured, threadVars, workerVars>>
      /\ last_now' = Now /\ lease' = Swept
  BY DEF pause, Look, Ticked
<1>2. Typed' /\ WorkerAlone'
  BY <1>1, NowInRange, SweepMoves DEF IInv, Typed, WorkerAlone, ReadyMeansAlone, clockVars, workerVars,
     threadVars
<1>3. ASSUME NEW u \in Turns
      PROVE  /\ Live(u)' => Live(u)
             /\ lease'[u].step = "active" => Live(u)' /\ lease'[u].tokens = permit'[u]
             /\ Phase(u)'
             /\ Accounted(u) => Accounted(u)'
  <2>1. UNCHANGED <<pc, permit, model_started, receipt, asked, worker, answer, unmeasured>>
    BY <1>1 DEF threadVars, workerVars
  <2>2. /\ Live(u)' => Live(u)
        /\ lease'[u].step = "active" => Live(u)' /\ lease'[u].tokens = permit'[u]
    BY <1>1, <2>1, SweepMoves DEF IInv, OneLease, Live
  <2>3. Phase(u)'
    BY <1>1, <2>1, SweepMoves DEF IInv, Phase, Live
  <2>4. Accounted(u) => Accounted(u)'
    BY <1>1, <2>1, <2>2, SweepMoves DEF Accounted, Live
  <2> QED
    BY <2>2, <2>3, <2>4
<1>4. OneLease'
  BY <1>3 DEF IInv, OneLease
<1>5. EveryTurnAccounted'
  BY <1>1, <1>3 DEF IInv, Typed, EveryTurnAccounted, workerVars
<1> QED
  BY <1>2, <1>3, <1>4, <1>5 DEF IInv

(* A thread that only asks: allowance, and the poll before the request.     *)
LEMMA AskSteps ==
  ASSUME IInv, NEW t \in Turns, allowance(t) \/ _active(t)
  PROVE  IInv'
<1>1. /\ UNCHANGED <<clockVars, days, totals, unmeasured, account, permit, model_started, receipt,
                     workerVars>>
      /\ last_now' = Now /\ lease' = Swept
      /\ \/ pc[t] = "idle" /\ pc' = [pc EXCEPT ![t] = "checked"]
         \/ pc[t] = "idle" /\ pc' = [pc EXCEPT ![t] = "over"]
         \/ pc[t] = "reserved" /\ pc' = [pc EXCEPT ![t] = "authorized"]
         \/ pc[t] = "reserved" /\ pc' = [pc EXCEPT ![t] = "unsettled"]
  BY DEF Ticked, allowance, _active, Over, Goto
<1>2. Aside(t)
  BY <1>1, SweepMoves DEF Aside, IInv, Typed, Phases
<1>3. Phase(t)'
  <2>1. Phase(t) /\ pc \in [Turns -> Phases] /\ UNCHANGED <<model_started, asked, worker, answer, receipt>>
    BY <1>1 DEF IInv, Typed, workerVars
  <2>2. lease'[t].step = lease[t].step
    BY <1>1, SweepMoves
  <2>3. CASE pc[t] = "idle"
    <3>1. lease[t].state = "none" /\ t \notin asked /\ worker[t] = "none" /\ lease[t].step = "none"
      BY <2>1, <2>3 DEF Phase
    <3>2. lease'[t].state = "none"
      BY <1>1, <3>1, SweepMoves DEF Live
    <3>3. pc'[t] \in {"checked", "over"}
      BY <1>1, <2>1, <2>3
    <3> QED
      BY <2>1, <2>2, <3>1, <3>2, <3>3 DEF Phase
  <2>4. CASE pc[t] = "reserved"
    <3>1. pc'[t] \in {"authorized", "unsettled"}
      BY <1>1, <2>1, <2>4
    <3> QED
      BY <2>1, <2>2, <2>4, <3>1 DEF Phase
  <2> QED
    BY <1>1, <2>3, <2>4
<1>4. t \notin asked
  BY <1>1 DEF IInv, Phase
<1>5. /\ Live(t)' => Live(t)
      /\ lease'[t].step = "active" => Live(t)' /\ lease'[t].tokens = permit'[t]
  BY <1>1, SweepMoves DEF IInv, OneLease, Live
<1> QED
  BY <1>2, <1>3, <1>4, <1>5, LedgerStep

(* A lease is closed, and nothing was under way under it.                   *)
LEMMA CloseStep == ASSUME IInv, NEW t \in Turns, close(t) PROVE IInv'
<1>1. /\ UNCHANGED <<clockVars, days, totals, unmeasured, account, permit, model_started, receipt,
                     workerVars>>
      /\ last_now' = Now /\ lease' = Closed(t)
      /\ pc' = [pc EXCEPT ![t] = "over"]
      /\ pc[t] \in {"unstarted", "settled"}
  BY DEF close, Over, Goto
<1>2. Swept[t].step # "active" /\ lease[t].step # "active"
  BY <1>1, SweepMoves DEF IInv, Phase
<1>3. /\ lease' \in [Turns -> Sessions]
      /\ \A u \in Turns : u # t => lease'[u] = Swept[u]
      /\ lease'[t].state = "closed" /\ lease'[t].step = lease[t].step
  <2>1. lease' = [Swept EXCEPT ![t].state = "closed"]
    BY <1>1, <1>2 DEF Closed
  <2> QED
    BY <2>1, SweepMoves DEF Sessions
<1>4. Aside(t)
  BY <1>1, <1>3 DEF Aside, IInv, Typed, Phases
<1>5. Phase(t)'
  BY <1>1, <1>2, <1>3 DEF IInv, Typed, Phase, workerVars
<1>6. t \in asked => Accounted(t)'
  BY <1>1, <1>2, <1>3 DEF IInv, EveryTurnAccounted, Accounted, workerVars
<1> QED
  BY <1>2, <1>3, <1>4, <1>5, <1>6, LedgerStep DEF Live

LEMMA CancelStep == ASSUME IInv, NEW t \in Turns, cancel(t) PROVE IInv'
<1>1. /\ UNCHANGED <<clockVars, days, totals, unmeasured, threadVars, workerVars>>
      /\ last_now' = Now
      /\ lease[t].state = "open"
      /\ lease' = Swept \/ lease' = [Swept EXCEPT ![t].state = "closing"]
  BY DEF cancel
<1>2. /\ lease' \in [Turns -> Sessions]
      /\ \A u \in Turns : u # t => lease'[u] = Swept[u]
      /\ lease'[t].step = lease[t].step /\ lease'[t].tokens = lease[t].tokens
      /\ lease[t].step = "active" => lease'[t].state \in {"open", "closing"}
  BY <1>1, SweepMoves DEF Sessions
<1>3. Aside(t)
  BY <1>1, <1>2 DEF Aside, IInv, Typed, threadVars
<1>4. Phase(t)'
  BY <1>1, <1>2 DEF IInv, Phase, threadVars, workerVars
<1>5. t \in asked => Accounted(t)'
  BY <1>1, <1>2 DEF IInv, EveryTurnAccounted, Accounted, threadVars, workerVars
<1>6. /\ Live(t)
      /\ lease'[t].step = "active" => Live(t)' /\ lease'[t].tokens = permit'[t]
  BY <1>1, <1>2 DEF IInv, OneLease, Live, threadVars
<1> QED
  BY <1>3, <1>4, <1>5, <1>6, LedgerStep

(* A lease is given only when no other is left.                             *)
LEMMA AdmitStep == ASSUME IInv, NEW t \in Turns, admit(t) PROVE IInv'
<1> DEFINE d == DayOf(Now)
           new == [state |-> "open", account |-> account[t], day |-> d,
                   expires |-> Min2(Now + Lease, (d + 1) * Day),
                   step |-> "none", deadline |-> 0, tokens |-> 0]
<1>0. d \in Days /\ account[t] \in Accounts
  BY NowInRange DEF IInv, Typed
<1>1. /\ UNCHANGED <<clockVars, unmeasured, account, permit, model_started, receipt, workerVars>>
      /\ last_now' = Now
      /\ pc[t] = "ready" /\ lease[t].step = "none" /\ lease[t].state = "none" /\ t \notin asked
      /\ \/ lease' = Swept /\ pc' = [pc EXCEPT ![t] = "over"] /\ UNCHANGED <<days, totals>>
         \/ /\ ~Busy
            /\ lease' = [Swept EXCEPT ![t] = new] /\ pc' = [pc EXCEPT ![t] = "admitted"]
            /\ Charged(account[t], d, 0, 0, 0, 1)
  BY DEF admit, Over, Goto, IInv, Phase
<1>2. new \in Sessions /\ new.step = "none" /\ new.state = "open"
  <2>1. Now \in Int /\ Lease \in Int /\ Day \in Int /\ d \in Int
    BY <1>0, NowInRange, TrialAssumption DEF Times, Days
  <2>2. Min2(Now + Lease, (d + 1) * Day) \in Int
    BY <2>1 DEF Min2
  <2>3. ASSUME NEW a \in Accounts, NEW x \in Days, NEW e \in Int
        PROVE  [state |-> "open", account |-> a, day |-> x, expires |-> e,
                step |-> "none", deadline |-> 0, tokens |-> 0] \in Sessions
    BY DEF Sessions
  <2> HIDE DEF d
  <2> QED
    BY <1>0, <2>2, <2>3
<1> HIDE DEF new
<1>3. days' \in [Accounts -> [Days -> Rows]] /\ totals' \in [Days -> Rows]
  BY <1>0, <1>1, ChargeType DEF IInv, Typed
<1>4. CASE lease' = Swept /\ pc' = [pc EXCEPT ![t] = "over"]
  <2>1. Aside(t)
    BY <1>1, <1>3, <1>4, SweepMoves DEF Aside, IInv, Typed, Phases
  <2>2. Phase(t)'
    BY <1>1, <1>4 DEF IInv, Typed, Phase, workerVars
  <2>3. lease'[t].step = "none" /\ ~Live(t)'
    BY <1>1, <1>4, SweepMoves DEF Live
  <2> QED
    BY <1>1, <2>1, <2>2, <2>3, LedgerStep
<1>5. CASE /\ ~Busy
           /\ lease' = [Swept EXCEPT ![t] = new] /\ pc' = [pc EXCEPT ![t] = "admitted"]
  <2>1. lease'[t] = new
    BY <1>5, SweepMoves
  <2>2. Aside(t)
    BY <1>1, <1>2, <1>3, <1>5, SweepMoves DEF Aside, IInv, Typed, Phases
  <2>3. Phase(t)'
    BY <1>1, <1>2, <1>5, <2>1 DEF IInv, Typed, Phase, workerVars
  <2>4. \A u \in Turns : Swept[u].state \notin {"open", "closing"}
    BY <1>5 DEF Busy
  <2> QED
    BY <1>1, <1>2, <2>1, <2>2, <2>3, <2>4, LedgerStep
<1> QED
  BY <1>1, <1>4, <1>5

(* A step is reserved under the lease its thread was just given.            *)
LEMMA StartStep == ASSUME IInv, NEW t \in Turns, start_step(t) PROVE IInv'
<1> DEFINE n == Reservable(account[t], Swept[t].day)
<1>0. Swept[t].day \in Days /\ account[t] \in Accounts /\ n \in Int /\ Now + Step \in Int
  <2>1. Swept[t].day \in Days /\ account[t] \in Accounts
    BY SweepMoves DEF IInv, Typed, Sessions
  <2>2. n \in Int
    BY <2>1, ReservableType DEF IInv
  <2>3. Now + Step \in Int
    BY NowInRange, TrialAssumption DEF IInv, Times
  <2> QED
    BY <2>1, <2>2, <2>3
<1>1. /\ UNCHANGED <<clockVars, unmeasured, account, model_started, receipt, workerVars>>
      /\ last_now' = Now
      /\ pc[t] = "admitted" /\ lease[t].step = "none" /\ t \notin asked
      /\ \/ /\ lease' = Swept /\ pc' = [pc EXCEPT ![t] = "unstarted"]
            /\ UNCHANGED <<days, totals, permit>>
         \/ /\ Swept[t].state = "open"
            /\ lease' = [Swept EXCEPT ![t].step = "active", ![t].tokens = n,
                                      ![t].deadline = Now + Step]
            /\ pc' = [pc EXCEPT ![t] = "reserved"]
            /\ permit' = [permit EXCEPT ![t] = n]
            /\ Charged(account[t], Swept[t].day, 0, n, 1, 0)
  BY DEF start_step, Startable, Goto, IInv, Phase
<1> HIDE DEF n
<1>3. days' \in [Accounts -> [Days -> Rows]] /\ totals' \in [Days -> Rows]
  <2>1. Charged(account[t], Swept[t].day, 0, n, 1, 0) =>
          days' \in [Accounts -> [Days -> Rows]] /\ totals' \in [Days -> Rows]
    BY <1>0, ChargeType
  <2>2. UNCHANGED <<days, totals>> \/ Charged(account[t], Swept[t].day, 0, n, 1, 0)
    BY <1>1
  <2> QED
    BY <2>1, <2>2 DEF IInv, Typed
<1>4. CASE lease' = Swept /\ pc' = [pc EXCEPT ![t] = "unstarted"] /\ UNCHANGED permit
  <2>1. Aside(t)
    BY <1>1, <1>3, <1>4, SweepMoves DEF Aside, IInv, Typed, Phases
  <2>2. lease'[t].step = "none" /\ (Live(t)' => Live(t))
    BY <1>1, <1>4, SweepMoves DEF Live
  <2>3. Phase(t)'
    BY <1>1, <1>4, <2>2 DEF IInv, Typed, Phase, workerVars
  <2> QED
    BY <1>1, <2>1, <2>2, <2>3, LedgerStep
<1>5. CASE /\ Swept[t].state = "open"
           /\ lease' = [Swept EXCEPT ![t].step = "active", ![t].tokens = n,
                                     ![t].deadline = Now + Step]
           /\ pc' = [pc EXCEPT ![t] = "reserved"]
           /\ permit' = [permit EXCEPT ![t] = n]
  <2>1. /\ lease' \in [Turns -> Sessions]
        /\ \A u \in Turns : u # t => lease'[u] = Swept[u]
        /\ lease'[t].step = "active" /\ lease'[t].tokens = n /\ lease'[t].state = "open"
    <3> DEFINE s == [Swept[t] EXCEPT !.step = "active", !.tokens = n, !.deadline = Now + Step]
    <3>1. Swept \in [Turns -> Sessions]
      BY SweepMoves
    <3>2. lease' = [Swept EXCEPT ![t] = s]
      BY <1>5, <3>1
    <3>3. s \in Sessions /\ s.step = "active" /\ s.tokens = n /\ s.state = "open"
      BY <1>0, <1>5, <3>1 DEF Sessions
    <3> HIDE DEF s
    <3> QED
      BY <3>1, <3>2, <3>3
  <2>2. permit' \in [Turns -> Int] /\ permit'[t] = n /\ \A u \in Turns : u # t => permit'[u] = permit[u]
    BY <1>0, <1>5 DEF IInv, Typed
  <2>3. Aside(t)
    BY <1>1, <1>3, <1>5, <2>1, <2>2 DEF Aside, IInv, Typed, Phases
  <2>4. Phase(t)'
    BY <1>1, <1>5, <2>1 DEF IInv, Typed, Phase, workerVars
  <2>5. Live(t) /\ Live(t)'
    BY <1>5, <2>1, SweepMoves DEF Live
  <2> QED
    BY <1>1, <2>1, <2>2, <2>3, <2>4, <2>5, LedgerStep
<1> QED
  BY <1>1, <1>4, <1>5

(* Nothing was written, so nothing is owed.                                 *)
LEMMA FinishUnsentStep == ASSUME IInv, NEW t \in Turns, finish_unsent(t) PROVE IInv'
<1> DEFINE s == [lease[t] EXCEPT !.state = "closed", !.step = "ended", !.deadline = 0, !.tokens = 0]
<1>1. lease \in [Turns -> Sessions] /\ lease[t] \in Sessions
  BY DEF IInv, Typed
<1>2. /\ lease[t].account \in Accounts \cup {None} /\ lease[t].day \in Days
      /\ -lease[t].tokens \in Int /\ 0 \in Int /\ -1 \in Int
  BY <1>1 DEF Sessions
<1>3. /\ UNCHANGED <<clockVars, unmeasured, account, permit, model_started, receipt, workerVars>>
      /\ last_now' = Now
      /\ pc' = [pc EXCEPT ![t] = "over"]
      /\ Charged(lease[t].account, lease[t].day, 0, -lease[t].tokens, -1, -1)
      /\ t \notin asked
  BY DEF finish_unsent, RefundDay, Over, Goto, IInv, Phase
<1>4. lease' = [Swept EXCEPT ![t] = s]
  BY <1>1 DEF finish_unsent, Ended
<1>5. s \in Sessions /\ s.state = "closed" /\ s.step = "ended"
  BY <1>1, EndedType
<1> HIDE DEF s
<1>6. /\ lease' \in [Turns -> Sessions] /\ lease'[t] = s
      /\ \A u \in Turns : u # t => lease'[u] = Swept[u]
  BY <1>4, <1>5, SweepMoves
<1>7. days' \in [Accounts -> [Days -> Rows]] /\ totals' \in [Days -> Rows]
  BY <1>2, <1>3, ChargeType
<1>8. Aside(t)
  BY <1>3, <1>6, <1>7 DEF Aside, IInv, Typed, Phases
<1>9. Phase(t)'
  BY <1>3, <1>5, <1>6 DEF IInv, Typed, Phase, workerVars
<1> QED
  BY <1>3, <1>5, <1>6, <1>8, <1>9, LedgerStep DEF Live

(* A turn that may have been sent is counted, held for, or kept in the way. *)
LEMMA FinishStep == ASSUME IInv, NEW t \in Turns, finish_step(t) PROVE IInv'
<1>1. /\ UNCHANGED <<clockVars, account, permit, model_started, receipt, workerVars>>
      /\ last_now' = Now
      /\ pc[t] = "unsettled" /\ Swept[t].step = "active" /\ Swept[t].tokens = permit[t]
  BY DEF finish_step, _permit_matches
<1>2. /\ Swept \in [Turns -> Sessions] /\ Swept[t] \in Sessions
      /\ lease[t].step = "active" /\ Live(t) /\ Swept[t].state \in {"open", "closing"}
  BY <1>1, SweepMoves DEF IInv, Typed, OneLease, Live
<1>3. /\ Swept[t].account \in Accounts \cup {None} /\ Swept[t].day \in Days
      /\ Swept[t].tokens \in Int /\ Swept[t].state \in {"none", "open", "closing", "closed"}
  BY <1>2 DEF Sessions
<1>4. /\ receipt[t] \in Receipts /\ receipt[t].cleanup \in BOOLEAN /\ receipt[t].tokens \in Nat
      /\ receipt[t].cleanup => answer[t] # None /\ receipt[t] = answer[t]
  <2>1. receipt[t] \in Receipts
    BY DEF IInv, Typed
  <2>2. receipt[t].cleanup => receipt[t] # NoReceipt
    BY DEF NoReceipt
  <2> QED
    BY <2>1, <2>2, ReceiptType DEF IInv, Phase
<1>5. ASSUME NEW state \in {"open", "closing", "closed"},
             lease' = Ended(Swept, t, state)
      PROVE  /\ lease' \in [Turns -> Sessions] /\ lease'[t].step = "ended"
             /\ \A u \in Turns : u # t => lease'[u] = Swept[u]
  <2> DEFINE s == [Swept[t] EXCEPT !.state = state, !.step = "ended", !.deadline = 0, !.tokens = 0]
  <2>1. lease' = [Swept EXCEPT ![t] = s]
    BY <1>2, <1>5 DEF Ended
  <2>2. s \in Sessions /\ s.step = "ended"
    BY <1>2, EndedType
  <2> HIDE DEF s
  <2> QED
    BY <1>2, <2>1, <2>2
<1>6. CASE finish_measured(t)
  <2> DEFINE n == receipt[t].tokens
  <2>1. /\ receipt[t].cleanup /\ receipt[t].metering = "complete"
        /\ Charged(Swept[t].account, Swept[t].day, n, -Swept[t].tokens, 0, 0)
        /\ pc' = [pc EXCEPT ![t] = "settled"] /\ UNCHANGED unmeasured
        /\ \E state \in {"open", "closing", "closed"} : lease' = Ended(Swept, t, state)
    BY <1>2, <1>6 DEF finish_measured, Goto
  <2>2. days' \in [Accounts -> [Days -> Rows]] /\ totals' \in [Days -> Rows]
    <3>1. n \in Int /\ -Swept[t].tokens \in Int /\ 0 \in Int
      BY <1>3, <1>4
    <3> QED
      BY <1>3, <2>1, <3>1, ChargeType
  <2>3. /\ lease' \in [Turns -> Sessions] /\ lease'[t].step = "ended"
        /\ \A u \in Turns : u # t => lease'[u] = Swept[u]
    BY <1>5, <2>1
  <2>4. Aside(t)
    BY <1>1, <2>1, <2>2, <2>3 DEF Aside, IInv, Typed, Phases
  <2>5. Phase(t)'
    BY <1>1, <2>1, <2>3 DEF IInv, Typed, Phase, workerVars
  <2>6. Accounted(t)'
    BY <1>1, <1>4, <2>1, <2>3 DEF Accounted, workerVars
  <2> QED
    BY <1>2, <2>3, <2>4, <2>5, <2>6, LedgerStep
<1>7. CASE finish_unmeasured(t)
  <2> DEFINE h == [turn |-> t, account |-> Swept[t].account, day |-> Swept[t].day,
                   held |-> Held(t), known |-> receipt[t].tokens]
  <2>1. /\ receipt[t].cleanup /\ receipt[t].metering = "cache_read_unmeasured"
        /\ Charged(Swept[t].account, Swept[t].day, 0, Held(t) - Swept[t].tokens, 0, 0)
        /\ pc' = [pc EXCEPT ![t] = "settled"] /\ unmeasured' = unmeasured \cup {h}
        /\ lease' = Ended(Swept, t, "closed")
    BY <1>7 DEF finish_unmeasured, Goto
  <2>2. Held(t) \in Int /\ Held(t) >= permit[t] /\ Held(t) >= receipt[t].tokens
    BY <1>1, <1>3, <1>4 DEF Held
  <2>3. days' \in [Accounts -> [Days -> Rows]] /\ totals' \in [Days -> Rows]
    <3>1. Held(t) - Swept[t].tokens \in Int /\ 0 \in Int
      BY <1>3, <2>2
    <3> QED
      BY <1>3, <2>1, <3>1, ChargeType
  <2>4. /\ lease' \in [Turns -> Sessions] /\ lease'[t].step = "ended"
        /\ \A u \in Turns : u # t => lease'[u] = Swept[u]
    BY <1>5, <2>1
  <2>5. Aside(t)
    BY <1>1, <2>1, <2>3, <2>4 DEF Aside, IInv, Typed, Phases
  <2>6. Phase(t)'
    BY <1>1, <2>1, <2>4 DEF IInv, Typed, Phase, workerVars
  <2>7. h \in unmeasured' /\ h.turn = t /\ h.held >= permit'[t] /\ h.held >= answer'[t].tokens
    BY <1>1, <1>4, <2>1, <2>2 DEF workerVars
  <2>8. Accounted(t)'
    <3> HIDE DEF h
    <3> QED
      BY <1>1, <1>4, <2>1, <2>4, <2>7 DEF Accounted, workerVars
  <2> QED
    BY <1>2, <2>4, <2>5, <2>6, <2>8, LedgerStep
<1>8. CASE finish_unknown(t)
  <2>1. /\ lease' = [Swept EXCEPT ![t].state = "closing"]
        /\ pc' = [pc EXCEPT ![t] = "over"] /\ UNCHANGED <<days, totals, unmeasured>>
    BY <1>8 DEF finish_unknown, Over, Goto
  <2>2. /\ lease' \in [Turns -> Sessions]
        /\ lease'[t].step = "active" /\ lease'[t].state = "closing" /\ lease'[t].tokens = permit[t]
        /\ \A u \in Turns : u # t => lease'[u] = Swept[u]
    BY <1>1, <1>2, <2>1 DEF Sessions
  <2>3. Aside(t)
    BY <1>1, <2>1, <2>2 DEF Aside, IInv, Typed, Phases
  <2>4. Phase(t)'
    BY <1>1, <2>1, <2>2 DEF IInv, Typed, Phase, workerVars
  <2>5. Accounted(t)' /\ Live(t)' /\ lease'[t].tokens = permit'[t]
    BY <1>1, <2>2 DEF Accounted, Live
  <2> QED
    BY <1>2, <2>3, <2>4, <2>5, LedgerStep
<1> QED
  BY <1>6, <1>7, <1>8 DEF finish_step

-----------------------------------------------------------------------------
LEMMA StutterStep == ASSUME IInv, UNCHANGED vars PROVE IInv'
<1>1. UNCHANGED <<clockVars, ledgerVars, threadVars, workerVars>>
  BY DEF vars
<1>2. Typed' /\ OneLease' /\ WorkerAlone' /\ EveryTurnAccounted'
  BY <1>1 DEF IInv, Typed, OneLease, WorkerAlone, ReadyMeansAlone, EveryTurnAccounted, Accounted, Live,
              clockVars, ledgerVars, threadVars, workerVars
<1>3. ASSUME NEW u \in Turns PROVE Phase(u)'
  BY <1>1 DEF IInv, Phase, ledgerVars, threadVars, workerVars
<1> QED
  BY <1>2, <1>3 DEF IInv

LEMMA InvariantKept == IInv /\ [Next]_vars => IInv'
<1> SUFFICES ASSUME IInv, [Next]_vars PROVE IInv'
  OBVIOUS
<1>1. ASSUME NEW t \in Turns, Thread(t) PROVE IInv'
  BY <1>1, ThreadSteps, AskSteps, PrepareStep, AdmitStep, StartStep, CloseStep, SendStep,
     FinishUnsentStep, FinishStep DEF Thread, ThreadOnly
<1>2. ASSUME NEW t \in Turns, Worker(t) PROVE IInv'
  BY <1>2, WorkerSteps
<1>3. ASSUME NEW t \in Turns, cancel(t) PROVE IInv'
  BY <1>3, CancelStep
<1>4. ASSUME Advance \/ Regress \/ \E a \in Accounts : revoke(a) PROVE IInv'
  BY <1>4, OutsideSteps
<1>5. ASSUME pause \/ Look PROVE IInv'
  BY <1>5, LookSteps
<1>6. ASSUME Restart PROVE IInv'
  BY <1>6, RestartStep
<1>7. ASSUME UNCHANGED vars PROVE IInv'
  BY <1>7, StutterStep
<1> QED
  BY <1>1, <1>2, <1>3, <1>4, <1>5, <1>6, <1>7 DEF Next

LEMMA InvariantAlways == Spec => []IInv
<1>1. Init => IInv
  BY InitEstablishes
<1>2. IInv /\ [Next]_vars => IInv'
  BY InvariantKept
<1> QED
  BY <1>1, <1>2, PTL DEF Spec

(* While one turn is on its way to the worker, or its outcome is unknown,   *)
(* the ledger lets no other be sent: start_step works under the one lease   *)
(* that is open, and nothing but a settlement closes a lease with a step.   *)
THEOREM OneInFlightAlways == Spec => []OneInFlight
<1>1. IInv => OneInFlight
  BY DEF IInv, Typed, OneLease, OneInFlight, InFlight
<1> QED
  BY <1>1, InvariantAlways, PTL

(* The worker says it is ready only with no earlier agent left running:     *)
(* what it looks for before it answers is gone only once the agent is.      *)
THEOREM ReadyMeansAloneAlways == Spec => []ReadyMeansAlone
<1>1. IInv => ReadyMeansAlone
  BY DEF IInv, WorkerAlone
<1> QED
  BY <1>1, InvariantAlways, PTL

(* Every turn that was sent is measured, held for at its reservation or     *)
(* more, or still keeps the trial busy: whatever failed, ran out or         *)
(* restarted, no settlement forgives one.                                   *)
THEOREM EveryTurnAccountedAlways == Spec => []EveryTurnAccounted
<1>1. IInv => EveryTurnAccounted
  BY DEF IInv
<1> QED
  BY <1>1, InvariantAlways, PTL
-----------------------------------------------------------------------------
(* The ledger's sums.  What a turn adds to a row of its account's day is    *)
(* read from its lease, its answer and what is held for it; a step of the   *)
(* ledger changes what one turn adds, and charges the row the difference.   *)

Mine(t, a, d) == lease[t].account = a /\ lease[t].day = d
Counted(t) == lease[t].step = "ended" /\ t \in asked
Begun(t) == lease[t].step = "active" \/ Counted(t)
Measured(t) == answer[t] # None /\ \A h \in unmeasured : h.turn # t

UsedBy(t, a, d) == IF Mine(t, a, d) /\ Counted(t) /\ Measured(t) THEN answer[t].tokens ELSE 0
TokensBy(t, a, d) == IF Mine(t, a, d) THEN lease[t].tokens ELSE 0
BegunBy(t, a, d) == IF Mine(t, a, d) /\ Begun(t) THEN 1 ELSE 0
LeasedBy(t, a, d) == IF Mine(t, a, d) /\ (Begun(t) \/ lease[t].step = "none") THEN 1 ELSE 0
HeldBy(h, a, d) == IF h.account = a /\ h.day = d THEN h.held ELSE 0

UsedIn(a, d) == Total([t \in Turns |-> UsedBy(t, a, d)], Turns)
TokensIn(a, d) == Total([t \in Turns |-> TokensBy(t, a, d)], Turns)
BegunIn(a, d) == Total([t \in Turns |-> BegunBy(t, a, d)], Turns)
LeasedIn(a, d) == Total([t \in Turns |-> LeasedBy(t, a, d)], Turns)
HeldIn(a, d) == Total([h \in unmeasured |-> HeldBy(h, a, d)], unmeasured)
AllOf(f, d) == Total([a \in Accounts |-> days[a][d][f]], Accounts)

Fields == {"used", "reserved", "requests", "leases"}

(* A lease is its turn's account's, and is there once its thread was        *)
(* admitted; only what is under way has tokens, only what has ended is held *)
(* for, and only what was asked is answered.                                *)
LeasesSound ==
  /\ \A t \in Turns :
       /\ lease[t].state = "none" => lease[t].step = "none" /\ lease[t].account = None
       /\ lease[t].state # "none" => lease[t].account = account[t]
       /\ IF lease[t].step = "active" THEN lease[t].tokens \in 1..TOKENS
          ELSE lease[t].tokens = 0
       /\ pc[t] \in {"admitted", "unstarted"} => lease[t].state # "none"
       /\ worker[t] = "running" \/ answer[t] # None => t \in asked
  /\ IsFiniteSet(unmeasured)
  /\ \A h \in unmeasured :
       /\ h.turn \in Turns /\ h.account \in Accounts /\ h.day \in Days
       /\ h.held \in Nat /\ h.known \in Nat
       /\ lease[h.turn].step = "ended"

Summed == \A a \in Accounts, d \in Days :
  /\ days[a][d].used = UsedIn(a, d)
  /\ days[a][d].reserved = TokensIn(a, d) + HeldIn(a, d)
  /\ days[a][d].requests = BegunIn(a, d)
  /\ days[a][d].leases = LeasedIn(a, d)

Totalled == \A d \in Days, f \in Fields : totals[d][f] = AllOf(f, d)

(* While a turn is under way its day is not passed, so that its report can  *)
(* pass it by no more than itself.                                          *)
Most == Max(Reports \cup {1})

Kept(row, tokens, requests, runtime, leases) ==
  /\ row.used + row.reserved < tokens + Most
  /\ row.requests <= requests /\ Runtime(row) <= runtime /\ row.leases <= leases

NotPassed(row, tokens) == row.used + row.reserved <= tokens

UnderWay(a, d) == \E t \in Turns : lease[t].step = "active" /\ Mine(t, a, d)

Allowed ==
  /\ \A d \in Days : Kept(totals[d], GLOBAL_DAILY_TOKENS, GLOBAL_DAILY_REQUESTS,
                          GLOBAL_DAILY_RUNTIME, GLOBAL_DAILY_LEASES)
  /\ \A a \in Accounts, d \in Days :
       /\ Kept(days[a][d], DAILY_TOKENS, DAILY_REQUESTS, DAILY_RUNTIME, DAILY_LEASES)
       /\ UnderWay(a, d) => /\ NotPassed(days[a][d], DAILY_TOKENS)
                            /\ NotPassed(totals[d], GLOBAL_DAILY_TOKENS)

BooksInv == LeasesSound /\ Summed /\ Totalled /\ Allowed

LEMMA LimitsAreNumbers ==
  /\ TOKENS \in Nat \ {0} /\ Step \in Nat \ {0} /\ Day \in Nat \ {0}
  /\ DAILY_TOKENS \in Nat \ {0} /\ GLOBAL_DAILY_TOKENS \in Nat \ {0}
  /\ DAILY_REQUESTS \in Nat /\ GLOBAL_DAILY_REQUESTS \in Nat
  /\ DAILY_RUNTIME \in Nat /\ GLOBAL_DAILY_RUNTIME \in Nat
  /\ DAILY_LEASES \in Nat /\ GLOBAL_DAILY_LEASES \in Nat
  /\ IsFiniteSet(Turns) /\ IsFiniteSet(Accounts) /\ None \notin Turns \cup Accounts
BY TrialAssumption

LEMMA MostIsMost == Most \in Nat /\ Most >= 1 /\ \A r \in Reports : r <= Most
<1> DEFINE S == Reports \cup {1}
<1>1. IsFiniteSet(S) /\ (\A y \in S : y \in Nat) /\ 1 \in S
  BY TrialAssumption, FS_AddElement
<1> HIDE DEF S
<1>2. \A y \in S : y \in Int
  BY <1>1
<1>3. S # {}
  BY <1>1
<1>4. PICK m \in S : \A n \in S : n <= m
  BY <1>1, <1>2, <1>3, LargestOf
<1>5. \A y \in S : m >= y
  BY <1>1, <1>4
<1>6. Max(S) \in S /\ \A y \in S : Max(S) >= y
  BY <1>4, <1>5 DEF Max
<1>7. Max(S) \in Nat /\ Max(S) >= 1 /\ \A y \in S : y <= Max(S)
  BY <1>1, <1>6
<1> QED
  BY <1>7 DEF Most, S

LEMMA AnswerTokens == ASSUME IInv, NEW t \in Turns, answer[t] # None PROVE answer[t].tokens \in Nat
BY ReceiptType DEF IInv, Typed

(* What a turn adds is a number.                                            *)
LEMMA AddsNumbers ==
  ASSUME IInv, LeasesSound, NEW t \in Turns, NEW a, NEW d
  PROVE  /\ UsedBy(t, a, d) \in Nat /\ TokensBy(t, a, d) \in Nat
         /\ BegunBy(t, a, d) \in Nat /\ LeasedBy(t, a, d) \in Nat
<1>1. lease[t].tokens \in Nat
  BY LimitsAreNumbers DEF LeasesSound
<1>2. answer[t] # None => answer[t].tokens \in Nat
  BY AnswerTokens
<1> QED
  BY <1>1, <1>2 DEF UsedBy, TokensBy, BegunBy, LeasedBy, Measured

LEMMA HoldsAreNumbers ==
  ASSUME LeasesSound, NEW h \in unmeasured, NEW a, NEW d
  PROVE  HeldBy(h, a, d) \in Nat
BY DEF LeasesSound, HeldBy

(* Where one turn adds something else, the sums move with it.               *)
LEMMA UsedMoves ==
  ASSUME IInv, IInv', LeasesSound, LeasesSound', NEW t \in Turns, NEW a, NEW d,
         \A u \in Turns : u # t => UsedBy(u, a, d)' = UsedBy(u, a, d)
  PROVE  /\ UsedIn(a, d) \in Int
         /\ UsedIn(a, d)' = UsedIn(a, d) + (UsedBy(t, a, d)' - UsedBy(t, a, d))
<1>1. PICK F : F = [u \in Turns |-> UsedBy(u, a, d)]
  OBVIOUS
<1>2. PICK G : G = [u \in Turns |-> UsedBy(u, a, d)']
  OBVIOUS
<1>3. \A u \in Turns : F[u] \in Int
  BY <1>1, AddsNumbers
<1>4. \A u \in Turns : G[u] \in Int
  <2>1. ASSUME NEW u \in Turns PROVE UsedBy(u, a, d)' \in Nat
    <3>1. answer'[u] # None => answer'[u].tokens \in Nat
      BY ReceiptType DEF IInv, Typed
    <3> QED
      BY <3>1 DEF UsedBy, Measured
  <2> QED
    BY <1>2, <2>1
<1>5. \A u \in Turns : u # t => G[u] = F[u]
  BY <1>1, <1>2
<1>6. Total(F, Turns) \in Int /\ Total(G, Turns) = Total(F, Turns) + (G[t] - F[t])
  BY <1>3, <1>4, <1>5, LimitsAreNumbers, TotalMoves
<1>7. UsedIn(a, d) = Total(F, Turns) /\ UsedIn(a, d)' = Total(G, Turns)
  BY <1>1, <1>2 DEF UsedIn
<1> QED
  BY <1>1, <1>2, <1>6, <1>7

LEMMA TokensMove ==
  ASSUME IInv, LeasesSound, LeasesSound', NEW t \in Turns, NEW a, NEW d,
         \A u \in Turns : u # t => TokensBy(u, a, d)' = TokensBy(u, a, d)
  PROVE  /\ TokensIn(a, d) \in Int
         /\ TokensIn(a, d)' = TokensIn(a, d) + (TokensBy(t, a, d)' - TokensBy(t, a, d))
<1>1. PICK F : F = [u \in Turns |-> TokensBy(u, a, d)]
  OBVIOUS
<1>2. PICK G : G = [u \in Turns |-> TokensBy(u, a, d)']
  OBVIOUS
<1>3. \A u \in Turns : F[u] \in Int
  BY <1>1, AddsNumbers
<1>4. \A u \in Turns : G[u] \in Int
  <2>1. ASSUME NEW u \in Turns PROVE TokensBy(u, a, d)' \in Int
    BY LimitsAreNumbers DEF TokensBy, LeasesSound
  <2> QED
    BY <1>2, <2>1
<1>5. \A u \in Turns : u # t => G[u] = F[u]
  BY <1>1, <1>2
<1>6. Total(F, Turns) \in Int /\ Total(G, Turns) = Total(F, Turns) + (G[t] - F[t])
  BY <1>3, <1>4, <1>5, LimitsAreNumbers, TotalMoves
<1>7. TokensIn(a, d) = Total(F, Turns) /\ TokensIn(a, d)' = Total(G, Turns)
  BY <1>1, <1>2 DEF TokensIn
<1> QED
  BY <1>1, <1>2, <1>6, <1>7

LEMMA BegunMoves ==
  ASSUME NEW t \in Turns, NEW a, NEW d,
         \A u \in Turns : u # t => BegunBy(u, a, d)' = BegunBy(u, a, d)
  PROVE  /\ BegunIn(a, d) \in Int
         /\ BegunIn(a, d)' = BegunIn(a, d) + (BegunBy(t, a, d)' - BegunBy(t, a, d))
<1>1. PICK F : F = [u \in Turns |-> BegunBy(u, a, d)]
  OBVIOUS
<1>2. PICK G : G = [u \in Turns |-> BegunBy(u, a, d)']
  OBVIOUS
<1>3. \A u \in Turns : F[u] \in Int
  BY <1>1 DEF BegunBy
<1>4. \A u \in Turns : G[u] \in Int
  BY <1>2 DEF BegunBy
<1>5. \A u \in Turns : u # t => G[u] = F[u]
  BY <1>1, <1>2
<1>6. Total(F, Turns) \in Int /\ Total(G, Turns) = Total(F, Turns) + (G[t] - F[t])
  BY <1>3, <1>4, <1>5, LimitsAreNumbers, TotalMoves
<1>7. BegunIn(a, d) = Total(F, Turns) /\ BegunIn(a, d)' = Total(G, Turns)
  BY <1>1, <1>2 DEF BegunIn
<1> QED
  BY <1>1, <1>2, <1>6, <1>7

LEMMA LeasedMoves ==
  ASSUME NEW t \in Turns, NEW a, NEW d,
         \A u \in Turns : u # t => LeasedBy(u, a, d)' = LeasedBy(u, a, d)
  PROVE  /\ LeasedIn(a, d) \in Int
         /\ LeasedIn(a, d)' = LeasedIn(a, d) + (LeasedBy(t, a, d)' - LeasedBy(t, a, d))
<1>1. PICK F : F = [u \in Turns |-> LeasedBy(u, a, d)]
  OBVIOUS
<1>2. PICK G : G = [u \in Turns |-> LeasedBy(u, a, d)']
  OBVIOUS
<1>3. \A u \in Turns : F[u] \in Int
  BY <1>1 DEF LeasedBy
<1>4. \A u \in Turns : G[u] \in Int
  BY <1>2 DEF LeasedBy
<1>5. \A u \in Turns : u # t => G[u] = F[u]
  BY <1>1, <1>2
<1>6. Total(F, Turns) \in Int /\ Total(G, Turns) = Total(F, Turns) + (G[t] - F[t])
  BY <1>3, <1>4, <1>5, LimitsAreNumbers, TotalMoves
<1>7. LeasedIn(a, d) = Total(F, Turns) /\ LeasedIn(a, d)' = Total(G, Turns)
  BY <1>1, <1>2 DEF LeasedIn
<1> QED
  BY <1>1, <1>2, <1>6, <1>7

LEMMA HeldStays ==
  ASSUME LeasesSound, UNCHANGED unmeasured, NEW a, NEW d
  PROVE  HeldIn(a, d) \in Int /\ HeldIn(a, d)' = HeldIn(a, d)
<1>1. PICK F : F = [h \in unmeasured |-> HeldBy(h, a, d)]
  OBVIOUS
<1>2. \A h \in unmeasured : F[h] \in Int
  BY <1>1, HoldsAreNumbers
<1>3. Total(F, unmeasured) \in Int
  BY <1>2, TotalInt DEF LeasesSound
<1>4. HeldIn(a, d) = Total(F, unmeasured)
  BY <1>1 DEF HeldIn
<1>5. HeldIn(a, d)' = HeldIn(a, d)
  BY DEF HeldIn, HeldBy
<1> QED
  BY <1>3, <1>4, <1>5

LEMMA HeldGrows ==
  ASSUME LeasesSound, NEW g, g \notin unmeasured, unmeasured' = unmeasured \cup {g},
         NEW a, NEW d, HeldBy(g, a, d) \in Int
  PROVE  HeldIn(a, d) \in Int /\ HeldIn(a, d)' = HeldIn(a, d) + HeldBy(g, a, d)
<1> DEFINE T == unmeasured \cup {g}
<1>1. PICK F : F = [h \in unmeasured |-> HeldBy(h, a, d)]
  OBVIOUS
<1>2. PICK G : G = [h \in T |-> HeldBy(h, a, d)]
  OBVIOUS
<1>3. IsFiniteSet(unmeasured) /\ \A h \in unmeasured : F[h] \in Int /\ G[h] = F[h]
  BY <1>1, <1>2, HoldsAreNumbers DEF LeasesSound
<1>4. G[g] = HeldBy(g, a, d)
  BY <1>2
<1>5. Total(G, T) = G[g] + Total(G, unmeasured)
  BY <1>3, <1>4, TotalWith
<1>6. Total(G, unmeasured) = Total(F, unmeasured) /\ Total(F, unmeasured) \in Int
  BY <1>3, TotalSame, TotalInt
<1>7. HeldIn(a, d) = Total(F, unmeasured)
  BY <1>1 DEF HeldIn
<1>8. HeldIn(a, d)' = Total(G, T)
  BY <1>2 DEF HeldIn, HeldBy
<1> QED
  BY <1>4, <1>5, <1>6, <1>7, <1>8

(* What a charge does to each row.                                          *)
LEMMA ChargeMoves ==
  ASSUME IInv, NEW a0 \in Accounts, NEW d0 \in Days,
         NEW m \in Int, NEW n \in Int, NEW r \in Int, NEW l \in Int,
         Charged(a0, d0, m, n, r, l)
  PROVE  /\ \A a \in Accounts, d \in Days :
              IF a = a0 /\ d = d0
              THEN /\ days'[a][d].used = days[a][d].used + m
                   /\ days'[a][d].reserved = days[a][d].reserved + n
                   /\ days'[a][d].requests = days[a][d].requests + r
                   /\ days'[a][d].leases = days[a][d].leases + l
              ELSE days'[a][d] = days[a][d]
         /\ \A d \in Days :
              IF d = d0
              THEN /\ totals'[d].used = totals[d].used + m
                   /\ totals'[d].reserved = totals[d].reserved + n
                   /\ totals'[d].requests = totals[d].requests + r
                   /\ totals'[d].leases = totals[d].leases + l
              ELSE totals'[d] = totals[d]
<1>1. days \in [Accounts -> [Days -> Rows]] /\ totals \in [Days -> Rows]
  BY DEF IInv, Typed
<1> DEFINE add(row) == [used |-> row.used + m, reserved |-> row.reserved + n,
                        requests |-> row.requests + r, leases |-> row.leases + l]
<1>2. days' = [days EXCEPT ![a0][d0] = add(@)] /\ totals' = [totals EXCEPT ![d0] = add(@)]
  BY DEF Charged
<1>3. \A row : /\ add(row).used = row.used + m /\ add(row).reserved = row.reserved + n
               /\ add(row).requests = row.requests + r /\ add(row).leases = row.leases + l
  OBVIOUS
<1> HIDE DEF add
<1>4. \A a \in Accounts, d \in Days :
        days'[a][d] = IF a = a0 /\ d = d0 THEN add(days[a][d]) ELSE days[a][d]
  BY <1>1, <1>2
<1>5. \A d \in Days : totals'[d] = IF d = d0 THEN add(totals[d]) ELSE totals[d]
  BY <1>1, <1>2
<1> QED
  BY <1>3, <1>4, <1>5

LEMMA RowsAreNumbers ==
  ASSUME IInv
  PROVE  /\ \A a \in Accounts, d \in Days :
              /\ days[a][d].used \in Int /\ days[a][d].reserved \in Int
              /\ days[a][d].requests \in Int /\ days[a][d].leases \in Int
         /\ \A d \in Days :
              /\ totals[d].used \in Int /\ totals[d].reserved \in Int
              /\ totals[d].requests \in Int /\ totals[d].leases \in Int
<1>1. \A row \in Rows : /\ row.used \in Int /\ row.reserved \in Int
                        /\ row.requests \in Int /\ row.leases \in Int
  BY DEF Rows
<1>2. /\ \A a \in Accounts, d \in Days : days[a][d] \in Rows
      /\ \A d \in Days : totals[d] \in Rows
  BY DEF IInv, Typed
<1> QED
  BY <1>1, <1>2

LEMMA RowsStayNumbers ==
  ASSUME IInv'
  PROVE  \A a \in Accounts, d \in Days :
           /\ days'[a][d].used \in Int /\ days'[a][d].reserved \in Int
           /\ days'[a][d].requests \in Int /\ days'[a][d].leases \in Int
<1>1. \A row \in Rows : /\ row.used \in Int /\ row.reserved \in Int
                        /\ row.requests \in Int /\ row.leases \in Int
  BY DEF Rows
<1>2. \A a \in Accounts, d \in Days : days'[a][d] \in Rows
  BY DEF IInv, Typed
<1> QED
  BY <1>1, <1>2

LEMMA AccountsMove ==
  ASSUME NEW F, NEW G, NEW a0 \in Accounts, IsFiniteSet(Accounts),
         \A a \in Accounts : F[a] \in Int,
         \A a \in Accounts : G[a] \in Int,
         \A a \in Accounts : a # a0 => G[a] = F[a]
  PROVE  Total(F, Accounts) \in Int /\ Total(G, Accounts) = Total(F, Accounts) + (G[a0] - F[a0])
<1>1. \A a \in Accounts : F[a] \in Int /\ G[a] \in Int
  OBVIOUS
<1> QED
  BY <1>1, TotalMoves

(* A day's row moves with the row it is the sum of.                         *)
LEMMA TotalsMove ==
  ASSUME NEW f \in Fields, NEW a0 \in Accounts, NEW d \in Days,
         \A a \in Accounts : days[a][d][f] \in Int /\ days'[a][d][f] \in Int,
         \A a \in Accounts : a # a0 => days'[a][d][f] = days[a][d][f]
  PROVE  /\ AllOf(f, d) \in Int
         /\ AllOf(f, d)' = AllOf(f, d) + (days'[a0][d][f] - days[a0][d][f])
<1>1. PICK F : F = [a \in Accounts |-> days[a][d][f]]
  OBVIOUS
<1>2. PICK G : G = [a \in Accounts |-> days'[a][d][f]]
  OBVIOUS
<1>3. \A a \in Accounts : F[a] \in Int
  BY <1>1
<1>4. \A a \in Accounts : G[a] \in Int
  BY <1>2
<1>5. \A a \in Accounts : a # a0 => G[a] = F[a]
  BY <1>1, <1>2
<1>6. Total(F, Accounts) \in Int /\ Total(G, Accounts) = Total(F, Accounts) + (G[a0] - F[a0])
  <2>1. IsFiniteSet(Accounts)
    BY LimitsAreNumbers
  <2> QED
    BY <1>3, <1>4, <1>5, <2>1, AccountsMove
<1>7. AllOf(f, d) = Total(F, Accounts) /\ AllOf(f, d)' = Total(G, Accounts)
  BY <1>1, <1>2 DEF AllOf
<1> QED
  BY <1>1, <1>2, <1>6, <1>7

(* A turn whose lease, answer and hold are as they were adds what it did.   *)
SameLease(u) ==
  /\ lease'[u].account = lease[u].account /\ lease'[u].day = lease[u].day
  /\ lease'[u].step = lease[u].step /\ lease'[u].tokens = lease[u].tokens
  /\ (lease'[u].state = "none") <=> (lease[u].state = "none")

LEMMA SameAdds ==
  ASSUME NEW u \in Turns, SameLease(u), (u \in asked') <=> (u \in asked),
         answer'[u] = answer[u],
         (\E h \in unmeasured' : h.turn = u) <=> (\E h \in unmeasured : h.turn = u),
         NEW a, NEW d
  PROVE  /\ UsedBy(u, a, d)' = UsedBy(u, a, d) /\ TokensBy(u, a, d)' = TokensBy(u, a, d)
         /\ BegunBy(u, a, d)' = BegunBy(u, a, d) /\ LeasedBy(u, a, d)' = LeasedBy(u, a, d)
<1>1. Mine(u, a, d)' <=> Mine(u, a, d)
  BY DEF Mine, SameLease
<1>2. (Counted(u)' <=> Counted(u)) /\ (Begun(u)' <=> Begun(u))
  BY DEF Counted, Begun, SameLease
<1>3. Measured(u)' <=> Measured(u)
  BY DEF Measured
<1> QED
  BY <1>1, <1>2, <1>3 DEF UsedBy, TokensBy, BegunBy, LeasedBy, SameLease

(* What one turn adds more, and what is held more; the others add the same. *)
AddsMore(t, a0, d0, m, p, r, l, k) ==
  \A a \in Accounts, d \in Days :
    /\ UsedBy(t, a, d)' = UsedBy(t, a, d) + (IF a = a0 /\ d = d0 THEN m ELSE 0)
    /\ TokensBy(t, a, d)' = TokensBy(t, a, d) + (IF a = a0 /\ d = d0 THEN p ELSE 0)
    /\ BegunBy(t, a, d)' = BegunBy(t, a, d) + (IF a = a0 /\ d = d0 THEN r ELSE 0)
    /\ LeasedBy(t, a, d)' = LeasedBy(t, a, d) + (IF a = a0 /\ d = d0 THEN l ELSE 0)
    /\ HeldIn(a, d) \in Int
    /\ HeldIn(a, d)' = HeldIn(a, d) + (IF a = a0 /\ d = d0 THEN k ELSE 0)

OthersAdd(t) ==
  \A u \in Turns : u # t =>
    /\ SameLease(u) /\ ((u \in asked') <=> (u \in asked)) /\ answer'[u] = answer[u]
    /\ (\E h \in unmeasured' : h.turn = u) <=> (\E h \in unmeasured : h.turn = u)

(* One turn's step, with what it charges and what it holds.                 *)
LEMMA ChargeSums ==
  ASSUME IInv, IInv', LeasesSound, LeasesSound', Summed, Totalled,
         NEW t \in Turns, NEW a0 \in Accounts, NEW d0 \in Days,
         NEW m \in Int, NEW n \in Int, NEW r \in Int, NEW l \in Int, NEW p \in Int, NEW k \in Int,
         n = p + k, Charged(a0, d0, m, n, r, l), OthersAdd(t), AddsMore(t, a0, d0, m, p, r, l, k)
  PROVE  Summed' /\ Totalled'
<1>1. /\ \A a \in Accounts, d \in Days :
              IF a = a0 /\ d = d0
              THEN /\ days'[a][d].used = days[a][d].used + m
                   /\ days'[a][d].reserved = days[a][d].reserved + n
                   /\ days'[a][d].requests = days[a][d].requests + r
                   /\ days'[a][d].leases = days[a][d].leases + l
              ELSE days'[a][d] = days[a][d]
      /\ \A d \in Days :
              IF d = d0
              THEN /\ totals'[d].used = totals[d].used + m
                   /\ totals'[d].reserved = totals[d].reserved + n
                   /\ totals'[d].requests = totals[d].requests + r
                   /\ totals'[d].leases = totals[d].leases + l
              ELSE totals'[d] = totals[d]
  BY ChargeMoves
<1>2. Summed'
  <2> SUFFICES ASSUME NEW a \in Accounts, NEW d \in Days
               PROVE  /\ days'[a][d].used = UsedIn(a, d)'
                      /\ days'[a][d].reserved = TokensIn(a, d)' + HeldIn(a, d)'
                      /\ days'[a][d].requests = BegunIn(a, d)'
                      /\ days'[a][d].leases = LeasedIn(a, d)'
    BY DEF Summed
  <2>1. \A u \in Turns : u # t =>
          /\ UsedBy(u, a, d)' = UsedBy(u, a, d) /\ TokensBy(u, a, d)' = TokensBy(u, a, d)
          /\ BegunBy(u, a, d)' = BegunBy(u, a, d) /\ LeasedBy(u, a, d)' = LeasedBy(u, a, d)
    BY SameAdds DEF OthersAdd
  <2>2. UsedIn(a, d) \in Int /\ UsedIn(a, d)' = UsedIn(a, d) + (UsedBy(t, a, d)' - UsedBy(t, a, d))
    BY <2>1, UsedMoves
  <2>3. /\ TokensIn(a, d) \in Int
        /\ TokensIn(a, d)' = TokensIn(a, d) + (TokensBy(t, a, d)' - TokensBy(t, a, d))
    BY <2>1, TokensMove
  <2>4. /\ BegunIn(a, d) \in Int
        /\ BegunIn(a, d)' = BegunIn(a, d) + (BegunBy(t, a, d)' - BegunBy(t, a, d))
    BY <2>1, BegunMoves
  <2>5. /\ LeasedIn(a, d) \in Int
        /\ LeasedIn(a, d)' = LeasedIn(a, d) + (LeasedBy(t, a, d)' - LeasedBy(t, a, d))
    BY <2>1, LeasedMoves
  <2>6. /\ UsedBy(t, a, d) \in Int /\ TokensBy(t, a, d) \in Int
        /\ BegunBy(t, a, d) \in Int /\ LeasedBy(t, a, d) \in Int
    BY AddsNumbers
  <2>7. /\ days[a][d].used = UsedIn(a, d) /\ days[a][d].reserved = TokensIn(a, d) + HeldIn(a, d)
        /\ days[a][d].requests = BegunIn(a, d) /\ days[a][d].leases = LeasedIn(a, d)
    BY DEF Summed
  <2>8. CASE a = a0 /\ d = d0
    <3>1. /\ UsedBy(t, a, d)' = UsedBy(t, a, d) + m /\ TokensBy(t, a, d)' = TokensBy(t, a, d) + p
          /\ BegunBy(t, a, d)' = BegunBy(t, a, d) + r /\ LeasedBy(t, a, d)' = LeasedBy(t, a, d) + l
          /\ HeldIn(a, d) \in Int /\ HeldIn(a, d)' = HeldIn(a, d) + k
      BY <2>8 DEF AddsMore
    <3>2. /\ days'[a][d].used = days[a][d].used + m
          /\ days'[a][d].reserved = days[a][d].reserved + n
          /\ days'[a][d].requests = days[a][d].requests + r
          /\ days'[a][d].leases = days[a][d].leases + l
      BY <1>1, <2>8
    <3> QED
      BY <2>2, <2>3, <2>4, <2>5, <2>6, <2>7, <3>1, <3>2
  <2>9. CASE ~(a = a0 /\ d = d0)
    <3>1. /\ UsedBy(t, a, d)' = UsedBy(t, a, d) + 0 /\ TokensBy(t, a, d)' = TokensBy(t, a, d) + 0
          /\ BegunBy(t, a, d)' = BegunBy(t, a, d) + 0 /\ LeasedBy(t, a, d)' = LeasedBy(t, a, d) + 0
          /\ HeldIn(a, d) \in Int /\ HeldIn(a, d)' = HeldIn(a, d) + 0
      BY <2>9 DEF AddsMore
    <3>2. days'[a][d] = days[a][d]
      BY <1>1, <2>9
    <3> QED
      BY <2>2, <2>3, <2>4, <2>5, <2>6, <2>7, <3>1, <3>2
  <2> QED
    BY <2>8, <2>9
<1>3. Totalled'
  <2> SUFFICES ASSUME NEW d \in Days
               PROVE  /\ totals'[d].used = AllOf("used", d)'
                      /\ totals'[d].reserved = AllOf("reserved", d)'
                      /\ totals'[d].requests = AllOf("requests", d)'
                      /\ totals'[d].leases = AllOf("leases", d)'
    BY DEF Totalled, Fields
  <2>1. /\ totals[d].used = AllOf("used", d) /\ totals[d].reserved = AllOf("reserved", d)
        /\ totals[d].requests = AllOf("requests", d) /\ totals[d].leases = AllOf("leases", d)
    BY DEF Totalled, Fields
  <2>2. \A a \in Accounts :
          /\ days[a][d].used \in Int /\ days[a][d].reserved \in Int
          /\ days[a][d].requests \in Int /\ days[a][d].leases \in Int
          /\ days'[a][d].used \in Int /\ days'[a][d].reserved \in Int
          /\ days'[a][d].requests \in Int /\ days'[a][d].leases \in Int
    BY RowsAreNumbers, RowsStayNumbers
  <2>3. totals'[d].used = AllOf("used", d)'
    <3>1. PICK f \in Fields : f = "used"
      BY DEF Fields
    <3>2. /\ \A a \in Accounts : days[a][d][f] \in Int /\ days'[a][d][f] \in Int
          /\ \A a \in Accounts : a # a0 => days'[a][d][f] = days[a][d][f]
          /\ days'[a0][d][f] = IF d = d0 THEN days[a0][d][f] + m ELSE days[a0][d][f]
          /\ totals[d][f] = AllOf(f, d)
          /\ totals'[d][f] = IF d = d0 THEN totals[d][f] + m ELSE totals[d][f]
      BY <1>1, <2>1, <2>2, <3>1
    <3>3. /\ AllOf(f, d) \in Int
          /\ AllOf(f, d)' = AllOf(f, d) + (days'[a0][d][f] - days[a0][d][f])
      BY <3>2, TotalsMove
    <3>4. totals'[d][f] = AllOf(f, d)'
      BY <3>2, <3>3
    <3> QED
      BY <3>1, <3>4
  <2>4. totals'[d].reserved = AllOf("reserved", d)'
    <3>1. PICK f \in Fields : f = "reserved"
      BY DEF Fields
    <3>2. /\ \A a \in Accounts : days[a][d][f] \in Int /\ days'[a][d][f] \in Int
          /\ \A a \in Accounts : a # a0 => days'[a][d][f] = days[a][d][f]
          /\ days'[a0][d][f] = IF d = d0 THEN days[a0][d][f] + n ELSE days[a0][d][f]
          /\ totals[d][f] = AllOf(f, d)
          /\ totals'[d][f] = IF d = d0 THEN totals[d][f] + n ELSE totals[d][f]
      BY <1>1, <2>1, <2>2, <3>1
    <3>3. /\ AllOf(f, d) \in Int
          /\ AllOf(f, d)' = AllOf(f, d) + (days'[a0][d][f] - days[a0][d][f])
      BY <3>2, TotalsMove
    <3>4. totals'[d][f] = AllOf(f, d)'
      BY <3>2, <3>3
    <3> QED
      BY <3>1, <3>4
  <2>5. totals'[d].requests = AllOf("requests", d)'
    <3>1. PICK f \in Fields : f = "requests"
      BY DEF Fields
    <3>2. /\ \A a \in Accounts : days[a][d][f] \in Int /\ days'[a][d][f] \in Int
          /\ \A a \in Accounts : a # a0 => days'[a][d][f] = days[a][d][f]
          /\ days'[a0][d][f] = IF d = d0 THEN days[a0][d][f] + r ELSE days[a0][d][f]
          /\ totals[d][f] = AllOf(f, d)
          /\ totals'[d][f] = IF d = d0 THEN totals[d][f] + r ELSE totals[d][f]
      BY <1>1, <2>1, <2>2, <3>1
    <3>3. /\ AllOf(f, d) \in Int
          /\ AllOf(f, d)' = AllOf(f, d) + (days'[a0][d][f] - days[a0][d][f])
      BY <3>2, TotalsMove
    <3>4. totals'[d][f] = AllOf(f, d)'
      BY <3>2, <3>3
    <3> QED
      BY <3>1, <3>4
  <2>6. totals'[d].leases = AllOf("leases", d)'
    <3>1. PICK f \in Fields : f = "leases"
      BY DEF Fields
    <3>2. /\ \A a \in Accounts : days[a][d][f] \in Int /\ days'[a][d][f] \in Int
          /\ \A a \in Accounts : a # a0 => days'[a][d][f] = days[a][d][f]
          /\ days'[a0][d][f] = IF d = d0 THEN days[a0][d][f] + l ELSE days[a0][d][f]
          /\ totals[d][f] = AllOf(f, d)
          /\ totals'[d][f] = IF d = d0 THEN totals[d][f] + l ELSE totals[d][f]
      BY <1>1, <2>1, <2>2, <3>1
    <3>3. /\ AllOf(f, d) \in Int
          /\ AllOf(f, d)' = AllOf(f, d) + (days'[a0][d][f] - days[a0][d][f])
      BY <3>2, TotalsMove
    <3>4. totals'[d][f] = AllOf(f, d)'
      BY <3>2, <3>3
    <3> QED
      BY <3>1, <3>4
  <2> QED
    BY <2>3, <2>4, <2>5, <2>6
<1> QED
  BY <1>2, <1>3


-----------------------------------------------------------------------------
(* Steps that charge nothing leave every sum as it was.                     *)
Quiet ==
  /\ UNCHANGED <<days, totals, unmeasured, account>>
  /\ \A u \in Turns :
       /\ SameLease(u)
       /\ Counted(u)' <=> Counted(u)
       /\ Counted(u) => answer'[u] = answer[u]
       /\ pc'[u] \in {"admitted", "unstarted"} => lease[u].state # "none"
       /\ worker'[u] = "running" \/ answer'[u] # None => u \in asked'

LEMMA QuietAdds ==
  ASSUME Quiet, NEW u \in Turns, NEW a, NEW d
  PROVE  /\ UsedBy(u, a, d)' = UsedBy(u, a, d) /\ TokensBy(u, a, d)' = TokensBy(u, a, d)
         /\ BegunBy(u, a, d)' = BegunBy(u, a, d) /\ LeasedBy(u, a, d)' = LeasedBy(u, a, d)
<1>1. SameLease(u) /\ UNCHANGED unmeasured
  BY DEF Quiet
<1>2. Mine(u, a, d)' <=> Mine(u, a, d)
  BY <1>1 DEF Mine, SameLease
<1>3. (Counted(u)' <=> Counted(u)) /\ (Counted(u) => answer'[u] = answer[u])
  BY DEF Quiet
<1>4. Begun(u)' <=> Begun(u)
  BY <1>1, <1>3 DEF Begun, SameLease
<1>5. Counted(u) => (Measured(u)' <=> Measured(u))
  BY <1>1, <1>3 DEF Measured
<1> QED
  BY <1>1, <1>2, <1>3, <1>4, <1>5 DEF UsedBy, TokensBy, BegunBy, LeasedBy, SameLease

LEMMA QuietBooks ==
  ASSUME BooksInv, Quiet
  PROVE  BooksInv'
<1>1. /\ UNCHANGED <<days, totals, unmeasured, account>>
      /\ \A u \in Turns : SameLease(u)
  BY DEF Quiet
<1>2. LeasesSound'
  <2>1. ASSUME NEW t \in Turns
        PROVE  /\ lease'[t].state = "none" => lease'[t].step = "none" /\ lease'[t].account = None
               /\ lease'[t].state # "none" => lease'[t].account = account'[t]
               /\ IF lease'[t].step = "active" THEN lease'[t].tokens \in 1..TOKENS
                  ELSE lease'[t].tokens = 0
               /\ pc'[t] \in {"admitted", "unstarted"} => lease'[t].state # "none"
               /\ worker'[t] = "running" \/ answer'[t] # None => t \in asked'
    BY <1>1 DEF Quiet, BooksInv, LeasesSound, SameLease
  <2>2. /\ IsFiniteSet(unmeasured)'
        /\ \A h \in unmeasured' :
             /\ h.turn \in Turns /\ h.account \in Accounts /\ h.day \in Days
             /\ h.held \in Nat /\ h.known \in Nat
             /\ lease'[h.turn].step = "ended"
    BY <1>1 DEF BooksInv, LeasesSound, SameLease
  <2> QED
    BY <2>1, <2>2 DEF LeasesSound
<1>3. ASSUME NEW a, NEW d
      PROVE  /\ UsedIn(a, d)' = UsedIn(a, d) /\ TokensIn(a, d)' = TokensIn(a, d)
             /\ BegunIn(a, d)' = BegunIn(a, d) /\ LeasedIn(a, d)' = LeasedIn(a, d)
             /\ HeldIn(a, d)' = HeldIn(a, d)
  <2>1. /\ [u \in Turns |-> UsedBy(u, a, d)'] = [u \in Turns |-> UsedBy(u, a, d)]
        /\ [u \in Turns |-> TokensBy(u, a, d)'] = [u \in Turns |-> TokensBy(u, a, d)]
        /\ [u \in Turns |-> BegunBy(u, a, d)'] = [u \in Turns |-> BegunBy(u, a, d)]
        /\ [u \in Turns |-> LeasedBy(u, a, d)'] = [u \in Turns |-> LeasedBy(u, a, d)]
    BY QuietAdds
  <2>2. HeldIn(a, d)' = HeldIn(a, d)
    BY <1>1 DEF HeldIn, HeldBy
  <2> QED
    BY <2>1, <2>2 DEF UsedIn, TokensIn, BegunIn, LeasedIn
<1>4. Summed'
  BY <1>1, <1>3 DEF BooksInv, Summed
<1>5. Totalled'
  BY <1>1 DEF BooksInv, Totalled, AllOf
<1>6. \A a, d : UnderWay(a, d)' <=> UnderWay(a, d)
  BY <1>1 DEF UnderWay, Mine, SameLease
<1>7. Allowed'
  BY <1>1, <1>6 DEF BooksInv, Allowed, Kept, Runtime, NotPassed
<1> QED
  BY <1>2, <1>4, <1>5, <1>7 DEF BooksInv

LEMMA SweptSame ==
  ASSUME IInv, NEW u \in Turns, lease'[u] = Swept[u]
  PROVE  SameLease(u) /\ (Swept[u].state # "none" <=> lease[u].state # "none")
BY SweepMoves DEF SameLease, Live

LEMMA QuietWhen ==
  ASSUME LeasesSound, UNCHANGED <<days, totals, unmeasured, account, asked, answer>>,
         \A u \in Turns :
           /\ SameLease(u)
           /\ pc'[u] \in {"admitted", "unstarted"} => lease[u].state # "none"
           /\ worker'[u] = "running" => worker[u] = "running"
  PROVE  Quiet
<1>1. ASSUME NEW u \in Turns
      PROVE  /\ Counted(u)' <=> Counted(u)
             /\ Counted(u) => answer'[u] = answer[u]
             /\ worker'[u] = "running" \/ answer'[u] # None => u \in asked'
  BY DEF Counted, SameLease, LeasesSound
<1> QED
  BY <1>1 DEF Quiet

LEMMA LeaseStays ==
  ASSUME LeasesSound, UNCHANGED <<days, totals, unmeasured, account, asked, answer, lease>>,
         \A u \in Turns :
           /\ pc'[u] \in {"admitted", "unstarted"} => pc'[u] = pc[u]
           /\ worker'[u] = "running" => worker[u] = "running"
  PROVE  Quiet
<1>1. \A u \in Turns : SameLease(u)
  BY DEF SameLease
<1>2. \A u \in Turns : pc'[u] \in {"admitted", "unstarted"} => lease[u].state # "none"
  BY DEF LeasesSound
<1> QED
  BY <1>1, <1>2, QuietWhen

(* Threads that leave the ledger alone, and the world outside.              *)
LEMMA AwayIsQuiet ==
  ASSUME IInv, LeasesSound,
         \/ \E t \in Turns : \/ ThreadOnly(t) \/ prepare(t)
                             \/ worker_leaves(t) \/ worker_dies(t) \/ agent_ends(t)
         \/ \E a \in Accounts : revoke(a)
         \/ Restart \/ Advance \/ Regress \/ UNCHANGED vars
  PROVE  Quiet
<1>0. pc \in [Turns -> Phases] /\ worker \in [Turns -> {"none", "ready", "running", "gone"}]
  BY DEF IInv, Typed
<1>1. ASSUME NEW t \in Turns, ThreadOnly(t) PROVE Quiet
  <2>1. /\ UNCHANGED <<days, totals, unmeasured, account, asked, answer, lease, worker>>
        /\ \A u \in Turns : pc'[u] \in {"admitted", "unstarted"} => pc'[u] = pc[u]
    BY <1>0, <1>1 DEF ThreadOnly, readiness_lock, prepare_fails, _receipt, perform_fails,
       settlement_fails, Over, Goto, ledgerVars, workerVars
  <2> QED
    BY <2>1, LeaseStays
<1>2. ASSUME NEW t \in Turns, prepare(t) PROVE Quiet
  <2>1. /\ UNCHANGED <<days, totals, unmeasured, account, asked, answer, lease>>
        /\ \A u \in Turns : /\ pc'[u] \in {"admitted", "unstarted"} => pc'[u] = pc[u]
                            /\ worker'[u] = "running" => worker[u] = "running"
    BY <1>0, <1>2 DEF prepare, Goto, ledgerVars
  <2> QED
    BY <2>1, LeaseStays
<1>3. ASSUME NEW t \in Turns, worker_leaves(t) \/ worker_dies(t) \/ agent_ends(t) PROVE Quiet
  <2>1. /\ UNCHANGED <<days, totals, unmeasured, account, asked, answer, lease, pc>>
        /\ \A u \in Turns : worker'[u] = "running" => worker[u] = "running"
    BY <1>0, <1>3 DEF worker_leaves, worker_dies, agent_ends, ledgerVars, threadVars
  <2> QED
    BY <2>1, LeaseStays
<1>4. ASSUME (\E a \in Accounts : revoke(a)) \/ Restart \/ Advance \/ Regress \/ UNCHANGED vars
      PROVE  Quiet
  <2>1. /\ UNCHANGED <<days, totals, unmeasured, account, asked, answer, lease, worker>>
        /\ \A u \in Turns : pc'[u] \in {"admitted", "unstarted"} => pc'[u] = pc[u]
    BY <1>0, <1>4 DEF revoke, Restart, Advance, Regress, vars, ledgerVars, threadVars, workerVars
  <2> QED
    BY <2>1, LeaseStays
<1> QED
  BY <1>1, <1>2, <1>3, <1>4

(* The sweep alone, or with a lease that is closed, cancelled or kept.      *)
LEMMA LedgerIsQuiet ==
  ASSUME IInv, LeasesSound,
         \/ Look \/ pause
         \/ \E t \in Turns : allowance(t) \/ _active(t) \/ close(t) \/ cancel(t)
  PROVE  Quiet
<1>0. pc \in [Turns -> Phases] /\ Swept \in [Turns -> Sessions]
  BY SweepMoves DEF IInv, Typed
<1>1. ASSUME Look \/ pause PROVE Quiet
  <2>1. /\ UNCHANGED <<days, totals, unmeasured, account, asked, answer, pc, worker>>
        /\ lease' = Swept
    BY <1>1 DEF Look, pause, Ticked, threadVars, workerVars
  <2> QED
    BY <2>1, SweptSame, QuietWhen DEF LeasesSound
<1>2. ASSUME NEW t \in Turns, allowance(t) \/ _active(t) PROVE Quiet
  <2>1. /\ UNCHANGED <<days, totals, unmeasured, account, asked, answer, worker>>
        /\ lease' = Swept
        /\ \A u \in Turns : pc'[u] \in {"admitted", "unstarted"} => pc'[u] = pc[u]
    BY <1>0, <1>2 DEF allowance, _active, Over, Goto, Ticked, workerVars
  <2> QED
    BY <2>1, SweptSame, QuietWhen DEF LeasesSound
<1>3. ASSUME NEW t \in Turns, close(t) \/ cancel(t) PROVE Quiet
  <2>1. /\ UNCHANGED <<days, totals, unmeasured, account, asked, answer, worker>>
        /\ \A u \in Turns : pc'[u] \in {"admitted", "unstarted"} => pc'[u] = pc[u]
        /\ \/ lease' = Swept
           \/ lease' = [Swept EXCEPT ![t].state = "closed"]
           \/ lease' = [Swept EXCEPT ![t].state = "closing"]
    BY <1>0, <1>3 DEF close, cancel, Closed, Over, Goto, workerVars, threadVars
  <2>2. lease[t].state # "none"
    BY <1>3 DEF close, cancel, LeasesSound, IInv, Phase
  <2>3. \A u \in Turns : u # t => lease'[u] = Swept[u]
    BY <1>0, <2>1
  <2>4. SameLease(t)
    <3>1. CASE lease' = Swept
      BY <3>1, SweptSame
    <3>2. CASE lease' # Swept
      <4>1. /\ lease'[t].account = Swept[t].account /\ lease'[t].day = Swept[t].day
            /\ lease'[t].step = Swept[t].step /\ lease'[t].tokens = Swept[t].tokens
            /\ lease'[t].state \in {"closed", "closing"}
        BY <1>0, <2>1, <3>2 DEF Sessions
      <4> QED
        BY <2>2, <4>1, SweepMoves DEF SameLease
    <3> QED
      BY <3>1, <3>2
  <2>5. \A u \in Turns : SameLease(u)
    BY <2>3, <2>4, SweptSame
  <2> QED
    BY <2>1, <2>5, QuietWhen DEF LeasesSound
<1> QED
  BY <1>1, <1>2, <1>3

(* The request goes out, and the worker's work.                             *)
LEMMA WorkIsQuiet ==
  ASSUME IInv, LeasesSound, NEW t \in Turns,
         _send_request(t) \/ work_begins(t) \/ work_ends(t)
  PROVE  Quiet
<1>0. /\ pc \in [Turns -> Phases] /\ worker \in [Turns -> {"none", "ready", "running", "gone"}]
      /\ answer \in [Turns -> Receipts \cup {None}] /\ asked \subseteq Turns
  BY DEF IInv, Typed
<1>1. /\ UNCHANGED <<days, totals, unmeasured, account, lease>>
      /\ \A u \in Turns : SameLease(u)
  BY DEF _send_request, work_begins, work_ends, SameLease, ledgerVars, threadVars
<1>2. CASE _send_request(t)
  <2>1. /\ UNCHANGED <<worker, answer>> /\ asked' = asked \cup {t} /\ pc' = [pc EXCEPT ![t] = "sent"]
        /\ lease[t].step = "active"
    BY <1>2 DEF _send_request, Goto, IInv, Phase
  <2>2. \A u \in Turns : /\ Counted(u)' <=> Counted(u)
                         /\ pc'[u] \in {"admitted", "unstarted"} => lease[u].state # "none"
                         /\ worker'[u] = "running" \/ answer'[u] # None => u \in asked'
    BY <1>0, <1>1, <2>1 DEF Counted, LeasesSound
  <2> QED
    BY <1>1, <2>1, <2>2 DEF Quiet
<1>3. CASE work_begins(t)
  <2>1. /\ UNCHANGED <<asked, answer, pc>> /\ t \in asked /\ worker' = [worker EXCEPT ![t] = "running"]
    BY <1>3 DEF work_begins, threadVars
  <2>2. \A u \in Turns : /\ Counted(u)' <=> Counted(u)
                         /\ pc'[u] \in {"admitted", "unstarted"} => lease[u].state # "none"
                         /\ worker'[u] = "running" \/ answer'[u] # None => u \in asked'
    BY <1>0, <1>1, <2>1 DEF Counted, LeasesSound
  <2> QED
    BY <1>1, <2>1, <2>2 DEF Quiet
<1>4. CASE work_ends(t)
  <2>1. PICK r \in Receipts : /\ worker[t] = "running" /\ worker' = [worker EXCEPT ![t] = "gone"]
                              /\ answer' = [answer EXCEPT ![t] = r]
    BY <1>4 DEF work_ends
  <2>2. UNCHANGED <<asked, pc>>
    BY <1>4 DEF work_ends, threadVars
  <2>3. t \in asked /\ ~Counted(t)
    <3>1. t \in asked
      BY <2>1 DEF LeasesSound
    <3>2. answer[t] = None
      BY <2>1 DEF IInv, Phase
    <3> QED
      BY <3>1, <3>2 DEF Counted, IInv, EveryTurnAccounted, Accounted
  <2>4. \A u \in Turns : /\ Counted(u)' <=> Counted(u)
                         /\ pc'[u] \in {"admitted", "unstarted"} => lease[u].state # "none"
                         /\ worker'[u] = "running" \/ answer'[u] # None => u \in asked'
                         /\ Counted(u) => answer'[u] = answer[u]
    BY <1>0, <1>1, <2>1, <2>2, <2>3 DEF Counted, LeasesSound
  <2> QED
    BY <1>1, <2>4 DEF Quiet
<1> QED
  BY <1>2, <1>3, <1>4

(* A lease that is refused, a step that is, and a settlement that settles   *)
(* nothing.                                                                 *)
LEMMA RefusedIsQuiet ==
  ASSUME IInv, LeasesSound, NEW t \in Turns,
         \/ admit(t) /\ UNCHANGED <<days, totals>> /\ lease' = Swept
         \/ start_step(t) /\ UNCHANGED <<days, totals>> /\ lease' = Swept
         \/ finish_step(t) /\ finish_unknown(t)
  PROVE  Quiet
<1>0. pc \in [Turns -> Phases] /\ Swept \in [Turns -> Sessions]
  BY SweepMoves DEF IInv, Typed
<1>1. CASE admit(t) /\ UNCHANGED <<days, totals>> /\ lease' = Swept
  <2>1. /\ UNCHANGED <<days, totals, unmeasured, account, asked, answer, worker>>
        /\ lease' = Swept
    BY <1>1 DEF admit, workerVars
  <2>2. lease[t].state = "none"
    BY <1>1 DEF admit, IInv, Phase
  <2>3. lease'[t].state # "open"
    BY <2>1, <2>2, SweepMoves DEF Live
  <2>4. pc' = [pc EXCEPT ![t] = "over"]
    <3>1. CASE lease' = Swept /\ Over(t)
      BY <3>1 DEF Over, Goto
    <3>2. CASE lease' = [Swept EXCEPT ![t] = [state |-> "open", account |-> account[t],
                            day |-> DayOf(Now), expires |-> Min2(Now + Lease, (DayOf(Now) + 1) * Day),
                            step |-> "none", deadline |-> 0, tokens |-> 0]]
      BY <1>0, <2>3, <3>2
    <3> QED
      BY <1>1, <3>1, <3>2 DEF admit
  <2> QED
    BY <1>0, <2>1, <2>4, SweptSame, QuietWhen DEF LeasesSound
<1>2. CASE start_step(t) /\ UNCHANGED <<days, totals>> /\ lease' = Swept
  <2>1. /\ UNCHANGED <<days, totals, unmeasured, account, asked, answer, worker>>
        /\ lease' = Swept /\ pc[t] = "admitted"
        /\ \A u \in Turns : pc'[u] = pc[u] \/ u = t
    BY <1>0, <1>2 DEF start_step, Goto, workerVars
  <2>2. lease[t].state # "none"
    BY <2>1 DEF LeasesSound
  <2> QED
    BY <2>1, <2>2, SweptSame, QuietWhen DEF LeasesSound
<1>3. CASE finish_step(t) /\ finish_unknown(t)
  <2>1. /\ UNCHANGED <<days, totals, unmeasured, account, asked, answer, worker>>
        /\ lease' = [Swept EXCEPT ![t].state = "closing"]
        /\ pc' = [pc EXCEPT ![t] = "over"] /\ pc[t] = "unsettled"
    BY <1>3 DEF finish_step, finish_unknown, Over, Goto, workerVars
  <2>2. lease[t].state # "none"
    BY <2>1 DEF IInv, Phase, LeasesSound
  <2>3. /\ \A u \in Turns : u # t => lease'[u] = Swept[u]
        /\ lease'[t].account = Swept[t].account /\ lease'[t].day = Swept[t].day
        /\ lease'[t].step = Swept[t].step /\ lease'[t].tokens = Swept[t].tokens
        /\ lease'[t].state = "closing"
    BY <1>0, <2>1 DEF Sessions
  <2>4. SameLease(t)
    BY <2>2, <2>3, SweepMoves DEF SameLease
  <2>5. \A u \in Turns : SameLease(u)
    BY <2>3, <2>4, SweptSame
  <2> QED
    BY <1>0, <2>1, <2>5, QuietWhen DEF LeasesSound
<1> QED
  BY <1>1, <1>2, <1>3

-----------------------------------------------------------------------------
(* Steps that charge a row.                                                 *)

(* What a step about one turn leaves as it was of the others.               *)
Others(t) ==
  /\ UNCHANGED <<account, asked, worker, answer>>
  /\ \A u \in Turns : u # t => SameLease(u) /\ pc'[u] = pc[u]

LEMMA LeasesKept ==
  ASSUME LeasesSound, NEW t \in Turns, Others(t),
         lease'[t].state # "none", lease'[t].account = account[t],
         IF lease'[t].step = "active" THEN lease'[t].tokens \in 1..TOKENS ELSE lease'[t].tokens = 0,
         lease[t].step = "ended" => lease'[t].step = "ended",
         IsFiniteSet(unmeasured'),
         \A h \in unmeasured' : \/ h \in unmeasured
                                \/ /\ h.turn = t /\ h.account \in Accounts /\ h.day \in Days
                                   /\ h.held \in Nat /\ h.known \in Nat
                                   /\ lease'[t].step = "ended"
  PROVE  LeasesSound'
<1>1. ASSUME NEW u \in Turns
      PROVE  /\ lease'[u].state = "none" => lease'[u].step = "none" /\ lease'[u].account = None
             /\ lease'[u].state # "none" => lease'[u].account = account'[u]
             /\ IF lease'[u].step = "active" THEN lease'[u].tokens \in 1..TOKENS
                ELSE lease'[u].tokens = 0
             /\ pc'[u] \in {"admitted", "unstarted"} => lease'[u].state # "none"
             /\ worker'[u] = "running" \/ answer'[u] # None => u \in asked'
  <2>1. CASE u = t
    BY <2>1 DEF Others, LeasesSound
  <2>2. CASE u # t
    BY <2>2 DEF Others, LeasesSound, SameLease
  <2> QED
    BY <2>1, <2>2
<1>2. ASSUME NEW h \in unmeasured'
      PROVE  /\ h.turn \in Turns /\ h.account \in Accounts /\ h.day \in Days
             /\ h.held \in Nat /\ h.known \in Nat
             /\ lease'[h.turn].step = "ended"
  <2>1. CASE h \in unmeasured
    <3>1. /\ h.turn \in Turns /\ h.account \in Accounts /\ h.day \in Days
          /\ h.held \in Nat /\ h.known \in Nat /\ lease[h.turn].step = "ended"
      BY <2>1 DEF LeasesSound
    <3>2. lease'[h.turn].step = "ended"
      BY <3>1 DEF Others, SameLease
    <3> QED
      BY <3>1, <3>2
  <2>2. CASE h \notin unmeasured
    BY <1>2, <2>2
  <2> QED
    BY <2>1, <2>2
<1> QED
  BY <1>1, <1>2 DEF LeasesSound

LEMMA RunsOn ==
  ASSUME NEW q \in Int
  PROVE  /\ q * Step \in Int
         /\ (q + 1) * Step = q * Step + Step /\ (q - 1) * Step = q * Step - Step
         /\ (q + 0) * Step = q * Step
<1>1. ASSUME NEW s \in Int
      PROVE  /\ q * s \in Int /\ (q + 1) * s = q * s + s /\ (q - 1) * s = q * s - s
             /\ (q + 0) * s = q * s
  BY SMTT(30)
<1> QED
  BY <1>1, LimitsAreNumbers

(* What is under way after a step is of the row that was charged, if it is. *)
RunsOnlyIn(a0, d0) == \A a \in Accounts, d \in Days : UnderWay(a, d)' => a = a0 /\ d = d0

(* The rows that are not charged keep within their allowance.               *)
LEMMA AllowedMoves ==
  ASSUME IInv, Allowed, NEW a0 \in Accounts, NEW d0 \in Days,
         NEW m \in Int, NEW n \in Int, NEW r \in Int, NEW l \in Int,
         Charged(a0, d0, m, n, r, l), RunsOnlyIn(a0, d0),
         Kept(days'[a0][d0], DAILY_TOKENS, DAILY_REQUESTS, DAILY_RUNTIME, DAILY_LEASES),
         Kept(totals'[d0], GLOBAL_DAILY_TOKENS, GLOBAL_DAILY_REQUESTS, GLOBAL_DAILY_RUNTIME,
              GLOBAL_DAILY_LEASES),
         UnderWay(a0, d0)' => /\ NotPassed(days'[a0][d0], DAILY_TOKENS)
                              /\ NotPassed(totals'[d0], GLOBAL_DAILY_TOKENS)
  PROVE  Allowed'
<1>1. /\ \A a \in Accounts, d \in Days : ~(a = a0 /\ d = d0) => days'[a][d] = days[a][d]
      /\ \A d \in Days : d # d0 => totals'[d] = totals[d]
  <2>1. /\ \A a \in Accounts, d \in Days :
              IF a = a0 /\ d = d0
              THEN /\ days'[a][d].used = days[a][d].used + m
                   /\ days'[a][d].reserved = days[a][d].reserved + n
                   /\ days'[a][d].requests = days[a][d].requests + r
                   /\ days'[a][d].leases = days[a][d].leases + l
              ELSE days'[a][d] = days[a][d]
        /\ \A d \in Days :
              IF d = d0
              THEN /\ totals'[d].used = totals[d].used + m
                   /\ totals'[d].reserved = totals[d].reserved + n
                   /\ totals'[d].requests = totals[d].requests + r
                   /\ totals'[d].leases = totals[d].leases + l
              ELSE totals'[d] = totals[d]
    BY ChargeMoves
  <2> QED
    BY <2>1
<1>2. ASSUME NEW d \in Days
      PROVE  Kept(totals'[d], GLOBAL_DAILY_TOKENS, GLOBAL_DAILY_REQUESTS, GLOBAL_DAILY_RUNTIME,
                  GLOBAL_DAILY_LEASES)
  BY <1>1 DEF Allowed
<1>3. ASSUME NEW a \in Accounts, NEW d \in Days
      PROVE  /\ Kept(days'[a][d], DAILY_TOKENS, DAILY_REQUESTS, DAILY_RUNTIME, DAILY_LEASES)
             /\ UnderWay(a, d)' => /\ NotPassed(days'[a][d], DAILY_TOKENS)
                                   /\ NotPassed(totals'[d], GLOBAL_DAILY_TOKENS)
  BY <1>1 DEF Allowed, RunsOnlyIn
<1> QED
  BY <1>2, <1>3 DEF Allowed, Kept, Runtime, NotPassed

(* Nothing else is under way while a lease is not closed.                   *)
LEMMA NothingElse ==
  ASSUME IInv, NEW t \in Turns, Live(t), NEW u \in Turns, u # t
  PROVE  lease[u].step # "active"
BY DEF IInv, OneLease

(* A row within its allowance, with room for what it is charged.            *)
Room(row, tokens, requests, runtime, leases, m, n, r, l) ==
  /\ row.used + row.reserved + (m + n) < tokens + Most
  /\ r = 1 => row.requests < requests /\ Runtime(row) + Step <= runtime
  /\ l > 0 => l = 1 /\ row.leases < leases

RowCharged(row, after, m, n, r, l) ==
  /\ row.used \in Int /\ row.reserved \in Int /\ row.requests \in Int /\ row.leases \in Int
  /\ after.used = row.used + m /\ after.reserved = row.reserved + n
  /\ after.requests = row.requests + r /\ after.leases = row.leases + l

LEMMA RowKept ==
  ASSUME NEW row, NEW after,
         NEW tokens \in Int, NEW requests \in Int, NEW runtime \in Int, NEW leases \in Int,
         NEW m \in Int, NEW n \in Int, NEW r \in {-1, 0, 1}, NEW l \in Int,
         RowCharged(row, after, m, n, r, l),
         Kept(row, tokens, requests, runtime, leases),
         Room(row, tokens, requests, runtime, leases, m, n, r, l)
  PROVE  Kept(after, tokens, requests, runtime, leases)
<1>0. /\ row.used \in Int /\ row.reserved \in Int /\ row.requests \in Int /\ row.leases \in Int
      /\ after.used = row.used + m /\ after.reserved = row.reserved + n
      /\ after.requests = row.requests + r /\ after.leases = row.leases + l
  BY DEF RowCharged
<1>1. /\ after.used + after.reserved = row.used + row.reserved + (m + n)
      /\ after.leases <= leases /\ after.requests <= requests
  BY <1>0 DEF Kept, Room
<1>2. Runtime(row) \in Int /\ Step \in Nat
  BY <1>0, RunsOn, LimitsAreNumbers DEF Runtime
<1>3. Runtime(after) <= runtime
  <2>1. CASE r = 1
    <3>1. Runtime(after) = Runtime(row) + Step
      BY <1>0, <2>1, RunsOn DEF Runtime
    <3> QED
      BY <1>2, <2>1, <3>1 DEF Room
  <2>2. CASE r = 0
    <3>1. Runtime(after) = Runtime(row)
      BY <1>0, <2>2 DEF Runtime
    <3> QED
      BY <1>2, <2>2, <3>1 DEF Kept
  <2>3. CASE r = -1
    <3>1. Runtime(after) = Runtime(row) - Step
      <4>1. after.requests = row.requests - 1
        BY <1>0, <2>3
      <4> QED
        BY <1>0, <4>1, RunsOn DEF Runtime
    <3> QED
      BY <1>2, <2>3, <3>1 DEF Kept
  <2> QED
    BY <2>1, <2>2, <2>3
<1> QED
  BY <1>1, <1>3 DEF Kept, Room

LEMMA ChargeKept ==
  ASSUME IInv, Allowed, NEW a0 \in Accounts, NEW d0 \in Days,
         NEW m \in Int, NEW n \in Int, NEW r \in {-1, 0, 1}, NEW l \in Int,
         Charged(a0, d0, m, n, r, l), RunsOnlyIn(a0, d0),
         Room(days[a0][d0], DAILY_TOKENS, DAILY_REQUESTS, DAILY_RUNTIME, DAILY_LEASES, m, n, r, l),
         Room(totals[d0], GLOBAL_DAILY_TOKENS, GLOBAL_DAILY_REQUESTS, GLOBAL_DAILY_RUNTIME,
              GLOBAL_DAILY_LEASES, m, n, r, l),
         UnderWay(a0, d0)' =>
           /\ days[a0][d0].used + days[a0][d0].reserved + (m + n) <= DAILY_TOKENS
           /\ totals[d0].used + totals[d0].reserved + (m + n) <= GLOBAL_DAILY_TOKENS
  PROVE  Allowed'
<1>1. r \in Int
  OBVIOUS
<1>2. /\ days'[a0][d0].used = days[a0][d0].used + m
      /\ days'[a0][d0].reserved = days[a0][d0].reserved + n
      /\ days'[a0][d0].requests = days[a0][d0].requests + r
      /\ days'[a0][d0].leases = days[a0][d0].leases + l
      /\ totals'[d0].used = totals[d0].used + m
      /\ totals'[d0].reserved = totals[d0].reserved + n
      /\ totals'[d0].requests = totals[d0].requests + r
      /\ totals'[d0].leases = totals[d0].leases + l
  BY <1>1, ChargeMoves
<1>3. /\ days[a0][d0].used \in Int /\ days[a0][d0].reserved \in Int
      /\ days[a0][d0].requests \in Int /\ days[a0][d0].leases \in Int
      /\ totals[d0].used \in Int /\ totals[d0].reserved \in Int
      /\ totals[d0].requests \in Int /\ totals[d0].leases \in Int
  BY RowsAreNumbers
<1>4. PICK x, y, x2, y2 : x = days[a0][d0] /\ y = totals[d0] /\ x2 = days'[a0][d0] /\ y2 = totals'[d0]
  OBVIOUS
<1>5. /\ DAILY_TOKENS \in Int /\ GLOBAL_DAILY_TOKENS \in Int
      /\ DAILY_REQUESTS \in Int /\ GLOBAL_DAILY_REQUESTS \in Int
      /\ DAILY_RUNTIME \in Int /\ GLOBAL_DAILY_RUNTIME \in Int
      /\ DAILY_LEASES \in Int /\ GLOBAL_DAILY_LEASES \in Int
  BY LimitsAreNumbers
<1>6. /\ RowCharged(x, x2, m, n, r, l)
      /\ Kept(x, DAILY_TOKENS, DAILY_REQUESTS, DAILY_RUNTIME, DAILY_LEASES)
      /\ Room(x, DAILY_TOKENS, DAILY_REQUESTS, DAILY_RUNTIME, DAILY_LEASES, m, n, r, l)
  BY <1>2, <1>3, <1>4 DEF Allowed, RowCharged
<1>7. /\ RowCharged(y, y2, m, n, r, l)
      /\ Kept(y, GLOBAL_DAILY_TOKENS, GLOBAL_DAILY_REQUESTS, GLOBAL_DAILY_RUNTIME,
              GLOBAL_DAILY_LEASES)
      /\ Room(y, GLOBAL_DAILY_TOKENS, GLOBAL_DAILY_REQUESTS, GLOBAL_DAILY_RUNTIME,
              GLOBAL_DAILY_LEASES, m, n, r, l)
  BY <1>2, <1>3, <1>4 DEF Allowed, RowCharged
<1>8. Kept(x2, DAILY_TOKENS, DAILY_REQUESTS, DAILY_RUNTIME, DAILY_LEASES)
  BY <1>5, <1>6, RowKept
<1>9. Kept(y2, GLOBAL_DAILY_TOKENS, GLOBAL_DAILY_REQUESTS, GLOBAL_DAILY_RUNTIME,
           GLOBAL_DAILY_LEASES)
  BY <1>5, <1>7, RowKept
<1>10. /\ Kept(days'[a0][d0], DAILY_TOKENS, DAILY_REQUESTS, DAILY_RUNTIME, DAILY_LEASES)
       /\ Kept(totals'[d0], GLOBAL_DAILY_TOKENS, GLOBAL_DAILY_REQUESTS, GLOBAL_DAILY_RUNTIME,
               GLOBAL_DAILY_LEASES)
       /\ UnderWay(a0, d0)' => /\ NotPassed(days'[a0][d0], DAILY_TOKENS)
                               /\ NotPassed(totals'[d0], GLOBAL_DAILY_TOKENS)
  <2>1. /\ Kept(days'[a0][d0], DAILY_TOKENS, DAILY_REQUESTS, DAILY_RUNTIME, DAILY_LEASES)
        /\ Kept(totals'[d0], GLOBAL_DAILY_TOKENS, GLOBAL_DAILY_REQUESTS, GLOBAL_DAILY_RUNTIME,
               GLOBAL_DAILY_LEASES)
    BY <1>4, <1>8, <1>9
  <2>2. UnderWay(a0, d0)' => /\ NotPassed(days'[a0][d0], DAILY_TOKENS)
                             /\ NotPassed(totals'[d0], GLOBAL_DAILY_TOKENS)
    BY <1>2, <1>3, <1>5 DEF NotPassed
  <2> QED
    BY <2>1, <2>2
<1> QED
  BY <1>1, <1>10, AllowedMoves

(* A lease is charged to its account's day and to the day.                  *)
LEMMA AdmitBooks ==
  ASSUME IInv, IInv', BooksInv, NEW t \in Turns, admit(t)
  PROVE  BooksInv'
<1>1. CASE UNCHANGED <<days, totals>> /\ lease' = Swept
  BY <1>1, RefusedIsQuiet, QuietBooks DEF BooksInv
<1>2. CASE ~(UNCHANGED <<days, totals>> /\ lease' = Swept)
  <2>0. PICK a0 \in Accounts, d0 \in Days : a0 = account[t] /\ d0 = DayOf(Now)
    BY NowInRange DEF IInv, Typed
  <2>1. /\ UNCHANGED <<unmeasured, account, asked, worker, answer>>
        /\ pc[t] = "ready" /\ pc' = [pc EXCEPT ![t] = "admitted"]
        /\ ~UserLimit(days[a0][d0]) /\ ~GlobalLimit(totals[d0]) /\ ~Busy
        /\ lease' = [Swept EXCEPT ![t] =
              [state |-> "open", account |-> a0, day |-> d0,
               expires |-> Min2(Now + Lease, (d0 + 1) * Day),
               step |-> "none", deadline |-> 0, tokens |-> 0]]
        /\ Charged(a0, d0, 0, 0, 0, 1)
    BY <1>2, <2>0 DEF admit, Goto, workerVars
  <2>2. /\ lease[t].state = "none" /\ lease[t].step = "none" /\ lease[t].account = None
        /\ lease[t].tokens = 0 /\ t \notin asked
    BY <2>1 DEF IInv, Phase, BooksInv, LeasesSound
  <2>3. /\ lease'[t].state = "open" /\ lease'[t].account = a0 /\ lease'[t].day = d0
        /\ lease'[t].step = "none" /\ lease'[t].tokens = 0
        /\ \A u \in Turns : u # t => lease'[u] = Swept[u]
    BY <2>1, SweepMoves
  <2>4. Others(t)
    BY <2>1, <2>3, SweptSame DEF Others, IInv, Typed
  <2>5. LeasesSound'
    BY <2>0, <2>1, <2>2, <2>3, <2>4, LeasesKept DEF BooksInv, LeasesSound
  <2>6. ASSUME NEW u \in Turns PROVE lease[u].step # "active" /\ lease'[u].step # "active"
    <3>1. Swept[u].state \notin {"open", "closing"}
      BY <2>1 DEF Busy
    <3>2. lease[u].step # "active"
      BY <3>1, SweepMoves DEF IInv, OneLease, Live
    <3> QED
      BY <2>2, <2>3, <3>2, SweepMoves
  <2>7. Summed' /\ Totalled'
    <3>1. AddsMore(t, a0, d0, 0, 0, 0, 1, 0)
      <4> SUFFICES ASSUME NEW a \in Accounts, NEW d \in Days
                   PROVE  /\ UsedBy(t, a, d) = 0 /\ UsedBy(t, a, d)' = 0
                          /\ TokensBy(t, a, d) = 0 /\ TokensBy(t, a, d)' = 0
                          /\ BegunBy(t, a, d) = 0 /\ BegunBy(t, a, d)' = 0
                          /\ LeasedBy(t, a, d) = 0
                          /\ LeasedBy(t, a, d)' = IF a = a0 /\ d = d0 THEN 1 ELSE 0
                          /\ HeldIn(a, d) \in Int /\ HeldIn(a, d)' = HeldIn(a, d)
        BY DEF AddsMore
      <4>1. ~Mine(t, a, d) /\ (Mine(t, a, d)' <=> a = a0 /\ d = d0)
        BY <2>2, <2>3, LimitsAreNumbers DEF Mine
      <4>2. ~Counted(t)' /\ ~Begun(t)'
        BY <2>3 DEF Counted, Begun
      <4>3. HeldIn(a, d) \in Int /\ HeldIn(a, d)' = HeldIn(a, d)
        BY <2>1, HeldStays DEF BooksInv
      <4> QED
        BY <2>3, <4>1, <4>2, <4>3 DEF UsedBy, TokensBy, BegunBy, LeasedBy
    <3>2. OthersAdd(t)
      BY <2>1, <2>4 DEF Others, OthersAdd
    <3>3. LeasesSound /\ Summed /\ Totalled
      BY DEF BooksInv
    <3>4. PICK m \in Int, n \in Int, r \in Int, l \in Int, p \in Int, k \in Int :
            m = 0 /\ n = 0 /\ r = 0 /\ l = 1 /\ p = 0 /\ k = 0 /\ n = p + k
      OBVIOUS
    <3>5. AddsMore(t, a0, d0, m, p, r, l, k) /\ Charged(a0, d0, m, n, r, l)
      BY <2>1, <3>1, <3>4
    <3> QED
      BY <2>5, <3>2, <3>3, <3>4, <3>5, ChargeSums
  <2>8. Allowed'
    <3>1. RunsOnlyIn(a0, d0) /\ ~UnderWay(a0, d0)'
      BY <2>6 DEF UnderWay, RunsOnlyIn
    <3>2. PICK x, y : x = days[a0][d0] /\ y = totals[d0]
      OBVIOUS
    <3>3. /\ x.used \in Int /\ x.reserved \in Int /\ x.requests \in Int /\ x.leases \in Int
          /\ y.used \in Int /\ y.reserved \in Int /\ y.requests \in Int /\ y.leases \in Int
      BY <3>2, RowsAreNumbers
    <3>4. /\ x.used + x.reserved < DAILY_TOKENS /\ x.leases < DAILY_LEASES
          /\ y.used + y.reserved < GLOBAL_DAILY_TOKENS /\ y.leases < GLOBAL_DAILY_LEASES
      BY <2>1, <3>2, <3>3, LimitsAreNumbers DEF UserLimit, GlobalLimit
    <3>5. /\ Room(x, DAILY_TOKENS, DAILY_REQUESTS, DAILY_RUNTIME, DAILY_LEASES, 0, 0, 0, 1)
          /\ Room(y, GLOBAL_DAILY_TOKENS, GLOBAL_DAILY_REQUESTS, GLOBAL_DAILY_RUNTIME,
                  GLOBAL_DAILY_LEASES, 0, 0, 0, 1)
      BY <3>3, <3>4, MostIsMost, LimitsAreNumbers DEF Room
    <3>6. PICK m \in Int, n \in Int, r \in {-1, 0, 1}, l \in Int : m = 0 /\ n = 0 /\ r = 0 /\ l = 1
      OBVIOUS
    <3>7. /\ Room(days[a0][d0], DAILY_TOKENS, DAILY_REQUESTS, DAILY_RUNTIME, DAILY_LEASES, m, n, r, l)
          /\ Room(totals[d0], GLOBAL_DAILY_TOKENS, GLOBAL_DAILY_REQUESTS,
                  GLOBAL_DAILY_RUNTIME, GLOBAL_DAILY_LEASES, m, n, r, l)
          /\ Charged(a0, d0, m, n, r, l) /\ Allowed
      BY <2>1, <3>2, <3>5, <3>6 DEF BooksInv
    <3> QED
      BY <3>1, <3>7, ChargeKept
  <2> QED
    BY <2>5, <2>7, <2>8 DEF BooksInv
<1> QED
  BY <1>1, <1>2

(* A step is charged to the row of its lease, with its reservation.         *)
LEMMA StartBooks ==
  ASSUME IInv, IInv', BooksInv, NEW t \in Turns, start_step(t)
  PROVE  BooksInv'
<1>1. CASE UNCHANGED <<days, totals>> /\ lease' = Swept
  BY <1>1, RefusedIsQuiet, QuietBooks DEF BooksInv
<1>2. CASE ~(UNCHANGED <<days, totals>> /\ lease' = Swept)
  <2>0. PICK a0 \in Accounts, d0 \in Days : a0 = account[t] /\ d0 = Swept[t].day
    BY SweepMoves DEF IInv, Typed, Sessions
  <2>1. PICK n : n = Reservable(a0, d0)
    OBVIOUS
  <2>2. /\ UNCHANGED <<unmeasured, account, asked, worker, answer>>
        /\ pc[t] = "admitted" /\ pc' = [pc EXCEPT ![t] = "reserved"]
        /\ Startable(t)
        /\ lease' = [Swept EXCEPT ![t].step = "active", ![t].tokens = n, ![t].deadline = Now + Step]
        /\ Charged(a0, d0, 0, n, 1, 0)
    BY <1>2, <2>0, <2>1 DEF start_step, Goto, workerVars
  <2>3. PICK x, y : x = days[a0][d0] /\ y = totals[d0]
    OBVIOUS
  <2>4. /\ x.used \in Int /\ x.reserved \in Int /\ x.requests \in Int /\ x.leases \in Int
        /\ y.used \in Int /\ y.reserved \in Int /\ y.requests \in Int /\ y.leases \in Int
    BY <2>3, RowsAreNumbers
  <2>5. /\ n \in Int /\ n > 0 /\ n <= TOKENS
        /\ x.used + x.reserved + n <= DAILY_TOKENS
        /\ y.used + y.reserved + n <= GLOBAL_DAILY_TOKENS
        /\ x.requests < DAILY_REQUESTS /\ y.requests < GLOBAL_DAILY_REQUESTS
        /\ Runtime(x) + Step <= DAILY_RUNTIME /\ Runtime(y) + Step <= GLOBAL_DAILY_RUNTIME
    <3>1. n = Min2(TOKENS, Min2(DAILY_TOKENS - x.used - x.reserved,
                                GLOBAL_DAILY_TOKENS - y.used - y.reserved))
      BY <2>1, <2>3 DEF Reservable
    <3>2. n > 0
      BY <2>0, <2>1, <2>2 DEF Startable
    <3>3. /\ n \in Int /\ n <= TOKENS
          /\ x.used + x.reserved + n <= DAILY_TOKENS
          /\ y.used + y.reserved + n <= GLOBAL_DAILY_TOKENS
      BY <2>4, <3>1, LimitsAreNumbers DEF Min2
    <3>4. /\ x.requests < DAILY_REQUESTS /\ y.requests < GLOBAL_DAILY_REQUESTS
          /\ Runtime(x) + Step <= DAILY_RUNTIME /\ Runtime(y) + Step <= GLOBAL_DAILY_RUNTIME
      BY <2>0, <2>2, <2>3 DEF Startable
    <3> QED
      BY <3>2, <3>3, <3>4
  <2>6. /\ lease[t].step = "none" /\ lease[t].tokens = 0 /\ lease[t].state = "open"
        /\ lease[t].account = a0 /\ lease[t].day = d0 /\ t \notin asked
    <3>1. Swept[t].state = "open" /\ lease[t].step = "none" /\ t \notin asked
      BY <2>2 DEF Startable, IInv, Phase
    <3>2. lease[t].state = "open" /\ lease[t].day = d0
      BY <2>0, <3>1, SweepMoves
    <3> QED
      BY <2>0, <3>1, <3>2 DEF BooksInv, LeasesSound
  <2>7. /\ lease'[t].state = "open" /\ lease'[t].account = a0 /\ lease'[t].day = d0
        /\ lease'[t].step = "active" /\ lease'[t].tokens = n
        /\ \A u \in Turns : u # t => lease'[u] = Swept[u]
    <3> DEFINE s == [Swept[t] EXCEPT !.step = "active", !.tokens = n, !.deadline = Now + Step]
    <3>1. Swept \in [Turns -> Sessions] /\ Swept[t] \in Sessions
      BY SweepMoves
    <3>2. lease' = [Swept EXCEPT ![t] = s]
      BY <2>2, <3>1
    <3>3. /\ s.state = Swept[t].state /\ s.account = Swept[t].account /\ s.day = Swept[t].day
          /\ s.step = "active" /\ s.tokens = n
      BY <3>1 DEF Sessions
    <3> HIDE DEF s
    <3>4. Swept[t].state = "open" /\ Swept[t].account = a0 /\ Swept[t].day = d0
      BY <2>0, <2>2, <2>6, SweepMoves DEF Startable
    <3> QED
      BY <3>1, <3>2, <3>3, <3>4
  <2>8. Others(t)
    BY <2>2, <2>7, SweptSame DEF Others, IInv, Typed
  <2>9. LeasesSound'
    <3>1. n \in 1..TOKENS
      BY <2>5, LimitsAreNumbers
    <3> QED
      BY <2>0, <2>2, <2>6, <2>7, <2>8, <3>1, LeasesKept DEF BooksInv, LeasesSound
  <2>10. \A u \in Turns : lease'[u].step = "active" => u = t
    BY <2>6, <2>7, NothingElse, SweepMoves DEF Live
  <2>11. Summed' /\ Totalled'
    <3>1. AddsMore(t, a0, d0, 0, n, 1, 0, 0)
      <4> SUFFICES ASSUME NEW a \in Accounts, NEW d \in Days
                   PROVE  /\ UsedBy(t, a, d) = 0 /\ UsedBy(t, a, d)' = 0
                          /\ TokensBy(t, a, d) = 0
                          /\ TokensBy(t, a, d)' = IF a = a0 /\ d = d0 THEN n ELSE 0
                          /\ BegunBy(t, a, d) = 0
                          /\ BegunBy(t, a, d)' = IF a = a0 /\ d = d0 THEN 1 ELSE 0
                          /\ LeasedBy(t, a, d) \in Int
                          /\ LeasedBy(t, a, d)' = LeasedBy(t, a, d)
                          /\ HeldIn(a, d) \in Int /\ HeldIn(a, d)' = HeldIn(a, d)
        BY <2>5 DEF AddsMore
      <4>1. (Mine(t, a, d) <=> a = a0 /\ d = d0) /\ (Mine(t, a, d)' <=> a = a0 /\ d = d0)
        BY <2>6, <2>7 DEF Mine
      <4>2. ~Counted(t) /\ ~Begun(t) /\ ~Counted(t)' /\ Begun(t)'
        BY <2>6, <2>7 DEF Counted, Begun
      <4>3. HeldIn(a, d) \in Int /\ HeldIn(a, d)' = HeldIn(a, d)
        BY <2>2, HeldStays DEF BooksInv
      <4> QED
        BY <2>6, <2>7, <4>1, <4>2, <4>3 DEF UsedBy, TokensBy, BegunBy, LeasedBy
    <3>2. OthersAdd(t)
      BY <2>2, <2>8 DEF Others, OthersAdd
    <3>3. LeasesSound /\ Summed /\ Totalled
      BY DEF BooksInv
    <3>4. PICK m \in Int, r \in Int, l \in Int, p \in Int, k \in Int :
            m = 0 /\ r = 1 /\ l = 0 /\ p = n /\ k = 0 /\ n = p + k
      BY <2>5
    <3>5. AddsMore(t, a0, d0, m, p, r, l, k) /\ Charged(a0, d0, m, n, r, l)
      BY <2>2, <3>1, <3>4
    <3>6. n \in Int
      BY <2>5
    <3> QED
      BY <2>9, <3>2, <3>3, <3>4, <3>5, <3>6, ChargeSums
  <2>12. Allowed'
    <3>1. RunsOnlyIn(a0, d0)
      BY <2>7, <2>10 DEF UnderWay, RunsOnlyIn, Mine
    <3>2. /\ Room(x, DAILY_TOKENS, DAILY_REQUESTS, DAILY_RUNTIME, DAILY_LEASES, 0, n, 1, 0)
          /\ Room(y, GLOBAL_DAILY_TOKENS, GLOBAL_DAILY_REQUESTS, GLOBAL_DAILY_RUNTIME,
                  GLOBAL_DAILY_LEASES, 0, n, 1, 0)
      BY <2>4, <2>5, MostIsMost, LimitsAreNumbers DEF Room
    <3>3. PICK m \in Int, r \in {-1, 0, 1}, l \in Int : m = 0 /\ r = 1 /\ l = 0
      OBVIOUS
    <3>4. /\ Room(days[a0][d0], DAILY_TOKENS, DAILY_REQUESTS, DAILY_RUNTIME, DAILY_LEASES, m, n, r, l)
          /\ Room(totals[d0], GLOBAL_DAILY_TOKENS, GLOBAL_DAILY_REQUESTS,
                  GLOBAL_DAILY_RUNTIME, GLOBAL_DAILY_LEASES, m, n, r, l)
          /\ Charged(a0, d0, m, n, r, l) /\ Allowed
      BY <2>2, <2>3, <3>2, <3>3 DEF BooksInv
    <3>5. /\ days[a0][d0].used + days[a0][d0].reserved + (m + n) <= DAILY_TOKENS
          /\ totals[d0].used + totals[d0].reserved + (m + n) <= GLOBAL_DAILY_TOKENS
      BY <2>3, <2>4, <2>5, <3>3
    <3>6. n \in Int
      BY <2>5
    <3> QED
      BY <3>1, <3>4, <3>5, <3>6, ChargeKept
  <2> QED
    BY <2>9, <2>11, <2>12 DEF BooksInv
<1> QED
  BY <1>1, <1>2

(* What every settlement begins with, and leaves of its lease.              *)
LEMMA SettledTurn ==
  ASSUME IInv, BooksInv, NEW t \in Turns, lease[t].step = "active"
  PROVE  /\ Live(t) /\ lease[t].account = account[t] /\ account[t] \in Accounts
         /\ lease[t].day \in Days /\ lease[t].tokens \in 1..TOKENS
         /\ lease[t].state \in {"open", "closing"}
         /\ \A h \in unmeasured : h.turn # t
         /\ \A u \in Turns : u # t => lease[u].step # "active"
<1>1. Live(t) /\ lease[t].state \in {"open", "closing"}
  BY DEF IInv, OneLease, Live
<1>2. lease[t] \in Sessions /\ account[t] \in Accounts
  BY DEF IInv, Typed
<1>3. lease[t].day \in Days
  BY <1>2 DEF Sessions
<1>4. lease[t].account = account[t] /\ lease[t].tokens \in 1..TOKENS
  BY <1>1 DEF BooksInv, LeasesSound
<1>5. \A h \in unmeasured : h.turn # t
  BY DEF BooksInv, LeasesSound
<1> QED
  BY <1>1, <1>2, <1>3, <1>4, <1>5, NothingElse

LEMMA EndedLease ==
  ASSUME NEW r \in Sessions, NEW state \in {"open", "closing", "closed"}
  PROVE  LET s == [r EXCEPT !.state = state, !.step = "ended", !.deadline = 0, !.tokens = 0]
         IN  /\ s.state = state /\ s.step = "ended" /\ s.tokens = 0
             /\ s.account = r.account /\ s.day = r.day
<1> DEFINE s1 == [r EXCEPT !.state = state, !.step = "ended"]
           s2 == [s1 EXCEPT !.deadline = 0, !.tokens = 0]
<1>1. s1 \in Sessions /\ s1.state = state /\ s1.step = "ended" /\ s1.account = r.account /\ s1.day = r.day
  BY DEF Sessions
<1>2. ASSUME NEW q \in Sessions
      PROVE  LET z == [[q EXCEPT !.deadline = 0] EXCEPT !.tokens = 0]
             IN  /\ z.state = q.state /\ z.step = q.step /\ z.tokens = 0
                 /\ z.account = q.account /\ z.day = q.day
  <2>1. [q EXCEPT !.deadline = 0] \in Sessions
    BY DEF Sessions
  <2>2. /\ [q EXCEPT !.deadline = 0].state = q.state /\ [q EXCEPT !.deadline = 0].step = q.step
        /\ [q EXCEPT !.deadline = 0].account = q.account /\ [q EXCEPT !.deadline = 0].day = q.day
    BY DEF Sessions
  <2> QED
    BY <2>1, <2>2 DEF Sessions
<1>3. s2 = [[s1 EXCEPT !.deadline = 0] EXCEPT !.tokens = 0]
  BY <1>1 DEF Sessions
<1> QED
  BY <1>1, <1>2, <1>3

(* Nothing was written: all that was charged is given back.                 *)
LEMMA UnsentBooks ==
  ASSUME IInv, IInv', BooksInv, NEW t \in Turns, finish_unsent(t)
  PROVE  BooksInv'
<1>0. /\ UNCHANGED <<unmeasured, account, asked, worker, answer>>
      /\ pc' = [pc EXCEPT ![t] = "over"] /\ lease[t].step = "active" /\ t \notin asked
      /\ lease' = [Swept EXCEPT ![t] = Ended(lease, t, "closed")[t]]
  BY DEF finish_unsent, Over, Goto, workerVars, IInv, Phase
<1>1. PICK a0 \in Accounts, d0 \in Days, n \in Int :
        a0 = lease[t].account /\ d0 = lease[t].day /\ n = -lease[t].tokens /\ n < 0
  BY <1>0, SettledTurn, LimitsAreNumbers
<1>2. Charged(a0, d0, 0, n, -1, -1)
  BY <1>1 DEF finish_unsent, RefundDay
<1>3. /\ lease'[t].state = "closed" /\ lease'[t].account = a0 /\ lease'[t].day = d0
      /\ lease'[t].step = "ended" /\ lease'[t].tokens = 0
      /\ \A u \in Turns : u # t => lease'[u] = Swept[u]
  <2> DEFINE s == [lease[t] EXCEPT !.state = "closed", !.step = "ended", !.deadline = 0, !.tokens = 0]
  <2>1. lease \in [Turns -> Sessions] /\ lease[t] \in Sessions
    BY DEF IInv, Typed
  <2>2. lease' = [Swept EXCEPT ![t] = s]
    BY <1>0, <2>1 DEF Ended
  <2>3. s.state = "closed" /\ s.step = "ended" /\ s.tokens = 0 /\ s.account = a0 /\ s.day = d0
    BY <1>1, <2>1, EndedLease
  <2> HIDE DEF s
  <2> QED
    BY <2>2, <2>3, SweepMoves
<1>4. Others(t)
  BY <1>0, <1>3, SweptSame DEF Others, IInv, Typed
<1>5. LeasesSound'
  <2>1. LeasesSound /\ IsFiniteSet(unmeasured') /\ lease'[t].account = account[t]
    BY <1>0, <1>1, <1>3, SettledTurn DEF BooksInv, LeasesSound
  <2> QED
    BY <1>0, <1>3, <1>4, <2>1, LeasesKept
<1>6. \A u \in Turns : lease'[u].step # "active"
  BY <1>0, <1>3, SettledTurn, SweepMoves
<1>7. Summed' /\ Totalled'
  <2>1. AddsMore(t, a0, d0, 0, n, -1, -1, 0)
    <3> SUFFICES ASSUME NEW a \in Accounts, NEW d \in Days
                 PROVE  /\ UsedBy(t, a, d) = 0 /\ UsedBy(t, a, d)' = 0
                        /\ TokensBy(t, a, d)' = 0
                        /\ TokensBy(t, a, d) = IF a = a0 /\ d = d0 THEN -n ELSE 0
                        /\ BegunBy(t, a, d)' = 0
                        /\ BegunBy(t, a, d) = IF a = a0 /\ d = d0 THEN 1 ELSE 0
                        /\ LeasedBy(t, a, d)' = 0
                        /\ LeasedBy(t, a, d) = IF a = a0 /\ d = d0 THEN 1 ELSE 0
                        /\ HeldIn(a, d) \in Int /\ HeldIn(a, d)' = HeldIn(a, d)
      BY DEF AddsMore
    <3>1. (Mine(t, a, d) <=> a = a0 /\ d = d0) /\ (Mine(t, a, d)' <=> a = a0 /\ d = d0)
      BY <1>1, <1>3 DEF Mine
    <3>2. ~Counted(t) /\ Begun(t) /\ ~Counted(t)' /\ ~Begun(t)'
      BY <1>0, <1>3 DEF Counted, Begun
    <3>3. HeldIn(a, d) \in Int /\ HeldIn(a, d)' = HeldIn(a, d)
      BY <1>0, HeldStays DEF BooksInv
    <3>4. lease[t].tokens = -n
      BY <1>0, <1>1, SettledTurn, LimitsAreNumbers
    <3> QED
      BY <1>0, <1>3, <3>1, <3>2, <3>3, <3>4 DEF UsedBy, TokensBy, BegunBy, LeasedBy
  <2>2. OthersAdd(t)
    BY <1>0, <1>4 DEF Others, OthersAdd
  <2>3. LeasesSound /\ Summed /\ Totalled
    BY DEF BooksInv
  <2>4. PICK p \in Int, k \in Int, r \in Int, l \in Int :
          p = n /\ k = 0 /\ n = p + k /\ r = -1 /\ l = -1
    OBVIOUS
  <2>5. AddsMore(t, a0, d0, 0, p, r, l, k) /\ Charged(a0, d0, 0, n, r, l)
    BY <1>2, <2>1, <2>4
  <2> QED
    BY <1>5, <2>2, <2>3, <2>4, <2>5, ChargeSums
<1>8. Allowed'
  <2>1. RunsOnlyIn(a0, d0) /\ ~UnderWay(a0, d0)'
    BY <1>6 DEF UnderWay, RunsOnlyIn
  <2>0. PICK r \in {-1, 0, 1}, l \in Int : r = -1 /\ l = -1
    OBVIOUS
  <2>2. PICK x, y : x = days[a0][d0] /\ y = totals[d0]
    OBVIOUS
  <2>3. /\ x.used \in Int /\ x.reserved \in Int /\ x.requests \in Int /\ x.leases \in Int
        /\ y.used \in Int /\ y.reserved \in Int /\ y.requests \in Int /\ y.leases \in Int
        /\ x.used + x.reserved < DAILY_TOKENS + Most
        /\ y.used + y.reserved < GLOBAL_DAILY_TOKENS + Most
    BY <2>2, RowsAreNumbers DEF BooksInv, Allowed, Kept
  <2>4. /\ Room(x, DAILY_TOKENS, DAILY_REQUESTS, DAILY_RUNTIME, DAILY_LEASES, 0, n, r, l)
        /\ Room(y, GLOBAL_DAILY_TOKENS, GLOBAL_DAILY_REQUESTS, GLOBAL_DAILY_RUNTIME,
                GLOBAL_DAILY_LEASES, 0, n, r, l)
    BY <1>1, <2>0, <2>3, MostIsMost, LimitsAreNumbers DEF Room
  <2>5. /\ Room(days[a0][d0], DAILY_TOKENS, DAILY_REQUESTS, DAILY_RUNTIME, DAILY_LEASES, 0, n, r, l)
        /\ Room(totals[d0], GLOBAL_DAILY_TOKENS, GLOBAL_DAILY_REQUESTS,
                GLOBAL_DAILY_RUNTIME, GLOBAL_DAILY_LEASES, 0, n, r, l)
        /\ Charged(a0, d0, 0, n, r, l) /\ Allowed
    BY <1>2, <2>0, <2>2, <2>4 DEF BooksInv
  <2> QED
    BY <2>1, <2>5, ChargeKept
<1> QED
  BY <1>5, <1>7, <1>8 DEF BooksInv

(* What a receipt tells of what the worker answered.                        *)
LEMMA ReceiptTells ==
  ASSUME IInv, BooksInv, NEW t \in Turns, receipt[t].cleanup, receipt[t].metering # "unconfirmed"
  PROVE  /\ t \in asked /\ answer[t] # None /\ answer[t] = receipt[t]
         /\ receipt[t].tokens \in Nat /\ receipt[t].tokens <= Most
<1>1. receipt[t] # NoReceipt
  BY DEF NoReceipt
<1>2. answer[t] # None /\ answer[t] = receipt[t]
  BY <1>1 DEF IInv, Phase
<1>3. t \in asked
  BY <1>2 DEF BooksInv, LeasesSound
<1>4. receipt[t] \in Receipts
  BY DEF IInv, Typed
<1>5. receipt[t] \in [cleanup : {TRUE}, metering : {"complete", "cache_read_unmeasured"}, tokens : Reports]
  BY <1>4 DEF Receipts
<1>6. receipt[t].tokens \in Reports
  BY <1>5
<1> QED
  BY <1>2, <1>3, <1>6, MostIsMost, TrialAssumption

(* The turn was answered for: what was reserved gives way to what was used, *)
(* or to what is held.                                                      *)
LEMMA FinishBooks ==
  ASSUME IInv, IInv', BooksInv, NEW t \in Turns, finish_step(t),
         finish_measured(t) \/ finish_unmeasured(t)
  PROVE  BooksInv'
<1>0. /\ UNCHANGED <<account, asked, worker, answer>>
      /\ pc' = [pc EXCEPT ![t] = "settled"] /\ lease[t].step = "active"
      /\ receipt[t].cleanup /\ receipt[t].metering # "unconfirmed"
      /\ \E state \in {"open", "closing", "closed"} : lease' = Ended(Swept, t, state)
  <2>1. lease[t].step = "active" /\ Swept[t].state \in {"open", "closing"}
    <3>1. lease[t].step = "active"
      BY SweepMoves DEF finish_step, _permit_matches
    <3>2. lease[t].state \in {"open", "closing"}
      BY <3>1, SettledTurn
    <3> QED
      BY <3>1, <3>2, SweepMoves
  <2> QED
    BY <2>1 DEF finish_step, finish_measured, finish_unmeasured, Goto, workerVars
<1>1. PICK a0 \in Accounts, d0 \in Days, p \in Int :
        /\ a0 = Swept[t].account /\ d0 = Swept[t].day /\ p = -Swept[t].tokens /\ p < 0
        /\ a0 = lease[t].account /\ d0 = lease[t].day /\ p = -lease[t].tokens
  <2>1. /\ lease[t].account \in Accounts /\ lease[t].day \in Days /\ lease[t].tokens \in 1..TOKENS
    BY <1>0, SettledTurn
  <2> QED
    BY <2>1, SweepMoves, LimitsAreNumbers
<1>2. /\ t \in asked /\ answer[t] # None /\ answer[t] = receipt[t]
      /\ receipt[t].tokens \in Nat /\ receipt[t].tokens <= Most
  BY <1>0, ReceiptTells
<1>3. PICK g : g = receipt[t].tokens
  OBVIOUS
<1>4. /\ lease'[t].state # "none" /\ lease'[t].account = a0 /\ lease'[t].day = d0
      /\ lease'[t].step = "ended" /\ lease'[t].tokens = 0
      /\ \A u \in Turns : u # t => lease'[u] = Swept[u]
  <2>1. PICK state \in {"open", "closing", "closed"} : lease' = Ended(Swept, t, state)
    BY <1>0
  <2> DEFINE s == [Swept[t] EXCEPT !.state = state, !.step = "ended", !.deadline = 0, !.tokens = 0]
  <2>2. Swept \in [Turns -> Sessions] /\ Swept[t] \in Sessions
    BY SweepMoves
  <2>3. lease' = [Swept EXCEPT ![t] = s]
    BY <2>1, <2>2 DEF Ended
  <2>4. /\ s.state = state /\ s.step = "ended" /\ s.tokens = 0
        /\ s.account = Swept[t].account /\ s.day = Swept[t].day
    BY <2>2, EndedLease
  <2> HIDE DEF s
  <2>5. lease'[t] = s /\ \A u \in Turns : u # t => lease'[u] = Swept[u]
    BY <2>2, <2>3
  <2>6. state # "none"
    OBVIOUS
  <2> QED
    BY <1>1, <2>4, <2>5, <2>6
<1>5. Others(t)
  BY <1>0, <1>4, SweptSame DEF Others, IInv, Typed
<1>6. \A u \in Turns : lease'[u].step # "active"
  BY <1>0, <1>4, SettledTurn, SweepMoves
<1>7. RunsOnlyIn(a0, d0) /\ ~UnderWay(a0, d0)'
  BY <1>6 DEF UnderWay, RunsOnlyIn
<1>8. PICK x, y : x = days[a0][d0] /\ y = totals[d0]
  OBVIOUS
<1>9. /\ x.used \in Int /\ x.reserved \in Int /\ x.requests \in Int /\ x.leases \in Int
      /\ y.used \in Int /\ y.reserved \in Int /\ y.requests \in Int /\ y.leases \in Int
      /\ x.used + x.reserved <= DAILY_TOKENS /\ y.used + y.reserved <= GLOBAL_DAILY_TOKENS
  <2>1. UnderWay(a0, d0)
    BY <1>0, <1>1 DEF UnderWay, Mine
  <2> QED
    BY <1>8, <2>1, RowsAreNumbers DEF BooksInv, Allowed, NotPassed
<1>10. ASSUME NEW a \in Accounts, NEW d \in Days
       PROVE  /\ (Mine(t, a, d) <=> a = a0 /\ d = d0) /\ (Mine(t, a, d)' <=> a = a0 /\ d = d0)
              /\ ~Counted(t) /\ Begun(t) /\ Counted(t)' /\ Begun(t)'
  BY <1>0, <1>1, <1>2, <1>4 DEF Mine, Counted, Begun
<1>11. ASSUME NEW a \in Accounts, NEW d \in Days
       PROVE  /\ UsedBy(t, a, d) = 0
              /\ TokensBy(t, a, d)' = 0
              /\ TokensBy(t, a, d) = IF a = a0 /\ d = d0 THEN -p ELSE 0
              /\ BegunBy(t, a, d) \in Int /\ BegunBy(t, a, d)' = BegunBy(t, a, d)
              /\ LeasedBy(t, a, d) \in Int /\ LeasedBy(t, a, d)' = LeasedBy(t, a, d)
  <2>1. lease[t].tokens = -p
    BY <1>0, <1>1, SettledTurn, LimitsAreNumbers
  <2> QED
    BY <1>0, <1>4, <1>10, <2>1 DEF UsedBy, TokensBy, BegunBy, LeasedBy
<1>12. LeasesSound /\ Summed /\ Totalled /\ Allowed
  BY DEF BooksInv
<1>13. CASE finish_measured(t)
  <2>1. UNCHANGED unmeasured /\ Charged(a0, d0, g, p, 0, 0)
    BY <1>1, <1>3, <1>13 DEF finish_measured
  <2>2. LeasesSound'
    <3>1. IsFiniteSet(unmeasured') /\ lease'[t].account = account[t]
      BY <1>0, <1>1, <1>4, <1>12, <2>1, SettledTurn DEF LeasesSound
    <3> QED
      BY <1>0, <1>4, <1>5, <1>12, <2>1, <3>1, LeasesKept
  <2>3. Summed' /\ Totalled'
    <3>1. AddsMore(t, a0, d0, g, p, 0, 0, 0)
      <4>1. ASSUME NEW a \in Accounts, NEW d \in Days
            PROVE  /\ UsedBy(t, a, d)' = IF a = a0 /\ d = d0 THEN g ELSE 0
                   /\ HeldIn(a, d) \in Int /\ HeldIn(a, d)' = HeldIn(a, d)
        <5>1. Measured(t)'
          BY <1>0, <1>2, <2>1, SettledTurn DEF Measured
        <5>2. HeldIn(a, d) \in Int /\ HeldIn(a, d)' = HeldIn(a, d)
          BY <1>12, <2>1, HeldStays
        <5> QED
          BY <1>0, <1>2, <1>3, <1>10, <5>1, <5>2 DEF UsedBy
      <4> QED
        BY <1>2, <1>3, <1>11, <4>1 DEF AddsMore
    <3>2. OthersAdd(t)
      BY <1>5, <2>1 DEF Others, OthersAdd
    <3>3. PICK m \in Int, r \in Int, l \in Int, k \in Int :
            m = g /\ r = 0 /\ l = 0 /\ k = 0 /\ p = p + k
      BY <1>2, <1>3
    <3>4. AddsMore(t, a0, d0, m, p, r, l, k) /\ Charged(a0, d0, m, p, r, l)
      BY <2>1, <3>1, <3>3
    <3> QED
      BY <1>12, <2>2, <3>2, <3>3, <3>4, ChargeSums
  <2>4. Allowed'
    <3>1. PICK m \in Int, r \in {-1, 0, 1}, l \in Int : m = g /\ r = 0 /\ l = 0
      BY <1>2, <1>3
    <3>2. /\ Room(x, DAILY_TOKENS, DAILY_REQUESTS, DAILY_RUNTIME, DAILY_LEASES, m, p, r, l)
          /\ Room(y, GLOBAL_DAILY_TOKENS, GLOBAL_DAILY_REQUESTS, GLOBAL_DAILY_RUNTIME,
                  GLOBAL_DAILY_LEASES, m, p, r, l)
      BY <1>1, <1>2, <1>3, <1>9, <3>1, MostIsMost, LimitsAreNumbers DEF Room
    <3>3. /\ Room(days[a0][d0], DAILY_TOKENS, DAILY_REQUESTS, DAILY_RUNTIME, DAILY_LEASES, m, p, r, l)
          /\ Room(totals[d0], GLOBAL_DAILY_TOKENS, GLOBAL_DAILY_REQUESTS,
                  GLOBAL_DAILY_RUNTIME, GLOBAL_DAILY_LEASES, m, p, r, l)
          /\ Charged(a0, d0, m, p, r, l)
      BY <1>8, <2>1, <3>1, <3>2
    <3> QED
      BY <1>7, <1>12, <3>3, ChargeKept
  <2> QED
    BY <2>2, <2>3, <2>4 DEF BooksInv
<1>14. CASE finish_unmeasured(t)
  <2>1. PICK k \in Nat, n \in Int : k = Held(t) /\ n = k + p /\ n < Most
    <3>1. /\ receipt[t].tokens \in Nat /\ receipt[t].tokens <= Most
          /\ Swept[t].tokens \in Nat /\ Swept[t].tokens >= 1
      BY <1>0, <1>2, SettledTurn, SweepMoves, LimitsAreNumbers
    <3>2. Held(t) \in Nat /\ Held(t) + p < Most
      BY <1>1, <3>1, MostIsMost DEF Held
    <3> QED
      BY <1>1, <3>2
  <2>2. PICK h : h = [turn |-> t, account |-> a0, day |-> d0, held |-> k, known |-> g]
    OBVIOUS
  <2>3. h.turn = t /\ h.account = a0 /\ h.day = d0 /\ h.held = k /\ h.known = g
    BY <2>2
  <2>4. unmeasured' = unmeasured \cup {h} /\ Charged(a0, d0, 0, n, 0, 0)
    <3>1. n = Held(t) - Swept[t].tokens
      <4>1. Swept[t].tokens \in Int
        BY SweepMoves DEF Sessions
      <4> QED
        BY <1>1, <2>1, <4>1
    <3> QED
      BY <1>1, <1>3, <1>14, <2>1, <2>2, <3>1 DEF finish_unmeasured
  <2>5. h \notin unmeasured
    BY <1>0, <2>3, SettledTurn
  <2>6. LeasesSound'
    <3>1. /\ IsFiniteSet(unmeasured') /\ lease'[t].account = account[t]
          /\ lease[t].step = "ended" => lease'[t].step = "ended"
          /\ IF lease'[t].step = "active" THEN lease'[t].tokens \in 1..TOKENS ELSE lease'[t].tokens = 0
      BY <1>0, <1>1, <1>4, <1>12, <2>4, SettledTurn, FS_AddElement DEF LeasesSound
    <3>2. \A b \in unmeasured' : \/ b \in unmeasured
                                 \/ /\ b.turn = t /\ b.account \in Accounts /\ b.day \in Days
                                    /\ b.held \in Nat /\ b.known \in Nat
                                    /\ lease'[t].step = "ended"
      BY <1>2, <1>3, <1>4, <2>3, <2>4
    <3> QED
      BY <1>4, <1>5, <1>12, <3>1, <3>2, LeasesKept
  <2>7. Summed' /\ Totalled'
    <3>1. AddsMore(t, a0, d0, 0, p, 0, 0, k)
      <4>1. ASSUME NEW a \in Accounts, NEW d \in Days
            PROVE  /\ UsedBy(t, a, d)' = 0
                   /\ HeldIn(a, d) \in Int
                   /\ HeldIn(a, d)' = HeldIn(a, d) + (IF a = a0 /\ d = d0 THEN k ELSE 0)
        <5>1. ~Measured(t)'
          BY <2>3, <2>4 DEF Measured
        <5>2. HeldBy(h, a, d) = (IF a = a0 /\ d = d0 THEN k ELSE 0) /\ HeldBy(h, a, d) \in Int
          BY <2>3 DEF HeldBy
        <5>3. HeldIn(a, d) \in Int /\ HeldIn(a, d)' = HeldIn(a, d) + HeldBy(h, a, d)
          BY <1>12, <2>4, <2>5, <5>2, HeldGrows
        <5> QED
          BY <5>1, <5>2, <5>3 DEF UsedBy
      <4> QED
        BY <1>11, <4>1 DEF AddsMore
    <3>2. OthersAdd(t)
      BY <1>5, <2>3, <2>4 DEF Others, OthersAdd
    <3>3. PICK m \in Int, r \in Int, l \in Int : m = 0 /\ r = 0 /\ l = 0
      OBVIOUS
    <3>4. AddsMore(t, a0, d0, m, p, r, l, k) /\ Charged(a0, d0, m, n, r, l)
      BY <2>4, <3>1, <3>3
    <3>5. k \in Int /\ n = p + k
      BY <2>1
    <3> QED
      BY <1>12, <2>6, <3>2, <3>4, <3>5, ChargeSums
  <2>8. Allowed'
    <3>1. PICK m \in Int, r \in {-1, 0, 1}, l \in Int : m = 0 /\ r = 0 /\ l = 0
      OBVIOUS
    <3>2. /\ Room(x, DAILY_TOKENS, DAILY_REQUESTS, DAILY_RUNTIME, DAILY_LEASES, m, n, r, l)
          /\ Room(y, GLOBAL_DAILY_TOKENS, GLOBAL_DAILY_REQUESTS, GLOBAL_DAILY_RUNTIME,
                  GLOBAL_DAILY_LEASES, m, n, r, l)
      BY <1>9, <2>1, <3>1, MostIsMost, LimitsAreNumbers DEF Room
    <3>3. /\ Room(days[a0][d0], DAILY_TOKENS, DAILY_REQUESTS, DAILY_RUNTIME, DAILY_LEASES, m, n, r, l)
          /\ Room(totals[d0], GLOBAL_DAILY_TOKENS, GLOBAL_DAILY_REQUESTS,
                  GLOBAL_DAILY_RUNTIME, GLOBAL_DAILY_LEASES, m, n, r, l)
          /\ Charged(a0, d0, m, n, r, l)
      BY <1>8, <2>4, <3>1, <3>2
    <3> QED
      BY <1>7, <1>12, <3>3, ChargeKept
  <2> QED
    BY <2>6, <2>7, <2>8 DEF BooksInv
<1> QED
  BY <1>13, <1>14

LEMMA BooksStart == Init => BooksInv
<1> SUFFICES ASSUME Init PROVE BooksInv
  OBVIOUS
<1>0. IInv
  BY InitEstablishes
<1>1. /\ \A t \in Turns : /\ lease[t].state = "none" /\ lease[t].step = "none" /\ lease[t].tokens = 0
                          /\ lease[t].account = None /\ answer[t] = None /\ worker[t] = "none"
                          /\ pc[t] = "idle"
      /\ unmeasured = {}
      /\ \A a \in Accounts, d \in Days : days[a][d] = NoDay
      /\ \A d \in Days : totals[d] = NoDay
  BY DEF Init, NoLease
<1>2. LeasesSound
  BY <1>1, FS_EmptySet DEF LeasesSound
<1>3. ASSUME NEW S, IsFiniteSet(S), NEW F, \A z \in S : F[z] = 0 PROVE Total(F, S) = 0
  <2>1. {} \subseteq S /\ \A z \in S : F[z] \in Int
    BY <1>3
  <2>2. \A z \in S : F[z] = IF z \in {} THEN F[z] ELSE 0
    BY <1>3
  <2>3. Total(F, {}) = Total(F, S)
    BY <1>3, <2>1, <2>2, TotalOfPart
  <2> QED
    BY <2>3, TotalEmpty
<1>4. NoDay.used = 0 /\ NoDay.reserved = 0 /\ NoDay.requests = 0 /\ NoDay.leases = 0
  BY DEF NoDay
<1>5. Summed
  <2> SUFFICES ASSUME NEW a \in Accounts, NEW d \in Days
               PROVE  /\ UsedIn(a, d) = 0 /\ TokensIn(a, d) = 0 /\ HeldIn(a, d) = 0
                      /\ BegunIn(a, d) = 0 /\ LeasedIn(a, d) = 0
    BY <1>1, <1>4 DEF Summed
  <2>1. \A t \in Turns : /\ UsedBy(t, a, d) = 0 /\ TokensBy(t, a, d) = 0
                         /\ BegunBy(t, a, d) = 0 /\ LeasedBy(t, a, d) = 0
    BY <1>1, LimitsAreNumbers DEF UsedBy, TokensBy, BegunBy, LeasedBy, Mine, Counted, Begun
  <2>2. IsFiniteSet(Turns)
    BY LimitsAreNumbers
  <2>3. UsedIn(a, d) = 0
    BY <1>3, <2>1, <2>2 DEF UsedIn
  <2>4. TokensIn(a, d) = 0
    BY <1>3, <2>1, <2>2 DEF TokensIn
  <2>5. BegunIn(a, d) = 0
    BY <1>3, <2>1, <2>2 DEF BegunIn
  <2>6. LeasedIn(a, d) = 0
    BY <1>3, <2>1, <2>2 DEF LeasedIn
  <2>7. HeldIn(a, d) = 0
    BY <1>1, TotalEmpty DEF HeldIn
  <2> QED
    BY <2>3, <2>4, <2>5, <2>6, <2>7
<1>6. Totalled
  <2> SUFFICES ASSUME NEW d \in Days, NEW f \in Fields PROVE totals[d][f] = AllOf(f, d)
    BY DEF Totalled
  <2>1. totals[d][f] = 0 /\ \A a \in Accounts : days[a][d][f] = 0
    BY <1>1, <1>4 DEF Fields
  <2>2. IsFiniteSet(Accounts)
    BY LimitsAreNumbers
  <2>3. AllOf(f, d) = 0
    BY <1>3, <2>1, <2>2 DEF AllOf
  <2> QED
    BY <2>1, <2>3
<1>7. Allowed
  <2>1. \A a \in Accounts, d \in Days : ~UnderWay(a, d)
    BY <1>1 DEF UnderWay
  <2>2. Runtime(NoDay) = 0
    <3>1. 0 * Step = 0
      BY LimitsAreNumbers
    <3> QED
      BY <1>4, <3>1 DEF Runtime
  <2>3. /\ Kept(NoDay, DAILY_TOKENS, DAILY_REQUESTS, DAILY_RUNTIME, DAILY_LEASES)
        /\ Kept(NoDay, GLOBAL_DAILY_TOKENS, GLOBAL_DAILY_REQUESTS, GLOBAL_DAILY_RUNTIME,
                GLOBAL_DAILY_LEASES)
    BY <1>4, <2>2, MostIsMost, LimitsAreNumbers DEF Kept
  <2> QED
    BY <1>1, <2>1, <2>3 DEF Allowed
<1> QED
  BY <1>2, <1>5, <1>6, <1>7 DEF BooksInv

LEMMA BooksKept == IInv /\ BooksInv /\ [Next]_vars => BooksInv'
<1> SUFFICES ASSUME IInv, BooksInv, [Next]_vars PROVE BooksInv'
  OBVIOUS
<1>0. IInv' /\ LeasesSound
  BY InvariantKept DEF BooksInv
<1>1. ASSUME NEW t \in Turns, Thread(t) PROVE BooksInv'
  <2>1. CASE ThreadOnly(t) \/ prepare(t)
    BY <1>0, <2>1, AwayIsQuiet, QuietBooks
  <2>2. CASE allowance(t) \/ _active(t) \/ close(t)
    BY <1>0, <2>2, LedgerIsQuiet, QuietBooks
  <2>3. CASE _send_request(t)
    BY <1>0, <2>3, WorkIsQuiet, QuietBooks
  <2>4. CASE admit(t)
    BY <1>0, <2>4, AdmitBooks
  <2>5. CASE start_step(t)
    BY <1>0, <2>5, StartBooks
  <2>6. CASE finish_unsent(t)
    BY <1>0, <2>6, UnsentBooks
  <2>7. CASE finish_step(t)
    <3>1. CASE finish_measured(t) \/ finish_unmeasured(t)
      BY <1>0, <2>7, <3>1, FinishBooks
    <3>2. CASE finish_unknown(t)
      BY <1>0, <2>7, <3>2, RefusedIsQuiet, QuietBooks
    <3> QED
      BY <2>7, <3>1, <3>2 DEF finish_step
  <2> QED
    BY <1>1, <2>1, <2>2, <2>3, <2>4, <2>5, <2>6, <2>7 DEF Thread, ThreadOnly
<1>2. ASSUME NEW t \in Turns, Worker(t) PROVE BooksInv'
  <2>1. CASE worker_leaves(t) \/ worker_dies(t) \/ agent_ends(t)
    BY <1>0, <2>1, AwayIsQuiet, QuietBooks
  <2>2. CASE work_begins(t) \/ work_ends(t)
    BY <1>0, <2>2, WorkIsQuiet, QuietBooks
  <2> QED
    BY <1>2, <2>1, <2>2 DEF Worker
<1>3. ASSUME Look \/ pause \/ \E t \in Turns : cancel(t) PROVE BooksInv'
  BY <1>0, <1>3, LedgerIsQuiet, QuietBooks
<1>4. ASSUME (\E a \in Accounts : revoke(a)) \/ Restart \/ Advance \/ Regress \/ UNCHANGED vars
      PROVE  BooksInv'
  BY <1>0, <1>4, AwayIsQuiet, QuietBooks
<1> QED
  BY <1>1, <1>2, <1>3, <1>4 DEF Next

(* The model's sums, from those of what each turn adds.                     *)
LEMMA BooksBalance == IInv /\ BooksInv => LedgerBalances
<1> SUFFICES ASSUME IInv, BooksInv PROVE LedgerBalances
  OBVIOUS
<1>0. LeasesSound /\ IsFiniteSet(Turns) /\ IsFiniteSet(Accounts) /\ IsFiniteSet(unmeasured)
  BY LimitsAreNumbers DEF BooksInv, LeasesSound
<1>1. PICK R : R = [t \in Turns |-> IF answer[t] # None /\ \A h \in unmeasured : h.turn # t
                                    THEN answer[t].tokens ELSE 0]
  OBVIOUS
<1>2. PICK Q : Q = [t \in Turns |-> lease[t].tokens]
  OBVIOUS
<1>3. PICK H : H = [h \in unmeasured |-> h.held]
  OBVIOUS
<1>4. /\ \A t \in Turns : R[t] \in Int /\ Q[t] \in Int
      /\ \A h \in unmeasured : H[h] \in Int
  <2>1. \A t \in Turns : R[t] \in Int
    BY <1>1, AnswerTokens
  <2>2. \A t \in Turns : Q[t] \in Int
    BY <1>0, <1>2, LimitsAreNumbers DEF LeasesSound
  <2>3. \A h \in unmeasured : H[h] \in Int
    BY <1>0, <1>3 DEF LeasesSound
  <2> QED
    BY <2>1, <2>2, <2>3
<1>5. ASSUME NEW S, IsFiniteSet(S), NEW T, T \subseteq S, NEW F, NEW G,
             \A y \in S : F[y] \in Int, \A y \in S : G[y] = IF y \in T THEN F[y] ELSE 0
      PROVE  SumFunctionOnSet(F, T) = Total(G, S)
  <2>1. Total(F, T) = Total(G, S)
    BY <1>5, TotalOfPart
  <2>2. IsFiniteSet(T)
    BY <1>5, FS_Subset
  <2> QED
    BY <2>1, <2>2, SumIsTotal
<1>6. ASSUME NEW T, T \subseteq Turns, NEW G, \A t \in Turns : G[t] = IF t \in T THEN 1 ELSE 0
      PROVE  Cardinality(T) = Total(G, Turns)
  <2>1. PICK F : F = [t \in Turns |-> 1]
    OBVIOUS
  <2>2. IsFiniteSet(T) /\ \A t \in T : F[t] = 1
    BY <1>0, <1>6, <2>1, FS_Subset
  <2>3. Total(F, T) = Cardinality(T)
    BY <2>2, TotalOfOnes
  <2>4. (\A t \in Turns : F[t] \in Int) /\ \A t \in Turns : G[t] = IF t \in T THEN F[t] ELSE 0
    BY <1>6, <2>1
  <2>5. Total(F, T) = Total(G, Turns)
    BY <1>0, <1>6, <2>4, TotalOfPart
  <2> QED
    BY <2>3, <2>5
<1>7. ASSUME NEW a \in Accounts, NEW d \in Days
      PROVE  LET of == TurnsOf(a, d)
                 begun == {t \in of : lease[t].step = "active" \/ (lease[t].step = "ended" /\ t \in asked)}
             IN  /\ days[a][d].used = SumFunctionOnSet(R, {t \in begun : lease[t].step = "ended"})
                 /\ days[a][d].reserved = SumFunctionOnSet(Q, of) + SumFunctionOnSet(H, HoldsOf(a, d))
                 /\ days[a][d].requests = Cardinality(begun)
                 /\ days[a][d].leases = Cardinality(begun \cup {t \in of : lease[t].step = "none"})
  <2> DEFINE of == TurnsOf(a, d)
             begun == {t \in of : lease[t].step = "active" \/ (lease[t].step = "ended" /\ t \in asked)}
             ended == {t \in begun : lease[t].step = "ended"}
             leased == begun \cup {t \in of : lease[t].step = "none"}
  <2>1. /\ of \subseteq Turns /\ begun \subseteq Turns /\ ended \subseteq Turns /\ leased \subseteq Turns
        /\ HoldsOf(a, d) \subseteq unmeasured
    BY DEF TurnsOf, HoldsOf
  <2>2. \A t \in Turns : /\ t \in of <=> Mine(t, a, d)
                         /\ t \in begun <=> Mine(t, a, d) /\ Begun(t)
                         /\ t \in ended <=> Mine(t, a, d) /\ Counted(t)
                         /\ t \in leased <=> Mine(t, a, d) /\ (Begun(t) \/ lease[t].step = "none")
    BY DEF TurnsOf, Mine, Begun, Counted
  <2>3. \A h \in unmeasured : h \in HoldsOf(a, d) <=> h.account = a /\ h.day = d
    BY DEF HoldsOf
  <2> HIDE DEF of, begun, ended, leased
  <2>4. SumFunctionOnSet(R, ended) = UsedIn(a, d)
    <3>1. PICK G : G = [t \in Turns |-> UsedBy(t, a, d)]
      OBVIOUS
    <3>2. \A t \in Turns : G[t] = IF t \in ended THEN R[t] ELSE 0
      BY <1>1, <2>2, <3>1 DEF UsedBy, Measured
    <3> QED
      BY <1>0, <1>4, <1>5, <2>1, <3>1, <3>2 DEF UsedIn
  <2>5. SumFunctionOnSet(Q, of) = TokensIn(a, d)
    <3>1. PICK G : G = [t \in Turns |-> TokensBy(t, a, d)]
      OBVIOUS
    <3>2. \A t \in Turns : G[t] = IF t \in of THEN Q[t] ELSE 0
      BY <1>2, <2>2, <3>1 DEF TokensBy
    <3> QED
      BY <1>0, <1>4, <1>5, <2>1, <3>1, <3>2 DEF TokensIn
  <2>6. SumFunctionOnSet(H, HoldsOf(a, d)) = HeldIn(a, d)
    <3>1. PICK G : G = [h \in unmeasured |-> HeldBy(h, a, d)]
      OBVIOUS
    <3>2. \A h \in unmeasured : G[h] = IF h \in HoldsOf(a, d) THEN H[h] ELSE 0
      BY <1>3, <2>3, <3>1 DEF HeldBy
    <3> QED
      BY <1>0, <1>4, <1>5, <2>1, <3>1, <3>2 DEF HeldIn
  <2>7. Cardinality(begun) = BegunIn(a, d)
    <3>1. PICK G : G = [t \in Turns |-> BegunBy(t, a, d)]
      OBVIOUS
    <3>2. \A t \in Turns : G[t] = IF t \in begun THEN 1 ELSE 0
      BY <2>2, <3>1 DEF BegunBy
    <3> QED
      BY <1>6, <2>1, <3>1, <3>2 DEF BegunIn
  <2>8. Cardinality(leased) = LeasedIn(a, d)
    <3>1. PICK G : G = [t \in Turns |-> LeasedBy(t, a, d)]
      OBVIOUS
    <3>2. \A t \in Turns : G[t] = IF t \in leased THEN 1 ELSE 0
      BY <2>2, <3>1 DEF LeasedBy
    <3> QED
      BY <1>6, <2>1, <3>1, <3>2 DEF LeasedIn
  <2>9. /\ days[a][d].used = SumFunctionOnSet(R, ended)
        /\ days[a][d].reserved = SumFunctionOnSet(Q, of) + SumFunctionOnSet(H, HoldsOf(a, d))
        /\ days[a][d].requests = Cardinality(begun)
        /\ days[a][d].leases = Cardinality(leased)
    BY <2>4, <2>5, <2>6, <2>7, <2>8 DEF BooksInv, Summed
  <2> QED
    BY <2>9 DEF of, begun, ended, leased
<1>8. ASSUME NEW d \in Days, NEW f \in {"used", "reserved", "requests", "leases"}
      PROVE  totals[d][f] = SumFunctionOnSet([a \in Accounts |-> days[a][d][f]], Accounts)
  <2>1. PICK F : F = [a \in Accounts |-> days[a][d][f]]
    OBVIOUS
  <2>2. SumFunctionOnSet(F, Accounts) = Total(F, Accounts)
    BY <1>0, SumIsTotal
  <2>3. totals[d][f] = AllOf(f, d)
    BY DEF BooksInv, Totalled, Fields
  <2> QED
    BY <2>1, <2>2, <2>3 DEF AllOf
<1> QED
  BY <1>1, <1>2, <1>3, <1>7, <1>8, Zenon DEF LedgerBalances

(* Whatever is reserved, sent, measured, held or given back, and in         *)
(* whatever order: the two ledgers agree with what the turns did, the       *)
(* day's row with the accounts' rows, and a day's allowance is passed by    *)
(* one turn's report at most.                                               *)
THEOREM LedgerKeptAlways == Spec => []LedgerKept
<1>1. Init => IInv /\ BooksInv
  BY InitEstablishes, BooksStart
<1>2. IInv /\ BooksInv /\ [Next]_vars => (IInv /\ BooksInv)'
  BY InvariantKept, BooksKept
<1>3. IInv /\ BooksInv => LedgerKept
  <2> SUFFICES ASSUME IInv, BooksInv PROVE LedgerKept
    OBVIOUS
  <2>1. AllowanceKept
    BY DEF BooksInv, Allowed, Kept, AllowanceKept, Most
  <2> QED
    BY <2>1, BooksBalance DEF LedgerKept
<1> QED
  BY <1>1, <1>2, <1>3, PTL DEF Spec

-----------------------------------------------------------------------------
(* What the types ask for besides.                                          *)
HoldRecords == [turn : Turns, account : Accounts, day : Days, held : Nat, known : Nat]

Timed(t) == lease[t].expires \in Nat /\ lease[t].deadline \in Nat

RestTyped ==
  /\ regressed \in 0..MaxRegress /\ paused \in BOOLEAN
  /\ \A t \in Turns : Timed(t)
  /\ unmeasured \subseteq HoldRecords
  /\ \A t \in Turns : permit[t] \in 0..TOKENS
  /\ revoked \subseteq Turns
  /\ readiness \in Turns \cup {None} /\ book \in Turns \cup {None}

LEMMA SweptTimed ==
  ASSUME IInv, NEW t \in Turns, Timed(t)
  PROVE  Swept[t].expires \in Nat /\ Swept[t].deadline \in Nat
BY DEF IInv, Typed, Swept, Sessions, Timed

(* The clock goes back no more often than it may, and the trial is paused   *)
(* or not.                                                                  *)
LEMMA ControlTyped ==
  ASSUME RestTyped, [Next]_vars
  PROVE  /\ regressed' \in 0..MaxRegress /\ paused' \in BOOLEAN
         /\ revoked' \subseteq Turns
         /\ readiness' \in Turns \cup {None} /\ book' \in Turns \cup {None}
<1>1. ASSUME NEW t \in Turns, Thread(t)
      PROVE  /\ UNCHANGED <<regressed, revoked>>
             /\ readiness' \in {readiness, None, t} /\ book' \in {book, None, t}
  BY <1>1 DEF Thread, allowance, readiness_lock, prepare, prepare_fails, admit, start_step, close,
     _active, _send_request, _receipt, perform_fails, finish_unsent, finish_step, finish_measured,
     finish_unmeasured, finish_unknown, settlement_fails, Over, clockVars
<1>2. ASSUME NEW t \in Turns, Thread(t) PROVE paused' \in BOOLEAN
  <2>1. CASE paused' = paused \/ paused' = Halted
    BY <2>1 DEF RestTyped, Halted
  <2>2. CASE finish_unsent(t) \/ finish_step(t)
    BY <2>2 DEF finish_unsent, finish_step, finish_measured, finish_unmeasured, finish_unknown, Halted
  <2> QED
    BY <1>2, <2>1, <2>2 DEF Thread, allowance, readiness_lock, prepare, prepare_fails, admit, start_step,
       close, _active, _send_request, _receipt, perform_fails, settlement_fails, Ticked, ledgerVars
<1>3. ASSUME NEW t \in Turns, Worker(t) \/ cancel(t)
      PROVE  /\ UNCHANGED <<regressed, revoked, readiness, book>> /\ paused' \in {paused, Halted}
  BY <1>3 DEF Worker, work_begins, work_ends, worker_leaves, worker_dies, agent_ends, cancel, clockVars,
     ledgerVars, threadVars
<1>4. ASSUME (\E a \in Accounts : revoke(a)) \/ Restart \/ pause \/ Look \/ UNCHANGED vars
      PROVE  /\ UNCHANGED regressed /\ paused' \in {paused, TRUE, Halted}
             /\ revoked' \subseteq revoked \cup Turns
             /\ readiness' \in {readiness, None} /\ book' \in {book, None}
  BY <1>4 DEF revoke, Restart, pause, Look, Ticked, vars, clockVars, ledgerVars, threadVars
<1>5. ASSUME Advance \/ Regress
      PROVE  /\ regressed' \in 0..MaxRegress
             /\ UNCHANGED <<paused, revoked, readiness, book>>
  BY <1>5, TrialAssumption DEF Advance, Regress, RestTyped, ledgerVars, threadVars
<1>6. Halted \in BOOLEAN
  BY DEF Halted
<1> QED
  BY <1>1, <1>2, <1>3, <1>4, <1>5, <1>6 DEF Next, RestTyped

LEMMA PermitTyped ==
  ASSUME IInv, BooksInv, RestTyped, [Next]_vars
  PROVE  \A t \in Turns : permit'[t] \in 0..TOKENS
<1>1. ASSUME NEW t \in Turns, start_step(t), permit' # permit PROVE \A u \in Turns : permit'[u] \in 0..TOKENS
  <2>0. PICK a0 \in Accounts, d0 \in Days : a0 = account[t] /\ d0 = Swept[t].day
    BY SweepMoves DEF IInv, Typed, Sessions
  <2>1. PICK n : n = Reservable(a0, d0)
    OBVIOUS
  <2>2. permit' = [permit EXCEPT ![t] = n] /\ n > 0
    BY <1>1, <2>0, <2>1 DEF start_step, Startable
  <2>3. n \in Int /\ n <= TOKENS
    <3>1. days[a0][d0].used \in Int /\ days[a0][d0].reserved \in Int
      BY RowsAreNumbers
    <3>2. totals[d0].used \in Int /\ totals[d0].reserved \in Int
      BY RowsAreNumbers
    <3> QED
      BY <2>1, <3>1, <3>2, LimitsAreNumbers DEF Reservable, Min2
  <2>4. n \in 0..TOKENS
    BY <2>2, <2>3, LimitsAreNumbers
  <2> QED
    BY <2>2, <2>4 DEF RestTyped, IInv, Typed
<1>2. ASSUME NEW t \in Turns, start_step(t) PROVE \A u \in Turns : permit'[u] \in 0..TOKENS
  BY <1>1, <1>2 DEF RestTyped
<1>3. ASSUME ~\E t \in Turns : start_step(t) PROVE UNCHANGED permit
  <2>1. ASSUME NEW t \in Turns, Thread(t), ~start_step(t) PROVE UNCHANGED permit
    BY <2>1 DEF Thread, allowance, readiness_lock, prepare, prepare_fails, admit, close,
     _active, _send_request, _receipt, perform_fails, finish_unsent, finish_step, settlement_fails
  <2>2. ASSUME NEW t \in Turns, Worker(t) \/ cancel(t) PROVE UNCHANGED permit
    BY <2>2 DEF Worker, work_begins, work_ends, worker_leaves, worker_dies, agent_ends, cancel, threadVars
  <2>3. ASSUME \/ (\E a \in Accounts : revoke(a)) \/ Restart \/ pause \/ Look \/ Advance \/ Regress
               \/ UNCHANGED vars
        PROVE  UNCHANGED permit
    BY <2>3 DEF revoke, Restart, pause, Look, Advance, Regress, vars, threadVars
  <2> QED
    BY <1>3, <2>1, <2>2, <2>3 DEF Next
<1> QED
  BY <1>2, <1>3 DEF RestTyped

LEMMA HoldsTyped ==
  ASSUME IInv, BooksInv, RestTyped, [Next]_vars
  PROVE  unmeasured' \subseteq HoldRecords
<1>1. ASSUME NEW t \in Turns, finish_step(t), finish_unmeasured(t)
      PROVE  unmeasured' \subseteq HoldRecords
  <2>1. lease[t].step = "active"
    BY <1>1, SweepMoves DEF finish_step, _permit_matches
  <2>2. /\ Swept[t].account \in Accounts /\ Swept[t].day \in Days /\ Swept[t].tokens \in Nat
    BY <2>1, SettledTurn, SweepMoves, LimitsAreNumbers
  <2>3. receipt[t].tokens \in Nat
    BY <1>1, ReceiptTells DEF finish_unmeasured
  <2>4. Held(t) \in Nat
    BY <2>2, <2>3 DEF Held
  <2>5. [turn |-> t, account |-> Swept[t].account, day |-> Swept[t].day,
         held |-> Held(t), known |-> receipt[t].tokens] \in HoldRecords
    BY <2>2, <2>3, <2>4 DEF HoldRecords
  <2> QED
    BY <1>1, <2>5 DEF finish_unmeasured, RestTyped
<1>2. ASSUME NEW t \in Turns, Thread(t), ~(finish_step(t) /\ finish_unmeasured(t))
      PROVE  UNCHANGED unmeasured
  BY <1>2 DEF Thread, allowance, readiness_lock, prepare, prepare_fails, admit, start_step, close,
     _active, _send_request, _receipt, perform_fails, finish_unsent, finish_step, finish_measured,
     finish_unknown, settlement_fails, ledgerVars
<1>3. ASSUME NEW t \in Turns, Worker(t) \/ cancel(t) PROVE UNCHANGED unmeasured
  BY <1>3 DEF Worker, work_begins, work_ends, worker_leaves, worker_dies, agent_ends, cancel, ledgerVars
<1>4. ASSUME \/ (\E a \in Accounts : revoke(a)) \/ Restart \/ pause \/ Look \/ Advance \/ Regress
             \/ UNCHANGED vars
      PROVE  UNCHANGED unmeasured
  BY <1>4 DEF revoke, Restart, pause, Look, Advance, Regress, vars, ledgerVars
<1> QED
  BY <1>1, <1>2, <1>3, <1>4 DEF Next, RestTyped

(* The times a lease is given are times.                                    *)
LEMMA TimesTyped ==
  ASSUME IInv, RestTyped, [Next]_vars
  PROVE  \A t \in Turns : Timed(t)'
<1>0. /\ Swept \in [Turns -> Sessions] /\ lease \in [Turns -> Sessions]
      /\ \A t \in Turns : Swept[t].expires \in Nat /\ Swept[t].deadline \in Nat
      /\ \A t \in Turns : lease[t].expires \in Nat /\ lease[t].deadline \in Nat
  BY SweepMoves, SweptTimed DEF IInv, Typed, RestTyped, Timed
<1>1. ASSUME lease' = lease \/ lease' = Swept PROVE \A t \in Turns : Timed(t)'
  BY <1>0, <1>1 DEF Timed
<1>2. ASSUME NEW t \in Turns, NEW state, lease' = [Swept EXCEPT ![t].state = state]
      PROVE  \A u \in Turns : Timed(u)'
  BY <1>0, <1>2 DEF Timed, Sessions
<1>3. ASSUME NEW t \in Turns, NEW r, lease' = [Swept EXCEPT ![t] = r],
             r.expires \in Nat, r.deadline \in Nat
      PROVE  \A u \in Turns : Timed(u)'
  BY <1>0, <1>3 DEF Timed
<1>4. ASSUME NEW r \in Sessions, NEW state \in {"open", "closing", "closed"}, r.expires \in Nat
      PROVE  LET s == [r EXCEPT !.state = state, !.step = "ended", !.deadline = 0, !.tokens = 0]
             IN  s.expires \in Nat /\ s.deadline \in Nat
  <2> DEFINE s1 == [r EXCEPT !.state = state, !.step = "ended"]
             s2 == [s1 EXCEPT !.deadline = 0]
             s3 == [s2 EXCEPT !.tokens = 0]
  <2>1. s1 \in Sessions /\ s1.expires = r.expires
    BY DEF Sessions
  <2>2. s2 \in Sessions /\ s2.expires = s1.expires /\ s2.deadline = 0
    <3> HIDE DEF s1
    <3> QED
      BY <2>1 DEF Sessions
  <2>3. s3.expires = s2.expires /\ s3.deadline = s2.deadline
    <3> HIDE DEF s2
    <3> QED
      BY <2>2 DEF Sessions
  <2>4. s3 = [r EXCEPT !.state = state, !.step = "ended", !.deadline = 0, !.tokens = 0]
    BY <2>1 DEF Sessions
  <2> HIDE DEF s1, s2, s3
  <2> QED
    BY <1>4, <2>1, <2>2, <2>3, <2>4
<1>5. ASSUME NEW t \in Turns, Thread(t) PROVE \A u \in Turns : Timed(u)'
  <2>1. CASE admit(t)
    <3>1. PICK n : n = Min2(Now + Lease, (DayOf(Now) + 1) * Day)
      OBVIOUS
    <3>2. n \in Nat
      <4>1. ASSUME NEW i \in Nat, NEW j \in Nat PROVE (i + 1) * j \in Nat
        BY SMTT(30)
      <4>2. Now \in Nat /\ DayOf(Now) \in Nat /\ Day \in Nat /\ Lease \in Nat
        BY NowInRange, TrialAssumption DEF Times, Days
      <4>3. (DayOf(Now) + 1) * Day \in Nat /\ Now + Lease \in Nat
        BY <4>1, <4>2
      <4> QED
        BY <3>1, <4>3 DEF Min2
    <3>3. PICK r : r = [state |-> "open", account |-> account[t], day |-> DayOf(Now), expires |-> n,
                        step |-> "none", deadline |-> 0, tokens |-> 0]
      OBVIOUS
    <3>4. r.expires \in Nat /\ r.deadline \in Nat
      BY <3>2, <3>3
    <3>5. lease' = Swept \/ lease' = [Swept EXCEPT ![t] = r]
      BY <2>1, <3>1, <3>3 DEF admit
    <3> QED
      BY <1>1, <1>3, <3>4, <3>5
  <2>2. CASE start_step(t)
    <3>1. PICK n, m : n = Reservable(account[t], Swept[t].day) /\ m = Now + Step
      OBVIOUS
    <3>2. m \in Nat
      BY <3>1, NowInRange, TrialAssumption DEF Times
    <3>3. lease' = Swept \/ lease' = [Swept EXCEPT ![t].step = "active", ![t].tokens = n, ![t].deadline = m]
      BY <2>2, <3>1 DEF start_step
    <3> QED
      BY <1>0, <1>1, <3>2, <3>3 DEF Timed, Sessions
  <2>3. CASE finish_unsent(t)
    <3> DEFINE s == [lease[t] EXCEPT !.state = "closed", !.step = "ended", !.deadline = 0, !.tokens = 0]
    <3>1. lease' = [Swept EXCEPT ![t] = s]
      BY <1>0, <2>3 DEF finish_unsent, Ended
    <3>2. s.expires \in Nat /\ s.deadline \in Nat
      BY <1>0, <1>4
    <3> HIDE DEF s
    <3> QED
      BY <1>3, <3>1, <3>2
  <2>4. CASE finish_step(t)
    <3>1. ASSUME NEW state \in {"open", "closing", "closed"}, lease' = Ended(Swept, t, state)
          PROVE  \A u \in Turns : Timed(u)'
      <4> DEFINE s == [Swept[t] EXCEPT !.state = state, !.step = "ended", !.deadline = 0, !.tokens = 0]
      <4>1. lease' = [Swept EXCEPT ![t] = s]
        BY <1>0, <3>1 DEF Ended
      <4>2. s.expires \in Nat /\ s.deadline \in Nat
        BY <1>0, <1>4
      <4> HIDE DEF s
      <4> QED
        BY <1>3, <4>1, <4>2
    <3>2. \/ \E state \in {"open", "closing", "closed"} : lease' = Ended(Swept, t, state)
          \/ lease' = [Swept EXCEPT ![t].state = "closing"]
      <4>1. Swept[t].state \in {"open", "closing"}
        <5>1. lease[t].step = "active"
          BY <2>4, SweepMoves DEF finish_step, _permit_matches
        <5>2. lease[t].state \in {"open", "closing"}
          BY <5>1 DEF IInv, OneLease, Live
        <5> QED
          BY <5>1, <5>2, SweepMoves
      <4> QED
        BY <2>4, <4>1 DEF finish_step, finish_measured, finish_unmeasured, finish_unknown
    <3> QED
      BY <1>2, <3>1, <3>2
  <2>5. CASE close(t)
    <3>1. lease' = Swept \/ lease' = [Swept EXCEPT ![t].state = "closed"]
      BY <2>5 DEF close, Closed
    <3> QED
      BY <1>1, <1>2, <3>1
  <2>6. CASE ~(admit(t) \/ start_step(t) \/ finish_unsent(t) \/ finish_step(t) \/ close(t))
    <3>1. lease' = lease \/ lease' = Swept
      BY <1>5, <2>6 DEF Thread, allowance, readiness_lock, prepare, prepare_fails, _active, _send_request,
         _receipt, perform_fails, settlement_fails, Ticked, ledgerVars
    <3> QED
      BY <1>1, <3>1
  <2> QED
    BY <2>1, <2>2, <2>3, <2>4, <2>5, <2>6
<1>6. ASSUME NEW t \in Turns, Worker(t) \/ cancel(t) PROVE \A u \in Turns : Timed(u)'
  <2>1. lease' = lease \/ lease' = Swept \/ lease' = [Swept EXCEPT ![t].state = "closing"]
    BY <1>6 DEF Worker, work_begins, work_ends, worker_leaves, worker_dies, agent_ends, cancel, ledgerVars
  <2> QED
    BY <1>1, <1>2, <2>1
<1>7. ASSUME \/ (\E a \in Accounts : revoke(a)) \/ Restart \/ pause \/ Look \/ Advance \/ Regress
             \/ UNCHANGED vars
      PROVE  \A u \in Turns : Timed(u)'
  <2>1. lease' = lease \/ lease' = Swept
    BY <1>7 DEF revoke, Restart, pause, Look, Ticked, Advance, Regress, vars, ledgerVars
  <2> QED
    BY <1>1, <2>1
<1> QED
  BY <1>5, <1>6, <1>7 DEF Next

LEMMA RestStart == Init => RestTyped
<1> SUFFICES ASSUME Init PROVE RestTyped
  OBVIOUS
<1>1. 0 \in 0..MaxRegress /\ 0 \in 0..TOKENS /\ 0 \in Nat
  BY TrialAssumption
<1>2. /\ regressed = 0 /\ paused = FALSE /\ unmeasured = {} /\ revoked = {}
      /\ readiness = None /\ book = None
      /\ \A t \in Turns : permit[t] = 0 /\ lease[t] = NoLease
  BY DEF Init
<1>3. NoLease.expires = 0 /\ NoLease.deadline = 0
  BY DEF NoLease
<1> QED
  BY <1>1, <1>2, <1>3 DEF RestTyped, Timed

LEMMA RestKept == IInv /\ BooksInv /\ RestTyped /\ [Next]_vars => RestTyped'
<1> SUFFICES ASSUME IInv, BooksInv, RestTyped, [Next]_vars PROVE RestTyped'
  OBVIOUS
<1>1. /\ regressed' \in 0..MaxRegress /\ paused' \in BOOLEAN
      /\ revoked' \subseteq Turns
      /\ readiness' \in Turns \cup {None} /\ book' \in Turns \cup {None}
  BY ControlTyped
<1>2. \A t \in Turns : permit'[t] \in 0..TOKENS
  BY PermitTyped
<1>3. unmeasured' \subseteq HoldRecords
  BY HoldsTyped
<1>4. \A t \in Turns : Timed(t)'
  BY TimesTyped
<1> QED
  BY <1>1, <1>2, <1>3, <1>4 DEF RestTyped, HoldRecords

(* No row is ever driven below zero: each is a sum of what is not.          *)
LEMMA RowsAreNatural ==
  ASSUME IInv, BooksInv
  PROVE  days \in [Accounts -> [Days -> DayRecords]] /\ totals \in [Days -> DayRecords]
<1>0. LeasesSound /\ IsFiniteSet(Turns) /\ IsFiniteSet(Accounts) /\ IsFiniteSet(unmeasured)
  BY LimitsAreNumbers DEF BooksInv, LeasesSound
<1>1. ASSUME NEW a \in Accounts, NEW d \in Days
      PROVE  /\ days[a][d].used \in Nat /\ days[a][d].reserved \in Nat
             /\ days[a][d].requests \in Nat /\ days[a][d].leases \in Nat
  <2>1. UsedIn(a, d) \in Nat
    <3>1. PICK F : F = [t \in Turns |-> UsedBy(t, a, d)]
      OBVIOUS
    <3>2. \A t \in Turns : F[t] \in Nat
      BY <1>0, <3>1, AddsNumbers
    <3> QED
      BY <1>0, <3>1, <3>2, TotalNat DEF UsedIn
  <2>2. TokensIn(a, d) \in Nat
    <3>1. PICK F : F = [t \in Turns |-> TokensBy(t, a, d)]
      OBVIOUS
    <3>2. \A t \in Turns : F[t] \in Nat
      BY <1>0, <3>1, AddsNumbers
    <3> QED
      BY <1>0, <3>1, <3>2, TotalNat DEF TokensIn
  <2>3. BegunIn(a, d) \in Nat
    <3>1. PICK F : F = [t \in Turns |-> BegunBy(t, a, d)]
      OBVIOUS
    <3>2. \A t \in Turns : F[t] \in Nat
      BY <1>0, <3>1, AddsNumbers
    <3> QED
      BY <1>0, <3>1, <3>2, TotalNat DEF BegunIn
  <2>4. LeasedIn(a, d) \in Nat
    <3>1. PICK F : F = [t \in Turns |-> LeasedBy(t, a, d)]
      OBVIOUS
    <3>2. \A t \in Turns : F[t] \in Nat
      BY <1>0, <3>1, AddsNumbers
    <3> QED
      BY <1>0, <3>1, <3>2, TotalNat DEF LeasedIn
  <2>5. HeldIn(a, d) \in Nat
    <3>1. PICK F : F = [h \in unmeasured |-> HeldBy(h, a, d)]
      OBVIOUS
    <3>2. \A h \in unmeasured : F[h] \in Nat
      BY <1>0, <3>1, HoldsAreNumbers
    <3> QED
      BY <1>0, <3>1, <3>2, TotalNat DEF HeldIn
  <2>6. /\ days[a][d].used = UsedIn(a, d) /\ days[a][d].reserved = TokensIn(a, d) + HeldIn(a, d)
        /\ days[a][d].requests = BegunIn(a, d) /\ days[a][d].leases = LeasedIn(a, d)
    BY DEF BooksInv, Summed
  <2> QED
    BY <2>1, <2>2, <2>3, <2>4, <2>5, <2>6
<1>2. ASSUME NEW d \in Days, NEW f \in Fields PROVE totals[d][f] \in Nat
  <2>1. PICK F : F = [a \in Accounts |-> days[a][d][f]]
    OBVIOUS
  <2>2. \A a \in Accounts : F[a] \in Nat
    BY <1>1, <2>1 DEF Fields
  <2> QED
    BY <1>0, <2>1, <2>2, TotalNat DEF BooksInv, Totalled, AllOf
<1>3. ASSUME NEW row \in Rows, row.used \in Nat, row.reserved \in Nat, row.requests \in Nat,
             row.leases \in Nat
      PROVE  row \in DayRecords
  BY <1>3 DEF Rows, DayRecords
<1>4. /\ \A a \in Accounts, d \in Days : days[a][d] \in Rows
      /\ \A d \in Days : totals[d] \in Rows
      /\ days \in [Accounts -> [Days -> Rows]] /\ totals \in [Days -> Rows]
  BY DEF IInv, Typed
<1>5. \A a \in Accounts, d \in Days : days[a][d] \in DayRecords
  BY <1>1, <1>3, <1>4
<1>6. \A d \in Days : totals[d] \in DayRecords
  BY <1>2, <1>3, <1>4 DEF Fields
<1> QED
  BY <1>4, <1>5, <1>6

(* Every variable keeps the type of its column; the ledger's CHECK          *)
(* constraints never refuse a write.                                        *)
THEOREM TypeOKAlways == Spec => []TypeOK
<1>1. Init => IInv /\ BooksInv /\ RestTyped
  BY InitEstablishes, BooksStart, RestStart
<1>2. IInv /\ BooksInv /\ RestTyped /\ [Next]_vars => (IInv /\ BooksInv /\ RestTyped)'
  BY InvariantKept, BooksKept, RestKept
<1>3. IInv /\ BooksInv /\ RestTyped => TypeOK
  <2> SUFFICES ASSUME IInv, BooksInv, RestTyped PROVE TypeOK
    OBVIOUS
  <2>1. ASSUME NEW t \in Turns PROVE lease[t] \in LeaseRecords
    <3>1. lease[t] \in Sessions /\ lease[t].expires \in Nat /\ lease[t].deadline \in Nat
      BY DEF IInv, Typed, RestTyped, Timed
    <3>2. lease[t].tokens \in 0..TOKENS
      BY LimitsAreNumbers DEF BooksInv, LeasesSound
    <3> QED
      BY <3>1, <3>2 DEF Sessions, LeaseRecords
  <2>2. lease \in [Turns -> LeaseRecords]
    BY <2>1 DEF IInv, Typed
  <2>3. permit \in [Turns -> 0..TOKENS]
    BY DEF IInv, Typed, RestTyped
  <2> QED
    BY <2>2, <2>3, RowsAreNatural DEF IInv, Typed, RestTyped, TypeOK, HoldRecords, Phases
<1> QED
  BY <1>1, <1>2, <1>3, PTL DEF Spec
=============================================================================

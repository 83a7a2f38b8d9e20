------------------------------ MODULE MCServer ------------------------------
(* Components of the server that share no state, checked in one run: the     *)
(* gateway, outages, alerts, browser sessions, trial keys, the names of      *)
(* machines and slots, and prepaid credit.  `focus`, chosen at the start, is *)
(* the component that moves; the others stay where they begin, so the states *)
(* reached are those of each alone, side by side.  Prepaid credit has two    *)
(* instances: the months a slot is bought for, with the constants of the     *)
(* configuration, and the top-ups, which Stripe may review.                  *)
EXTENDS Gateway, Outages, Alerts, Sessions, TrialAccess, Naming, Wallet

VARIABLE focus    \* the component that moves

(* What a machine may say of itself and its slot: all well; a credential     *)
(* that runs out and a failed compatibility check; a slot that says little,  *)
(* from another address; a refused renewal and a full disk; a user that is   *)
(* gone after a wipe that failed, and an account the server knows elsewhere. *)
Quiet ==
  [disk |-> "ok", ip |-> 1, present |-> "yes", wipeError |-> FALSE, setupError |-> FALSE,
   signed |-> "yes", fp |-> "f1", bound |-> "f1", moving |-> FALSE, expires |-> 0,
   renewal |-> "current", checkedAt |-> 0, compat |-> "passed"]
MCSlotShapes ==
  {Quiet,
   [Quiet EXCEPT !.expires = 1, !.compat = "failed"],
   [Quiet EXCEPT !.signed = "unsaid", !.fp = "none", !.compat = "pending", !.ip = 2],
   [Quiet EXCEPT !.renewal = "terminal", !.checkedAt = 2, !.disk = "high"],
   [Quiet EXCEPT !.present = "no", !.signed = "unsaid", !.wipeError = TRUE, !.fp = "f2"]}
Own == [disk |-> "ok", ip |-> 1, claude |-> "ours", signed |-> "yes", fp |-> "f1",
        expires |-> 0, quota |-> "low", rc |-> TRUE]
MCOwnShapes == {Own, [Own EXCEPT !.claude = "none", !.quota = "spent"]}

(* Where top-ups move, a slot that was claimed stays as it is: all that      *)
(* becomes of it is among the months.                                        *)
Topups == INSTANCE Wallet WITH
  Prices <- {2}, MAX_CENTS <- 3, MaxForms <- 2, Shown <- {"topup", "purchase"},
  MaxClaims <- 1, MaxReviews <- 1
TopupsNext == Topups!Next /\ \A s \in Slots : state'[s] \in {"free", "claiming"}

ServerInit ==
  /\ focus \in {"gateway", "outages", "alerts", "sessions", "trial access", "names",
                "months", "topups"}
  /\ GwInit /\ OutInit /\ AlInit /\ SesInit /\ TaInit /\ NmInit
  /\ IF focus = "topups" THEN Topups!Init ELSE Init
  /\ focus \notin {"months", "topups"} => price = [s \in Slots |-> CHOOSE p \in Prices : TRUE]

OthersWait(still) == UNCHANGED <<focus, still>>

\* What the site keeps beside the wallet.
siteVars == <<gwVars, outVars, alVars, sesVars, taVars, nmVars>>

ServerNext ==
  \/ focus = "gateway" /\ GwNext /\ OthersWait(<<outVars, alVars, sesVars, taVars, nmVars, vars>>)
  \/ focus = "outages" /\ OutNext /\ OthersWait(<<gwVars, alVars, sesVars, taVars, nmVars, vars>>)
  \/ focus = "alerts" /\ AlNext /\ OthersWait(<<gwVars, outVars, sesVars, taVars, nmVars, vars>>)
  \/ focus = "sessions" /\ SesNext /\ OthersWait(<<gwVars, outVars, alVars, taVars, nmVars, vars>>)
  \/ focus = "trial access" /\ TaNext
     /\ OthersWait(<<gwVars, outVars, alVars, sesVars, nmVars, vars>>)
  \/ focus = "names" /\ NmNext /\ OthersWait(<<gwVars, outVars, alVars, sesVars, taVars, vars>>)
  \/ focus = "months" /\ Next /\ OthersWait(siteVars)
  \/ focus = "topups" /\ TopupsNext /\ OthersWait(siteVars)

ServerSpec == ServerInit /\ [][ServerNext]_<<focus, siteVars, vars>>

(* Of the component that moves, that every variable holds what its code may  *)
(* put there; the others are where they began.                               *)
ServerTypeOK ==
  CASE focus = "gateway" -> GwTypeOK
    [] focus = "outages" -> OutTypeOK
    [] focus = "alerts" -> AlTypeOK
    [] focus = "sessions" -> SesTypeOK
    [] focus = "trial access" -> TaTypeOK
    [] focus = "names" -> NmTypeOK
    [] focus = "months" -> TypeOK
    [] focus = "topups" -> Topups!TypeOK

(* Who is who: a session is of the person who signed in at that browser, the *)
(* trial's keys do not get round its rate limit, and a name or an id never   *)
(* comes to stand for another machine, slot or holder.                       *)
AccessSound == SessionsSound /\ RateKept /\ NamingSound

(* What is told of a machine is what happened: outage mail is of outages     *)
(* that were, and an alert closes or opens only on word of what it is about. *)
NewsSound == NewsIsTrue /\ AlertsNeedWord
=============================================================================

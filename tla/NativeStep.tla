----------------------------- MODULE NativeStep -----------------------------
(***************************************************************************)
(* One request to the Devin agent on a slot (devin_relay.serve,            *)
(* devin_native.run_step), from the status frame to the answer.  A worker  *)
(* of its own serves each request: it reserves the request's identity for  *)
(* good, starts the native agent with a shim of the caller's tools         *)
(* (devin_mcp.serve), prompts it once over ACP (devin_acp), and watches    *)
(* for whichever comes first, a tool call the shim has published or the    *)
(* end of the turn; then it kills all it started, and answers.             *)
(*                                                                         *)
(* Meanwhile the root grant is withdrawn, renewed, or given to the next    *)
(* holder; the client hangs up; the agent and the shim do as they like;    *)
(* workers are killed.  What the request and the answer say is left out:   *)
(* an answer is a text, a tool call or an error.                           *)
(***************************************************************************)
EXTENDS Integers, Sequences

CONSTANTS
  NsRequests,     \* the identities Fleet gives to requests
  NsMaxRuns,      \* bound: workers started
  NsMaxGrants,    \* bound: changes of the grant
  NsAtTheEdge     \* whether a turn may end in the instant its deadline passes

ASSUME NativeAssumption ==
  NsMaxRuns \in Nat /\ NsMaxGrants \in Nat /\ NsAtTheEdge \in BOOLEAN

VARIABLES
  nsHolder,     \* the claim the slot is on
  nsGrant,      \* the claim the root's grant names, 0 without a fresh one
  nsGrants,     \* how often it changed
  nsReserved,   \* the step directories: identities taken, each under its claim
  nsLock,       \* the worker that holds .native.lock, 0 for none
  nsRun         \* the workers, in the order they began

nsVars == <<nsHolder, nsGrant, nsGrants, nsReserved, nsLock, nsRun>>

Runs == DOMAIN nsRun
Fresh(r, h) ==
  [at |-> "status", request |-> r, holder |-> h, client |-> TRUE, native |-> "none",
   shim |-> "none", log |-> "whole", call |-> "none", turn |-> "none", partial |-> FALSE,
   outcome |-> "none", answer |-> "none", callFirst |-> FALSE, vouched |-> FALSE]

NsInit ==
  /\ nsHolder = 1 /\ nsGrant = 1 /\ nsGrants = 0
  /\ nsReserved = {} /\ nsLock = 0 /\ nsRun = <<>>

Identity(n) == <<nsRun[n].request, nsRun[n].holder>>
Over(n) == nsRun[n].at \in {"over", "killed"}
Prompted(n) == nsRun[n].turn # "none"
Stays == UNCHANGED <<nsHolder, nsGrant, nsGrants, nsReserved, nsLock>>

(* serve's authorize: the client is still there, and the grant is fresh and  *)
(* about this claim, this policy and these credentials.                      *)
authorize(n) == nsRun[n].client /\ nsGrant = nsRun[n].holder

Moves(n, place) == nsRun' = [nsRun EXCEPT ![n].at = place]
(* A worker that is gone leaves whether it asked, its answer, and over what  *)
(* it gave it.  Perhaps it leaves its agent, too; what that goes on to do    *)
(* nobody looks at.                                                          *)
Gone(n, place, what) ==
  LET was == nsRun[n]
      left == [Fresh(was.request, was.holder) EXCEPT !.at = place, !.client = FALSE, !.answer = what,
                 !.turn = IF Prompted(n) THEN "asked" ELSE "none"]
  IN nsRun' = [nsRun EXCEPT ![n] =
       IF what \in {"text", "tool"}
       THEN [left EXCEPT !.native = was.native, !.callFirst = was.callFirst, !.vouched = was.vouched]
       ELSE left]
Refused(n) == Gone(n, "over", "error")
(* run_step leaves its try block, with what it is to answer unless the       *)
(* cleanup, the accounting or the last authorization says otherwise.         *)
Leaves(n, what) == nsRun' = [nsRun EXCEPT ![n].at = "close", ![n].outcome = what]

-----------------------------------------------------------------------------
(* The frames of one connection.                                             *)

status_frame(r) ==
  /\ Len(nsRun) < NsMaxRuns
  /\ nsRun' = Append(nsRun, Fresh(r, nsHolder))
  /\ Stays

(* load_policy: the slot's policy and grant, or a refusal.                   *)
load_policy(n) ==
  /\ nsRun[n].at = "status"
  /\ IF authorize(n) THEN Moves(n, "request") ELSE Refused(n)
  /\ Stays

(* The request frame: authorized again, and refused when its path, its       *)
(* headers or its body are not what the bridge takes.                        *)
request_frame(n) ==
  /\ nsRun[n].at = "request"
  /\ \/ authorize(n) /\ Moves(n, "lock")
     \/ Refused(n)
  /\ Stays

(* Mutant: another request of the slot may be at work.                       *)
Reservable_beside_another(n) == Identity(n) \notin nsReserved

(* Alone on the slot, and the one that takes this identity.                  *)
Reservable(n) == nsLock = 0 /\ Identity(n) \notin nsReserved

(* run_step: authorized, then reserved; the reservation stays whatever       *)
(* happens.                                                                  *)
reserve(n) ==
  /\ nsRun[n].at = "lock"
  /\ IF authorize(n) /\ Reservable(n)
     THEN /\ nsReserved' = nsReserved \cup {Identity(n)} /\ nsLock' = n
          /\ Moves(n, "start")
     ELSE Refused(n) /\ UNCHANGED <<nsReserved, nsLock>>
  /\ UNCHANGED <<nsHolder, nsGrant, nsGrants>>

-----------------------------------------------------------------------------
(* The native agent, its shim, and one prompt.                               *)

(* The agent starts in a process group of its own, and starts the shim.      *)
_start(n) ==
  /\ nsRun[n].at = "start"
  /\ \/ nsRun' = [nsRun EXCEPT ![n].at = "handshake", ![n].native = "up"]
     \/ Leaves(n, "error")
  /\ Stays

(* The session is bound, and the shim has shaken hands; or not in time.      *)
_wait_ready(n) ==
  /\ nsRun[n].at = "handshake"
  /\ \/ nsRun[n].native = "up"
        /\ nsRun' = [nsRun EXCEPT ![n].at = "ready", ![n].shim = "ready"]
     \/ Leaves(n, "error")
  /\ Stays

(* The last look before the model is asked.                                  *)
_authorized(n) ==
  /\ nsRun[n].at = "ready"
  /\ IF authorize(n) THEN Moves(n, "prompt") ELSE Leaves(n, "error")
  /\ Stays

(* session/prompt: sent by a thread, which notes how the turn ended.         *)
prompt(n) ==
  /\ nsRun[n].at = "prompt"
  /\ nsRun' = [nsRun EXCEPT ![n].at = "watch",
                            ![n].turn = IF nsRun[n].native = "up" THEN "asked" ELSE "failed"]
  /\ Stays

Alive(n) == nsRun[n].native = "up" /\ nsRun[n].shim = "ready"

(* One pass of the loop: still authorized, the shim still the process it     *)
(* was, its log still that of one that is ready, and a first look for a      *)
(* call.  An append under way is waited for, for a while.                    *)
Watch(n) ==
  /\ nsRun[n].at = "watch"
  /\ IF ~authorize(n) \/ ~Alive(n) THEN Leaves(n, "error")
     ELSE IF nsRun[n].log = "partial"
     THEN \/ nsRun' = [nsRun EXCEPT ![n].partial = TRUE]
          \/ Leaves(n, "error")
     ELSE nsRun' = [nsRun EXCEPT ![n].partial = FALSE,
            ![n].at = IF nsRun[n].call = "published" THEN "close" ELSE "wait",
            ![n].outcome = IF nsRun[n].call = "published" THEN "tool" ELSE @]
  /\ Stays

SecondLook_not_taken(n) == nsRun[n].call = "published" /\ nsRun[n].turn = "asked"

(* A turn that ended after the first look may have published its call in     *)
(* between: the second look.                                                 *)
SecondLook(n) == nsRun[n].call = "published"

Ended(n) == IF nsRun[n].turn = "answered" THEN "text" ELSE "error"

(* The rest of the pass: the turn still runs, or it has ended.               *)
WaitForTheTurn(n) ==
  /\ nsRun[n].at = "wait"
  /\ IF nsRun[n].turn = "asked" THEN Moves(n, "watch")
     ELSE IF nsRun[n].shim # "ready" THEN Leaves(n, "error")
     ELSE IF nsRun[n].log = "partial"
     THEN nsRun' = [nsRun EXCEPT ![n].at = "watch", ![n].partial = TRUE]
     ELSE Leaves(n, IF SecondLook(n) THEN "tool" ELSE Ended(n))
  /\ Stays

(* The loop is not entered again: what the turn left is taken as it is.      *)
DeadlinePasses(n) ==
  /\ nsRun[n].at = "watch"
  /\ NsAtTheEdge \/ nsRun[n].turn = "asked" \/ nsRun[n].partial
  /\ Leaves(n, IF nsRun[n].partial THEN "error" ELSE Ended(n))
  /\ Stays

-----------------------------------------------------------------------------
(* The end of a step.                                                        *)

(* The owned process group is killed, and whatever escaped it reaped: the    *)
(* thread that prompted ends with it.                                        *)
Killed(n) ==
  [nsRun[n] EXCEPT !.native = IF @ = "up" THEN "gone" ELSE @,
                   !.shim = IF @ = "ready" THEN "closed" ELSE @,
                   !.turn = IF @ = "asked" THEN "failed" ELSE @]

(* What the step still has to say.  Of the agent and its shim nobody reads   *)
(* any more, even where they could not be killed.                            *)
Closed(n, what) ==
  [Killed(n) EXCEPT !.at = "settle", !.outcome = what, !.shim = "closed", !.log = "whole",
                    !.call = "none", !.partial = FALSE,
                    !.turn = IF Prompted(n) THEN "failed" ELSE "none",
                    !.callFirst = @ /\ what # "error",
                    !.vouched = what # "error" /\ authorize(n)]

(* Cleaned up, or not; the accounting may tell of another model.  The lock   *)
(* is released either way.                                                   *)
controller_close(n) ==
  /\ nsRun[n].at = "close"
  /\ \/ nsRun' = [nsRun EXCEPT ![n] = Closed(n, nsRun[n].outcome)]
     \/ nsRun' = [nsRun EXCEPT ![n] = Closed(n, "error")]
     \/ nsRun[n].native = "up"
        /\ nsRun' = [nsRun EXCEPT ![n] = [Closed(n, "error") EXCEPT !.native = "up"]]
  /\ nsLock' = 0
  /\ UNCHANGED <<nsHolder, nsGrant, nsGrants, nsReserved>>

(* run_step's last word, kept in result.json, or an error if it cannot be.   *)
settle(n) ==
  /\ nsRun[n].at = "settle"
  /\ \/ nsRun' = [nsRun EXCEPT ![n].at = "answer",
                               ![n].outcome = IF authorize(n) THEN @ ELSE "error"]
     \/ nsRun' = [nsRun EXCEPT ![n].at = "answer", ![n].outcome = "error"]
  /\ Stays

(* serve authorizes once more and writes the answer.                         *)
respond(n) ==
  /\ nsRun[n].at = "answer"
  /\ Gone(n, "over", IF authorize(n) THEN nsRun[n].outcome ELSE "error")
  /\ Stays

-----------------------------------------------------------------------------
(* What the worker does not decide.                                          *)

(* The agent calls a tool of its caller's.                                   *)
AgentCalls(n) ==
  /\ Alive(n) /\ Prompted(n) /\ nsRun[n].call = "none"
  /\ nsRun' = [nsRun EXCEPT ![n].call = "sent"]
  /\ Stays

(* The shim publishes the first call, which it will never answer; or refuses *)
(* it, and the agent may call again.                                         *)
tools_call(n) ==
  /\ Alive(n) /\ nsRun[n].call = "sent"
  /\ \/ nsRun' = [nsRun EXCEPT ![n].call = "published", ![n].callFirst = nsRun[n].turn = "asked"]
     \/ nsRun' = [nsRun EXCEPT ![n].call = "none"]
  /\ Stays

(* An append to the shim's log, seen half done and then whole.               *)
_lifecycle(n) ==
  /\ Alive(n) /\ Prompted(n)
  /\ nsRun' = [nsRun EXCEPT ![n].log = IF @ = "whole" THEN "partial" ELSE "whole"]
  /\ Stays

(* The turn ends with a text, or with what the controller does not accept.   *)
TurnEnds(n) ==
  /\ ~Over(n) /\ nsRun[n].turn = "asked"
  /\ \E how \in {"answered", "failed"} : nsRun' = [nsRun EXCEPT ![n].turn = how]
  /\ Stays

AgentDies(n) ==
  /\ ~Over(n) /\ nsRun[n].native = "up"
  /\ nsRun' = [nsRun EXCEPT ![n] = Killed(n)]
  /\ Stays

ShimCloses(n) ==
  /\ Alive(n)
  /\ nsRun' = [nsRun EXCEPT ![n].shim = "closed"]
  /\ Stays

(* The client hangs up; the worker sees it at its next authorize.            *)
disconnected(n) ==
  /\ ~Over(n) /\ nsRun[n].client
  /\ nsRun' = [nsRun EXCEPT ![n].client = FALSE]
  /\ Stays

(* The worker is killed: its lock is the kernel's to release, its            *)
(* reservation stays, and the agent may live on.                             *)
WorkerKilled(n) ==
  /\ ~Over(n)
  /\ Gone(n, "killed", "none")
  /\ nsLock' = IF nsLock = n THEN 0 ELSE nsLock
  /\ UNCHANGED <<nsHolder, nsGrant, nsGrants, nsReserved>>

(* The root withdraws the grant, renews it, or writes the next holder's.     *)
grant ==
  /\ nsGrants < NsMaxGrants
  /\ nsGrants' = nsGrants + 1
  /\ \/ nsGrant' = 0 /\ nsHolder' = nsHolder
     \/ nsGrant' = nsHolder /\ nsHolder' = nsHolder
     \/ nsGrant' = nsHolder + 1 /\ nsHolder' = nsHolder + 1
  /\ nsRun' = [n \in Runs |-> [nsRun[n] EXCEPT !.vouched =
                 \/ @
                 \/ /\ nsRun[n].at \in {"settle", "answer"} /\ nsRun[n].native # "up"
                    /\ nsRun[n].client /\ nsGrant' = nsRun[n].holder]]
  /\ UNCHANGED <<nsReserved, nsLock>>

NsNext ==
  \/ \E r \in NsRequests : status_frame(r)
  \/ \E n \in Runs :
       \/ load_policy(n) \/ request_frame(n) \/ reserve(n)
       \/ _start(n) \/ _wait_ready(n) \/ _authorized(n) \/ prompt(n)
       \/ Watch(n) \/ WaitForTheTurn(n) \/ DeadlinePasses(n)
       \/ controller_close(n) \/ settle(n) \/ respond(n)
       \/ AgentCalls(n) \/ tools_call(n) \/ _lifecycle(n) \/ TurnEnds(n)
       \/ AgentDies(n) \/ ShimCloses(n) \/ disconnected(n) \/ WorkerKilled(n)
  \/ grant

-----------------------------------------------------------------------------
Working == {"start", "handshake", "ready", "prompt", "watch", "wait", "close"}

(* Every variable holds what the code may put there; and the lock is of the  *)
(* one request that is worked on.                                            *)
NsTypeOK ==
  /\ nsHolder \in 1..NsMaxGrants + 1 /\ nsGrant \in 0..nsHolder /\ nsGrants \in 0..NsMaxGrants
  /\ nsReserved \subseteq NsRequests \X (1..nsHolder)
  /\ nsLock \in 0..Len(nsRun) /\ \A n \in Runs : nsLock = n <=> nsRun[n].at \in Working
  /\ \A n \in Runs :
       /\ nsRun[n].at \in {"status", "request", "lock", "start", "handshake", "ready", "prompt",
                           "watch", "wait", "close", "settle", "answer", "over", "killed"}
       /\ nsRun[n].request \in NsRequests /\ nsRun[n].holder \in 1..nsHolder
       /\ nsRun[n].native \in {"none", "up", "gone"} /\ nsRun[n].shim \in {"none", "ready", "closed"}
       /\ nsRun[n].call \in {"none", "sent", "published"}
       /\ nsRun[n].turn \in {"none", "asked", "answered", "failed"}
       /\ nsRun[n].outcome \in {"none", "text", "tool", "error"}
       /\ nsRun[n].answer \in {"none", "text", "tool", "error"}

Answered(n) == nsRun[n].answer \in {"text", "tool"}

(* One request identity, however often it is sent and wherever its worker    *)
(* was killed, asks the model once (run_step's "any existing reservation is  *)
(* never resubmitted").                                                      *)
AskedOnce ==
  \A n, o \in Runs : n # o /\ Prompted(n) /\ Prompted(o) => Identity(n) # Identity(o)

(* An answer is given only once everything started for it is dead, and only  *)
(* if its holder was still entitled to it after that.                        *)
AnsweredOverTheRemains == \A n \in Runs : Answered(n) => nsRun[n].native = "gone" /\ nsRun[n].vouched

(* A text is the answer only of a turn that published no call before it      *)
(* ended: whoever is told the turn is over has no call left to carry out     *)
(* (the second look in run_step).                                            *)
NoCallOverlooked == \A n \in Runs : nsRun[n].answer = "text" => ~nsRun[n].callFirst

NativeSound == AskedOnce /\ AnsweredOverTheRemains /\ NoCallOverlooked
=============================================================================

------------------------------ MODULE Inference ------------------------------
(***************************************************************************)
(* Model requests of a computer's Claude over its slot.  The launcher's    *)
(* bridge on the computer (inference_client.Bridge) admits a bounded       *)
(* number of local connections, and gives each that holds a worker an SSH  *)
(* process of its own; at its other end, on the slot, a relay              *)
(* (local_relay.serve_one) checks the slot's account, posts the request    *)
(* upstream once, and copies the answer back in frames.                    *)
(*                                                                         *)
(* Meanwhile clients hang up, links break, timers fire, the slot changes   *)
(* accounts, and the launcher closes its bridge.  An answer is InParts     *)
(* parts; what they say, and which headers pass, is left out.  Upstream    *)
(* says how long its answer is, so that one cut short is seen to be.       *)
(***************************************************************************)
EXTENDS Integers, FiniteSets

CONSTANTS
  InCalls,        \* local connections
  InWorkers,      \* max_requests
  InPending,      \* max_pending
  InParts,        \* the parts of an answer
  InMaxChanges    \* bound: times the slot's account changes, or is switched off

ASSUME InferenceAssumption ==
  InWorkers \in Nat \ {0} /\ InPending \in Nat /\ InParts \in Nat \ {0} /\ InMaxChanges \in Nat

VARIABLES
  inBridge,     \* "open", "stopping" (it has said so), "closed" (it has killed its processes)
  inAccount,    \* the account bound to the slot, 0 while there is none to use
  inChanges,
  inCall        \* each connection, with its relay

inVars == <<inBridge, inAccount, inChanges, inCall>>

NoFrames == [head |-> "none", parts |-> 0, end |-> FALSE, exit |-> "none"]
NoCall ==
  [at |-> "none", client |-> TRUE, got |-> "none", parts |-> 0, ssh |-> "none",
   relay |-> "none", bound |-> 0, cancelled |-> FALSE, sent |-> FALSE, up |-> "none",
   upParts |-> 0, out |-> NoFrames]

InInit ==
  /\ inBridge = "open" /\ inAccount = 1 /\ inChanges = 0
  /\ inCall = [c \in InCalls |-> NoCall]

Changes(c, record) == inCall' = [inCall EXCEPT ![c] = record]
Others == UNCHANGED <<inBridge, inAccount, inChanges>>

-----------------------------------------------------------------------------
(* The bridge.                                                               *)

Admitted == {c \in InCalls : inCall[c].at \notin {"none", "gone"}}
Working == {c \in InCalls : inCall[c].at \notin {"none", "queued", "gone"}}
Stopping == inBridge # "open"

(* The accept loop takes a connection, or turns it away.                     *)
process_request(c) ==
  /\ inCall[c].at = "none" /\ inBridge # "closed"
  /\ Changes(c, IF Stopping \/ Cardinality(Admitted) >= InWorkers + InPending
                THEN [inCall[c] EXCEPT !.at = "gone", !.got = "busy"]
                ELSE [inCall[c] EXCEPT !.at = "queued"])
  /\ Others

(* A request that is none, or without the launch's secret.                   *)
_validate(c) ==
  /\ inCall[c].at = "queued"
  /\ Changes(c, [inCall[c] EXCEPT !.at = "gone", !.got = "error"])
  /\ Others

(* A worker, before the body is read; or none in time.                       *)
acquire_worker(c) ==
  /\ inCall[c].at = "queued"
  /\ \/ ~Stopping /\ inCall[c].client /\ Cardinality(Working) < InWorkers
        /\ Changes(c, [inCall[c] EXCEPT !.at = "body"])
     \/ (Stopping \/ ~inCall[c].client \/ Cardinality(Working) >= InWorkers)
        /\ Changes(c, [inCall[c] EXCEPT !.at = "gone", !.got = "busy"])
  /\ Others

MayLaunch(c) == ~Stopping /\ inCall[c].client

(* The body has come, or has not; under the guard, neither the bridge is     *)
(* stopping nor the client gone: only then is SSH launched.                  *)
_forward(c) ==
  /\ inCall[c].at = "body"
  /\ \/ Changes(c, IF MayLaunch(c)
                   THEN [inCall[c] EXCEPT !.at = "head", !.ssh = "up", !.relay = "checks"]
                   ELSE [inCall[c] EXCEPT !.at = "clear", !.got = "error"])
     \/ Changes(c, [inCall[c] EXCEPT !.at = "clear", !.got = "error"])
  /\ Others

Frames(c) == inCall[c].out

(* What the relay's status and parts become on the local connection.         *)
CopyHead(c) ==
  /\ inCall[c].at = "head" /\ inCall[c].ssh = "up" /\ Frames(c).head # "none"
  /\ Changes(c, [inCall[c] EXCEPT !.at = "stream", !.got = "begun"])
  /\ Others

CopyPart(c) ==
  /\ inCall[c].at = "stream" /\ inCall[c].ssh = "up" /\ inCall[c].parts < Frames(c).parts
  /\ Changes(c, [inCall[c] EXCEPT !.parts = @ + 1])
  /\ Others

CopyEnd(c) ==
  /\ inCall[c].at = "stream" /\ inCall[c].ssh = "up"
  /\ inCall[c].parts = Frames(c).parts /\ Frames(c).end
  /\ Changes(c, [inCall[c] EXCEPT !.at = "ending"])
  /\ Others

(* The relay's last frame is not enough: it must also have ended well, and   *)
(* the connection gets its terminator only then.                             *)
EndedWell(c) ==
  \/ Frames(c).exit = "zero"
  \/ (Frames(c).exit = "two" /\ Frames(c).head # "ok")

_completed(c) ==
  /\ inCall[c].at = "ending" /\ inCall[c].ssh = "up" /\ Frames(c).exit # "none"
  /\ Changes(c, [inCall[c] EXCEPT !.at = "clear", !.got = IF EndedWell(c) THEN "whole" ELSE @])
  /\ Others

(* SSH is gone, or what it brought ends in the middle.                       *)
Cut(c) == inCall[c].ssh = "down" \/ (Frames(c).exit # "none" /\ ~Frames(c).end)
LinkFails(c) ==
  /\ inCall[c].at \in {"head", "stream", "ending"} /\ Cut(c)
  /\ Changes(c, [inCall[c] EXCEPT !.at = "clear",
                                  !.got = IF inCall[c].at = "head" THEN "error" ELSE @])
  /\ Others

(* Whatever happened, the process is killed and the worker given back.       *)
_finish(c) ==
  /\ inCall[c].at = "clear"
  /\ Changes(c, [inCall[c] EXCEPT !.at = "gone", !.ssh = IF @ = "up" THEN "down" ELSE @])
  /\ Others

(* A call's timer fires, its client hangs up and is noticed, or its link     *)
(* breaks: its SSH ends.                                                     *)
_kill(c) ==
  /\ inCall[c].ssh = "up"
  /\ Changes(c, [inCall[c] EXCEPT !.ssh = "down"])
  /\ Others

HangsUp(c) ==
  /\ inCall[c].client /\ inCall[c].at \in {"queued", "body", "head", "stream"}
  /\ Changes(c, [inCall[c] EXCEPT !.client = FALSE])
  /\ Others

(* Bridge.close: says so first, then, under the guard, kills what runs and   *)
(* shuts every connection.                                                   *)
close_says_so ==
  /\ inBridge = "open" /\ inBridge' = "stopping"
  /\ UNCHANGED <<inAccount, inChanges, inCall>>

stop_connections ==
  /\ inBridge = "stopping" /\ inBridge' = "closed"
  /\ inCall' = [c \in InCalls |-> [inCall[c] EXCEPT !.client = FALSE,
                  !.ssh = IF @ = "up" THEN "down" ELSE @]]
  /\ UNCHANGED <<inAccount, inChanges>>

-----------------------------------------------------------------------------
(* The relay on the slot.                                                    *)

Relaying(c) == inCall[c].relay \in {"checks", "connect", "last", "post", "reply", "stream"}

(* send_error: a whole answer of its own, and the hint whether another slot  *)
(* may be asked, unless something was said already.                          *)
Fails(c, retryable) ==
  Changes(c, [inCall[c] EXCEPT !.relay = "over",
    !.out = IF @.head = "none"
            THEN [head |-> IF retryable THEN "retryable" ELSE "error", parts |-> 0,
                  end |-> TRUE, exit |-> "two"]
            ELSE [@ EXCEPT !.exit = "two"]])

(* Switched on, and signed in with time to spare: the account is noted.      *)
bound_account(c) ==
  /\ inCall[c].relay = "checks"
  /\ IF inAccount = 0 THEN Fails(c, TRUE)
     ELSE Changes(c, [inCall[c] EXCEPT !.relay = "connect", !.bound = inAccount])
  /\ Others

connect_upstream(c) ==
  /\ inCall[c].relay = "connect"
  /\ \/ Changes(c, [inCall[c] EXCEPT !.relay = "last"])
     \/ Fails(c, ~inCall[c].sent)
  /\ Others

StillBound(c) == ~inCall[c].cancelled /\ inAccount = inCall[c].bound

(* The token is read between two looks at the account.                       *)
LastCheck(c) ==
  /\ inCall[c].relay = "last"
  /\ IF StillBound(c) THEN Changes(c, [inCall[c] EXCEPT !.relay = "post"]) ELSE Fails(c, TRUE)
  /\ Others

(* Exactly one POST; from here on a failure may mean it was answered.        *)
PostOnce(c) ==
  /\ inCall[c].relay = "post"
  /\ Changes(c, [inCall[c] EXCEPT !.relay = "reply", !.sent = TRUE, !.up = "asked"])
  /\ Others

(* The status upstream answers: a refusal is passed on as a category of its  *)
(* own, some of them worth another slot.                                     *)
Reply(c) ==
  /\ inCall[c].relay = "reply"
  /\ \/ (inCall[c].cancelled \/ inCall[c].up = "broken")
        /\ Fails(c, ~inCall[c].sent)
     \/ ~inCall[c].cancelled /\ inCall[c].up = "refused"
        /\ \E again \in BOOLEAN : Fails(c, again)
     \/ ~inCall[c].cancelled /\ inCall[c].up \in {"answers", "answered"}
        /\ Changes(c, [inCall[c] EXCEPT !.relay = "stream", !.out.head = "ok"])
  /\ Others

(* One part more, as long as nothing was cancelled; after the last the end.  *)
write_chunk(c) ==
  /\ inCall[c].relay = "stream"
  /\ IF inCall[c].cancelled THEN Fails(c, FALSE)
     ELSE IF Frames(c).parts < inCall[c].upParts
     THEN Changes(c, [inCall[c] EXCEPT !.out.parts = @ + 1])
     ELSE \/ inCall[c].up = "broken" /\ Fails(c, FALSE)
          \/ inCall[c].up = "answered"
             /\ Changes(c, [inCall[c] EXCEPT !.relay = "over",
                              !.out = [@ EXCEPT !.end = TRUE, !.exit = "zero"]])
  /\ Others

(* The watcher sees another account, no account, the input at its end, or    *)
(* the request's deadline, and shuts the upstream socket.                    *)
stop_if_revoked(c) ==
  /\ Relaying(c) /\ inCall[c].relay # "checks" /\ ~inCall[c].cancelled
  /\ Changes(c, [inCall[c] EXCEPT !.cancelled = TRUE])
  /\ Others

expired_always_retryable(c) ==
  /\ Relaying(c)
  /\ Fails(c, TRUE)
  /\ Others

(* The alarm interrupts the relay wherever it is.                            *)
expired(c) ==
  /\ Relaying(c)
  /\ Fails(c, ~inCall[c].sent)
  /\ Others

(* Upstream refuses, answers part by part, or breaks off.                    *)
Upstream(c) ==
  /\ \/ inCall[c].up = "asked"
        /\ \E how \in {"refused", "answers", "broken"} : Changes(c, [inCall[c] EXCEPT !.up = how])
     \/ inCall[c].up = "answers" /\ Relaying(c)
        /\ \/ Changes(c, [inCall[c] EXCEPT !.upParts = @ + 1,
                            !.up = IF inCall[c].upParts + 1 = InParts THEN "answered" ELSE @])
           \/ Changes(c, [inCall[c] EXCEPT !.up = "broken"])
  /\ Others

(* The slot signs in with another account, or is switched off, or on again.  *)
AccountChanges ==
  /\ inChanges < InMaxChanges
  /\ inChanges' = inChanges + 1
  /\ \E a \in 0..2 : a # inAccount /\ inAccount' = a
  /\ UNCHANGED <<inBridge, inCall>>

InNext ==
  \/ \E c \in InCalls :
       \/ process_request(c) \/ _validate(c) \/ acquire_worker(c) \/ _forward(c)
       \/ CopyHead(c) \/ CopyPart(c) \/ CopyEnd(c) \/ _completed(c) \/ LinkFails(c) \/ _finish(c)
       \/ _kill(c) \/ HangsUp(c)
       \/ bound_account(c) \/ connect_upstream(c) \/ LastCheck(c) \/ PostOnce(c) \/ Reply(c)
       \/ write_chunk(c) \/ stop_if_revoked(c) \/ expired(c) \/ Upstream(c)
  \/ close_says_so \/ stop_connections \/ AccountChanges

-----------------------------------------------------------------------------
(* Every variable holds what the code may put there.                         *)
InTypeOK ==
  /\ inBridge \in {"open", "stopping", "closed"} /\ inAccount \in 0..2
  /\ inChanges \in 0..InMaxChanges
  /\ \A c \in InCalls :
       /\ inCall[c].at \in {"none", "queued", "body", "head", "stream", "ending", "clear", "gone"}
       /\ inCall[c].got \in {"none", "busy", "error", "begun", "whole"}
       /\ inCall[c].parts \in 0..InParts /\ inCall[c].upParts \in 0..InParts
       /\ inCall[c].ssh \in {"none", "up", "down"} /\ inCall[c].bound \in 0..2
       /\ inCall[c].out.head \in {"none", "ok", "error", "retryable"}
       /\ inCall[c].out.exit \in {"none", "zero", "two"}
       /\ inCall[c].up \in {"none", "asked", "refused", "answers", "answered", "broken"}

(* A local answer ends like one that is complete only if upstream's was, and *)
(* every part of it was copied: through two processes and a link that may    *)
(* each end at any moment, and a terminator each of them adds.               *)
WholeMeansWhole ==
  \A c \in InCalls : inCall[c].got = "whole" /\ Frames(c).head = "ok" =>
    inCall[c].up = "answered" /\ inCall[c].parts = InParts

(* A request said to be worth another slot was never taken up by this one's  *)
(* upstream: sent again, it is not answered, and paid for, twice.            *)
RetryableMeansUnanswered ==
  \A c \in InCalls : Frames(c).head = "retryable" =>
    inCall[c].up \notin {"asked", "answers", "answered", "broken"}

(* No process of the bridge outlives its closing, though requests are just   *)
(* then being launched.                                                      *)
ClosedMeansGone == inBridge = "closed" => \A c \in InCalls : inCall[c].ssh # "up"

InferenceSound == WholeMeansWhole /\ RetryableMeansUnanswered /\ ClosedMeansGone
=============================================================================

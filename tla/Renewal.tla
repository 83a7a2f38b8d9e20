------------------------------- MODULE Renewal -------------------------------
(***************************************************************************)
(* What a slot's agent does about its holder's Claude credential and about *)
(* a Claude Code it has not seen before (ccfleet_agent/agent.py            *)
(* maintain_slot_credentials, reconcile_compatibility, quota_summary).     *)
(* Native Claude is the only writer of the credential: to have it renewed, *)
(* the agent opens a native session, as it does to read the usage screen.  *)
(*                                                                         *)
(* Runs of the agent are one at a time (.slot-facts.lock), and each may be *)
(* killed between any two steps.  The holder's own Claude runs beside it:  *)
(* it renews the credential, and it may be signed out, signed in to        *)
(* another account, or replaced by another build at any moment.            *)
(*                                                                         *)
(* A stamp tells one credential file, or one build, from the next: each is *)
(* a number that only grows.  Time is only whether a wait is over.         *)
(***************************************************************************)
EXTENDS Integers

CONSTANTS
  MaxStamps,        \* bound: credential files written after the first
  MaxBuilds,        \* bound: builds installed after the first
  MaxRnEvents,      \* bound: sign-ins, revocations, waits that pass, kills
  WriterBetween     \* may the holder's Claude write between two looks at the file?

ASSUME RenewalAssumption ==
  MaxStamps \in Nat /\ MaxBuilds \in Nat /\ MaxRnEvents \in Nat /\ WriterBetween \in BOOLEAN

Stamps == 0..MaxStamps
Builds == 0..MaxBuilds

NoRenewal == [state |-> "none", reason |-> "none", stamp |-> 0, waits |-> FALSE]
NoCheck == [state |-> "none", reason |-> "none", build |-> 0, waits |-> FALSE]
NoSeen == [asked |-> FALSE, stamp |-> 0, build |-> 0, outcome |-> "none", attempted |-> FALSE]

VARIABLES
  \* The slot: its credential file, whether it is the bound account's, whether
  \* it is due to be renewed, whether a sign-in runs, the build installed.
  stamp, own, due, signing, build,
  \* The provider: credential files it no longer accepts.
  revoked,
  \* The agent's saved notes.
  renewal, check,
  \* The run: where it stands, what it has seen, the session it has open.
  at, seen, session,
  \* What the properties speak of: files rejected on a session's screen, files
  \* and builds a session was opened on since the last wait passed, builds
  \* whose usage screen was read, and the bound on events.
  rejected, tried, checked, proved, events

rnSlot == <<stamp, own, due, signing, build, revoked>>
rnNotes == <<renewal, check>>
rnRun == <<at, seen, session>>
rnGhosts == <<rejected, tried, checked, proved, events>>
rnVars == <<rnSlot, rnNotes, rnRun, rnGhosts>>

NoSession == [stamp |-> 0, build |-> 0, open |-> FALSE]

RnInit ==
  /\ stamp = 0 /\ own = TRUE /\ due = FALSE /\ signing = FALSE /\ build = 0
  /\ revoked = {}
  /\ renewal = NoRenewal /\ check = NoCheck
  /\ at = "idle" /\ seen = NoSeen /\ session = NoSession
  /\ rejected = {} /\ proved = {}
  /\ tried = [s \in Stamps |-> 0] /\ checked = [b \in Builds |-> 0] /\ events = 0

Event == events < MaxRnEvents /\ events' = events + 1

-----------------------------------------------------------------------------
(* The holder and the provider.                                             *)

(* Between a look at the file and the notes that name what was seen.        *)
Closed == at \in {"refuse", "settle"} /\ ~WriterBetween

(* The holder's own Claude renews the credential.                           *)
HolderRenews ==
  /\ stamp < MaxStamps /\ ~Closed /\ stamp \notin revoked
  /\ stamp' = stamp + 1 /\ due' = FALSE
  /\ UNCHANGED <<own, signing, build, revoked, rnNotes, rnRun, rnGhosts>>

(* Signed in again, to the slot's account or by hand to another.            *)
HolderSignsIn(theirs) ==
  /\ Event /\ stamp < MaxStamps /\ ~Closed
  /\ stamp' = stamp + 1 /\ due' = FALSE /\ own' = theirs
  /\ UNCHANGED <<signing, build, revoked, rnNotes, rnRun, rejected, tried, checked, proved>>

SignInStartsOrEnds ==
  /\ Event /\ at = "idle" /\ signing' = ~signing
  /\ UNCHANGED <<stamp, own, due, build, revoked, rnNotes, rnRun, rejected, tried, checked, proved>>

NewBuild ==
  /\ build < MaxBuilds /\ build' = build + 1
  /\ UNCHANGED <<stamp, own, due, signing, revoked, rnNotes, rnRun, rnGhosts>>

Revoke ==
  /\ Event /\ revoked' = revoked \cup {stamp}
  /\ UNCHANGED <<stamp, own, due, signing, build, rnNotes, rnRun, rejected, tried, checked, proved>>

(* A minute or ten: waits are over, and the credential may have come due.   *)
(* A session is opened as soon as its note is left, so not just then.       *)
TimePasses == \E d \in {due, TRUE} :
  /\ at \notin {"launch", "open"}
  /\ Event /\ due' = d
  /\ renewal' = [renewal EXCEPT !.waits = FALSE]
  /\ check' = [check EXCEPT !.waits = FALSE]
  /\ tried' = [s \in Stamps |-> 0] /\ checked' = [b \in Builds |-> 0]
  /\ UNCHANGED <<stamp, own, signing, build, revoked, rnRun, rejected, proved>>

-----------------------------------------------------------------------------
(* Renewal: native Claude is started only for a credential that is due, on  *)
(* the account the slot is bound to, and not while a wait is on.            *)

(* Mutant: a rejection is remembered for whatever file there is.            *)
_renewal_guard_any(file) == renewal.reason = "rejected"

(* A rejection is sticky for the exact file it was seen on, no other.       *)
_renewal_guard(file) == renewal.reason = "rejected" /\ renewal.stamp = file

Transition == ~own \/ signing

Step(next, s) == at' = next /\ seen' = s
KeepSession == UNCHANGED session

current_report == renewal' = [NoRenewal EXCEPT !.state = "current", !.stamp = stamp]

(* The first look: a run whose turn it is not to read only records.         *)
SlotFacts(asked) ==
  LET s == [NoSeen EXCEPT !.asked = asked]
  IN  /\ at = "idle" /\ KeepSession
      /\ CASE Transition -> Step("compat", s) /\ UNCHANGED renewal
           [] ~Transition /\ asked -> Step("locked", s) /\ UNCHANGED renewal
           [] ~Transition /\ ~asked /\ _renewal_guard(stamp) ->
                Step("refuse", s) /\ UNCHANGED renewal
           [] OTHER -> Step("compat", s) /\ (IF due THEN UNCHANGED renewal ELSE current_report)
      /\ UNCHANGED <<rnSlot, check, rnGhosts>>

(* The refusal is saved with the stamp of a second look at the file.        *)
Refuse ==
  /\ at = "refuse"
  /\ renewal' = [state |-> "blocked", reason |-> "rejected", stamp |-> stamp, waits |-> FALSE]
  /\ Step("compat", seen) /\ KeepSession
  /\ UNCHANGED <<rnSlot, check, rnGhosts>>

(* Under .renewal.lock, everything is looked at again; then once more under *)
(* the usage lock, just before the session, and a durable note is left.     *)
Locked ==
  /\ at = "locked" /\ KeepSession
  /\ CASE Transition -> Step("compat", seen) /\ UNCHANGED renewal
       [] ~Transition /\ _renewal_guard(stamp) -> Step("refuse", seen) /\ UNCHANGED renewal
       [] ~Transition /\ ~_renewal_guard(stamp) /\ ~due -> Step("compat", seen) /\ current_report
       [] OTHER -> /\ UNCHANGED renewal
                   /\ Step(IF renewal.waits THEN "compat" ELSE "before", seen)
  /\ UNCHANGED <<rnSlot, check, rnGhosts>>

Reserved == [state |-> "retrying", reason |-> "unconfirmed", stamp |-> stamp, waits |-> TRUE]

before_start == \E saved \in BOOLEAN :
  /\ at = "before" /\ KeepSession
  /\ CASE Transition -> Step("compat", seen) /\ UNCHANGED renewal
       [] ~Transition /\ _renewal_guard(stamp) -> Step("refuse", seen) /\ UNCHANGED renewal
       [] ~Transition /\ ~_renewal_guard(stamp) /\ ~due -> Step("compat", seen) /\ current_report
       [] OTHER -> IF saved THEN /\ renewal' = Reserved
                                 /\ Step("launch", [seen EXCEPT !.stamp = stamp])
                            ELSE UNCHANGED renewal /\ Step("compat", seen)
  /\ UNCHANGED <<rnSlot, check, rnGhosts>>

(* The session reads the file there is when it starts.                      *)
Launch ==
  /\ at = "launch" /\ Step("screen", seen)
  /\ session' = [stamp |-> stamp, build |-> build, open |-> TRUE]
  /\ tried' = [tried EXCEPT ![stamp] = @ + 1]
  /\ UNCHANGED <<rnSlot, rnNotes, rejected, checked, proved, events>>

(* What its screen says: renewed, turned away, or nothing to go by.         *)
QuotaScreen ==
  /\ at = "screen"
  /\ session' = NoSession
  /\ \/ /\ session.stamp \in revoked
        /\ Step("settle", [seen EXCEPT !.outcome = "rejected", !.attempted = TRUE])
        /\ rejected' = rejected \cup {session.stamp}
        /\ UNCHANGED <<stamp, due>>
     \/ /\ session.stamp \notin revoked /\ session.stamp = stamp /\ stamp < MaxStamps
        /\ stamp' = stamp + 1 /\ due' = FALSE
        /\ Step("settle", [seen EXCEPT !.outcome = "unconfirmed", !.attempted = TRUE])
        /\ UNCHANGED rejected
     \/ /\ \E tri \in BOOLEAN :
             Step("settle", [seen EXCEPT !.outcome = "unconfirmed", !.attempted = tri])
        /\ UNCHANGED <<stamp, due, rejected>>
  /\ UNCHANGED <<own, signing, build, revoked, rnNotes, tried, checked, proved, events>>

(* Terminal advice about a file that was replaced meanwhile is no advice.   *)
Advice == IF seen.outcome = "rejected" /\ stamp # seen.stamp THEN "unconfirmed" ELSE seen.outcome

Settle ==
  /\ at = "settle"
  /\ renewal' =
       CASE Transition -> [state |-> "blocked", reason |-> "transition", stamp |-> stamp,
                           waits |-> TRUE]
         [] ~Transition /\ ~due -> [state |-> "renewed", reason |-> "none", stamp |-> stamp,
                                    waits |-> FALSE]
         [] ~Transition /\ due /\ Advice = "rejected" ->
              [state |-> "blocked", reason |-> "rejected", stamp |-> stamp, waits |-> FALSE]
         [] OTHER -> [state |-> "retrying", reason |-> "unconfirmed", stamp |-> stamp,
                      waits |-> TRUE]
  /\ Step("compat", seen) /\ KeepSession
  /\ UNCHANGED <<rnSlot, check, rnGhosts>>

-----------------------------------------------------------------------------
(* Compatibility: a build not seen before is passed only when a session of  *)
(* that build drew its usage screen.                                        *)

Failing(reason, state) ==
  [state |-> state, reason |-> reason, build |-> seen.build, waits |-> TRUE]

EndRun == at' = "idle" /\ seen' = NoSeen /\ session' = NoSession

usage_allowed == ~seen.attempted /\ renewal.reason # "rejected"

UsageTurn == check.reason = "usage_pending" /\ seen.asked /\ usage_allowed

(* The build is stamped; a passed one is let be, a failed one waited for;   *)
(* the checks that need no session may fail; the rest wait for their turn.  *)
Compatible ==
  LET same == check.build = build
      it == [seen EXCEPT !.build = build]
      wanted == same => check.state # "passed" /\ (UsageTurn \/ ~check.waits)
      record(reason, state) ==
        [state |-> state, reason |-> reason, build |-> build, waits |-> TRUE]
  IN  /\ at = "compat"
      /\ \/ Transition /\ check' = record("transition", "blocked") /\ EndRun
         \/ ~Transition /\ ~wanted /\ UNCHANGED check /\ EndRun
         \/ ~Transition /\ wanted /\ check' = record("interface", "failed") /\ EndRun
         \/ ~Transition /\ wanted /\ check' = record("probe_busy", "blocked") /\ EndRun
         \/ /\ ~Transition /\ wanted
            /\ check' = record("usage_pending", "pending")
            /\ IF seen.asked /\ usage_allowed THEN Step("probe", it) /\ KeepSession ELSE EndRun
      /\ UNCHANGED <<rnSlot, renewal, rnGhosts>>

(* The last look before the session is opened on the build stamped.         *)
before_probe ==
  /\ at = "probe"
  /\ IF Transition \/ build # seen.build
     THEN check' = Failing("probe_busy", "blocked") /\ EndRun
     ELSE Step("open", seen) /\ KeepSession /\ UNCHANGED check
  /\ UNCHANGED <<rnSlot, renewal, rnGhosts>>

OpenUsage ==
  /\ at = "open" /\ Step("usage", seen)
  /\ session' = [stamp |-> stamp, build |-> build, open |-> TRUE]
  /\ checked' = [checked EXCEPT ![build] = @ + 1]
  /\ UNCHANGED <<rnSlot, rnNotes, rejected, tried, proved, events>>

ReadUsage == \E drawn \in BOOLEAN :
  /\ at = "usage" /\ session' = NoSession
  /\ Step("verdict", [seen EXCEPT !.outcome = IF drawn THEN "usage" ELSE "none"])
  /\ proved' = proved \cup IF drawn THEN {session.build} ELSE {}
  /\ UNCHANGED <<rnSlot, rnNotes, rejected, tried, checked, events>>

Interrupted == build # seen.build

Verdict ==
  /\ at = "verdict"
  /\ check' = CASE Transition -> Failing("transition", "blocked")
                [] ~Transition /\ Interrupted -> Failing("check_interrupted", "blocked")
                [] ~Transition /\ ~Interrupted /\ seen.outcome = "usage" ->
                     [state |-> "passed", reason |-> "none", build |-> seen.build, waits |-> FALSE]
                [] OTHER -> Failing("usage_unavailable", "failed")
  /\ EndRun
  /\ UNCHANGED <<rnSlot, renewal, rnGhosts>>

RnKilled ==
  /\ at # "idle" /\ Event /\ EndRun
  /\ UNCHANGED <<rnSlot, rnNotes, rejected, tried, checked, proved>>

RnNext ==
  \/ HolderRenews \/ SignInStartsOrEnds \/ NewBuild \/ Revoke \/ TimePasses
  \/ \E theirs \in BOOLEAN : HolderSignsIn(theirs)
  \/ \E asked \in BOOLEAN : SlotFacts(asked)
  \/ Refuse \/ Locked \/ before_start \/ Launch \/ QuotaScreen \/ Settle
  \/ Compatible \/ before_probe \/ OpenUsage \/ ReadUsage \/ Verdict \/ RnKilled

RnSpec == RnInit /\ [][RnNext]_rnVars

-----------------------------------------------------------------------------
RnTypeOK ==
  /\ stamp \in Stamps /\ own \in BOOLEAN /\ due \in BOOLEAN /\ signing \in BOOLEAN
  /\ build \in Builds /\ revoked \subseteq Stamps
  /\ renewal \in [state : {"none", "current", "renewed", "retrying", "blocked"},
                  reason : {"none", "rejected", "unconfirmed", "transition"},
                  stamp : Stamps, waits : BOOLEAN]
  /\ check.state \in {"none", "pending", "passed", "failed", "blocked"} /\ check.build \in Builds
  /\ at \in {"idle", "refuse", "locked", "before", "launch", "screen", "settle", "compat",
             "probe", "open", "usage", "verdict"}
  /\ seen \in [asked : BOOLEAN, stamp : Stamps, build : Builds, attempted : BOOLEAN,
               outcome : {"none", "rejected", "unconfirmed", "usage"}]

(* Maintenance is given up for a rejected sign-in only on the very file a   *)
(* native session was turned away with: a screen about a file that was      *)
(* replaced while it was up never condemns the one that replaced it.        *)
RejectedIsThatFile == renewal.reason = "rejected" => renewal.stamp \in rejected

(* However often a run is killed, no second session is opened to renew the  *)
(* same file before its wait has passed.                                    *)
NoHotRetry == \A s \in Stamps : tried[s] <= 1

(* A build shown as compatible drew its usage screen in a session of that   *)
(* build, not in one of the build it replaced or was replaced by.           *)
PassedIsThatBuild == check.state = "passed" => check.build \in proved

RenewalSound == RejectedIsThatFile /\ NoHotRetry /\ PassedIsThatBuild

(* "A killed checker does not immediately relaunch a native session on the  *)
(* next heartbeat" (agent.py, above the durable mark of the check).         *)
KilledCheckWaits == \A b \in Builds : checked[b] <= 1
=============================================================================

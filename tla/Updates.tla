------------------------------- MODULE Updates -------------------------------
(***************************************************************************)
(* Which Claude Code a slot runs.  Its holder asks for the latest release  *)
(* or goes back to stable, the operator may hold the machine at a version, *)
(* the server reads what the channels stand at (ccfleetd/store.py,         *)
(* claude_versions.py, desired.py), and the slot's agent installs          *)
(* (ccfleet_agent/agent.py).  A request is named by the time it was made,  *)
(* here a number, and an answer closes only the request it names.          *)
(*                                                                         *)
(* A shared machine tells its slot what the last reply asked; somebody's   *)
(* own node acts on the reply of the same run, and says what its saved     *)
(* notes hold.  Either is killed between any two steps.                    *)
(*                                                                         *)
(* The hour of back-off after a failure and the day a channel stays        *)
(* resolved may have passed or not: the model lets either be.              *)
(***************************************************************************)
EXTENDS Integers

CONSTANTS
  MaxAsks,       \* bound: updates asked for from the page
  MaxReleases,   \* bound: the newest release there will be
  MaxTurns,      \* bound: releases, pins, sign-ins and choices of stable
  MaxUpdFaults   \* bound: posts lost, runs killed, notes not saved

ASSUME UpdatesAssumption ==
  MaxAsks \in Nat /\ MaxReleases \in Nat \ {0} /\ MaxTurns \in Nat /\ MaxUpdFaults \in Nat

Channels == {"stable", "latest"}
Releases == 1..MaxReleases
Exact == "exact"                    \* the operator's exact pin: release 1
Targets == Channels \cup {Exact, "none"}
Asks == 0..MaxAsks                  \* 0: no request

NoNote == [target |-> "none", resolved |-> 0, number |-> 0]
NoUpgrade == [to |-> "none", ok |-> TRUE]
NoAnswer == [at |-> 0, state |-> "none"]
NoNotes == [answer |-> NoAnswer, upgrade |-> NoUpgrade, channel |-> NoNote]
NoTold == [target |-> "none", number |-> 0, ask |-> 0, may |-> FALSE]

VARIABLES
  \* The server: the slot's kind, its machine's pin, its holder's choice, the
  \* one claude_updates row, the channels' last good read, a sign-in waiting.
  kind, pin, choice, updRow, known, login,
  \* The world: what each channel stands at.
  released,
  \* The slot: the binary, the agent's saved notes, its run.
  installed, saved, pc, told, draft, said,
  \* Bounds, and what the properties speak of: requests made, installer runs
  \* for each, those that did what was asked, updFaults that lost notes.
  asks, turns, updFaults, runsFor, doneFor, lost

updServer == <<kind, pin, choice, updRow, known, login>>
updSlot == <<installed, saved, pc, told, draft, said>>
updGhosts == <<asks, turns, updFaults, runsFor, doneFor, lost>>
updVars == <<updServer, released, updSlot, updGhosts>>

UpdInit ==
  /\ kind \in {"machine", "owner"}
  /\ pin = "none" /\ choice = "none"
  /\ updRow = [state |-> "none", at |-> 0]
  /\ known = [c \in Channels |-> 0]
  /\ login = FALSE
  /\ released = [c \in Channels |-> 1]
  /\ installed \in {0, 1}           \* 0: no claude to be found
  /\ saved = NoNotes /\ draft = NoNotes
  /\ pc = "post" /\ told = NoTold /\ said = NoAnswer
  /\ asks = 0 /\ turns = 0 /\ updFaults = 0 /\ lost = 0
  /\ runsFor = [r \in 1..MaxAsks |-> 0] /\ doneFor = {}

-----------------------------------------------------------------------------
(* The server.                                                              *)

(* What the slot should run, and whether the operator holds it there.       *)
slot_target ==
  CASE kind = "owner" -> [version |-> pin, held |-> FALSE]
    [] kind = "machine" /\ pin = Exact -> [version |-> pin, held |-> TRUE]
    [] OTHER -> [version |-> IF choice # "none" THEN choice ELSE pin, held |-> FALSE]

_choosable == ~slot_target.held

_set_channel(c) ==
  IF kind = "owner" THEN pin' = c /\ UNCHANGED choice
                    ELSE choice' = c /\ UNCHANGED pin

request_claude_update ==
  /\ asks < MaxAsks /\ _choosable
  /\ asks' = asks + 1
  /\ updRow' = [state |-> "pending", at |-> asks + 1]
  /\ _set_channel("latest")
  /\ UNCHANGED <<kind, known, login, released, updSlot, turns, updFaults, runsFor, doneFor, lost>>

Turn == turns < MaxTurns /\ turns' = turns + 1

choose_stable ==
  /\ Turn /\ _choosable
  /\ updRow' = [state |-> "none", at |-> 0]
  /\ _set_channel("stable")
  /\ UNCHANGED <<kind, known, login, released, updSlot, asks, updFaults, runsFor, doneFor, lost>>

set_pinned_version(v) ==
  /\ Turn /\ v # pin /\ pin' = v
  /\ UNCHANGED <<kind, choice, updRow, known, login, released, updSlot,
                 asks, updFaults, runsFor, doneFor, lost>>

(* A sign-in its holder starts, or that ends one way or another.            *)
UpdSignInStartsOrEnds ==
  /\ Turn /\ login' = ~login
  /\ UNCHANGED <<kind, pin, choice, updRow, known, released, updSlot,
                 asks, updFaults, runsFor, doneFor, lost>>

Release(c) ==
  /\ Turn /\ released[c] < MaxReleases
  /\ released' = [released EXCEPT ![c] = @ + 1]
  /\ UNCHANGED <<updServer, updSlot, asks, updFaults, runsFor, doneFor, lost>>

(* The hourly read: a channel that cannot be read keeps its last number.    *)
refresh == \E read \in SUBSET Channels :
  /\ known' = [c \in Channels |-> IF c \in read THEN released[c] ELSE known[c]]
  /\ known' # known
  /\ UNCHANGED <<kind, pin, choice, updRow, login, released, updSlot, updGhosts>>

(* Nobody answered in time; an answer long enough on the page is forgotten. *)
expire_claude_updates ==
  /\ updRow' = CASE updRow.state = "pending" -> [updRow EXCEPT !.state = "failed"]
              [] updRow.state \in {"done", "failed"} -> [state |-> "none", at |-> 0]
              [] OTHER -> updRow
  /\ updRow' # updRow
  /\ UNCHANGED <<kind, pin, choice, known, login, released, updSlot, updGhosts>>

(* Mutant: whatever update is waiting, the news closes it.                  *)
record_claude_update_any(answer) ==
  IF answer.at # 0 /\ updRow.state = "pending" THEN [updRow EXCEPT !.state = answer.state] ELSE updRow

(* Only news about the update still waiting counts.                         *)
record_claude_update(answer) ==
  IF answer.at # 0 /\ updRow.at = answer.at /\ updRow.state = "pending"
  THEN [updRow EXCEPT !.state = answer.state] ELSE updRow

_update_block(update) ==
  IF slot_target.held \/ update.state # "pending" THEN 0 ELSE update.at

(* What the reply says to install, and whether now.                         *)
_version_fields(update) ==
  LET v == slot_target.version
  IN  [target |-> v,
       number |-> IF v \in Channels THEN known[v] ELSE 0,
       ask    |-> IF v = "none" THEN 0 ELSE _update_block(update),
       may    |-> ~login]

-----------------------------------------------------------------------------
(* The post, and the run that carries it.                                   *)

Faulty == updFaults < MaxUpdFaults /\ updFaults' = updFaults + 1

(* The server takes the report and answers; a machine keeps the answer for  *)
(* its slot's next run, somebody's own node acts on it at once.             *)
Post ==
  /\ pc = "post"
  /\ updRow' = record_claude_update(said)
  /\ told' = _version_fields(updRow')
  /\ pc' = "reconcile"
  /\ UNCHANGED <<kind, pin, choice, known, login, released, installed, saved, draft, said,
                 updGhosts>>

(* Applied or not, the answer is lost: a machine runs on with what it was   *)
(* told before, somebody's own node says again what it has noted.           *)
PostLost ==
  /\ pc = "post" /\ Faulty
  /\ updRow' \in {updRow, record_claude_update(said)}
  /\ IF kind = "machine" THEN pc' = "reconcile" /\ UNCHANGED said
                         ELSE said' = saved.answer /\ UNCHANGED pc
  /\ UNCHANGED <<kind, pin, choice, known, login, released, installed, saved, told, draft,
                 asks, turns, runsFor, doneFor, lost>>

-----------------------------------------------------------------------------
(* The agent.                                                               *)

(* A failure about another target, or put right since, is dropped.          *)
prune_state(n) ==
  IF n.upgrade.to # told.target \/ (told.target = Exact /\ installed = 1)
  THEN [n EXCEPT !.upgrade = NoUpgrade] ELSE n

(* An answer is forgotten once the server stops asking.                     *)
settle_update(n) == IF n.answer.at = told.ask THEN n ELSE [n EXCEPT !.answer = NoAnswer]

update_asked(n) == IF n.answer.at = told.ask THEN 0 ELSE told.ask

_channel_moved(n) ==
  /\ told.number \notin {0, installed}
  /\ ~(n.channel.target = told.target /\ n.channel.number = told.number)

(* Resolved not a day ago, and nothing else has moved the binary since.     *)
_channel_is_current(n, withinTheDay) ==
  withinTheDay /\ n.channel.target = told.target /\ n.channel.resolved = installed

(* Is the installer run?                                                    *)
Installs(n, asked, withinTheDay, withinTheHour) ==
  /\ told.target # "none" /\ installed # 0
  /\ ~(told.target = Exact /\ installed = 1)
  /\ told.target \in Channels /\ ~asked
       => _channel_moved(n) \/ ~_channel_is_current(n, withinTheDay)
  /\ ~asked => ~(withinTheHour /\ ~n.upgrade.ok /\ n.upgrade.to = told.target)

Named == IF told.target = Exact THEN 1 ELSE released[told.target]

(* The notes of a run of the installer that landed on `landed`, or failed.  *)
Noted(n, ok, landed) ==
  [n EXCEPT !.upgrade = [to |-> told.target, ok |-> ok],
            !.channel = IF ok /\ told.target \in Channels
                        THEN [target |-> told.target, resolved |-> landed, number |-> told.number]
                        ELSE @]

update_answer(asked, done) == [at |-> asked, state |-> IF done THEN "done" ELSE "failed"]

Answered(n, asked, done) ==
  IF asked = 0 THEN n ELSE [n EXCEPT !.answer = update_answer(asked, done)]

(* The holder signing in is left alone: an update asked for waits.          *)
LeaveSignIn ==
  /\ pc = "reconcile" /\ ~told.may
  /\ draft' = settle_update(prune_state(saved)) /\ pc' = "save"
  /\ UNCHANGED <<updServer, released, installed, saved, told, said, updGhosts>>

(* Nothing is run: it is done only if the exact version is here already.    *)
RunNothing == \E day, hour \in BOOLEAN :
  LET n == settle_update(prune_state(saved))
      asked == update_asked(n)
      here == told.target = Exact /\ installed = 1
  IN  /\ pc = "reconcile" /\ told.may
      /\ ~Installs(n, asked # 0, day, hour)
      /\ draft' = Answered(n, asked, here) /\ pc' = "save"
      /\ doneFor' = doneFor \cup IF asked # 0 /\ here THEN {asked} ELSE {}
      /\ UNCHANGED <<updServer, released, installed, saved, told, said,
                     asks, turns, updFaults, runsFor, lost>>

(* The installer runs: it lands on the release named, or leaves the binary  *)
(* it found; or it fails, or is timed out, whatever it did to the binary.   *)
RunInstaller == \E day, hour, ok \in BOOLEAN :
  LET n == settle_update(prune_state(saved))
      asked == update_asked(n)
  IN  /\ pc = "reconcile" /\ told.may
      /\ Installs(n, asked # 0, day, hour)
      /\ installed' \in {installed, Named}
      /\ draft' = Answered(Noted(n, ok, installed'), asked, ok) /\ pc' = "save"
      /\ runsFor' = IF asked = 0 THEN runsFor ELSE [runsFor EXCEPT ![asked] = @ + 1]
      /\ doneFor' = doneFor \cup IF asked # 0 /\ ok THEN {asked} ELSE {}
      /\ UNCHANGED <<updServer, released, saved, told, said, asks, turns, updFaults, lost>>

(* The notes are written whole or not at all.  A slot's report speaks from  *)
(* the notes it made, written or not.                                       *)
write_state == \E written \in BOOLEAN :
  /\ pc = "save"
  /\ IF written THEN saved' = draft /\ UNCHANGED <<updFaults, lost>>
                ELSE Faulty /\ lost' = lost + 1 /\ UNCHANGED saved
  /\ said' = IF kind = "machine" THEN draft.answer ELSE saved'.answer
  /\ draft' = NoNotes /\ pc' = "post"
  /\ UNCHANGED <<updServer, released, installed, told, asks, turns, runsFor, doneFor>>

(* The run is killed before its notes are written.  The slot says nothing   *)
(* in that report; a node's next run says what its notes hold.              *)
UpdKilled ==
  /\ pc = "save" /\ Faulty /\ lost' = lost + 1
  /\ said' = IF kind = "machine" THEN NoAnswer ELSE saved.answer
  /\ draft' = NoNotes /\ pc' = "post"
  /\ UNCHANGED <<updServer, released, installed, saved, told, asks, turns, runsFor, doneFor>>

UpdNext ==
  \/ request_claude_update \/ choose_stable \/ UpdSignInStartsOrEnds
  \/ \E v \in Targets : set_pinned_version(v)
  \/ \E c \in Channels : Release(c)
  \/ refresh \/ expire_claude_updates
  \/ Post \/ PostLost
  \/ LeaveSignIn \/ RunNothing \/ RunInstaller \/ write_state \/ UpdKilled

UpdSpec == UpdInit /\ [][UpdNext]_updVars

-----------------------------------------------------------------------------
Answers == [at : Asks, state : {"none", "done", "failed"}]
NoteRecords == [answer : Answers, upgrade : [to : Targets, ok : BOOLEAN],
                channel : [target : Targets, resolved : 0..MaxReleases, number : 0..MaxReleases]]

UpdTypeOK ==
  /\ kind \in {"machine", "owner"} /\ pin \in Targets /\ choice \in Channels \cup {"none"}
  /\ updRow \in [state : {"none", "pending", "done", "failed"}, at : Asks]
  /\ known \in [Channels -> 0..MaxReleases] /\ released \in [Channels -> Releases]
  /\ login \in BOOLEAN
  /\ installed \in 0..MaxReleases
  /\ saved \in NoteRecords /\ draft \in NoteRecords /\ said \in Answers
  /\ pc \in {"post", "reconcile", "save"}
  /\ told \in [target : Targets, number : 0..MaxReleases, ask : Asks, may : BOOLEAN]

(* An update shown as done was done for that very request: the installer    *)
(* ran through for it, or what it asked for was there, and not for one      *)
(* asked before it, withdrawn, or given up on.                              *)
DoneIsForTheAsk == updRow.state = "done" => updRow.at \in doneFor

(* However often the machine is asked, and however many answers are lost on *)
(* the way, an update asked for runs the installer once, and once more for  *)
(* each time the notes of a run were lost.                                  *)
OneRunAnAsk == \A r \in 1..MaxAsks : runsFor[r] <= 1 + lost

UpdatesSound == DoneIsForTheAsk /\ OneRunAnAsk
=============================================================================

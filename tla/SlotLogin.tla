----------------------------- MODULE SlotLogin -----------------------------
(* Signing a machine's slot in, or moving it to another Claude account, from  *)
(* its holder's page: the sign-in row the server keeps (ccfleetd/store.py),   *)
(* the block the heartbeat reply carries (desired.py), the machine agent that *)
(* hands it to the slot, and the slot's agent (ccfleet_agent/agent.py) that   *)
(* drives Claude Code in a pane and decides what may be kept.                 *)
(* The machine works in beats: AskSlot steps make a report, a Heartbeat step  *)
(* delivers it, loses it, or loses its reply.                                 *)
EXTENDS Naturals, Sequences

CONSTANTS
  LoginAccounts,    \* Claude accounts a holder may sign in with
  NoLogin,          \* no account, no row, no report
  MaxAttempts,      \* bound: sign-ins asked for
  MaxHolders,       \* bound: times the slot is claimed
  MaxFaults         \* bound: heartbeats lost and runs cut short

VARIABLES
  asked,            \* every sign-in asked for, in order: its index is requested_at
  row,              \* logins: the one row under "slot:<id>"
  slotIs,           \* slots.state, as far as a sign-in looks at it
  holder,           \* which claim of the slot this is
  weekOf,           \* account_switched_at: the change that started the week, 0 when over
  generation,       \* gateway_generation
  tokenAt,          \* device_token_at: the attempt whose token was last read
  handed,           \* machine state: slot_logins[user]
  agent,            \* slot state: "login"
  bound,            \* slot state: bound_fp
  home,             \* ~/.claude: the credential's account and the profile's
  scratch,          \* SIGNIN_SCRATCH: the sign-in that landed there
  pane,             \* the tmux session ccfleet-login
  report,           \* what the slot said, on its way to the server
  moves,            \* ghost: attempts that moved the slot to another account
  halves,           \* ghost: attempts that said HALF_DONE, or were cut in the middle
  faults            \* faults so far

serverVars == <<asked, row, slotIs, holder, weekOf, generation, tokenAt>>
slotVars == <<agent, bound, home, scratch, pane>>
loginVars == <<serverVars, handed, slotVars, report, moves, halves, faults>>

Waiting == {"requested", "url_ready", "code_sent"}
Kinds == {"login", "token", "switch"}
NoNews == [state |-> "none", at |-> 0, secret |-> 0, detail |-> "none", signed |-> FALSE]
Details == {"none", "SWITCHED", "SAME_ACCOUNT", "OTHER_ACCOUNT", "UNKNOWN_ACCOUNT",
            "NOT_ADOPTED", "NO_SCRATCH", "HALF_DONE", "refused", "undelivered", "late"}
NoHome == [cred |-> NoLogin, block |-> NoLogin]

(* Reports carry the attempt they belong to.                                  *)
Say(state, at, secret, detail) ==
  [state |-> state, at |-> at, secret |-> secret, detail |-> detail, signed |-> FALSE]

(* state["login"], while an attempt is kept.                                  *)
LoginAttempts ==
  [at : Nat, phase : {"started", "url_ready", "code_sent", "ready", "said", "failed"},
   kind : Kinds, scratch : BOOLEAN, said : Details]

ASSUME LoginAssumption == MaxHolders \in Nat \ {0} /\ NoLogin \notin LoginAttempts

-----------------------------------------------------------------------------
(* The server.                                                                *)

\* How far an attempt has come; done and failed are not on the way, and always apply.
LoginOrder == [requested |-> 0, url_ready |-> 1, code_sent |-> 2, ready |-> 3]
Backwards(now, said) ==
  /\ {now, said} \subseteq DOMAIN LoginOrder
  /\ LoginOrder[said] < LoginOrder[now]

\* Mutant: the kind asked for is not written.
BeginLogin_as_login(at, kind) ==
  [at |-> at, kind |-> "login", state |-> "requested", code |-> FALSE, secret |-> 0,
   detail |-> "none"]

BeginLogin(at, kind) ==
  [at |-> at, kind |-> kind, state |-> "requested", code |-> FALSE, secret |-> 0,
   detail |-> "none"]

RequestSlotLogin(kind) ==
  /\ slotIs \in {"claimed", "active"}
  /\ kind = "switch" => slotIs = "active" /\ weekOf = 0
  /\ Len(asked) < MaxAttempts
  /\ asked' = Append(asked, [kind |-> kind, holder |-> holder])
  /\ row' = BeginLogin(Len(asked'), kind)
  /\ generation' = IF kind = "token" THEN generation ELSE generation + 1
  /\ UNCHANGED <<slotIs, holder, weekOf, tokenAt, handed, slotVars, report, moves, halves, faults>>

SubmitSlotLoginCode ==
  /\ row # NoLogin
  /\ row.state \in {"requested", "url_ready"}
  /\ row' = [row EXCEPT !.state = "code_sent", !.code = TRUE]
  /\ UNCHANGED <<asked, slotIs, holder, weekOf, generation, tokenAt, handed, slotVars,
                 report, moves, halves, faults>>

ReadSlotSecret ==
  /\ row # NoLogin
  /\ row.state = "ready"
  /\ tokenAt < row.at
  /\ tokenAt' = row.at
  /\ UNCHANGED <<asked, row, slotIs, holder, weekOf, generation, handed, slotVars, report,
                 moves, halves, faults>>

\* The holder ends it, or the sweep finds it older than fifteen minutes.
ClearSlotLogin ==
  /\ row # NoLogin
  /\ row' = NoLogin
  /\ UNCHANGED <<asked, slotIs, holder, weekOf, generation, tokenAt, handed, slotVars,
                 report, moves, halves, faults>>

\* The week between two changes of account runs out (switch_wait_until).
WeekPasses ==
  /\ weekOf # 0
  /\ weekOf' = 0
  /\ UNCHANGED <<asked, row, slotIs, holder, generation, tokenAt, handed, slotVars, report,
                 moves, halves, faults>>

ReleaseSlot ==
  /\ slotIs \in {"claimed", "active"}
  /\ holder < MaxHolders
  /\ slotIs' = "releasing"
  /\ row' = NoLogin
  /\ UNCHANGED <<asked, holder, weekOf, generation, tokenAt, handed, slotVars, report,
                 moves, halves, faults>>

\* The home is wiped and the slot is set up for its next holder (see SlotLifecycle).
WipedAndClaimed ==
  /\ slotIs = "releasing" /\ report = NoLogin
  /\ slotIs' = "claimed"
  /\ holder' = holder + 1
  /\ weekOf' = 0 /\ tokenAt' = 0
  /\ handed' = NoLogin /\ agent' = NoLogin /\ bound' = NoLogin /\ home' = NoHome
  /\ scratch' = NoLogin /\ pane' = NoLogin
  /\ UNCHANGED <<asked, row, generation, report, moves, halves, faults>>

\* Mutant: whatever attempt the report is about.
Matches_any(p) == TRUE

\* The report is about the attempt the row is for.
Matches(p) == p.at = row.at

\* record_login_progress: the row after a report.
RecordedRow(p) ==
  IF \/ p.state \notin Waiting \cup {"ready", "done", "failed"} \/ row = NoLogin
     \/ ~Matches(p) \/ Backwards(row.state, p.state) THEN row
  ELSE IF p.state = "ready" /\ p.secret # 0
  THEN [row EXCEPT !.state = "ready", !.code = FALSE, !.secret = p.secret, !.detail = "none"]
  ELSE IF p.state = "done" /\ row.kind = "switch" /\ p.detail \in {"SWITCHED", "SAME_ACCOUNT"}
  THEN [row EXCEPT !.state = "done", !.code = FALSE, !.secret = 0, !.detail = p.detail]
  ELSE IF p.state = "failed"
  THEN [row EXCEPT !.state = "failed", !.code = FALSE, !.secret = 0, !.detail = p.detail]
  ELSE IF p.state = "done" THEN NoLogin
  ELSE [row EXCEPT !.state = p.state, !.detail = p.detail,
                   !.code = IF p.state = "code_sent" THEN FALSE ELSE row.code]

RecordedWeek(p) ==
  IF /\ row # NoLogin /\ Matches(p)
     /\ p.state = "done" /\ row.kind = "switch" /\ row.state # "done"
     /\ p.detail = "SWITCHED"
  THEN p.at ELSE weekOf

\* The sign-in the reply asks for: never one that is ready, done or failed.
LoginBlock(r, state) ==
  IF r = NoLogin \/ state \notin {"claimed", "active"} THEN NoLogin
  ELSE IF r.state \notin Waiting THEN NoLogin
  ELSE [at |-> r.at, kind |-> r.kind, code |-> r.code /\ r.state = "code_sent"]

\* The server takes the report; a slot that reports a working login is in use.
Hears ==
  /\ report # NoLogin
  /\ slotIs' = IF slotIs = "claimed" /\ report.signed THEN "active" ELSE slotIs
  /\ row' = RecordedRow(report)
  /\ weekOf' = RecordedWeek(report)
  /\ report' = NoLogin
  /\ UNCHANGED <<asked, holder, generation, tokenAt, moves, halves>>

Heartbeat ==
  /\ Hears
  /\ handed' = LoginBlock(row', slotIs')
  /\ UNCHANGED <<slotVars, faults>>

\* A beat that fails ends the resident run, and with it the pane it holds open.
HeartbeatReplyLost ==
  /\ faults < MaxFaults
  /\ Hears
  /\ pane' = NoLogin
  /\ faults' = faults + 1
  /\ UNCHANGED <<handed, agent, bound, home, scratch>>

HeartbeatLost ==
  /\ faults < MaxFaults
  /\ report # NoLogin
  /\ report' = NoLogin
  /\ pane' = NoLogin
  /\ faults' = faults + 1
  /\ UNCHANGED <<serverVars, handed, agent, bound, home, scratch, moves, halves>>

-----------------------------------------------------------------------------
(* The slot's agent. Each step is one run of slot_facts, as the slot's user.  *)

\* bind_first_account, at the start of every run.
Bound == IF bound = NoLogin THEN (IF home.cred = NoLogin THEN NoLogin ELSE home.block)
         ELSE bound

\* What the run says, and whether the slot's own login works (auth_status).
Says(p) ==
  report' = [p EXCEPT !.signed = home.cred # NoLogin]

\* A run of slot_facts, up to the sign-in step.
Runs == /\ report = NoLogin
        /\ slotIs # "releasing"
        /\ UNCHANGED <<serverVars, handed, faults>>

Mine == agent # NoLogin /\ handed # NoLogin /\ agent.at = handed.at
In(phase) == Runs /\ Mine /\ agent.phase = phase

\* What the pane shows; nothing once it is gone.
Screen == IF pane = NoLogin THEN "gone" ELSE pane.step

\* Left when no attempt is kept (slot_facts: "login" not in state).
Over == agent' = NoLogin /\ scratch' = NoLogin

\* The server no longer asks: let the pane go.
StopAttempt ==
  /\ Runs
  /\ handed = NoLogin
  /\ pane' = IF agent = NoLogin THEN pane ELSE NoLogin
  /\ Over
  /\ bound' = Bound
  /\ Says(NoNews)
  /\ UNCHANGED <<home, moves, halves>>

\* A request not seen before: a fresh pane, in scratch once the slot keeps an account.
StartAttempt ==
  /\ Runs
  /\ handed # NoLogin /\ ~Mine
  /\ bound' = Bound
  /\ LET aside == handed.kind # "token" /\ Bound # NoLogin IN
     \/ /\ agent' = [at |-> handed.at, phase |-> "started", kind |-> handed.kind,
                     scratch |-> aside, said |-> "none"]
        /\ pane' = [at |-> handed.at, step |-> "open"]
        /\ scratch' = IF aside THEN NoHome ELSE scratch
        /\ Says(Say("requested", handed.at, 0, "none"))
     \/ /\ agent' = [at |-> handed.at, phase |-> "failed", kind |-> handed.kind,
                     scratch |-> FALSE, said |-> "none"]
        /\ scratch' = IF aside THEN NoLogin ELSE scratch
        /\ Says(Say("failed", handed.at, 0, "NO_SCRATCH"))
        /\ UNCHANGED pane
  /\ UNCHANGED <<home, moves, halves>>

\* A change of account that ended and has not been heard: the same word again.
SayAgain ==
  /\ In("said")
  /\ bound' = Bound
  /\ Says(Say("done", agent.at, 0, agent.said))
  /\ UNCHANGED <<agent, home, scratch, pane, moves, halves>>

\* The link is on the screen, or is not yet.
ReadUrl ==
  /\ In("started")
  /\ bound' = Bound
  /\ \/ /\ pane # NoLogin
        /\ agent' = [agent EXCEPT !.phase = "url_ready"]
        /\ Says(Say("url_ready", agent.at, 0, "none"))
     \/ /\ Says(NoNews)
        /\ UNCHANGED agent
  /\ UNCHANGED <<home, scratch, pane, moves, halves>>

TypeCode ==
  /\ In("url_ready")
  /\ handed.code
  /\ bound' = Bound
  /\ agent' = [agent EXCEPT !.phase = "code_sent"]
  /\ pane' = IF pane = NoLogin THEN pane ELSE [pane EXCEPT !.step = "typed"]
  /\ Says(Say("code_sent", agent.at, 0, "none"))
  /\ UNCHANGED <<home, scratch, moves, halves>>

\* Claude Code, in the pane, once the code is typed: it refuses it, mints a token, or
\* signs in as whichever account approved the link, in ~/.claude or in scratch.
ClaudeAnswers ==
  /\ Screen = "typed"
  /\ agent # NoLogin
  /\ pane.at = agent.at
  /\ \/ /\ pane' = [pane EXCEPT !.step = "refused"]
        /\ UNCHANGED <<home, scratch>>
     \/ /\ agent.kind = "token"
        /\ pane' = [pane EXCEPT !.step = "minted"]
        /\ UNCHANGED <<home, scratch>>
     \/ /\ agent.kind # "token"
        /\ pane' = [pane EXCEPT !.step = "signed"]
        /\ \E a \in LoginAccounts :
             IF agent.scratch
             THEN /\ \E profile \in {a, NoLogin} :
                       scratch' = [cred |-> a, block |-> profile]
                  /\ UNCHANGED home
             ELSE home' = [cred |-> a, block |-> a] /\ UNCHANGED scratch
  /\ UNCHANGED <<serverVars, handed, agent, bound, report, moves, halves, faults>>

SignedIn == IF agent.scratch THEN scratch # NoLogin /\ scratch.cred # NoLogin
            ELSE home.cred # NoLogin

\* The minted token is said on every run until the server stops asking; a pane that is
\* gone first is a token nobody will see, and that is said instead.
SayToken ==
  /\ Runs /\ Mine
  /\ agent.kind = "token"
  /\ bound' = Bound
  /\ \/ /\ agent.phase \in {"code_sent", "ready"}
        /\ Screen = "minted"
        /\ agent' = [agent EXCEPT !.phase = "ready"]
        /\ Says(Say("ready", agent.at, pane.at, "none"))
        /\ UNCHANGED <<pane, scratch>>
     \/ /\ agent.phase = "ready"
        /\ pane = NoLogin
        /\ Over
        /\ Says(Say("failed", agent.at, 0, "undelivered"))
        /\ UNCHANGED pane
  /\ UNCHANGED <<home, moves, halves>>

CodeRefused ==
  /\ In("code_sent")
  /\ Screen = "refused"
  /\ pane' = NoLogin
  /\ Over
  /\ bound' = Bound
  /\ Says(Say("failed", agent.at, 0, "refused"))
  /\ UNCHANGED <<home, moves, halves>>

\* A first sign-in went straight into ~/.claude.
FirstSignIn ==
  /\ In("code_sent")
  /\ agent.kind # "token" /\ ~agent.scratch /\ SignedIn
  /\ pane' = NoLogin
  /\ Over
  /\ bound' = Bound
  /\ Says(Say("done", agent.at, 0, "none"))
  /\ UNCHANGED <<home, moves, halves>>

\* What adopting a sign-in of account a, with profile p, may come to, when it is not cut
\* short: the files afterwards, the account bound, and the word for it.
Adopted(a, p) ==
  LET out(h, b, why) == [home |-> h, bound |-> b, why |-> why]
      same == out(home, bound, "NOT_ADOPTED")
      half(h) == out(h, bound, IF h = home THEN "NOT_ADOPTED" ELSE "HALF_DONE")
  IN CASE p = NoLogin -> {out(home, bound, "UNKNOWN_ACCOUNT")}
       [] p # bound /\ p # NoLogin /\ agent.kind # "switch" ->
            {out(home, bound, "OTHER_ACCOUNT")}
       [] p = bound /\ p # NoLogin -> {same, out([home EXCEPT !.cred = a], bound,
                              IF agent.kind = "switch" THEN "SAME_ACCOUNT" ELSE "none")}
       [] OTHER -> {same, out([cred |-> a, block |-> p], p, "SWITCHED")}
                   \cup {half([cred |-> c, block |-> b]) : c \in {a, home.cred},
                                                          b \in {p, home.block}}

Kept(why) == why \in {"none", "SWITCHED", "SAME_ACCOUNT"}

\* The sign-in in scratch is over: kept if it is the slot's own account, or on a change of
\* account whichever it is; else thrown away. The scratch directory goes either way.
AdoptSignIn ==
  /\ In("code_sent")
  /\ agent.scratch /\ SignedIn
  /\ \E o \in Adopted(scratch.cred, scratch.block) :
       /\ home' = o.home /\ bound' = o.bound
       /\ pane' = NoLogin /\ scratch' = NoLogin
       /\ agent' = IF Kept(o.why) /\ agent.kind = "switch"
                   THEN [agent EXCEPT !.phase = "said", !.said = o.why] ELSE NoLogin
       /\ Says(Say(IF Kept(o.why) THEN "done" ELSE "failed", agent.at, 0, o.why))
       /\ moves' = IF o.why = "SWITCHED" THEN moves \cup {agent.at} ELSE moves
       /\ halves' = IF o.why = "HALF_DONE" THEN halves \cup {agent.at} ELSE halves

\* The run is killed inside _move_account: with only the account block written, with the
\* credential too, or with the binding saved and the word to say with it.
MoveCutShort ==
  /\ faults < MaxFaults
  /\ report = NoLogin /\ slotIs # "releasing" /\ Mine
  /\ agent.phase = "code_sent" /\ agent.kind = "switch" /\ agent.scratch /\ SignedIn
  /\ scratch.block \notin {NoLogin, bound}
  /\ \/ /\ home' \in {[home EXCEPT !.block = scratch.block], scratch}
        /\ halves' = halves \cup {agent.at}
        /\ UNCHANGED <<agent, bound, moves>>
     \/ /\ home' = scratch
        /\ bound' = scratch.block
        /\ agent' = [agent EXCEPT !.phase = "said", !.said = "SWITCHED"]
        /\ moves' = moves \cup {agent.at}
        /\ UNCHANGED halves
  /\ pane' = NoLogin
  /\ faults' = faults + 1
  /\ UNCHANGED <<serverVars, handed, scratch, report>>

\* Nothing new to say: still printing, still waiting for a code or for Claude Code.
StillWaiting ==
  /\ Runs /\ Mine
  /\ \/ agent.phase = "failed"
     \/ agent.phase = "url_ready" /\ ~handed.code
     \/ /\ agent.phase = "code_sent" /\ (agent.kind = "token" \/ ~SignedIn)
        /\ Screen \notin {"refused", "minted"}
  /\ bound' = Bound
  /\ Says(NoNews)
  /\ UNCHANGED <<agent, home, scratch, pane, moves, halves>>

\* Fourteen minutes: the slot is asked once more with no sign-in handed on, and the machine
\* says in its place that the attempt failed.
Abandon ==
  /\ Runs
  /\ handed # NoLogin
  /\ pane' = IF agent = NoLogin THEN pane ELSE NoLogin
  /\ Over
  /\ bound' = Bound
  /\ Says(Say("failed", handed.at, 0, "late"))
  /\ UNCHANGED <<home, moves, halves>>

\* The machine's run is stopped or killed between two steps: its panes die with it.
RunEnds ==
  /\ faults < MaxFaults
  /\ pane # NoLogin
  /\ pane' = NoLogin
  /\ report' = NoLogin
  /\ faults' = faults + 1
  /\ UNCHANGED <<serverVars, handed, agent, bound, home, scratch, moves, halves>>

-----------------------------------------------------------------------------
LoginInit ==
  /\ asked = <<>> /\ row = NoLogin /\ holder = 1 /\ weekOf = 0
  /\ generation = 0 /\ tokenAt = 0 /\ handed = NoLogin /\ agent = NoLogin
  /\ scratch = NoLogin /\ pane = NoLogin /\ report = NoLogin
  /\ moves = {} /\ halves = {} /\ faults = 0
  /\ \/ slotIs = "claimed" /\ bound = NoLogin /\ home = NoHome
     \/ \E a \in LoginAccounts :
          slotIs = "active" /\ bound = a /\ home = [cred |-> a, block |-> a]

LoginNext ==
  \/ \E kind \in Kinds : RequestSlotLogin(kind)
  \/ SubmitSlotLoginCode \/ ReadSlotSecret \/ ClearSlotLogin \/ WeekPasses
  \/ ReleaseSlot \/ WipedAndClaimed
  \/ Heartbeat \/ HeartbeatReplyLost \/ HeartbeatLost
  \/ StopAttempt \/ StartAttempt \/ SayAgain \/ ReadUrl \/ TypeCode \/ ClaudeAnswers
  \/ SayToken \/ CodeRefused \/ FirstSignIn \/ AdoptSignIn \/ MoveCutShort
  \/ StillWaiting \/ Abandon \/ RunEnds

LoginSpec == LoginInit /\ [][LoginNext]_loginVars

-----------------------------------------------------------------------------
LoginTypeOK ==
  /\ \A i \in DOMAIN asked : asked[i].kind \in Kinds /\ asked[i].holder \in 1..MaxHolders
  /\ row # NoLogin => /\ row.at \in DOMAIN asked /\ row.kind = asked[row.at].kind
                      /\ row.state \in Waiting \cup {"ready", "done", "failed"}
                      /\ row.detail \in Details
  /\ slotIs \in {"claimed", "active", "releasing"}
  /\ bound \in LoginAccounts \cup {NoLogin}
  /\ {home.cred, home.block} \subseteq LoginAccounts \cup {NoLogin}
  /\ report # NoLogin => report.detail \in Details

(* A page shows the outcome of the sign-in it is about, whatever reports of   *)
(* replaced, cleared or restarted attempts arrive: a token under a request is *)
(* the one that request minted, for the holder who asked; a change shown as   *)
(* done was made by it; and the week is only ever started by a change made    *)
(* (store.py record_login_progress).                                          *)
RowSpeaksOfItsAttempt ==
  /\ row # NoLogin =>
       /\ asked[row.at].holder = holder
       /\ row.state = "ready" => row.secret = row.at
       /\ row.state = "done" /\ row.detail = "SWITCHED" => row.at \in moves
  /\ weekOf # 0 => weekOf \in moves

(* A slot keeps its account: only a sign-in its holder asked for as a change  *)
(* of account ever moved it, and the three things that say which account it   *)
(* is (credential, profile, binding) agree unless an attempt said it stopped  *)
(* halfway or was killed in the middle (agent.py adopt_sign_in).              *)
SlotKeepsItsAccount ==
  /\ \A at \in moves : asked[at].kind = "switch"
  /\ bound # NoLogin /\ halves = {} => home = [cred |-> bound, block |-> bound]

LoginSound == RowSpeaksOfItsAttempt /\ SlotKeepsItsAccount

(* "the machine is never asked about a failed row again" (store.py, at the    *)
(* write that keeps a failed row): an attempt the page shows as failed stays  *)
(* failed until it is cleared or asked for anew.                              *)
FailedStaysFailed ==
  [][row # NoLogin /\ row' # NoLogin /\ row.at = row'.at /\ row.state = "failed"
       => row'.state = "failed"]_loginVars
=============================================================================

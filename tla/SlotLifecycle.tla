---------------------------- MODULE SlotLifecycle ----------------------------
(***************************************************************************)
(* The life of a slot, end to end: its row in the server's store           *)
(* (ccfleetd/slots.py, ccfleetd/store.py), the root agent that makes and   *)
(* wipes its Linux user (ccfleet_agent/machine.py, node/slot-add.sh,       *)
(* node/slot-remove.sh), and the heartbeats between the two                *)
(* (ccfleet_agent/agent.py, ccfleetd/api.py).                              *)
(*                                                                         *)
(* One machine carries one slot (slots.MAX_SLOTS_PER_MACHINE), so a slot   *)
(* names its machine too.  Every store method runs in one write            *)
(* transaction and is one action.  The agent's cycle is several: it builds *)
(* a report, posts it (with retries of the same body), receives the state  *)
(* the slot should be in, runs a script, saves its notes; it may be killed *)
(* between any two of them.                                                *)
(***************************************************************************)
EXTENDS Integers, FiniteSets

CONSTANTS
  Slots,         \* the slots of the fleet, one per machine
  Accounts,      \* the people who may hold one
  None,          \* SQL NULL: no holder, nothing reported
  Stranger,      \* whoever used a Linux user made by hand, outside the fleet
  MaxClaims,     \* bound: claims made in one behaviour
  MaxQuota,      \* bound: the largest allowance an operator sets
  MaxLate,       \* bound: posts the agent gave up on, still to be applied
  PartialWipe    \* may a failed wipe remove the user and leave the home?

ASSUME ConstantsAssumption ==
  /\ IsFiniteSet(Slots)
  /\ None \notin Accounts \cup BOOLEAN
  /\ Stranger \notin Accounts \cup {None}
  /\ MaxClaims \in Nat
  /\ MaxQuota \in Nat
  /\ MaxLate \in Nat
  /\ PartialWipe \in BOOLEAN

(* A stamp stands for claimed_at: the n-th claim of the behaviour carries   *)
(* n, and 0 is SQL NULL or a missing key.                                   *)
Stamps == 0..MaxClaims

States == {"undeclared", "free", "claiming", "claimed", "active", "releasing"}
HELD == {"claiming", "claimed", "active", "releasing"}
RELEASABLE == {"claiming", "claimed", "active"}
SIGN_IN_STATES == {"claimed", "active"}

VARIABLES
  \* The store: one row of `slots` per declared slot, and accounts.slot_quota.
  state, held_by, claimed_at, present, generation, quota, claims,
  \* The machine: its Linux user, whose files its home holds, the credential.
  user, files, login, built,
  \* The agent: where its cycle stands, and the notes it keeps on disk.
  pc, payload, answered, order, notes, draft,
  \* The network: posts the agent gave up on that are still under way.
  late

rowVars     == <<state, held_by, claimed_at, present, generation>>
storeVars   == <<rowVars, quota, claims>>
machineVars == <<user, files, login, built>>
agentVars   == <<pc, payload, answered, order, notes, draft>>
vars        == <<storeVars, machineVars, agentVars, late>>

-----------------------------------------------------------------------------
(* What travels, and what the agent remembers about its slot.               *)

Notes == [known : BOOLEAN, provisioned : Stamps, failed : Stamps, wipe_failed : BOOLEAN]
Reports == [known : BOOLEAN, present : BOOLEAN, provisioned_for : Stamps,
            provision_failed_for : Stamps, wipe_error : BOOLEAN, logged_in : BOOLEAN]
Orders == [state : States, claimed_at : Stamps]

NoNotes  == [known |-> FALSE, provisioned |-> 0, failed |-> 0, wipe_failed |-> FALSE]
NoReport == [known |-> FALSE, present |-> FALSE, provisioned_for |-> 0,
             provision_failed_for |-> 0, wipe_error |-> FALSE, logged_in |-> FALSE]
NoOrder  == [state |-> "undeclared", claimed_at |-> 0]

(* Mutant: the wipe's error is left out of the report.                      *)
slot_report_without_wipe_error(s) ==
  IF notes[s].known
  THEN [known |-> TRUE, present |-> user[s],
        provisioned_for |-> notes[s].provisioned,
        provision_failed_for |-> notes[s].failed,
        logged_in |-> user[s] /\ login[s]]
  ELSE NoReport

(* The machine's own facts about its slot.  A slot it was never told of is  *)
(* not in the report; one with no Linux user has nothing to say of itself.  *)
slot_report(s) ==
  IF notes[s].known
  THEN [known |-> TRUE, present |-> user[s],
        provisioned_for |-> notes[s].provisioned,
        provision_failed_for |-> notes[s].failed,
        wipe_error |-> notes[s].wipe_failed,
        logged_in |-> user[s] /\ login[s]]
  ELSE NoReport

(* Mutant: news of any claim will do.                                       *)
_same_claim_any(reported, stamp) == reported # 0

(* Is this report about this claim?                                         *)
_same_claim(reported, stamp) == stamp # 0 /\ reported = stamp

(* Mutant: the user being there is taken as its holder having signed in.    *)
signed_in_if_present(report) == report.present

signed_in(report) == report.present /\ report.logged_in

(* Where a report moves a slot; its own state when nowhere.  Failure first: *)
(* it is the later thing the machine said.                                  *)
next_state(st, stamp, report) ==
  CASE st = "claiming" /\ _same_claim(report.provision_failed_for, stamp) -> "releasing"
    [] st = "claiming" /\ ~_same_claim(report.provision_failed_for, stamp)
         /\ report.present /\ _same_claim(report.provisioned_for, stamp) -> "claimed"
    [] st = "claimed" /\ signed_in(report) -> "active"
    [] st = "releasing" /\ ~report.present -> "free"
    [] OTHER -> st

(* Mutant: a slot being wiped no longer counts against the allowance.       *)
Held_unless_wiping(a) == {s \in Slots : held_by[s] = a /\ state[s] \in RELEASABLE}

(* The slots that count against an account's allowance.                     *)
Held(a) == {s \in Slots : held_by[s] = a /\ state[s] \in HELD}

-----------------------------------------------------------------------------
Init ==
  /\ state = [s \in Slots |-> "undeclared"]
  /\ held_by = [s \in Slots |-> None]
  /\ claimed_at = [s \in Slots |-> 0]
  /\ present = [s \in Slots |-> None]
  /\ generation = [s \in Slots |-> 0]
  /\ quota \in [Accounts -> 0..MaxQuota]
  /\ claims = 0
  /\ user \in [Slots -> BOOLEAN]      \* a user made by hand may be there
  /\ files = [s \in Slots |-> IF user[s] THEN {Stranger} ELSE {}]
  /\ login = [s \in Slots |-> FALSE]
  /\ built = [s \in Slots |-> 0]
  /\ pc = [s \in Slots |-> "idle"]
  /\ payload = [s \in Slots |-> NoReport]
  /\ answered = [s \in Slots |-> FALSE]
  /\ order = [s \in Slots |-> NoOrder]
  /\ notes = [s \in Slots |-> NoNotes]
  /\ draft = [s \in Slots |-> NoNotes]
  /\ late = [s \in Slots |-> {}]

-----------------------------------------------------------------------------
(* People and the operator, through the store.                              *)

add_slot(s) ==
  /\ state[s] = "undeclared"
  /\ state' = [state EXCEPT ![s] = "free"]
  /\ present' = [present EXCEPT ![s] = None]
  /\ generation' = [generation EXCEPT ![s] = 0]
  /\ UNCHANGED <<held_by, claimed_at, quota, claims, machineVars, agentVars, late>>

remove_slot(s) ==
  /\ state[s] = "free"
  /\ state' = [state EXCEPT ![s] = "undeclared"]
  /\ UNCHANGED <<held_by, claimed_at, present, generation, quota, claims,
                 machineVars, agentVars, late>>

set_slot_quota(a, n) ==
  /\ quota[a] # n
  /\ quota' = [quota EXCEPT ![a] = n]
  /\ UNCHANGED <<rowVars, claims, machineVars, agentVars, late>>

(* Mutant: the machine need not have reported the slot empty.               *)
Offered_unvouched(s) == state[s] = "free"

(* Only a slot its machine reported empty is handed out.                    *)
Offered(s) == state[s] = "free" /\ present[s] = FALSE

(* Mutant: taking a free slot keeps the generation it had.                  *)
Bumped_on_release(s) == IF state[s] = "free" THEN generation
                        ELSE [generation EXCEPT ![s] = @ + 1]

Bumped(s) == [generation EXCEPT ![s] = @ + 1]

(* The allowance is read, the slot picked and taken in one transaction.     *)
claim_slot(a, s) ==
  /\ claims < MaxClaims
  /\ Cardinality(Held(a)) < quota[a]
  /\ Offered(s)
  /\ claims' = claims + 1
  /\ state' = [state EXCEPT ![s] = "claiming"]
  /\ held_by' = [held_by EXCEPT ![s] = a]
  /\ claimed_at' = [claimed_at EXCEPT ![s] = claims + 1]
  /\ generation' = Bumped(s)
  /\ UNCHANGED <<present, quota, machineVars, agentVars, late>>

begin_release(s) ==
  /\ state[s] \in RELEASABLE
  /\ state' = [state EXCEPT ![s] = "releasing"]
  /\ generation' = Bumped(s)
  /\ UNCHANGED <<held_by, claimed_at, present, quota, claims, machineVars, agentVars, late>>

(* Mutant: a claim nobody finished goes straight back to the pool.          *)
expire_claims_to_free(s) ==
  /\ state[s] = "claiming"
  /\ state' = [state EXCEPT ![s] = "free"]
  /\ held_by' = [held_by EXCEPT ![s] = None]
  /\ claimed_at' = [claimed_at EXCEPT ![s] = 0]
  /\ UNCHANGED <<present, generation, quota, claims, machineVars, agentVars, late>>

(* The monitor's periodic check: a claim nobody finished fails sideways.    *)
(* Thirty minutes may be shorter or longer than anything the machine does,  *)
(* so the model lets it happen at any moment of the claim.                  *)
expire_claims(s) ==
  /\ state[s] = "claiming"
  /\ state' = [state EXCEPT ![s] = "releasing"]
  /\ UNCHANGED <<held_by, claimed_at, present, generation, quota, claims,
                 machineVars, agentVars, late>>

-----------------------------------------------------------------------------
(* The server's half of a heartbeat.                                        *)

(* Mutant: the slot comes back free still naming who held it.               *)
_free_released_keeps_holder(s) ==
  /\ claimed_at' = [claimed_at EXCEPT ![s] = 0]
  /\ UNCHANGED held_by

(* The one statement that turns a finished wipe into a free slot.           *)
_free_released(s) ==
  /\ held_by' = [held_by EXCEPT ![s] = None]
  /\ claimed_at' = [claimed_at EXCEPT ![s] = 0]

apply_slot_report(s, report) ==
  LET to == next_state(state[s], claimed_at[s], report)
  IN  IF ~report.known \/ state[s] = "undeclared"
      THEN UNCHANGED storeVars
      ELSE /\ present' = [present EXCEPT ![s] = report.present]
           /\ state' = [state EXCEPT ![s] = to]
           /\ generation' = IF to = state[s] THEN generation ELSE Bumped(s)
           /\ IF to = "free" /\ state[s] = "releasing"
              THEN _free_released(s)
              ELSE UNCHANGED <<held_by, claimed_at>>
           /\ UNCHANGED <<quota, claims>>

(* The post arrives and is applied; the same body may be posted again.      *)
Deliver(s) ==
  /\ pc[s] = "post" /\ ~answered[s]
  /\ apply_slot_report(s, payload[s])
  /\ answered' = [answered EXCEPT ![s] = TRUE]
  /\ UNCHANGED <<machineVars, pc, payload, order, notes, draft, late>>

(* What the machine should do, read after the report's transaction: the row *)
(* may have moved on in between.                                            *)
_slot_block(s) ==
  [state |-> state[s],
   claimed_at |-> IF state[s] = "claiming" THEN claimed_at[s] ELSE 0]

Reply(s) ==
  /\ pc[s] = "post" /\ answered[s]
  /\ order' = [order EXCEPT ![s] = _slot_block(s)]
  /\ pc' = [pc EXCEPT ![s] = "act"]
  /\ answered' = [answered EXCEPT ![s] = FALSE]
  /\ payload' = [payload EXCEPT ![s] = NoReport]
  /\ UNCHANGED <<storeVars, machineVars, notes, draft, late>>

(* A post the agent stopped waiting for, applied long after.                *)
DeliverLate(s) == \E report \in late[s] :
  /\ apply_slot_report(s, report)
  /\ late' = [late EXCEPT ![s] = @ \ {report}]
  /\ UNCHANGED <<machineVars, agentVars>>

-----------------------------------------------------------------------------
(* The agent's half: one run at a time (hold_the_only_run).                 *)

machine_payload(s) ==
  /\ pc[s] = "idle"
  /\ payload' = [payload EXCEPT ![s] = slot_report(s)]
  /\ pc' = [pc EXCEPT ![s] = "post"]
  /\ UNCHANGED <<storeVars, machineVars, answered, order, notes, draft, late>>

(* The agent stops waiting for a post: the network drops it, or (up to      *)
(* MaxLate of them) brings it to the server when it likes.                  *)
Abandon(s) ==
  \/ UNCHANGED late
  \/ /\ Cardinality(late[s]) < MaxLate
     /\ late' = [late EXCEPT ![s] = @ \cup {payload[s]}]

(* An attempt fails, before the server saw it or after: another attempt     *)
(* with the same body, or the run ends and keeps the notes it had.          *)
send_heartbeat_fails(s) ==
  /\ pc[s] = "post"
  /\ Abandon(s)
  /\ answered' = [answered EXCEPT ![s] = FALSE]
  /\ \/ UNCHANGED <<pc, payload>>
     \/ /\ pc' = [pc EXCEPT ![s] = "idle"]
        /\ payload' = [payload EXCEPT ![s] = NoReport]
  /\ UNCHANGED <<storeVars, machineVars, order, notes, draft>>

(* The end of the pass over the reply's slots: the new notes, not yet saved. *)
Noted(s, n) ==
  /\ draft' = [draft EXCEPT ![s] = n]
  /\ pc' = [pc EXCEPT ![s] = "save"]
  /\ UNCHANGED <<storeVars, payload, answered, order, notes, late>>

(* slot-add.sh: an existing slot user, or an existing home, is continued. A *)
(* claim that was answered is not built again: the report that carries the  *)
(* answer has moved the slot on before the reply that would ask for it.     *)
provision(s) ==
  LET claim == order[s].claimed_at
      n == [notes[s] EXCEPT !.known = TRUE]
  IN  /\ pc[s] = "act" /\ order[s].state = "claiming"
      /\ notes[s].provisioned # claim /\ notes[s].failed # claim
      /\ \/ /\ user' = [user EXCEPT ![s] = TRUE]
            /\ built' = [built EXCEPT ![s] = claim]
            /\ Noted(s, [n EXCEPT !.provisioned = claim, !.failed = 0])
         \/ /\ \E made \in {user[s], TRUE} : user' = [user EXCEPT ![s] = made]
            /\ Noted(s, [n EXCEPT !.failed = claim])
            /\ UNCHANGED built
      /\ UNCHANGED <<files, login>>

(* Mutant: a wipe that failed once is never tried again.                    *)
Wipeable_once(s) == user[s] /\ ~notes[s].wipe_failed

Wipeable(s) == user[s]

(* slot-remove.sh: gone with its home, untouched, or (PartialWipe) the user *)
(* removed and the home left, which the script itself reports as a failure. *)
wipe(s) ==
  LET n == [notes[s] EXCEPT !.known = TRUE, !.provisioned = 0]
  IN  /\ pc[s] = "act" /\ order[s].state = "releasing" /\ Wipeable(s)
      /\ \/ /\ user' = [user EXCEPT ![s] = FALSE]
            /\ files' = [files EXCEPT ![s] = {}]
            /\ login' = [login EXCEPT ![s] = FALSE]
            /\ built' = [built EXCEPT ![s] = 0]
            /\ Noted(s, [n EXCEPT !.wipe_failed = FALSE])
         \/ /\ Noted(s, [n EXCEPT !.wipe_failed = TRUE])
            /\ UNCHANGED machineVars
         \/ /\ PartialWipe
            /\ user' = [user EXCEPT ![s] = FALSE]
            /\ built' = [built EXCEPT ![s] = 0]
            /\ Noted(s, [n EXCEPT !.wipe_failed = TRUE])
            /\ UNCHANGED <<files, login>>

(* A wipe that failed under WIPE_RETRY_AFTER_S ago is not tried again yet.  *)
wipe_later(s) ==
  /\ pc[s] = "act" /\ order[s].state = "releasing" /\ user[s]
  /\ notes[s].wipe_failed
  /\ Noted(s, [notes[s] EXCEPT !.known = TRUE, !.provisioned = 0])
  /\ UNCHANGED machineVars

nothing_to_wipe(s) ==
  /\ pc[s] = "act" /\ order[s].state = "releasing" /\ ~user[s]
  /\ Noted(s, [notes[s] EXCEPT !.known = TRUE, !.provisioned = 0, !.wipe_failed = FALSE])
  /\ UNCHANGED machineVars

(* Any other state asks nothing of the machine; a free slot has no claim to *)
(* remember, and an undeclared one leaves the notes altogether.             *)
leave_be(s) ==
  /\ pc[s] = "act" /\ order[s].state \notin {"claiming", "releasing"}
  /\ Noted(s, CASE order[s].state = "undeclared" -> NoNotes
                [] order[s].state = "free" -> [NoNotes EXCEPT !.known = TRUE]
                [] OTHER -> [notes[s] EXCEPT !.known = TRUE, !.wipe_failed = FALSE])
  /\ UNCHANGED machineVars

act_on_slots(s) ==
  provision(s) \/ wipe(s) \/ wipe_later(s) \/ nothing_to_wipe(s) \/ leave_be(s)

write_state(s) ==
  /\ pc[s] = "save"
  /\ notes' = [notes EXCEPT ![s] = draft[s]]
  /\ draft' = [draft EXCEPT ![s] = NoNotes]
  /\ order' = [order EXCEPT ![s] = NoOrder]
  /\ pc' = [pc EXCEPT ![s] = "idle"]
  /\ UNCHANGED <<storeVars, machineVars, payload, answered, late>>

(* The run is killed, or the machine reboots: only the saved notes survive. *)
Crash(s) ==
  /\ pc[s] # "idle"
  /\ pc' = [pc EXCEPT ![s] = "idle"]
  /\ payload' = [payload EXCEPT ![s] = NoReport]
  /\ answered' = [answered EXCEPT ![s] = FALSE]
  /\ order' = [order EXCEPT ![s] = NoOrder]
  /\ draft' = [draft EXCEPT ![s] = NoNotes]
  /\ IF pc[s] = "post" THEN Abandon(s) ELSE UNCHANGED late
  /\ UNCHANGED <<storeVars, machineVars, notes>>

-----------------------------------------------------------------------------
(* What happens on the machine that the agent does not do.                  *)

(* The holder signs Claude Code in on the slot.                             *)
SignIn(s) ==
  /\ state[s] = "claimed" /\ user[s] /\ ~login[s]
  /\ login' = [login EXCEPT ![s] = TRUE]
  /\ files' = [files EXCEPT ![s] = @ \cup {held_by[s]}]
  /\ UNCHANGED <<storeVars, user, built, agentVars, late>>

(* The credential lapses, or the holder signs out: the files stay.          *)
SignOut(s) ==
  /\ login[s]
  /\ login' = [login EXCEPT ![s] = FALSE]
  /\ UNCHANGED <<storeVars, user, files, built, agentVars, late>>

(* The holder's session writes files; it runs until the wipe stops it.      *)
Work(s) ==
  /\ state[s] \in {"active", "releasing"} /\ user[s]
  /\ held_by[s] \notin files[s]
  /\ files' = [files EXCEPT ![s] = @ \cup {held_by[s]}]
  /\ UNCHANGED <<storeVars, user, login, built, agentVars, late>>

(* The operator runs slot-remove.sh on a user made by hand, as the          *)
(* slot_occupied alert tells them to.                                       *)
OperatorRemoves(s) ==
  /\ state[s] \in {"undeclared", "free"} /\ user[s]
  /\ user' = [user EXCEPT ![s] = FALSE]
  /\ files' = [files EXCEPT ![s] = {}]
  /\ login' = [login EXCEPT ![s] = FALSE]
  /\ built' = [built EXCEPT ![s] = 0]
  /\ UNCHANGED <<storeVars, agentVars, late>>

-----------------------------------------------------------------------------
People(s) ==
  \/ \E a \in Accounts : claim_slot(a, s)
  \/ begin_release(s)
  \/ SignIn(s)
  \/ SignOut(s)
  \/ Work(s)

Operator(s) == add_slot(s) \/ remove_slot(s) \/ OperatorRemoves(s)

Machine(s) == machine_payload(s) \/ act_on_slots(s) \/ write_state(s)

Faults(s) == send_heartbeat_fails(s) \/ Crash(s) \/ DeliverLate(s)

Next ==
  \/ \E s \in Slots :
       People(s) \/ Operator(s) \/ expire_claims(s) \/ Deliver(s) \/ Reply(s)
         \/ Machine(s) \/ Faults(s)
  \/ \E a \in Accounts, n \in 0..MaxQuota : set_slot_quota(a, n)

Spec == Init /\ [][Next]_vars

(* The agent's timer starts a run every minute and a run goes on by itself; *)
(* an agent that keeps running sooner or later gets a whole cycle through,  *)
(* and a wipe that is retried sooner or later succeeds (slot-remove.sh      *)
(* kills what holds the account first).                                     *)
WipeSucceeds(s) == wipe(s) /\ files'[s] = {} /\ ~user'[s]

Fairness == \A s \in Slots :
  /\ WF_vars(machine_payload(s))
  /\ SF_vars(Deliver(s))
  /\ SF_vars(Reply(s))
  /\ SF_vars(WipeSucceeds(s))
  /\ SF_vars(act_on_slots(s))
  /\ SF_vars(write_state(s))

FairSpec == Spec /\ Fairness

-----------------------------------------------------------------------------
(* Every variable has the type its column, note or field has.               *)
TypeOK ==
  /\ state \in [Slots -> States]
  /\ held_by \in [Slots -> Accounts \cup {None}]
  /\ claimed_at \in [Slots -> Stamps]
  /\ present \in [Slots -> BOOLEAN \cup {None}]
  /\ generation \in [Slots -> Nat]
  /\ quota \in [Accounts -> 0..MaxQuota]
  /\ claims \in Stamps
  /\ user \in [Slots -> BOOLEAN]
  /\ files \in [Slots -> SUBSET (Accounts \cup {Stranger})]
  /\ login \in [Slots -> BOOLEAN]
  /\ built \in [Slots -> Stamps]
  /\ pc \in [Slots -> {"idle", "post", "act", "save"}]
  /\ payload \in [Slots -> Reports]
  /\ answered \in [Slots -> BOOLEAN]
  /\ order \in [Slots -> Orders]
  /\ notes \in [Slots -> Notes]
  /\ draft \in [Slots -> Notes]
  /\ late \in [Slots -> SUBSET Reports]

(* A slot somebody has been given never holds anybody else's files: not a   *)
(* former holder's whose wipe was lost, retried, cut short or overtaken by  *)
(* a report, and not a stranger's.  slots.py calls the contrary "the one    *)
(* failure in this system with no recovery".                                *)
HandedOverClean == \A s \in Slots :
  state[s] \in HELD => files[s] \subseteq {held_by[s]}

(* `free` means the Linux user is gone, and its files with it, as soon as   *)
(* the machine has vouched for it: what claim_slot relies on to hand the    *)
(* slot out without asking the machine again.                               *)
FreeMeansWiped == \A s \in Slots :
  state[s] = "free" /\ present[s] = FALSE => ~user[s] /\ files[s] = {}

(* A slot shown as ready was built on the machine for this very claim: news *)
(* about an earlier claim of the slot, however late or often repeated,      *)
(* never completes a later one (slots.next_state, _same_claim).             *)
ReadyMeansBuilt == \A s \in Slots :
  state[s] \in SIGN_IN_STATES => user[s] /\ built[s] = claimed_at[s]

(* The store, the agent and the heartbeats together keep the promise of     *)
(* SlotCustody: a slot is handed over empty, a holder's files are removed   *)
(* only while that holder is leaving, and the record forgets the holder     *)
(* only after.                                                              *)
Custody == INSTANCE SlotCustody WITH
  holder  <- held_by,
  leaving <- [s \in Slots |-> state[s] = "releasing"],
  tenants <- files

ImplementsCustody == Custody!Spec

(* A slot becomes active only on its present holder's sign-in, never on a   *)
(* report of a credential somebody else left there: what they signed in     *)
(* with, or wrote since, is in the home.                                    *)
ActiveMeansSignedIn == \A s \in Slots :
  state[s] = "active" => held_by[s] \in files[s]

(* No claim takes an account past its allowance, whatever else is in its    *)
(* name in any state, slots still being wiped included; lowering an         *)
(* allowance takes nothing away, and then nothing more is given.            *)
ClaimsWithinQuota ==
  [][\A a \in Accounts, s \in Slots :
       held_by[s] # a /\ held_by'[s] = a =>
         Cardinality({r \in Slots : held_by'[r] = a}) <= quota[a]]_vars

(* Whoever keeps a generation to recognise a slot by (a gateway request in  *)
(* flight, a provider binding) is never shown another holder or another     *)
(* claim under it: a change of either raises it, and it never goes back     *)
(* while the slot stays declared.                                           *)
GenerationTellsHoldersApart ==
  [][\A s \in Slots : state[s] # "undeclared" /\ state'[s] # "undeclared" =>
       /\ generation'[s] >= generation[s]
       /\ (held_by'[s] # held_by[s] \/ claimed_at'[s] # claimed_at[s])
            => generation'[s] > generation[s]]_vars

(* A release always ends: the wipe is carried out and confirmed, through    *)
(* lost posts, failed scripts and killed runs, and the slot is free again.  *)
ReleaseEnds == \A s \in Slots : state[s] = "releasing" ~> state[s] = "free"

=============================================================================

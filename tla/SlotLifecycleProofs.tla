------------------------- MODULE SlotLifecycleProofs -------------------------
(***************************************************************************)
(* Theorems about SlotLifecycle, for every fleet, every set of accounts    *)
(* and every bound.                                                        *)
(***************************************************************************)
EXTENDS SlotLifecycle, FiniteSetTheorems, TLAPS

(* What a report may do to a row stays within the states of a row.          *)
LEMMA NextStateType ==
  ASSUME NEW st \in States, NEW stamp \in Stamps, NEW report \in Reports
  PROVE  next_state(st, stamp, report) \in States
BY DEF next_state, States

(* Applying a well-formed report leaves a well-formed store.                *)
LEMMA ReportType ==
  ASSUME TypeOK, NEW s \in Slots, NEW report \in Reports,
         apply_slot_report(s, report)
  PROVE  /\ state' \in [Slots -> States]
         /\ held_by' \in [Slots -> Accounts \cup {None}]
         /\ claimed_at' \in [Slots -> Stamps]
         /\ present' \in [Slots -> BOOLEAN \cup {None}]
         /\ generation' \in [Slots -> Nat]
         /\ quota' \in [Accounts -> 0..MaxQuota]
         /\ claims' \in Stamps
<1>0. 0 \in Stamps
  BY ConstantsAssumption DEF Stamps
<1>1. CASE UNCHANGED storeVars
  BY <1>1 DEF storeVars, rowVars, TypeOK
<1>2. CASE ~UNCHANGED storeVars
  <2> DEFINE to == next_state(state[s], claimed_at[s], report)
  <2>1. to \in States
    BY NextStateType DEF TypeOK
  <2> HIDE DEF to
  <2>2. /\ present' = [present EXCEPT ![s] = report.present]
        /\ state' = [state EXCEPT ![s] = to]
        /\ generation' = IF to = state[s] THEN generation ELSE Bumped(s)
        /\ \/ _free_released(s)
           \/ UNCHANGED <<held_by, claimed_at>>
        /\ UNCHANGED <<quota, claims>>
    BY <1>2 DEF apply_slot_report, to
  <2>3. report.present \in BOOLEAN
    BY DEF Reports
  <2> QED
    BY <1>0, <2>1, <2>2, <2>3 DEF TypeOK, Bumped, _free_released
<1> QED
  BY <1>1, <1>2

-----------------------------------------------------------------------------
(* What the agent builds, is told and notes has the shape it should have.   *)
LEMMA SlotReportType ==
  ASSUME TypeOK, NEW s \in Slots
  PROVE  slot_report(s) \in Reports
<1>1. 0 \in Stamps
  BY ConstantsAssumption DEF Stamps
<1> QED
  BY <1>1 DEF slot_report, NoReport, Reports, TypeOK, Notes

LEMMA SlotBlockType ==
  ASSUME TypeOK, NEW s \in Slots
  PROVE  _slot_block(s) \in Orders
<1>1. 0 \in Stamps
  BY ConstantsAssumption DEF Stamps
<1> QED
  BY <1>1 DEF _slot_block, Orders, TypeOK

LEMMA NothingType ==
  NoNotes \in Notes /\ NoReport \in Reports /\ NoOrder \in Orders
<1>1. 0 \in Stamps
  BY ConstantsAssumption DEF Stamps
<1> QED
  BY <1>1 DEF NoNotes, Notes, NoReport, Reports, NoOrder, Orders, States

(* Every pass over the slots leaves well-formed notes.                      *)
LEMMA NotedType ==
  ASSUME TypeOK, NEW s \in Slots, act_on_slots(s)
  PROVE  /\ draft' \in [Slots -> Notes]
         /\ pc' \in [Slots -> {"idle", "post", "act", "save"}]
         /\ UNCHANGED <<storeVars, payload, answered, order, notes, late>>
         /\ user' \in [Slots -> BOOLEAN]
         /\ files' \in [Slots -> SUBSET (Accounts \cup {Stranger})]
         /\ login' \in [Slots -> BOOLEAN]
         /\ built' \in [Slots -> Stamps]
<1>0. 0 \in Stamps
  BY ConstantsAssumption DEF Stamps
<1>1. notes[s] \in Notes /\ order[s] \in Orders
  BY DEF TypeOK
<1>2. ASSUME NEW n \in Notes, Noted(s, n)
      PROVE  /\ draft' \in [Slots -> Notes]
             /\ pc' \in [Slots -> {"idle", "post", "act", "save"}]
             /\ UNCHANGED <<storeVars, payload, answered, order, notes, late>>
  BY <1>2 DEF Noted, TypeOK
<1>3. CASE provision(s)
  <2>1. PICK n \in Notes : Noted(s, n)
    BY <1>0, <1>1, <1>3 DEF provision, Notes, Orders
  <2>2. user' \in [Slots -> BOOLEAN] /\ built' \in [Slots -> Stamps]
        /\ UNCHANGED <<files, login>>
    BY <1>1, <1>3 DEF provision, TypeOK, Orders
  <2> QED
    BY <1>2, <2>1, <2>2 DEF TypeOK
<1>4. CASE wipe(s)
  <2>1. PICK n \in Notes : Noted(s, n)
    BY <1>0, <1>1, <1>4 DEF wipe, Notes
  <2>2. /\ user' \in [Slots -> BOOLEAN]
        /\ files' \in [Slots -> SUBSET (Accounts \cup {Stranger})]
        /\ login' \in [Slots -> BOOLEAN]
        /\ built' \in [Slots -> Stamps]
    <3>1. \/ /\ user' = [user EXCEPT ![s] = FALSE]
             /\ files' = [files EXCEPT ![s] = {}]
             /\ login' = [login EXCEPT ![s] = FALSE]
             /\ built' = [built EXCEPT ![s] = 0]
          \/ UNCHANGED machineVars
          \/ /\ user' = [user EXCEPT ![s] = FALSE]
             /\ built' = [built EXCEPT ![s] = 0]
             /\ UNCHANGED <<files, login>>
      BY <1>4 DEF wipe
    <3> QED
      BY <1>0, <3>1 DEF TypeOK, machineVars
  <2> QED
    BY <1>2, <2>1, <2>2
<1>5. CASE wipe_later(s) \/ nothing_to_wipe(s)
  <2>1. PICK n \in Notes : Noted(s, n)
    BY <1>0, <1>1, <1>5 DEF wipe_later, nothing_to_wipe, Notes
  <2> QED
    BY <1>2, <1>5, <2>1 DEF TypeOK, wipe_later, nothing_to_wipe, machineVars
<1>6. CASE leave_be(s)
  <2>1. PICK n \in Notes : Noted(s, n)
    BY <1>0, <1>1, <1>6, NothingType DEF leave_be, Notes, NoNotes
  <2> QED
    BY <1>2, <1>6, <2>1 DEF TypeOK, leave_be, machineVars
<1> QED
  BY <1>3, <1>4, <1>5, <1>6 DEF act_on_slots

-----------------------------------------------------------------------------
(* A row names a holder and a claim exactly while it is held; TypeOK is     *)
(* inductive only together with it, for a session writes files in the name  *)
(* of whoever the row says holds the slot.                                  *)
RowsOK == \A s \in Slots :
  IF state[s] \in HELD
  THEN held_by[s] \in Accounts /\ claimed_at[s] \in 1..claims
  ELSE held_by[s] = None /\ claimed_at[s] = 0

(* A report moves a row along the lifecycle, and frees it only from         *)
(* `releasing`, on a report that the user is gone.                          *)
LEMMA NextStateMoves ==
  ASSUME NEW st \in States, NEW stamp \in Stamps, NEW report \in Reports
  PROVE  LET to == next_state(st, stamp, report) IN
         \/ to = st
         \/ st = "claiming" /\ to = "releasing"
         \/ st = "claiming" /\ to = "claimed" /\ report.present
              /\ report.provisioned_for = stamp
         \/ st = "claimed" /\ to = "active" /\ report.present
         \/ st = "releasing" /\ to = "free" /\ ~report.present
BY DEF next_state, States, Reports, _same_claim, signed_in

(* What applying a report does to the rows, without its case split.         *)
LEMMA ReportMoves ==
  ASSUME TypeOK, NEW s \in Slots, NEW report \in Reports,
         apply_slot_report(s, report)
  PROVE  /\ UNCHANGED <<quota, claims>>
         /\ \A r \in Slots : r # s =>
              /\ state'[r] = state[r] /\ held_by'[r] = held_by[r]
              /\ claimed_at'[r] = claimed_at[r] /\ present'[r] = present[r]
         /\ \/ UNCHANGED <<state, held_by, claimed_at, present>>
            \/ /\ report.known /\ present'[s] = report.present
               /\ state'[s] = state[s]
               /\ held_by'[s] = held_by[s] /\ claimed_at'[s] = claimed_at[s]
            \/ /\ report.known /\ present'[s] = report.present
               /\ \/ state[s] = "claiming" /\ state'[s] = "releasing"
                  \/ state[s] = "claiming" /\ state'[s] = "claimed" /\ report.present
                       /\ report.provisioned_for = claimed_at[s]
                  \/ state[s] = "claimed" /\ state'[s] = "active"
               /\ held_by'[s] = held_by[s] /\ claimed_at'[s] = claimed_at[s]
            \/ /\ report.known /\ present'[s] = FALSE /\ ~report.present
               /\ state[s] = "releasing" /\ state'[s] = "free"
               /\ held_by'[s] = None /\ claimed_at'[s] = 0
<1>1. CASE UNCHANGED storeVars
  BY <1>1 DEF storeVars, rowVars
<1>2. CASE ~UNCHANGED storeVars
  <2> DEFINE to == next_state(state[s], claimed_at[s], report)
  <2>1. \/ to = state[s]
        \/ state[s] = "claiming" /\ to = "releasing"
        \/ state[s] = "claiming" /\ to = "claimed" /\ report.present
             /\ report.provisioned_for = claimed_at[s]
        \/ state[s] = "claimed" /\ to = "active" /\ report.present
        \/ state[s] = "releasing" /\ to = "free" /\ ~report.present
    BY NextStateMoves DEF TypeOK
  <2> HIDE DEF to
  <2>2. /\ report.known
        /\ present' = [present EXCEPT ![s] = report.present]
        /\ state' = [state EXCEPT ![s] = to]
        /\ IF to = "free" /\ state[s] = "releasing"
           THEN /\ held_by' = [held_by EXCEPT ![s] = None]
                /\ claimed_at' = [claimed_at EXCEPT ![s] = 0]
           ELSE UNCHANGED <<held_by, claimed_at>>
        /\ UNCHANGED <<quota, claims>>
    BY <1>2 DEF apply_slot_report, to, _free_released
  <2>3. report.present \in BOOLEAN
    BY DEF Reports
  <2> QED
    BY <2>1, <2>2, <2>3 DEF TypeOK
<1> QED
  BY <1>1, <1>2

(* Every step of the system keeps every variable in its type.               *)
LEMMA TypeStep ==
  ASSUME TypeOK, RowsOK, [Next]_vars
  PROVE  TypeOK'
<1> USE DEF TypeOK
<1>0. 0 \in Stamps
  BY ConstantsAssumption DEF Stamps
<1>1. ASSUME NEW s \in Slots, People(s) PROVE TypeOK'
  <2>1. CASE \E a \in Accounts : claim_slot(a, s)
    BY <2>1, ConstantsAssumption DEF claim_slot, Bumped, States, Stamps, machineVars, agentVars
  <2>2. CASE begin_release(s)
    BY <2>2 DEF begin_release, Bumped, States, machineVars, agentVars
  <2>3. CASE SignIn(s) \/ SignOut(s) \/ Work(s)
    <3>1. /\ UNCHANGED <<storeVars, user, built, agentVars, late>>
          /\ login' \in [Slots -> BOOLEAN]
      BY <2>3 DEF SignIn, SignOut, Work
    <3>2. CASE SignOut(s)
      BY <3>1, <3>2 DEF SignOut, storeVars, rowVars, agentVars
    <3>3. CASE SignIn(s) \/ Work(s)
      <4>1. held_by[s] \in Accounts
        BY <3>3 DEF SignIn, Work, RowsOK, HELD
      <4> QED
        BY <3>1, <3>3, <4>1 DEF SignIn, Work, storeVars, rowVars, agentVars
    <3> QED
      BY <2>3, <3>2, <3>3
  <2> QED
    BY <1>1, <2>1, <2>2, <2>3 DEF People
<1>2. ASSUME NEW s \in Slots, Operator(s) PROVE TypeOK'
  <2>1. CASE add_slot(s)
    BY <2>1 DEF add_slot, States, machineVars, agentVars
  <2>2. CASE remove_slot(s)
    BY <2>2 DEF remove_slot, States, machineVars, agentVars
  <2>3. CASE OperatorRemoves(s)
    BY <1>0, <2>3 DEF OperatorRemoves, storeVars, rowVars, agentVars
  <2> QED
    BY <1>2, <2>1, <2>2, <2>3 DEF Operator
<1>3. ASSUME NEW s \in Slots, expire_claims(s) PROVE TypeOK'
  BY <1>3 DEF expire_claims, States, machineVars, agentVars
<1>4. ASSUME NEW s \in Slots, Deliver(s) PROVE TypeOK'
  BY <1>4, ReportType DEF Deliver, machineVars
<1>5. ASSUME NEW s \in Slots, Reply(s) PROVE TypeOK'
  BY <1>5, SlotBlockType, NothingType DEF Reply, storeVars, rowVars, machineVars
<1>6. ASSUME NEW s \in Slots, Machine(s) PROVE TypeOK'
  <2>1. CASE machine_payload(s)
    BY <2>1, SlotReportType DEF machine_payload, storeVars, rowVars, machineVars
  <2>2. CASE act_on_slots(s)
    BY <2>2, NotedType DEF storeVars, rowVars
  <2>3. CASE write_state(s)
    BY <2>3, NothingType DEF write_state, storeVars, rowVars, machineVars
  <2> QED
    BY <1>6, <2>1, <2>2, <2>3 DEF Machine
<1>7. ASSUME NEW s \in Slots, Faults(s) PROVE TypeOK'
  <2>1. CASE send_heartbeat_fails(s)
    <3>1. /\ pc' \in [Slots -> {"idle", "post", "act", "save"}]
          /\ payload' \in [Slots -> Reports]
          /\ answered' \in [Slots -> BOOLEAN]
      <4>1. \/ UNCHANGED <<pc, payload>>
            \/ /\ pc' = [pc EXCEPT ![s] = "idle"]
               /\ payload' = [payload EXCEPT ![s] = NoReport]
        BY <2>1 DEF send_heartbeat_fails
      <4>2. answered' = [answered EXCEPT ![s] = FALSE]
        BY <2>1 DEF send_heartbeat_fails
      <4> QED
        BY <4>1, <4>2, NothingType
    <3>2. late' \in [Slots -> SUBSET Reports]
      BY <2>1 DEF send_heartbeat_fails, Abandon
    <3> QED
      BY <2>1, <3>1, <3>2 DEF send_heartbeat_fails, storeVars, rowVars, machineVars
  <2>2. CASE Crash(s)
    BY <2>2, NothingType DEF Crash, Abandon, storeVars, rowVars, machineVars
  <2>3. CASE DeliverLate(s)
    BY <2>3, ReportType DEF DeliverLate, machineVars, agentVars
  <2> QED
    BY <1>7, <2>1, <2>2, <2>3 DEF Faults
<1>8. ASSUME NEW a \in Accounts, NEW n \in 0..MaxQuota, set_slot_quota(a, n) PROVE TypeOK'
  BY <1>8 DEF set_slot_quota, rowVars, machineVars, agentVars
<1>9. CASE UNCHANGED vars
  BY <1>9 DEF vars, storeVars, rowVars, machineVars, agentVars
<1> QED
  BY <1>1, <1>2, <1>3, <1>4, <1>5, <1>6, <1>7, <1>8, <1>9 DEF Next

(* Every step of the system keeps the rows consistent.                      *)
LEMMA RowsStep ==
  ASSUME TypeOK, RowsOK, [Next]_vars
  PROVE  RowsOK'
<1> USE DEF RowsOK, HELD
<1>1. ASSUME NEW s \in Slots, UNCHANGED <<state, held_by, claimed_at, claims>> PROVE RowsOK'
  BY <1>1
<1>2. ASSUME NEW s \in Slots, NEW a \in Accounts, claim_slot(a, s) PROVE RowsOK'
  BY <1>2, ConstantsAssumption DEF claim_slot, Offered, TypeOK, Stamps
<1>3. ASSUME NEW s \in Slots, begin_release(s) \/ expire_claims(s) PROVE RowsOK'
  BY <1>3 DEF begin_release, expire_claims, RELEASABLE, TypeOK
<1>4. ASSUME NEW s \in Slots, add_slot(s) \/ remove_slot(s) PROVE RowsOK'
  BY <1>4 DEF add_slot, remove_slot, TypeOK
<1>5. ASSUME NEW s \in Slots, Deliver(s) \/ DeliverLate(s) PROVE RowsOK'
  <2>1. PICK report \in Reports : apply_slot_report(s, report)
    BY <1>5 DEF Deliver, DeliverLate, TypeOK
  <2>2. claims' = claims
    BY <2>1, ReportMoves
  <2>3. ASSUME NEW r \in Slots
        PROVE  IF state'[r] \in HELD
               THEN held_by'[r] \in Accounts /\ claimed_at'[r] \in 1..claims
               ELSE held_by'[r] = None /\ claimed_at'[r] = 0
    <3>1. CASE r # s
      BY <2>1, <3>1, ReportMoves
    <3>2. CASE r = s
      BY <2>1, <3>2, ReportMoves
    <3> QED
      BY <3>1, <3>2
  <2> QED
    BY <2>2, <2>3
<1>6. ASSUME NEW s \in Slots, SignIn(s) \/ SignOut(s) \/ Work(s) \/ OperatorRemoves(s)
             \/ Reply(s) \/ machine_payload(s) \/ write_state(s)
             \/ send_heartbeat_fails(s) \/ Crash(s)
      PROVE RowsOK'
  BY <1>6 DEF SignIn, SignOut, Work, OperatorRemoves, Reply, machine_payload, write_state,
     send_heartbeat_fails, Crash, storeVars, rowVars
<1>7. ASSUME NEW s \in Slots, act_on_slots(s) PROVE RowsOK'
  BY <1>7, NotedType DEF storeVars, rowVars
<1>8. ASSUME NEW a \in Accounts, NEW n \in 0..MaxQuota, set_slot_quota(a, n) PROVE RowsOK'
  BY <1>8 DEF set_slot_quota, rowVars
<1>9. CASE UNCHANGED vars
  BY <1>9 DEF vars, storeVars, rowVars
<1> QED
  BY <1>2, <1>3, <1>4, <1>5, <1>6, <1>7, <1>8, <1>9
     DEF Next, People, Operator, Machine, Faults

(* Every variable keeps its type, and every row names a holder exactly      *)
(* while it is held, whatever the network, the machine and the people do.   *)
THEOREM TypeCorrect == Spec => [](TypeOK /\ RowsOK)
<1>1. Init => TypeOK /\ RowsOK
  BY ConstantsAssumption, NothingType DEF Init, TypeOK, RowsOK, States, HELD, Stamps
<1> QED
  BY <1>1, TypeStep, RowsStep, PTL DEF Spec

-----------------------------------------------------------------------------
(* The promise of SlotCustody, when a post is never applied after the agent *)
(* gave it up and a wipe removes the user and the home together.  Without   *)
(* either the runs exhibit how it is broken.                                *)
Orderly == MaxLate = 0 /\ PartialWipe = FALSE

(* Why a free slot is empty.  The report that freed it, or vouched for it   *)
(* since, said the user was gone, and that report was still true when it    *)
(* was applied (PostIsTrue): only the agent makes a user, it makes one only *)
(* for a claim, and while it acts on a claim it reports nothing, so the     *)
(* claim can at most have turned to releasing (ActsOnItsClaim).  In the     *)
(* same way it only wipes a slot that is still releasing (WipesReleasing).  *)
HomeGoesWithUser(s) == ~user[s] => files[s] = {}
VouchedIsGone(s) == state[s] = "free" /\ present[s] = FALSE => ~user[s]
OnlyItsHolders(s) == state[s] \in HELD => files[s] \subseteq {held_by[s]}
PostIsTrue(s) == pc[s] = "post" /\ payload[s].known /\ ~payload[s].present => ~user[s]
ActsOnItsClaim(s) ==
  pc[s] = "act" /\ order[s].state = "claiming" => state[s] \in {"claiming", "releasing"}
WipesReleasing(s) ==
  pc[s] = "act" /\ order[s].state = "releasing" => state[s] = "releasing"

CustodyOf(s) ==
  /\ HomeGoesWithUser(s) /\ VouchedIsGone(s) /\ OnlyItsHolders(s)
  /\ PostIsTrue(s) /\ ActsOnItsClaim(s) /\ WipesReleasing(s)
  /\ late[s] = {}

CustodyInv == \A s \in Slots : CustodyOf(s)

(* Custody of a slot is about that slot alone: a step that leaves what it   *)
(* reads keeps it.                                                          *)
LEMMA CustodyLocal ==
  ASSUME NEW r \in Slots, CustodyOf(r),
         state'[r] = state[r], held_by'[r] = held_by[r], present'[r] = present[r],
         user'[r] = user[r], files'[r] = files[r], pc'[r] = pc[r],
         payload'[r] = payload[r], order'[r] = order[r], late'[r] = late[r]
  PROVE  CustodyOf(r)'
BY DEF CustodyOf, HomeGoesWithUser, VouchedIsGone, OnlyItsHolders, PostIsTrue,
       ActsOnItsClaim, WipesReleasing

(* A step at one slot leaves every other slot alone.                        *)
StepAt(s) ==
  People(s) \/ Operator(s) \/ expire_claims(s) \/ Deliver(s) \/ Reply(s)
    \/ Machine(s) \/ Faults(s)

LEMMA StepIsLocal ==
  ASSUME TypeOK, NEW s \in Slots, NEW r \in Slots, r # s, StepAt(s)
  PROVE  /\ state'[r] = state[r] /\ held_by'[r] = held_by[r] /\ present'[r] = present[r]
         /\ user'[r] = user[r] /\ files'[r] = files[r] /\ pc'[r] = pc[r]
         /\ payload'[r] = payload[r] /\ order'[r] = order[r] /\ late'[r] = late[r]
         /\ claimed_at'[r] = claimed_at[r] /\ built'[r] = built[r]
         /\ notes'[r] = notes[r] /\ draft'[r] = draft[r] /\ login'[r] = login[r]
<1> USE DEF TypeOK
<1>1. CASE People(s)
  BY <1>1 DEF People, claim_slot, begin_release, SignIn, SignOut, Work, storeVars, rowVars,
     machineVars, agentVars
<1>2. CASE Operator(s) \/ expire_claims(s)
  BY <1>2 DEF Operator, add_slot, remove_slot, OperatorRemoves, expire_claims, storeVars,
     rowVars, machineVars, agentVars
<1>3. CASE Deliver(s)
  <2>1. payload[s] \in Reports
    OBVIOUS
  <2> QED
    BY <1>3, <2>1, ReportMoves DEF Deliver, machineVars, agentVars
<1>4. CASE Reply(s) \/ machine_payload(s) \/ write_state(s)
  BY <1>4 DEF Reply, machine_payload, write_state, storeVars, rowVars, machineVars
<1>5. CASE act_on_slots(s)
  <2>1. UNCHANGED <<storeVars, payload, order, late>>
    BY <1>5, NotedType
  <2>2. pc'[r] = pc[r] /\ draft'[r] = draft[r] /\ notes'[r] = notes[r]
    BY <1>5 DEF act_on_slots, provision, wipe, wipe_later,
       nothing_to_wipe, leave_be, Noted
  <2>3. user'[r] = user[r] /\ files'[r] = files[r] /\ built'[r] = built[r] /\ login'[r] = login[r]
    BY <1>5 DEF act_on_slots, provision, wipe, wipe_later,
       nothing_to_wipe, leave_be, machineVars
  <2> QED
    BY <2>1, <2>2, <2>3 DEF storeVars, rowVars
<1>6. CASE send_heartbeat_fails(s) \/ Crash(s)
  <2>1. late'[r] = late[r]
    BY <1>6 DEF send_heartbeat_fails, Crash, Abandon
  <2> QED
    BY <1>6, <2>1 DEF send_heartbeat_fails, Crash, storeVars, rowVars, machineVars
<1>7. CASE DeliverLate(s)
  <2>1. PICK report \in late[s] : apply_slot_report(s, report)
    BY <1>7 DEF DeliverLate
  <2>2. report \in Reports
    BY <2>1
  <2>3. late'[r] = late[r] /\ UNCHANGED <<machineVars, agentVars>>
    BY <1>7 DEF DeliverLate
  <2>4. /\ state'[r] = state[r] /\ held_by'[r] = held_by[r] /\ present'[r] = present[r]
        /\ claimed_at'[r] = claimed_at[r]
    BY <2>1, <2>2, ReportMoves
  <2> QED
    BY <2>3, <2>4 DEF machineVars, agentVars
<1> QED
  BY <1>1, <1>2, <1>3, <1>4, <1>5, <1>6, <1>7 DEF StepAt, Machine, Faults

LEMMA CustodyStep ==
  ASSUME Orderly, TypeOK, RowsOK, CustodyInv, NEW s \in Slots, StepAt(s)
  PROVE  CustodyOf(s)'
<1> USE DEF CustodyOf, HomeGoesWithUser, VouchedIsGone, OnlyItsHolders, PostIsTrue,
      ActsOnItsClaim, WipesReleasing
<1>0. CustodyOf(s)
  BY DEF CustodyInv
<1>1. CASE People(s)
  <2>1. ASSUME NEW a \in Accounts, claim_slot(a, s) PROVE CustodyOf(s)'
    BY <1>0, <2>1 DEF claim_slot, Offered, TypeOK, machineVars, agentVars
  <2>2. CASE begin_release(s)
    BY <1>0, <2>2 DEF begin_release, RELEASABLE, HELD, TypeOK, machineVars, agentVars
  <2>3. CASE SignIn(s) \/ SignOut(s) \/ Work(s)
    BY <1>0, <2>3 DEF SignIn, SignOut, Work, HELD, TypeOK, storeVars, rowVars, agentVars
  <2> QED
    BY <1>1, <2>1, <2>2, <2>3 DEF People
<1>2. CASE add_slot(s) \/ remove_slot(s)
  <2>1. UNCHANGED <<held_by, user, files, pc, payload, order, late>>
    BY <1>2 DEF add_slot, remove_slot, machineVars, agentVars
  <2>2. \/ state[s] = "undeclared" /\ state'[s] = "free" /\ present'[s] = None
        \/ state[s] = "free" /\ state'[s] = "undeclared"
    BY <1>2 DEF add_slot, remove_slot, TypeOK
  <2> QED
    BY <1>0, <2>1, <2>2, ConstantsAssumption DEF HELD
<1>3. CASE OperatorRemoves(s)
  BY <1>0, <1>3 DEF OperatorRemoves, HELD, TypeOK, storeVars, rowVars, agentVars
<1>4. CASE expire_claims(s)
  BY <1>0, <1>4 DEF expire_claims, HELD, TypeOK, machineVars, agentVars
<1>5. CASE Deliver(s)
  <2>1. payload[s] \in Reports /\ apply_slot_report(s, payload[s]) /\ pc[s] = "post"
    BY <1>5 DEF Deliver, TypeOK
  <2>2. UNCHANGED <<user, files, pc, payload, order, late>>
    BY <1>5 DEF Deliver, machineVars
  <2>3. payload[s].known /\ ~payload[s].present => ~user[s] /\ files[s] = {}
    BY <1>0, <2>1
  <2> QED
    BY <1>0, <2>1, <2>2, <2>3, ReportMoves DEF HELD
<1>6. CASE Reply(s)
  BY <1>0, <1>6 DEF Reply, _slot_block, TypeOK, storeVars, rowVars, machineVars
<1>7. CASE machine_payload(s)
  BY <1>0, <1>7 DEF machine_payload, slot_report, NoReport, TypeOK, storeVars, rowVars,
     machineVars
<1>8. CASE act_on_slots(s)
  <2>1. UNCHANGED <<state, held_by, present, late>> /\ pc[s] = "act" /\ pc'[s] = "save"
    BY <1>8 DEF act_on_slots, provision, wipe, wipe_later,
       nothing_to_wipe, leave_be, Noted, storeVars, rowVars, TypeOK
  <2>2. CASE provision(s)
    BY <1>0, <2>1, <2>2 DEF provision, TypeOK
  <2>3. CASE wipe(s)
    BY <1>0, <2>1, <2>3 DEF wipe, Orderly, TypeOK, machineVars
  <2>4. CASE UNCHANGED machineVars
    BY <1>0, <2>1, <2>4 DEF machineVars
  <2> QED
    BY <1>8, <2>2, <2>3, <2>4 DEF act_on_slots, wipe_later,
       nothing_to_wipe, leave_be
<1>9. CASE write_state(s)
  BY <1>0, <1>9 DEF write_state, TypeOK, storeVars, rowVars, machineVars
<1>10. CASE send_heartbeat_fails(s) \/ Crash(s)
  <2>1. late' = late
    BY <1>0, <1>10, ConstantsAssumption, FS_EmptySet DEF send_heartbeat_fails, Crash, Abandon, Orderly
  <2> QED
    BY <1>0, <1>10, <2>1 DEF send_heartbeat_fails, Crash, NoReport, TypeOK, storeVars,
       rowVars, machineVars
<1>11. CASE DeliverLate(s)
  BY <1>0, <1>11 DEF DeliverLate
<1> QED
  BY <1>1, <1>2, <1>3, <1>4, <1>5, <1>6, <1>7, <1>8, <1>9, <1>10, <1>11
     DEF StepAt, Operator, Machine, Faults

(* Every step keeps the custody of every slot.                              *)
LEMMA CustodyPreserved ==
  ASSUME Orderly, TypeOK, RowsOK, CustodyInv, [Next]_vars
  PROVE  CustodyInv'
<1>1. ASSUME NEW s \in Slots, StepAt(s), NEW r \in Slots PROVE CustodyOf(r)'
  <2>1. CASE r = s
    BY <1>1, <2>1, CustodyStep
  <2>2. CASE r # s
    <3>1. CustodyOf(r)
      BY DEF CustodyInv
    <3> QED
      BY <1>1, <2>2, <3>1, StepIsLocal, CustodyLocal
  <2> QED
    BY <2>1, <2>2
<1>2. ASSUME NEW a \in Accounts, NEW n \in 0..MaxQuota, set_slot_quota(a, n),
             NEW r \in Slots
      PROVE  CustodyOf(r)'
  <2>1. CustodyOf(r)
    BY DEF CustodyInv
  <2> QED
    BY <1>2, <2>1, CustodyLocal DEF set_slot_quota, rowVars, machineVars, agentVars
<1>3. ASSUME UNCHANGED vars, NEW r \in Slots PROVE CustodyOf(r)'
  <2>1. CustodyOf(r)
    BY DEF CustodyInv
  <2> QED
    BY <1>3, <2>1, CustodyLocal DEF vars, storeVars, rowVars, machineVars, agentVars
<1> QED
  BY <1>1, <1>2, <1>3 DEF CustodyInv, Next, StepAt

LEMMA CustodyInit ==
  ASSUME Init
  PROVE  CustodyInv
BY DEF Init, CustodyInv, CustodyOf, HomeGoesWithUser, VouchedIsGone, OnlyItsHolders,
   PostIsTrue, ActsOnItsClaim, WipesReleasing, HELD

LEMMA CustodyAlways ==
  ASSUME Orderly
  PROVE  Spec => [](TypeOK /\ RowsOK /\ CustodyInv)
<1>1. Spec => []CustodyInv
  BY CustodyInit, CustodyPreserved, TypeCorrect, PTL DEF Spec
<1> QED
  BY <1>1, TypeCorrect, PTL

(* A slot somebody holds never has anybody else's files in it: through      *)
(* repeated and lost posts, failed and retried scripts and runs killed at   *)
(* any point, for every number of machines, people and claims.              *)
THEOREM HandedOverCleanAlways ==
  ASSUME Orderly
  PROVE  Spec => []HandedOverClean
<1>1. CustodyInv => HandedOverClean
  BY DEF CustodyInv, CustodyOf, OnlyItsHolders, HandedOverClean
<1> QED
  BY <1>1, CustodyAlways, PTL

(* A free slot its machine vouched for has neither user nor files.          *)
THEOREM FreeMeansWipedAlways ==
  ASSUME Orderly
  PROVE  Spec => []FreeMeansWiped
<1>1. CustodyInv => FreeMeansWiped
  BY DEF CustodyInv, CustodyOf, HomeGoesWithUser, VouchedIsGone, FreeMeansWiped
<1> QED
  BY <1>1, CustodyAlways, PTL

-----------------------------------------------------------------------------
(* Each step of the fleet at a slot is one step of SlotCustody there, or    *)
(* changes nothing of what it speaks of.                                    *)
Leaving == [s \in Slots |-> state[s] = "releasing"]

LEMMA CustodyMoves ==
  ASSUME Orderly, TypeOK, RowsOK, CustodyInv, NEW s \in Slots, StepAt(s)
  PROVE  \/ \E a \in Accounts : Custody!Hand(s, a)
         \/ Custody!Use(s)
         \/ Custody!Leave(s)
         \/ Custody!Empty(s)
         \/ Custody!Vacate(s)
         \/ UNCHANGED <<held_by, Leaving, files>>
<1> USE DEF Leaving
<1>0. CustodyOf(s) /\ None \notin Accounts
  BY ConstantsAssumption DEF CustodyInv
<1>1. CASE People(s)
  <2>1. ASSUME NEW a \in Accounts, claim_slot(a, s) PROVE Custody!Hand(s, a)
    BY <1>0, <2>1 DEF claim_slot, Offered, Custody!Hand, TypeOK, RowsOK, HELD, machineVars,
       CustodyOf, HomeGoesWithUser, VouchedIsGone
  <2>2. CASE begin_release(s)
    <3>1. Custody!Leave(s)
      BY <1>0, <2>2 DEF begin_release, Custody!Leave, TypeOK, RowsOK, HELD, RELEASABLE,
         machineVars
    <3> QED
      BY <3>1
  <2>3. CASE SignIn(s) \/ Work(s)
    <3>1. Custody!Use(s)
      BY <1>0, <2>3 DEF SignIn, Work, Custody!Use, TypeOK, RowsOK, HELD, storeVars, rowVars
    <3> QED
      BY <3>1
  <2>4. CASE SignOut(s)
    BY <2>4 DEF SignOut, storeVars, rowVars
  <2> QED
    BY <1>1, <2>1, <2>2, <2>3, <2>4 DEF People
<1>2. CASE add_slot(s) \/ remove_slot(s)
  BY <1>2 DEF add_slot, remove_slot, TypeOK, machineVars
<1>3. CASE OperatorRemoves(s)
  <2>1. Custody!Empty(s)
    BY <1>3 DEF OperatorRemoves, Custody!Empty, RowsOK, HELD, storeVars, rowVars
  <2> QED
    BY <2>1
<1>4. CASE expire_claims(s)
  <2>1. Custody!Leave(s)
    BY <1>0, <1>4 DEF expire_claims, Custody!Leave, TypeOK, RowsOK, HELD, machineVars
  <2> QED
    BY <2>1
<1>5. CASE Deliver(s)
  <2>1. payload[s] \in Reports /\ apply_slot_report(s, payload[s]) /\ files' = files
    BY <1>5 DEF Deliver, TypeOK, machineVars
  <2>2. payload[s].known /\ ~payload[s].present => files[s] = {}
    BY <1>0, <1>5 DEF Deliver, CustodyOf, PostIsTrue, HomeGoesWithUser
  <2>3. UNCHANGED storeVars \/
        /\ payload[s].known
        /\ state[s] # "undeclared"
        /\ state' = [state EXCEPT ![s] = next_state(state[s], claimed_at[s], payload[s])]
        /\ \/ /\ state[s] = "releasing" /\ state'[s] = "free"
              /\ held_by' = [held_by EXCEPT ![s] = None]
           \/ /\ ~(state[s] = "releasing" /\ state'[s] = "free")
              /\ held_by' = held_by
    BY <2>1 DEF apply_slot_report, _free_released, TypeOK
  <2>4. CASE UNCHANGED storeVars
    BY <2>1, <2>4 DEF storeVars, rowVars
  <2>5. CASE /\ state[s] = "releasing" /\ state'[s] = "free"
             /\ held_by' = [held_by EXCEPT ![s] = None]
    <3>1. payload[s].known /\ ~payload[s].present
      BY <2>1, <2>5, ReportMoves
    <3>2. Leaving' = [Leaving EXCEPT ![s] = FALSE]
      BY <2>3, <2>5 DEF TypeOK, storeVars, rowVars
    <3>3. Custody!Vacate(s)
      BY <2>1, <2>2, <2>5, <3>1, <3>2 DEF Custody!Vacate
    <3> QED
      BY <3>3
  <2>6. CASE held_by' = held_by /\ state[s] = "claiming" /\ state'[s] = "releasing"
    <3>1. Leaving' = [Leaving EXCEPT ![s] = TRUE]
      BY <2>3, <2>6 DEF TypeOK, storeVars, rowVars
    <3>2. Custody!Leave(s)
      BY <1>0, <2>1, <2>6, <3>1 DEF Custody!Leave, RowsOK, HELD
    <3> QED
      BY <3>2
  <2>7. CASE held_by' = held_by /\ (state'[s] = "releasing" <=> state[s] = "releasing")
    <3>1. Leaving' = Leaving
      BY <2>3, <2>7 DEF TypeOK, storeVars, rowVars
    <3> QED
      BY <2>1, <2>7, <3>1
  <2>8. \/ state'[s] = state[s]
        \/ state[s] = "claiming" /\ state'[s] = "releasing"
        \/ state[s] # "releasing" /\ state'[s] # "releasing"
        \/ state[s] = "releasing" /\ state'[s] = "free"
    BY <2>1, ReportMoves
  <2> QED
    BY <2>3, <2>4, <2>5, <2>6, <2>7, <2>8
<1>6. CASE \/ Reply(s) \/ machine_payload(s) \/ write_state(s)
           \/ send_heartbeat_fails(s) \/ Crash(s)
  BY <1>6 DEF Reply, machine_payload, write_state, send_heartbeat_fails, Crash, storeVars,
     rowVars, machineVars
<1>7. CASE act_on_slots(s)
  <2>1. UNCHANGED <<state, held_by>>
    BY <1>7, NotedType DEF storeVars, rowVars
  <2>2. CASE wipe(s)
    <3>1. state[s] = "releasing"
      BY <1>0, <2>2 DEF wipe, CustodyOf, WipesReleasing
    <3>2. CASE files' = [files EXCEPT ![s] = {}]
      <4>1. Custody!Empty(s)
        BY <2>1, <3>1, <3>2 DEF Custody!Empty
      <4> QED
        BY <4>1
    <3>3. CASE files' = files
      BY <2>1, <3>3
    <3> QED
      BY <2>2, <3>2, <3>3 DEF wipe, Orderly, machineVars
  <2>3. CASE ~wipe(s)
    BY <1>7, <2>1, <2>3 DEF act_on_slots, provision, wipe_later,
       nothing_to_wipe, leave_be, machineVars
  <2> QED
    BY <2>2, <2>3
<1>8. CASE DeliverLate(s)
  BY <1>0, <1>8 DEF DeliverLate, CustodyOf
<1> QED
  BY <1>1, <1>2, <1>3, <1>4, <1>5, <1>6, <1>7, <1>8 DEF StepAt, Operator, Machine, Faults

(* The store, the machines, their agents and the heartbeats keep the        *)
(* promise of SlotCustody, whatever is lost, repeated or killed.            *)
THEOREM CustodyImplemented ==
  ASSUME Orderly
  PROVE  Spec => ImplementsCustody
<1>1. Init => Custody!Init
  BY DEF Init, Custody!Init
<1>2. ASSUME TypeOK, RowsOK, CustodyInv, [Next]_vars
      PROVE  [Custody!Next]_(Custody!vars)
  <2>1. ASSUME NEW s \in Slots, StepAt(s) PROVE [Custody!Next]_(Custody!vars)
    <3>1. CASE UNCHANGED <<held_by, Leaving, files>>
      BY <3>1 DEF Custody!vars, Leaving
    <3>2. CASE \/ \E a \in Accounts : Custody!Hand(s, a)
               \/ Custody!Use(s) \/ Custody!Leave(s) \/ Custody!Empty(s) \/ Custody!Vacate(s)
      BY <3>2 DEF Custody!Next
    <3> QED
      BY <1>2, <2>1, <3>1, <3>2, CustodyMoves
  <2>2. CASE \E a \in Accounts, n \in 0..MaxQuota : set_slot_quota(a, n)
    BY <2>2 DEF set_slot_quota, rowVars, machineVars, Custody!vars
  <2>3. CASE UNCHANGED vars
    BY <2>3 DEF vars, storeVars, rowVars, machineVars, Custody!vars
  <2> QED
    BY <1>2, <2>1, <2>2, <2>3 DEF Next, StepAt
<1> QED
  BY <1>1, <1>2, CustodyAlways, PTL DEF Spec, ImplementsCustody, Custody!Spec

-----------------------------------------------------------------------------
(* The generation of a declared slot moves only up, and up whenever its     *)
(* holder or claim changes: late posts and partial wipes included.          *)
GenerationMoves(r) ==
  state[r] # "undeclared" /\ state'[r] # "undeclared" =>
    /\ generation'[r] >= generation[r]
    /\ (held_by'[r] # held_by[r] \/ claimed_at'[r] # claimed_at[r])
         => generation'[r] > generation[r]

LEMMA ReportBumps ==
  ASSUME TypeOK, NEW s \in Slots, NEW report \in Reports, NEW r \in Slots,
         apply_slot_report(s, report)
  PROVE  GenerationMoves(r)
<1> USE DEF TypeOK, GenerationMoves
<1>1. CASE UNCHANGED storeVars
  BY <1>1 DEF storeVars, rowVars
<1>2. CASE ~UNCHANGED storeVars
  <2> DEFINE to == next_state(state[s], claimed_at[s], report)
  <2> HIDE DEF to
  <2>1. /\ state' = [state EXCEPT ![s] = to]
        /\ generation' = IF to = state[s] THEN generation ELSE Bumped(s)
        /\ IF to = "free" /\ state[s] = "releasing"
           THEN /\ held_by' = [held_by EXCEPT ![s] = None]
                /\ claimed_at' = [claimed_at EXCEPT ![s] = 0]
           ELSE UNCHANGED <<held_by, claimed_at>>
    BY <1>2 DEF apply_slot_report, to, _free_released
  <2> QED
    BY <2>1 DEF Bumped
<1> QED
  BY <1>1, <1>2

THEOREM GenerationTellsHoldersApartAlways == Spec => GenerationTellsHoldersApart
<1>1. ASSUME TypeOK, RowsOK, [Next]_vars, NEW r \in Slots PROVE GenerationMoves(r)
  <2> USE DEF GenerationMoves
  <2>1. ASSUME NEW s \in Slots, NEW a \in Accounts, claim_slot(a, s) PROVE GenerationMoves(r)
    BY <1>1, <2>1 DEF claim_slot, Bumped, TypeOK
  <2>2. ASSUME NEW s \in Slots, begin_release(s) \/ expire_claims(s) PROVE GenerationMoves(r)
    BY <1>1, <2>2 DEF begin_release, expire_claims, Bumped, TypeOK
  <2>3. ASSUME NEW s \in Slots, add_slot(s) \/ remove_slot(s) PROVE GenerationMoves(r)
    BY <1>1, <2>3 DEF add_slot, remove_slot, TypeOK
  <2>4. ASSUME NEW s \in Slots, Deliver(s) \/ DeliverLate(s) PROVE GenerationMoves(r)
    <3>1. PICK report \in Reports : apply_slot_report(s, report)
      BY <1>1, <2>4 DEF Deliver, DeliverLate, TypeOK
    <3> QED
      BY <1>1, <3>1, ReportBumps
  <2>5. ASSUME UNCHANGED <<state, held_by, claimed_at, generation>> PROVE GenerationMoves(r)
    BY <1>1, <2>5 DEF TypeOK
  <2>6. ASSUME NEW s \in Slots,
               SignIn(s) \/ SignOut(s) \/ Work(s) \/ OperatorRemoves(s) \/ Reply(s)
                 \/ machine_payload(s) \/ write_state(s) \/ send_heartbeat_fails(s) \/ Crash(s)
        PROVE  UNCHANGED <<state, held_by, claimed_at, generation>>
    BY <2>6 DEF SignIn, SignOut, Work, OperatorRemoves, Reply, machine_payload, write_state,
       send_heartbeat_fails, Crash, storeVars, rowVars
  <2>7. ASSUME NEW s \in Slots, act_on_slots(s)
        PROVE  UNCHANGED <<state, held_by, claimed_at, generation>>
    BY <1>1, <2>7, NotedType DEF storeVars, rowVars
  <2>8. ASSUME NEW a \in Accounts, NEW n \in 0..MaxQuota, set_slot_quota(a, n)
        PROVE  UNCHANGED <<state, held_by, claimed_at, generation>>
    BY <2>8 DEF set_slot_quota, rowVars
  <2>9. ASSUME UNCHANGED vars PROVE UNCHANGED <<state, held_by, claimed_at, generation>>
    BY <2>9 DEF vars, storeVars, rowVars
  <2> QED
    BY <1>1, <2>1, <2>2, <2>3, <2>4, <2>5, <2>6, <2>7, <2>8, <2>9
       DEF Next, People, Operator, Machine, Faults
<1>2. TypeOK /\ RowsOK /\ [Next]_vars => [\A s \in Slots : GenerationMoves(s)]_vars
  BY <1>1
<1> QED
  BY <1>2, TypeCorrect, PTL DEF Spec, GenerationTellsHoldersApart, GenerationMoves

-----------------------------------------------------------------------------
(* No claim takes an account past its allowance.                            *)
THEOREM ClaimsWithinQuotaAlways == Spec => ClaimsWithinQuota
<1> DEFINE Within(a, s) ==
      held_by[s] # a /\ held_by'[s] = a =>
        Cardinality({r \in Slots : held_by'[r] = a}) <= quota[a]
<1>1. ASSUME TypeOK, RowsOK, [Next]_vars, NEW a \in Accounts, NEW s \in Slots
      PROVE  Within(a, s)
  <2>1. ASSUME NEW r \in Slots, NEW b \in Accounts, claim_slot(b, r) PROVE Within(a, s)
    <3> SUFFICES ASSUME held_by[s] # a, held_by'[s] = a
        PROVE Cardinality({x \in Slots : held_by'[x] = a}) <= quota[a]
      OBVIOUS
    <3>1. r = s /\ b = a
      BY <1>1, <2>1 DEF claim_slot, TypeOK
    <3>2. \A x \in Slots : held_by[x] = a => state[x] \in HELD
      BY <1>1, ConstantsAssumption DEF RowsOK
    <3>3. {x \in Slots : held_by'[x] = a} = Held(a) \cup {s}
      BY <1>1, <2>1, <3>1, <3>2 DEF claim_slot, Held, TypeOK
    <3>4. IsFiniteSet(Held(a)) /\ s \notin Held(a)
      BY ConstantsAssumption, FS_Subset DEF Held
    <3>5. Cardinality(Held(a) \cup {s}) = Cardinality(Held(a)) + 1
      BY <3>4, FS_AddElement
    <3>6. Cardinality(Held(a)) \in Nat /\ quota[a] \in Nat /\ Cardinality(Held(a)) < quota[a]
      BY <1>1, <2>1, <3>1, <3>4, FS_CardinalityType, ConstantsAssumption DEF claim_slot, TypeOK
    <3> QED
      BY <3>3, <3>5, <3>6
  <2>2. ASSUME NEW r \in Slots, Deliver(r) \/ DeliverLate(r) PROVE Within(a, s)
    <3>1. PICK report \in Reports : apply_slot_report(r, report)
      BY <1>1, <2>2 DEF Deliver, DeliverLate, TypeOK
    <3>2. held_by'[s] \in {held_by[s], None}
      BY <1>1, <3>1, ReportMoves
    <3> QED
      BY <3>2, ConstantsAssumption
  <2>3. ASSUME UNCHANGED held_by PROVE Within(a, s)
    BY <2>3
  <2>4. ASSUME NEW r \in Slots,
               begin_release(r) \/ expire_claims(r) \/ add_slot(r) \/ remove_slot(r)
                 \/ SignIn(r) \/ SignOut(r) \/ Work(r) \/ OperatorRemoves(r) \/ Reply(r)
                 \/ machine_payload(r) \/ write_state(r) \/ send_heartbeat_fails(r) \/ Crash(r)
        PROVE  UNCHANGED held_by
    BY <2>4 DEF begin_release, expire_claims, add_slot, remove_slot, SignIn, SignOut, Work,
       OperatorRemoves, Reply, machine_payload, write_state, send_heartbeat_fails, Crash,
       storeVars, rowVars
  <2>5. ASSUME NEW r \in Slots, act_on_slots(r) PROVE UNCHANGED held_by
    BY <1>1, <2>5, NotedType DEF storeVars, rowVars
  <2>6. ASSUME NEW b \in Accounts, NEW n \in 0..MaxQuota, set_slot_quota(b, n)
        PROVE  UNCHANGED held_by
    BY <2>6 DEF set_slot_quota, rowVars
  <2>7. ASSUME UNCHANGED vars PROVE UNCHANGED held_by
    BY <2>7 DEF vars, storeVars, rowVars
  <2> QED
    BY <1>1, <2>1, <2>2, <2>3, <2>4, <2>5, <2>6, <2>7
       DEF Next, People, Operator, Machine, Faults
<1>2. TypeOK /\ RowsOK /\ [Next]_vars => [\A a \in Accounts, s \in Slots : Within(a, s)]_vars
  BY <1>1
<1> QED
  BY <1>2, TypeCorrect, PTL DEF Spec, ClaimsWithinQuota

-----------------------------------------------------------------------------
(* Why a ready slot was built for its claim.  News of a claim is whatever   *)
(* says it was provisioned: the agent's notes, saved or not, a post under   *)
(* way, a post given up.  All of it is about claims already made, so a new  *)
(* claim starts with none; and while there is news of the present claim the *)
(* user stands, built for it, and the agent is not acting on an order of    *)
(* another claim or on a release.                                           *)
News(s) ==
  {notes[s].provisioned, draft[s].provisioned, payload[s].provisioned_for}
    \cup {report.provisioned_for : report \in late[s]}

ActsAgainst(s) ==
  /\ pc[s] = "act"
  /\ \/ order[s].state = "releasing"
     \/ order[s].state = "claiming" /\ order[s].claimed_at # claimed_at[s]

Ready(s) ==
  state[s] \in SIGN_IN_STATES \/ (state[s] = "claiming" /\ claimed_at[s] \in News(s))

NewsOf(s) ==
  /\ News(s) \subseteq 0..claims
  /\ order[s].claimed_at \in 0..claims
  /\ Ready(s) => user[s] /\ built[s] = claimed_at[s] /\ ~ActsAgainst(s)

NewsInv == \A s \in Slots : NewsOf(s)

LEMMA ClaimsGrow ==
  ASSUME TypeOK, [Next]_vars
  PROVE  claims' \in Nat /\ 0..claims \subseteq 0..claims'
<1> SUFFICES claims' = claims \/ claims' = claims + 1
  BY ConstantsAssumption DEF TypeOK, Stamps
<1>1. ASSUME NEW s \in Slots, StepAt(s) PROVE claims' = claims \/ claims' = claims + 1
  <2>1. CASE Deliver(s) \/ DeliverLate(s)
    BY <2>1, ReportMoves DEF Deliver, DeliverLate, TypeOK
  <2>2. CASE act_on_slots(s)
    BY <2>2, NotedType DEF storeVars
  <2> QED
    BY <1>1, <2>1, <2>2 DEF StepAt, People, Operator, Machine, Faults, claim_slot,
       begin_release, expire_claims, add_slot, remove_slot, SignIn, SignOut, Work,
       OperatorRemoves, Reply, machine_payload, write_state, send_heartbeat_fails, Crash,
       storeVars
<1>2. CASE \E a \in Accounts, n \in 0..MaxQuota : set_slot_quota(a, n)
  BY <1>2 DEF set_slot_quota
<1>3. CASE UNCHANGED vars
  BY <1>3 DEF vars, storeVars
<1> QED
  BY <1>1, <1>2, <1>3 DEF Next, StepAt

LEMMA NewsLocal ==
  ASSUME NEW r \in Slots, NewsOf(r), 0..claims \subseteq 0..claims',
         state'[r] = state[r], claimed_at'[r] = claimed_at[r], user'[r] = user[r],
         built'[r] = built[r], pc'[r] = pc[r], payload'[r] = payload[r],
         order'[r] = order[r], notes'[r] = notes[r], draft'[r] = draft[r],
         late'[r] = late[r]
  PROVE  NewsOf(r)'
BY DEF NewsOf, News, Ready, ActsAgainst

LEMMA NewsStep ==
  ASSUME TypeOK, RowsOK, NewsInv, NEW s \in Slots, StepAt(s),
         0..claims \subseteq 0..claims'
  PROVE  NewsOf(s)'
<1> USE DEF NewsOf, Ready
<1>0. NewsOf(s)
  BY DEF NewsInv
<1>1. /\ claimed_at[s] \in Nat /\ claims \in Nat
      /\ state[s] \in RELEASABLE => claimed_at[s] # 0 /\ claimed_at[s] <= claims
  BY ConstantsAssumption DEF TypeOK, RowsOK, HELD, RELEASABLE, Stamps
<1>2. CASE People(s)
  <2>1. ASSUME NEW a \in Accounts, claim_slot(a, s) PROVE NewsOf(s)'
    <3>1. claims' = claims + 1 /\ claimed_at'[s] = claims + 1 /\ state'[s] = "claiming"
      BY <2>1 DEF claim_slot, TypeOK
    <3>2. News(s)' = News(s) /\ UNCHANGED order
      BY <2>1 DEF claim_slot, News, agentVars
    <3> QED
      BY <1>0, <1>1, <3>1, <3>2 DEF SIGN_IN_STATES
  <2>2. CASE begin_release(s)
    BY <1>0, <1>1, <2>2 DEF begin_release, News, SIGN_IN_STATES, TypeOK, agentVars
  <2>3. CASE SignIn(s) \/ SignOut(s) \/ Work(s)
    BY <1>0, <2>3 DEF SignIn, SignOut, Work, News, ActsAgainst, storeVars, rowVars, agentVars
  <2> QED
    BY <1>2, <2>1, <2>2, <2>3 DEF People
<1>3. CASE Operator(s) \/ expire_claims(s)
  <2>1. state'[s] \in {"undeclared", "free", "releasing"} /\ UNCHANGED <<claims, agentVars, late>>
    BY <1>3 DEF Operator, add_slot, remove_slot, OperatorRemoves, expire_claims, TypeOK,
       storeVars, rowVars
  <2> QED
    BY <1>0, <2>1 DEF News, SIGN_IN_STATES, agentVars
<1>4. ASSUME NEW report \in Reports, apply_slot_report(s, report),
             report.provisioned_for \in News(s),
             News(s)' \subseteq News(s), UNCHANGED <<machineVars, pc, order>>
      PROVE  NewsOf(s)'
  <2>1. claims' = claims
    BY <1>4, ReportMoves
  <2>2. \/ state'[s] = state[s] /\ claimed_at'[s] = claimed_at[s]
        \/ state'[s] \in {"releasing", "free"}
        \/ state[s] = "claiming" /\ report.provisioned_for = claimed_at[s]
              /\ claimed_at'[s] = claimed_at[s]
        \/ state[s] = "claimed" /\ claimed_at'[s] = claimed_at[s]
    BY <1>4, ReportMoves
  <2>3. claimed_at'[s] = claimed_at[s] => (Ready(s)' => Ready(s))
        \/ state'[s] \in {"releasing", "free"}
    BY <1>4, <2>2 DEF SIGN_IN_STATES
  <2>4. claimed_at'[s] = claimed_at[s] \/ ~Ready(s)'
    BY <2>2 DEF SIGN_IN_STATES
  <2>5. Ready(s)' => Ready(s) /\ claimed_at'[s] = claimed_at[s]
    BY <2>3, <2>4 DEF SIGN_IN_STATES
  <2> QED
    BY <1>0, <1>4, <2>1, <2>5 DEF ActsAgainst, machineVars
<1>5. CASE Deliver(s)
  BY <1>4, <1>5 DEF Deliver, News, TypeOK
<1>6. CASE DeliverLate(s)
  <2>1. PICK report \in late[s] :
          /\ apply_slot_report(s, report)
          /\ late' = [late EXCEPT ![s] = @ \ {report}]
    BY <1>6 DEF DeliverLate
  <2>2. UNCHANGED <<machineVars, agentVars>>
    BY <1>6 DEF DeliverLate
  <2>3. report \in Reports /\ report.provisioned_for \in News(s)
    BY <2>1 DEF TypeOK, News
  <2>4. News(s)' \subseteq News(s)
    BY <2>1, <2>2 DEF News, TypeOK, agentVars
  <2> QED
    BY <1>4, <2>1, <2>2, <2>3, <2>4 DEF agentVars
<1>7. CASE Reply(s)
  <2>1. order'[s] = _slot_block(s) /\ UNCHANGED <<storeVars, machineVars, notes, draft, late>>
        /\ payload'[s] = NoReport
    BY <1>7 DEF Reply, TypeOK
  <2>2. News(s)' \subseteq News(s) \cup {0}
    BY <2>1 DEF News, NoReport
  <2>3. ~ActsAgainst(s)' \/ state[s] = "releasing"
    BY <2>1 DEF ActsAgainst, _slot_block, storeVars, rowVars
  <2>4. order'[s].claimed_at \in 0..claims
    BY <1>1, <2>1 DEF _slot_block, RELEASABLE
  <2> QED
    BY <1>0, <1>1, <2>1, <2>2, <2>3, <2>4 DEF storeVars, rowVars, machineVars, RELEASABLE,
       SIGN_IN_STATES
<1>8. CASE machine_payload(s)
  <2>1. News(s)' \subseteq News(s) \cup {0}
    BY <1>8 DEF machine_payload, News, slot_report, NoReport, TypeOK
  <2>2. ~ActsAgainst(s)'
    BY <1>8 DEF machine_payload, ActsAgainst, TypeOK
  <2> QED
    BY <1>0, <1>1, <1>8, <2>1, <2>2 DEF machine_payload, storeVars, rowVars, machineVars,
       RELEASABLE, SIGN_IN_STATES
<1>9. CASE act_on_slots(s)
  <2>1. /\ UNCHANGED <<state, claimed_at, claims, payload, order, notes, late>>
        /\ pc[s] = "act" /\ pc'[s] = "save"
    BY <1>9 DEF act_on_slots, provision, wipe, wipe_later,
       nothing_to_wipe, leave_be, Noted, storeVars, rowVars, TypeOK
  <2>2. ~ActsAgainst(s)'
    BY <2>1 DEF ActsAgainst
  <2>3. ASSUME draft'[s].provisioned \in News(s) \cup {0} PROVE News(s)' \subseteq News(s) \cup {0}
    BY <2>1, <2>3 DEF News
  <2>4. CASE provision(s)
    <3> DEFINE claim == order[s].claimed_at
    <3>1. notes[s] \in Notes /\ claim \in 0..claims
      BY <1>0 DEF TypeOK
    <3>2. CASE /\ user' = [user EXCEPT ![s] = TRUE]
               /\ built' = [built EXCEPT ![s] = claim]
               /\ draft'[s].provisioned = claim
      <4>1. News(s)' \subseteq News(s) \cup {claim}
        BY <2>1, <3>2 DEF News
      <4>2. user'[s] /\ built'[s] = claim
        BY <3>2 DEF TypeOK
      <4>3. Ready(s)' => claim = claimed_at[s]
        <5>1. ASSUME claim # claimed_at[s] PROVE ActsAgainst(s)
          BY <2>4, <5>1 DEF provision, ActsAgainst
        <5> QED
          BY <1>0, <2>1, <4>1, <5>1
      <4> QED
        BY <1>0, <2>1, <2>2, <3>1, <4>1, <4>2, <4>3
    <3>3. CASE /\ \E made \in {user[s], TRUE} : user' = [user EXCEPT ![s] = made]
               /\ UNCHANGED built
               /\ draft'[s].provisioned = notes[s].provisioned
      <4>1. News(s)' \subseteq News(s)
        BY <2>1, <3>3 DEF News
      <4> QED
        BY <1>0, <2>1, <2>2, <3>3, <4>1 DEF TypeOK
    <3>4. ASSUME NEW n \in Notes, Noted(s, n) PROVE draft'[s] = n
      BY <3>4 DEF Noted, TypeOK
    <3>5. PICK n \in Notes :
            /\ Noted(s, n)
            /\ \/ /\ user' = [user EXCEPT ![s] = TRUE]
                  /\ built' = [built EXCEPT ![s] = claim]
                  /\ n.provisioned = claim
               \/ /\ \E made \in {user[s], TRUE} : user' = [user EXCEPT ![s] = made]
                  /\ UNCHANGED built
                  /\ n.provisioned = notes[s].provisioned
      <4>1. claim \in Stamps /\ 0 \in Stamps
        BY ConstantsAssumption DEF TypeOK, Orders, Stamps
      <4> DEFINE made == [notes[s] EXCEPT !.known = TRUE, !.provisioned = claim, !.failed = 0]
                 lost == [notes[s] EXCEPT !.known = TRUE, !.failed = claim]
      <4>2. made \in Notes /\ made.provisioned = claim
        BY <3>1, <4>1 DEF Notes
      <4>3. lost \in Notes /\ lost.provisioned = notes[s].provisioned
        BY <3>1, <4>1 DEF Notes
      <4>4. \/ /\ user' = [user EXCEPT ![s] = TRUE]
               /\ built' = [built EXCEPT ![s] = claim]
               /\ Noted(s, [[notes[s] EXCEPT !.known = TRUE] EXCEPT !.provisioned = claim, !.failed = 0])
            \/ /\ \E m \in {user[s], TRUE} : user' = [user EXCEPT ![s] = m]
               /\ Noted(s, [[notes[s] EXCEPT !.known = TRUE] EXCEPT !.failed = claim])
               /\ UNCHANGED built
        BY <2>4 DEF provision
      <4>5. /\ [[notes[s] EXCEPT !.known = TRUE] EXCEPT !.provisioned = claim, !.failed = 0] = made
            /\ [[notes[s] EXCEPT !.known = TRUE] EXCEPT !.failed = claim] = lost
        BY <3>1 DEF Notes
      <4> HIDE DEF made, lost
      <4> QED
        BY <4>2, <4>3, <4>4, <4>5
    <3> QED
      BY <3>2, <3>3, <3>4, <3>5
  <2>5. CASE wipe_later(s) \/ nothing_to_wipe(s) \/ leave_be(s)
    <3>1. draft'[s].provisioned \in {0, notes[s].provisioned} /\ UNCHANGED machineVars
      <4>1. notes[s] \in Notes /\ draft \in [Slots -> Notes]
        BY DEF TypeOK
      <4>2. CASE wipe_later(s) \/ nothing_to_wipe(s)
        <5> DEFINE later == [notes[s] EXCEPT !.known = TRUE, !.provisioned = 0]
                   done  == [notes[s] EXCEPT !.known = TRUE, !.provisioned = 0,
                                             !.wipe_failed = FALSE]
        <5>1. later.provisioned = 0 /\ done.provisioned = 0
          BY <4>1 DEF Notes
        <5>2. Noted(s, later) \/ Noted(s, done)
          BY <4>2 DEF wipe_later, nothing_to_wipe
        <5>3. UNCHANGED machineVars
          BY <4>2 DEF wipe_later, nothing_to_wipe
        <5> HIDE DEF later, done
        <5> QED
          BY <4>1, <5>1, <5>2, <5>3 DEF Noted
      <4>3. CASE leave_be(s)
        <5> DEFINE none == [NoNotes EXCEPT !.known = TRUE]
                   kept == [notes[s] EXCEPT !.known = TRUE, !.wipe_failed = FALSE]
        <5>2. NoNotes \in Notes /\ NoNotes.provisioned = 0
          BY NothingType DEF NoNotes
        <5>3. none \in Notes /\ none.provisioned = 0
          BY NothingType DEF NoNotes, Notes
        <5>4. kept \in Notes /\ kept.provisioned = notes[s].provisioned
          BY <4>1 DEF Notes
        <5>5. Noted(s, NoNotes) \/ Noted(s, none) \/ Noted(s, kept)
          BY <4>3 DEF leave_be
        <5> HIDE DEF none, kept
        <5>1. PICK n \in Notes : Noted(s, n) /\ n.provisioned \in {0, notes[s].provisioned}
          BY <5>2, <5>3, <5>4, <5>5
        <5> QED
          BY <4>1, <4>3, <5>1 DEF leave_be, Noted
      <4> QED
        BY <2>5, <4>2, <4>3
    <3>2. News(s)' \subseteq News(s) \cup {0}
      BY <2>3, <3>1 DEF News
    <3> QED
      BY <1>0, <1>1, <2>1, <2>2, <3>1, <3>2 DEF machineVars, RELEASABLE, SIGN_IN_STATES
  <2>6. CASE wipe(s)
    <3>1. ~Ready(s)
      BY <1>0, <2>6 DEF wipe, ActsAgainst
    <3>2. draft'[s].provisioned = 0
      <4>1. notes[s] \in Notes /\ draft \in [Slots -> Notes]
        BY DEF TypeOK
      <4>2. \E failed \in BOOLEAN :
              Noted(s, [[notes[s] EXCEPT !.known = TRUE, !.provisioned = 0]
                          EXCEPT !.wipe_failed = failed])
        BY <2>6 DEF wipe
      <4> QED
        BY <4>1, <4>2 DEF Noted, Notes
    <3>3. News(s)' \subseteq News(s) \cup {0}
      BY <2>3, <3>2
    <3> QED
      BY <1>0, <1>1, <2>1, <3>1, <3>3 DEF RELEASABLE, SIGN_IN_STATES
  <2> QED
    BY <1>9, <2>4, <2>5, <2>6 DEF act_on_slots
<1>10. CASE write_state(s)
  <2>1. News(s)' \subseteq News(s) \cup {0}
    BY <1>10 DEF write_state, News, NoNotes, TypeOK
  <2>2. ~ActsAgainst(s)' /\ order'[s].claimed_at = 0
    BY <1>10 DEF write_state, ActsAgainst, NoOrder, TypeOK
  <2> QED
    BY <1>0, <1>1, <1>10, <2>1, <2>2 DEF write_state, storeVars, rowVars, machineVars,
       RELEASABLE, SIGN_IN_STATES
<1>11. CASE send_heartbeat_fails(s) \/ Crash(s)
  <2>1. UNCHANGED <<storeVars, machineVars, notes>>
    BY <1>11 DEF send_heartbeat_fails, Crash
  <2>2. /\ draft'[s] \in {draft[s], NoNotes}
        /\ payload'[s] \in {payload[s], NoReport}
        /\ late'[s] \subseteq late[s] \cup {payload[s]}
    BY <1>11 DEF send_heartbeat_fails, Crash, Abandon, TypeOK
  <2>3. News(s)' \subseteq News(s) \cup {0}
    BY <2>1, <2>2 DEF News, NoNotes, NoReport
  <2>4. ~ActsAgainst(s)' /\ order'[s].claimed_at \in {order[s].claimed_at, 0}
    BY <1>11 DEF send_heartbeat_fails, Crash, ActsAgainst, NoOrder, TypeOK
  <2> QED
    BY <1>0, <1>1, <2>1, <2>3, <2>4 DEF storeVars, rowVars, machineVars, RELEASABLE,
       SIGN_IN_STATES
<1> QED
  BY <1>2, <1>3, <1>5, <1>6, <1>7, <1>8, <1>9, <1>10, <1>11 DEF StepAt, Machine, Faults

(* A slot shown as ready stands on its machine, built for this claim, even  *)
(* with posts applied long after they were given up and wipes that fail     *)
(* half way.                                                                *)
THEOREM ReadyMeansBuiltAlways == Spec => []ReadyMeansBuilt
<1>1. Init => NewsInv
  BY ConstantsAssumption DEF Init, NewsInv, NewsOf, News, Ready, NoNotes, NoReport, NoOrder,
     SIGN_IN_STATES
<1>2. ASSUME TypeOK, RowsOK, NewsInv, [Next]_vars PROVE NewsInv'
  <2>1. 0..claims \subseteq 0..claims'
    BY <1>2, ClaimsGrow
  <2>2. ASSUME NEW s \in Slots, StepAt(s), NEW r \in Slots PROVE NewsOf(r)'
    <3>1. CASE r = s
      BY <1>2, <2>1, <2>2, <3>1, NewsStep
    <3>2. CASE r # s
      <4>1. NewsOf(r)
        BY <1>2 DEF NewsInv
      <4> QED
        BY <1>2, <2>1, <2>2, <3>2, <4>1, StepIsLocal, NewsLocal
    <3> QED
      BY <3>1, <3>2
  <2>3. ASSUME NEW a \in Accounts, NEW n \in 0..MaxQuota, set_slot_quota(a, n),
               NEW r \in Slots
        PROVE  NewsOf(r)'
    <3>1. NewsOf(r)
      BY <1>2 DEF NewsInv
    <3> QED
      BY <2>1, <2>3, <3>1, NewsLocal DEF set_slot_quota, rowVars, machineVars, agentVars
  <2>4. ASSUME UNCHANGED vars, NEW r \in Slots PROVE NewsOf(r)'
    <3>1. NewsOf(r)
      BY <1>2 DEF NewsInv
    <3> QED
      BY <2>1, <2>4, <3>1, NewsLocal DEF vars, storeVars, rowVars, machineVars, agentVars
  <2> QED
    BY <1>2, <2>2, <2>3, <2>4 DEF NewsInv, Next, StepAt
<1>3. NewsInv => ReadyMeansBuilt
  BY DEF NewsInv, NewsOf, Ready, ReadyMeansBuilt
<1> QED
  BY <1>1, <1>2, <1>3, TypeCorrect, PTL DEF Spec

-----------------------------------------------------------------------------
(* Why an active slot has its holder's files.  A credential is only there   *)
(* with the user, and in a slot that was given to somebody: whoever signs   *)
(* in is the holder, and leaves files (LoginIsTheHolders).  A report that   *)
(* says so is about this claim, for the slot cannot be freed, claimed and   *)
(* built again while the one report is under way (PostOfTheHolder).         *)
LoginNeedsUser(s) == login[s] => user[s] /\ state[s] \in {"claimed", "active", "releasing"}
LoginIsTheHolders(s) ==
  state[s] = "active" \/ (login[s] /\ state[s] = "claimed") => held_by[s] \in files[s]
PostOfTheHolder(s) ==
  pc[s] = "post" /\ payload[s].logged_in =>
    /\ payload[s].present /\ state[s] \in {"claimed", "active", "releasing"}
    /\ state[s] = "claimed" => held_by[s] \in files[s]
SignedInOf(s) == LoginNeedsUser(s) /\ LoginIsTheHolders(s) /\ PostOfTheHolder(s)
SignedInInv == \A s \in Slots : SignedInOf(s)

(* Only a report of the user, signed in, makes a slot active.               *)
LEMMA ReportSignsIn ==
  ASSUME TypeOK, NEW s \in Slots, NEW report \in Reports, apply_slot_report(s, report),
         state[s] # "active", state'[s] = "active"
  PROVE  state[s] = "claimed" /\ report.logged_in
<1>1. CASE UNCHANGED storeVars
  BY <1>1 DEF storeVars, rowVars
<1>2. CASE ~UNCHANGED storeVars
  <2> DEFINE to == next_state(state[s], claimed_at[s], report)
  <2>1. to = "active" => state[s] = "active" \/ (state[s] = "claimed" /\ report.logged_in)
    BY DEF next_state, signed_in
  <2> HIDE DEF to
  <2>2. state' = [state EXCEPT ![s] = to]
    BY <1>2 DEF apply_slot_report, to
  <2> QED
    BY <2>1, <2>2 DEF TypeOK
<1> QED
  BY <1>1, <1>2

LEMMA SignedInLocal ==
  ASSUME NEW r \in Slots, SignedInOf(r),
         state'[r] = state[r], held_by'[r] = held_by[r], user'[r] = user[r], files'[r] = files[r],
         login'[r] = login[r], pc'[r] = pc[r], payload'[r] = payload[r]
  PROVE  SignedInOf(r)'
BY DEF SignedInOf, LoginNeedsUser, LoginIsTheHolders, PostOfTheHolder

LEMMA SignedInStep ==
  ASSUME Orderly, TypeOK, RowsOK, CustodyInv, SignedInInv, NEW s \in Slots, StepAt(s)
  PROVE  SignedInOf(s)'
<1> USE DEF SignedInOf, LoginNeedsUser, LoginIsTheHolders, PostOfTheHolder
<1>0. SignedInOf(s) /\ CustodyOf(s)
  BY DEF SignedInInv, CustodyInv
<1>1. CASE People(s)
  <2>1. ASSUME NEW a \in Accounts, claim_slot(a, s) PROVE SignedInOf(s)'
    BY <1>0, <2>1 DEF claim_slot, Offered, TypeOK, machineVars, agentVars
  <2>2. CASE begin_release(s)
    BY <1>0, <2>2 DEF begin_release, RELEASABLE, TypeOK, machineVars, agentVars
  <2>3. CASE SignIn(s) \/ SignOut(s) \/ Work(s)
    BY <1>0, <2>3 DEF SignIn, SignOut, Work, TypeOK, storeVars, rowVars, agentVars
  <2> QED
    BY <1>1, <2>1, <2>2, <2>3 DEF People
<1>2. CASE add_slot(s) \/ remove_slot(s)
  BY <1>0, <1>2 DEF add_slot, remove_slot, TypeOK, machineVars, agentVars
<1>3. CASE OperatorRemoves(s)
  BY <1>0, <1>3 DEF OperatorRemoves, TypeOK, storeVars, rowVars, agentVars
<1>4. CASE expire_claims(s)
  BY <1>0, <1>4 DEF expire_claims, TypeOK, machineVars, agentVars
<1>5. CASE Deliver(s)
  <2>1. payload[s] \in Reports /\ apply_slot_report(s, payload[s]) /\ pc[s] = "post"
    BY <1>5 DEF Deliver, TypeOK
  <2>2. UNCHANGED <<user, files, login, pc, payload>>
    BY <1>5 DEF Deliver, machineVars
  <2>3. payload[s].known /\ ~payload[s].present => ~user[s]
    BY <1>0, <2>1 DEF CustodyOf, PostIsTrue
  <2>4. \/ state'[s] = state[s] /\ held_by'[s] = held_by[s]
        \/ /\ held_by'[s] = held_by[s]
           /\ \/ state[s] = "claiming" /\ state'[s] \in {"releasing", "claimed"}
              \/ state[s] = "claimed" /\ state'[s] = "active" /\ payload[s].logged_in
        \/ payload[s].known /\ ~payload[s].present /\ state[s] = "releasing" /\ state'[s] = "free"
    BY <2>1, ReportMoves, ReportSignsIn
  <2> QED
    BY <1>0, <2>1, <2>2, <2>3, <2>4
<1>6. CASE Reply(s)
  BY <1>0, <1>6 DEF Reply, TypeOK, storeVars, rowVars, machineVars
<1>7. CASE machine_payload(s)
  BY <1>0, <1>7 DEF machine_payload, slot_report, NoReport, TypeOK, storeVars, rowVars, machineVars
<1>8. CASE act_on_slots(s)
  <2>1. UNCHANGED <<state, held_by>> /\ pc[s] = "act" /\ pc'[s] = "save"
    BY <1>8 DEF act_on_slots, provision, wipe, wipe_later,
       nothing_to_wipe, leave_be, Noted, storeVars, rowVars, TypeOK
  <2>2. CASE provision(s)
    BY <1>0, <2>1, <2>2 DEF provision, TypeOK
  <2>3. CASE wipe(s)
    <3>1. state[s] = "releasing"
      BY <1>0, <2>3 DEF wipe, CustodyOf, WipesReleasing
    <3> QED
      BY <1>0, <2>1, <2>3, <3>1 DEF wipe, Orderly, TypeOK, machineVars
  <2>4. CASE UNCHANGED machineVars
    BY <1>0, <2>1, <2>4 DEF machineVars
  <2> QED
    BY <1>8, <2>2, <2>3, <2>4 DEF act_on_slots, wipe_later,
       nothing_to_wipe, leave_be
<1>9. CASE write_state(s)
  BY <1>0, <1>9 DEF write_state, TypeOK, storeVars, rowVars, machineVars
<1>10. CASE send_heartbeat_fails(s) \/ Crash(s)
  BY <1>0, <1>10 DEF send_heartbeat_fails, Crash, NoReport, TypeOK, storeVars, rowVars, machineVars
<1>11. CASE DeliverLate(s)
  BY <1>0, <1>11 DEF DeliverLate, CustodyOf
<1> QED
  BY <1>1, <1>2, <1>3, <1>4, <1>5, <1>6, <1>7, <1>8, <1>9, <1>10, <1>11
     DEF StepAt, Operator, Machine, Faults

(* A slot becomes active only on its present holder's sign-in, and what     *)
(* they signed in with stays in the home as long as it is active.           *)
THEOREM ActiveMeansSignedInAlways ==
  ASSUME Orderly
  PROVE  Spec => []ActiveMeansSignedIn
<1>1. Init => SignedInInv
  BY DEF Init, SignedInInv, SignedInOf, LoginNeedsUser, LoginIsTheHolders, PostOfTheHolder, NoReport
<1>2. ASSUME TypeOK, RowsOK, CustodyInv, SignedInInv, [Next]_vars PROVE SignedInInv'
  <2>1. ASSUME NEW s \in Slots, StepAt(s), NEW r \in Slots PROVE SignedInOf(r)'
    <3>1. CASE r = s
      BY <1>2, <2>1, <3>1, SignedInStep
    <3>2. CASE r # s
      <4>1. SignedInOf(r)
        BY <1>2 DEF SignedInInv
      <4> QED
        BY <1>2, <2>1, <3>2, <4>1, StepIsLocal, SignedInLocal
    <3> QED
      BY <3>1, <3>2
  <2>2. ASSUME NEW a \in Accounts, NEW n \in 0..MaxQuota, set_slot_quota(a, n), NEW r \in Slots
        PROVE  SignedInOf(r)'
    <3>1. SignedInOf(r)
      BY <1>2 DEF SignedInInv
    <3> QED
      BY <2>2, <3>1, SignedInLocal DEF set_slot_quota, rowVars, machineVars, agentVars
  <2>3. ASSUME UNCHANGED vars, NEW r \in Slots PROVE SignedInOf(r)'
    <3>1. SignedInOf(r)
      BY <1>2 DEF SignedInInv
    <3> QED
      BY <2>3, <3>1, SignedInLocal DEF vars, storeVars, rowVars, machineVars, agentVars
  <2> QED
    BY <1>2, <2>1, <2>2, <2>3 DEF SignedInInv, Next, StepAt
<1>3. SignedInInv => ActiveMeansSignedIn
  BY DEF SignedInInv, SignedInOf, LoginIsTheHolders, ActiveMeansSignedIn
<1> QED
  BY <1>1, <1>2, <1>3, CustodyAlways, PTL DEF Spec

=============================================================================

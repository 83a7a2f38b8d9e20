------------------------------ MODULE Gateway ------------------------------
(* The public model gateway: an endpoint key over its owner's slots and the   *)
(* native provider bound to a slot (ccfleetd/store.py), and one request as    *)
(* gateway.py forwards it and gateway_transport.py carries it.  Everything a  *)
(* request knows of its key and slot is a snapshot, asked about again before  *)
(* the model is asked and before every chunk; the store moves in between.     *)
(* Whether a slot is well (signed in, its node on, its machine's report good, *)
(* no sign-in running, its binding's report not too old) and paid may change  *)
(* without a trace between any two steps: each check may find it is not.      *)
(* A "devin" key has one slot, and its slot a verified binding.  Slots tried  *)
(* are taken in any order: the hot ones first and the remembered one before   *)
(* them is one such order.                                                    *)
EXTENDS Naturals, Sequences, FiniteSets, SequencesExt

CONSTANTS
  GwSlots, GwOwners, NoGw,
  GwFingerprints,   \* provider accounts a slot may be bound to
  GwMaxClaims,      \* bound: claims of any slot
  GwMaxEdits,       \* bound: times the key is edited, revoked or renamed under
  GwMaxBumps,       \* bound: changes of the slots' generations
  GwMaxChunks       \* bound: parts of one answer

VARIABLES
  gwHeld,           \* slots.held_by of a slot not being released
  gwClaim,          \* slots.gateway_claim_id, 0 when free
  gwGen,            \* slots.gateway_generation
  gwClaims,         \* claims so far
  gwKey,            \* the row of gateway_keys
  gwBinding,        \* gateway_provider_bindings: one row for each slot
  gwReq,            \* the request being forwarded
  gwFrames,         \* ghost: how each model frame of the request was answered
  gwLate            \* ghost: chunks written after what it was let in by had changed

Providers == {"anthropic", "devin"}

GwKeys == [account : GwOwners, provider : Providers, slots : Seq(GwSlots),
           claims : Seq(Nat), gen : Nat, edits : Nat, revoked : BOOLEAN]
GwSteps == {"keyed", "trying", "starting", "begun", "sent", "answering", "writing", "done"}
GwRequests == [pc : GwSteps, gen : Nat, edits : Nat, provider : Providers,
               targets : Seq([slot : GwSlots, gen : Nat, claim : Nat]), pos : Nat,
               pinned : BOOLEAN, chunks : Nat]

\* Nothing is neither an account nor a row.
ASSUME GatewayAssumption ==
  /\ NoGw \notin GwOwners \cup GwKeys \cup GwRequests
  /\ IsFiniteSet(GwSlots) /\ GwMaxBumps \in Nat /\ GwMaxChunks \in Nat

gwSlotVars == <<gwHeld, gwClaim, gwGen, gwClaims>>
gwStore == <<gwSlotVars, gwKey, gwBinding>>
gwRequest == <<gwReq, gwFrames, gwLate>>
gwVars == <<gwStore, gwRequest>>

NoBinding == [claim |-> 0, owner |-> NoGw, fp |-> NoGw, state |-> "none"]

-----------------------------------------------------------------------------
(* The slots, as far as a request sees them.                                  *)

(* Generations are only compared for being the same.                          *)
GwBumps == FoldSet(LAMBDA s, n : gwGen[s] + n, 0, GwSlots)
GwBump(s) == GwBumps < GwMaxBumps /\ gwGen' = [gwGen EXCEPT ![s] = @ + 1]

GwClaimSlot(s, h) ==
  /\ gwHeld[s] = NoGw /\ gwClaims < GwMaxClaims
  /\ gwClaims' = gwClaims + 1
  /\ gwHeld' = [gwHeld EXCEPT ![s] = h]
  /\ gwClaim' = [gwClaim EXCEPT ![s] = gwClaims + 1]
  /\ GwBump(s)
  /\ UNCHANGED <<gwKey, gwBinding, gwRequest>>

\* Released, wiped and free again, its bindings deleted.
GwReleaseSlot(s) ==
  /\ gwHeld[s] # NoGw
  /\ gwHeld' = [gwHeld EXCEPT ![s] = NoGw]
  /\ gwClaim' = [gwClaim EXCEPT ![s] = 0]
  /\ gwBinding' = [gwBinding EXCEPT ![s] = NoBinding]
  /\ GwBump(s)
  /\ UNCHANGED <<gwClaims, gwKey, gwRequest>>

\* A sign-in is begun on it, its node gets a new endpoint, or its state moves on.
GwSlotStirs(s) ==
  /\ gwHeld[s] # NoGw
  /\ GwBump(s)
  /\ UNCHANGED <<gwHeld, gwClaim, gwClaims, gwKey, gwBinding, gwRequest>>

-----------------------------------------------------------------------------
(* Provider bindings, from the root observer's reports.                       *)

BoundElsewhere(s, fp) == \E o \in GwSlots \ {s} :
  /\ gwBinding[o].fp = fp /\ gwBinding[o].state # "revoked"
  /\ gwBinding[o].claim = gwClaim[o] /\ gwBinding[o].owner = gwHeld[o] /\ gwHeld[o] # NoGw

binding_ready(s) ==
  /\ gwHeld[s] # NoGw
  /\ gwBinding[s].owner = gwHeld[s] /\ gwBinding[s].claim = gwClaim[s]
  /\ gwBinding[s].state = "fresh"

\* Requests authorised under the old binding end.
_invalidate_provider_keys(s) ==
  IF gwKey # NoGw /\ ~gwKey.revoked /\ gwKey.provider = "devin" /\ gwKey.account = gwHeld[s]
       /\ \E i \in DOMAIN gwKey.slots : gwKey.slots[i] = s
  THEN /\ gwKey.edits < GwMaxEdits
       /\ gwKey' = [gwKey EXCEPT !.gen = @ + 1, !.edits = @ + 1]
  ELSE UNCHANGED gwKey

\* Mutant: any report of the current claim is taken, whoever else has that account.
Bindable_anywhere(s, fp) == gwHeld[s] # NoGw

Bindable(s, fp) == gwHeld[s] # NoGw /\ ~BoundElsewhere(s, fp)

\* A report of the claim as it is now, on the generation the caller read.
bind_gateway_provider(s, fp) ==
  LET old == gwBinding[s]
      same == old.claim = gwClaim[s] /\ old.fp = fp /\ old.state # "revoked"
  IN  /\ Bindable(s, fp)
      /\ gwBinding' = [gwBinding EXCEPT ![s] =
           [claim |-> gwClaim[s], owner |-> gwHeld[s], fp |-> fp, state |-> "fresh"]]
      /\ IF same THEN UNCHANGED gwKey ELSE _invalidate_provider_keys(s)
      /\ UNCHANGED <<gwSlotVars, gwRequest>>

revoke_gateway_provider_binding(s) ==
  /\ gwHeld[s] # NoGw /\ gwBinding[s].claim = gwClaim[s] /\ gwBinding[s].state # "revoked"
  /\ gwBinding' = [gwBinding EXCEPT ![s].state = "revoked"]
  /\ _invalidate_provider_keys(s)
  /\ UNCHANGED <<gwSlotVars, gwRequest>>

-----------------------------------------------------------------------------
(* The endpoint key.                                                          *)

\* Which slots an account may choose: its own, not being released; one, with its
\* binding ready, for a native key.
Selectable(h, provider, slots) ==
  /\ slots # << >>
  /\ \A i \in DOMAIN slots : gwHeld[slots[i]] = h
  /\ provider = "devin" => Len(slots) = 1 /\ binding_ready(slots[1])

Selections == {s \in SeqOf(GwSlots, Cardinality(GwSlots)) : IsInjective(s)}

Chosen(h, provider, slots) ==
  [account |-> h, provider |-> provider, slots |-> slots,
   claims |-> [i \in DOMAIN slots |-> gwClaim[slots[i]]],
   gen |-> 1, edits |-> 0, revoked |-> FALSE]

create_gateway_key(h, provider, slots) ==
  /\ gwKey = NoGw
  /\ Selectable(h, provider, slots)
  /\ gwKey' = Chosen(h, provider, slots)
  /\ UNCHANGED <<gwSlotVars, gwBinding, gwRequest>>

\* Mutant: a change of the key's slots or provider keeps its generation.
Edited_in_place(new) == [new EXCEPT !.gen = gwKey.gen, !.edits = gwKey.edits + 1]

Edited(new) == [new EXCEPT !.gen = gwKey.gen + 1, !.edits = gwKey.edits + 1]

update_gateway_key(provider, slots) ==
  /\ gwKey # NoGw /\ ~gwKey.revoked /\ gwKey.edits < GwMaxEdits
  /\ Selectable(gwKey.account, provider, slots)
  /\ gwKey' = Edited(Chosen(gwKey.account, provider, slots))
  /\ UNCHANGED <<gwSlotVars, gwBinding, gwRequest>>

revoke_gateway_key ==
  /\ gwKey # NoGw /\ ~gwKey.revoked
  /\ gwKey' = [gwKey EXCEPT !.revoked = TRUE, !.gen = @ + 1, !.edits = @ + 1]
  /\ UNCHANGED <<gwSlotVars, gwBinding, gwRequest>>

\* A slot of the key's is called something else: the selection follows it, its claim
\* stays the one it was made with, and what is under way ends.
_rename_gateway_slots ==
  /\ gwKey # NoGw /\ ~gwKey.revoked /\ gwKey.edits < GwMaxEdits
  /\ gwKey' = [gwKey EXCEPT !.gen = @ + 1, !.edits = @ + 1]
  /\ UNCHANGED <<gwSlotVars, gwBinding, gwRequest>>

-----------------------------------------------------------------------------
(* Where the key may go now.                                                  *)

_gateway_targets ==
  IF gwKey = NoGw \/ gwKey.revoked THEN {}
  ELSE {[slot |-> gwKey.slots[i], gen |-> gwGen[gwKey.slots[i]], claim |-> gwKey.claims[i]] :
         i \in {j \in DOMAIN gwKey.slots :
           LET s == gwKey.slots[j]
           IN  /\ gwHeld[s] = gwKey.account /\ gwKey.claims[j] = gwClaim[s]
               /\ gwKey.provider = "devin" => binding_ready(s)}}

\* gateway_request_is_active, and for a native target the same binding still.
_authorized(q, t) ==
  /\ gwKey.gen = q.gen
  /\ \E now \in _gateway_targets : now.slot = t.slot /\ now.gen = t.gen

-----------------------------------------------------------------------------
(* One request.                                                               *)

Target == gwReq.targets[gwReq.pos]
More == gwReq.pos < Len(gwReq.targets) /\ ~gwReq.pinned
GwIn(pc) == gwReq # NoGw /\ gwReq.pc = pc
GwTo(pc) == gwReq' = [gwReq EXCEPT !.pc = pc]
GwNextSlot == gwReq' = [gwReq EXCEPT !.pc = "trying", !.pos = @ + 1]

\* The key is taken as it is; the slots it may use are asked for after.
authenticate ==
  /\ gwReq = NoGw /\ gwKey # NoGw /\ ~gwKey.revoked
  /\ gwReq' = [pc |-> "keyed", gen |-> gwKey.gen, edits |-> gwKey.edits,
               provider |-> gwKey.provider, targets |-> << >>, pos |-> 1, pinned |-> FALSE,
               chunks |-> 0]
  /\ UNCHANGED <<gwStore, gwFrames, gwLate>>

\* Unpaid slots are left out; a pin leaves one; with none left it is refused.
_targets ==
  /\ GwIn("keyed")
  /\ \E paid \in SUBSET (IF gwKey.gen = gwReq.gen THEN _gateway_targets ELSE {}) :
       IF paid = {} THEN GwTo("done")
       ELSE \E order \in SetToSeqs(paid), pinned \in BOOLEAN :
              gwReq' = [gwReq EXCEPT !.pc = "trying", !.pinned = pinned,
                                     !.targets = IF pinned THEN <<order[1]>> ELSE order]
  /\ UNCHANGED <<gwStore, gwFrames, gwLate>>

\* A slot that is no longer there is passed over, unless the key has changed; the
\* caller gone, the deadline past, or its time not paid ends the request.
TrySlot ==
  /\ GwIn("trying")
  /\ \/ GwTo("done")
     \/ _authorized(gwReq, Target) /\ GwTo("starting")
     \/ /\ gwKey.gen = gwReq.gen
        /\ IF gwReq.pos < Len(gwReq.targets) THEN GwNextSlot ELSE GwTo("done")
  /\ UNCHANGED <<gwStore, gwFrames, gwLate>>

\* No SSH, no answer, or not ready: nothing has been asked of the model yet.
StartFails ==
  /\ GwIn("starting")
  /\ IF More THEN GwNextSlot ELSE GwTo("done")
  /\ UNCHANGED <<gwStore, gwFrames, gwLate>>

\* Ready: asked once more, and then marked as begun before the first byte is written.
admitted_before_send ==
  /\ GwIn("starting")
  /\ GwTo("done") \/ (_authorized(gwReq, Target) /\ GwTo("begun"))
  /\ UNCHANGED <<gwStore, gwFrames, gwLate>>

_send_to_slot ==
  /\ GwIn("begun")
  /\ GwTo("sent")
  /\ gwFrames' = Append(gwFrames, "unanswered")
  /\ UNCHANGED <<gwStore, gwLate>>

\* The channel breaks after the request was begun, or its watcher, which asks every
\* fifth of a second, closes it.
StreamBreaks ==
  /\ GwIn("begun") \/ GwIn("sent") \/ GwIn("answering")
  /\ GwTo("done")
  /\ UNCHANGED <<gwStore, gwFrames, gwLate>>

Retriable == gwReq.provider # "devin"

\* The slot says it could not take the request, which never reached a model.
Refused ==
  /\ GwIn("sent")
  /\ gwFrames' = [gwFrames EXCEPT ![Len(gwFrames)] = "refused"]
  /\ GwTo("done") \/ (_authorized(gwReq, Target) /\ Retriable /\ More /\ GwNextSlot)
  /\ UNCHANGED <<gwStore, gwLate>>

\* Headers commit the answer.
GwAnswered ==
  /\ GwIn("sent")
  /\ gwFrames' = [gwFrames EXCEPT ![Len(gwFrames)] = "answered"]
  /\ GwTo("done") \/ (_authorized(gwReq, Target) /\ GwTo("answering"))
  /\ UNCHANGED <<gwStore, gwLate>>

\* Mutant: only the watcher looks, once an answer has begun.
ChunkAllowed_if_watched == TRUE
ChunkAllowed == _authorized(gwReq, Target)

ChunkChecked ==
  /\ GwIn("answering") /\ gwReq.chunks < GwMaxChunks
  /\ GwTo("done") \/ (ChunkAllowed /\ GwTo("writing"))
  /\ UNCHANGED <<gwStore, gwFrames, gwLate>>

\* What the request was let in by is no longer so: its key was edited, revoked or
\* renamed under, or its slot is not in that claim any more.
GwChanged ==
  \/ gwKey.edits # gwReq.edits
  \/ gwClaim[Target.slot] # Target.claim
  \/ gwGen[Target.slot] # Target.gen

ChunkWritten ==
  /\ GwIn("writing")
  /\ gwReq' = [gwReq EXCEPT !.pc = "answering", !.chunks = @ + 1]
  /\ gwLate' = IF GwChanged THEN gwLate + 1 ELSE gwLate
  /\ UNCHANGED <<gwStore, gwFrames>>

\* The next request of the same endpoint.
GwAnother ==
  /\ GwIn("done") /\ gwKey.edits < GwMaxEdits
  /\ gwReq' = NoGw /\ gwFrames' = << >> /\ gwLate' = 0
  /\ UNCHANGED gwStore

-----------------------------------------------------------------------------
GwInit ==
  /\ gwHeld = [s \in GwSlots |-> NoGw] /\ gwClaim = [s \in GwSlots |-> 0]
  /\ gwGen = [s \in GwSlots |-> 0]
  /\ gwClaims = 0
  /\ gwKey = NoGw /\ gwBinding = [s \in GwSlots |-> NoBinding]
  /\ gwReq = NoGw /\ gwFrames = << >> /\ gwLate = 0

GwNext ==
  \/ \E s \in GwSlots :
       \/ \E h \in GwOwners : GwClaimSlot(s, h)
       \/ GwReleaseSlot(s) \/ GwSlotStirs(s)
       \/ \E fp \in GwFingerprints : bind_gateway_provider(s, fp)
       \/ revoke_gateway_provider_binding(s)
  \/ \E p \in Providers, slots \in Selections :
       \/ \E h \in GwOwners : create_gateway_key(h, p, slots)
       \/ update_gateway_key(p, slots)
  \/ revoke_gateway_key \/ _rename_gateway_slots
  \/ authenticate \/ _targets \/ TrySlot \/ StartFails \/ admitted_before_send
  \/ _send_to_slot \/ StreamBreaks \/ Refused \/ GwAnswered
  \/ ChunkChecked \/ ChunkWritten \/ GwAnother

GwSpec == GwInit /\ [][GwNext]_gwVars

-----------------------------------------------------------------------------
GwTypeOK ==
  /\ \A s \in GwSlots : /\ gwHeld[s] \in GwOwners \cup {NoGw}
                        /\ gwClaim[s] \in 0..gwClaims /\ gwGen[s] \in 0..GwMaxBumps
                        /\ gwBinding[s].state \in {"none", "fresh", "revoked"}
  /\ gwKey = NoGw \/ gwKey.slots \in Selections
  /\ gwReq = NoGw \/ gwReq.chunks \in 0..GwMaxChunks
  /\ gwLate \in Nat

\* Once a key was edited, revoked or renamed under, or its slot changed hands, at most
\* the one chunk already let through is still written of the answer that was coming.
OneChunkAfterChange == gwLate <= 1

\* A request the model may have begun on is sent nowhere else: each slot before the last
\* one refused it, and a native turn is begun once.
NotReplayed ==
  /\ \A i \in 1..Len(gwFrames) - 1 : gwFrames[i] = "refused"
  /\ gwReq # NoGw /\ gwReq.provider = "devin" => Len(gwFrames) <= 1

\* No provider account serves two held slots at once.
OneSlotForAnAccount ==
  \A s, o \in GwSlots : s # o /\ binding_ready(s) /\ binding_ready(o)
                          => gwBinding[s].fp # gwBinding[o].fp

GatewaySound == OneChunkAfterChange /\ NotReplayed /\ OneSlotForAnAccount
=============================================================================

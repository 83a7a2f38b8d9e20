------------------------------- MODULE Naming -------------------------------
(* What machines and slots are called (ccfleetd/store.py, names.py,          *)
(* desired.py).  A machine has an id and at most one slot; a slot has an id, *)
(* a neutral pool name while it is empty, and a name while it is held.  A    *)
(* machine is told to answer to its slot's name, and tables name slots and   *)
(* machines by their ids, which the operator may change.                     *)
(*                                                                           *)
(* The paid month and the quota a claim needs, and what a wipe takes, are    *)
(* Wallet, SlotSubscriptions and SlotLifecycle: here they may be met or not. *)
EXTENDS Integers, FiniteSets

CONSTANTS
  NmNames,       \* the hostnames there are
  NmPool,        \* of them, those of the form pool-<n>
  NmNobody,      \* no name, and no machine
  NmMaxNodes,    \* bound: machines at a time
  NmMaxSerial,   \* bound: slots declared and tenancies begun
  NmMaxRows      \* bound: rows filed under slots at a time

ASSUME NamingAssumption ==
  NmPool \subseteq NmNames /\ NmNobody \notin NmNames /\ NmMaxSerial \in Nat

(* Tables that name a slot by its id: its sign-in, the terminals connected   *)
(* to it, the update asked for, and its provider at the gateway.             *)
NmTables == {"logins", "cli_devices", "claude_updates", "gateway_provider_bindings"}

VARIABLES
  nmNodes,       \* ids of the machines
  nmSlots,       \* the slot of each id, NoSlot where none has it
  nmRows,        \* rows filed under slots' ids, with the tenancy they are of
  nmOwn,         \* a machine's own sign-in: the tenancy it is of, -1 for none
  nmReceipts,    \* paid orders: the ids they keep, and the slot they were for
  nmSerial       \* ghost: slots declared and tenancies begun so far

nmVars == <<nmNodes, nmSlots, nmRows, nmOwn, nmReceipts, nmSerial>>

\* node NmNobody: there is no such slot.  `born` and `claim` are ghosts: which
\* slot this is, whatever its id, and which tenancy of it.
NoSlot == [node |-> NmNobody, kind |-> "machine", state |-> "free", name |-> NmNobody,
           pool |-> NmNobody, born |-> 0, claim |-> 0]

NmInit ==
  /\ nmNodes = {} /\ nmSlots = [s \in NmNames |-> NoSlot]
  /\ nmRows = {} /\ nmOwn = [n \in NmNames |-> -1]
  /\ nmReceipts = {} /\ nmSerial = 0

-----------------------------------------------------------------------------
Declared(s) == nmSlots[s].node # NmNobody
On(s, n) == nmSlots[s].node = n
SlotOf(n) == {s \in NmNames : On(s, n)}

\* The names a slot may be shown by, whatever its state.
Called(s) == {s, nmSlots[s].name, nmSlots[s].pool}

\* A slot but its own names, a machine but its own id.
TakenBut(s, n) ==
  (nmNodes \ {n}) \cup UNION {Called(t) : t \in {t \in NmNames : Declared(t) /\ t # s}}
Taken == TakenBut(NmNobody, NmNobody)

display(s) ==
  LET slot == nmSlots[s] IN
  IF slot.state = "free" THEN IF slot.pool \in NmPool THEN slot.pool ELSE s
  ELSE IF slot.name # NmNobody THEN slot.name ELSE s

\* What a machine answers to: somebody's own is never told another name.
Hosted(n) == {s \in SlotOf(n) : nmSlots[s].kind = "machine"}
machine_hostname(n) ==
  IF \E s \in NmNames : Hosted(n) = {s} THEN display(CHOOSE s \in NmNames : Hosted(n) = {s})
  ELSE n

\* A pool name it has is kept; otherwise its own id or its machine's, when that
\* is one nothing else answers to; otherwise one nobody has.
pool_name_for(s) ==
  LET slot == nmSlots[s]
      free == NmPool \ TakenBut(s, slot.node)
  IN IF slot.pool \in NmPool THEN {slot.pool}
     ELSE IF s \in free THEN {s}
     ELSE IF slot.node \in free THEN {slot.node}
     ELSE free

Paid(column, id) == \E r \in nmReceipts : r[column] = id

-----------------------------------------------------------------------------
add_node(n) ==
  /\ Cardinality(nmNodes) < NmMaxNodes
  /\ n \notin nmNodes /\ \A s \in NmNames : Declared(s) => n \notin Called(s)
  /\ nmNodes' = nmNodes \cup {n}
  /\ UNCHANGED <<nmSlots, nmRows, nmOwn, nmReceipts, nmSerial>>

\* Its own sign-in row stays behind.
remove_node(n) ==
  /\ n \in nmNodes /\ ~Paid("node", n) /\ SlotOf(n) = {}
  /\ nmNodes' = nmNodes \ {n}
  /\ UNCHANGED <<nmSlots, nmRows, nmOwn, nmReceipts, nmSerial>>

\* Rows of a slot's that move to another id; what was left there is dropped.
Moved(rows, old, new) ==
  {[r EXCEPT !.slot = IF r.slot = old THEN new ELSE r.slot] : r \in {r \in rows : r.slot # new}}

\* A held machine of somebody's own carries its id over to the slot it is
\* counted as: its updates alone are filed under that id.
Carries(old) == On(old, old) /\ nmSlots[old].kind = "owner"

Refiled(old, new) ==
  Moved({r \in nmRows : r.table = "claude_updates"}, old, new)
    \cup {r \in nmRows : r.table # "claude_updates"}

rename_node(old, new) ==
  LET moved(s) == IF On(s, old) THEN [nmSlots[s] EXCEPT !.node = new] ELSE nmSlots[s] IN
  /\ old \in nmNodes /\ new \notin nmNodes
  /\ \A id \in {old, new} : ~Paid("node", id) /\ (Carries(old) => ~Paid("slot", id))
  /\ \A s \in NmNames : Declared(s) /\ ~On(s, old) => new \notin Called(s)
  /\ SlotOf(new) = {}
  /\ nmNodes' = (nmNodes \ {old}) \cup {new}
  /\ nmOwn' = [nmOwn EXCEPT ![new] = nmOwn[old], ![old] = -1]
  /\ IF Carries(old)
     THEN /\ nmSlots' = [s \in NmNames |->
                IF s = new THEN moved(old) ELSE IF s = old THEN NoSlot ELSE moved(s)]
          /\ nmRows' = Refiled(old, new)
     ELSE nmSlots' = [s \in NmNames |-> moved(s)] /\ UNCHANGED nmRows
  /\ UNCHANGED <<nmReceipts, nmSerial>>

add_slot(s, n) ==
  /\ nmSerial < NmMaxSerial /\ n \in nmNodes /\ SlotOf(n) = {}
  /\ ~Declared(s) /\ s \notin nmNodes \ {n}
  /\ \A t \in NmNames : Declared(t) => s \notin {nmSlots[t].name, nmSlots[t].pool}
  /\ nmSlots' = [nmSlots EXCEPT ![s] = [NoSlot EXCEPT !.node = n, !.born = nmSerial + 1]]
  /\ nmSerial' = nmSerial + 1
  /\ UNCHANGED <<nmNodes, nmRows, nmOwn, nmReceipts>>

\* An empty slot's sign-in and update went with its last holder.
remove_slot(s) ==
  /\ Declared(s) /\ ~Paid("slot", s)
  /\ nmSlots[s].kind = "machine" /\ nmSlots[s].state = "free"
  /\ nmSlots' = [nmSlots EXCEPT ![s] = NoSlot]
  /\ nmRows' = {r \in nmRows : r.slot = s => r.table \in {"logins", "claude_updates"}}
  /\ UNCHANGED <<nmNodes, nmOwn, nmReceipts, nmSerial>>

rename_slot(old, new) ==
  /\ Declared(old) /\ ~Declared(new)
  /\ ~Paid("slot", old) /\ ~Paid("slot", new)
  /\ \A t \in NmNames : Declared(t) /\ t # old => new \notin {nmSlots[t].name, nmSlots[t].pool}
  /\ new \notin nmNodes \ {nmSlots[old].node}
  /\ nmSlots' = [nmSlots EXCEPT ![new] = nmSlots[old], ![old] = NoSlot]
  /\ nmRows' = Moved(nmRows, old, new)
  /\ UNCHANGED <<nmNodes, nmOwn, nmReceipts, nmSerial>>

-----------------------------------------------------------------------------
\* A neutral name, or one after the handle the operator gave the account.
claim_slot_in_transaction(s, name) ==
  /\ nmSerial < NmMaxSerial
  /\ Declared(s) /\ nmSlots[s].kind = "machine" /\ nmSlots[s].state = "free"
  /\ name \notin Taken
  /\ nmSlots' = [nmSlots EXCEPT ![s] = [nmSlots[s] EXCEPT !.state = "claiming", !.name = name,
                                                          !.claim = nmSerial + 1]]
  /\ nmSerial' = nmSerial + 1
  /\ UNCHANGED <<nmNodes, nmRows, nmOwn, nmReceipts>>

\* Claimed, and in use: the machine says its user is there, then signed in.
SetUp(s) ==
  /\ nmSlots[s].state = "claiming"
  /\ nmSlots' = [nmSlots EXCEPT ![s].state = "active"]
  /\ UNCHANGED <<nmNodes, nmRows, nmOwn, nmReceipts, nmSerial>>

\* The holder's sign-in and terminals go as the wipe is asked for.
begin_release(s) ==
  /\ Declared(s) /\ nmSlots[s].kind = "machine" /\ nmSlots[s].state \in {"claiming", "active"}
  /\ nmSlots' = [nmSlots EXCEPT ![s].state = "releasing"]
  /\ nmRows' = {r \in nmRows : r.slot = s => r.table \notin {"logins", "cli_devices"}}
  /\ UNCHANGED <<nmNodes, nmOwn, nmReceipts, nmSerial>>

\* A claim never provisioned: nothing was filed under it.
expire_claims(s) ==
  /\ nmSlots[s].state = "claiming"
  /\ nmSlots' = [nmSlots EXCEPT ![s].state = "releasing"]
  /\ UNCHANGED <<nmNodes, nmRows, nmOwn, nmReceipts, nmSerial>>

free_released(s, pool) ==
  /\ nmSlots[s].state = "releasing" /\ pool \in pool_name_for(s)
  /\ nmSlots' = [nmSlots EXCEPT ![s] = [nmSlots[s] EXCEPT !.state = "free", !.name = NmNobody,
                                                          !.pool = pool, !.claim = 0]]
  /\ nmRows' = {r \in nmRows : r.slot = s => r.table = "logins"}
  /\ UNCHANGED <<nmNodes, nmOwn, nmReceipts, nmSerial>>

\* An empty slot from before pool names, or one just declared.
normalize_free_pool_names(s, pool) ==
  /\ Declared(s) /\ nmSlots[s].kind = "machine" /\ nmSlots[s].state = "free"
  /\ nmSlots[s].pool = NmNobody /\ pool \in pool_name_for(s)
  /\ nmSlots' = [nmSlots EXCEPT ![s] = [nmSlots[s] EXCEPT !.name = NmNobody, !.pool = pool]]
  /\ UNCHANGED <<nmNodes, nmRows, nmOwn, nmReceipts, nmSerial>>

\* The holder's own choice never takes the form of the operator's names; with
\* none, a neutral name is drawn.
name_slot(s, name) ==
  /\ nmSlots[s].kind = "machine" /\ nmSlots[s].state = "active"
  /\ name \notin NmPool /\ name \notin TakenBut(s, NmNobody)
  /\ nmSlots' = [nmSlots EXCEPT ![s].name = name]
  /\ UNCHANGED <<nmNodes, nmRows, nmOwn, nmReceipts, nmSerial>>

-----------------------------------------------------------------------------
\* Somebody's own machine, counted as a slot they hold; `same`: by who already
\* holds it, which changes nothing kept here.
Renewed(n, s) ==
  /\ nmOwn' = [nmOwn EXCEPT ![n] = -1]
  /\ nmRows' = {r \in nmRows : r.slot = s => r.table # "claude_updates"}
  /\ nmSerial' = nmSerial + 1

hold_owner_node(n) ==
  /\ nmSerial < NmMaxSerial /\ n \in nmNodes
  /\ \A s \in SlotOf(n) : nmSlots[s].kind = "owner"
  /\ \/ \E s \in SlotOf(n) :
          /\ nmSlots' = [nmSlots EXCEPT ![s].claim = nmSerial + 1]
          /\ Renewed(n, s)
     \/ /\ SlotOf(n) = {} /\ ~Declared(n)
        /\ nmSlots' = [nmSlots EXCEPT ![n] =
             [NoSlot EXCEPT !.node = n, !.kind = "owner", !.state = "active",
                            !.born = nmSerial + 1, !.claim = nmSerial + 1]]
        /\ Renewed(n, n)
  /\ UNCHANGED <<nmNodes, nmReceipts>>

unhold_owner_node(n) ==
  \E s \in SlotOf(n) :
    /\ nmSlots[s].kind = "owner"
    /\ nmSlots' = [nmSlots EXCEPT ![s] = NoSlot]
    /\ nmRows' = {r \in nmRows : r.slot = s => r.table \notin {"cli_devices", "claude_updates"}}
    /\ UNCHANGED <<nmNodes, nmOwn, nmReceipts, nmSerial>>

-----------------------------------------------------------------------------
\* What is filed for a slot its holder has set up; somebody's own machine has
\* its update filed there, and its sign-in under the machine.
File(s, table) ==
  /\ Declared(s) /\ nmSlots[s].state = "active" /\ Cardinality(nmRows) < NmMaxRows
  /\ nmSlots[s].kind = "owner" => table = "claude_updates"
  /\ nmRows' = nmRows \cup {[table |-> table, slot |-> s, claim |-> nmSlots[s].claim]}
  /\ UNCHANGED <<nmNodes, nmSlots, nmOwn, nmReceipts, nmSerial>>

\* A machine's own sign-in, from the console or its holder's page.
request_login(n) ==
  LET held == {s \in SlotOf(n) : nmSlots[s].kind = "owner"} IN
  /\ n \in nmNodes
  /\ \/ held = {} /\ nmOwn' = [nmOwn EXCEPT ![n] = 0]
     \/ \E s \in held : nmOwn' = [nmOwn EXCEPT ![n] = nmSlots[s].claim]
  /\ UNCHANGED <<nmNodes, nmSlots, nmRows, nmReceipts, nmSerial>>

\* A row is done with, withdrawn or too old.
Drop ==
  /\ \/ \E r \in nmRows : nmRows' = nmRows \ {r} /\ UNCHANGED nmOwn
     \/ \E n \in NmNames : nmOwn' = [nmOwn EXCEPT ![n] = -1] /\ UNCHANGED nmRows
  /\ UNCHANGED <<nmNodes, nmSlots, nmReceipts, nmSerial>>

\* A month bought, or a subscription reserved.
wallet_order(s) ==
  /\ Declared(s) /\ nmSlots[s].kind = "machine" /\ nmSlots[s].state # "releasing"
  /\ nmReceipts' = nmReceipts \cup
       {[node |-> nmSlots[s].node, slot |-> s, born |-> nmSlots[s].born]}
  /\ UNCHANGED <<nmNodes, nmSlots, nmRows, nmOwn, nmSerial>>

NmNext ==
  \/ \E n \in NmNames :
       \/ add_node(n) \/ remove_node(n) \/ hold_owner_node(n) \/ unhold_owner_node(n)
       \/ request_login(n)
  \/ \E s \in NmNames :
       \/ remove_slot(s) \/ SetUp(s) \/ begin_release(s) \/ expire_claims(s)
       \/ wallet_order(s)
       \/ \E t \in NmTables : File(s, t)
  \/ \E a, b \in NmNames :
       \/ rename_node(a, b) \/ add_slot(a, b) \/ rename_slot(a, b) \/ claim_slot_in_transaction(a, b)
       \/ free_released(a, b) \/ normalize_free_pool_names(a, b) \/ name_slot(a, b)
  \/ Drop

NmSpec == NmInit /\ [][NmNext]_nmVars

-----------------------------------------------------------------------------
NmNumbers == 0..NmMaxSerial
NmSlotRows ==
  [node : NmNames \cup {NmNobody}, kind : {"machine", "owner"},
   state : {"free", "claiming", "active", "releasing"}, name : NmNames \cup {NmNobody},
   pool : NmPool \cup {NmNobody}, born : NmNumbers, claim : NmNumbers]

NmTypeOK ==
  /\ nmNodes \subseteq NmNames
  /\ nmSlots \in [NmNames -> NmSlotRows]
  /\ nmRows \subseteq [table : NmTables, slot : NmNames, claim : NmNumbers]
  /\ nmOwn \in [NmNames -> NmNumbers \cup {-1}]
  /\ nmReceipts \subseteq [node : NmNames, slot : NmNames, born : NmNumbers]
  /\ nmSerial \in NmNumbers

(* Machines never answer to one name: not by an id, a pool name or a holder's *)
(* choice, through claims, wipes, renames and machines coming and going.      *)
NamesApart ==
  \A m, n \in nmNodes : m # n => machine_hostname(m) # machine_hostname(n)

(* What is filed under an id is of whoever holds the slot now: never left of  *)
(* an earlier tenancy, nor of another slot that had the id.                   *)
RowsAreTheirs ==
  /\ \A r \in nmRows : Declared(r.slot) /\ nmSlots[r.slot].claim = r.claim /\ r.claim # 0
  /\ \A s \in NmNames :
       LET n == nmSlots[s].node IN
       Declared(s) /\ nmSlots[s].kind = "owner" => nmOwn[n] \in {-1, nmSlots[s].claim}

(* A paid order's ids keep naming the slot and the machine it was for.        *)
ReceiptsStand ==
  \A r \in nmReceipts : On(r.slot, r.node) /\ nmSlots[r.slot].born = r.born

(* A slot is on a machine there is: none is left for a machine registered     *)
(* later to take up.                                                          *)
NamingSound ==
  /\ NamesApart /\ RowsAreTheirs /\ ReceiptsStand
  /\ \A s \in NmNames : Declared(s) => nmSlots[s].node \in nmNodes
=============================================================================

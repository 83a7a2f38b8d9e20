----------------------------- MODULE SlotCustody -----------------------------
(***************************************************************************)
(* What the fleet promises about a slot, with no server, agent or network  *)
(* in it: who has it, and whose files lie in its home.  A slot is handed   *)
(* to somebody only when it is empty; only its holder's files come into    *)
(* it; they are removed only once the holder is leaving; and the holder    *)
(* is gone from the record only when they are.  (ccfleetd/slots.py,        *)
(* store.finish_release, node/slot-remove.sh.)                             *)
(***************************************************************************)
CONSTANTS Slots, Accounts, None, Stranger

VARIABLES holder, leaving, tenants

vars == <<holder, leaving, tenants>>

(* A home may hold the files of somebody outside the fleet at the outset.   *)
Init ==
  /\ holder = [s \in Slots |-> None]
  /\ leaving = [s \in Slots |-> FALSE]
  /\ tenants \in [Slots -> {{}, {Stranger}}]

Hand(s, a) ==
  /\ holder[s] = None /\ tenants[s] = {}
  /\ holder' = [holder EXCEPT ![s] = a]
  /\ UNCHANGED <<leaving, tenants>>

Use(s) ==
  /\ holder[s] # None
  /\ tenants' = [tenants EXCEPT ![s] = @ \cup {holder[s]}]
  /\ UNCHANGED <<holder, leaving>>

Leave(s) ==
  /\ holder[s] # None /\ ~leaving[s]
  /\ leaving' = [leaving EXCEPT ![s] = TRUE]
  /\ UNCHANGED <<holder, tenants>>

Empty(s) ==
  /\ holder[s] = None \/ leaving[s]
  /\ tenants' = [tenants EXCEPT ![s] = {}]
  /\ UNCHANGED <<holder, leaving>>

Vacate(s) ==
  /\ leaving[s] /\ tenants[s] = {}
  /\ holder' = [holder EXCEPT ![s] = None]
  /\ leaving' = [leaving EXCEPT ![s] = FALSE]
  /\ UNCHANGED tenants

Next == \E s \in Slots :
  (\E a \in Accounts : Hand(s, a)) \/ Use(s) \/ Leave(s) \/ Empty(s) \/ Vacate(s)

Spec == Init /\ [][Next]_vars

=============================================================================

--------------------------- MODULE MCSlotLifecycle ---------------------------
(* Two small fleets checked in one run, told apart by `fleet`, chosen at the *)
(* start.  "late": one slot and two accounts, with posts that arrive late    *)
(* and wipes that fail half way.  "wide": two slots and one account, without *)
(* them.  What a fleet lacks never moves in it.                              *)
EXTENDS SlotLifecycle, TLC

CONSTANTS s1, s2, ann, bob

VARIABLE fleet

(* The same slots and accounts, with no late post and no half-done wipe.     *)
Prompt == INSTANCE SlotLifecycle WITH MaxLate <- 0, PartialWipe <- FALSE

OneSlot == state[s2] = "undeclared" /\ pc[s2] = "idle" /\ ~user[s2]
OneAccount == quota[bob] = 0

TwoFleetsInit ==
  /\ Init
  /\ \/ fleet = "late" /\ OneSlot
     \/ fleet = "wide" /\ OneAccount

TwoFleetsNext ==
  /\ UNCHANGED fleet
  /\ \/ fleet = "late" /\ Next /\ OneSlot'
     \/ fleet = "wide" /\ Prompt!Next /\ OneAccount'

TwoFleets == TwoFleetsInit /\ [][TwoFleetsNext]_<<fleet, vars>>

(* Accounts are interchangeable, and so are slots: none is ordered, chosen   *)
(* or compared but for equality; and the one a fleet lacks is nobody's       *)
(* counterpart, since it never holds, or is held.                            *)
FleetSymmetry == Permutations(Accounts) \cup Permutations(Slots)
=============================================================================

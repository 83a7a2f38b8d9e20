--------------------------- MODULE MCAgentsProofs ---------------------------
(***************************************************************************)
(* Theorems about what a slot's agents do for its holder and the requests  *)
(* that come to them, for every number of people, codes, requests, jobs,   *)
(* builds, connections and faults, as MCAgents runs them: the access of a  *)
(* holder's terminals (CliAccess); Claude Code updates, the renewal of its *)
(* credential and its machine's name (Updates, Renewal, Hostname); signing *)
(* it in (SlotLogin); local jobs (LocalJobs); and model requests, their    *)
(* connection and what is counted of them (Inference, Transport,           *)
(* RelayMetrics).  Each part begins with its inductive invariant.          *)
(***************************************************************************)
EXTENDS MCAgents, FiniteSetTheorems, TLAPS

-----------------------------------------------------------------------------
(* The inductive invariant.                                                 *)

States == {"free", "claiming", "claimed", "active", "releasing"}
Someone == CliHolders \cup {NoCliHolder}
Codes == [code : Nat, claim : Nat, who : Someone, late : BOOLEAN]
Keys == [code : Nat, claim : Nat, who : Someone]
Orders == [state : States, claim : Nat, keys : SUBSET Keys, clean : BOOLEAN]

Typed ==
  /\ cliState \in States /\ cliHeldBy \in Someone
  /\ cliClaim \in Nat /\ cliSettled \in Nat /\ cliCodes \in Nat
  /\ cliPairings \subseteq Codes /\ cliDevices \subseteq Keys
  /\ cliUser \in BOOLEAN /\ cliStep \in {"idle", "keys", "act", "again"}
  /\ cliStep # "idle" => cliOrder \in Orders

(* A code that was shown is worth one device, while its claim is active.    *)
CodesOnce ==
  /\ AccessIsTheClaims
  /\ cliMade \subseteq 1..cliCodes
  /\ \A p \in cliPairings : p.code \in 1..cliCodes
  /\ \A p, q \in cliPairings : p.code = q.code => p = q
  /\ \A d \in cliDevices : d.code \in cliMade

(* The slot has a Linux user of its claim from being built to its wipe.     *)
UserIsTheClaims ==
  /\ cliState \in {"claimed", "active"} => cliUser /\ cliBuilt = cliClaim
  /\ cliState = "free" => ~cliUser
  /\ cliClaim = 0 => cliState = "free"

(* What the machine carries out was so when it asked, and only a release,   *)
(* or a claim of a slot that was free, has come in between.                 *)
OrderStands ==
  cliStep # "idle" =>
    /\ cliSettled <= cliOrder.claim /\ cliOrder.claim <= cliClaim
    /\ \A k \in cliOrder.keys : k.claim = cliOrder.claim
    /\ cliOrder.state # "free" => cliOrder.claim = cliClaim
    /\ cliOrder.state = "claiming" =>
         /\ cliState \in {"claiming", "releasing"} /\ cliSettled # cliClaim
         /\ cliStep = "again" => cliUser /\ cliBuilt = cliClaim
    /\ cliOrder.state \in {"claimed", "active"} => cliState \in {"claimed", "active", "releasing"}
    /\ cliOrder.state = "releasing" => cliState = "releasing"
    /\ cliOrder.state = "free" /\ cliOrder.claim = cliClaim => cliState = "free"

(* A run that was carried through for this claim found its user, or the     *)
(* claim is over.                                                           *)
SettledIsBuilt ==
  /\ cliSettled <= cliClaim
  /\ cliSettled = cliClaim =>
       cliState \in {"releasing", "free"} \/ (cliUser /\ cliBuilt = cliClaim)
  /\ KeysAreTheClaims

CliInv == Typed /\ CodesOnce /\ UserIsTheClaims /\ OrderStands /\ SettledIsBuilt

USE DEF cliServer, cliMachine, cliGhosts
-----------------------------------------------------------------------------
LEMMA InitKeeps == ASSUME CliInit PROVE CliInv
<1>1. Typed
  BY DEF CliInit, Typed, States, Someone
<1>2. CodesOnce
  BY DEF CliInit, CodesOnce, AccessIsTheClaims
<1>3. UserIsTheClaims /\ OrderStands /\ SettledIsBuilt
  BY DEF CliInit, UserIsTheClaims, OrderStands, SettledIsBuilt, KeysAreTheClaims
<1> QED
  BY <1>1, <1>2, <1>3 DEF CliInv

LEMMA ClaimKeeps == ASSUME CliInv, NEW h \in CliHolders, CliClaimSlot(h) PROVE CliInv'
<1>1. Typed'
  BY DEF CliInv, Typed, States, Someone, Orders, CliClaimSlot
<1>2. CodesOnce'
  BY DEF CliInv, Typed, CodesOnce, AccessIsTheClaims, CliClaimSlot
<1>3. UserIsTheClaims'
  BY DEF CliInv, Typed, States, Orders, UserIsTheClaims, OrderStands, CliClaimSlot
<1>4. OrderStands'
  BY DEF CliInv, Typed, States, Orders, OrderStands, UserIsTheClaims, SettledIsBuilt, CliClaimSlot
<1>5. SettledIsBuilt'
  BY DEF CliInv, Typed, States, Orders, SettledIsBuilt, UserIsTheClaims,
         OrderStands, KeysAreTheClaims, CliClaimSlot
<1> QED
  BY <1>1, <1>2, <1>3, <1>4, <1>5 DEF CliInv

LEMMA ReleaseKeeps == ASSUME CliInv, CliReleaseSlot PROVE CliInv'
<1>1. Typed'
  BY DEF CliInv, Typed, States, Someone, Orders, CliReleaseSlot, AccessEnds
<1>2. CodesOnce'
  BY DEF CliInv, Typed, CodesOnce, AccessIsTheClaims, CliReleaseSlot, AccessEnds
<1>3. UserIsTheClaims'
  BY DEF CliInv, Typed, States, Orders, UserIsTheClaims, OrderStands, CliReleaseSlot, AccessEnds
<1>4. OrderStands'
  BY DEF CliInv, Typed, States, Orders, OrderStands, UserIsTheClaims, SettledIsBuilt, CliReleaseSlot, AccessEnds
<1>5. SettledIsBuilt'
  BY DEF CliInv, Typed, States, Orders, SettledIsBuilt, UserIsTheClaims,
         OrderStands, KeysAreTheClaims, CliReleaseSlot, AccessEnds
<1> QED
  BY <1>1, <1>2, <1>3, <1>4, <1>5 DEF CliInv

LEMMA SignInKeeps == ASSUME CliInv, CliSignedIn PROVE CliInv'
<1>1. Typed'
  BY DEF CliInv, Typed, States, Someone, Orders, CliSignedIn
<1>2. CodesOnce'
  BY DEF CliInv, Typed, CodesOnce, AccessIsTheClaims, CliSignedIn
<1>3. UserIsTheClaims'
  BY DEF CliInv, Typed, States, Orders, UserIsTheClaims, OrderStands, CliSignedIn
<1>4. OrderStands'
  BY DEF CliInv, Typed, States, Orders, OrderStands, UserIsTheClaims, SettledIsBuilt, CliSignedIn
<1>5. SettledIsBuilt'
  BY DEF CliInv, Typed, States, Orders, SettledIsBuilt, UserIsTheClaims,
         OrderStands, KeysAreTheClaims, CliSignedIn
<1> QED
  BY <1>1, <1>2, <1>3, <1>4, <1>5 DEF CliInv

LEMMA NodeKeeps == ASSUME CliInv, CliSetNode PROVE CliInv'
<1>1. Typed'
  BY DEF CliInv, Typed, States, Someone, Orders, CliSetNode
<1>2. CodesOnce'
  BY DEF CliInv, Typed, CodesOnce, AccessIsTheClaims, CliSetNode
<1>3. UserIsTheClaims'
  BY DEF CliInv, Typed, States, Orders, UserIsTheClaims, OrderStands, CliSetNode
<1>4. OrderStands'
  BY DEF CliInv, Typed, States, Orders, OrderStands, UserIsTheClaims, SettledIsBuilt, CliSetNode
<1>5. SettledIsBuilt'
  BY DEF CliInv, Typed, States, Orders, SettledIsBuilt, UserIsTheClaims,
         OrderStands, KeysAreTheClaims, CliSetNode
<1> QED
  BY <1>1, <1>2, <1>3, <1>4, <1>5 DEF CliInv

LEMMA PairingKeeps == ASSUME CliInv, request_cli_pairing PROVE CliInv'
<1> DEFINE new == [code |-> cliCodes + 1, claim |-> cliClaim, who |-> cliHeldBy, late |-> FALSE]
<1>a. /\ cliPairings' = {p \in cliPairings : ~p.late} \cup {new}
      /\ cliState = "active" /\ cliCodes' = cliCodes + 1 /\ cliCodes \in Nat
      /\ UNCHANGED <<cliState, cliHeldBy, cliClaim, cliDevices, cliMade>>
  BY DEF request_cli_pairing, CliInv, Typed
<1>b. /\ new \in Codes /\ new.code = cliCodes + 1 /\ new.claim = cliClaim /\ new.who = cliHeldBy
  BY <1>a DEF CliInv, Typed, Codes
<1> HIDE DEF new
<1>c. \A p \in cliPairings' : p \in cliPairings \/ p = new
  BY <1>a
<1>1. Typed'
  BY <1>a, <1>b DEF CliInv, Typed, request_cli_pairing
<1>2. CodesOnce'
  <2>1. AccessIsTheClaims'
    BY <1>a, <1>b, <1>c DEF CliInv, CodesOnce, AccessIsTheClaims
  <2>2. cliMade' \subseteq 1..cliCodes' /\ \A d \in cliDevices' : d.code \in cliMade'
    BY <1>a DEF CliInv, CodesOnce
  <2>3. /\ \A p \in cliPairings' : p.code \in 1..cliCodes'
        /\ \A p, q \in cliPairings' : p.code = q.code => p = q
    BY <1>a, <1>b, <1>c DEF CliInv, CodesOnce
  <2> QED
    BY <2>1, <2>2, <2>3 DEF CodesOnce
<1>3. UserIsTheClaims'
  BY DEF CliInv, Typed, States, Orders, UserIsTheClaims, OrderStands, request_cli_pairing, Codes
<1>4. OrderStands'
  BY DEF CliInv, Typed, States, Orders, OrderStands, UserIsTheClaims, SettledIsBuilt, request_cli_pairing, Codes
<1>5. SettledIsBuilt'
  BY DEF CliInv, Typed, States, Orders, SettledIsBuilt, UserIsTheClaims,
         OrderStands, KeysAreTheClaims, request_cli_pairing, Codes
<1> QED
  BY <1>1, <1>2, <1>3, <1>4, <1>5 DEF CliInv

LEMMA TenMinutesKeep == ASSUME CliInv, TenMinutesPass PROVE CliInv'
<1>1. Typed'
  BY DEF CliInv, Typed, States, Someone, Orders, TenMinutesPass, Codes
<1>2. CodesOnce'
  <2>1. PICK p \in cliPairings : cliPairings' = (cliPairings \ {p}) \cup {[p EXCEPT !.late = TRUE]}
    BY DEF TenMinutesPass
  <2> DEFINE q == [p EXCEPT !.late = TRUE]
  <2>2. q.code = p.code /\ q.claim = p.claim /\ q.who = p.who
    BY DEF CliInv, Typed, Codes
  <2>3. UNCHANGED <<cliState, cliHeldBy, cliClaim, cliCodes, cliDevices, cliMade>>
    BY DEF TenMinutesPass, cliGhosts
  <2> HIDE DEF q
  <2>4. cliPairings' = (cliPairings \ {p}) \cup {q}
    BY <2>1 DEF q
  <2> QED
    BY <2>2, <2>3, <2>4 DEF CliInv, CodesOnce, AccessIsTheClaims
<1>3. UserIsTheClaims'
  BY DEF CliInv, Typed, States, Orders, UserIsTheClaims, OrderStands, TenMinutesPass, Codes
<1>4. OrderStands'
  BY DEF CliInv, Typed, States, Orders, OrderStands, UserIsTheClaims, SettledIsBuilt, TenMinutesPass, Codes
<1>5. SettledIsBuilt'
  BY DEF CliInv, Typed, States, Orders, SettledIsBuilt, UserIsTheClaims,
         OrderStands, KeysAreTheClaims, TenMinutesPass, Codes
<1> QED
  BY <1>1, <1>2, <1>3, <1>4, <1>5 DEF CliInv

LEMMA RegisterKeeps == ASSUME CliInv, NEW p \in cliPairings, register_cli_device(p) PROVE CliInv'
<1>1. Typed'
  BY DEF CliInv, Typed, States, Someone, Orders, register_cli_device, Registered, Usable, Codes, Keys
<1>2. CodesOnce'
  <2>1. CASE ~Usable(p)
    BY <2>1 DEF CliInv, CodesOnce, AccessIsTheClaims, register_cli_device
  <2>2. CASE Usable(p)
    <3> DEFINE new == [code |-> p.code, claim |-> cliClaim, who |-> p.who]
    <3>1. /\ cliPairings' = cliPairings \ {p} /\ cliDevices' = cliDevices \cup {new}
          /\ cliMade' = cliMade \cup {p.code}
          /\ UNCHANGED <<cliState, cliHeldBy, cliClaim, cliCodes>>
      BY <2>2 DEF register_cli_device, Registered
    <3>2. new.code = p.code /\ new.claim = cliClaim /\ new.who = cliHeldBy /\ cliState = "active"
      BY <2>2 DEF Usable
    <3> HIDE DEF new
    <3>3. \A d \in cliDevices' : d \in cliDevices \/ d = new
      BY <3>1
    <3>4. p.code \notin cliMade /\ p.code \in 1..cliCodes
      BY DEF CliInv, CodesOnce, AccessIsTheClaims
    <3>5. AccessIsTheClaims'
      BY <3>1, <3>2, <3>3, <3>4 DEF CliInv, CodesOnce, AccessIsTheClaims
    <3> QED
      BY <3>1, <3>2, <3>3, <3>4, <3>5 DEF CliInv, CodesOnce
  <2> QED
    BY <2>1, <2>2
<1>3. UserIsTheClaims'
  BY DEF CliInv, Typed, States, Orders, UserIsTheClaims, OrderStands, register_cli_device, Registered, Usable, Codes, Keys
<1>4. OrderStands'
  BY DEF CliInv, Typed, States, Orders, OrderStands, UserIsTheClaims, SettledIsBuilt, register_cli_device, Registered, Usable, Codes, Keys
<1>5. SettledIsBuilt'
  BY DEF CliInv, Typed, States, Orders, SettledIsBuilt, UserIsTheClaims,
         OrderStands, KeysAreTheClaims, register_cli_device, Registered, Usable, Codes, Keys
<1> QED
  BY <1>1, <1>2, <1>3, <1>4, <1>5 DEF CliInv

LEMMA RevokeKeeps == ASSUME CliInv, NEW d \in cliDevices, revoke_cli_device(d) PROVE CliInv'
<1>1. Typed'
  BY DEF CliInv, Typed, States, Someone, Orders, revoke_cli_device
<1>2. CodesOnce'
  BY DEF CliInv, Typed, CodesOnce, AccessIsTheClaims, revoke_cli_device
<1>3. UserIsTheClaims'
  BY DEF CliInv, Typed, States, Orders, UserIsTheClaims, OrderStands, revoke_cli_device
<1>4. OrderStands'
  BY DEF CliInv, Typed, States, Orders, OrderStands, UserIsTheClaims, SettledIsBuilt, revoke_cli_device
<1>5. SettledIsBuilt'
  BY DEF CliInv, Typed, States, Orders, SettledIsBuilt, UserIsTheClaims,
         OrderStands, KeysAreTheClaims, revoke_cli_device
<1> QED
  BY <1>1, <1>2, <1>3, <1>4, <1>5 DEF CliInv

LEMMA HeartbeatKeeps == ASSUME CliInv, CliHeartbeat PROVE CliInv'
<1>1. Typed'
  BY DEF CliInv, Typed, States, Someone, Orders, CliHeartbeat, CliHeard, AccessEnds, cli_public_keys, Keys
<1>2. CodesOnce'
  BY DEF CliInv, Typed, CodesOnce, AccessIsTheClaims, CliHeartbeat, CliHeard, AccessEnds, cli_public_keys, Keys
<1>3. UserIsTheClaims'
  BY DEF CliInv, Typed, States, Orders, UserIsTheClaims, OrderStands, CliHeartbeat, CliHeard, AccessEnds, cli_public_keys, Keys
<1>4. OrderStands'
  <2>1. PICK paid \in BOOLEAN :
          cliOrder' = [state |-> cliState', claim |-> cliClaim, keys |-> cli_public_keys(paid),
                       clean |-> TRUE]
    BY DEF CliHeartbeat
  <2>2. /\ cliOrder'.state = cliState' /\ cliOrder'.claim = cliClaim
        /\ cliOrder'.keys = cli_public_keys(paid)
    BY <2>1
  <2>3. cliOrder'.keys \subseteq cliDevices
    BY <2>2 DEF CliHeartbeat, CliHeard, AccessEnds, cli_public_keys
  <2>4. \A k \in cliOrder'.keys : k.claim = cliClaim
    BY <2>3 DEF CliInv, CodesOnce, AccessIsTheClaims
  <2>5. /\ cliClaim' = cliClaim /\ cliSettled' = cliSettled /\ cliStep' = "keys"
        /\ cliUser' = cliUser /\ cliBuilt' = cliBuilt
        /\ cliState' = "claiming" => cliState = "claiming" /\ ~(cliUser /\ cliBuilt = cliClaim)
    BY DEF CliHeartbeat, CliHeard
  <2>6. cliState' = "claiming" => cliSettled # cliClaim
    BY <2>5 DEF CliInv, SettledIsBuilt
  <2> QED
    BY <2>2, <2>4, <2>5, <2>6 DEF OrderStands, CliInv, Typed, SettledIsBuilt
<1>5. SettledIsBuilt'
  BY DEF CliInv, Typed, States, Orders, SettledIsBuilt, UserIsTheClaims,
         OrderStands, KeysAreTheClaims, CliHeartbeat, CliHeard, AccessEnds, cli_public_keys, Keys
<1> QED
  BY <1>1, <1>2, <1>3, <1>4, <1>5 DEF CliInv

LEMMA FirstKeysKeep == ASSUME CliInv, ConvergeFirst PROVE CliInv'
<1>1. Typed'
  BY DEF CliInv, Typed, States, Someone, Orders, ConvergeFirst, converge_ssh_access
<1>2. CodesOnce'
  BY DEF CliInv, Typed, CodesOnce, AccessIsTheClaims, ConvergeFirst, converge_ssh_access
<1>3. UserIsTheClaims'
  BY DEF CliInv, Typed, States, Orders, UserIsTheClaims, OrderStands, ConvergeFirst, converge_ssh_access
<1>4. OrderStands'
  BY DEF CliInv, Typed, States, Orders, OrderStands, UserIsTheClaims, SettledIsBuilt, ConvergeFirst, converge_ssh_access
<1>5. SettledIsBuilt'
  BY DEF CliInv, Typed, States, Orders, SettledIsBuilt, UserIsTheClaims,
         OrderStands, KeysAreTheClaims, ConvergeFirst, converge_ssh_access
<1> QED
  BY <1>1, <1>2, <1>3, <1>4, <1>5 DEF CliInv

LEMMA ActKeeps == ASSUME CliInv, cli_act_on_slots PROVE CliInv'
<1>0. /\ cliStep = "act" /\ cliStep' = "again" /\ cliOrder \in Orders /\ cliClaim \in Nat
      /\ UNCHANGED <<cliServer, cliStreams, cliKeyFile, cliOrder, cliSettled, cliGhosts>>
  BY DEF cli_act_on_slots, CliInv, Typed
<1>a. cliUser' \in BOOLEAN
  BY DEF cli_act_on_slots, CliInv, Typed
<1>1. Typed'
  BY <1>0, <1>a DEF CliInv, Typed
<1>2. CodesOnce'
  BY <1>0 DEF CliInv, CodesOnce, AccessIsTheClaims
<1>3. CASE cliOrder.state = "claiming" /\ cliUser' = TRUE /\ cliBuilt' = cliOrder.claim
  <2>1. cliOrder.claim = cliClaim /\ cliState \in {"claiming", "releasing"} /\ cliSettled # cliClaim
    BY <1>0, <1>3 DEF CliInv, OrderStands
  <2>2. UserIsTheClaims'
    BY <1>0, <1>3, <2>1 DEF CliInv, UserIsTheClaims
  <2>3. OrderStands'
    BY <1>0, <1>3, <2>1 DEF CliInv, OrderStands
  <2>4. SettledIsBuilt'
    BY <1>0, <2>1 DEF CliInv, SettledIsBuilt, KeysAreTheClaims
  <2> QED
    BY <1>1, <1>2, <2>2, <2>3, <2>4 DEF CliInv
<1>4. CASE cliOrder.state = "releasing" /\ cliUser' \in {FALSE, cliUser}
  <2>1. cliState = "releasing"
    BY <1>0, <1>4 DEF CliInv, OrderStands
  <2>2. UserIsTheClaims'
    BY <1>0, <2>1 DEF CliInv, UserIsTheClaims
  <2>3. OrderStands'
    BY <1>0, <1>4 DEF CliInv, OrderStands
  <2>a. cliUser' => cliUser
    BY <1>4
  <2>4. SettledIsBuilt'
    BY <1>0, <2>1, <2>a DEF CliInv, SettledIsBuilt, KeysAreTheClaims
  <2> QED
    BY <1>1, <1>2, <2>2, <2>3, <2>4 DEF CliInv
<1>5. CASE cliOrder.state \notin {"claiming", "releasing"} /\ UNCHANGED <<cliUser, cliBuilt>>
  BY <1>0, <1>1, <1>2, <1>5 DEF CliInv, UserIsTheClaims, OrderStands, SettledIsBuilt, KeysAreTheClaims
<1> QED
  BY <1>3, <1>4, <1>5 DEF cli_act_on_slots

LEMMA AgainKeeps == ASSUME CliInv, ConvergeAgainAndSave PROVE CliInv'
<1>1. Typed'
  BY DEF CliInv, Typed, States, Someone, Orders, ConvergeAgainAndSave, KeysAgain, converge_ssh_access
<1>2. CodesOnce'
  BY DEF CliInv, Typed, CodesOnce, AccessIsTheClaims, ConvergeAgainAndSave, KeysAgain, converge_ssh_access
<1>3. UserIsTheClaims'
  BY DEF CliInv, Typed, States, Orders, UserIsTheClaims, OrderStands, ConvergeAgainAndSave, KeysAgain, converge_ssh_access
<1>4. OrderStands'
  BY DEF CliInv, Typed, States, Orders, OrderStands, UserIsTheClaims, SettledIsBuilt, ConvergeAgainAndSave, KeysAgain, converge_ssh_access
<1>5. SettledIsBuilt'
  BY DEF CliInv, Typed, States, Orders, SettledIsBuilt, UserIsTheClaims,
         OrderStands, KeysAreTheClaims, ConvergeAgainAndSave, KeysAgain, converge_ssh_access
<1> QED
  BY <1>1, <1>2, <1>3, <1>4, <1>5 DEF CliInv

LEMMA CutKeeps == ASSUME CliInv, RunCut PROVE CliInv'
<1>1. Typed'
  BY DEF CliInv, Typed, States, Someone, Orders, RunCut
<1>2. CodesOnce'
  BY DEF CliInv, Typed, CodesOnce, AccessIsTheClaims, RunCut
<1>3. UserIsTheClaims'
  BY DEF CliInv, Typed, States, Orders, UserIsTheClaims, OrderStands, RunCut
<1>4. OrderStands'
  BY DEF CliInv, Typed, States, Orders, OrderStands, UserIsTheClaims, SettledIsBuilt, RunCut
<1>5. SettledIsBuilt'
  BY DEF CliInv, Typed, States, Orders, SettledIsBuilt, UserIsTheClaims,
         OrderStands, KeysAreTheClaims, RunCut
<1> QED
  BY <1>1, <1>2, <1>3, <1>4, <1>5 DEF CliInv

(* The broker only reads who may come in.                                   *)
LEMMA QuietKeeps == ASSUME CliInv, UNCHANGED <<cliServer, cliMachine, cliGhosts>> PROVE CliInv'
BY DEF CliInv, Typed, CodesOnce, AccessIsTheClaims, UserIsTheClaims, OrderStands, SettledIsBuilt,
       KeysAreTheClaims

LEMMA NextKeeps == ASSUME CliInv, [CliNext]_cliVars PROVE CliInv'
<1>1. CASE \E d \in cliDevices : resolve_cli_device(d)
  BY <1>1, QuietKeeps DEF resolve_cli_device
<1>2. CASE \E n \in 1..cliCodes : Dialled(n) \/ StreamCut(n)
  BY <1>2, QuietKeeps DEF Dialled, StreamCut
<1>3. CASE StreamEnds
  BY <1>3, QuietKeeps DEF StreamEnds
<1>4. CASE UNCHANGED cliVars
  BY <1>4, QuietKeeps DEF cliVars
<1> QED
  BY <1>1, <1>2, <1>3, <1>4, ClaimKeeps, ReleaseKeeps, SignInKeeps, NodeKeeps, PairingKeeps,
     TenMinutesKeep, RegisterKeeps, RevokeKeeps, HeartbeatKeeps, FirstKeysKeep, ActKeeps,
     AgainKeeps, CutKeeps DEF CliNext

(* Nobody but the holder of the present claim gets in, by a code, a device  *)
(* or the key file, whatever wipe was cut short or write failed before      *)
(* (register_cli_device, release_slot, converge_ssh_access).                *)
THEOREM CliSoundAlways == CliSpec => []CliSound
<1>1. CliInv => CliSound
  BY DEF CliInv, CodesOnce, SettledIsBuilt, CliSound
<1> QED
  BY <1>1, InitKeeps, NextKeeps, PTL DEF CliSpec

-----------------------------------------------------------------------------
(* Updates: the inductive invariant.                                        *)

AnswerRow == [at : Nat, state : {"none", "done", "failed"}]

(* Notes have their parts; an answer noted, or told, is one to a request.   *)
NotesOf(n) == n = [answer |-> n.answer, upgrade |-> n.upgrade, channel |-> n.channel]
AnswerTrue(a) ==
  /\ a \in AnswerRow
  /\ a.at # 0 => a.state # "none"
  /\ a.at # 0 /\ a.state = "done" => a.at \in doneFor

UpdKept ==
  /\ asks \in 0..MaxAsks /\ lost \in Nat /\ pc \in {"post", "reconcile", "save"}
  /\ kind \in {"machine", "owner"}
  /\ updRow \in [state : {"none", "pending", "done", "failed"}, at : 0..asks]
  /\ updRow.state = "pending" => updRow.at # 0
  /\ told.ask \in 0..asks
  /\ NotesOf(saved) /\ NotesOf(draft)
  /\ AnswerTrue(saved.answer) /\ AnswerTrue(draft.answer) /\ AnswerTrue(said)
  /\ runsFor \in [1..MaxAsks -> Nat]
  /\ \A r \in 1..MaxAsks : runsFor[r] # 0 => r <= asks
  /\ DoneIsForTheAsk

(* A request that had all the runs it may have is answered in the notes, as *)
(* long as it may be asked for again.                                       *)
AskOver(r) == ~(updRow.state = "pending" /\ updRow.at = r) /\ told.ask # r
Noted_as_answered(r) ==
  /\ told.ask = r
  /\ pc = "save" => draft.answer.at = r
  /\ pc # "save" => saved.answer.at = r
  /\ pc = "post" => said.at = r
RunsKept ==
  \A r \in 1..MaxAsks :
    /\ runsFor[r] <= 1 + lost
    /\ runsFor[r] = 1 + lost => AskOver(r) \/ Noted_as_answered(r)

UpdInv == UpdKept /\ RunsKept

LEMMA UpdInitSound == UpdInit => UpdInv
<1> SUFFICES ASSUME UpdInit PROVE UpdInv
  OBVIOUS
<1>1. UpdKept
  BY UpdatesAssumption DEF UpdInit, UpdKept, NotesOf, AnswerTrue, AnswerRow, NoNotes, NoAnswer, NoTold,
     DoneIsForTheAsk
<1>2. RunsKept
  BY DEF UpdInit, RunsKept
<1> QED
  BY <1>1, <1>2 DEF UpdInv

(* What a run keeps of the answer in the notes it starts from.              *)
LEMMA AnswerKept ==
  ASSUME NEW n, NotesOf(n)
  PROVE  LET m == settle_update(prune_state(n)) IN
         /\ NotesOf(m)
         /\ m.answer = IF n.answer.at = told.ask THEN n.answer ELSE NoAnswer
         /\ update_asked(m) = IF m.answer.at = told.ask THEN 0 ELSE told.ask
<1> DEFINE k == prune_state(n)
           m == settle_update(k)
<1>1. n = [answer |-> n.answer, upgrade |-> n.upgrade, channel |-> n.channel]
  BY DEF NotesOf
<1>2. k = n \/ k = [n EXCEPT !.upgrade = NoUpgrade]
  BY DEF prune_state
<1>3. k = [answer |-> n.answer, upgrade |-> k.upgrade, channel |-> k.channel]
  <2>1. [n EXCEPT !.upgrade = NoUpgrade] = [answer |-> n.answer, upgrade |-> NoUpgrade, channel |-> n.channel]
    BY <1>1
  <2> QED
    BY <1>1, <1>2, <2>1
<1> HIDE DEF k
<1>4. [k EXCEPT !.answer = NoAnswer] = [answer |-> NoAnswer, upgrade |-> k.upgrade, channel |-> k.channel]
  BY <1>3
<1>5. m = IF n.answer.at = told.ask THEN k ELSE [answer |-> NoAnswer, upgrade |-> k.upgrade, channel |-> k.channel]
  BY <1>3, <1>4 DEF settle_update
<1> QED
  BY <1>3, <1>5 DEF NotesOf, update_asked, k

LEMMA AnswerNoted ==
  ASSUME NEW n, NotesOf(n), NEW ask, NEW done
  PROVE  /\ NotesOf(Answered(n, ask, done))
         /\ ask = 0 => Answered(n, ask, done).answer = n.answer
         /\ ask # 0 => Answered(n, ask, done).answer = update_answer(ask, done)
  BY DEF NotesOf, Answered

LEMMA RunNoted ==
  ASSUME NEW n, NotesOf(n), NEW ok, NEW landed
  PROVE  NotesOf(Noted(n, ok, landed)) /\ Noted(n, ok, landed).answer = n.answer
<1> DEFINE up == [to |-> told.target, ok |-> ok]
           moved == IF ok /\ told.target \in Channels
                    THEN [target |-> told.target, resolved |-> landed, number |-> told.number]
                    ELSE n.channel
           m == [n EXCEPT !.upgrade = up, !.channel = moved]
<1>1. n = [answer |-> n.answer, upgrade |-> n.upgrade, channel |-> n.channel]
  BY DEF NotesOf
<1>2. Noted(n, ok, landed) = m
  BY DEF Noted
<1> HIDE DEF up, moved
<1> DEFINE k == [n EXCEPT !.upgrade = up]
<1>3. m = [k EXCEPT !.channel = moved]
  OBVIOUS
<1>4. k = [answer |-> n.answer, upgrade |-> up, channel |-> n.channel]
  BY <1>1
<1> HIDE DEF m, k
<1>5. m = [answer |-> n.answer, upgrade |-> up, channel |-> moved]
  BY <1>3, <1>4
<1> QED
  BY <1>2, <1>5 DEF NotesOf

(* A step of the server or of the world, that leaves the slot alone and     *)
(* makes no request pending again.                                          *)
LEMMA ServerKeeps ==
  ASSUME UpdInv,
         UNCHANGED <<updSlot, lost, runsFor, doneFor, kind>>,
         asks' \in asks..MaxAsks, asks' \in Nat,
         updRow' \in [state : {"none", "pending", "done", "failed"}, at : 0..asks'],
         updRow'.state = "pending" => updRow' = updRow \/ (updRow'.at = asks + 1),
         updRow'.state = "done" => updRow' = updRow
  PROVE  UpdInv'
<1>1. UNCHANGED <<installed, saved, pc, told, draft, said, lost, runsFor, doneFor, kind>>
  BY DEF updSlot
<1>2. /\ asks \in Nat /\ UpdKept /\ RunsKept
      /\ updRow.state = "pending" => updRow.at # 0
  BY UpdatesAssumption DEF UpdInv, UpdKept
<1>3. UpdKept'
  BY <1>1, <1>2 DEF UpdKept, NotesOf, AnswerTrue, DoneIsForTheAsk
<1>4. ASSUME NEW r \in 1..MaxAsks, runsFor[r] = 1 + lost PROVE r <= asks
  BY <1>4 DEF UpdInv, UpdKept
<1>5. ASSUME NEW r \in 1..MaxAsks, AskOver(r), r <= asks PROVE AskOver(r)'
  BY <1>1, <1>2, <1>5 DEF AskOver
<1>6. ASSUME NEW r \in 1..MaxAsks, Noted_as_answered(r) PROVE Noted_as_answered(r)'
  BY <1>1, <1>6 DEF Noted_as_answered
<1>7. RunsKept'
  BY <1>1, <1>2, <1>4, <1>5, <1>6 DEF RunsKept
<1> QED
  BY <1>3, <1>7 DEF UpdInv

LEMMA ServerStepKeeps ==
  ASSUME UpdInv,
         \/ request_claude_update \/ choose_stable \/ UpdSignInStartsOrEnds
         \/ \E v \in Targets : set_pinned_version(v)
         \/ \E c \in Channels : Release(c)
         \/ refresh \/ expire_claude_updates
  PROVE  UpdInv'
<1>1. /\ asks \in 0..MaxAsks /\ asks \in Nat /\ MaxAsks \in Nat
      /\ updRow \in [state : {"none", "pending", "done", "failed"}, at : 0..asks]
  BY UpdatesAssumption DEF UpdInv, UpdKept
<1>2. CASE request_claude_update
  <2>1. /\ asks' = asks + 1 /\ asks < MaxAsks
        /\ updRow' = [state |-> "pending", at |-> asks + 1]
        /\ UNCHANGED <<updSlot, lost, runsFor, doneFor, kind>>
    BY <1>2 DEF request_claude_update
  <2> QED
    BY <1>1, <2>1, ServerKeeps
<1>3. CASE choose_stable
  <2>1. /\ updRow' = [state |-> "none", at |-> 0]
        /\ UNCHANGED <<updSlot, asks, lost, runsFor, doneFor, kind>>
    BY <1>3 DEF choose_stable
  <2> QED
    BY <1>1, <2>1, ServerKeeps
<1>4. CASE expire_claude_updates
  <2>1. /\ UNCHANGED <<updSlot, asks, lost, runsFor, doneFor, kind>>
        /\ updRow' \in {[updRow EXCEPT !.state = "failed"], [state |-> "none", at |-> 0], updRow}
    BY <1>4 DEF expire_claude_updates, updGhosts
  <2>2. /\ [updRow EXCEPT !.state = "failed"] \in [state : {"none", "pending", "done", "failed"}, at : 0..asks]
        /\ [updRow EXCEPT !.state = "failed"].state = "failed"
    BY <1>1
  <2> QED
    BY <1>1, <2>1, <2>2, ServerKeeps
<1>5. CASE \/ UpdSignInStartsOrEnds \/ refresh
           \/ \E v \in Targets : set_pinned_version(v)
           \/ \E c \in Channels : Release(c)
  <2>1. UNCHANGED <<updRow, updSlot, asks, lost, runsFor, doneFor, kind>>
    BY <1>5 DEF UpdSignInStartsOrEnds, refresh, set_pinned_version, Release, updServer, updGhosts
  <2> QED
    BY <1>1, <2>1, ServerKeeps
<1> QED
  BY <1>2, <1>3, <1>4, <1>5

(* What an answer makes of the row, and what is asked then.                 *)
LEMMA RecordIs ==
  ASSUME UpdInv, NEW a \in AnswerRow, AnswerTrue(a)
  PROVE  LET news == record_claude_update(a) IN
         /\ news \in [state : {"none", "pending", "done", "failed"}, at : 0..asks]
         /\ news.at = updRow.at
         /\ news.state = "pending" => news = updRow /\ ~(a.at # 0 /\ a.at = news.at)
         /\ news.state = "done" => news.at \in doneFor
<1>1. /\ updRow \in [state : {"none", "pending", "done", "failed"}, at : 0..asks]
      /\ updRow.state = "done" => updRow.at \in doneFor
  BY DEF UpdInv, UpdKept, DoneIsForTheAsk
<1>2. /\ [updRow EXCEPT !.state = a.state] \in [state : {"none", "pending", "done", "failed"}, at : 0..asks]
      /\ [updRow EXCEPT !.state = a.state].at = updRow.at
      /\ [updRow EXCEPT !.state = a.state].state = a.state
  BY <1>1 DEF AnswerRow
<1>3. a.state # "pending" /\ (a.at # 0 /\ a.state = "done" => a.at \in doneFor)
  BY DEF AnswerRow, AnswerTrue
<1> QED
  BY <1>1, <1>2, <1>3 DEF record_claude_update

LEMMA PostKeeps == ASSUME UpdInv, Post PROVE UpdInv'
<1>1. /\ pc = "post" /\ pc' = "reconcile"
      /\ updRow' = record_claude_update(said)
      /\ told' = _version_fields(updRow')
      /\ UNCHANGED <<kind, saved, draft, said, asks, lost, runsFor, doneFor>>
  BY DEF Post, updGhosts
<1>2. /\ updRow' \in [state : {"none", "pending", "done", "failed"}, at : 0..asks]
      /\ updRow'.at = updRow.at
      /\ updRow'.state = "pending" => updRow' = updRow /\ ~(said.at # 0 /\ said.at = updRow'.at)
      /\ updRow'.state = "done" => updRow'.at \in doneFor
  BY <1>1, RecordIs DEF UpdInv, UpdKept, AnswerTrue
<1>3. asks \in Nat /\ told'.ask \in {0, updRow'.at} /\ (told'.ask # 0 => updRow'.state = "pending")
  BY <1>1, UpdatesAssumption DEF _version_fields, _update_block, UpdInv, UpdKept
<1>4. UpdKept'
  BY <1>1, <1>2, <1>3 DEF UpdInv, UpdKept, NotesOf, AnswerTrue, DoneIsForTheAsk
<1>5. ASSUME NEW r \in 1..MaxAsks, AskOver(r) \/ Noted_as_answered(r) PROVE AskOver(r)'
  BY <1>1, <1>2, <1>3, <1>5 DEF AskOver, Noted_as_answered
<1>6. RunsKept'
  BY <1>1, <1>5 DEF UpdInv, RunsKept
<1> QED
  BY <1>4, <1>6 DEF UpdInv

LEMMA PostLostKeeps == ASSUME UpdInv, PostLost PROVE UpdInv'
<1>1. /\ pc = "post"
      /\ updRow' \in {updRow, record_claude_update(said)}
      /\ \/ pc' = "reconcile" /\ said' = said
         \/ pc' = pc /\ said' = saved.answer
      /\ UNCHANGED <<kind, saved, told, draft, asks, lost, runsFor, doneFor>>
  BY DEF PostLost
<1>2. /\ updRow' \in [state : {"none", "pending", "done", "failed"}, at : 0..asks]
      /\ updRow'.at = updRow.at
      /\ updRow'.state = "pending" => updRow' = updRow
      /\ updRow'.state = "done" => updRow'.at \in doneFor
  <2>1. CASE updRow' = updRow
    BY <2>1 DEF UpdInv, UpdKept, DoneIsForTheAsk
  <2>2. CASE updRow' = record_claude_update(said)
    BY <2>2, RecordIs DEF UpdInv, UpdKept, AnswerTrue
  <2> QED
    BY <1>1, <2>1, <2>2
<1>3. UpdKept'
  BY <1>1, <1>2 DEF UpdInv, UpdKept, NotesOf, AnswerTrue, DoneIsForTheAsk
<1>4. ASSUME NEW r \in 1..MaxAsks, AskOver(r) PROVE AskOver(r)'
  BY <1>1, <1>2, <1>4 DEF AskOver
<1>5. ASSUME NEW r \in 1..MaxAsks, Noted_as_answered(r) PROVE Noted_as_answered(r)'
  BY <1>1, <1>5 DEF Noted_as_answered
<1>6. RunsKept'
  BY <1>1, <1>4, <1>5 DEF UpdInv, RunsKept
<1> QED
  BY <1>3, <1>6 DEF UpdInv

(* A run of the agent, up to its notes: an installer run is for a request   *)
(* that may still have one.                                                 *)
LEMMA RunKeeps ==
  ASSUME UpdInv, LeaveSignIn \/ RunNothing \/ RunInstaller PROVE UpdInv'
<1> DEFINE n == settle_update(prune_state(saved))
           ask == update_asked(n)
<1>1. /\ NotesOf(n)
      /\ n.answer = IF saved.answer.at = told.ask THEN saved.answer ELSE NoAnswer
      /\ ask = IF n.answer.at = told.ask THEN 0 ELSE told.ask
  BY AnswerKept DEF UpdInv, UpdKept
<1> HIDE DEF n
<1>2. /\ pc = "reconcile" /\ pc' = "save"
      /\ UNCHANGED <<kind, updRow, saved, told, said, asks, lost>>
      /\ \/ draft' = n /\ UNCHANGED <<runsFor, doneFor>>
         \/ \E done \in BOOLEAN : \E m :
              /\ NotesOf(m) /\ m.answer = n.answer
              /\ draft' = Answered(m, ask, done)
              /\ doneFor' = doneFor \cup IF ask # 0 /\ done THEN {ask} ELSE {}
              /\ \/ runsFor' = runsFor
                 \/ ask # 0 /\ runsFor' = [runsFor EXCEPT ![ask] = @ + 1]
  <2>1. CASE LeaveSignIn
    BY <2>1 DEF LeaveSignIn, n, updServer, updGhosts
  <2>2. CASE RunNothing
    <3>1. PICK done \in BOOLEAN : /\ draft' = Answered(n, ask, done)
                                  /\ doneFor' = doneFor \cup IF ask # 0 /\ done THEN {ask} ELSE {}
      BY <2>2 DEF RunNothing, n
    <3>2. /\ pc = "reconcile" /\ pc' = "save"
          /\ UNCHANGED <<kind, updRow, saved, told, said, asks, lost, runsFor>>
      BY <2>2 DEF RunNothing, updServer
    <3> HIDE DEF ask
    <3> QED
      BY <1>1, <3>1, <3>2
  <2>3. CASE RunInstaller
    <3>1. PICK done \in BOOLEAN :
            /\ draft' = Answered(Noted(n, done, installed'), ask, done)
            /\ runsFor' = IF ask = 0 THEN runsFor ELSE [runsFor EXCEPT ![ask] = @ + 1]
            /\ doneFor' = doneFor \cup IF ask # 0 /\ done THEN {ask} ELSE {}
      BY <2>3 DEF RunInstaller, n
    <3>2. /\ pc = "reconcile" /\ pc' = "save"
          /\ UNCHANGED <<kind, updRow, saved, told, said, asks, lost>>
      BY <2>3 DEF RunInstaller, updServer
    <3> DEFINE m == Noted(n, done, installed')
    <3>3. NotesOf(m) /\ m.answer = n.answer
      BY <1>1, RunNoted
    <3> HIDE DEF ask, m
    <3>4. draft' = Answered(m, ask, done)
      BY <3>1 DEF m
    <3> QED
      BY <3>1, <3>2, <3>3, <3>4
  <2> QED
    BY <2>1, <2>2, <2>3
<1>3. /\ told.ask \in 0..asks /\ asks \in 0..MaxAsks /\ MaxAsks \in Nat
      /\ AnswerTrue(saved.answer)
  BY UpdatesAssumption DEF UpdInv, UpdKept
<1>4. /\ ask \in {0, told.ask}
      /\ AnswerTrue(n.answer)
      /\ saved.answer.at = told.ask => ask = 0 /\ n.answer.at = told.ask
  BY <1>1, <1>3 DEF AnswerTrue, AnswerRow, NoAnswer
<1> HIDE DEF ask
<1>5. /\ NotesOf(draft') /\ AnswerTrue(draft.answer)'
      /\ doneFor \subseteq doneFor'
      /\ runsFor' = runsFor \/ (ask # 0 /\ runsFor' = [runsFor EXCEPT ![ask] = @ + 1])
      /\ runsFor' # runsFor => draft'.answer.at = ask
      /\ ask = 0 => draft'.answer.at = n.answer.at
  <2>1. CASE draft' = n /\ UNCHANGED <<runsFor, doneFor>>
    BY <2>1, <1>1, <1>4 DEF AnswerTrue
  <2>2. ASSUME NEW done \in BOOLEAN, NEW m, NotesOf(m), m.answer = n.answer,
               draft' = Answered(m, ask, done),
               doneFor' = doneFor \cup IF ask # 0 /\ done THEN {ask} ELSE {}
        PROVE  /\ NotesOf(draft') /\ AnswerTrue(draft.answer)' /\ doneFor \subseteq doneFor'
               /\ ask # 0 => draft'.answer.at = ask
               /\ ask = 0 => draft'.answer.at = n.answer.at
    <3>1. /\ NotesOf(draft')
          /\ ask = 0 => draft'.answer = n.answer
          /\ ask # 0 => draft'.answer = update_answer(ask, done)
      BY <2>2, AnswerNoted
    <3>2. CASE ask = 0
      BY <2>2, <3>1, <3>2, <1>4 DEF AnswerTrue
    <3>3. CASE ask # 0
      <4>1. draft'.answer = [at |-> ask, state |-> IF done THEN "done" ELSE "failed"]
        BY <3>1, <3>3 DEF update_answer
      <4> QED
        BY <3>1, <3>3, <4>1, <2>2, <1>3, <1>4 DEF AnswerTrue, AnswerRow
    <3> QED
      BY <3>2, <3>3
  <2> QED
    BY <2>1, <2>2, <1>2
<1>6. runsFor \in [1..MaxAsks -> Nat] /\ lost \in Nat /\ RunsKept
  BY DEF UpdInv, UpdKept
<1>7. ask # 0 => ask \in 1..MaxAsks /\ ask <= asks /\ runsFor[ask] <= lost
  <2> SUFFICES ASSUME ask # 0 PROVE ask \in 1..MaxAsks /\ ask <= asks /\ runsFor[ask] <= lost
    OBVIOUS
  <2>1. ask \in 1..MaxAsks /\ ask <= asks /\ told.ask = ask
    BY <1>3, <1>4
  <2>2. ~AskOver(ask) /\ ~Noted_as_answered(ask)
    BY <2>1, <1>2, <1>4 DEF AskOver, Noted_as_answered
  <2>3. runsFor[ask] <= 1 + lost /\ runsFor[ask] # 1 + lost
    BY <2>1, <2>2, <1>6 DEF RunsKept
  <2> QED
    BY <2>1, <2>3, <1>6
<1>8. UpdKept'
  <2>1. runsFor' \in [1..MaxAsks -> Nat] /\ \A r \in 1..MaxAsks : runsFor'[r] # 0 => r <= asks
    <3>1. \A r \in 1..MaxAsks : runsFor[r] # 0 => r <= asks
      BY DEF UpdInv, UpdKept
    <3>2. CASE runsFor' = runsFor
      BY <3>1, <3>2, <1>6
    <3>3. CASE ask # 0 /\ runsFor' = [runsFor EXCEPT ![ask] = @ + 1]
      BY <3>1, <3>3, <1>6, <1>7
    <3> QED
      BY <3>2, <3>3, <1>5
  <2>2. AnswerTrue(saved.answer)' /\ AnswerTrue(said)'
    BY <1>2, <1>5 DEF UpdInv, UpdKept, AnswerTrue
  <2>3. DoneIsForTheAsk' /\ NotesOf(saved)'
    BY <1>2, <1>5 DEF UpdInv, UpdKept, DoneIsForTheAsk, NotesOf
  <2>4. NotesOf(draft)'
    BY <1>5 DEF NotesOf
  <2> QED
    BY <2>1, <2>2, <2>3, <2>4, <1>2, <1>5 DEF UpdInv, UpdKept
<1>9. ASSUME NEW r \in 1..MaxAsks
      PROVE  /\ runsFor'[r] <= 1 + lost
             /\ runsFor'[r] = 1 + lost => AskOver(r)' \/ Noted_as_answered(r)'
  <2>1. CASE runsFor'[r] # runsFor[r]
    <3>1. ask # 0 /\ r = ask /\ runsFor'[r] = runsFor[r] + 1 /\ draft'.answer.at = r
      BY <2>1, <1>5, <1>6, <1>7
    <3>2. told.ask = r
      BY <3>1, <1>4
    <3> QED
      BY <3>1, <3>2, <1>2, <1>6, <1>7 DEF Noted_as_answered
  <2>2. CASE runsFor'[r] = runsFor[r]
    <3>1. AskOver(r) => AskOver(r)'
      BY <1>2 DEF AskOver
    <3>2. Noted_as_answered(r) => Noted_as_answered(r)'
      BY <1>2, <1>4, <1>5 DEF Noted_as_answered
    <3> QED
      BY <2>2, <3>1, <3>2, <1>6 DEF RunsKept
  <2> QED
    BY <2>1, <2>2
<1> QED
  BY <1>2, <1>8, <1>9 DEF UpdInv, RunsKept

(* The notes written, or lost with the run.                                 *)
LEMMA SaveKeeps == ASSUME UpdInv, write_state \/ UpdKilled PROVE UpdInv'
<1>1. /\ pc = "save" /\ pc' = "post" /\ draft' = NoNotes
      /\ UNCHANGED <<kind, updRow, told, asks, runsFor, doneFor>>
      /\ \/ saved' = draft /\ lost' = lost /\ said' = draft.answer
         \/ saved' = saved /\ lost' = lost + 1 /\ said' \in {draft.answer, saved.answer, NoAnswer}
  BY DEF write_state, UpdKilled, updServer
<1>2. lost \in Nat /\ lost' \in Nat /\ runsFor \in [1..MaxAsks -> Nat] /\ RunsKept
  BY <1>1 DEF UpdInv, UpdKept
<1>3. AnswerTrue(NoAnswer) /\ NotesOf(NoNotes) /\ NoNotes.answer = NoAnswer
  BY DEF AnswerTrue, NoAnswer, AnswerRow, NotesOf, NoNotes
<1>4. UpdKept'
  <2>1. NotesOf(saved') /\ NotesOf(draft')
    BY <1>1, <1>3 DEF UpdInv, UpdKept
  <2>2. AnswerTrue(saved.answer)' /\ AnswerTrue(draft.answer)' /\ AnswerTrue(said)'
    BY <1>1, <1>3 DEF UpdInv, UpdKept, AnswerTrue
  <2> QED
    BY <1>1, <1>2, <2>1, <2>2 DEF UpdInv, UpdKept, DoneIsForTheAsk, NotesOf
<1>5. ASSUME NEW r \in 1..MaxAsks
      PROVE  /\ runsFor[r] <= 1 + lost'
             /\ runsFor[r] = 1 + lost' => AskOver(r)' \/ Noted_as_answered(r)'
  <2>1. CASE lost' = lost + 1
    BY <2>1, <1>2 DEF RunsKept
  <2>2. CASE saved' = draft /\ lost' = lost /\ said' = draft.answer
    <3>1. AskOver(r) => AskOver(r)'
      BY <1>1 DEF AskOver
    <3>2. Noted_as_answered(r) => Noted_as_answered(r)'
      BY <1>1, <2>2 DEF Noted_as_answered
    <3> QED
      BY <2>2, <3>1, <3>2, <1>2 DEF RunsKept
  <2> QED
    BY <1>1, <2>1, <2>2
<1> QED
  BY <1>1, <1>4, <1>5 DEF UpdInv, RunsKept

LEMMA UpdStepKeeps == ASSUME UpdInv, UpdNext \/ UNCHANGED updVars PROVE UpdInv'
<1>1. CASE UNCHANGED updVars
  <2>1. UNCHANGED <<updRow, updSlot, asks, lost, runsFor, doneFor, kind>>
    BY <1>1 DEF updVars, updServer, updGhosts
  <2>2. /\ asks \in 0..MaxAsks /\ MaxAsks \in Nat
        /\ updRow \in [state : {"none", "pending", "done", "failed"}, at : 0..asks]
    BY UpdatesAssumption DEF UpdInv, UpdKept
  <2> QED
    BY <2>1, <2>2, ServerKeeps
<1> QED
  BY <1>1, ServerStepKeeps, PostKeeps, PostLostKeeps, RunKeeps, SaveKeeps DEF UpdNext

LEMMA UpdInvGivesSound == UpdInv => UpdatesSound
  BY DEF UpdInv, UpdKept, RunsKept, UpdatesSound, OneRunAnAsk

-----------------------------------------------------------------------------
(* Renewal: the inductive invariant.                                        *)

RnPlaces == {"idle", "refuse", "locked", "before", "launch", "screen", "settle", "compat",
             "probe", "open", "usage", "verdict"}

SeenRow == [asked : BOOLEAN, stamp : Stamps, build : Builds, attempted : BOOLEAN,
            outcome : {"none", "rejected", "unconfirmed", "usage"}]

RnNote == [state : {"none", "current", "renewed", "retrying", "blocked"},
           reason : {"none", "rejected", "unconfirmed", "transition"},
           stamp : Stamps, waits : BOOLEAN]

RnTyped ==
  /\ stamp \in Stamps /\ build \in Builds /\ at \in RnPlaces
  /\ own \in BOOLEAN /\ due \in BOOLEAN /\ signing \in BOOLEAN
  /\ renewal \in RnNote
  /\ check = [state |-> check.state, reason |-> check.reason, build |-> check.build, waits |-> check.waits]
  /\ seen \in SeenRow
  /\ session \in [stamp : Stamps, build : Builds, open : BOOLEAN]
  /\ tried \in [Stamps -> Nat] /\ rejected \subseteq Stamps /\ proved \subseteq Builds

(* What was seen is no newer than what there is now.                        *)
SeenBefore ==
  /\ at \in {"launch", "screen", "settle"} => seen.stamp <= stamp
  /\ at = "screen" => seen.stamp <= session.stamp /\ session.stamp <= stamp
  /\ at \in {"probe", "open", "usage", "verdict"} => seen.build <= build
  /\ at = "usage" => seen.build <= session.build /\ session.build <= build

(* A rejection, noted or about to be, is of a file that was turned away.    *)
RejectionsTrue ==
  /\ RejectedIsThatFile
  /\ at = "refuse" => stamp \in rejected
  /\ at = "settle" /\ seen.outcome = "rejected" =>
       \E s \in rejected : seen.stamp <= s /\ s <= stamp

(* A file a session was opened on is not due, waited for, or given up.      *)
LetBe == ~due \/ renewal.waits \/ _renewal_guard(stamp)
TriedOnce ==
  /\ NoHotRetry
  /\ \A s \in Stamps : s > stamp => tried[s] = 0
  /\ at = "before" => ~renewal.waits
  /\ at = "launch" => renewal.waits /\ tried[stamp] = 0
  /\ tried[stamp] # 0 => LetBe

BuildsTrue ==
  /\ PassedIsThatBuild
  /\ at = "verdict" /\ seen.outcome = "usage" =>
       \E b \in proved : seen.build <= b /\ b <= build

RnInv == RnTyped /\ SeenBefore /\ RejectionsTrue /\ TriedOnce /\ BuildsTrue

LEMMA RnNotes ==
  ASSUME NEW s \in Stamps
  PROVE  /\ [NoRenewal EXCEPT !.state = "current", !.stamp = s] \in RnNote
         /\ [NoRenewal EXCEPT !.state = "current", !.stamp = s].reason = "none"
         /\ [state |-> "blocked", reason |-> "rejected", stamp |-> s, waits |-> FALSE] \in RnNote
         /\ [state |-> "blocked", reason |-> "transition", stamp |-> s, waits |-> TRUE] \in RnNote
         /\ [state |-> "renewed", reason |-> "none", stamp |-> s, waits |-> FALSE] \in RnNote
         /\ [state |-> "retrying", reason |-> "unconfirmed", stamp |-> s, waits |-> TRUE] \in RnNote
<1> DEFINE k == [NoRenewal EXCEPT !.state = "current"]
           m == [NoRenewal EXCEPT !.state = "current", !.stamp = s]
<1>1. m = [k EXCEPT !.stamp = s]
  OBVIOUS
<1>2. 0 \in Stamps
  BY RenewalAssumption DEF Stamps
<1>3. NoRenewal \in RnNote /\ NoRenewal.reason = "none"
  BY <1>2 DEF NoRenewal, RnNote
<1>4. k \in RnNote /\ k.reason = "none"
  BY <1>3 DEF RnNote
<1> HIDE DEF k, m
<1>5. m \in RnNote /\ m.reason = "none"
  BY <1>1, <1>4 DEF RnNote
<1>6. [state |-> "blocked", reason |-> "rejected", stamp |-> s, waits |-> FALSE] \in RnNote
  BY DEF RnNote
<1>7. [state |-> "blocked", reason |-> "transition", stamp |-> s, waits |-> TRUE] \in RnNote
  BY DEF RnNote
<1>8. [state |-> "renewed", reason |-> "none", stamp |-> s, waits |-> FALSE] \in RnNote
  BY DEF RnNote
<1>9. [state |-> "retrying", reason |-> "unconfirmed", stamp |-> s, waits |-> TRUE] \in RnNote
  BY DEF RnNote
<1> QED
  BY <1>5, <1>6, <1>7, <1>8, <1>9 DEF m

LEMMA RnInitSound == RnInit => RnInv
<1> SUFFICES ASSUME RnInit PROVE RnInv
  OBVIOUS
<1>0. 0 \in Stamps /\ 0 \in Builds
  BY RenewalAssumption DEF Stamps, Builds
<1>1. RnTyped /\ SeenBefore
  BY <1>0 DEF RnInit, RnTyped, RnNote, SeenRow, SeenBefore, RnPlaces, NoRenewal, NoCheck, NoSeen, NoSession
<1>2. RejectionsTrue /\ TriedOnce /\ BuildsTrue
  BY RenewalAssumption DEF RnInit, RejectionsTrue, RejectedIsThatFile, TriedOnce, NoHotRetry, LetBe,
     BuildsTrue, PassedIsThatBuild, NoRenewal, NoCheck, Stamps
<1> QED
  BY <1>1, <1>2 DEF RnInv

(* Around the run: another file, another build, or neither.                 *)
LEMMA AnotherFile ==
  ASSUME ~WriterBetween, RnInv, HolderRenews \/ \E theirs \in BOOLEAN : HolderSignsIn(theirs)
  PROVE  RnInv'
<1>1. /\ stamp < MaxStamps /\ ~Closed /\ stamp' = stamp + 1 /\ due' = FALSE /\ own' \in BOOLEAN
      /\ UNCHANGED <<signing, build, renewal, check, at, seen, session, rejected, tried, checked, proved>>
  BY DEF HolderRenews, HolderSignsIn, RnInv, RnTyped, rnNotes, rnRun, rnGhosts
<1>2. stamp \in Nat /\ stamp' \in Stamps /\ seen.stamp \in Int /\ session.stamp \in Int
  BY <1>1, RenewalAssumption DEF RnInv, RnTyped, SeenRow, Stamps
<1>3. RnTyped'
  BY <1>1, <1>2 DEF RnInv, RnTyped
<1>4. SeenBefore'
  BY <1>1, <1>2 DEF RnInv, SeenBefore
<1>5. RejectionsTrue'
  <2>1. at \notin {"refuse", "settle"}
    BY <1>1 DEF Closed
  <2> QED
    BY <1>1, <2>1 DEF RnInv, RejectionsTrue, RejectedIsThatFile
<1>6. TriedOnce'
  <2>1. tried[stamp'] = 0
    BY <1>1, <1>2 DEF RnInv, TriedOnce
  <2>2. \A s \in Stamps : s > stamp' => s > stamp
    BY <1>1, <1>2 DEF Stamps
  <2> QED
    BY <1>1, <2>1, <2>2 DEF RnInv, TriedOnce, NoHotRetry
<1>7. BuildsTrue'
  BY <1>1 DEF RnInv, BuildsTrue, PassedIsThatBuild
<1> QED
  BY <1>3, <1>4, <1>5, <1>6, <1>7 DEF RnInv

LEMMA AnotherBuild == ASSUME RnInv, NewBuild PROVE RnInv'
<1>1. /\ build < MaxBuilds /\ build' = build + 1
      /\ UNCHANGED <<stamp, own, due, signing, renewal, check, at, seen, session, rejected, tried, proved>>
  BY DEF NewBuild, rnNotes, rnRun, rnGhosts
<1>2. build \in Nat /\ build' \in Builds /\ proved \subseteq Int /\ seen.build \in Int /\ session.build \in Int
  BY <1>1, RenewalAssumption DEF RnInv, RnTyped, SeenRow, Builds
<1>3. RnTyped' /\ SeenBefore'
  BY <1>1, <1>2 DEF RnInv, RnTyped, SeenBefore
<1>4. RejectionsTrue' /\ TriedOnce'
  BY <1>1 DEF RnInv, RejectionsTrue, RejectedIsThatFile, TriedOnce, NoHotRetry, LetBe, _renewal_guard
<1>5. BuildsTrue'
  <2>3. ASSUME at = "verdict" /\ seen.outcome = "usage"
        PROVE  \E b \in proved : seen.build <= b /\ b <= build'
    <3>1. PICK b \in proved : seen.build <= b /\ b <= build
      BY <2>3 DEF RnInv, BuildsTrue
    <3> QED
      BY <3>1, <1>1, <1>2
  <2> QED
    BY <2>3, <1>1 DEF RnInv, BuildsTrue, PassedIsThatBuild
<1> QED
  BY <1>3, <1>4, <1>5 DEF RnInv

LEMMA NothingWritten ==
  ASSUME RnInv, SignInStartsOrEnds \/ Revoke \/ UNCHANGED rnVars PROVE RnInv'
<1>1. /\ UNCHANGED <<stamp, own, due, build, renewal, check, at, seen, session, rejected, tried, proved>>
      /\ signing' \in BOOLEAN
  BY DEF SignInStartsOrEnds, Revoke, rnVars, rnSlot, rnNotes, rnRun, rnGhosts, RnInv, RnTyped
<1>2. RnTyped' /\ SeenBefore' /\ BuildsTrue'
  BY <1>1 DEF RnInv, RnTyped, SeenBefore, BuildsTrue, PassedIsThatBuild
<1>3. RejectionsTrue' /\ TriedOnce'
  BY <1>1 DEF RnInv, RejectionsTrue, RejectedIsThatFile, TriedOnce, NoHotRetry, LetBe, _renewal_guard
<1> QED
  BY <1>2, <1>3 DEF RnInv

LEMMA WaitsPass == ASSUME RnInv, TimePasses PROVE RnInv'
<1>1. /\ at \notin {"launch", "open"} /\ due' \in BOOLEAN
      /\ renewal' = [renewal EXCEPT !.waits = FALSE] /\ check' = [check EXCEPT !.waits = FALSE]
      /\ tried' = [s \in Stamps |-> 0]
      /\ UNCHANGED <<stamp, own, signing, build, at, seen, session, rejected, proved>>
  BY DEF TimePasses, rnRun, RnInv, RnTyped
<1>2. /\ renewal' \in RnNote
      /\ renewal'.reason = renewal.reason /\ renewal'.stamp = renewal.stamp /\ ~renewal'.waits
  BY <1>1 DEF RnInv, RnTyped, RnNote
<1>3. /\ check' = [state |-> check'.state, reason |-> check'.reason, build |-> check'.build,
                   waits |-> check'.waits]
      /\ check'.state = check.state /\ check'.build = check.build
  <2>1. check = [state |-> check.state, reason |-> check.reason, build |-> check.build, waits |-> check.waits]
    BY DEF RnInv, RnTyped
  <2> QED
    BY <1>1, <2>1
<1>4. RnTyped' /\ SeenBefore' /\ BuildsTrue'
  BY <1>1, <1>2, <1>3 DEF RnInv, RnTyped, SeenBefore, BuildsTrue, PassedIsThatBuild
<1>5. RejectionsTrue'
  BY <1>1, <1>2 DEF RnInv, RejectionsTrue, RejectedIsThatFile
<1>6. TriedOnce'
  BY <1>1, <1>2 DEF RnInv, RnTyped, TriedOnce, NoHotRetry
<1> QED
  BY <1>4, <1>5, <1>6 DEF RnInv

(* A look at the slot before a session: it records what it may, and goes on *)
(* to a refusal only of the file that was turned away.                      *)
LooksOn ==
  \/ at' \in {"compat", "locked"} /\ renewal' = renewal
  \/ at' = "refuse" /\ renewal' = renewal /\ _renewal_guard(stamp)
  \/ at' = "compat" /\ current_report /\ ~due
  \/ at' = "before" /\ renewal' = renewal /\ ~renewal.waits
  \/ /\ at = "before" /\ at' = "launch" /\ renewal' = Reserved /\ due
     /\ ~_renewal_guard(stamp) /\ seen'.stamp = stamp

LEMMA LookIs ==
  ASSUME RnInv, (\E asking \in BOOLEAN : SlotFacts(asking)) \/ Locked \/ before_start
  PROVE  /\ UNCHANGED <<stamp, own, due, signing, build, check, session, rejected, tried, proved>>
         /\ seen' \in SeenRow /\ LooksOn /\ at \in {"idle", "locked", "before"}
<1>1. /\ due \in BOOLEAN /\ renewal.waits \in BOOLEAN /\ stamp \in Stamps /\ seen \in SeenRow
  BY DEF RnInv, RnTyped, RnNote
<1>2. ASSUME NEW asking \in BOOLEAN, SlotFacts(asking)
      PROVE  /\ UNCHANGED <<stamp, own, due, signing, build, check, session, rejected, tried, proved>>
             /\ seen' \in SeenRow /\ LooksOn /\ at \in {"idle", "locked", "before"}
  <2>1. /\ UNCHANGED <<stamp, own, due, signing, build, check, session, rejected, tried, proved>>
        /\ seen' = [NoSeen EXCEPT !.asked = asking]
        /\ LooksOn /\ at = "idle"
    BY <1>1, <1>2 DEF SlotFacts, Step, KeepSession, LooksOn, rnSlot, rnGhosts
  <2>2. [NoSeen EXCEPT !.asked = asking] \in SeenRow
    <3>1. 0 \in Stamps /\ 0 \in Builds
      BY RenewalAssumption DEF Stamps, Builds
    <3>2. NoSeen \in SeenRow
      BY <3>1 DEF NoSeen, SeenRow
    <3> QED
      BY <3>2 DEF SeenRow
  <2> QED
    BY <2>1, <2>2
<1>3. CASE Locked
  BY <1>1, <1>3 DEF Locked, Step, KeepSession, LooksOn, rnSlot, rnGhosts
<1>4. CASE before_start
  <2>1. [seen EXCEPT !.stamp = stamp] \in SeenRow /\ [seen EXCEPT !.stamp = stamp].stamp = stamp
    BY <1>1 DEF SeenRow
  <2> DEFINE found == [seen EXCEPT !.stamp = stamp]
  <2>2. /\ UNCHANGED <<stamp, own, due, signing, build, check, session, rejected, tried, proved>>
        /\ seen' \in {seen, found} /\ at = "before"
    BY <1>4 DEF before_start, Step, KeepSession, rnSlot, rnGhosts
  <2>3. PICK kept \in BOOLEAN :
          CASE Transition -> Step("compat", seen) /\ UNCHANGED renewal
            [] ~Transition /\ _renewal_guard(stamp) -> Step("refuse", seen) /\ UNCHANGED renewal
            [] ~Transition /\ ~_renewal_guard(stamp) /\ ~due -> Step("compat", seen) /\ current_report
            [] OTHER -> IF kept THEN renewal' = Reserved /\ Step("launch", found)
                                ELSE UNCHANGED renewal /\ Step("compat", seen)
    BY <1>4 DEF before_start
  <2> HIDE DEF found
  <2>4. found.stamp = stamp /\ found \in SeenRow
    BY <2>1 DEF found
  <2>5. LooksOn
    BY <1>1, <2>2, <2>3, <2>4 DEF Step, LooksOn
  <2> QED
    BY <1>1, <2>2, <2>4, <2>5
<1> QED
  BY <1>2, <1>3, <1>4

LEMMA LookKeeps ==
  ASSUME RnInv, (\E asking \in BOOLEAN : SlotFacts(asking)) \/ Locked \/ before_start PROVE RnInv'
<1>1. /\ UNCHANGED <<stamp, own, due, signing, build, check, session, rejected, tried, proved>>
      /\ seen' \in SeenRow /\ LooksOn /\ at \in {"idle", "locked", "before"}
  BY LookIs
<1>2. /\ stamp \in Stamps /\ stamp \in Int /\ due \in BOOLEAN
      /\ tried \in [Stamps -> Nat]
  BY RenewalAssumption DEF RnInv, RnTyped, Stamps
<1>3. /\ renewal' \in RnNote
      /\ renewal' = renewal \/ renewal'.reason # "rejected"
      /\ renewal' = Reserved => renewal'.waits
  <2>1. renewal \in RnNote
    BY DEF RnInv, RnTyped
  <2>2. \/ renewal' = renewal
        \/ renewal' = [NoRenewal EXCEPT !.state = "current", !.stamp = stamp]
        \/ renewal' = [state |-> "retrying", reason |-> "unconfirmed", stamp |-> stamp, waits |-> TRUE]
    BY <1>1 DEF LooksOn, current_report, Reserved
  <2> DEFINE m == [NoRenewal EXCEPT !.state = "current", !.stamp = stamp]
             q == [state |-> "retrying", reason |-> "unconfirmed", stamp |-> stamp, waits |-> TRUE]
  <2>3. m \in RnNote /\ m.reason = "none" /\ q \in RnNote
    BY <1>2, RnNotes
  <2>4. q.reason = "unconfirmed" /\ q.waits /\ q = Reserved
    BY DEF Reserved
  <2>5. renewal' \in {renewal, m, q}
    BY <2>2
  <2> HIDE DEF m, q
  <2> QED
    BY <2>1, <2>3, <2>4, <2>5
<1>4. at' \in {"compat", "locked", "refuse", "before", "launch"}
  BY <1>1 DEF LooksOn
<1>5. RnTyped'
  BY <1>1, <1>3, <1>4 DEF RnInv, RnTyped, RnPlaces
<1>6. SeenBefore'
  BY <1>1, <1>2, <1>4 DEF LooksOn, SeenBefore
<1>7. RejectionsTrue'
  <2>1. RejectedIsThatFile'
    BY <1>1, <1>3 DEF RnInv, RejectionsTrue, RejectedIsThatFile
  <2>2. at' = "refuse" => stamp \in rejected
    BY <1>1 DEF LooksOn, _renewal_guard, RnInv, RejectionsTrue, RejectedIsThatFile
  <2> QED
    BY <2>1, <2>2, <1>1, <1>4 DEF RejectionsTrue
<1>8. TriedOnce'
  <2>1. NoHotRetry' /\ \A s \in Stamps : s > stamp' => tried'[s] = 0
    BY <1>1 DEF RnInv, TriedOnce, NoHotRetry
  <2>2. /\ at' = "before" => ~renewal'.waits
        /\ at' = "launch" => renewal'.waits /\ tried[stamp] = 0
    BY <1>1, <1>3, <1>4 DEF LooksOn, RnInv, TriedOnce, LetBe
  <2>3. tried[stamp] # 0 => LetBe'
    <3>1. tried[stamp] # 0 => LetBe
      BY DEF RnInv, TriedOnce
    <3> QED
      BY <1>1, <1>2, <3>1 DEF LooksOn, LetBe, _renewal_guard, Reserved
  <2> QED
    BY <2>1, <2>2, <2>3, <1>1 DEF TriedOnce
<1>9. BuildsTrue'
  BY <1>1, <1>4 DEF RnInv, BuildsTrue, PassedIsThatBuild
<1> QED
  BY <1>5, <1>6, <1>7, <1>8, <1>9 DEF RnInv

LEMMA RefuseKeeps == ASSUME RnInv, Refuse PROVE RnInv'
<1>1. /\ at = "refuse" /\ at' = "compat" /\ seen' = seen
      /\ renewal' = [state |-> "blocked", reason |-> "rejected", stamp |-> stamp, waits |-> FALSE]
      /\ UNCHANGED <<stamp, own, due, signing, build, check, session, rejected, tried, proved>>
  BY DEF Refuse, Step, KeepSession, rnSlot, rnGhosts
<1>2. RnTyped' /\ SeenBefore' /\ BuildsTrue'
  BY <1>1, RnNotes DEF RnInv, RnTyped, RnPlaces, SeenBefore, BuildsTrue, PassedIsThatBuild
<1>3. RejectionsTrue' /\ TriedOnce'
  BY <1>1 DEF RnInv, RejectionsTrue, RejectedIsThatFile, TriedOnce, NoHotRetry, LetBe, _renewal_guard
<1> QED
  BY <1>2, <1>3 DEF RnInv

LEMMA LaunchKeeps == ASSUME RnInv, Launch PROVE RnInv'
<1>1. /\ at = "launch" /\ at' = "screen" /\ seen' = seen
      /\ session' = [stamp |-> stamp, build |-> build, open |-> TRUE]
      /\ tried' = [tried EXCEPT ![stamp] = @ + 1]
      /\ UNCHANGED <<stamp, own, due, signing, build, renewal, check, rejected, proved>>
  BY DEF Launch, Step, rnSlot, rnNotes
<1>2. stamp \in Stamps /\ stamp \in Int /\ tried \in [Stamps -> Nat]
  BY RenewalAssumption DEF RnInv, RnTyped, Stamps
<1>3. RnTyped' /\ SeenBefore' /\ BuildsTrue'
  BY <1>1, <1>2 DEF RnInv, RnTyped, RnPlaces, SeenBefore, BuildsTrue, PassedIsThatBuild
<1>4. RejectionsTrue'
  BY <1>1 DEF RnInv, RejectionsTrue, RejectedIsThatFile
<1>5. TriedOnce'
  BY <1>1, <1>2 DEF RnInv, TriedOnce, NoHotRetry, LetBe
<1> QED
  BY <1>3, <1>4, <1>5 DEF RnInv

(* What a session shows, of the file it was opened on.                      *)
LEMMA ScreenIs ==
  ASSUME RnInv, QuotaScreen
  PROVE  /\ at = "screen" /\ at' = "settle" /\ session' = NoSession
         /\ UNCHANGED <<own, signing, build, renewal, check, tried, proved>>
         /\ seen' \in SeenRow /\ seen'.stamp = seen.stamp
         /\ \/ /\ seen'.outcome = "rejected" /\ rejected' = rejected \cup {session.stamp}
               /\ UNCHANGED <<stamp, due>>
            \/ /\ seen'.outcome = "unconfirmed" /\ stamp < MaxStamps /\ stamp' = stamp + 1
               /\ due' = FALSE /\ rejected' = rejected
            \/ /\ seen'.outcome = "unconfirmed" /\ UNCHANGED <<stamp, due, rejected>>
<1> DEFINE out(what, tri) == [seen EXCEPT !.outcome = what, !.attempted = tri]
<1>1. ASSUME NEW what \in {"rejected", "unconfirmed"}, NEW tri \in BOOLEAN
      PROVE  /\ out(what, tri) \in SeenRow /\ out(what, tri).stamp = seen.stamp
             /\ out(what, tri).outcome = what
  <2> DEFINE k == [seen EXCEPT !.outcome = what]
             m == out(what, tri)
  <2>1. m = [k EXCEPT !.attempted = tri]
    OBVIOUS
  <2>2. k \in SeenRow /\ k.stamp = seen.stamp /\ k.outcome = what
    BY DEF RnInv, RnTyped, SeenRow
  <2> HIDE DEF k, m
  <2>3. m \in SeenRow /\ m.stamp = k.stamp /\ m.outcome = k.outcome
    BY <2>1, <2>2 DEF SeenRow
  <2> QED
    BY <2>2, <2>3 DEF m
<1>2. /\ at = "screen" /\ session' = NoSession
      /\ UNCHANGED <<own, signing, build, renewal, check, tried, proved>>
      /\ \/ /\ Step("settle", out("rejected", TRUE))
            /\ rejected' = rejected \cup {session.stamp} /\ UNCHANGED <<stamp, due>>
         \/ /\ Step("settle", out("unconfirmed", TRUE))
            /\ stamp < MaxStamps /\ stamp' = stamp + 1 /\ due' = FALSE /\ rejected' = rejected
         \/ /\ \E tri \in BOOLEAN : Step("settle", out("unconfirmed", tri))
            /\ UNCHANGED <<stamp, due, rejected>>
  BY DEF QuotaScreen, rnNotes
<1> HIDE DEF out
<1> QED
  BY <1>1, <1>2 DEF Step

LEMMA ScreenKeeps == ASSUME RnInv, QuotaScreen PROVE RnInv'
<1>1. /\ at = "screen" /\ at' = "settle" /\ session' = NoSession
      /\ UNCHANGED <<own, signing, build, renewal, check, tried, proved>>
      /\ seen' \in SeenRow /\ seen'.stamp = seen.stamp
      /\ \/ /\ seen'.outcome = "rejected" /\ rejected' = rejected \cup {session.stamp}
            /\ UNCHANGED <<stamp, due>>
         \/ /\ seen'.outcome = "unconfirmed" /\ stamp < MaxStamps /\ stamp' = stamp + 1
            /\ due' = FALSE /\ rejected' = rejected
         \/ /\ seen'.outcome = "unconfirmed" /\ UNCHANGED <<stamp, due, rejected>>
  BY ScreenIs
<1>2. /\ stamp \in Int /\ stamp \in Stamps /\ stamp' \in Stamps /\ stamp' \in Int /\ stamp <= stamp'
      /\ due' \in BOOLEAN
      /\ seen.stamp \in Int /\ session.stamp \in Stamps /\ session.stamp \in Int
      /\ 0 \in Stamps /\ 0 \in Builds
  <2>1. stamp \in Stamps /\ due \in BOOLEAN /\ seen \in SeenRow /\ session.stamp \in Stamps
    BY DEF RnInv, RnTyped
  <2>2. 0 \in Stamps /\ 0 \in Builds /\ Stamps \subseteq Int /\ seen.stamp \in Int
    BY <2>1, RenewalAssumption DEF SeenRow, Stamps, Builds
  <2>3. stamp < MaxStamps => stamp + 1 \in Stamps
    BY <2>1, RenewalAssumption DEF Stamps
  <2>4. due' \in BOOLEAN /\ (stamp' = stamp \/ (stamp' = stamp + 1 /\ stamp + 1 \in Stamps))
    BY <1>1, <2>1, <2>3
  <2>5. stamp \in Int /\ stamp' \in Stamps
    BY <2>1, <2>2, <2>4
  <2>6. stamp' \in Int /\ stamp <= stamp'
    BY <2>2, <2>4, <2>5
  <2> QED
    BY <2>1, <2>2, <2>4, <2>5, <2>6
<1>3. RnTyped' /\ SeenBefore' /\ BuildsTrue'
  BY <1>1, <1>2 DEF RnInv, RnTyped, RnPlaces, SeenBefore, BuildsTrue, PassedIsThatBuild, NoSession
<1>4. RejectionsTrue'
  BY <1>1, <1>2 DEF RnInv, SeenBefore, RejectionsTrue, RejectedIsThatFile
<1>5. TriedOnce'
  <2>1. \A s \in Stamps : s > stamp' => tried'[s] = 0
    BY <1>1, <1>2 DEF RnInv, TriedOnce, Stamps
  <2>2. stamp' # stamp => tried[stamp'] = 0
    BY <1>1, <1>2 DEF RnInv, TriedOnce
  <2>3. tried'[stamp'] # 0 => LetBe'
    BY <1>1, <2>2 DEF RnInv, TriedOnce, LetBe, _renewal_guard
  <2> QED
    BY <1>1, <2>1, <2>3 DEF RnInv, TriedOnce, NoHotRetry
<1> QED
  BY <1>3, <1>4, <1>5 DEF RnInv

LEMMA SettleKeeps == ASSUME RnInv, Settle PROVE RnInv'
<1>1. /\ at = "settle" /\ at' = "compat" /\ seen' = seen
      /\ UNCHANGED <<stamp, own, due, signing, build, check, session, rejected, tried, proved>>
      /\ renewal'.stamp = stamp
      /\ renewal' \in RnNote
      /\ renewal'.reason = "rejected" => Advice = "rejected"
      /\ renewal'.reason # "rejected" => renewal'.waits \/ ~due
  <2>1. stamp \in Stamps /\ due \in BOOLEAN
    BY DEF RnInv, RnTyped
  <2>2. /\ at = "settle" /\ at' = "compat" /\ seen' = seen
        /\ UNCHANGED <<stamp, own, due, signing, build, check, session, rejected, tried, proved>>
    BY DEF Settle, Step, KeepSession, rnSlot, rnGhosts
  <2>3. \/ renewal' = [state |-> "blocked", reason |-> "transition", stamp |-> stamp, waits |-> TRUE]
        \/ ~due /\ renewal' = [state |-> "renewed", reason |-> "none", stamp |-> stamp, waits |-> FALSE]
        \/ /\ Advice = "rejected"
           /\ renewal' = [state |-> "blocked", reason |-> "rejected", stamp |-> stamp, waits |-> FALSE]
        \/ renewal' = [state |-> "retrying", reason |-> "unconfirmed", stamp |-> stamp, waits |-> TRUE]
    BY DEF Settle
  <2>4. renewal' \in RnNote
    BY <2>1, <2>3, RnNotes
  <2> QED
    BY <2>1, <2>2, <2>3, <2>4
<1>2. RnTyped' /\ SeenBefore' /\ BuildsTrue'
  BY <1>1 DEF RnInv, RnTyped, RnPlaces, SeenBefore, BuildsTrue, PassedIsThatBuild
<1>3. RejectionsTrue'
  <2>1. ASSUME Advice = "rejected" PROVE stamp \in rejected
    <3>1. seen.outcome = "rejected" /\ stamp = seen.stamp
      BY <2>1 DEF Advice
    <3>2. PICK s \in rejected : seen.stamp <= s /\ s <= stamp
      BY <1>1, <3>1 DEF RnInv, RejectionsTrue
    <3>3. s \in Int /\ stamp \in Int
      BY RenewalAssumption DEF RnInv, RnTyped, Stamps
    <3> QED
      BY <3>1, <3>2, <3>3
  <2> QED
    BY <1>1, <2>1 DEF RnInv, RejectionsTrue, RejectedIsThatFile
<1>4. TriedOnce'
  BY <1>1 DEF RnInv, TriedOnce, NoHotRetry, LetBe, _renewal_guard
<1> QED
  BY <1>2, <1>3, <1>4 DEF RnInv

(* A step of the compatibility check, which never passes a build, or the    *)
(* end of a run.                                                            *)
LEMMA CheckKeeps ==
  ASSUME RnInv, UNCHANGED <<stamp, own, due, signing, build, renewal, rejected, tried>>,
         at' \in {"idle", "probe", "open", "usage", "verdict"}, seen' \in SeenRow,
         session' \in [stamp : Stamps, build : Builds, open : BOOLEAN],
         check' = [state |-> check'.state, reason |-> check'.reason, build |-> check'.build,
                   waits |-> check'.waits],
         check'.state = "passed" => check'.build \in proved',
         proved \subseteq proved', proved' \subseteq Builds,
         at' # "idle" => seen'.build <= build,
         at' = "usage" => seen'.build <= session'.build /\ session'.build <= build,
         at' = "verdict" /\ seen'.outcome = "usage" => \E b \in proved' : seen'.build <= b /\ b <= build
  PROVE  RnInv'
<1>1. RnTyped' /\ SeenBefore' /\ BuildsTrue'
  BY DEF RnInv, RnTyped, RnPlaces, SeenBefore, BuildsTrue, PassedIsThatBuild
<1>2. RejectionsTrue'
  BY DEF RnInv, RejectionsTrue, RejectedIsThatFile
<1>4. TriedOnce'
  BY DEF RnInv, TriedOnce, NoHotRetry, LetBe, _renewal_guard
<1> QED
  BY <1>1, <1>2, <1>4 DEF RnInv

LEMMA CompatibilityKeeps ==
  ASSUME RnInv, Compatible \/ before_probe \/ OpenUsage \/ ReadUsage \/ Verdict \/ RnKilled
  PROVE  RnInv'
<1> DEFINE Whole(c) == c = [state |-> c.state, reason |-> c.reason, build |-> c.build, waits |-> c.waits]
           Noting(c) == Whole(c) /\ c.state # "passed"
<1>1. /\ UNCHANGED <<stamp, own, due, signing, build, renewal, rejected, tried>>
      /\ proved \subseteq Builds /\ build \in Builds /\ build \in Int /\ Builds \subseteq Int
      /\ seen \in SeenRow /\ session \in [stamp : Stamps, build : Builds, open : BOOLEAN]
      /\ stamp \in Stamps /\ Whole(check) /\ (check.state = "passed" => check.build \in proved)
  <2>1. UNCHANGED <<stamp, own, due, signing, build, renewal, rejected, tried>>
    BY DEF Compatible, before_probe, OpenUsage, ReadUsage, Verdict, RnKilled, rnSlot, rnNotes, rnGhosts
  <2>2. Builds \subseteq Int
    BY RenewalAssumption DEF Builds
  <2> QED
    BY <2>1, <2>2 DEF RnInv, RnTyped, BuildsTrue, PassedIsThatBuild
<1>2. NoSeen \in SeenRow /\ NoSession \in [stamp : Stamps, build : Builds, open : BOOLEAN]
  <2>1. 0 \in Stamps /\ 0 \in Builds
    BY RenewalAssumption DEF Stamps, Builds
  <2> QED
    BY <2>1 DEF NoSeen, NoSession, SeenRow
<1>3. CASE Compatible
  <2> DEFINE it == [seen EXCEPT !.build = build]
             Record(reason, state) == [state |-> state, reason |-> reason, build |-> build, waits |-> TRUE]
  <2>1. it \in SeenRow /\ it.build = build
    BY <1>1 DEF SeenRow
  <2>2. \A reason : Noting(Record(reason, "blocked")) /\ Noting(Record(reason, "failed"))
                    /\ Noting(Record(reason, "pending"))
    OBVIOUS
  <2>3. /\ proved' = proved
        /\ check' = check \/ \E reason : check' \in {Record(reason, "blocked"), Record(reason, "failed"),
                                                     Record(reason, "pending")}
        /\ EndRun \/ (at' = "probe" /\ seen' = it /\ session' = session)
    BY <1>3 DEF Compatible, Step, KeepSession, rnGhosts
  <2> HIDE DEF it, Record
  <2>4. Noting(check') \/ check' = check
    BY <2>2, <2>3
  <2>5. \/ at' = "idle" /\ seen' = NoSeen /\ session' = NoSession
        \/ at' = "probe" /\ seen' = it /\ session' = session
    BY <2>3 DEF EndRun
  <2>6. build <= build
    BY <1>1
  <2> QED
    BY <1>1, <1>2, <2>1, <2>3, <2>4, <2>5, <2>6, CheckKeeps
<1>4. ASSUME NEW reason, NEW state \in {"blocked", "failed"}, check' = Failing(reason, state)
      PROVE  Noting(check')
  BY <1>4 DEF Failing
<1>5. CASE before_probe
  <2>1. /\ at = "probe" /\ proved' = proved
        /\ \/ check' = Failing("probe_busy", "blocked") /\ EndRun
           \/ at' = "open" /\ seen' = seen /\ session' = session /\ check' = check
    BY <1>5 DEF before_probe, Step, KeepSession, rnGhosts
  <2>2. seen.build <= build
    BY <2>1 DEF RnInv, SeenBefore
  <2>3. Noting(check') \/ check' = check
    BY <2>1, <1>4
  <2> QED
    BY <1>1, <1>2, <2>1, <2>2, <2>3, CheckKeeps DEF EndRun
<1>6. CASE OpenUsage
  <2>1. /\ at = "open" /\ at' = "usage" /\ seen' = seen
        /\ session' = [stamp |-> stamp, build |-> build, open |-> TRUE]
        /\ UNCHANGED <<check, proved>>
    BY <1>6 DEF OpenUsage, Step, rnNotes
  <2>2. seen.build <= build /\ build <= build
    BY <2>1, <1>1 DEF RnInv, SeenBefore
  <2>3. /\ session' \in [stamp : Stamps, build : Builds, open : BOOLEAN]
        /\ session'.build = build
    BY <1>1, <2>1
  <2> QED
    BY <1>1, <2>1, <2>2, <2>3, CheckKeeps
<1>7. CASE ReadUsage
  <2>1. PICK drawn \in BOOLEAN :
          /\ at = "usage" /\ session' = NoSession /\ at' = "verdict" /\ check' = check
          /\ seen' = [seen EXCEPT !.outcome = IF drawn THEN "usage" ELSE "none"]
          /\ proved' = proved \cup IF drawn THEN {session.build} ELSE {}
    BY <1>7 DEF ReadUsage, Step, rnNotes
  <2>2. seen.build <= session.build /\ session.build <= build /\ seen.build <= build
    BY <2>1 DEF RnInv, SeenBefore
  <2>3. /\ seen' \in SeenRow /\ seen'.build = seen.build
        /\ seen'.outcome = IF drawn THEN "usage" ELSE "none"
    BY <1>1, <2>1 DEF SeenRow
  <2>4. seen'.outcome = "usage" => session.build \in proved'
    BY <2>1, <2>3
  <2>5. proved \subseteq proved' /\ proved' \subseteq Builds
    BY <1>1, <2>1
  <2> QED
    BY <1>1, <1>2, <2>1, <2>2, <2>3, <2>4, <2>5, CheckKeeps
<1>8. CASE Verdict
  <2>1. /\ at = "verdict" /\ EndRun /\ proved' = proved
        /\ \/ \E reason, state \in {"transition", "check_interrupted", "usage_unavailable", "blocked", "failed"} :
                check' = Failing(reason, state) /\ state \in {"blocked", "failed"}
           \/ /\ ~Interrupted /\ seen.outcome = "usage"
              /\ check' = [state |-> "passed", reason |-> "none", build |-> seen.build, waits |-> FALSE]
    BY <1>8 DEF Verdict, rnGhosts
  <2>2. ASSUME ~Interrupted, seen.outcome = "usage" PROVE seen.build \in proved
    <3>1. PICK b \in proved : seen.build <= b /\ b <= build
      BY <2>1, <2>2 DEF RnInv, BuildsTrue
    <3>2. build = seen.build /\ b \in Int
      BY <2>2, <1>1 DEF Interrupted
    <3> QED
      BY <3>1, <3>2, <1>1
  <2>3. Whole(check') /\ (check'.state = "passed" => check'.build \in proved)
    <3>1. CASE Noting(check')
      BY <3>1
    <3>2. CASE /\ ~Interrupted /\ seen.outcome = "usage"
               /\ check' = [state |-> "passed", reason |-> "none", build |-> seen.build, waits |-> FALSE]
      BY <3>2, <2>2
    <3> HIDE DEF Noting
    <3> QED
      BY <2>1, <3>1, <3>2, <1>4
  <2> QED
    BY <1>1, <1>2, <2>1, <2>3, CheckKeeps DEF EndRun
<1>9. CASE RnKilled
  <2>1. EndRun /\ UNCHANGED <<check, proved>>
    BY <1>9 DEF RnKilled, rnNotes
  <2> QED
    BY <1>1, <1>2, <2>1, CheckKeeps DEF EndRun
<1> QED
  BY <1>3, <1>5, <1>6, <1>7, <1>8, <1>9

LEMMA RnStepKeeps == ASSUME ~WriterBetween, RnInv, RnNext \/ UNCHANGED rnVars PROVE RnInv'
  BY AnotherFile, AnotherBuild, NothingWritten, WaitsPass, LookKeeps, RefuseKeeps, LaunchKeeps,
     ScreenKeeps, SettleKeeps, CompatibilityKeeps DEF RnNext

-----------------------------------------------------------------------------
(* The machine's name: what each stage of a run leaves in /etc/hosts.       *)
HnInv ==
  /\ HnProvider \in HnNames
  /\ hnAt = "naming" => {hnTold, hnNode, hnName} \subseteq hnHosts /\ ~hnCut /\ hnWas = hnName
  /\ hnAt = "refused" =>
       /\ {hnTold, hnNode, hnWas} \subseteq hnHosts
       /\ hnName # hnWas => hnCut
  /\ hnAt = "named" => hnName = hnTold
  /\ hnAt # "idle" => ~hnDone
  /\ HostnameSound

LEMMA HnInitSound == HnInit => HnInv
BY HostnameAssumption DEF HnInit, HnInv, HostnameSound, NameResolves, NothingLeftBehind

LEMMA HnStepKeeps == ASSUME HnInv, HnNext \/ UNCHANGED hnVars PROVE HnInv'
<1> USE DEF HnInv, HostnameSound, NameResolves, NothingLeftBehind
<1>1. CASE \E n \in HnNames : BeginNaming(n)
  BY <1>1 DEF BeginNaming, HostsMeanwhile
<1>2. CASE \E n \in HnNames : RenameNode(n)
  BY <1>2 DEF RenameNode
<1>3. CASE SetHostname
  BY <1>3 DEF SetHostname
<1>4. CASE set_hostname_fails
  BY <1>4 DEF set_hostname_fails
<1>5. CASE PutBack
  BY <1>5 DEF PutBack
<1>6. CASE Tidy
  BY <1>6 DEF Tidy
<1>7. CASE Killed
  BY <1>7 DEF Killed
<1>8. CASE Restarts
  BY <1>8 DEF Restarts
<1>9. CASE UNCHANGED hnVars
  BY <1>9 DEF hnVars
<1> QED
  BY <1>1, <1>2, <1>3, <1>4, <1>5, <1>6, <1>7, <1>8, <1>9 DEF HnNext

(* An update answers its own request and runs once for it, what a renewal   *)
(* or a check is noted to have found is of the file or the build it was     *)
(* found on, and a machine resolves its own name and keeps nobody else's,   *)
(* however runs are killed and posts are lost (record_claude_update,        *)
(* maintain_slot_credentials, reconcile_compatibility, converge_name); of a *)
(* rejection, where nobody writes the file between two looks at it that     *)
(* follow on one another.                                                   *)
THEOREM UpkeepSoundAlways ==
  ASSUME ~WriterBetween PROVE AgentsSpec => []UpkeepSound
<1> DEFINE Inv == UpdInv /\ RnInv /\ HnInv
<1>1. AgentsInit => Inv
  BY UpdInitSound, RnInitSound, HnInitSound DEF AgentsInit
<1>2. ASSUME Inv, [AgentsNext]_<<focus, agentVars, inVars, tpVars, rmVars>> PROVE Inv'
  <2>1. /\ UpdNext \/ UNCHANGED updVars
        /\ RnNext \/ UNCHANGED rnVars
        /\ HnNext \/ UNCHANGED hnVars
    BY <1>2 DEF AgentsNext, agentVars
  <2> QED
    BY <1>2, <2>1, UpdStepKeeps, RnStepKeeps, HnStepKeeps
<1>3. Inv => UpkeepSound
  BY UpdInvGivesSound
  DEF UpkeepSound, RnInv, RejectionsTrue, TriedOnce, BuildsTrue, RenewalSound, HnInv
<1> QED
  BY <1>1, <1>2, <1>3, PTL DEF AgentsSpec

-----------------------------------------------------------------------------
(* Signing in: the inductive invariant.                                     *)

RowStates == {"requested", "url_ready", "code_sent", "ready", "done", "failed"}
LoginRows == [at : Nat, kind : Kinds, state : RowStates, code : BOOLEAN, secret : Nat, detail : Details]
Handed == [at : Nat, kind : Kinds, code : BOOLEAN]
LoginReports ==
  [state : RowStates \cup {"none"}, at : Nat, secret : Nat, detail : Details, signed : BOOLEAN]
Panes == [at : Nat, step : {"open", "typed", "refused", "minted", "signed"}]
AnAccount == LoginAccounts \cup {NoLogin}
Homes == [cred : AnAccount, block : AnAccount]

LoginTyped ==
  /\ asked \in Seq([kind : Kinds, holder : Nat]) /\ holder \in Nat
  /\ row \in LoginRows \cup {NoLogin} /\ handed \in Handed \cup {NoLogin}
  /\ agent \in LoginAttempts \cup {NoLogin} /\ report \in LoginReports \cup {NoLogin}
  /\ pane \in Panes \cup {NoLogin}
  /\ bound \in AnAccount /\ home \in Homes /\ scratch \in Homes \cup {NoLogin}

(* The row, the block handed to the slot and the attempt it makes of it are *)
(* of one request each, the row of the last of all, made by the holder.     *)
ForTheRequest ==
  /\ row # NoLogin => /\ row.at = Len(asked) /\ row.at # 0 /\ row.kind = asked[row.at].kind
                      /\ asked[row.at].holder = holder /\ slotIs # "releasing"
  /\ handed # NoLogin => handed.at \in DOMAIN asked /\ handed.kind = asked[handed.at].kind
  /\ agent # NoLogin => agent.at \in DOMAIN asked /\ agent.kind = asked[agent.at].kind
  /\ agent # NoLogin /\ handed # NoLogin => agent.at <= handed.at

(* The pane is of the attempt, or of one that was replaced in failing.      *)
PaneIsTheAttempts ==
  /\ agent = NoLogin => pane = NoLogin
  /\ agent # NoLogin /\ pane # NoLogin =>
       /\ IF agent.phase = "failed" THEN pane.at < agent.at ELSE pane.at = agent.at
       /\ agent.phase \in {"started", "url_ready"} => pane.step = "open"

(* What is said, kept and shown of a change or a token is so.               *)
WordTrue ==
  /\ row # NoLogin => /\ row.state = "ready" => row.secret = row.at
                      /\ row.state = "done" /\ row.detail = "SWITCHED" => row.at \in moves
  /\ report # NoLogin => /\ report.state = "ready" => report.secret = report.at /\ report.at # 0
                         /\ report.state = "done" /\ report.detail = "SWITCHED" => report.at \in moves
  /\ agent # NoLogin /\ agent.phase = "said" /\ agent.said = "SWITCHED" => agent.at \in moves
  /\ weekOf # 0 => weekOf \in moves
  /\ \A m \in moves : m \in DOMAIN asked /\ asked[m].kind = "switch"

(* An attempt whose pane may yet sign in, straight into the home.           *)
GoesStraightIn ==
  /\ agent # NoLogin /\ agent.kind # "token" /\ ~agent.scratch
  /\ pane # NoLogin /\ pane.at = agent.at /\ pane.step \in {"open", "typed"}

(* Unless an attempt stopped halfway: the three agree, and a sign-in that   *)
(* goes straight into the home finds it empty.                              *)
AccountsAgree ==
  /\ agent # NoLogin /\ agent.scratch => bound # NoLogin
  /\ scratch # NoLogin /\ scratch.block # NoLogin => scratch.cred = scratch.block
  /\ halves = {} =>
       /\ IF bound # NoLogin THEN home = [cred |-> bound, block |-> bound] ELSE home.cred = home.block
       /\ GoesStraightIn => bound = NoLogin /\ home.cred = NoLogin

LoginInv == LoginTyped /\ ForTheRequest /\ PaneIsTheAttempts /\ WordTrue /\ AccountsAgree

-----------------------------------------------------------------------------
(* Signing in: rows, what is said, and which account the slot keeps.        *)

LEMMA BoundAgrees ==
  ASSUME LoginInv
  PROVE  /\ Bound \in AnAccount
         /\ bound # NoLogin => Bound = bound
         /\ halves = {} => IF Bound # NoLogin THEN home = [cred |-> Bound, block |-> Bound]
                           ELSE home.cred = NoLogin /\ home.block = NoLogin
<1>1. home \in Homes /\ bound \in AnAccount /\ home = [cred |-> home.cred, block |-> home.block]
  BY DEF LoginInv, LoginTyped, Homes
<1>2. halves = {} => IF bound # NoLogin THEN home = [cred |-> bound, block |-> bound]
                     ELSE home.cred = home.block
  BY DEF LoginInv, AccountsAgree
<1> QED
  BY <1>1, <1>2 DEF Bound, Homes

LEMMA SaysSo ==
  ASSUME NEW p \in LoginReports, Says(p)
  PROVE  /\ report' \in LoginReports /\ report'.state = p.state /\ report'.at = p.at
         /\ report'.secret = p.secret /\ report'.detail = p.detail
  BY DEF Says, LoginReports

LEMMA SayIs ==
  ASSUME NEW state \in RowStates \cup {"none"}, NEW n \in Nat, NEW secret \in Nat, NEW detail \in Details
  PROVE  /\ Say(state, n, secret, detail) \in LoginReports
         /\ Say(state, n, secret, detail).state = state /\ Say(state, n, secret, detail).at = n
         /\ Say(state, n, secret, detail).secret = secret
         /\ Say(state, n, secret, detail).detail = detail
  BY DEF Say, LoginReports

LEMMA NoNewsSaid ==
  ASSUME Says(NoNews)
  PROVE  report' \in LoginReports /\ report'.state = "none"
<1>1. NoNews \in LoginReports /\ NoNews.state = "none"
  BY DEF NoNews, LoginReports, Details
<1> QED
  BY <1>1, SaysSo

(* A slot speaks truly: no token but the one just asked for, no change but  *)
(* one that was made.                                                       *)
SaidTruly ==
  /\ report \in LoginReports \cup {NoLogin}
  /\ report # NoLogin => /\ report.state = "ready" => report.secret = report.at /\ report.at # 0
                         /\ report.state = "done" /\ report.detail = "SWITCHED" => report.at \in moves

LEMMA SaidTrue ==
  ASSUME NEW state \in RowStates \cup {"none"}, NEW n \in Nat, NEW secret \in Nat, NEW detail \in Details,
         Says(Say(state, n, secret, detail)),
         state = "ready" => secret = n /\ n # 0,
         state = "done" /\ detail = "SWITCHED" => n \in moves'
  PROVE  SaidTruly'
  BY SayIs, SaysSo DEF SaidTruly

LEMMA NothingSaid == ASSUME Says(NoNews) PROVE SaidTruly'
  BY NoNewsSaid DEF SaidTruly

(* A step of the slot: the server's rows and the block handed to it stay,   *)
(* and the attempt it keeps is the one it kept, or one for that block.      *)
LEMMA SlotStep ==
  ASSUME LoginInv, UNCHANGED <<serverVars, handed>>, SaidTruly',
         agent' \in LoginAttempts \cup {NoLogin}, pane' \in Panes \cup {NoLogin},
         bound' \in AnAccount, home' \in Homes, scratch' \in Homes \cup {NoLogin},
         agent' # NoLogin =>
           \/ agent # NoLogin /\ agent'.at = agent.at /\ agent'.kind = agent.kind
           \/ handed # NoLogin /\ agent'.at = handed.at /\ agent'.kind = handed.kind,
         moves \subseteq moves',
         \A m \in moves' : m \in moves \/ (agent # NoLogin /\ m = agent.at /\ agent.kind = "switch"),
         agent' # NoLogin /\ agent'.phase = "said" /\ agent'.said = "SWITCHED" => agent'.at \in moves',
         PaneIsTheAttempts', AccountsAgree'
  PROVE  LoginInv'
<1>1. LoginTyped'
  BY DEF LoginInv, LoginTyped, SaidTruly, serverVars
<1>2. ForTheRequest'
  <2>1. /\ agent # NoLogin => agent.at \in DOMAIN asked /\ agent.kind = asked[agent.at].kind
        /\ handed # NoLogin => handed.at \in DOMAIN asked /\ handed.kind = asked[handed.at].kind
        /\ agent # NoLogin /\ handed # NoLogin => agent.at <= handed.at
    BY DEF LoginInv, ForTheRequest
  <2>2. handed # NoLogin => handed.at \in Nat
    BY DEF LoginInv, LoginTyped, Handed
  <2> QED
    BY <2>1, <2>2 DEF LoginInv, ForTheRequest, serverVars
<1>3. WordTrue'
  BY DEF LoginInv, WordTrue, ForTheRequest, SaidTruly, serverVars
<1> QED
  BY <1>1, <1>2, <1>3 DEF LoginInv

(* A run that leaves the home as it is.                                     *)
LEMMA RunGoesOn ==
  ASSUME LoginInv, Runs, bound' = Bound, UNCHANGED <<home, moves, halves>>, SaidTruly',
         agent' \in LoginAttempts \cup {NoLogin}, pane' \in Panes \cup {NoLogin},
         scratch' \in Homes \cup {NoLogin},
         agent' # NoLogin =>
           \/ agent # NoLogin /\ agent'.at = agent.at /\ agent'.kind = agent.kind
           \/ handed # NoLogin /\ agent'.at = handed.at /\ agent'.kind = handed.kind,
         agent' # NoLogin /\ agent'.phase = "said" => agent' = agent,
         PaneIsTheAttempts',
         scratch' # NoLogin /\ scratch'.block # NoLogin => scratch'.cred = scratch'.block,
         agent' # NoLogin /\ agent'.scratch => Bound # NoLogin,
         halves = {} /\ GoesStraightIn' => Bound = NoLogin
  PROVE  LoginInv'
<1>1. Bound \in AnAccount /\ home \in Homes
  BY BoundAgrees DEF LoginInv, LoginTyped
<1>2. AccountsAgree'
  BY BoundAgrees DEF AccountsAgree
<1>3. UNCHANGED <<serverVars, handed>>
  BY DEF Runs
<1>4. agent' # NoLogin /\ agent'.phase = "said" /\ agent'.said = "SWITCHED" => agent'.at \in moves'
  BY DEF LoginInv, WordTrue
<1> QED
  BY <1>1, <1>2, <1>3, <1>4, SlotStep DEF LoginInv

(* An attempt that ends, and its pane with it.                              *)
LEMMA RunEndsAttempt ==
  ASSUME LoginInv, Runs, bound' = Bound, UNCHANGED <<home, moves, halves>>, SaidTruly',
         agent' = NoLogin, pane' = NoLogin, scratch' = NoLogin
  PROVE  LoginInv'
<1>1. PaneIsTheAttempts' /\ ~GoesStraightIn'
  BY DEF PaneIsTheAttempts, GoesStraightIn
<1> QED
  BY <1>1, RunGoesOn

(* The attempt that is kept, its kind and place as they were.               *)
AttemptIs ==
  /\ agent \in LoginAttempts /\ agent.at \in Nat /\ agent.at # 0 /\ agent.kind \in Kinds
  /\ pane # NoLogin => IF agent.phase = "failed" THEN pane.at < agent.at ELSE pane.at = agent.at

LEMMA TheAttempt == ASSUME LoginInv, agent # NoLogin PROVE AttemptIs
<1>1. agent \in LoginAttempts /\ asked \in Seq([kind : Kinds, holder : Nat]) /\ agent.at \in DOMAIN asked
  BY DEF LoginInv, LoginTyped, ForTheRequest
<1> QED
  BY <1>1 DEF LoginInv, PaneIsTheAttempts, AttemptIs, LoginAttempts

LEMMA LoginInitSound == LoginInit => LoginInv
  BY DEF LoginInit, LoginInv, LoginTyped, ForTheRequest, PaneIsTheAttempts, WordTrue, AccountsAgree,
         GoesStraightIn, AnAccount, Homes, NoHome

LEMMA StopKeeps == ASSUME LoginInv, StopAttempt PROVE LoginInv'
<1>1. pane' = NoLogin
  BY DEF StopAttempt, LoginInv, PaneIsTheAttempts
<1> QED
  BY <1>1, NothingSaid, RunEndsAttempt DEF StopAttempt, Over

LEMMA AbandonKeeps == ASSUME LoginInv, Abandon PROVE LoginInv'
<1>1. pane' = NoLogin
  BY DEF Abandon, LoginInv, PaneIsTheAttempts
<1>2. handed.at \in Nat /\ "late" \in Details
  BY DEF Abandon, LoginInv, LoginTyped, Handed, Details
<1>3. SaidTruly'
  BY <1>2, SaidTrue DEF Abandon, RowStates
<1> QED
  BY <1>1, <1>3, RunEndsAttempt DEF Abandon, Over

LEMMA RefusedKeeps == ASSUME LoginInv, CodeRefused PROVE LoginInv'
<1>1. AttemptIs /\ "refused" \in Details
  BY TheAttempt DEF CodeRefused, In, Mine, Details
<1>2. SaidTruly'
  BY <1>1, SaidTrue DEF CodeRefused, RowStates, AttemptIs
<1> QED
  BY <1>2, RunEndsAttempt DEF CodeRefused, Over, In

LEMMA FirstSignInKeeps == ASSUME LoginInv, FirstSignIn PROVE LoginInv'
<1>1. AttemptIs /\ "none" \in Details
  BY TheAttempt DEF FirstSignIn, In, Mine, Details
<1>2. SaidTruly'
  BY <1>1, SaidTrue DEF FirstSignIn, RowStates, AttemptIs
<1> QED
  BY <1>2, RunEndsAttempt DEF FirstSignIn, Over, In

(* A run that keeps the attempt as it was: only its phase moves on.         *)
LEMMA SameAttempt ==
  ASSUME LoginInv, Runs, Mine, bound' = Bound, UNCHANGED <<home, scratch, moves, halves>>, SaidTruly',
         NEW phase \in {"url_ready", "code_sent", "ready", agent.phase},
         agent' = [agent EXCEPT !.phase = phase],
         phase = agent.phase \/ agent.phase \notin {"failed", "said"},
         \/ pane' = pane /\ (phase \in {"started", "url_ready"} => phase = agent.phase \/ agent.phase = "started")
         \/ pane' \in Panes /\ phase = "code_sent" /\ pane # NoLogin
              /\ pane'.at = pane.at /\ pane.step = "open"
  PROVE  LoginInv'
<1>1. AttemptIs
  BY TheAttempt DEF Mine
<1>2. /\ agent' \in LoginAttempts /\ agent'.phase = phase /\ agent'.at = agent.at
      /\ agent'.kind = agent.kind /\ agent'.scratch = agent.scratch /\ agent'.said = agent.said
      /\ phase = agent.phase => agent' = agent
  BY <1>1 DEF AttemptIs, LoginAttempts
<1>3. agent' # NoLogin /\ pane' \in Panes \cup {NoLogin} /\ scratch \in Homes \cup {NoLogin}
  BY <1>2, LoginAssumption DEF LoginInv, LoginTyped
<1>4. PaneIsTheAttempts'
  BY <1>1, <1>2, <1>3 DEF LoginInv, PaneIsTheAttempts, Mine
<1>5. agent.scratch => Bound # NoLogin
  BY BoundAgrees DEF LoginInv, AccountsAgree, Mine
<1>6. halves = {} /\ GoesStraightIn' => Bound = NoLogin
  <2>1. GoesStraightIn' => GoesStraightIn
    BY <1>2, <1>3 DEF GoesStraightIn, Mine
  <2> QED
    BY <2>1 DEF LoginInv, AccountsAgree, Bound
<1> QED
  BY <1>2, <1>3, <1>4, <1>5, <1>6, RunGoesOn DEF LoginInv, AccountsAgree, Mine

LEMMA AgentAsItIs ==
  ASSUME LoginInv, Mine
  PROVE  agent = [agent EXCEPT !.phase = agent.phase]
  BY TheAttempt DEF Mine, AttemptIs, LoginAttempts

LEMMA WaitingKeeps == ASSUME LoginInv, StillWaiting PROVE LoginInv'
  BY AgentAsItIs, NothingSaid, SameAttempt DEF StillWaiting

LEMMA SayAgainKeeps == ASSUME LoginInv, SayAgain PROVE LoginInv'
<1>1. AttemptIs
  BY TheAttempt DEF SayAgain, In, Mine
<1>2. agent.said \in Details /\ (agent.said = "SWITCHED" => agent.at \in moves')
  BY <1>1 DEF SayAgain, In, Mine, LoginInv, WordTrue, AttemptIs, LoginAttempts
<1>3. SaidTruly'
  BY <1>1, <1>2, SaidTrue DEF SayAgain, RowStates, AttemptIs
<1> QED
  BY <1>3, AgentAsItIs, SameAttempt DEF SayAgain, In

LEMMA ReadUrlKeeps == ASSUME LoginInv, ReadUrl PROVE LoginInv'
<1>1. AttemptIs /\ "none" \in Details
  BY TheAttempt DEF ReadUrl, In, Mine, Details
<1>2. CASE /\ agent' = [agent EXCEPT !.phase = "url_ready"]
           /\ Says(Say("url_ready", agent.at, 0, "none"))
  <2>1. SaidTruly'
    BY <1>1, <1>2, SaidTrue DEF RowStates, AttemptIs
  <2> QED
    BY <1>2, <2>1, SameAttempt DEF ReadUrl, In
<1>3. CASE Says(NoNews) /\ UNCHANGED agent
  BY <1>3, AgentAsItIs, NothingSaid, SameAttempt DEF ReadUrl, In
<1> QED
  BY <1>2, <1>3 DEF ReadUrl

LEMMA TypeKeeps == ASSUME LoginInv, TypeCode PROVE LoginInv'
<1>1. AttemptIs /\ "none" \in Details
  BY TheAttempt DEF TypeCode, In, Mine, Details
<1>2. SaidTruly'
  BY <1>1, SaidTrue DEF TypeCode, RowStates, AttemptIs
<1>3. \/ pane' = pane
      \/ pane # NoLogin /\ pane' \in Panes /\ pane'.at = pane.at /\ pane.step = "open"
  BY DEF TypeCode, In, Mine, LoginInv, LoginTyped, PaneIsTheAttempts, Panes
<1> QED
  BY <1>2, <1>3, SameAttempt DEF TypeCode, In

LEMMA TokenKeeps == ASSUME LoginInv, SayToken PROVE LoginInv'
<1>1. AttemptIs /\ "none" \in Details /\ "undelivered" \in Details
  BY TheAttempt DEF SayToken, Mine, Details
<1>2. CASE /\ agent.phase \in {"code_sent", "ready"}
           /\ Screen = "minted"
           /\ agent' = [agent EXCEPT !.phase = "ready"]
           /\ Says(Say("ready", agent.at, pane.at, "none"))
           /\ UNCHANGED <<pane, scratch>>
  <2>1. pane # NoLogin /\ pane.at = agent.at
    BY <1>1, <1>2 DEF Screen, AttemptIs
  <2>2. SaidTruly'
    BY <1>1, <1>2, <2>1, SaidTrue DEF RowStates, AttemptIs
  <2> QED
    BY <1>2, <2>2, SameAttempt DEF SayToken
<1>3. CASE pane = NoLogin /\ Over /\ Says(Say("failed", agent.at, 0, "undelivered")) /\ UNCHANGED pane
  <2>1. SaidTruly'
    BY <1>1, <1>3, SaidTrue DEF RowStates, AttemptIs
  <2> QED
    BY <1>3, <2>1, RunEndsAttempt DEF SayToken, Over
<1> QED
  BY <1>2, <1>3 DEF SayToken

LEMMA StartKeeps == ASSUME LoginInv, StartAttempt PROVE LoginInv'
<1> DEFINE aside == handed.kind # "token" /\ Bound # NoLogin
<1>1. /\ handed # NoLogin /\ handed.at \in Nat /\ handed.kind \in Kinds
      /\ "none" \in Details /\ "NO_SCRATCH" \in Details
  BY DEF StartAttempt, LoginInv, LoginTyped, Handed, Details
<1>2. scratch \in Homes \cup {NoLogin} /\ NoHome \in Homes /\ NoHome.block = NoLogin
  BY DEF LoginInv, LoginTyped, NoHome, Homes, AnAccount
<1>3. CASE /\ agent' = [at |-> handed.at, phase |-> "started", kind |-> handed.kind,
                        scratch |-> aside, said |-> "none"]
           /\ pane' = [at |-> handed.at, step |-> "open"]
           /\ scratch' = IF aside THEN NoHome ELSE scratch
           /\ Says(Say("requested", handed.at, 0, "none"))
  <2>1. /\ agent' \in LoginAttempts /\ pane' \in Panes
        /\ agent'.at = handed.at /\ agent'.kind = handed.kind /\ agent'.phase = "started"
        /\ agent'.scratch = aside /\ pane'.at = handed.at /\ pane'.step = "open"
    BY <1>1, <1>3 DEF LoginAttempts, Panes
  <2>2. SaidTruly'
    BY <1>1, <1>3, SaidTrue DEF RowStates
  <2>3. PaneIsTheAttempts'
    BY <2>1, LoginAssumption DEF PaneIsTheAttempts
  <2>4. agent'.scratch => Bound # NoLogin
    BY <2>1
  <2>5. GoesStraightIn' => Bound = NoLogin
    BY <2>1 DEF GoesStraightIn
  <2> HIDE DEF aside
  <2> QED
    BY <1>1, <1>2, <1>3, <2>1, <2>2, <2>3, <2>4, <2>5, RunGoesOn
    DEF StartAttempt, LoginInv, AccountsAgree
<1>4. CASE /\ agent' = [at |-> handed.at, phase |-> "failed", kind |-> handed.kind,
                        scratch |-> FALSE, said |-> "none"]
           /\ scratch' = IF aside THEN NoLogin ELSE scratch
           /\ Says(Say("failed", handed.at, 0, "NO_SCRATCH"))
           /\ UNCHANGED pane
  <2>1. /\ agent' \in LoginAttempts /\ agent'.scratch = FALSE
        /\ agent'.at = handed.at /\ agent'.kind = handed.kind /\ agent'.phase = "failed"
    BY <1>1, <1>4 DEF LoginAttempts
  <2>2. SaidTruly'
    BY <1>1, <1>4, SaidTrue DEF RowStates
  <2>9. handed.at \in Nat
    BY <1>1
  <2>3. pane # NoLogin => pane.at < handed.at
    <3>1. agent # NoLogin => agent.at <= handed.at /\ agent.at # handed.at
      BY <1>1 DEF StartAttempt, Mine, LoginInv, ForTheRequest
    <3>2. pane \in Panes \cup {NoLogin} /\ (agent = NoLogin => pane = NoLogin)
      BY DEF LoginInv, LoginTyped, PaneIsTheAttempts
    <3>3. agent # NoLogin => AttemptIs
      BY TheAttempt
    <3>4. pane # NoLogin => pane.at \in Nat
      BY <3>2 DEF Panes
    <3>5. ASSUME pane # NoLogin PROVE pane.at <= agent.at /\ agent.at \in Nat /\ agent # NoLogin
      BY <3>2, <3>3, <3>4, <3>5 DEF AttemptIs
    <3>6. ASSUME pane # NoLogin PROVE agent.at < handed.at
      BY <2>9, <3>1, <3>5, <3>6
    <3>7. ASSUME pane # NoLogin PROVE pane.at < handed.at
      BY <2>9, <3>4, <3>5, <3>6, <3>7
    <3> QED
      BY <3>7
  <2>4. PaneIsTheAttempts'
    BY <1>4, <2>1, <2>3, LoginAssumption DEF PaneIsTheAttempts
  <2>5. pane' = pane /\ (pane # NoLogin => pane.at \in Nat)
    BY <1>4 DEF LoginInv, LoginTyped, Panes
  <2>6. ~GoesStraightIn'
    <3>1. pane' # NoLogin => pane'.at # agent'.at
      <4>1. ASSUME pane # NoLogin PROVE pane.at # handed.at
        BY <2>9, <2>3, <2>5, <4>1
      <4> QED
        BY <2>1, <2>5, <4>1
    <3> QED
      BY <3>1 DEF GoesStraightIn
  <2>7. pane' \in Panes \cup {NoLogin}
    BY <1>4 DEF LoginInv, LoginTyped
  <2> HIDE DEF aside
  <2> QED
    BY <1>1, <1>2, <1>4, <2>1, <2>2, <2>4, <2>6, <2>7, RunGoesOn DEF StartAttempt, LoginInv, AccountsAgree
<1> QED
  BY <1>3, <1>4 DEF StartAttempt


(* Claude Code signs in, in the pane of an attempt.                         *)
LEMMA ClaudeKeeps == ASSUME LoginInv, ClaudeAnswers PROVE LoginInv'
<1>1. AttemptIs /\ UNCHANGED <<serverVars, handed, agent, bound, report, moves, halves>>
  BY TheAttempt DEF ClaudeAnswers
<1>2. /\ pane \in Panes /\ pane # NoLogin /\ pane.step = "typed" /\ pane.at = agent.at
      /\ agent # NoLogin
  BY DEF ClaudeAnswers, Screen, LoginInv, LoginTyped
<1>3. /\ pane' \in Panes /\ pane'.at = agent.at /\ pane'.step \in {"refused", "minted", "signed"}
      /\ \/ UNCHANGED <<home, scratch>>
         \/ /\ agent.kind # "token"
            /\ \E a \in LoginAccounts :
                 IF agent.scratch
                 THEN /\ \E profile \in {a, NoLogin} : scratch' = [cred |-> a, block |-> profile]
                      /\ UNCHANGED home
                 ELSE home' = [cred |-> a, block |-> a] /\ UNCHANGED scratch
  BY <1>2 DEF ClaudeAnswers, Panes
<1>4. home \in Homes /\ scratch \in Homes \cup {NoLogin}
  BY DEF LoginInv, LoginTyped
<1>5. SaidTruly'
  BY <1>1 DEF SaidTruly, LoginInv, LoginTyped, WordTrue
<1>6. home' \in Homes /\ scratch' \in Homes \cup {NoLogin}
  BY <1>3, <1>4 DEF Homes, AnAccount
<1>7. PaneIsTheAttempts'
  BY <1>1, <1>2, <1>3 DEF PaneIsTheAttempts, LoginInv
<1>8. ~GoesStraightIn'
  BY <1>3 DEF GoesStraightIn
<1>9. AccountsAgree'
  <2>1. scratch' # NoLogin /\ scratch'.block # NoLogin => scratch'.cred = scratch'.block
    BY <1>3 DEF LoginInv, AccountsAgree
  <2>2. ASSUME halves = {}
        PROVE  IF bound # NoLogin THEN home' = [cred |-> bound, block |-> bound] ELSE home'.cred = home'.block
    <3>1. CASE UNCHANGED home
      BY <2>2, <3>1 DEF LoginInv, AccountsAgree
    <3>2. CASE /\ agent.kind # "token" /\ ~agent.scratch
               /\ \E a \in LoginAccounts : home' = [cred |-> a, block |-> a]
      BY <1>2, <2>2, <3>2 DEF LoginInv, AccountsAgree, GoesStraightIn
    <3> QED
      BY <1>3, <3>1, <3>2
  <2> QED
    BY <1>1, <1>8, <2>1, <2>2 DEF LoginInv, AccountsAgree
<1>10. agent' \in LoginAttempts \cup {NoLogin} /\ bound' \in AnAccount
  BY <1>1 DEF AttemptIs, LoginInv, LoginTyped
<1>11. agent.phase = "said" /\ agent.said = "SWITCHED" => agent.at \in moves
  BY <1>2 DEF LoginInv, WordTrue
<1>12. \A m \in moves' : m \in moves
  BY <1>1
<1> QED
  BY <1>1, <1>2, <1>3, <1>5, <1>6, <1>7, <1>9, <1>10, <1>11, <1>12, SlotStep

(* What a run that adopts, or is cut short, may leave of an account.        *)
LEMMA AdoptKeeps == ASSUME LoginInv, AdoptSignIn PROVE LoginInv'
<1>1. AttemptIs /\ UNCHANGED <<serverVars, handed>> /\ pane' = NoLogin /\ scratch' = NoLogin
  BY TheAttempt DEF AdoptSignIn, In, Mine, Runs
<1>2. /\ agent # NoLogin /\ agent.scratch /\ agent.phase = "code_sent"
      /\ scratch \in Homes /\ scratch.cred # NoLogin
  BY DEF AdoptSignIn, In, Mine, SignedIn, LoginInv, LoginTyped
<1>3. bound \in AnAccount /\ bound # NoLogin /\ home \in Homes
  BY <1>2 DEF LoginInv, LoginTyped, AccountsAgree
<1>4. PICK o \in Adopted(scratch.cred, scratch.block) :
       /\ home' = o.home /\ bound' = o.bound
       /\ agent' = IF Kept(o.why) /\ agent.kind = "switch"
                   THEN [agent EXCEPT !.phase = "said", !.said = o.why] ELSE NoLogin
       /\ Says(Say(IF Kept(o.why) THEN "done" ELSE "failed", agent.at, 0, o.why))
       /\ moves' = IF o.why = "SWITCHED" THEN moves \cup {agent.at} ELSE moves
       /\ halves' = IF o.why = "HALF_DONE" THEN halves \cup {agent.at} ELSE halves
  BY DEF AdoptSignIn
<1>5. /\ o.home \in Homes /\ o.bound \in LoginAccounts /\ o.why \in Details
      /\ o.why = "SWITCHED" =>
           /\ agent.kind = "switch"
           /\ o.home = [cred |-> scratch.cred, block |-> scratch.block] /\ o.bound = scratch.block
           /\ scratch.block # NoLogin
      /\ o.why # "SWITCHED" => o.bound = bound
      /\ o.why \notin {"SWITCHED", "HALF_DONE"} =>
           o.home = home \/ (o.home = [home EXCEPT !.cred = scratch.cred] /\ scratch.block = bound)
  <2>0. o \in Adopted(scratch.cred, scratch.block)
    BY <1>4
  <2>1. [home EXCEPT !.cred = scratch.cred] \in Homes
    BY <1>2, <1>3 DEF Homes
  <2>2. \A c \in {scratch.cred, home.cred}, b \in {scratch.block, home.block} :
           [cred |-> c, block |-> b] \in Homes
    BY <1>2, <1>3 DEF Homes
  <2>3. /\ "none" \in Details /\ "SWITCHED" \in Details /\ "SAME_ACCOUNT" \in Details
        /\ "OTHER_ACCOUNT" \in Details /\ "UNKNOWN_ACCOUNT" \in Details
        /\ "NOT_ADOPTED" \in Details /\ "HALF_DONE" \in Details
    BY DEF Details
  <2>4. CASE scratch.block = NoLogin
    <3>1. Adopted(scratch.cred, scratch.block) = {[home |-> home, bound |-> bound, why |-> "UNKNOWN_ACCOUNT"]}
      BY <2>4 DEF Adopted
    <3>2. o.home = home /\ o.bound = bound /\ o.why = "UNKNOWN_ACCOUNT"
      BY <2>0, <3>1
    <3> QED
      BY <1>3, <2>3, <3>2 DEF AnAccount
  <2>5. CASE scratch.block # NoLogin /\ scratch.block # bound /\ agent.kind # "switch"
    <3>1. Adopted(scratch.cred, scratch.block) = {[home |-> home, bound |-> bound, why |-> "OTHER_ACCOUNT"]}
      BY <2>5 DEF Adopted
    <3>2. o.home = home /\ o.bound = bound /\ o.why = "OTHER_ACCOUNT"
      BY <2>0, <3>1
    <3> QED
      BY <1>3, <2>3, <3>2 DEF AnAccount
  <2>6. CASE scratch.block # NoLogin /\ scratch.block = bound
    <3> DEFINE moved == [home EXCEPT !.cred = scratch.cred]
               word == IF agent.kind = "switch" THEN "SAME_ACCOUNT" ELSE "none"
    <3>3. word \in Details /\ word \notin {"SWITCHED", "HALF_DONE"}
      BY <2>3
    <3>1. Adopted(scratch.cred, scratch.block) =
            {[home |-> home, bound |-> bound, why |-> "NOT_ADOPTED"],
             [home |-> moved, bound |-> bound, why |-> word]}
      <4>1. CASE agent.kind = "switch"
        BY <2>6, <4>1 DEF Adopted
      <4>2. CASE agent.kind # "switch"
        BY <2>6, <4>2 DEF Adopted
      <4> QED
        BY <4>1, <4>2
    <3> HIDE DEF moved, word
    <3>2. /\ o.bound = bound
          /\ \/ o.home = home /\ o.why = "NOT_ADOPTED"
             \/ o.home = moved /\ o.why = word
      BY <2>0, <3>1
    <3>4. moved \in Homes /\ moved = [home EXCEPT !.cred = scratch.cred]
      BY <2>1 DEF moved
    <3> QED
      BY <1>3, <2>3, <2>6, <3>2, <3>3, <3>4 DEF AnAccount
  <2>7. CASE scratch.block # NoLogin /\ scratch.block # bound /\ agent.kind = "switch"
    <3>1. scratch.block \in LoginAccounts
      BY <1>2, <2>7 DEF Homes, AnAccount
    <3>2. Adopted(scratch.cred, scratch.block) =
            {[home |-> home, bound |-> bound, why |-> "NOT_ADOPTED"],
             [home |-> [cred |-> scratch.cred, block |-> scratch.block], bound |-> scratch.block,
              why |-> "SWITCHED"]}
            \cup {[home |-> [cred |-> c, block |-> b], bound |-> bound,
                   why |-> IF [cred |-> c, block |-> b] = home THEN "NOT_ADOPTED" ELSE "HALF_DONE"] :
                     c \in {scratch.cred, home.cred}, b \in {scratch.block, home.block}}
      BY <2>7 DEF Adopted
    <3>3. \/ o.home = home /\ o.bound = bound /\ o.why = "NOT_ADOPTED"
          \/ /\ o.home = [cred |-> scratch.cred, block |-> scratch.block]
             /\ o.bound = scratch.block /\ o.why = "SWITCHED"
          \/ \E c \in {scratch.cred, home.cred}, b \in {scratch.block, home.block} :
               /\ o.home = [cred |-> c, block |-> b] /\ o.bound = bound
               /\ \/ o.home = home /\ o.why = "NOT_ADOPTED"
                  \/ o.why = "HALF_DONE"
      BY <2>0, <3>2
    <3> QED
      BY <1>3, <2>2, <2>3, <2>7, <3>1, <3>3 DEF AnAccount
  <2> QED
    BY <2>4, <2>5, <2>6, <2>7
<1>6. /\ agent' \in LoginAttempts \cup {NoLogin}
      /\ agent' # NoLogin => /\ agent'.at = agent.at /\ agent'.kind = agent.kind
                             /\ agent'.scratch = agent.scratch /\ agent'.said = o.why
  <2>1. o.why \in Details
    BY <1>5
  <2>2. \A why \in Details :
          /\ [agent EXCEPT !.phase = "said", !.said = why] \in LoginAttempts
          /\ [agent EXCEPT !.phase = "said", !.said = why].at = agent.at
          /\ [agent EXCEPT !.phase = "said", !.said = why].kind = agent.kind
          /\ [agent EXCEPT !.phase = "said", !.said = why].scratch = agent.scratch
          /\ [agent EXCEPT !.phase = "said", !.said = why].said = why
    BY <1>1 DEF AttemptIs, LoginAttempts
  <2> QED
    BY <1>4, <2>1, <2>2
<1>7. SaidTruly'
  BY <1>1, <1>4, <1>5, SaidTrue DEF AttemptIs, RowStates
<1>8. PaneIsTheAttempts' /\ ~GoesStraightIn'
  BY <1>1 DEF PaneIsTheAttempts, GoesStraightIn
<1>9. AccountsAgree'
  <2>1. agent' # NoLogin /\ agent'.scratch => bound' # NoLogin
    BY <1>3, <1>4, <1>5
  <2>2. ASSUME halves' = {}
        PROVE  /\ bound' # NoLogin => home' = [cred |-> bound', block |-> bound']
               /\ bound' = NoLogin => home'.cred = home'.block
    <3>1. halves = {} /\ o.why # "HALF_DONE"
      BY <1>4, <2>2
    <3>2. home = [cred |-> bound, block |-> bound]
      BY <1>3, <3>1 DEF LoginInv, AccountsAgree
    <3>3. scratch.block # NoLogin => scratch.cred = scratch.block
      BY <1>2, LoginAssumption DEF LoginInv, AccountsAgree, AdoptSignIn, SignedIn
    <3>4. bound' # NoLogin
      BY <1>3, <1>4, <1>5
    <3> QED
      BY <1>3, <1>4, <1>5, <3>1, <3>2, <3>3, <3>4
  <2> QED
    BY <1>1, <1>8, <2>1, <2>2 DEF AccountsAgree
<1>10. agent'.phase = "said" /\ agent' # NoLogin /\ agent'.said = "SWITCHED" => agent'.at \in moves'
  BY <1>4, <1>6
<1>11. home' \in Homes /\ bound' \in AnAccount
  BY <1>4, <1>5 DEF AnAccount
<1>12. /\ moves \subseteq moves'
       /\ \A m \in moves' : m \in moves \/ (agent # NoLogin /\ m = agent.at /\ agent.kind = "switch")
  BY <1>2, <1>4, <1>5
<1> QED
  BY <1>1, <1>2, <1>6, <1>7, <1>8, <1>9, <1>10, <1>11, <1>12, SlotStep

(* A run killed inside a change of account: nothing is said, the scratch    *)
(* stays, and the attempt is noted as cut in the middle, or as made.        *)
LEMMA CutShortKeeps == ASSUME LoginInv, MoveCutShort PROVE LoginInv'
<1>1. AttemptIs /\ UNCHANGED <<serverVars, handed, scratch, report>> /\ pane' = NoLogin
  BY TheAttempt DEF MoveCutShort, Mine
<1>2. /\ agent # NoLogin /\ agent.scratch /\ agent.phase = "code_sent" /\ agent.kind = "switch"
      /\ scratch \in Homes /\ scratch # NoLogin /\ scratch.block # NoLogin /\ scratch.cred = scratch.block
      /\ bound \in AnAccount /\ bound # NoLogin /\ home \in Homes
  BY DEF MoveCutShort, Mine, SignedIn, LoginInv, LoginTyped, AccountsAgree
<1>3. SaidTruly' /\ PaneIsTheAttempts' /\ ~GoesStraightIn'
  <2>1. SaidTruly
    BY DEF LoginInv, LoginTyped, WordTrue, SaidTruly
  <2>2. moves \subseteq moves'
    BY DEF MoveCutShort
  <2> QED
    BY <1>1, <2>1, <2>2 DEF SaidTruly, PaneIsTheAttempts, GoesStraightIn
<1>4. CASE /\ home' \in {[home EXCEPT !.block = scratch.block], scratch}
           /\ halves' = halves \cup {agent.at}
           /\ UNCHANGED <<agent, bound, moves>>
  <2>1. home' \in Homes
    BY <1>2, <1>4 DEF Homes
  <2>2. AccountsAgree'
    BY <1>1, <1>2, <1>4 DEF AccountsAgree
  <2>3. agent' \in LoginAttempts /\ agent'.phase # "said" /\ bound' \in AnAccount
    BY <1>1, <1>2, <1>4 DEF AttemptIs
  <2>4. scratch' \in Homes /\ (\A m \in moves' : m \in moves) /\ moves \subseteq moves'
    BY <1>1, <1>2, <1>4
  <2> QED
    BY <1>1, <1>2, <1>3, <1>4, <2>1, <2>2, <2>3, <2>4, SlotStep
<1>5. CASE /\ home' = scratch
           /\ bound' = scratch.block
           /\ agent' = [agent EXCEPT !.phase = "said", !.said = "SWITCHED"]
           /\ moves' = moves \cup {agent.at}
           /\ UNCHANGED halves
  <2>1. /\ agent' \in LoginAttempts /\ agent'.at = agent.at /\ agent'.kind = agent.kind
        /\ agent'.scratch = agent.scratch
    BY <1>1, <1>5 DEF AttemptIs, LoginAttempts, Details
  <2>2. bound' \in AnAccount /\ bound' # NoLogin /\ home' \in Homes
    BY <1>2, <1>5 DEF Homes
  <2>3. home' = [cred |-> bound', block |-> bound']
    BY <1>2, <1>5 DEF Homes
  <2>4. AccountsAgree'
    BY <1>1, <1>2, <1>3, <2>2, <2>3 DEF AccountsAgree
  <2>5. scratch' \in Homes /\ moves \subseteq moves' /\ agent'.at \in moves'
        /\ (\A m \in moves' : m \in moves \/ (agent # NoLogin /\ m = agent.at /\ agent.kind = "switch"))
    BY <1>1, <1>2, <1>5, <2>1
  <2> QED
    BY <1>1, <1>2, <1>3, <2>1, <2>2, <2>4, <2>5, SlotStep
<1> QED
  BY <1>4, <1>5 DEF MoveCutShort

(* A step the slot's files have no part in; a pane may be lost in it.       *)
LEMMA PaneLost ==
  ASSUME LoginInv, UNCHANGED <<agent, bound, home, scratch, moves, halves>>, pane' \in {pane, NoLogin}
  PROVE  PaneIsTheAttempts' /\ AccountsAgree' /\ pane' \in Panes \cup {NoLogin}
<1>1. PaneIsTheAttempts' /\ (GoesStraightIn' => GoesStraightIn) /\ pane' \in Panes \cup {NoLogin}
  BY DEF PaneIsTheAttempts, GoesStraightIn, LoginInv, LoginTyped
<1> QED
  BY <1>1 DEF AccountsAgree, LoginInv

LEMMA LostKeeps == ASSUME LoginInv, HeartbeatLost \/ RunEnds PROVE LoginInv'
<1>1. /\ UNCHANGED <<agent, bound, home, scratch, moves, halves, serverVars, handed>>
      /\ report' = NoLogin /\ pane' \in {pane, NoLogin}
  BY DEF HeartbeatLost, RunEnds
<1>2. PaneIsTheAttempts' /\ AccountsAgree' /\ pane' \in Panes \cup {NoLogin}
  BY <1>1, PaneLost
<1> QED
  BY <1>1, <1>2 DEF LoginInv, LoginTyped, ForTheRequest, WordTrue, serverVars

LEMMA AskKeeps ==
  ASSUME LoginInv, NEW k \in Kinds, RequestSlotLogin(k) PROVE LoginInv'
<1>1. /\ asked' = Append(asked, [kind |-> k, holder |-> holder])
      /\ row' = BeginLogin(Len(asked'), k) /\ slotIs # "releasing"
      /\ UNCHANGED <<slotIs, holder, weekOf, handed, slotVars, report, moves, halves>>
  BY DEF RequestSlotLogin
<1>2. asked \in Seq([kind : Kinds, holder : Nat]) /\ [kind |-> k, holder |-> holder] \in [kind : Kinds, holder : Nat]
  BY DEF LoginInv, LoginTyped
<1>3. /\ asked' \in Seq([kind : Kinds, holder : Nat]) /\ Len(asked') = Len(asked) + 1
      /\ asked'[Len(asked')] = [kind |-> k, holder |-> holder]
      /\ \A i \in DOMAIN asked : i \in DOMAIN asked' /\ asked'[i] = asked[i]
      /\ Len(asked') \in DOMAIN asked' /\ Len(asked') \in Nat /\ Len(asked') # 0
  BY <1>1, <1>2
<1>4. /\ row' \in LoginRows /\ row'.at = Len(asked') /\ row'.kind = k /\ row'.state = "requested"
  BY <1>1, <1>3 DEF BeginLogin, LoginRows, RowStates, Details
<1>5. PaneIsTheAttempts' /\ AccountsAgree'
  BY <1>1, PaneLost DEF slotVars
<1>6. LoginTyped'
  BY <1>1, <1>3, <1>4 DEF LoginInv, LoginTyped, slotVars
<1>7. ForTheRequest'
  BY <1>1, <1>3, <1>4 DEF LoginInv, ForTheRequest, slotVars
<1>8. WordTrue'
  BY <1>1, <1>3, <1>4 DEF LoginInv, WordTrue, slotVars
<1> QED
  BY <1>5, <1>6, <1>7, <1>8 DEF LoginInv

(* A step that leaves what was asked, and changes the row or the slot's     *)
(* state in what a sign-in looks at.                                        *)
LEMMA RowKeeps ==
  ASSUME LoginInv, UNCHANGED <<asked, holder, agent, bound, home, scratch, moves, halves>>,
         pane' \in {pane, NoLogin}, handed' \in Handed \cup {NoLogin}, SaidTruly',
         row' \in LoginRows \cup {NoLogin},
         row' # NoLogin => /\ row # NoLogin /\ row'.at = row.at /\ row'.kind = row.kind
                           /\ row'.state = "ready" => row'.secret = row'.at
                           /\ row'.state = "done" /\ row'.detail = "SWITCHED" => row'.at \in moves
                           /\ slotIs' # "releasing" \/ slotIs' = slotIs,
         handed' # NoLogin => \/ handed # NoLogin /\ handed' = handed
                              \/ row # NoLogin /\ handed'.at = row.at /\ handed'.kind = row.kind,
         weekOf' = 0 \/ weekOf' \in moves \/ weekOf' = weekOf
  PROVE  LoginInv'
<1>1. PaneIsTheAttempts' /\ AccountsAgree' /\ pane' \in Panes \cup {NoLogin}
  BY PaneLost
<1>2. LoginTyped'
  BY <1>1 DEF LoginInv, LoginTyped, SaidTruly
<1>3. ForTheRequest'
  <2>1. asked \in Seq([kind : Kinds, holder : Nat])
    BY DEF LoginInv, LoginTyped
  <2>2. row # NoLogin => row.at \in DOMAIN asked /\ row.at = Len(asked)
    BY <2>1 DEF LoginInv, ForTheRequest, LoginTyped, LoginRows
  <2>3. agent # NoLogin => agent.at \in DOMAIN asked /\ agent.at <= Len(asked)
    BY <2>1 DEF LoginInv, ForTheRequest
  <2>4. handed' # NoLogin => handed'.at \in DOMAIN asked /\ handed'.kind = asked[handed'.at].kind
    BY <2>2 DEF LoginInv, ForTheRequest
  <2>5. agent # NoLogin /\ handed' # NoLogin => agent.at <= handed'.at
    BY <2>2, <2>3 DEF LoginInv, ForTheRequest
  <2> QED
    BY <2>4, <2>5 DEF LoginInv, ForTheRequest
<1>4. WordTrue'
  BY DEF LoginInv, WordTrue, SaidTruly
<1> QED
  BY <1>1, <1>2, <1>3, <1>4 DEF LoginInv

LEMMA StillTrue == ASSUME LoginInv, UNCHANGED <<report, moves>> PROVE SaidTruly'
  BY DEF LoginInv, LoginTyped, WordTrue, SaidTruly

LEMMA ServerStepsKeep ==
  ASSUME LoginInv, SubmitSlotLoginCode \/ ReadSlotSecret \/ ClearSlotLogin \/ WeekPasses \/ ReleaseSlot
  PROVE  LoginInv'
<1>1. /\ UNCHANGED <<asked, holder, agent, bound, home, scratch, pane, moves, halves, handed, report>>
      /\ weekOf' = 0 \/ weekOf' = weekOf
  BY DEF SubmitSlotLoginCode, ReadSlotSecret, ClearSlotLogin, WeekPasses, ReleaseSlot, slotVars
<1>2. handed' \in Handed \cup {NoLogin}
  BY <1>1 DEF LoginInv, LoginTyped
<1>3. \/ row' = NoLogin
      \/ row' = row /\ slotIs' = slotIs
      \/ row # NoLogin /\ row' = [row EXCEPT !.state = "code_sent", !.code = TRUE] /\ slotIs' = slotIs
  BY DEF SubmitSlotLoginCode, ReadSlotSecret, ClearSlotLogin, WeekPasses, ReleaseSlot
<1>4. row \in LoginRows \cup {NoLogin}
  BY DEF LoginInv, LoginTyped
<1>5. /\ row' \in LoginRows \cup {NoLogin}
      /\ row' # NoLogin => /\ row # NoLogin /\ row'.at = row.at /\ row'.kind = row.kind
                           /\ row'.state = "ready" => row'.secret = row'.at
                           /\ row'.state = "done" /\ row'.detail = "SWITCHED" => row'.at \in moves
                           /\ slotIs' = slotIs
  <2>1. CASE row' = NoLogin
    BY <2>1
  <2>2. CASE row' = row /\ slotIs' = slotIs
    BY <1>4, <2>2 DEF LoginInv, WordTrue
  <2>3. CASE row # NoLogin /\ row' = [row EXCEPT !.state = "code_sent", !.code = TRUE] /\ slotIs' = slotIs
    <3>1. /\ row' \in LoginRows /\ row'.at = row.at /\ row'.kind = row.kind /\ row'.state = "code_sent"
      BY <1>4, <2>3 DEF LoginRows, RowStates
    <3> QED
      BY <2>3, <3>1
  <2> QED
    BY <1>3, <2>1, <2>2, <2>3
<1> QED
  BY <1>1, <1>2, <1>5, StillTrue, RowKeeps

LEMMA WipedKeeps == ASSUME LoginInv, WipedAndClaimed PROVE LoginInv'
<1>1. row = NoLogin
  BY DEF WipedAndClaimed, LoginInv, ForTheRequest
<1>2. PaneIsTheAttempts' /\ AccountsAgree'
  BY DEF WipedAndClaimed, PaneIsTheAttempts, AccountsAgree, GoesStraightIn, NoHome
<1>3. LoginTyped'
  BY <1>1 DEF WipedAndClaimed, LoginInv, LoginTyped, NoHome, Homes, AnAccount
<1>4. ForTheRequest' /\ WordTrue'
  BY <1>1 DEF WipedAndClaimed, LoginInv, ForTheRequest, WordTrue
<1> QED
  BY <1>2, <1>3, <1>4 DEF LoginInv

Changed(q, s, n, d) == [q EXCEPT !.state = s, !.code = FALSE, !.secret = n, !.detail = d]

LEMMA RowChanged ==
  ASSUME NEW q \in LoginRows, NEW s \in RowStates, NEW n \in Nat, NEW d \in Details
  PROVE  /\ Changed(q, s, n, d) \in LoginRows
         /\ Changed(q, s, n, d).at = q.at /\ Changed(q, s, n, d).kind = q.kind
         /\ Changed(q, s, n, d).state = s /\ Changed(q, s, n, d).secret = n
         /\ Changed(q, s, n, d).detail = d
<1> DEFINE x == Changed(q, s, n, d)
           y == [q EXCEPT !.state = s]
           z == [q EXCEPT !.state = s, !.code = FALSE]
           w == [q EXCEPT !.state = s, !.code = FALSE, !.secret = n]
<1>1. z = [y EXCEPT !.code = FALSE] /\ w = [z EXCEPT !.secret = n] /\ x = [w EXCEPT !.detail = d]
  BY DEF Changed
<1>2. y \in LoginRows /\ y.at = q.at /\ y.kind = q.kind /\ y.state = s
  BY DEF LoginRows
<1> HIDE DEF x, y, z, w
<1>3. z \in LoginRows /\ z.at = q.at /\ z.kind = q.kind /\ z.state = s
  BY <1>1, <1>2 DEF LoginRows
<1>4. w \in LoginRows /\ w.at = q.at /\ w.kind = q.kind /\ w.state = s /\ w.secret = n
  BY <1>1, <1>3 DEF LoginRows
<1>5. x \in LoginRows /\ x.at = q.at /\ x.kind = q.kind /\ x.state = s /\ x.secret = n /\ x.detail = d
  BY <1>1, <1>4 DEF LoginRows
<1> QED
  BY <1>5 DEF x

(* What a report makes of the row: still of the same request, and true.     *)
LEMMA RecordedIs ==
  ASSUME LoginInv, report # NoLogin
  PROVE  /\ RecordedRow(report) \in LoginRows \cup {NoLogin}
         /\ RecordedRow(report) # NoLogin =>
              /\ row # NoLogin /\ RecordedRow(report).at = row.at /\ RecordedRow(report).kind = row.kind
              /\ RecordedRow(report).state = "ready" => RecordedRow(report).secret = RecordedRow(report).at
              /\ RecordedRow(report).state = "done" /\ RecordedRow(report).detail = "SWITCHED" =>
                   RecordedRow(report).at \in moves
         /\ RecordedWeek(report) \in moves \/ RecordedWeek(report) = weekOf
<1> DEFINE p == report
           r == RecordedRow(p)
<1>1. /\ p \in LoginReports /\ row \in LoginRows \cup {NoLogin}
      /\ p.state = "ready" => p.secret = p.at /\ p.at # 0
      /\ p.state = "done" /\ p.detail = "SWITCHED" => p.at \in moves
      /\ row # NoLogin /\ row.state = "ready" => row.secret = row.at
      /\ row # NoLogin /\ row.state = "done" /\ row.detail = "SWITCHED" => row.at \in moves
  BY DEF LoginInv, LoginTyped, WordTrue
<1>2. p.state \in RowStates \cup {"none"} /\ p.at \in Nat /\ p.secret \in Nat /\ p.detail \in Details
  BY <1>1 DEF LoginReports
<1>3. RecordedWeek(p) \in moves \/ RecordedWeek(p) = weekOf
  BY <1>1 DEF RecordedWeek, Matches
<1> HIDE DEF p
<1>4. ASSUME row # NoLogin, Matches(p), p.state \in Waiting \cup {"ready", "done", "failed"}, r # row, r # NoLogin
      PROVE  /\ r \in LoginRows /\ r.at = row.at /\ r.kind = row.kind
             /\ r.state = "ready" => r.secret = r.at
             /\ r.state = "done" /\ r.detail = "SWITCHED" => r.at \in moves
  <2>1. p.at = row.at
    BY <1>4 DEF Matches
  <2>2. row \in LoginRows
    BY <1>1, <1>4
  <2>3. CASE p.state = "ready" /\ p.secret # 0
    <3>1. r = [row EXCEPT !.state = "ready", !.code = FALSE, !.secret = p.secret, !.detail = "none"]
      BY <1>4, <2>3 DEF RecordedRow
    <3>2. "ready" \in RowStates /\ "none" \in Details
      BY DEF RowStates, Details
    <3> DEFINE x == Changed(row, "ready", p.secret, "none")
    <3>4. x \in LoginRows /\ x.at = row.at /\ x.kind = row.kind /\ x.state = "ready" /\ x.secret = p.secret
      BY <1>2, <2>2, <3>2, RowChanged
    <3>5. r = x
      BY <3>1 DEF Changed
    <3> HIDE DEF r, x
    <3>3. r \in LoginRows /\ r.at = row.at /\ r.kind = row.kind /\ r.state = "ready" /\ r.secret = p.secret
      BY <3>4, <3>5
    <3> QED
      BY <1>1, <2>1, <2>3, <3>3
  <2>4. CASE p.state \in {"done", "failed"}
    <3>1. r = [row EXCEPT !.state = p.state, !.code = FALSE, !.secret = 0, !.detail = p.detail]
      BY <1>4, <2>4 DEF RecordedRow
    <3>2. p.state \in RowStates /\ 0 \in Nat
      BY <2>4 DEF RowStates
    <3> DEFINE x == Changed(row, p.state, 0, p.detail)
    <3>4. x \in LoginRows /\ x.at = row.at /\ x.kind = row.kind /\ x.state = p.state /\ x.detail = p.detail
      BY <1>2, <2>2, <3>2, RowChanged
    <3>5. r = x
      BY <3>1 DEF Changed
    <3> HIDE DEF r, x
    <3>3. r \in LoginRows /\ r.at = row.at /\ r.kind = row.kind /\ r.state = p.state /\ r.detail = p.detail
      BY <3>4, <3>5
    <3> QED
      BY <1>1, <2>1, <2>4, <3>3
  <2>5. CASE p.state \in Waiting
    <3> DEFINE c == IF p.state = "code_sent" THEN FALSE ELSE row.code
    <3>1. r = [row EXCEPT !.state = p.state, !.detail = p.detail, !.code = c]
      BY <1>4, <2>5 DEF RecordedRow, Waiting
    <3>2. p.state \in RowStates /\ c \in BOOLEAN
      BY <1>1, <1>4, <2>5 DEF RowStates, Waiting, LoginRows
    <3> HIDE DEF r, c
    <3>3. r \in LoginRows /\ r.at = row.at /\ r.kind = row.kind /\ r.state = p.state
      BY <1>1, <1>2, <1>4, <3>1, <3>2 DEF LoginRows
    <3> QED
      BY <2>5, <3>3 DEF Waiting
  <2> QED
    BY <1>1, <1>4, <2>3, <2>4, <2>5
<1>5. ~(row # NoLogin /\ Matches(p) /\ p.state \in Waiting \cup {"ready", "done", "failed"}) => r = row
  BY DEF RecordedRow
<1> HIDE DEF r
<1>6. r \in LoginRows \cup {NoLogin} /\
      (r # NoLogin => /\ row # NoLogin /\ r.at = row.at /\ r.kind = row.kind
                      /\ r.state = "ready" => r.secret = r.at
                      /\ r.state = "done" /\ r.detail = "SWITCHED" => r.at \in moves)
  BY <1>1, <1>4, <1>5
<1> QED
  BY <1>3, <1>6 DEF r, p

LEMMA HearsKeeps == ASSUME LoginInv, Heartbeat \/ HeartbeatReplyLost PROVE LoginInv'
<1>1. /\ report # NoLogin /\ report' = NoLogin /\ row' = RecordedRow(report) /\ weekOf' = RecordedWeek(report)
      /\ slotIs' # "releasing" \/ slotIs' = slotIs
      /\ UNCHANGED <<asked, holder, agent, bound, home, scratch, moves, halves>>
      /\ pane' \in {pane, NoLogin}
      /\ handed' = handed \/ handed' = LoginBlock(row', slotIs')
  BY DEF Heartbeat, HeartbeatReplyLost, Hears, slotVars
<1>2. SaidTruly'
  BY <1>1 DEF SaidTruly
<1>3. row' \in LoginRows \cup {NoLogin} /\ (row' # NoLogin => row # NoLogin /\ row'.at = row.at /\ row'.kind = row.kind)
  BY <1>1, RecordedIs
<1>4. handed' \in Handed \cup {NoLogin}
  <2>1. handed \in Handed \cup {NoLogin}
    BY DEF LoginInv, LoginTyped
  <2>2. row' # NoLogin => [at |-> row'.at, kind |-> row'.kind, code |-> row'.code /\ row'.state = "code_sent"] \in Handed
    BY <1>3 DEF Handed, LoginRows
  <2>3. LoginBlock(row', slotIs') \in Handed \cup {NoLogin}
    BY <2>2 DEF LoginBlock
  <2> QED
    BY <1>1, <2>1, <2>3
<1>5. handed' # NoLogin => \/ handed # NoLogin /\ handed' = handed
                           \/ row # NoLogin /\ handed'.at = row.at /\ handed'.kind = row.kind
  BY <1>1, <1>3 DEF LoginBlock
<1> QED
  BY <1>1, <1>2, <1>3, <1>4, <1>5, RecordedIs, RowKeeps

LEMMA LoginStepKeeps == ASSUME LoginInv, LoginNext \/ UNCHANGED loginVars PROVE LoginInv'
<1>1. CASE UNCHANGED loginVars
  BY <1>1 DEF loginVars, serverVars, slotVars, LoginInv, LoginTyped, ForTheRequest, PaneIsTheAttempts,
              WordTrue, AccountsAgree, GoesStraightIn
<1> QED
  BY <1>1, AskKeeps, ServerStepsKeep, WipedKeeps, HearsKeeps, LostKeeps, StopKeeps, StartKeeps, SayAgainKeeps,
     ReadUrlKeeps, TypeKeeps, ClaudeKeeps, TokenKeeps, RefusedKeeps, FirstSignInKeeps, AdoptKeeps,
     CutShortKeeps, WaitingKeeps, AbandonKeeps DEF LoginNext

LEMMA LoginInvGivesSound == LoginInv => LoginSound
  BY DEF LoginInv, ForTheRequest, WordTrue, AccountsAgree, LoginSound, RowSpeaksOfItsAttempt, SlotKeepsItsAccount

(* The page shows the outcome of the sign-in it is about: a token under a   *)
(* request is the one that request minted, for the holder who asked, and a  *)
(* change shown as done was made; and a slot keeps its account unless its   *)
(* holder asked to change it (record_login_progress, adopt_sign_in), in     *)
(* whatever order reports come, however many are lost or runs killed.       *)
THEOREM LoginSoundAlways == AgentsSpec => []LoginSound
<1>1. AgentsInit => LoginInv
  BY LoginInitSound DEF AgentsInit
<1>2. ASSUME LoginInv, [AgentsNext]_<<focus, agentVars, inVars, tpVars, rmVars>> PROVE LoginInv'
  <2>1. LoginNext \/ UNCHANGED loginVars
    BY <1>2 DEF AgentsNext, agentVars
  <2> QED
    BY <1>2, <2>1, LoginStepKeeps
<1> QED
  BY <1>1, <1>2, LoginInvGivesSound, PTL DEF AgentsSpec

-----------------------------------------------------------------------------
(* Background jobs: the inductive invariant.                                *)

(* A job's process group is there from its spawn on, and of a job nobody    *)
(* started there is nothing.                                                *)
GroupIsTheJobs == \A j \in Jobs :
  /\ place[j] \in {"none", "torn"} => sup[j] = "none" /\ cli[j] = "none" /\ ~confirmed[j]
  /\ cli[j] = "none" => ~guardian[j] /\ ~others[j]
  /\ sup[j] = "auth" => cli[j] = "none"

(* A supervisor that saves after a kill that went through saves the truth,  *)
(* and its record stands.                                                   *)
SavedIsGone == \A j \in Jobs :
  /\ confirmed[j] => ~Lives(j) /\ sup[j] = "none"
  /\ sup[j] = "save" /\ cleanup[j] => ~Lives(j)
  /\ sup[j] \in {"kill", "save"} => ending[j] # "none"

(* A job that lives is one that counts: the limit is on those that count.   *)
Counting == {j \in Jobs : JobCounted(j)}

JobInv ==
  /\ JobTypeOK /\ cleanup \in [Jobs -> BOOLEAN] /\ stopRequested \in [Jobs -> BOOLEAN]
  /\ GroupIsTheJobs /\ SavedIsGone
  /\ Cardinality(Counting) <= MaxJobs

(* Everything the invariant says of one job, and what a step of another     *)
(* leaves of it.                                                            *)
JobOK(j) ==
  /\ place[j] \in Places /\ jobState[j] \in TERMINAL \cup {"starting", "running"} /\ confirmed[j] \in BOOLEAN
  /\ sup[j] \in Up \cup {"none"} /\ allowed[j] \in {"asking", "yes", "no", "failed"}
  /\ ending[j] \in TERMINAL \cup {"none"} /\ cli[j] \in {"none", "starting", "working", "exited"}
  /\ guardian[j] \in BOOLEAN /\ others[j] \in BOOLEAN /\ cleanup[j] \in BOOLEAN
  /\ stopRequested[j] \in BOOLEAN
  /\ place[j] \in {"none", "torn"} => sup[j] = "none" /\ cli[j] = "none" /\ ~confirmed[j]
  /\ cli[j] = "none" => ~guardian[j] /\ ~others[j]
  /\ sup[j] = "auth" => cli[j] = "none"
  /\ confirmed[j] => ~Lives(j) /\ sup[j] = "none"
  /\ sup[j] = "save" /\ cleanup[j] => ~Lives(j)
  /\ sup[j] \in {"kill", "save"} => ending[j] # "none"

JobFunctions ==
  /\ place \in [Jobs -> Places] /\ jobState \in [Jobs -> TERMINAL \cup {"starting", "running"}]
  /\ confirmed \in [Jobs -> BOOLEAN] /\ sup \in [Jobs -> Up \cup {"none"}]
  /\ allowed \in [Jobs -> {"asking", "yes", "no", "failed"}] /\ ending \in [Jobs -> TERMINAL \cup {"none"}]
  /\ cli \in [Jobs -> {"none", "starting", "working", "exited"}]
  /\ guardian \in [Jobs -> BOOLEAN] /\ others \in [Jobs -> BOOLEAN]
  /\ cleanup \in [Jobs -> BOOLEAN] /\ stopRequested \in [Jobs -> BOOLEAN]

LEMMA JobInvIs == JobInv <=> /\ JobFunctions /\ (\A j \in Jobs : JobOK(j))
                             /\ Cardinality(Counting) <= MaxJobs
  BY DEF JobInv, JobFunctions, JobOK, JobTypeOK, GroupIsTheJobs, SavedIsGone

LEMMA CountingKept ==
  ASSUME Counting' \subseteq Counting, Cardinality(Counting) <= MaxJobs
  PROVE  Cardinality(Counting') <= MaxJobs
<1>1. IsFiniteSet(Counting)
  <2>1. Counting \subseteq Jobs
    BY DEF Counting
  <2> QED
    BY <2>1, LocalJobsAssumption, FS_Subset
<1>2. IsFiniteSet(Counting') /\ Cardinality(Counting') <= Cardinality(Counting)
  BY <1>1, FS_Subset
<1>3. Cardinality(Counting) \in Nat /\ Cardinality(Counting') \in Nat
  BY <1>1, <1>2, FS_CardinalityType
<1> QED
  BY <1>2, <1>3, LocalJobsAssumption

(* One job taken in, where there is room for it.                            *)
LEMMA CountingGrows ==
  ASSUME NEW j \in Jobs, Counting' \subseteq Counting \cup {j}, Cardinality(Counting) < MaxJobs
  PROVE  Cardinality(Counting') <= MaxJobs
<1>1. IsFiniteSet(Counting)
  <2>1. Counting \subseteq Jobs
    BY DEF Counting
  <2> QED
    BY <2>1, LocalJobsAssumption, FS_Subset
<1>2. IsFiniteSet(Counting \cup {j}) /\ Cardinality(Counting \cup {j}) <= Cardinality(Counting) + 1
  <2>1. IsFiniteSet(Counting \cup {j})
    BY <1>1, FS_AddElement
  <2>2. Cardinality(Counting \cup {j}) = Cardinality(Counting) \/ Cardinality(Counting \cup {j}) = Cardinality(Counting) + 1
    BY <1>1, FS_AddElement
  <2>3. Cardinality(Counting) \in Nat
    BY <1>1, FS_CardinalityType
  <2> QED
    BY <2>1, <2>2, <2>3
<1>3. IsFiniteSet(Counting') /\ Cardinality(Counting') <= Cardinality(Counting \cup {j})
  BY <1>2, FS_Subset
<1>4. Cardinality(Counting) \in Nat /\ Cardinality(Counting') \in Nat /\ Cardinality(Counting \cup {j}) \in Nat
  BY <1>1, <1>2, <1>3, FS_CardinalityType
<1> QED
  BY <1>2, <1>3, <1>4, LocalJobsAssumption

(* A step of one job: the others are as they were.                          *)
OthersAsTheyWere(j) ==
  \A k \in Jobs \ {j} :
    /\ place'[k] = place[k] /\ jobState'[k] = jobState[k] /\ confirmed'[k] = confirmed[k]
    /\ sup'[k] = sup[k] /\ cleanup'[k] = cleanup[k] /\ ending'[k] = ending[k]
    /\ cli'[k] = cli[k] /\ guardian'[k] = guardian[k] /\ others'[k] = others[k]

LEMMA OneJob ==
  ASSUME JobInv, NEW j \in Jobs, JobFunctions', JobOK(j)', OthersAsTheyWere(j),
         JobCounted(j)' => JobCounted(j) \/ MayStart(j)
  PROVE  JobInv'
<1>1. \A k \in Jobs : JobOK(k)'
  BY JobInvIs DEF OthersAsTheyWere, JobOK, Lives, JobFunctions
<1>2. \A k \in Jobs \ {j} : JobCounted(k)' => JobCounted(k)
  BY DEF OthersAsTheyWere, JobCounted
<1>3. Cardinality(Counting)' <= MaxJobs
  <2>1. CASE JobCounted(j)' => JobCounted(j)
    <3>1. Counting' \subseteq Counting
      BY <1>2, <2>1 DEF Counting
    <3> QED
      BY <3>1, CountingKept, JobInvIs
  <2>2. CASE MayStart(j)
    <3>1. Counting' \subseteq Counting \cup {j}
      BY <1>2 DEF Counting
    <3>2. Cardinality(Counting) < MaxJobs
      BY <2>2 DEF MayStart, Counting
    <3> QED
      BY <3>1, <3>2, CountingGrows
  <2> QED
    BY <2>1, <2>2
<1> QED
  BY <1>1, <1>3 DEF JobInv, JobFunctions, JobOK, JobTypeOK, GroupIsTheJobs, SavedIsGone

LEMMA JobInitSound == JobInit => JobInv
<1> SUFFICES ASSUME JobInit PROVE JobInv
  OBVIOUS
<1>1. Counting = {}
  BY DEF JobInit, Counting, JobCounted
<1>2. Cardinality(Counting) <= MaxJobs
  BY <1>1, FS_EmptySet, LocalJobsAssumption
<1> QED
  BY <1>2 DEF JobInv, JobInit, JobTypeOK, GroupIsTheJobs, SavedIsGone, Lives, Places, Up, TERMINAL

LEMMA Job_start == ASSUME JobInv, NEW j \in Jobs, start(j) PROVE JobInv'
<1>1. JobFunctions /\ JobOK(j)
  BY JobInvIs
<1>2. JobFunctions'
  BY <1>1 DEF JobFunctions, JobOK, start, Set, Fault, EndWith, GroupKilled, Dead, record, supervisor, group, world, Places, Up, TERMINAL
<1>3. JobOK(j)'
  BY <1>1 DEF JobFunctions, JobOK, start, Set, Fault, EndWith, GroupKilled, Dead, record, supervisor, group, world, Lives, _running, Places, Up, TERMINAL, MayStart
<1>4. OthersAsTheyWere(j) /\ (JobCounted(j)' => JobCounted(j) \/ MayStart(j))
  BY <1>1 DEF JobFunctions, start, Set, Fault, EndWith, GroupKilled, Dead, record, supervisor, group, world, OthersAsTheyWere, JobCounted
<1> QED
  BY <1>2, <1>3, <1>4, OneJob

LEMMA Job_start_killed == ASSUME JobInv, NEW j \in Jobs, start_killed(j) PROVE JobInv'
<1>1. JobFunctions /\ JobOK(j)
  BY JobInvIs
<1>2. JobFunctions'
  BY <1>1 DEF JobFunctions, JobOK, start_killed, Set, Fault, EndWith, GroupKilled, Dead, record, supervisor, group, world, Places, Up, TERMINAL
<1>3. JobOK(j)'
  BY <1>1 DEF JobFunctions, JobOK, start_killed, Set, Fault, EndWith, GroupKilled, Dead, record, supervisor, group, world, Lives, _running, Places, Up, TERMINAL, MayStart
<1>4. OthersAsTheyWere(j) /\ (JobCounted(j)' => JobCounted(j) \/ MayStart(j))
  BY <1>1 DEF JobFunctions, start_killed, Set, Fault, EndWith, GroupKilled, Dead, record, supervisor, group, world, OthersAsTheyWere, JobCounted
<1> QED
  BY <1>2, <1>3, <1>4, OneJob

LEMMA Job_stop == ASSUME JobInv, NEW j \in Jobs, stop(j) PROVE JobInv'
<1>1. JobFunctions /\ JobOK(j)
  BY JobInvIs
<1>2. JobFunctions'
  BY <1>1 DEF JobFunctions, JobOK, stop, Set, Fault, EndWith, GroupKilled, Dead, record, supervisor, group, world, Places, Up, TERMINAL
<1>3. JobOK(j)'
  BY <1>1 DEF JobFunctions, JobOK, stop, Set, Fault, EndWith, GroupKilled, Dead, record, supervisor, group, world, Lives, _running, Places, Up, TERMINAL
<1>4. OthersAsTheyWere(j) /\ (JobCounted(j)' => JobCounted(j) \/ MayStart(j))
  BY <1>1 DEF JobFunctions, stop, Set, Fault, EndWith, GroupKilled, Dead, record, supervisor, group, world, OthersAsTheyWere, JobCounted
<1> QED
  BY <1>2, <1>3, <1>4, OneJob

LEMMA Job_archive == ASSUME JobInv, NEW j \in Jobs, archive(j) PROVE JobInv'
<1>1. JobFunctions /\ JobOK(j)
  BY JobInvIs
<1>2. JobFunctions'
  BY <1>1 DEF JobFunctions, JobOK, archive, Set, Fault, EndWith, GroupKilled, Dead, record, supervisor, group, world, Places, Up, TERMINAL
<1>3. JobOK(j)'
  BY <1>1 DEF JobFunctions, JobOK, archive, Set, Fault, EndWith, GroupKilled, Dead, record, supervisor, group, world, Lives, _running, Places, Up, TERMINAL
<1>4. OthersAsTheyWere(j) /\ (JobCounted(j)' => JobCounted(j) \/ MayStart(j))
  BY <1>1 DEF JobFunctions, archive, Set, Fault, EndWith, GroupKilled, Dead, record, supervisor, group, world, OthersAsTheyWere, JobCounted
<1> QED
  BY <1>2, <1>3, <1>4, OneJob

LEMMA Job_authorize == ASSUME JobInv, NEW j \in Jobs, authorize(j) PROVE JobInv'
<1>1. JobFunctions /\ JobOK(j)
  BY JobInvIs
<1>2. JobFunctions'
  BY <1>1 DEF JobFunctions, JobOK, authorize, Set, Fault, EndWith, GroupKilled, Dead, record, supervisor, group, world, Places, Up, TERMINAL
<1>3. JobOK(j)'
  BY <1>1 DEF JobFunctions, JobOK, authorize, Set, Fault, EndWith, GroupKilled, Dead, record, supervisor, group, world, Lives, _running, Places, Up, TERMINAL
<1>4. OthersAsTheyWere(j) /\ (JobCounted(j)' => JobCounted(j) \/ MayStart(j))
  BY <1>1 DEF JobFunctions, authorize, Set, Fault, EndWith, GroupKilled, Dead, record, supervisor, group, world, OthersAsTheyWere, JobCounted
<1> QED
  BY <1>2, <1>3, <1>4, OneJob

LEMMA Job_AskAgain == ASSUME JobInv, NEW j \in Jobs, AskAgain(j) PROVE JobInv'
<1>1. JobFunctions /\ JobOK(j)
  BY JobInvIs
<1>2. JobFunctions'
  BY <1>1 DEF JobFunctions, JobOK, AskAgain, Set, Fault, EndWith, GroupKilled, Dead, record, supervisor, group, world, Places, Up, TERMINAL
<1>3. JobOK(j)'
  BY <1>1 DEF JobFunctions, JobOK, AskAgain, Set, Fault, EndWith, GroupKilled, Dead, record, supervisor, group, world, Lives, _running, Places, Up, TERMINAL
<1>4. OthersAsTheyWere(j) /\ (JobCounted(j)' => JobCounted(j) \/ MayStart(j))
  BY <1>1 DEF JobFunctions, AskAgain, Set, Fault, EndWith, GroupKilled, Dead, record, supervisor, group, world, OthersAsTheyWere, JobCounted
<1> QED
  BY <1>2, <1>3, <1>4, OneJob

LEMMA Job_Spawn == ASSUME JobInv, NEW j \in Jobs, Spawn(j) PROVE JobInv'
<1>1. JobFunctions /\ JobOK(j)
  BY JobInvIs
<1>2. JobFunctions'
  BY <1>1 DEF JobFunctions, JobOK, Spawn, Set, Fault, EndWith, GroupKilled, Dead, record, supervisor, group, world, Places, Up, TERMINAL
<1>3. JobOK(j)'
  BY <1>1 DEF JobFunctions, JobOK, Spawn, Set, Fault, EndWith, GroupKilled, Dead, record, supervisor, group, world, Lives, _running, Places, Up, TERMINAL
<1>4. OthersAsTheyWere(j) /\ (JobCounted(j)' => JobCounted(j) \/ MayStart(j))
  BY <1>1 DEF JobFunctions, Spawn, Set, Fault, EndWith, GroupKilled, Dead, record, supervisor, group, world, OthersAsTheyWere, JobCounted
<1> QED
  BY <1>2, <1>3, <1>4, OneJob

LEMMA Job_Handshake == ASSUME JobInv, NEW j \in Jobs, Handshake(j) PROVE JobInv'
<1>1. JobFunctions /\ JobOK(j)
  BY JobInvIs
<1>2. JobFunctions'
  BY <1>1 DEF JobFunctions, JobOK, Handshake, Set, Fault, EndWith, GroupKilled, Dead, record, supervisor, group, world, Places, Up, TERMINAL
<1>3. JobOK(j)'
  BY <1>1 DEF JobFunctions, JobOK, Handshake, Set, Fault, EndWith, GroupKilled, Dead, record, supervisor, group, world, Lives, _running, Places, Up, TERMINAL
<1>4. OthersAsTheyWere(j) /\ (JobCounted(j)' => JobCounted(j) \/ MayStart(j))
  BY <1>1 DEF JobFunctions, Handshake, Set, Fault, EndWith, GroupKilled, Dead, record, supervisor, group, world, OthersAsTheyWere, JobCounted
<1> QED
  BY <1>2, <1>3, <1>4, OneJob

LEMMA Job_End == ASSUME JobInv, NEW j \in Jobs, End(j) PROVE JobInv'
<1>1. JobFunctions /\ JobOK(j)
  BY JobInvIs
<1>2. JobFunctions'
  BY <1>1 DEF JobFunctions, JobOK, End, Set, Fault, EndWith, GroupKilled, Dead, record, supervisor, group, world, Places, Up, TERMINAL
<1>3. JobOK(j)'
  BY <1>1 DEF JobFunctions, JobOK, End, Set, Fault, EndWith, GroupKilled, Dead, record, supervisor, group, world, Lives, _running, Places, Up, TERMINAL
<1>4. OthersAsTheyWere(j) /\ (JobCounted(j)' => JobCounted(j) \/ MayStart(j))
  BY <1>1 DEF JobFunctions, End, Set, Fault, EndWith, GroupKilled, Dead, record, supervisor, group, world, OthersAsTheyWere, JobCounted
<1> QED
  BY <1>2, <1>3, <1>4, OneJob

LEMMA Job_KillGroup == ASSUME JobInv, NEW j \in Jobs, KillGroup(j) PROVE JobInv'
<1>1. JobFunctions /\ JobOK(j)
  BY JobInvIs
<1>2. JobFunctions'
  BY <1>1 DEF JobFunctions, JobOK, KillGroup, Set, Fault, EndWith, GroupKilled, Dead, record, supervisor, group, world, Places, Up, TERMINAL
<1>3. JobOK(j)'
  <2>1. /\ sup[j] = "kill" /\ sup'[j] = "save"
        /\ UNCHANGED <<place, jobState, confirmed, stopRequested, allowed, ending>>
        /\ \/ /\ cli'[j] \in {"none", "exited"} /\ (cli'[j] = "none" => cli[j] = "none")
              /\ guardian'[j] = FALSE /\ others'[j] = FALSE /\ cleanup'[j] = cleanup[j]
           \/ cleanup'[j] = FALSE /\ UNCHANGED <<cli, guardian, others>>
    BY <1>1 DEF KillGroup, Set, GroupKilled, Dead, JobFunctions, record, group
  <2>2. ~confirmed[j] /\ place[j] \notin {"none", "torn"}
    BY <1>1, <2>1 DEF JobOK
  <2> QED
    BY <1>1, <2>1, <2>2 DEF JobOK, Lives, Up
<1>4. OthersAsTheyWere(j) /\ (JobCounted(j)' => JobCounted(j) \/ MayStart(j))
  BY <1>1 DEF JobFunctions, KillGroup, Set, Fault, EndWith, GroupKilled, Dead, record, supervisor, group, world, OthersAsTheyWere, JobCounted
<1> QED
  BY <1>2, <1>3, <1>4, OneJob

LEMMA Job_SaveEnd == ASSUME JobInv, NEW j \in Jobs, SaveEnd(j) PROVE JobInv'
<1>1. JobFunctions /\ JobOK(j) /\ sup[j] = "save"
  BY JobInvIs DEF SaveEnd
<1>2. /\ sup' = [sup EXCEPT ![j] = "none"]
      /\ \/ /\ jobState' = [jobState EXCEPT ![j] = ending[j]]
            /\ confirmed' = [confirmed EXCEPT ![j] = cleanup[j]]
         \/ UNCHANGED <<jobState, confirmed>>
      /\ UNCHANGED <<place, stopRequested, allowed, ending, cleanup, cli, guardian, others>>
  BY DEF SaveEnd, Set, group
<1>3. ending[j] \in TERMINAL /\ cleanup[j] \in BOOLEAN /\ ~confirmed[j] /\ place[j] \notin {"none", "torn"}
  BY <1>1 DEF JobOK
<1>4. /\ sup'[j] = "none"
      /\ \/ jobState'[j] = ending[j] /\ confirmed'[j] = cleanup[j]
         \/ jobState'[j] = jobState[j] /\ confirmed'[j] = confirmed[j]
  BY <1>1, <1>2 DEF JobFunctions
<1>5. JobFunctions'
  BY <1>1, <1>2, <1>3 DEF JobFunctions
<1>6. JobOK(j)'
  BY <1>1, <1>2, <1>3, <1>4 DEF JobOK, Lives
<1>7. OthersAsTheyWere(j) /\ (JobCounted(j)' => JobCounted(j))
  BY <1>1, <1>2, <1>3 DEF JobFunctions, OthersAsTheyWere, JobCounted
<1> QED
  BY <1>5, <1>6, <1>7, OneJob

LEMMA Job_parent_guard == ASSUME JobInv, NEW j \in Jobs, parent_guard(j) PROVE JobInv'
<1>1. JobFunctions /\ JobOK(j)
  BY JobInvIs
<1>2. JobFunctions'
  BY <1>1 DEF JobFunctions, JobOK, parent_guard, Set, Fault, EndWith, GroupKilled, Dead, record, supervisor, group, world, Places, Up, TERMINAL
<1>3. JobOK(j)'
  <2>1. /\ cli[j] = "starting" /\ UNCHANGED <<record, supervisor, others, world>>
        /\ \/ guardian'[j] = TRUE /\ cli'[j] = "working"
           \/ cli'[j] = "exited" /\ guardian'[j] = guardian[j]
    BY <1>1 DEF parent_guard, Set, JobFunctions
  <2>2. ~confirmed[j] /\ place[j] \notin {"none", "torn"} /\ ~(sup[j] = "save" /\ cleanup[j]) /\ sup[j] # "auth"
    BY <1>1, <2>1 DEF JobOK, Lives
  <2> QED
    BY <1>1, <2>1, <2>2 DEF JobOK, Lives, record, supervisor
<1>4. OthersAsTheyWere(j) /\ (JobCounted(j)' => JobCounted(j) \/ MayStart(j))
  BY <1>1 DEF JobFunctions, parent_guard, Set, Fault, EndWith, GroupKilled, Dead, record, supervisor, group, world, OthersAsTheyWere, JobCounted
<1> QED
  BY <1>2, <1>3, <1>4, OneJob

LEMMA Job_LeaveRunning == ASSUME JobInv, NEW j \in Jobs, LeaveRunning(j) PROVE JobInv'
<1>1. JobFunctions /\ JobOK(j)
  BY JobInvIs
<1>2. JobFunctions'
  BY <1>1 DEF JobFunctions, JobOK, LeaveRunning, Set, Fault, EndWith, GroupKilled, Dead, record, supervisor, group, world, Places, Up, TERMINAL
<1>3. JobOK(j)'
  BY <1>1 DEF JobFunctions, JobOK, LeaveRunning, Set, Fault, EndWith, GroupKilled, Dead, record, supervisor, group, world, Lives, _running, Places, Up, TERMINAL
<1>4. OthersAsTheyWere(j) /\ (JobCounted(j)' => JobCounted(j) \/ MayStart(j))
  BY <1>1 DEF JobFunctions, LeaveRunning, Set, Fault, EndWith, GroupKilled, Dead, record, supervisor, group, world, OthersAsTheyWere, JobCounted
<1> QED
  BY <1>2, <1>3, <1>4, OneJob

LEMMA Job_Exit == ASSUME JobInv, NEW j \in Jobs, Exit(j) PROVE JobInv'
<1>1. JobFunctions /\ JobOK(j)
  BY JobInvIs
<1>2. JobFunctions'
  BY <1>1 DEF JobFunctions, JobOK, Exit, Set, Fault, EndWith, GroupKilled, Dead, record, supervisor, group, world, Places, Up, TERMINAL
<1>3. JobOK(j)'
  BY <1>1 DEF JobFunctions, JobOK, Exit, Set, Fault, EndWith, GroupKilled, Dead, record, supervisor, group, world, Lives, _running, Places, Up, TERMINAL
<1>4. OthersAsTheyWere(j) /\ (JobCounted(j)' => JobCounted(j) \/ MayStart(j))
  BY <1>1 DEF JobFunctions, Exit, Set, Fault, EndWith, GroupKilled, Dead, record, supervisor, group, world, OthersAsTheyWere, JobCounted
<1> QED
  BY <1>2, <1>3, <1>4, OneJob

LEMMA Job_GuardianKills == ASSUME JobInv, NEW j \in Jobs, GuardianKills(j) PROVE JobInv'
<1>1. JobFunctions /\ JobOK(j)
  BY JobInvIs
<1>2. JobFunctions'
  BY <1>1 DEF JobFunctions, JobOK, GuardianKills, Set, Fault, EndWith, GroupKilled, Dead, record, supervisor, group, world, Places, Up, TERMINAL
<1>3. JobOK(j)'
  BY <1>1 DEF JobFunctions, JobOK, GuardianKills, Set, Fault, EndWith, GroupKilled, Dead, record, supervisor, group, world, Lives, _running, Places, Up, TERMINAL
<1>4. OthersAsTheyWere(j) /\ (JobCounted(j)' => JobCounted(j) \/ MayStart(j))
  BY <1>1 DEF JobFunctions, GuardianKills, Set, Fault, EndWith, GroupKilled, Dead, record, supervisor, group, world, OthersAsTheyWere, JobCounted
<1> QED
  BY <1>2, <1>3, <1>4, OneJob

LEMMA Job_SupervisorKilled == ASSUME JobInv, NEW j \in Jobs, SupervisorKilled(j) PROVE JobInv'
<1>1. JobFunctions /\ JobOK(j)
  BY JobInvIs
<1>2. JobFunctions'
  BY <1>1 DEF JobFunctions, JobOK, SupervisorKilled, Set, Fault, EndWith, GroupKilled, Dead, record, supervisor, group, world, Places, Up, TERMINAL
<1>3. JobOK(j)'
  BY <1>1 DEF JobFunctions, JobOK, SupervisorKilled, Set, Fault, EndWith, GroupKilled, Dead, record, supervisor, group, world, Lives, _running, Places, Up, TERMINAL
<1>4. OthersAsTheyWere(j) /\ (JobCounted(j)' => JobCounted(j) \/ MayStart(j))
  BY <1>1 DEF JobFunctions, SupervisorKilled, Set, Fault, EndWith, GroupKilled, Dead, record, supervisor, group, world, OthersAsTheyWere, JobCounted
<1> QED
  BY <1>2, <1>3, <1>4, OneJob


LEMMA Job_Reboot == ASSUME JobInv, Reboot PROVE JobInv'
<1>1. JobFunctions /\ (\A j \in Jobs : JobOK(j)) /\ Cardinality(Counting) <= MaxJobs
  BY JobInvIs
<1>2. JobFunctions'
  BY <1>1 DEF JobFunctions, Reboot, record, Up
<1>3. \A j \in Jobs : JobOK(j)'
  BY <1>1 DEF JobFunctions, JobOK, Reboot, record, Lives, Up
<1>4. Counting' = Counting
  BY DEF Counting, JobCounted, Reboot, record
<1> QED
  BY <1>1, <1>2, <1>3, <1>4 DEF JobInv, JobFunctions, JobOK, JobTypeOK, GroupIsTheJobs, SavedIsGone

LEMMA JobsUnmoved == ASSUME JobInv, UNCHANGED <<record, supervisor, group>> PROVE JobInv'
<1>1. Counting' = Counting
  BY DEF Counting, JobCounted, record
<1> QED
  BY <1>1 DEF JobInv, JobTypeOK, GroupIsTheJobs, SavedIsGone, Lives, record, supervisor, group

LEMMA JobStepKeeps == ASSUME JobInv, JobNext \/ UNCHANGED jobVars PROVE JobInv'
<1>1. CASE UNCHANGED jobVars \/ Unpair
  BY <1>1, JobsUnmoved DEF jobVars, Unpair, record, supervisor, group
<1>2. CASE Reboot
  BY <1>2, Job_Reboot
<1>3. CASE \E j \in Jobs : Supervise(j)
  BY <1>3, Job_authorize, Job_AskAgain, Job_Spawn, Job_Handshake, Job_End, Job_KillGroup, Job_SaveEnd DEF Supervise
<1>4. CASE \E j \in Jobs : \/ start(j) \/ start_killed(j) \/ stop(j) \/ archive(j)
                          \/ parent_guard(j) \/ LeaveRunning(j) \/ Exit(j) \/ GuardianKills(j)
                          \/ SupervisorKilled(j)
  BY <1>4, Job_start, Job_start_killed, Job_stop, Job_archive, Job_parent_guard, Job_LeaveRunning, Job_Exit,
     Job_GuardianKills, Job_SupervisorKilled
<1> QED
  BY <1>1, <1>2, <1>3, <1>4 DEF JobNext

LEMMA JobInvGivesSound == JobInv => JobsSound
<1> SUFFICES ASSUME JobInv PROVE JobsSound
  OBVIOUS
<1>1. \A j \in Jobs : JobOK(j)
  BY JobInvIs
<1>2. ConfirmedMeansGone
  BY <1>1 DEF ConfirmedMeansGone, JobOK
<1> DEFINE L == {j \in Jobs : place[j] = "jobs" /\ (_running(j) \/ Lives(j))}
<1>3. L \subseteq Counting
  BY <1>1 DEF JobOK, Counting, JobCounted, _running, Up
<1>4. IsFiniteSet(Counting)
  <2>1. Counting \subseteq Jobs
    BY DEF Counting
  <2> QED
    BY <2>1, LocalJobsAssumption, FS_Subset
<1>5. IsFiniteSet(L) /\ Cardinality(L) <= Cardinality(Counting)
  BY <1>3, <1>4, FS_Subset
<1>6. Cardinality(Counting) <= MaxJobs /\ Cardinality(Counting) \in Nat /\ Cardinality(L) \in Nat
  BY <1>4, <1>5, FS_CardinalityType DEF JobInv
<1> HIDE DEF L
<1>7. Cardinality(L) <= MaxJobs
  BY <1>5, <1>6, LocalJobsAssumption
<1> QED
  BY <1>2, <1>7 DEF JobsSound, WithinMaxJobs, L

(* A job whose record says it was cleaned up has nothing of its process     *)
(* group running, and no more jobs run or may still be running than the     *)
(* limit, whatever supervisors are killed, kills refused and saves lost     *)
(* (local_jobs.py: start, _supervise, the guardian).                        *)
THEOREM JobsSoundAlways == AgentsSpec => []JobsSound
<1>1. AgentsInit => JobInv
  BY JobInitSound DEF AgentsInit
<1>2. ASSUME JobInv, [AgentsNext]_<<focus, agentVars, inVars, tpVars, rmVars>> PROVE JobInv'
  <2>1. JobNext \/ UNCHANGED jobVars
    BY <1>2 DEF AgentsNext, agentVars
  <2> QED
    BY <1>2, <2>1, JobStepKeeps
<1> QED
  BY <1>1, <1>2, JobInvGivesSound, PTL DEF AgentsSpec

-----------------------------------------------------------------------------
(* Model requests: the inductive invariant, of the connections `calls`, of  *)
(* answers that are `parts` long.                                           *)

FrameRecords == [head : {"none", "ok", "error", "retryable"}, parts : Nat, end : BOOLEAN,
                 exit : {"none", "zero", "two"}]
CallRecords ==
  [at : {"none", "queued", "body", "head", "stream", "ending", "clear", "gone"}, client : BOOLEAN,
   got : {"none", "busy", "error", "begun", "whole"}, parts : Nat, ssh : {"none", "up", "down"},
   relay : {"none", "checks", "connect", "last", "post", "reply", "stream", "over"}, bound : 0..2,
   cancelled : BOOLEAN, sent : BOOLEAN, up : {"none", "asked", "refused", "answers", "answered", "broken"},
   upParts : Nat, out : FrameRecords]

(* Before its POST a request is nowhere upstream; its relay writes nothing  *)
(* before upstream answers, and nothing after its end.                      *)
RelayInOrder(q, parts) ==
  /\ q.at \in {"none", "queued", "body"} => q.relay = "none" /\ q.ssh = "none"
  /\ q.relay \in {"none", "checks", "connect", "last", "post"} => ~q.sent
  /\ q.relay \in {"reply", "stream"} => q.sent
  /\ ~q.sent => q.up = "none" /\ q.upParts = 0
  /\ q.relay \notin {"stream", "over"} => q.out = NoFrames
  /\ q.relay = "stream" => q.out.head = "ok" /\ ~q.out.end /\ q.up \in {"answers", "answered", "broken"}
  /\ q.out.head # "ok" => q.out.parts = 0
  /\ q.out.parts <= q.upParts
  /\ q.up = "answered" => q.upParts = parts

(* What is copied is what the relay wrote, and an end is of the whole.      *)
CopiedInOrder(q, parts) ==
  /\ q.parts <= q.out.parts
  /\ q.out.head = "ok" /\ q.out.end => q.up = "answered" /\ q.out.parts = parts
  /\ q.out.head = "ok" /\ q.out.exit = "zero" => q.out.end
  /\ q.at = "ending" \/ q.got = "whole" => q.out.end /\ q.parts = q.out.parts
  /\ q.got = "whole" => q.at \in {"clear", "gone"}
  /\ q.out.head = "retryable" => q.up \in {"none", "refused"} /\ q.relay = "over"

CallSound(q, parts) == RelayInOrder(q, parts) /\ CopiedInOrder(q, parts)

CallsInv(calls, parts) ==
  /\ inCall \in [calls -> CallRecords] /\ inAccount \in 0..2
  /\ \A c \in calls : CallSound(inCall[c], parts)
  /\ inBridge = "closed" => \A c \in calls : inCall[c].ssh # "up"

LEMMA OneCall ==
  ASSUME NEW calls, NEW parts, CallsInv(calls, parts), NEW c \in calls,
         NEW q \in CallRecords, CallSound(q, parts), Changes(c, q), Others,
         inBridge = "closed" => q.ssh # "up"
  PROVE  CallsInv(calls, parts)'
  BY DEF CallsInv, Changes, Others

LEMMA TheCall ==
  ASSUME NEW calls, NEW parts, CallsInv(calls, parts), NEW c \in calls
  PROVE  /\ inCall[c] \in CallRecords /\ CallSound(inCall[c], parts)
         /\ inBridge = "closed" => inCall[c].ssh # "up"
  BY DEF CallsInv

(* A relay that fails: a whole answer of its own if it has said nothing.    *)
Failed(q, retryable) ==
  [q EXCEPT !.relay = "over",
    !.out = IF @.head = "none"
            THEN [head |-> IF retryable THEN "retryable" ELSE "error", parts |-> 0,
                  end |-> TRUE, exit |-> "two"]
            ELSE [@ EXCEPT !.exit = "two"]]

LEMMA FailedIs ==
  ASSUME NEW parts, NEW q \in CallRecords, CallSound(q, parts), NEW retryable \in BOOLEAN,
         q.relay \in {"checks", "connect", "last", "post", "reply", "stream"},
         retryable => q.up \in {"none", "refused"}
  PROVE  Failed(q, retryable) \in CallRecords /\ CallSound(Failed(q, retryable), parts)
         /\ Failed(q, retryable).ssh = q.ssh
<1> DEFINE f == IF q.out.head = "none"
                THEN [head |-> IF retryable THEN "retryable" ELSE "error", parts |-> 0,
                      end |-> TRUE, exit |-> "two"]
                ELSE [q.out EXCEPT !.exit = "two"]
           p == [q EXCEPT !.relay = "over"]
           r == Failed(q, retryable)
<1>1. r = [p EXCEPT !.out = f]
  BY DEF Failed
<1>2. q.out \in FrameRecords
  BY DEF CallRecords
<1>3. q.relay = "stream" \/ q.out = NoFrames
  BY DEF CallSound, RelayInOrder
<1>4. /\ f \in FrameRecords
      /\ IF q.out.head = "none"
         THEN /\ f.parts = 0 /\ f.end = TRUE /\ f.head \in {"error", "retryable"}
              /\ f.head = "retryable" => q.up \in {"none", "refused"}
         ELSE f.head = "ok" /\ f.parts = q.out.parts /\ f.end = q.out.end
      /\ f.exit = "two"
  <2>1. CASE q.out.head = "none"
    <3>1. f = IF retryable THEN [head |-> "retryable", parts |-> 0, end |-> TRUE, exit |-> "two"]
              ELSE [head |-> "error", parts |-> 0, end |-> TRUE, exit |-> "two"]
      BY <2>1
    <3> HIDE DEF f
    <3> QED
      BY <2>1, <3>1 DEF FrameRecords
  <2>2. CASE q.out.head # "none"
    <3>1. q.out.head = "ok"
      BY <1>3, <2>2 DEF NoFrames, CallSound, RelayInOrder
    <3> QED
      BY <1>2, <2>2, <3>1 DEF FrameRecords
  <2> QED
    BY <2>1, <2>2
<1>5. /\ p \in CallRecords /\ p.at = q.at /\ p.got = q.got /\ p.parts = q.parts /\ p.ssh = q.ssh
      /\ p.relay = "over" /\ p.sent = q.sent /\ p.up = q.up /\ p.upParts = q.upParts
  BY DEF CallRecords
<1> HIDE DEF f, p, r
<1>6. /\ r \in CallRecords /\ r.at = q.at /\ r.got = q.got /\ r.parts = q.parts /\ r.ssh = q.ssh
      /\ r.relay = "over" /\ r.sent = q.sent /\ r.up = q.up /\ r.upParts = q.upParts /\ r.out = f
  BY <1>1, <1>4, <1>5 DEF CallRecords
<1>7. q.parts \in Nat /\ q.upParts \in Nat /\ q.out.parts \in Nat /\ q.out.end \in BOOLEAN
  BY <1>2 DEF CallRecords, FrameRecords
<1>8. RelayInOrder(r, parts)
  BY <1>3, <1>4, <1>6, <1>7 DEF CallSound, RelayInOrder, NoFrames
<1>9. CopiedInOrder(r, parts)
  <2>1. q.out.head = "none" => q.parts = 0 /\ q.out.end = FALSE /\ q.out.parts = 0
    BY <1>3, <1>7 DEF CallSound, RelayInOrder, CopiedInOrder, NoFrames
  <2> QED
    BY <1>3, <1>4, <1>6, <1>7, <2>1 DEF CallSound, RelayInOrder, CopiedInOrder, NoFrames
<1> QED
  BY <1>6, <1>8, <1>9 DEF CallSound, r

(* What each step makes of a connection.                                    *)
LEMMA CallRefused ==
  ASSUME NEW parts, NEW q \in CallRecords, CallSound(q, parts),
         q.at \in {"none", "queued"},
         NEW got \in {"busy", "error"}
  PROVE  LET r == [q EXCEPT !.at = "gone", !.got = got]
         IN  r \in CallRecords /\ CallSound(r, parts) /\ r.ssh = q.ssh
<1> DEFINE r == [q EXCEPT !.at = "gone", !.got = got]
           k1 == [q EXCEPT !.at = "gone"]
<1>1. r = [k1 EXCEPT !.got = got]
  OBVIOUS
<1>2. /\ k1 \in CallRecords /\ k1.at = "gone" /\ k1.client = q.client /\ k1.got = q.got
      /\ k1.parts = q.parts /\ k1.ssh = q.ssh /\ k1.relay = q.relay /\ k1.bound = q.bound
      /\ k1.cancelled = q.cancelled /\ k1.sent = q.sent /\ k1.up = q.up /\ k1.upParts = q.upParts
      /\ k1.out = q.out
  BY DEF CallRecords
<1> HIDE DEF k1, r
<1>3. /\ r \in CallRecords /\ r.at = "gone" /\ r.client = q.client /\ r.got = got
      /\ r.parts = q.parts /\ r.ssh = q.ssh /\ r.relay = q.relay /\ r.bound = q.bound
      /\ r.cancelled = q.cancelled /\ r.sent = q.sent /\ r.up = q.up /\ r.upParts = q.upParts
      /\ r.out = q.out
  BY <1>1, <1>2 DEF CallRecords
<1>4. q.parts \in Nat /\ q.upParts \in Nat /\ q.out \in FrameRecords /\ q.out.parts \in Nat
  BY DEF CallRecords, FrameRecords
<1>5. RelayInOrder(r, parts)
  BY <1>3, <1>4 DEF CallSound, RelayInOrder, NoFrames
<1>6. CopiedInOrder(r, parts)
  BY <1>3, <1>4 DEF CallSound, CopiedInOrder, RelayInOrder, NoFrames
<1> QED
  BY <1>3, <1>5, <1>6 DEF CallSound, r

LEMMA CallMoves ==
  ASSUME NEW parts, NEW q \in CallRecords, CallSound(q, parts),
         NEW put \in {"queued", "body", "clear"},
         q.at \in {"none", "queued", "body", "clear"},
         put # "clear" => q.at \in {"none", "queued"}
  PROVE  LET r == [q EXCEPT !.at = put]
         IN  r \in CallRecords /\ CallSound(r, parts) /\ r.ssh = q.ssh
<1> DEFINE r == [q EXCEPT !.at = put]
<1>2. /\ r \in CallRecords /\ r.at = put /\ r.client = q.client /\ r.got = q.got
      /\ r.parts = q.parts /\ r.ssh = q.ssh /\ r.relay = q.relay /\ r.bound = q.bound
      /\ r.cancelled = q.cancelled /\ r.sent = q.sent /\ r.up = q.up /\ r.upParts = q.upParts
      /\ r.out = q.out
  BY DEF CallRecords
<1> HIDE DEF r
<1>3. q.parts \in Nat /\ q.upParts \in Nat /\ q.out \in FrameRecords /\ q.out.parts \in Nat
  BY DEF CallRecords, FrameRecords
<1>4. RelayInOrder(r, parts)
  BY <1>2, <1>3 DEF CallSound, RelayInOrder, NoFrames
<1>5. CopiedInOrder(r, parts)
  BY <1>2, <1>3 DEF CallSound, CopiedInOrder, RelayInOrder, NoFrames
<1> QED
  BY <1>2, <1>4, <1>5 DEF CallSound, r

LEMMA CallFails ==
  ASSUME NEW parts, NEW q \in CallRecords, CallSound(q, parts),
         q.at \in {"body", "head"},
         NEW got \in {"error"}
  PROVE  LET r == [q EXCEPT !.at = "clear", !.got = got]
         IN  r \in CallRecords /\ CallSound(r, parts) /\ r.ssh = q.ssh
<1> DEFINE r == [q EXCEPT !.at = "clear", !.got = got]
           k1 == [q EXCEPT !.at = "clear"]
<1>1. r = [k1 EXCEPT !.got = got]
  OBVIOUS
<1>2. /\ k1 \in CallRecords /\ k1.at = "clear" /\ k1.client = q.client /\ k1.got = q.got
      /\ k1.parts = q.parts /\ k1.ssh = q.ssh /\ k1.relay = q.relay /\ k1.bound = q.bound
      /\ k1.cancelled = q.cancelled /\ k1.sent = q.sent /\ k1.up = q.up /\ k1.upParts = q.upParts
      /\ k1.out = q.out
  BY DEF CallRecords
<1> HIDE DEF k1, r
<1>3. /\ r \in CallRecords /\ r.at = "clear" /\ r.client = q.client /\ r.got = got
      /\ r.parts = q.parts /\ r.ssh = q.ssh /\ r.relay = q.relay /\ r.bound = q.bound
      /\ r.cancelled = q.cancelled /\ r.sent = q.sent /\ r.up = q.up /\ r.upParts = q.upParts
      /\ r.out = q.out
  BY <1>1, <1>2 DEF CallRecords
<1>4. q.parts \in Nat /\ q.upParts \in Nat /\ q.out \in FrameRecords /\ q.out.parts \in Nat
  BY DEF CallRecords, FrameRecords
<1>5. RelayInOrder(r, parts)
  BY <1>3, <1>4 DEF CallSound, RelayInOrder, NoFrames
<1>6. CopiedInOrder(r, parts)
  BY <1>3, <1>4 DEF CallSound, CopiedInOrder, RelayInOrder, NoFrames
<1> QED
  BY <1>3, <1>5, <1>6 DEF CallSound, r

LEMMA CallLaunched ==
  ASSUME NEW parts, NEW q \in CallRecords, CallSound(q, parts),
         q.at = "body"
  PROVE  LET r == [q EXCEPT !.at = "head", !.ssh = "up", !.relay = "checks"]
         IN  r \in CallRecords /\ CallSound(r, parts) /\ r.ssh = "up"
<1> DEFINE r == [q EXCEPT !.at = "head", !.ssh = "up", !.relay = "checks"]
           k1 == [q EXCEPT !.at = "head"]
           k2 == [q EXCEPT !.at = "head", !.ssh = "up"]
<1>e2. k2 = [k1 EXCEPT !.ssh = "up"]
  OBVIOUS
<1>e3. r = [k2 EXCEPT !.relay = "checks"]
  OBVIOUS
<1>2. /\ k1 \in CallRecords /\ k1.at = "head" /\ k1.client = q.client /\ k1.got = q.got
      /\ k1.parts = q.parts /\ k1.ssh = q.ssh /\ k1.relay = q.relay /\ k1.bound = q.bound
      /\ k1.cancelled = q.cancelled /\ k1.sent = q.sent /\ k1.up = q.up /\ k1.upParts = q.upParts
      /\ k1.out = q.out
  BY DEF CallRecords
<1> HIDE DEF k1, k2, r
<1>3. /\ k2 \in CallRecords /\ k2.at = "head" /\ k2.client = q.client /\ k2.got = q.got
      /\ k2.parts = q.parts /\ k2.ssh = "up" /\ k2.relay = q.relay /\ k2.bound = q.bound
      /\ k2.cancelled = q.cancelled /\ k2.sent = q.sent /\ k2.up = q.up /\ k2.upParts = q.upParts
      /\ k2.out = q.out
  BY <1>e2, <1>2 DEF CallRecords
<1>4. /\ r \in CallRecords /\ r.at = "head" /\ r.client = q.client /\ r.got = q.got
      /\ r.parts = q.parts /\ r.ssh = "up" /\ r.relay = "checks" /\ r.bound = q.bound
      /\ r.cancelled = q.cancelled /\ r.sent = q.sent /\ r.up = q.up /\ r.upParts = q.upParts
      /\ r.out = q.out
  BY <1>e3, <1>3 DEF CallRecords
<1>5. q.parts \in Nat /\ q.upParts \in Nat /\ q.out \in FrameRecords /\ q.out.parts \in Nat
  BY DEF CallRecords, FrameRecords
<1>6. RelayInOrder(r, parts)
  BY <1>4, <1>5 DEF CallSound, RelayInOrder, NoFrames
<1>7. CopiedInOrder(r, parts)
  BY <1>4, <1>5 DEF CallSound, CopiedInOrder, RelayInOrder, NoFrames
<1> QED
  BY <1>4, <1>6, <1>7 DEF CallSound, r

LEMMA CallBegins ==
  ASSUME NEW parts, NEW q \in CallRecords, CallSound(q, parts),
         q.at = "head"
  PROVE  LET r == [q EXCEPT !.at = "stream", !.got = "begun"]
         IN  r \in CallRecords /\ CallSound(r, parts) /\ r.ssh = q.ssh
<1> DEFINE r == [q EXCEPT !.at = "stream", !.got = "begun"]
           k1 == [q EXCEPT !.at = "stream"]
<1>1. r = [k1 EXCEPT !.got = "begun"]
  OBVIOUS
<1>2. /\ k1 \in CallRecords /\ k1.at = "stream" /\ k1.client = q.client /\ k1.got = q.got
      /\ k1.parts = q.parts /\ k1.ssh = q.ssh /\ k1.relay = q.relay /\ k1.bound = q.bound
      /\ k1.cancelled = q.cancelled /\ k1.sent = q.sent /\ k1.up = q.up /\ k1.upParts = q.upParts
      /\ k1.out = q.out
  BY DEF CallRecords
<1> HIDE DEF k1, r
<1>3. /\ r \in CallRecords /\ r.at = "stream" /\ r.client = q.client /\ r.got = "begun"
      /\ r.parts = q.parts /\ r.ssh = q.ssh /\ r.relay = q.relay /\ r.bound = q.bound
      /\ r.cancelled = q.cancelled /\ r.sent = q.sent /\ r.up = q.up /\ r.upParts = q.upParts
      /\ r.out = q.out
  BY <1>1, <1>2 DEF CallRecords
<1>4. q.parts \in Nat /\ q.upParts \in Nat /\ q.out \in FrameRecords /\ q.out.parts \in Nat
  BY DEF CallRecords, FrameRecords
<1>5. RelayInOrder(r, parts)
  BY <1>3, <1>4 DEF CallSound, RelayInOrder, NoFrames
<1>6. CopiedInOrder(r, parts)
  BY <1>3, <1>4 DEF CallSound, CopiedInOrder, RelayInOrder, NoFrames
<1> QED
  BY <1>3, <1>5, <1>6 DEF CallSound, r

LEMMA CallPart ==
  ASSUME NEW parts, NEW q \in CallRecords, CallSound(q, parts),
         q.at = "stream",
         q.parts < q.out.parts
  PROVE  LET r == [q EXCEPT !.parts = q.parts + 1]
         IN  r \in CallRecords /\ CallSound(r, parts) /\ r.ssh = q.ssh
<1> DEFINE r == [q EXCEPT !.parts = q.parts + 1]
<1>2. /\ r \in CallRecords /\ r.at = q.at /\ r.client = q.client /\ r.got = q.got
      /\ r.parts = q.parts + 1 /\ r.ssh = q.ssh /\ r.relay = q.relay /\ r.bound = q.bound
      /\ r.cancelled = q.cancelled /\ r.sent = q.sent /\ r.up = q.up /\ r.upParts = q.upParts
      /\ r.out = q.out
  BY DEF CallRecords
<1> HIDE DEF r
<1>3. q.parts \in Nat /\ q.upParts \in Nat /\ q.out \in FrameRecords /\ q.out.parts \in Nat
  BY DEF CallRecords, FrameRecords
<1>4. RelayInOrder(r, parts)
  BY <1>2, <1>3 DEF CallSound, RelayInOrder, NoFrames
<1>5. CopiedInOrder(r, parts)
  BY <1>2, <1>3 DEF CallSound, CopiedInOrder, RelayInOrder, NoFrames
<1> QED
  BY <1>2, <1>4, <1>5 DEF CallSound, r

LEMMA CallEnding ==
  ASSUME NEW parts, NEW q \in CallRecords, CallSound(q, parts),
         q.at = "stream",
         q.parts = q.out.parts,
         q.out.end
  PROVE  LET r == [q EXCEPT !.at = "ending"]
         IN  r \in CallRecords /\ CallSound(r, parts) /\ r.ssh = q.ssh
<1> DEFINE r == [q EXCEPT !.at = "ending"]
<1>2. /\ r \in CallRecords /\ r.at = "ending" /\ r.client = q.client /\ r.got = q.got
      /\ r.parts = q.parts /\ r.ssh = q.ssh /\ r.relay = q.relay /\ r.bound = q.bound
      /\ r.cancelled = q.cancelled /\ r.sent = q.sent /\ r.up = q.up /\ r.upParts = q.upParts
      /\ r.out = q.out
  BY DEF CallRecords
<1> HIDE DEF r
<1>3. q.parts \in Nat /\ q.upParts \in Nat /\ q.out \in FrameRecords /\ q.out.parts \in Nat
  BY DEF CallRecords, FrameRecords
<1>4. RelayInOrder(r, parts)
  BY <1>2, <1>3 DEF CallSound, RelayInOrder, NoFrames
<1>5. CopiedInOrder(r, parts)
  BY <1>2, <1>3 DEF CallSound, CopiedInOrder, RelayInOrder, NoFrames
<1> QED
  BY <1>2, <1>4, <1>5 DEF CallSound, r

LEMMA CallEnds ==
  ASSUME NEW parts, NEW q \in CallRecords, CallSound(q, parts),
         q.at \in {"stream", "ending"},
         NEW got \in {q.got, "whole"},
         got = "whole" /\ q.got # "whole" => q.at = "ending"
  PROVE  LET r == [q EXCEPT !.at = "clear", !.got = got]
         IN  r \in CallRecords /\ CallSound(r, parts) /\ r.ssh = q.ssh
<1> DEFINE r == [q EXCEPT !.at = "clear", !.got = got]
           k1 == [q EXCEPT !.at = "clear"]
<1>1. r = [k1 EXCEPT !.got = got]
  OBVIOUS
<1>2. /\ k1 \in CallRecords /\ k1.at = "clear" /\ k1.client = q.client /\ k1.got = q.got
      /\ k1.parts = q.parts /\ k1.ssh = q.ssh /\ k1.relay = q.relay /\ k1.bound = q.bound
      /\ k1.cancelled = q.cancelled /\ k1.sent = q.sent /\ k1.up = q.up /\ k1.upParts = q.upParts
      /\ k1.out = q.out
  BY DEF CallRecords
<1> HIDE DEF k1, r
<1>3. /\ r \in CallRecords /\ r.at = "clear" /\ r.client = q.client /\ r.got = got
      /\ r.parts = q.parts /\ r.ssh = q.ssh /\ r.relay = q.relay /\ r.bound = q.bound
      /\ r.cancelled = q.cancelled /\ r.sent = q.sent /\ r.up = q.up /\ r.upParts = q.upParts
      /\ r.out = q.out
  BY <1>1, <1>2 DEF CallRecords
<1>4. q.parts \in Nat /\ q.upParts \in Nat /\ q.out \in FrameRecords /\ q.out.parts \in Nat
  BY DEF CallRecords, FrameRecords
<1>5. RelayInOrder(r, parts)
  BY <1>3, <1>4 DEF CallSound, RelayInOrder, NoFrames
<1>6. CopiedInOrder(r, parts)
  BY <1>3, <1>4 DEF CallSound, CopiedInOrder, RelayInOrder, NoFrames
<1> QED
  BY <1>3, <1>5, <1>6 DEF CallSound, r

LEMMA CallOver ==
  ASSUME NEW parts, NEW q \in CallRecords, CallSound(q, parts),
         q.at = "clear",
         NEW ssh \in {"none", "up", "down"},
         ssh # "up"
  PROVE  LET r == [q EXCEPT !.at = "gone", !.ssh = ssh]
         IN  r \in CallRecords /\ CallSound(r, parts) /\ r.ssh = ssh
<1> DEFINE r == [q EXCEPT !.at = "gone", !.ssh = ssh]
           k1 == [q EXCEPT !.at = "gone"]
<1>1. r = [k1 EXCEPT !.ssh = ssh]
  OBVIOUS
<1>2. /\ k1 \in CallRecords /\ k1.at = "gone" /\ k1.client = q.client /\ k1.got = q.got
      /\ k1.parts = q.parts /\ k1.ssh = q.ssh /\ k1.relay = q.relay /\ k1.bound = q.bound
      /\ k1.cancelled = q.cancelled /\ k1.sent = q.sent /\ k1.up = q.up /\ k1.upParts = q.upParts
      /\ k1.out = q.out
  BY DEF CallRecords
<1> HIDE DEF k1, r
<1>3. /\ r \in CallRecords /\ r.at = "gone" /\ r.client = q.client /\ r.got = q.got
      /\ r.parts = q.parts /\ r.ssh = ssh /\ r.relay = q.relay /\ r.bound = q.bound
      /\ r.cancelled = q.cancelled /\ r.sent = q.sent /\ r.up = q.up /\ r.upParts = q.upParts
      /\ r.out = q.out
  BY <1>1, <1>2 DEF CallRecords
<1>4. q.parts \in Nat /\ q.upParts \in Nat /\ q.out \in FrameRecords /\ q.out.parts \in Nat
  BY DEF CallRecords, FrameRecords
<1>5. RelayInOrder(r, parts)
  BY <1>3, <1>4 DEF CallSound, RelayInOrder, NoFrames
<1>6. CopiedInOrder(r, parts)
  BY <1>3, <1>4 DEF CallSound, CopiedInOrder, RelayInOrder, NoFrames
<1> QED
  BY <1>3, <1>5, <1>6 DEF CallSound, r

LEMMA CallKilled ==
  ASSUME NEW parts, NEW q \in CallRecords, CallSound(q, parts),
         q.ssh = "up"
  PROVE  LET r == [q EXCEPT !.ssh = "down"]
         IN  r \in CallRecords /\ CallSound(r, parts) /\ r.ssh = "down"
<1> DEFINE r == [q EXCEPT !.ssh = "down"]
<1>2. /\ r \in CallRecords /\ r.at = q.at /\ r.client = q.client /\ r.got = q.got
      /\ r.parts = q.parts /\ r.ssh = "down" /\ r.relay = q.relay /\ r.bound = q.bound
      /\ r.cancelled = q.cancelled /\ r.sent = q.sent /\ r.up = q.up /\ r.upParts = q.upParts
      /\ r.out = q.out
  BY DEF CallRecords
<1> HIDE DEF r
<1>3. q.parts \in Nat /\ q.upParts \in Nat /\ q.out \in FrameRecords /\ q.out.parts \in Nat
  BY DEF CallRecords, FrameRecords
<1>4. RelayInOrder(r, parts)
  BY <1>2, <1>3 DEF CallSound, RelayInOrder, NoFrames
<1>5. CopiedInOrder(r, parts)
  BY <1>2, <1>3 DEF CallSound, CopiedInOrder, RelayInOrder, NoFrames
<1> QED
  BY <1>2, <1>4, <1>5 DEF CallSound, r

LEMMA CallHungUp ==
  ASSUME NEW parts, NEW q \in CallRecords, CallSound(q, parts)
  PROVE  LET r == [q EXCEPT !.client = FALSE]
         IN  r \in CallRecords /\ CallSound(r, parts) /\ r.ssh = q.ssh
<1> DEFINE r == [q EXCEPT !.client = FALSE]
<1>2. /\ r \in CallRecords /\ r.at = q.at /\ r.client = FALSE /\ r.got = q.got
      /\ r.parts = q.parts /\ r.ssh = q.ssh /\ r.relay = q.relay /\ r.bound = q.bound
      /\ r.cancelled = q.cancelled /\ r.sent = q.sent /\ r.up = q.up /\ r.upParts = q.upParts
      /\ r.out = q.out
  BY DEF CallRecords
<1> HIDE DEF r
<1>3. q.parts \in Nat /\ q.upParts \in Nat /\ q.out \in FrameRecords /\ q.out.parts \in Nat
  BY DEF CallRecords, FrameRecords
<1>4. RelayInOrder(r, parts)
  BY <1>2, <1>3 DEF CallSound, RelayInOrder, NoFrames
<1>5. CopiedInOrder(r, parts)
  BY <1>2, <1>3 DEF CallSound, CopiedInOrder, RelayInOrder, NoFrames
<1> QED
  BY <1>2, <1>4, <1>5 DEF CallSound, r

LEMMA CallStopped ==
  ASSUME NEW parts, NEW q \in CallRecords, CallSound(q, parts),
         NEW ssh \in {"none", "up", "down"},
         q.ssh # "up" => ssh = q.ssh
  PROVE  LET r == [q EXCEPT !.client = FALSE, !.ssh = ssh]
         IN  r \in CallRecords /\ CallSound(r, parts) /\ r.ssh = ssh
<1> DEFINE r == [q EXCEPT !.client = FALSE, !.ssh = ssh]
           k1 == [q EXCEPT !.client = FALSE]
<1>1. r = [k1 EXCEPT !.ssh = ssh]
  OBVIOUS
<1>2. /\ k1 \in CallRecords /\ k1.at = q.at /\ k1.client = FALSE /\ k1.got = q.got
      /\ k1.parts = q.parts /\ k1.ssh = q.ssh /\ k1.relay = q.relay /\ k1.bound = q.bound
      /\ k1.cancelled = q.cancelled /\ k1.sent = q.sent /\ k1.up = q.up /\ k1.upParts = q.upParts
      /\ k1.out = q.out
  BY DEF CallRecords
<1> HIDE DEF k1, r
<1>3. /\ r \in CallRecords /\ r.at = q.at /\ r.client = FALSE /\ r.got = q.got
      /\ r.parts = q.parts /\ r.ssh = ssh /\ r.relay = q.relay /\ r.bound = q.bound
      /\ r.cancelled = q.cancelled /\ r.sent = q.sent /\ r.up = q.up /\ r.upParts = q.upParts
      /\ r.out = q.out
  BY <1>1, <1>2 DEF CallRecords
<1>4. q.parts \in Nat /\ q.upParts \in Nat /\ q.out \in FrameRecords /\ q.out.parts \in Nat
  BY DEF CallRecords, FrameRecords
<1>5. RelayInOrder(r, parts)
  BY <1>3, <1>4 DEF CallSound, RelayInOrder, NoFrames
<1>6. CopiedInOrder(r, parts)
  BY <1>3, <1>4 DEF CallSound, CopiedInOrder, RelayInOrder, NoFrames
<1> QED
  BY <1>3, <1>5, <1>6 DEF CallSound, r

LEMMA RelayBound ==
  ASSUME NEW parts, NEW q \in CallRecords, CallSound(q, parts),
         q.relay = "checks",
         NEW who \in 0..2
  PROVE  LET r == [q EXCEPT !.relay = "connect", !.bound = who]
         IN  r \in CallRecords /\ CallSound(r, parts) /\ r.ssh = q.ssh
<1> DEFINE r == [q EXCEPT !.relay = "connect", !.bound = who]
           k1 == [q EXCEPT !.relay = "connect"]
<1>1. r = [k1 EXCEPT !.bound = who]
  OBVIOUS
<1>2. /\ k1 \in CallRecords /\ k1.at = q.at /\ k1.client = q.client /\ k1.got = q.got
      /\ k1.parts = q.parts /\ k1.ssh = q.ssh /\ k1.relay = "connect" /\ k1.bound = q.bound
      /\ k1.cancelled = q.cancelled /\ k1.sent = q.sent /\ k1.up = q.up /\ k1.upParts = q.upParts
      /\ k1.out = q.out
  BY DEF CallRecords
<1> HIDE DEF k1, r
<1>3. /\ r \in CallRecords /\ r.at = q.at /\ r.client = q.client /\ r.got = q.got
      /\ r.parts = q.parts /\ r.ssh = q.ssh /\ r.relay = "connect" /\ r.bound = who
      /\ r.cancelled = q.cancelled /\ r.sent = q.sent /\ r.up = q.up /\ r.upParts = q.upParts
      /\ r.out = q.out
  BY <1>1, <1>2 DEF CallRecords
<1>4. q.parts \in Nat /\ q.upParts \in Nat /\ q.out \in FrameRecords /\ q.out.parts \in Nat
  BY DEF CallRecords, FrameRecords
<1>5. RelayInOrder(r, parts)
  BY <1>3, <1>4 DEF CallSound, RelayInOrder, NoFrames
<1>6. CopiedInOrder(r, parts)
  BY <1>3, <1>4 DEF CallSound, CopiedInOrder, RelayInOrder, NoFrames
<1> QED
  BY <1>3, <1>5, <1>6 DEF CallSound, r

LEMMA RelayMoves ==
  ASSUME NEW parts, NEW q \in CallRecords, CallSound(q, parts),
         NEW relay \in {"last", "post"},
         q.relay \in {"connect", "last"}
  PROVE  LET r == [q EXCEPT !.relay = relay]
         IN  r \in CallRecords /\ CallSound(r, parts) /\ r.ssh = q.ssh
<1> DEFINE r == [q EXCEPT !.relay = relay]
<1>2. /\ r \in CallRecords /\ r.at = q.at /\ r.client = q.client /\ r.got = q.got
      /\ r.parts = q.parts /\ r.ssh = q.ssh /\ r.relay = relay /\ r.bound = q.bound
      /\ r.cancelled = q.cancelled /\ r.sent = q.sent /\ r.up = q.up /\ r.upParts = q.upParts
      /\ r.out = q.out
  BY DEF CallRecords
<1> HIDE DEF r
<1>3. q.parts \in Nat /\ q.upParts \in Nat /\ q.out \in FrameRecords /\ q.out.parts \in Nat
  BY DEF CallRecords, FrameRecords
<1>4. RelayInOrder(r, parts)
  BY <1>2, <1>3 DEF CallSound, RelayInOrder, NoFrames
<1>5. CopiedInOrder(r, parts)
  BY <1>2, <1>3 DEF CallSound, CopiedInOrder, RelayInOrder, NoFrames
<1> QED
  BY <1>2, <1>4, <1>5 DEF CallSound, r

LEMMA RelayPosts ==
  ASSUME NEW parts, NEW q \in CallRecords, CallSound(q, parts),
         q.relay = "post"
  PROVE  LET r == [q EXCEPT !.relay = "reply", !.sent = TRUE, !.up = "asked"]
         IN  r \in CallRecords /\ CallSound(r, parts) /\ r.ssh = q.ssh
<1> DEFINE r == [q EXCEPT !.relay = "reply", !.sent = TRUE, !.up = "asked"]
           k1 == [q EXCEPT !.relay = "reply"]
           k2 == [q EXCEPT !.relay = "reply", !.sent = TRUE]
<1>e2. k2 = [k1 EXCEPT !.sent = TRUE]
  OBVIOUS
<1>e3. r = [k2 EXCEPT !.up = "asked"]
  OBVIOUS
<1>2. /\ k1 \in CallRecords /\ k1.at = q.at /\ k1.client = q.client /\ k1.got = q.got
      /\ k1.parts = q.parts /\ k1.ssh = q.ssh /\ k1.relay = "reply" /\ k1.bound = q.bound
      /\ k1.cancelled = q.cancelled /\ k1.sent = q.sent /\ k1.up = q.up /\ k1.upParts = q.upParts
      /\ k1.out = q.out
  BY DEF CallRecords
<1> HIDE DEF k1, k2, r
<1>3. /\ k2 \in CallRecords /\ k2.at = q.at /\ k2.client = q.client /\ k2.got = q.got
      /\ k2.parts = q.parts /\ k2.ssh = q.ssh /\ k2.relay = "reply" /\ k2.bound = q.bound
      /\ k2.cancelled = q.cancelled /\ k2.sent = TRUE /\ k2.up = q.up /\ k2.upParts = q.upParts
      /\ k2.out = q.out
  BY <1>e2, <1>2 DEF CallRecords
<1>4. /\ r \in CallRecords /\ r.at = q.at /\ r.client = q.client /\ r.got = q.got
      /\ r.parts = q.parts /\ r.ssh = q.ssh /\ r.relay = "reply" /\ r.bound = q.bound
      /\ r.cancelled = q.cancelled /\ r.sent = TRUE /\ r.up = "asked" /\ r.upParts = q.upParts
      /\ r.out = q.out
  BY <1>e3, <1>3 DEF CallRecords
<1>5. q.parts \in Nat /\ q.upParts \in Nat /\ q.out \in FrameRecords /\ q.out.parts \in Nat
  BY DEF CallRecords, FrameRecords
<1>6. RelayInOrder(r, parts)
  BY <1>4, <1>5 DEF CallSound, RelayInOrder, NoFrames
<1>7. CopiedInOrder(r, parts)
  BY <1>4, <1>5 DEF CallSound, CopiedInOrder, RelayInOrder, NoFrames
<1> QED
  BY <1>4, <1>6, <1>7 DEF CallSound, r

LEMMA RelayCancelled ==
  ASSUME NEW parts, NEW q \in CallRecords, CallSound(q, parts)
  PROVE  LET r == [q EXCEPT !.cancelled = TRUE]
         IN  r \in CallRecords /\ CallSound(r, parts) /\ r.ssh = q.ssh
<1> DEFINE r == [q EXCEPT !.cancelled = TRUE]
<1>2. /\ r \in CallRecords /\ r.at = q.at /\ r.client = q.client /\ r.got = q.got
      /\ r.parts = q.parts /\ r.ssh = q.ssh /\ r.relay = q.relay /\ r.bound = q.bound
      /\ r.cancelled = TRUE /\ r.sent = q.sent /\ r.up = q.up /\ r.upParts = q.upParts
      /\ r.out = q.out
  BY DEF CallRecords
<1> HIDE DEF r
<1>3. q.parts \in Nat /\ q.upParts \in Nat /\ q.out \in FrameRecords /\ q.out.parts \in Nat
  BY DEF CallRecords, FrameRecords
<1>4. RelayInOrder(r, parts)
  BY <1>2, <1>3 DEF CallSound, RelayInOrder, NoFrames
<1>5. CopiedInOrder(r, parts)
  BY <1>2, <1>3 DEF CallSound, CopiedInOrder, RelayInOrder, NoFrames
<1> QED
  BY <1>2, <1>4, <1>5 DEF CallSound, r

LEMMA UpstreamSays ==
  ASSUME NEW parts, NEW q \in CallRecords, CallSound(q, parts),
         q.up \in {"asked", "answers"},
         NEW up \in {"refused", "answers", "broken"},
         up = "refused" => q.up = "asked"
  PROVE  LET r == [q EXCEPT !.up = up]
         IN  r \in CallRecords /\ CallSound(r, parts) /\ r.ssh = q.ssh
<1> DEFINE r == [q EXCEPT !.up = up]
<1>2. /\ r \in CallRecords /\ r.at = q.at /\ r.client = q.client /\ r.got = q.got
      /\ r.parts = q.parts /\ r.ssh = q.ssh /\ r.relay = q.relay /\ r.bound = q.bound
      /\ r.cancelled = q.cancelled /\ r.sent = q.sent /\ r.up = up /\ r.upParts = q.upParts
      /\ r.out = q.out
  BY DEF CallRecords
<1> HIDE DEF r
<1>3. q.parts \in Nat /\ q.upParts \in Nat /\ q.out \in FrameRecords /\ q.out.parts \in Nat
  BY DEF CallRecords, FrameRecords
<1>4. RelayInOrder(r, parts)
  BY <1>2, <1>3 DEF CallSound, RelayInOrder, NoFrames
<1>5. CopiedInOrder(r, parts)
  BY <1>2, <1>3 DEF CallSound, CopiedInOrder, RelayInOrder, NoFrames
<1> QED
  BY <1>2, <1>4, <1>5 DEF CallSound, r

LEMMA UpstreamPart ==
  ASSUME NEW parts, NEW q \in CallRecords, CallSound(q, parts),
         q.up = "answers",
         NEW up \in {"answers", "answered"},
         up = "answered" <=> q.upParts + 1 = parts
  PROVE  LET r == [q EXCEPT !.upParts = q.upParts + 1, !.up = up]
         IN  r \in CallRecords /\ CallSound(r, parts) /\ r.ssh = q.ssh
<1> DEFINE r == [q EXCEPT !.upParts = q.upParts + 1, !.up = up]
           k1 == [q EXCEPT !.upParts = q.upParts + 1]
<1>1. r = [k1 EXCEPT !.up = up]
  OBVIOUS
<1>2. /\ k1 \in CallRecords /\ k1.at = q.at /\ k1.client = q.client /\ k1.got = q.got
      /\ k1.parts = q.parts /\ k1.ssh = q.ssh /\ k1.relay = q.relay /\ k1.bound = q.bound
      /\ k1.cancelled = q.cancelled /\ k1.sent = q.sent /\ k1.up = q.up
      /\ k1.upParts = q.upParts + 1 /\ k1.out = q.out
  BY DEF CallRecords
<1> HIDE DEF k1, r
<1>3. /\ r \in CallRecords /\ r.at = q.at /\ r.client = q.client /\ r.got = q.got
      /\ r.parts = q.parts /\ r.ssh = q.ssh /\ r.relay = q.relay /\ r.bound = q.bound
      /\ r.cancelled = q.cancelled /\ r.sent = q.sent /\ r.up = up /\ r.upParts = q.upParts + 1
      /\ r.out = q.out
  BY <1>1, <1>2 DEF CallRecords
<1>4. q.parts \in Nat /\ q.upParts \in Nat /\ q.out \in FrameRecords /\ q.out.parts \in Nat
  BY DEF CallRecords, FrameRecords
<1>5. RelayInOrder(r, parts)
  BY <1>3, <1>4 DEF CallSound, RelayInOrder, NoFrames
<1>6. CopiedInOrder(r, parts)
  BY <1>3, <1>4 DEF CallSound, CopiedInOrder, RelayInOrder, NoFrames
<1> QED
  BY <1>3, <1>5, <1>6 DEF CallSound, r

LEMMA RelayStreams ==
  ASSUME NEW parts, NEW q \in CallRecords, CallSound(q, parts),
         q.relay = "reply",
         q.up \in {"answers", "answered"},
         NEW out \in FrameRecords,
         out = [NoFrames EXCEPT !.head = "ok"]
  PROVE  LET r == [q EXCEPT !.relay = "stream", !.out = out]
         IN  r \in CallRecords /\ CallSound(r, parts) /\ r.ssh = q.ssh
<1> DEFINE r == [q EXCEPT !.relay = "stream", !.out = out]
           k1 == [q EXCEPT !.relay = "stream"]
<1>1. r = [k1 EXCEPT !.out = out]
  OBVIOUS
<1>2. /\ k1 \in CallRecords /\ k1.at = q.at /\ k1.client = q.client /\ k1.got = q.got
      /\ k1.parts = q.parts /\ k1.ssh = q.ssh /\ k1.relay = "stream" /\ k1.bound = q.bound
      /\ k1.cancelled = q.cancelled /\ k1.sent = q.sent /\ k1.up = q.up /\ k1.upParts = q.upParts
      /\ k1.out = q.out
  BY DEF CallRecords
<1> HIDE DEF k1, r
<1>3. /\ r \in CallRecords /\ r.at = q.at /\ r.client = q.client /\ r.got = q.got
      /\ r.parts = q.parts /\ r.ssh = q.ssh /\ r.relay = "stream" /\ r.bound = q.bound
      /\ r.cancelled = q.cancelled /\ r.sent = q.sent /\ r.up = q.up /\ r.upParts = q.upParts
      /\ r.out = out
  BY <1>1, <1>2 DEF CallRecords
<1>4. q.parts \in Nat /\ q.upParts \in Nat /\ q.out \in FrameRecords /\ q.out.parts \in Nat
  BY DEF CallRecords, FrameRecords
<1>5. RelayInOrder(r, parts)
  BY <1>3, <1>4 DEF CallSound, RelayInOrder, NoFrames
<1>6. CopiedInOrder(r, parts)
  BY <1>3, <1>4 DEF CallSound, CopiedInOrder, RelayInOrder, NoFrames
<1> QED
  BY <1>3, <1>5, <1>6 DEF CallSound, r

LEMMA RelayWrites ==
  ASSUME NEW parts, NEW q \in CallRecords, CallSound(q, parts),
         q.relay = "stream",
         q.out.parts < q.upParts,
         NEW out \in FrameRecords,
         out.head = q.out.head /\ out.end = q.out.end /\ out.exit = q.out.exit,
         out.parts = q.out.parts + 1
  PROVE  LET r == [q EXCEPT !.out = out]
         IN  r \in CallRecords /\ CallSound(r, parts) /\ r.ssh = q.ssh
<1> DEFINE r == [q EXCEPT !.out = out]
<1>2. /\ r \in CallRecords /\ r.at = q.at /\ r.client = q.client /\ r.got = q.got
      /\ r.parts = q.parts /\ r.ssh = q.ssh /\ r.relay = q.relay /\ r.bound = q.bound
      /\ r.cancelled = q.cancelled /\ r.sent = q.sent /\ r.up = q.up /\ r.upParts = q.upParts
      /\ r.out = out
  BY DEF CallRecords
<1> HIDE DEF r
<1>3. q.parts \in Nat /\ q.upParts \in Nat /\ q.out \in FrameRecords /\ q.out.parts \in Nat
  BY DEF CallRecords, FrameRecords
<1>4. RelayInOrder(r, parts)
  BY <1>2, <1>3 DEF CallSound, RelayInOrder, NoFrames
<1>5. CopiedInOrder(r, parts)
  BY <1>2, <1>3 DEF CallSound, CopiedInOrder, RelayInOrder, NoFrames
<1> QED
  BY <1>2, <1>4, <1>5 DEF CallSound, r

LEMMA RelayEndsWell ==
  ASSUME NEW parts, NEW q \in CallRecords, CallSound(q, parts),
         q.relay = "stream",
         q.out.parts >= q.upParts,
         q.up = "answered",
         NEW out \in FrameRecords,
         out.head = q.out.head /\ out.parts = q.out.parts /\ out.end = TRUE /\ out.exit = "zero"
  PROVE  LET r == [q EXCEPT !.relay = "over", !.out = out]
         IN  r \in CallRecords /\ CallSound(r, parts) /\ r.ssh = q.ssh
<1> DEFINE r == [q EXCEPT !.relay = "over", !.out = out]
           k1 == [q EXCEPT !.relay = "over"]
<1>1. r = [k1 EXCEPT !.out = out]
  OBVIOUS
<1>2. /\ k1 \in CallRecords /\ k1.at = q.at /\ k1.client = q.client /\ k1.got = q.got
      /\ k1.parts = q.parts /\ k1.ssh = q.ssh /\ k1.relay = "over" /\ k1.bound = q.bound
      /\ k1.cancelled = q.cancelled /\ k1.sent = q.sent /\ k1.up = q.up /\ k1.upParts = q.upParts
      /\ k1.out = q.out
  BY DEF CallRecords
<1> HIDE DEF k1, r
<1>3. /\ r \in CallRecords /\ r.at = q.at /\ r.client = q.client /\ r.got = q.got
      /\ r.parts = q.parts /\ r.ssh = q.ssh /\ r.relay = "over" /\ r.bound = q.bound
      /\ r.cancelled = q.cancelled /\ r.sent = q.sent /\ r.up = q.up /\ r.upParts = q.upParts
      /\ r.out = out
  BY <1>1, <1>2 DEF CallRecords
<1>4. q.parts \in Nat /\ q.upParts \in Nat /\ q.out \in FrameRecords /\ q.out.parts \in Nat
  BY DEF CallRecords, FrameRecords
<1>5. RelayInOrder(r, parts)
  BY <1>3, <1>4 DEF CallSound, RelayInOrder, NoFrames
<1>6. CopiedInOrder(r, parts)
  BY <1>3, <1>4 DEF CallSound, CopiedInOrder, RelayInOrder, NoFrames
<1> QED
  BY <1>3, <1>5, <1>6 DEF CallSound, r

LEMMA UnsentIsNowhere ==
  ASSUME NEW parts, NEW q \in CallRecords, CallSound(q, parts)
  PROVE  /\ (~q.sent) \in BOOLEAN
         /\ ~q.sent => q.up = "none"
<1>1. (~q.sent) \in BOOLEAN
  OBVIOUS
<1> QED
  BY <1>1 DEF CallSound, RelayInOrder

LEMMA ChecksUnsent ==
  ASSUME NEW parts, NEW q \in CallRecords, CallSound(q, parts),
         q.relay \in {"checks", "connect", "last", "post"}
  PROVE  q.up = "none"
  BY DEF CallRecords, CallSound, RelayInOrder

(* What the bridge, a relay, upstream and the slot do keeps it so.          *)
LEMMA AdmitKeeps ==
  ASSUME NEW calls, NEW parts, CallsInv(calls, parts), NEW c \in calls,
         inCall[c].at = "none",
         Others,
         Changes(c, [inCall[c] EXCEPT !.at = "gone", !.got = "busy"])
           \/ Changes(c, [inCall[c] EXCEPT !.at = "queued"])
  PROVE  CallsInv(calls, parts)'
<1> DEFINE q == inCall[c]
<1>1. /\ q \in CallRecords /\ CallSound(q, parts)
      /\ inBridge = "closed" => q.ssh # "up"
  BY TheCall
<1>2. CASE Changes(c, [q EXCEPT !.at = "gone", !.got = "busy"]) /\ Others /\ q.at = "none"
  <2> DEFINE r == [q EXCEPT !.at = "gone", !.got = "busy"]
  <2>1. r \in CallRecords /\ CallSound(r, parts) /\ r.ssh = q.ssh
    BY <1>1, <1>2, CallRefused
  <2>2. Changes(c, r) /\ Others
    BY <1>2
  <2> HIDE DEF q, r
  <2> QED
    BY <1>1, <2>1, <2>2, OneCall
<1>3. CASE Changes(c, [q EXCEPT !.at = "queued"]) /\ Others /\ q.at = "none"
  <2> DEFINE r == [q EXCEPT !.at = "queued"]
  <2>1. r \in CallRecords /\ CallSound(r, parts) /\ r.ssh = q.ssh
    BY <1>1, <1>3, CallMoves
  <2>2. Changes(c, r) /\ Others
    BY <1>3
  <2> HIDE DEF q, r
  <2> QED
    BY <1>1, <2>1, <2>2, OneCall
<1> QED
  BY <1>2, <1>3

LEMMA ValidateKeeps ==
  ASSUME NEW calls, NEW parts, CallsInv(calls, parts), NEW c \in calls,
         _validate(c)
  PROVE  CallsInv(calls, parts)'
<1> DEFINE q == inCall[c]
<1>1. /\ q \in CallRecords /\ CallSound(q, parts)
      /\ inBridge = "closed" => q.ssh # "up"
  BY TheCall
<1>2. CASE Changes(c, [q EXCEPT !.at = "gone", !.got = "error"]) /\ Others /\ q.at = "queued"
  <2> DEFINE r == [q EXCEPT !.at = "gone", !.got = "error"]
  <2>1. r \in CallRecords /\ CallSound(r, parts) /\ r.ssh = q.ssh
    BY <1>1, <1>2, CallRefused
  <2>2. Changes(c, r) /\ Others
    BY <1>2
  <2> HIDE DEF q, r
  <2> QED
    BY <1>1, <2>1, <2>2, OneCall
<1> QED
  BY <1>2 DEF _validate

LEMMA AcquireWorkerKeeps ==
  ASSUME NEW calls, NEW parts, CallsInv(calls, parts), NEW c \in calls,
         inCall[c].at = "queued",
         Others,
         Changes(c, [inCall[c] EXCEPT !.at = "body"])
           \/ Changes(c, [inCall[c] EXCEPT !.at = "gone", !.got = "busy"])
  PROVE  CallsInv(calls, parts)'
<1> DEFINE q == inCall[c]
<1>1. /\ q \in CallRecords /\ CallSound(q, parts)
      /\ inBridge = "closed" => q.ssh # "up"
  BY TheCall
<1>2. CASE Changes(c, [q EXCEPT !.at = "body"]) /\ Others /\ q.at = "queued"
  <2> DEFINE r == [q EXCEPT !.at = "body"]
  <2>1. r \in CallRecords /\ CallSound(r, parts) /\ r.ssh = q.ssh
    BY <1>1, <1>2, CallMoves
  <2>2. Changes(c, r) /\ Others
    BY <1>2
  <2> HIDE DEF q, r
  <2> QED
    BY <1>1, <2>1, <2>2, OneCall
<1>3. CASE Changes(c, [q EXCEPT !.at = "gone", !.got = "busy"]) /\ Others /\ q.at = "queued"
  <2> DEFINE r == [q EXCEPT !.at = "gone", !.got = "busy"]
  <2>1. r \in CallRecords /\ CallSound(r, parts) /\ r.ssh = q.ssh
    BY <1>1, <1>3, CallRefused
  <2>2. Changes(c, r) /\ Others
    BY <1>3
  <2> HIDE DEF q, r
  <2> QED
    BY <1>1, <2>1, <2>2, OneCall
<1> QED
  BY <1>2, <1>3

LEMMA CopyHeadKeeps ==
  ASSUME NEW calls, NEW parts, CallsInv(calls, parts), NEW c \in calls,
         CopyHead(c)
  PROVE  CallsInv(calls, parts)'
<1> DEFINE q == inCall[c]
<1>1. /\ q \in CallRecords /\ CallSound(q, parts)
      /\ inBridge = "closed" => q.ssh # "up"
  BY TheCall
<1>2. CASE Changes(c, [q EXCEPT !.at = "stream", !.got = "begun"]) /\ Others /\ q.at = "head"
  <2> DEFINE r == [q EXCEPT !.at = "stream", !.got = "begun"]
  <2>1. r \in CallRecords /\ CallSound(r, parts) /\ r.ssh = q.ssh
    BY <1>1, <1>2, CallBegins
  <2>2. Changes(c, r) /\ Others
    BY <1>2
  <2> HIDE DEF q, r
  <2> QED
    BY <1>1, <2>1, <2>2, OneCall
<1> QED
  BY <1>2 DEF CopyHead

LEMMA CopyPartKeeps ==
  ASSUME NEW calls, NEW parts, CallsInv(calls, parts), NEW c \in calls,
         CopyPart(c)
  PROVE  CallsInv(calls, parts)'
<1> DEFINE q == inCall[c]
<1>1. /\ q \in CallRecords /\ CallSound(q, parts)
      /\ inBridge = "closed" => q.ssh # "up"
  BY TheCall
<1>2. CASE Changes(c, [q EXCEPT !.parts = q.parts + 1]) /\ Others /\ q.at = "stream" /\ q.parts < q.out.parts
  <2> DEFINE r == [q EXCEPT !.parts = q.parts + 1]
  <2>1. r \in CallRecords /\ CallSound(r, parts) /\ r.ssh = q.ssh
    BY <1>1, <1>2, CallPart
  <2>2. Changes(c, r) /\ Others
    BY <1>2
  <2> HIDE DEF q, r
  <2> QED
    BY <1>1, <2>1, <2>2, OneCall
<1> QED
  BY <1>2 DEF CopyPart, Frames

LEMMA CopyEndKeeps ==
  ASSUME NEW calls, NEW parts, CallsInv(calls, parts), NEW c \in calls,
         CopyEnd(c)
  PROVE  CallsInv(calls, parts)'
<1> DEFINE q == inCall[c]
<1>1. /\ q \in CallRecords /\ CallSound(q, parts)
      /\ inBridge = "closed" => q.ssh # "up"
  BY TheCall
<1>2. CASE Changes(c, [q EXCEPT !.at = "ending"]) /\ Others /\ q.at = "stream" /\ q.parts = q.out.parts /\ q.out.end
  <2> DEFINE r == [q EXCEPT !.at = "ending"]
  <2>1. r \in CallRecords /\ CallSound(r, parts) /\ r.ssh = q.ssh
    BY <1>1, <1>2, CallEnding
  <2>2. Changes(c, r) /\ Others
    BY <1>2
  <2> HIDE DEF q, r
  <2> QED
    BY <1>1, <2>1, <2>2, OneCall
<1> QED
  BY <1>2 DEF CopyEnd, Frames

LEMMA CompletedKeeps ==
  ASSUME NEW calls, NEW parts, CallsInv(calls, parts), NEW c \in calls,
         _completed(c)
  PROVE  CallsInv(calls, parts)'
<1> DEFINE q == inCall[c]
<1>1. /\ q \in CallRecords /\ CallSound(q, parts)
      /\ inBridge = "closed" => q.ssh # "up"
  BY TheCall
<1>2. CASE Changes(c, [q EXCEPT !.at = "clear", !.got = IF EndedWell(c) THEN "whole" ELSE q.got]) /\ Others /\ q.at = "ending"
  <2> DEFINE r == [q EXCEPT !.at = "clear", !.got = IF EndedWell(c) THEN "whole" ELSE q.got]
  <2>1. r \in CallRecords /\ CallSound(r, parts) /\ r.ssh = q.ssh
    BY <1>1, <1>2, CallEnds
  <2>2. Changes(c, r) /\ Others
    BY <1>2
  <2> HIDE DEF q, r
  <2> QED
    BY <1>1, <2>1, <2>2, OneCall
<1> QED
  BY <1>2 DEF _completed

LEMMA LinkFailsKeeps ==
  ASSUME NEW calls, NEW parts, CallsInv(calls, parts), NEW c \in calls,
         LinkFails(c)
  PROVE  CallsInv(calls, parts)'
<1> DEFINE q == inCall[c]
<1>1. /\ q \in CallRecords /\ CallSound(q, parts)
      /\ inBridge = "closed" => q.ssh # "up"
  BY TheCall
<1>2. CASE Changes(c, [q EXCEPT !.at = "clear", !.got = "error"]) /\ Others /\ q.at = "head"
  <2> DEFINE r == [q EXCEPT !.at = "clear", !.got = "error"]
  <2>1. r \in CallRecords /\ CallSound(r, parts) /\ r.ssh = q.ssh
    BY <1>1, <1>2, CallFails
  <2>2. Changes(c, r) /\ Others
    BY <1>2
  <2> HIDE DEF q, r
  <2> QED
    BY <1>1, <2>1, <2>2, OneCall
<1>3. CASE Changes(c, [q EXCEPT !.at = "clear", !.got = q.got]) /\ Others /\ q.at \in {"stream", "ending"}
  <2> DEFINE r == [q EXCEPT !.at = "clear", !.got = q.got]
  <2>1. r \in CallRecords /\ CallSound(r, parts) /\ r.ssh = q.ssh
    BY <1>1, <1>3, CallEnds
  <2>2. Changes(c, r) /\ Others
    BY <1>3
  <2> HIDE DEF q, r
  <2> QED
    BY <1>1, <2>1, <2>2, OneCall
<1> QED
  BY <1>2, <1>3 DEF LinkFails

LEMMA HangsUpKeeps ==
  ASSUME NEW calls, NEW parts, CallsInv(calls, parts), NEW c \in calls,
         HangsUp(c)
  PROVE  CallsInv(calls, parts)'
<1> DEFINE q == inCall[c]
<1>1. /\ q \in CallRecords /\ CallSound(q, parts)
      /\ inBridge = "closed" => q.ssh # "up"
  BY TheCall
<1>2. CASE Changes(c, [q EXCEPT !.client = FALSE]) /\ Others
  <2> DEFINE r == [q EXCEPT !.client = FALSE]
  <2>1. r \in CallRecords /\ CallSound(r, parts) /\ r.ssh = q.ssh
    BY <1>1, <1>2, CallHungUp
  <2>2. Changes(c, r) /\ Others
    BY <1>2
  <2> HIDE DEF q, r
  <2> QED
    BY <1>1, <2>1, <2>2, OneCall
<1> QED
  BY <1>2 DEF HangsUp

LEMMA BoundAccountKeeps ==
  ASSUME NEW calls, NEW parts, CallsInv(calls, parts), NEW c \in calls,
         bound_account(c)
  PROVE  CallsInv(calls, parts)'
<1> DEFINE q == inCall[c]
<1>1. /\ q \in CallRecords /\ CallSound(q, parts)
      /\ inBridge = "closed" => q.ssh # "up"
  BY TheCall
<1>2. CASE Changes(c, Failed(q, TRUE)) /\ Others /\ q.relay = "checks"
  <2> DEFINE r == Failed(q, TRUE)
  <2>1. r \in CallRecords /\ CallSound(r, parts) /\ r.ssh = q.ssh
    BY <1>1, <1>2, FailedIs, ChecksUnsent
  <2>2. Changes(c, r) /\ Others
    BY <1>2
  <2> HIDE DEF q, r
  <2> QED
    BY <1>1, <2>1, <2>2, OneCall
<1>3. CASE Changes(c, [q EXCEPT !.relay = "connect", !.bound = inAccount]) /\ Others /\ q.relay = "checks" /\ inAccount \in 0..2
  <2> DEFINE r == [q EXCEPT !.relay = "connect", !.bound = inAccount]
  <2>1. r \in CallRecords /\ CallSound(r, parts) /\ r.ssh = q.ssh
    BY <1>1, <1>3, RelayBound
  <2>2. Changes(c, r) /\ Others
    BY <1>3
  <2> HIDE DEF q, r
  <2> QED
    BY <1>1, <2>1, <2>2, OneCall
<1> QED
  BY <1>2, <1>3 DEF bound_account, Fails, Failed, CallsInv

LEMMA SshIs == ASSUME NEW q \in CallRecords PROVE q.ssh \in {"none", "up", "down"}
  BY DEF CallRecords

LEMMA ConnectKeeps ==
  ASSUME NEW calls, NEW parts, CallsInv(calls, parts), NEW c \in calls,
         connect_upstream(c)
  PROVE  CallsInv(calls, parts)'
<1> DEFINE q == inCall[c]
<1>1. /\ q \in CallRecords /\ CallSound(q, parts)
      /\ inBridge = "closed" => q.ssh # "up"
  BY TheCall
<1>2. CASE Changes(c, [q EXCEPT !.relay = "last"]) /\ Others /\ q.relay = "connect"
  <2> DEFINE r == [q EXCEPT !.relay = "last"]
  <2>1. r \in CallRecords /\ CallSound(r, parts) /\ r.ssh = q.ssh
    BY <1>1, <1>2, RelayMoves
  <2>2. Changes(c, r) /\ Others
    BY <1>2
  <2> HIDE DEF q, r
  <2> QED
    BY <1>1, <2>1, <2>2, OneCall
<1>3. CASE Changes(c, Failed(q, ~q.sent)) /\ Others /\ q.relay = "connect"
  <2> DEFINE r == Failed(q, ~q.sent)
  <2>1. r \in CallRecords /\ CallSound(r, parts) /\ r.ssh = q.ssh
    BY <1>1, <1>3, FailedIs, UnsentIsNowhere
  <2>2. Changes(c, r) /\ Others
    BY <1>3
  <2> HIDE DEF q, r
  <2> QED
    BY <1>1, <2>1, <2>2, OneCall
<1> QED
  BY <1>2, <1>3 DEF connect_upstream, Fails, Failed

LEMMA LastKeeps ==
  ASSUME NEW calls, NEW parts, CallsInv(calls, parts), NEW c \in calls,
         LastCheck(c)
  PROVE  CallsInv(calls, parts)'
<1> DEFINE q == inCall[c]
<1>1. /\ q \in CallRecords /\ CallSound(q, parts)
      /\ inBridge = "closed" => q.ssh # "up"
  BY TheCall
<1>2. CASE Changes(c, [q EXCEPT !.relay = "post"]) /\ Others /\ q.relay = "last"
  <2> DEFINE r == [q EXCEPT !.relay = "post"]
  <2>1. r \in CallRecords /\ CallSound(r, parts) /\ r.ssh = q.ssh
    BY <1>1, <1>2, RelayMoves
  <2>2. Changes(c, r) /\ Others
    BY <1>2
  <2> HIDE DEF q, r
  <2> QED
    BY <1>1, <2>1, <2>2, OneCall
<1>3. CASE Changes(c, Failed(q, TRUE)) /\ Others /\ q.relay = "last"
  <2> DEFINE r == Failed(q, TRUE)
  <2>1. r \in CallRecords /\ CallSound(r, parts) /\ r.ssh = q.ssh
    BY <1>1, <1>3, FailedIs, ChecksUnsent
  <2>2. Changes(c, r) /\ Others
    BY <1>3
  <2> HIDE DEF q, r
  <2> QED
    BY <1>1, <2>1, <2>2, OneCall
<1> QED
  BY <1>2, <1>3 DEF LastCheck, Fails, Failed

LEMMA PostOnceKeeps ==
  ASSUME NEW calls, NEW parts, CallsInv(calls, parts), NEW c \in calls,
         PostOnce(c)
  PROVE  CallsInv(calls, parts)'
<1> DEFINE q == inCall[c]
<1>1. /\ q \in CallRecords /\ CallSound(q, parts)
      /\ inBridge = "closed" => q.ssh # "up"
  BY TheCall
<1>2. CASE Changes(c, [q EXCEPT !.relay = "reply", !.sent = TRUE, !.up = "asked"]) /\ Others /\ q.relay = "post"
  <2> DEFINE r == [q EXCEPT !.relay = "reply", !.sent = TRUE, !.up = "asked"]
  <2>1. r \in CallRecords /\ CallSound(r, parts) /\ r.ssh = q.ssh
    BY <1>1, <1>2, RelayPosts
  <2>2. Changes(c, r) /\ Others
    BY <1>2
  <2> HIDE DEF q, r
  <2> QED
    BY <1>1, <2>1, <2>2, OneCall
<1> QED
  BY <1>2 DEF PostOnce

LEMMA CancelledKeeps ==
  ASSUME NEW calls, NEW parts, CallsInv(calls, parts), NEW c \in calls,
         stop_if_revoked(c)
  PROVE  CallsInv(calls, parts)'
<1> DEFINE q == inCall[c]
<1>1. /\ q \in CallRecords /\ CallSound(q, parts)
      /\ inBridge = "closed" => q.ssh # "up"
  BY TheCall
<1>2. CASE Changes(c, [q EXCEPT !.cancelled = TRUE]) /\ Others
  <2> DEFINE r == [q EXCEPT !.cancelled = TRUE]
  <2>1. r \in CallRecords /\ CallSound(r, parts) /\ r.ssh = q.ssh
    BY <1>1, <1>2, RelayCancelled
  <2>2. Changes(c, r) /\ Others
    BY <1>2
  <2> HIDE DEF q, r
  <2> QED
    BY <1>1, <2>1, <2>2, OneCall
<1> QED
  BY <1>2 DEF stop_if_revoked

LEMMA ExpiredKeeps ==
  ASSUME NEW calls, NEW parts, CallsInv(calls, parts), NEW c \in calls,
         expired(c)
  PROVE  CallsInv(calls, parts)'
<1> DEFINE q == inCall[c]
<1>1. /\ q \in CallRecords /\ CallSound(q, parts)
      /\ inBridge = "closed" => q.ssh # "up"
  BY TheCall
<1>2. CASE Changes(c, Failed(q, ~q.sent)) /\ Others /\ q.relay \in {"checks", "connect", "last", "post", "reply", "stream"}
  <2> DEFINE r == Failed(q, ~q.sent)
  <2>1. r \in CallRecords /\ CallSound(r, parts) /\ r.ssh = q.ssh
    BY <1>1, <1>2, FailedIs, UnsentIsNowhere
  <2>2. Changes(c, r) /\ Others
    BY <1>2
  <2> HIDE DEF q, r
  <2> QED
    BY <1>1, <2>1, <2>2, OneCall
<1> QED
  BY <1>2 DEF expired, Relaying, Fails, Failed

LEMMA BridgeIs == Stopping <=> inBridge # "open"
  BY DEF Stopping

LEMMA ForwardKeeps ==
  ASSUME NEW calls, NEW parts, CallsInv(calls, parts), NEW c \in calls,
         _forward(c)
  PROVE  CallsInv(calls, parts)'
<1> DEFINE q == inCall[c]
<1>1. /\ q \in CallRecords /\ CallSound(q, parts)
      /\ inBridge = "closed" => q.ssh # "up"
  BY TheCall
<1>2. CASE Changes(c, [q EXCEPT !.at = "head", !.ssh = "up", !.relay = "checks"]) /\ Others /\ inBridge = "open" /\ q.at = "body"
  <2> DEFINE r == [q EXCEPT !.at = "head", !.ssh = "up", !.relay = "checks"]
  <2>1. r \in CallRecords /\ CallSound(r, parts)
    BY <1>1, <1>2, CallLaunched
  <2>2. Changes(c, r) /\ Others
    BY <1>2
  <2> HIDE DEF q, r
  <2> QED
    BY <1>2, <2>1, <2>2, OneCall
<1>3. CASE Changes(c, [q EXCEPT !.at = "clear", !.got = "error"]) /\ Others /\ q.at = "body"
  <2> DEFINE r == [q EXCEPT !.at = "clear", !.got = "error"]
  <2>1. r \in CallRecords /\ CallSound(r, parts) /\ r.ssh = q.ssh
    BY <1>1, <1>3, CallFails
  <2>2. Changes(c, r) /\ Others
    BY <1>3
  <2> HIDE DEF q, r
  <2> QED
    BY <1>1, <2>1, <2>2, OneCall
<1> QED
  BY <1>2, <1>3, BridgeIs DEF _forward, MayLaunch, Stopping

LEMMA FinishKeeps ==
  ASSUME NEW calls, NEW parts, CallsInv(calls, parts), NEW c \in calls,
         _finish(c)
  PROVE  CallsInv(calls, parts)'
<1> DEFINE q == inCall[c]
<1>1. /\ q \in CallRecords /\ CallSound(q, parts)
      /\ inBridge = "closed" => q.ssh # "up"
  BY TheCall
<1>2. CASE Changes(c, [q EXCEPT !.at = "gone", !.ssh = "down"]) /\ Others /\ q.at = "clear"
  <2> DEFINE r == [q EXCEPT !.at = "gone", !.ssh = "down"]
  <2>1. r \in CallRecords /\ CallSound(r, parts) /\ r.ssh # "up"
    BY <1>1, <1>2, CallOver
  <2>2. Changes(c, r) /\ Others
    BY <1>2
  <2> HIDE DEF q, r
  <2> QED
    BY <1>1, <2>1, <2>2, OneCall
<1>3. CASE Changes(c, [q EXCEPT !.at = "gone", !.ssh = q.ssh]) /\ Others /\ q.at = "clear" /\ q.ssh # "up"
  <2> DEFINE r == [q EXCEPT !.at = "gone", !.ssh = q.ssh]
  <2>1. r \in CallRecords /\ CallSound(r, parts) /\ r.ssh # "up"
    BY <1>1, <1>3, CallOver, SshIs
  <2>2. Changes(c, r) /\ Others
    BY <1>3
  <2> HIDE DEF q, r
  <2> QED
    BY <1>1, <2>1, <2>2, OneCall
<1> QED
  BY <1>2, <1>3 DEF _finish

LEMMA KillKeeps ==
  ASSUME NEW calls, NEW parts, CallsInv(calls, parts), NEW c \in calls,
         _kill(c)
  PROVE  CallsInv(calls, parts)'
<1> DEFINE q == inCall[c]
<1>1. /\ q \in CallRecords /\ CallSound(q, parts)
      /\ inBridge = "closed" => q.ssh # "up"
  BY TheCall
<1>2. CASE Changes(c, [q EXCEPT !.ssh = "down"]) /\ Others /\ q.ssh = "up"
  <2> DEFINE r == [q EXCEPT !.ssh = "down"]
  <2>1. r \in CallRecords /\ CallSound(r, parts) /\ r.ssh # "up"
    BY <1>1, <1>2, CallKilled
  <2>2. Changes(c, r) /\ Others
    BY <1>2
  <2> HIDE DEF q, r
  <2> QED
    BY <1>1, <2>1, <2>2, OneCall
<1> QED
  BY <1>2 DEF _kill

LEMMA ReplyKeeps ==
  ASSUME NEW calls, NEW parts, CallsInv(calls, parts), NEW c \in calls, Reply(c)
  PROVE  CallsInv(calls, parts)'
<1> DEFINE q == inCall[c]
<1>1. /\ q \in CallRecords /\ CallSound(q, parts)
      /\ inBridge = "closed" => q.ssh # "up"
  BY TheCall
<1>2. Others /\ q.relay = "reply"
  BY DEF Reply
<1>3. CASE Changes(c, Failed(q, ~q.sent))
  <2> DEFINE r == Failed(q, ~q.sent)
  <2>1. r \in CallRecords /\ CallSound(r, parts) /\ r.ssh = q.ssh
    BY <1>1, <1>2, FailedIs, UnsentIsNowhere
  <2>2. Changes(c, r)
    BY <1>3
  <2> HIDE DEF q, r
  <2> QED
    BY <1>1, <1>2, <2>1, <2>2, OneCall
<1>4. ASSUME NEW again \in BOOLEAN, q.up = "refused", Changes(c, Failed(q, again))
      PROVE  CallsInv(calls, parts)'
  <2> DEFINE r == Failed(q, again)
  <2>1. r \in CallRecords /\ CallSound(r, parts) /\ r.ssh = q.ssh
    BY <1>1, <1>2, <1>4, FailedIs
  <2>2. Changes(c, r)
    BY <1>4
  <2> HIDE DEF q, r
  <2> QED
    BY <1>1, <1>2, <2>1, <2>2, OneCall
<1>5. CASE q.up \in {"answers", "answered"} /\ Changes(c, [q EXCEPT !.relay = "stream", !.out.head = "ok"])
  <2> DEFINE f == [NoFrames EXCEPT !.head = "ok"]
             r == [q EXCEPT !.relay = "stream", !.out = f]
  <2>1. q.out = NoFrames
    BY <1>1, <1>2 DEF CallSound, RelayInOrder
  <2>2. f \in FrameRecords
    BY DEF FrameRecords, NoFrames
  <2>3. Changes(c, r)
    <3>1. [q EXCEPT !.relay = "stream", !.out.head = "ok"]
          = [q EXCEPT !.relay = "stream", !.out = [q.out EXCEPT !.head = "ok"]]
      BY <1>1 DEF CallRecords
    <3> QED
      BY <1>5, <2>1, <3>1
  <2>4. r \in CallRecords /\ CallSound(r, parts) /\ r.ssh = q.ssh
    BY <1>1, <1>2, <1>5, <2>2, RelayStreams
  <2> HIDE DEF q, r
  <2> QED
    BY <1>1, <1>2, <2>3, <2>4, OneCall
<1> QED
  BY <1>3, <1>4, <1>5 DEF Reply, Fails, Failed

LEMMA WriteKeeps ==
  ASSUME NEW calls, NEW parts, CallsInv(calls, parts), NEW c \in calls, write_chunk(c)
  PROVE  CallsInv(calls, parts)'
<1> DEFINE q == inCall[c]
<1>1. /\ q \in CallRecords /\ CallSound(q, parts) /\ q.out \in FrameRecords
      /\ inBridge = "closed" => q.ssh # "up"
  BY TheCall DEF CallRecords
<1>2. Others /\ q.relay = "stream"
  BY DEF write_chunk
<1>3. CASE Changes(c, Failed(q, FALSE))
  <2> DEFINE r == Failed(q, FALSE)
  <2>1. r \in CallRecords /\ CallSound(r, parts) /\ r.ssh = q.ssh
    BY <1>1, <1>2, FailedIs
  <2>2. Changes(c, r)
    BY <1>3
  <2> HIDE DEF q, r
  <2> QED
    BY <1>1, <1>2, <2>1, <2>2, OneCall
<1>4. CASE q.out.parts < q.upParts /\ Changes(c, [q EXCEPT !.out.parts = q.out.parts + 1])
  <2> DEFINE f == [q.out EXCEPT !.parts = q.out.parts + 1]
             r == [q EXCEPT !.out = f]
  <2>1. /\ f \in FrameRecords /\ f.head = q.out.head /\ f.end = q.out.end /\ f.exit = q.out.exit
        /\ f.parts = q.out.parts + 1
    BY <1>1 DEF FrameRecords
  <2>2. Changes(c, r)
    BY <1>1, <1>4 DEF CallRecords
  <2> HIDE DEF f
  <2>3. r \in CallRecords /\ CallSound(r, parts) /\ r.ssh = q.ssh
    BY <1>1, <1>2, <1>4, <2>1, RelayWrites
  <2> HIDE DEF q, r
  <2> QED
    BY <1>1, <1>2, <2>2, <2>3, OneCall
<1>5. CASE /\ q.out.parts >= q.upParts /\ q.up = "answered"
           /\ Changes(c, [q EXCEPT !.relay = "over", !.out = [q.out EXCEPT !.end = TRUE, !.exit = "zero"]])
  <2> DEFINE f == [q.out EXCEPT !.end = TRUE, !.exit = "zero"]
             r == [q EXCEPT !.relay = "over", !.out = f]
  <2>1. /\ f \in FrameRecords /\ f.head = q.out.head /\ f.end = TRUE /\ f.exit = "zero"
        /\ f.parts = q.out.parts
    BY <1>1 DEF FrameRecords
  <2>2. Changes(c, r)
    BY <1>5
  <2> HIDE DEF f
  <2>3. r \in CallRecords /\ CallSound(r, parts) /\ r.ssh = q.ssh
    BY <1>1, <1>2, <1>5, <2>1, RelayEndsWell
  <2> HIDE DEF q, r
  <2> QED
    BY <1>1, <1>2, <2>2, <2>3, OneCall
<1>6. q.out.parts \in Nat /\ q.upParts \in Nat
  BY <1>1 DEF CallRecords, FrameRecords
<1>7. ~(q.out.parts < q.upParts) => q.out.parts >= q.upParts
  BY <1>6
<1> QED
  BY <1>3, <1>4, <1>5, <1>7 DEF write_chunk, Fails, Failed, Frames

LEMMA UpstreamKeeps ==
  ASSUME NEW calls, NEW parts, CallsInv(calls, parts), NEW c \in calls, Others,
         \/ /\ inCall[c].up = "asked"
            /\ \E how \in {"refused", "answers", "broken"} : Changes(c, [inCall[c] EXCEPT !.up = how])
         \/ /\ inCall[c].up = "answers"
            /\ \/ Changes(c, [inCall[c] EXCEPT !.upParts = inCall[c].upParts + 1,
                    !.up = IF inCall[c].upParts + 1 = parts THEN "answered" ELSE inCall[c].up])
               \/ Changes(c, [inCall[c] EXCEPT !.up = "broken"])
  PROVE  CallsInv(calls, parts)'
<1> DEFINE q == inCall[c]
<1>1. /\ q \in CallRecords /\ CallSound(q, parts)
      /\ inBridge = "closed" => q.ssh # "up"
  BY TheCall
<1>2. ASSUME NEW how \in {"refused", "answers", "broken"}, q.up \in {"asked", "answers"},
             how = "refused" => q.up = "asked", Changes(c, [q EXCEPT !.up = how])
      PROVE  CallsInv(calls, parts)'
  <2> DEFINE r == [q EXCEPT !.up = how]
  <2>1. r \in CallRecords /\ CallSound(r, parts) /\ r.ssh = q.ssh
    BY <1>1, <1>2, UpstreamSays
  <2>2. Changes(c, r)
    BY <1>2
  <2> HIDE DEF q, r
  <2> QED
    BY <1>1, <2>1, <2>2, OneCall
<1>3. CASE /\ q.up = "answers"
           /\ Changes(c, [q EXCEPT !.upParts = q.upParts + 1,
                            !.up = IF q.upParts + 1 = parts THEN "answered" ELSE q.up])
  <2> DEFINE up == IF q.upParts + 1 = parts THEN "answered" ELSE q.up
             r == [q EXCEPT !.upParts = q.upParts + 1, !.up = up]
  <2>1. up \in {"answers", "answered"} /\ (up = "answered" <=> q.upParts + 1 = parts)
    BY <1>3
  <2>2. Changes(c, r)
    BY <1>3
  <2> HIDE DEF up
  <2>3. r \in CallRecords /\ CallSound(r, parts) /\ r.ssh = q.ssh
    BY <1>1, <1>3, <2>1, UpstreamPart
  <2> HIDE DEF q, r
  <2> QED
    BY <1>1, <2>2, <2>3, OneCall
<1> QED
  BY <1>2, <1>3

LEMMA ClosesKeeps ==
  ASSUME NEW calls, NEW parts, CallsInv(calls, parts),
         \/ close_says_so
         \/ AccountChanges
         \/ /\ inBridge' = "closed" /\ UNCHANGED <<inAccount, inChanges>>
            /\ inCall' = [c \in calls |-> [inCall[c] EXCEPT !.client = FALSE,
                            !.ssh = IF inCall[c].ssh = "up" THEN "down" ELSE inCall[c].ssh]]
  PROVE  CallsInv(calls, parts)'
<1>1. CASE close_says_so
  BY <1>1 DEF close_says_so, CallsInv
<1>2. CASE AccountChanges
  BY <1>2 DEF AccountChanges, CallsInv
<1>3. CASE /\ inBridge' = "closed" /\ UNCHANGED <<inAccount, inChanges>>
           /\ inCall' = [c \in calls |-> [inCall[c] EXCEPT !.client = FALSE,
                           !.ssh = IF inCall[c].ssh = "up" THEN "down" ELSE inCall[c].ssh]]
  <2>1. ASSUME NEW c \in calls
        PROVE  inCall'[c] \in CallRecords /\ CallSound(inCall'[c], parts) /\ inCall'[c].ssh # "up"
    <3> DEFINE q == inCall[c]
               s == IF q.ssh = "up" THEN "down" ELSE q.ssh
               r == [q EXCEPT !.client = FALSE, !.ssh = s]
    <3>1. q \in CallRecords /\ CallSound(q, parts) /\ q.ssh \in {"none", "up", "down"}
      BY TheCall, SshIs
    <3>2. s \in {"none", "up", "down"} /\ s # "up" /\ (q.ssh # "up" => s = q.ssh)
      BY <3>1
    <3>3. inCall'[c] = r
      BY <1>3
    <3> HIDE DEF s
    <3>4. r.ssh = s
      BY <3>1 DEF CallRecords
    <3>5. r \in CallRecords /\ CallSound(r, parts)
      BY <3>1, <3>2, CallStopped
    <3> HIDE DEF q, r
    <3> QED
      BY <3>2, <3>3, <3>4, <3>5
  <2>2. inCall' \in [calls -> CallRecords]
    <3>1. inCall' = [c \in calls |-> inCall'[c]]
      BY <1>3
    <3> QED
      BY <2>1, <3>1
  <2> QED
    BY <1>3, <2>1, <2>2 DEF CallsInv
<1> QED
  BY <1>1, <1>2, <1>3

LEMMA CallsBegin ==
  ASSUME NEW calls, NEW parts, inBridge = "open", inAccount = 1, inCall = [c \in calls |-> NoCall]
  PROVE  CallsInv(calls, parts)
<1>1. NoCall \in CallRecords
  BY DEF NoCall, NoFrames, CallRecords, FrameRecords
<1>2. CallSound(NoCall, parts)
  BY DEF NoCall, NoFrames, CallSound, RelayInOrder, CopiedInOrder
<1> QED
  BY <1>1, <1>2 DEF CallsInv

(* One connection's step, but for its admission and what upstream says.      *)
OneMoves(c) ==
  \/ _validate(c) \/ _forward(c)
  \/ CopyHead(c) \/ CopyPart(c) \/ CopyEnd(c) \/ _completed(c) \/ LinkFails(c) \/ _finish(c)
  \/ _kill(c) \/ HangsUp(c)
  \/ bound_account(c) \/ connect_upstream(c) \/ LastCheck(c) \/ PostOnce(c) \/ Reply(c)
  \/ write_chunk(c) \/ stop_if_revoked(c) \/ expired(c)

LEMMA OneMovesKeeps ==
  ASSUME NEW calls, NEW parts, CallsInv(calls, parts), NEW c \in calls, OneMoves(c)
  PROVE  CallsInv(calls, parts)'
  BY ValidateKeeps, ForwardKeeps, CopyHeadKeeps, CopyPartKeeps, CopyEndKeeps,
     CompletedKeeps, LinkFailsKeeps, FinishKeeps, KillKeeps, HangsUpKeeps, BoundAccountKeeps,
     ConnectKeeps, LastKeeps, PostOnceKeeps, ReplyKeeps, WriteKeeps, CancelledKeeps, ExpiredKeeps
  DEF OneMoves

LEMMA StandsKeeps ==
  ASSUME NEW calls, NEW parts, CallsInv(calls, parts), UNCHANGED inVars
  PROVE  CallsInv(calls, parts)'
  BY DEF CallsInv, inVars

LEMMA InStepKeeps ==
  ASSUME CallsInv(InCalls, InParts), InNext \/ UNCHANGED inVars
  PROVE  CallsInv(InCalls, InParts)'
<1>1. ASSUME NEW c \in InCalls, process_request(c)
      PROVE  CallsInv(InCalls, InParts)'
  BY <1>1, AdmitKeeps DEF process_request
<1>5. ASSUME NEW c \in InCalls, acquire_worker(c)
      PROVE  CallsInv(InCalls, InParts)'
  BY <1>5, AcquireWorkerKeeps DEF acquire_worker
<1>2. ASSUME NEW c \in InCalls, OneMoves(c)
      PROVE  CallsInv(InCalls, InParts)'
  BY <1>2, OneMovesKeeps
<1>3. ASSUME NEW c \in InCalls, Upstream(c)
      PROVE  CallsInv(InCalls, InParts)'
  BY <1>3, UpstreamKeeps DEF Upstream
<1>4. CASE close_says_so \/ stop_connections \/ AccountChanges
  BY <1>4, ClosesKeeps DEF stop_connections
<1> QED
  BY <1>1, <1>2, <1>3, <1>4, <1>5, StandsKeeps DEF InNext, OneMoves

(* What it says of the connections a reader asked about.                     *)
LEMMA CallsGiveSound ==
  ASSUME NEW calls, NEW parts, CallsInv(calls, parts), NEW c \in calls
  PROVE  /\ inCall[c].got = "whole" /\ inCall[c].out.head = "ok" =>
              inCall[c].up = "answered" /\ inCall[c].parts = parts
         /\ inCall[c].out.head = "retryable" =>
              inCall[c].up \notin {"asked", "answers", "answered", "broken"}
         /\ inBridge = "closed" => inCall[c].ssh # "up"
<1>1. CallSound(inCall[c], parts) /\ (inBridge = "closed" => inCall[c].ssh # "up")
  BY TheCall
<1> QED
  BY <1>1 DEF CallSound, CopiedInOrder

LEMMA InInvGivesSound == CallsInv(InCalls, InParts) => InferenceSound
  BY CallsGiveSound DEF InferenceSound, WholeMeansWhole, RetryableMeansUnanswered, ClosedMeansGone,
     Frames, CallsInv

(* A connection alone steps as one of several does: how many there are, and *)
(* how long its answer is, matters to its admission and to upstream only.   *)
LEMMA SameCallSteps ==
  ASSUME NEW c
  PROVE  /\ AloneCall!_validate(c) => _validate(c)
         /\ AloneCall!_forward(c) => _forward(c)
         /\ AloneCall!CopyHead(c) => CopyHead(c)
         /\ AloneCall!CopyPart(c) => CopyPart(c)
         /\ AloneCall!CopyEnd(c) => CopyEnd(c)
         /\ AloneCall!_completed(c) => _completed(c)
         /\ AloneCall!LinkFails(c) => LinkFails(c)
         /\ AloneCall!_finish(c) => _finish(c)
         /\ AloneCall!_kill(c) => _kill(c)
         /\ AloneCall!HangsUp(c) => HangsUp(c)
         /\ AloneCall!bound_account(c) => bound_account(c)
         /\ AloneCall!connect_upstream(c) => connect_upstream(c)
         /\ AloneCall!LastCheck(c) => LastCheck(c)
         /\ AloneCall!PostOnce(c) => PostOnce(c)
         /\ AloneCall!Reply(c) => Reply(c)
         /\ AloneCall!write_chunk(c) => write_chunk(c)
         /\ AloneCall!stop_if_revoked(c) => stop_if_revoked(c)
         /\ AloneCall!expired(c) => expired(c)
<1>1. AloneCall!_validate(c) => _validate(c)
  BY DEF AloneCall!_validate, _validate, AloneCall!Changes, Changes, AloneCall!Others,
         Others
<1>2. AloneCall!_forward(c) => _forward(c)
  BY DEF AloneCall!_forward, _forward, AloneCall!MayLaunch, MayLaunch, AloneCall!Stopping,
         Stopping, AloneCall!Changes, Changes, AloneCall!Others, Others
<1>3. AloneCall!CopyHead(c) => CopyHead(c)
  BY DEF AloneCall!CopyHead, CopyHead, AloneCall!Frames, Frames, AloneCall!Changes, Changes,
         AloneCall!Others, Others
<1>4. AloneCall!CopyPart(c) => CopyPart(c)
  BY DEF AloneCall!CopyPart, CopyPart, AloneCall!Frames, Frames, AloneCall!Changes, Changes,
         AloneCall!Others, Others
<1>5. AloneCall!CopyEnd(c) => CopyEnd(c)
  BY DEF AloneCall!CopyEnd, CopyEnd, AloneCall!Frames, Frames, AloneCall!Changes, Changes,
         AloneCall!Others, Others
<1>6. AloneCall!_completed(c) => _completed(c)
  BY DEF AloneCall!_completed, _completed, AloneCall!Frames, Frames, AloneCall!EndedWell,
         EndedWell, AloneCall!Changes, Changes, AloneCall!Others, Others
<1>7. AloneCall!LinkFails(c) => LinkFails(c)
  BY DEF AloneCall!LinkFails, LinkFails, AloneCall!Cut, Cut, AloneCall!Frames, Frames,
         AloneCall!Changes, Changes, AloneCall!Others, Others
<1>8. AloneCall!_finish(c) => _finish(c)
  BY DEF AloneCall!_finish, _finish, AloneCall!Changes, Changes, AloneCall!Others, Others
<1>9. AloneCall!_kill(c) => _kill(c)
  BY DEF AloneCall!_kill, _kill, AloneCall!Changes, Changes, AloneCall!Others, Others
<1>10. AloneCall!HangsUp(c) => HangsUp(c)
  BY DEF AloneCall!HangsUp, HangsUp, AloneCall!Changes, Changes, AloneCall!Others, Others
<1>11. AloneCall!bound_account(c) => bound_account(c)
  BY DEF AloneCall!bound_account, bound_account, AloneCall!Fails, Fails, AloneCall!Changes,
         Changes, AloneCall!Others, Others
<1>12. AloneCall!connect_upstream(c) => connect_upstream(c)
  BY DEF AloneCall!connect_upstream, connect_upstream, AloneCall!Fails, Fails,
         AloneCall!Changes, Changes, AloneCall!Others, Others
<1>13. AloneCall!LastCheck(c) => LastCheck(c)
  BY DEF AloneCall!LastCheck, LastCheck, AloneCall!Fails, Fails, AloneCall!StillBound,
         StillBound, AloneCall!Changes, Changes, AloneCall!Others, Others
<1>14. AloneCall!PostOnce(c) => PostOnce(c)
  BY DEF AloneCall!PostOnce, PostOnce, AloneCall!Changes, Changes, AloneCall!Others, Others
<1>15. AloneCall!Reply(c) => Reply(c)
  BY DEF AloneCall!Reply, Reply, AloneCall!Fails, Fails, AloneCall!NoFrames, NoFrames,
         AloneCall!Changes, Changes, AloneCall!Others, Others
<1>16. AloneCall!write_chunk(c) => write_chunk(c)
  BY DEF AloneCall!write_chunk, write_chunk, AloneCall!Fails, Fails, AloneCall!Frames,
         Frames, AloneCall!Changes, Changes, AloneCall!Others, Others
<1>17. AloneCall!stop_if_revoked(c) => stop_if_revoked(c)
  BY DEF AloneCall!stop_if_revoked, stop_if_revoked, AloneCall!Relaying, Relaying,
         AloneCall!Changes, Changes, AloneCall!Others, Others
<1>18. AloneCall!expired(c) => expired(c)
  BY DEF AloneCall!expired, expired, AloneCall!Relaying, Relaying, AloneCall!Fails, Fails,
         AloneCall!Changes, Changes, AloneCall!Others, Others
<1> QED
  BY <1>1, <1>2, <1>3, <1>4, <1>5, <1>6, <1>7, <1>8, <1>9, <1>10, <1>11, <1>12, <1>13,
     <1>14, <1>15, <1>16, <1>17, <1>18


LEMMA AloneStepKeeps ==
  ASSUME CallsInv({"alone"}, 2), AloneCall!InNext \/ UNCHANGED inVars
  PROVE  CallsInv({"alone"}, 2)'
<1>1. ASSUME NEW c \in {"alone"}, AloneCall!process_request(c)
      PROVE  CallsInv({"alone"}, 2)'
  BY <1>1, AdmitKeeps DEF AloneCall!process_request, AloneCall!Changes, Changes, AloneCall!Others, Others
<1>2. ASSUME NEW c \in {"alone"}, AloneCall!acquire_worker(c)
      PROVE  CallsInv({"alone"}, 2)'
  BY <1>2, AcquireWorkerKeeps
  DEF AloneCall!acquire_worker, AloneCall!Changes, Changes, AloneCall!Others, Others
<1>3. ASSUME NEW c \in {"alone"}, OneMoves(c)
      PROVE  CallsInv({"alone"}, 2)'
  BY <1>3, OneMovesKeeps
<1>4. ASSUME NEW c \in {"alone"}, AloneCall!Upstream(c)
      PROVE  CallsInv({"alone"}, 2)'
  BY <1>4, UpstreamKeeps
  DEF AloneCall!Upstream, AloneCall!Relaying, AloneCall!Changes, Changes, AloneCall!Others, Others
<1>5. CASE AloneCall!close_says_so \/ AloneCall!stop_connections \/ AloneCall!AccountChanges
  <2>1. AloneCall!close_says_so => close_says_so
    BY DEF AloneCall!close_says_so, close_says_so
  <2>2. CASE AloneCall!AccountChanges
    BY <2>2 DEF AloneCall!AccountChanges, CallsInv
  <2> QED
    BY <1>5, <2>1, <2>2, ClosesKeeps DEF AloneCall!stop_connections
<1> QED
  BY <1>1, <1>2, <1>3, <1>4, <1>5, StandsKeeps, SameCallSteps DEF AloneCall!InNext, OneMoves

LEMMA AloneInvGivesSound == CallsInv({"alone"}, 2) => AloneCall!InferenceSound
  BY CallsGiveSound
  DEF AloneCall!InferenceSound, AloneCall!WholeMeansWhole, AloneCall!RetryableMeansUnanswered,
      AloneCall!ClosedMeansGone, AloneCall!Frames, CallsInv

-----------------------------------------------------------------------------
(* The shared connection: the inductive invariant.                          *)

TpTyped ==
  /\ launcher \in {"new", "starting", "up", "closing", "waiting", "struck", "closed", "unconfirmed", "killed"}
  /\ tpSupervisor \in {"none", "reading", "running", "ending", "ended", "dead", "reaped"}
  /\ master \in {"none", "up", "gone"} /\ pgid \in {"none", "ours", "nobody", "stranger"}
  /\ crashed \in BOOLEAN /\ struck \in BOOLEAN /\ directory \in BOOLEAN /\ socket \in BOOLEAN

(* As long as the launcher may strike, the supervisor's id is its own       *)
(* group's: a dead leader is not reaped before.                             *)
GroupIsOurs ==
  /\ launcher = "new" => tpSupervisor = "none" /\ pgid = "none" /\ ~socket /\ ~directory
  /\ launcher \in {"starting", "up", "closing", "waiting", "struck"} =>
       pgid = "ours" /\ tpSupervisor # "none"
  /\ tpSupervisor \in {"none", "reading"} => master = "none"
  /\ Living => pgid = "ours"

(* Of a group that was struck nothing lives, and what was closed is clean.  *)
StruckIsGone ==
  /\ launcher \in {"struck", "closed", "unconfirmed"} => master # "up" /\ ~Living
  /\ launcher = "closed" => tpSupervisor = "reaped" /\ ~directory /\ ~socket
  /\ tpSupervisor \in {"dead", "reaped"} /\ ~crashed => master # "up"

TpInv == TpTyped /\ ~struck /\ GroupIsOurs /\ StruckIsGone

LEMMA TpInitSound == TpInit => TpInv
  BY DEF TpInit, TpInv, TpTyped, GroupIsOurs, StruckIsGone, Living

LEMMA TpStepKeeps == ASSUME TpInv, TpNext \/ UNCHANGED tpVars PROVE TpInv'
<1> USE DEF TpInv, TpTyped, GroupIsOurs, StruckIsGone, Living, Pipe, Group, Files, LeaderActs, Open
<1>1. CASE UNCHANGED tpVars
  BY <1>1 DEF tpVars
<1>2. CASE _launch_supervisor
  BY <1>2 DEF _launch_supervisor
<1>3. CASE _read_status
  BY <1>3 DEF _read_status
<1>4. CASE BecomesReady
  BY <1>4 DEF BecomesReady, Looked, _control, Reaps
<1>5. CASE GivesUp
  BY <1>5 DEF GivesUp
<1>6. CASE command
  BY <1>6 DEF command, Looked, Reaps
<1>7. CASE close_begins
  BY <1>7 DEF close_begins, _control
<1>8. CASE close_liveness
  BY <1>8 DEF close_liveness, _control
<1>9. CASE killpg
  BY <1>9 DEF killpg, MasterKilled
<1>10. CASE wait
  BY <1>10 DEF wait, Removable
<1>11. CASE _transport_supervisor
  BY <1>11 DEF _transport_supervisor
<1>12. CASE SeesSocket
  BY <1>12 DEF SeesSocket
<1>13. CASE Stops
  BY <1>13 DEF Stops
<1>14. CASE _transport_artifacts
  BY <1>14 DEF _transport_artifacts, Removable
<1>15. CASE KillsItsGroup
  BY <1>15 DEF KillsItsGroup, MasterKilled
<1>16. CASE Binds
  BY <1>16 DEF Binds
<1>17. CASE MasterEnds
  BY <1>17 DEF MasterEnds
<1>18. CASE SupervisorDies
  BY <1>18 DEF SupervisorDies
<1>19. CASE LauncherDies
  BY <1>19 DEF LauncherDies
<1>20. CASE ReapedByInit
  BY <1>20 DEF ReapedByInit
<1>21. CASE GivenToAStranger
  BY <1>21 DEF GivenToAStranger
<1> QED
  BY <1>1, <1>2, <1>3, <1>4, <1>5, <1>6, <1>7, <1>8, <1>9, <1>10, <1>11, <1>12, <1>13, <1>14, <1>15, <1>16, <1>17, <1>18, <1>19, <1>20, <1>21 DEF TpNext

LEMMA TpInvGivesSound == TpInv => TransportSound
  BY DEF TpInv, StruckIsGone, TransportSound, StrikesOnlyItsOwn, ClosedMeansClean, NoMasterLeftBehind

-----------------------------------------------------------------------------
(* What is kept of requests: the inductive invariant.                       *)

Bucket == [n : Nat, updated : Nat]
Requests == [at : {"none", "lock", "locked", "bound"}, fp : Accounts \cup {0}, t : Nat]

RmTyped ==
  /\ rmNow \in Nat /\ rmAccount \in Accounts
  /\ rmStore \in [fp : Accounts, buckets : [Days -> Bucket]]
  /\ rmSaved \in [Accounts \X Days -> Nat] /\ rmSince \in Nat
  /\ rmRelay \in [RmRelays -> Requests]
  /\ \A r \in RmRelays : rmRelay[r].at # "none" => rmRelay[r].fp \in Accounts /\ Day(rmRelay[r].t) \in Days
  /\ Day(rmNow) \in Days

(* A day's count is of what was recorded, and is all of it unless the day   *)
(* is noted to miss some; of another account than the file's there is none. *)
CountsTrue ==
  \A fp \in Accounts, d \in Days :
    IF rmStore.fp = fp
    THEN /\ rmStore.buckets[d].n <= rmSaved[<<fp, d>>]
         /\ <<fp, d>> \notin rmDisturbed => rmStore.buckets[d].n = rmSaved[<<fp, d>>]
    ELSE <<fp, d>> \notin rmDisturbed => rmSaved[<<fp, d>>] = 0

(* Only the holder of the lock records; one that found its account bound    *)
(* and sees it change has the lock since, and nothing was recorded under it.*)
LockHeld ==
  /\ \A r \in RmRelays : rmRelay[r].at \in {"locked", "bound"} => rmLock = r
  /\ \A r \in RmRelays : rmRelay[r].at = "bound" /\ rmRelay[r].fp # rmAccount => rmSince = 0
  /\ rmSince > 0 => rmStore.fp = rmAccount

(* One answer: what the collector holds, as long as nothing was garbled, is *)
(* the answer's, but for a count that is to be replaced.                    *)
Usage ==
  [bad : BOOLEAN, delta : BOOLEAN, stopped : BOOLEAN, n : Nat, model : {0, 1, 2},
   unpriced : BOOLEAN, fallback : BOOLEAN, replace : BOOLEAN]
AnswerRecords == [model : {0, 1, 2}, n : Nat, fell : BOOLEAN, over : BOOLEAN, garbled : BOOLEAN]

SampleTrue ==
  /\ rmUsage \in Usage /\ rmAnswer \in AnswerRecords
  /\ ~rmUsage.bad =>
       /\ ~rmAnswer.garbled /\ rmUsage.model = rmAnswer.model
       /\ ~rmUsage.replace => rmUsage.n = rmAnswer.n
       /\ rmUsage.stopped => rmAnswer.over
       /\ rmAnswer.fell => rmUsage.unpriced

RmInv == RmTyped /\ CountsTrue /\ LockHeld /\ SampleTrue

LEMMA DayIs == \A t \in Nat : Day(t) \in Nat /\ Day(t) <= t
  BY DEF Day

LEMMA DayOf == \A t \in Nat : t <= RmMaxMoment => Day(t) \in Days
<1>1. \A t \in Nat : t <= RmMaxMoment => Day(t) <= Day(RmMaxMoment)
  BY MetricsAssumption DEF Day
<1> QED
  BY <1>1, DayIs, MetricsAssumption DEF Days

LEMMA RmInitSound == RmInit => RmInv
<1> SUFFICES ASSUME RmInit PROVE RmInv
  OBVIOUS
<1>1. NoBucket \in Bucket /\ NoRequest \in Requests /\ NoBucket.n = 0 /\ NoRequest.at = "none"
  BY DEF NoBucket, Bucket, NoRequest, Requests
<1>2. Empty_store(1) \in [fp : Accounts, buckets : [Days -> Bucket]]
      /\ \A d \in Days : Empty_store(1).buckets[d].n = 0
  BY <1>1 DEF Empty_store, Accounts
<1>3. RmTyped
  BY <1>1, <1>2, DayOf, MetricsAssumption DEF RmInit, RmTyped, Accounts
<1>4. CountsTrue
  BY <1>2 DEF RmInit, CountsTrue
<1>5. LockHeld
  BY <1>1 DEF RmInit, LockHeld
<1>6. SampleTrue
  BY DEF RmInit, SampleTrue, NoUsage, Answer, Usage, AnswerRecords
<1> QED
  BY <1>3, <1>4, <1>5, <1>6 DEF RmInv

(* A step that leaves the file, and what was recorded of it, as they are.   *)
LEMMA CountsStay ==
  ASSUME CountsTrue, UNCHANGED <<rmStore, rmSaved, rmDisturbed>> PROVE CountsTrue'
  BY DEF CountsTrue

LEMMA SampleStays == ASSUME SampleTrue, UNCHANGED sampleVars PROVE SampleTrue'
  BY DEF SampleTrue, sampleVars

LEMMA FinishesKeeps == ASSUME RmInv, UNCHANGED sampleVars, NEW r \in RmRelays, Finishes(r) PROVE RmInv'
<1>1. PICK fp \in Accounts : rmRelay' = [rmRelay EXCEPT ![r] = [at |-> "lock", fp |-> fp, t |-> rmNow]]
  BY DEF Finishes, RmInv, RmTyped
<1>2. [at |-> "lock", fp |-> fp, t |-> rmNow] \in Requests
  BY DEF RmInv, RmTyped, Requests
<1>3. /\ rmRelay' \in [RmRelays -> Requests]
      /\ \A q \in RmRelays \ {r} : rmRelay'[q] = rmRelay[q]
      /\ rmRelay'[r].at = "lock" /\ rmRelay'[r].fp = fp /\ rmRelay'[r].t = rmNow
  BY <1>1, <1>2 DEF RmInv, RmTyped
<1>4. RmTyped'
  BY <1>3 DEF RmInv, RmTyped, Finishes
<1>5. LockHeld'
  BY <1>3 DEF RmInv, LockHeld, Finishes
<1> QED
  BY <1>4, <1>5, CountsStay, SampleStays DEF RmInv, Finishes

LEMMA AcquireKeeps == ASSUME RmInv, UNCHANGED sampleVars, NEW r \in RmRelays, _acquire(r) PROVE RmInv'
<1>1. [rmRelay[r] EXCEPT !.at = "locked"] \in Requests /\ rmRelay' = [rmRelay EXCEPT ![r] = [rmRelay[r] EXCEPT !.at = "locked"]]
  BY DEF RmInv, RmTyped, Requests, _acquire
<1>2. /\ rmRelay' \in [RmRelays -> Requests]
      /\ \A q \in RmRelays \ {r} : rmRelay'[q] = rmRelay[q]
      /\ rmRelay'[r].at = "locked" /\ rmRelay'[r].fp = rmRelay[r].fp /\ rmRelay'[r].t = rmRelay[r].t
  BY <1>1 DEF RmInv, RmTyped, Requests
<1>3. RmTyped'
  BY <1>2 DEF RmInv, RmTyped, _acquire
<1>4. LockHeld'
  BY <1>2, MetricsAssumption DEF RmInv, LockHeld, _acquire
<1> QED
  BY <1>3, <1>4, CountsStay, SampleStays DEF RmInv, _acquire

LEMMA RelayGone ==
  ASSUME RmInv, NEW r \in RmRelays, RelayEnds(r)
  PROVE  /\ rmRelay' \in [RmRelays -> Requests] /\ rmRelay'[r].at = "none"
         /\ \A q \in RmRelays \ {r} : rmRelay'[q] = rmRelay[q]
<1>1. NoRequest \in Requests /\ NoRequest.at = "none"
  BY DEF NoRequest, Requests
<1> QED
  BY <1>1 DEF RelayEnds, RmInv, RmTyped

LEMMA GivesUpKeeps == ASSUME RmInv, UNCHANGED sampleVars, NEW r \in RmRelays, gives_up(r) PROVE RmInv'
<1>1. RelayEnds(r)
  BY DEF gives_up
<1>2. RmTyped'
  BY <1>1, RelayGone DEF RmInv, RmTyped, gives_up
<1>3. LockHeld'
  BY <1>1, RelayGone DEF RmInv, LockHeld, gives_up
<1> QED
  BY <1>2, <1>3, CountsStay, SampleStays DEF RmInv, gives_up

LEMMA BoundKeeps == ASSUME RmInv, UNCHANGED sampleVars, NEW r \in RmRelays, still_bound(r) PROVE RmInv'
<1>1. CASE rmAccount = rmRelay[r].fp
  <2>1. [rmRelay[r] EXCEPT !.at = "bound"] \in Requests /\ rmRelay' = [rmRelay EXCEPT ![r] = [rmRelay[r] EXCEPT !.at = "bound"]]
    BY <1>1 DEF RmInv, RmTyped, Requests, still_bound
  <2>2. /\ rmRelay' \in [RmRelays -> Requests]
        /\ \A q \in RmRelays \ {r} : rmRelay'[q] = rmRelay[q]
        /\ rmRelay'[r].at = "bound" /\ rmRelay'[r].fp = rmRelay[r].fp /\ rmRelay'[r].t = rmRelay[r].t
    BY <2>1 DEF RmInv, RmTyped, Requests
  <2>3. RmTyped'
    BY <2>2 DEF RmInv, RmTyped, still_bound
  <2>4. LockHeld'
    BY <1>1, <2>2 DEF RmInv, LockHeld, still_bound
  <2> QED
    BY <2>3, <2>4, CountsStay, SampleStays DEF RmInv, still_bound
<1>2. CASE rmAccount # rmRelay[r].fp
  <2>1. RelayEnds(r)
    BY <1>2 DEF still_bound
  <2>2. RmTyped'
    BY <2>1, RelayGone DEF RmInv, RmTyped, still_bound
  <2>3. LockHeld'
    BY <1>2, <2>1, RelayGone DEF RmInv, LockHeld, still_bound
  <2> QED
    BY <2>2, <2>3, CountsStay, SampleStays DEF RmInv, still_bound
<1> QED
  BY <1>1, <1>2

(* What a writer keeps of the file, day by day.                             *)
LEMMA KeptIs ==
  ASSUME RmInv, NEW r \in RmRelays, rmRelay[r].at = "bound"
  PROVE  /\ KeptCounts(r) \in [Days -> Bucket]
         /\ \A d \in Days :
              KeptCounts(r)[d] = IF rmStore.fp = rmRelay[r].fp /\ Day(rmRelay[r].t) - d \in 0..RmWindow - 1
                                 THEN rmStore.buckets[d] ELSE NoBucket
<1>1. NoBucket \in Bucket /\ rmStore.buckets \in [Days -> Bucket]
  BY DEF NoBucket, Bucket, RmInv, RmTyped
<1> QED
  BY <1>1 DEF KeptCounts, _current

LEMMA RecordKeeps == ASSUME RmInv, UNCHANGED sampleVars, NEW r \in RmRelays, metrics_record(r) PROVE RmInv'
<1> DEFINE q == rmRelay[r]
           day == Day(q.t)
           kept == KeptCounts(r)
           old == kept[day]
           new == [n |-> old.n + 1, updated |-> IF old.updated > q.t THEN old.updated ELSE q.t]
           buckets == [kept EXCEPT ![day] = new]
<1>1. /\ q.at = "bound" /\ RelayEnds(r) /\ rmLock' = 0
      /\ rmStore' = [fp |-> q.fp, buckets |-> buckets]
      /\ rmSaved' = [rmSaved EXCEPT ![<<q.fp, day>>] = @ + 1]
      /\ rmSince' = IF q.fp = rmAccount THEN rmSince + 1 ELSE rmSince
      /\ UNCHANGED <<rmNow, rmAccount, rmSwaps>>
  BY DEF metrics_record
<1>2. rmDisturbed' = (rmDisturbed
          \cup (IF rmStore.fp # q.fp THEN {rmStore.fp} \X Days ELSE {}))
          \cup ({q.fp} \X {d \in Days : d > day \/ d <= day - RmWindow})
  BY DEF metrics_record
<1>3. /\ q.fp \in Accounts /\ day \in Days /\ q.t \in Nat /\ q \in Requests
      /\ rmStore \in [fp : Accounts, buckets : [Days -> Bucket]] /\ rmSaved \in [Accounts \X Days -> Nat]
  BY <1>1 DEF RmInv, RmTyped, Requests
<1>4. /\ kept \in [Days -> Bucket]
      /\ \A d \in Days : kept[d] = IF rmStore.fp = q.fp /\ day - d \in 0..RmWindow - 1
                                   THEN rmStore.buckets[d] ELSE NoBucket
  BY <1>1, KeptIs
<1>5. \A d \in Days : d \in Nat
  BY DEF Days
<1> HIDE DEF q, kept
<1>6. old \in Bucket /\ new \in Bucket /\ new.n = old.n + 1
  BY <1>3, <1>4 DEF Bucket
<1> HIDE DEF new
<1>7. /\ buckets \in [Days -> Bucket] /\ buckets[day] = new
      /\ \A d \in Days \ {day} : buckets[d] = kept[d]
  BY <1>3, <1>4, <1>6
<1>8. /\ rmSaved' \in [Accounts \X Days -> Nat] /\ rmSaved'[<<q.fp, day>>] = rmSaved[<<q.fp, day>>] + 1
      /\ \A p \in Accounts \X Days : p # <<q.fp, day>> => rmSaved'[p] = rmSaved[p]
  BY <1>1, <1>3
<1> HIDE DEF buckets
<1>9. rmStore' \in [fp : Accounts, buckets : [Days -> Bucket]] /\ rmStore'.fp = q.fp /\ rmStore'.buckets = buckets
  BY <1>1, <1>3, <1>7
<1>10. NoBucket.n = 0 /\ RmWindow \in Nat \ {0}
  BY MetricsAssumption DEF NoBucket
<1>11. CountsTrue'
  <2> SUFFICES ASSUME NEW fp \in Accounts, NEW d \in Days
               PROVE  IF rmStore'.fp = fp
                      THEN /\ rmStore'.buckets[d].n <= rmSaved'[<<fp, d>>]
                           /\ <<fp, d>> \notin rmDisturbed' => rmStore'.buckets[d].n = rmSaved'[<<fp, d>>]
                      ELSE <<fp, d>> \notin rmDisturbed' => rmSaved'[<<fp, d>>] = 0
    BY DEF CountsTrue
  <2>1. /\ <<fp, d>> \in Accounts \X Days /\ rmSaved[<<fp, d>>] \in Nat /\ rmStore.buckets[d].n \in Nat
        /\ IF rmStore.fp = fp
           THEN /\ rmStore.buckets[d].n <= rmSaved[<<fp, d>>]
                /\ <<fp, d>> \notin rmDisturbed => rmStore.buckets[d].n = rmSaved[<<fp, d>>]
           ELSE <<fp, d>> \notin rmDisturbed => rmSaved[<<fp, d>>] = 0
    BY <1>3 DEF RmInv, CountsTrue, Bucket
  <2>2. CASE fp # q.fp
    <3>1. rmSaved'[<<fp, d>>] = rmSaved[<<fp, d>>]
      BY <1>8, <2>1, <2>2
    <3>2. <<fp, d>> \notin rmDisturbed' => <<fp, d>> \notin rmDisturbed /\ rmStore.fp # fp
      BY <1>2, <2>2
    <3> QED
      BY <1>9, <2>1, <2>2, <3>1, <3>2
  <2>3. CASE fp = q.fp /\ <<fp, d>> \notin rmDisturbed'
    <3>1. <<fp, d>> \notin rmDisturbed /\ ~(d > day \/ d <= day - RmWindow)
      BY <1>2, <2>3
    <3>2. day - d \in 0..RmWindow - 1
      BY <1>3, <1>5, <1>10, <3>1
    <3>3. kept[d].n = rmSaved[<<fp, d>>]
      BY <1>4, <1>10, <2>1, <2>3, <3>1, <3>2
    <3>4. CASE d = day
      BY <1>6, <1>7, <1>8, <1>9, <2>1, <2>3, <3>3, <3>4
    <3>5. CASE d # day
      BY <1>7, <1>8, <1>9, <2>1, <2>3, <3>3, <3>5
    <3> QED
      BY <3>4, <3>5
  <2>4. CASE fp = q.fp /\ <<fp, d>> \in rmDisturbed'
    <3>1. kept[d].n <= rmSaved[<<fp, d>>] /\ kept[d].n \in Nat
      BY <1>4, <1>10, <2>1, <2>4
    <3>2. CASE d = day
      BY <1>6, <1>7, <1>8, <1>9, <2>1, <2>4, <3>1, <3>2
    <3>3. CASE d # day
      BY <1>7, <1>8, <1>9, <2>1, <2>4, <3>1, <3>3
    <3> QED
      BY <3>2, <3>3
  <2> QED
    BY <2>2, <2>3, <2>4
<1>12. rmSince' \in Nat
  BY <1>1 DEF RmInv, RmTyped
<1>13. RmTyped'
  BY <1>1, <1>8, <1>9, <1>12, RelayGone DEF RmInv, RmTyped
<1>14. \A p \in RmRelays \ {r} : rmRelay[p].at \notin {"locked", "bound"}
  BY <1>1 DEF RmInv, LockHeld, q
<1>15. LockHeld'
  <2>1. \A p \in RmRelays : rmRelay'[p].at \notin {"locked", "bound"}
    BY <1>1, <1>14, RelayGone
  <2>2. rmSince' > 0 => rmStore'.fp = rmAccount'
    BY <1>1, <1>9 DEF RmInv, LockHeld, q
  <2> QED
    BY <2>1, <2>2 DEF LockHeld
<1> QED
  BY <1>11, <1>13, <1>15, SampleStays DEF RmInv

LEMMA ClockKeeps == ASSUME RmInv, UNCHANGED sampleVars, Clock PROVE RmInv'
<1>1. rmNow' \in Nat /\ Day(rmNow') \in Days
  BY DayOf DEF Clock, RmInv, RmTyped
<1>2. RmTyped' /\ LockHeld'
  BY <1>1 DEF Clock, RmInv, RmTyped, LockHeld
<1> QED
  BY <1>2, CountsStay, SampleStays DEF RmInv, Clock

LEMMA SwapKeeps == ASSUME RmInv, UNCHANGED sampleVars, AccountSwapped PROVE RmInv'
<1>1. RmTyped' /\ LockHeld'
  BY DEF AccountSwapped, RmInv, RmTyped, LockHeld, Accounts
<1> QED
  BY <1>1, CountsStay, SampleStays DEF RmInv, AccountSwapped

LEMMA CountStepKeeps == ASSUME RmInv, CountNext PROVE RmInv'
  BY FinishesKeeps, AcquireKeeps, GivesUpKeeps, BoundKeeps, RecordKeeps, ClockKeeps, SwapKeeps DEF CountNext

(* What an event makes of the answer and of what the collector has of it.   *)
LEMMA Fed ==
  ASSUME SampleTrue, NEW a \in AnswerRecords, NEW u \in Usage, rmAnswer' = a, Feeds(u),
         ~rmUsage.bad /\ ~u.bad =>
           /\ ~a.garbled /\ u.model = a.model /\ (~u.replace => u.n = a.n)
           /\ (u.stopped => a.over) /\ (a.fell => u.unpriced)
  PROVE  SampleTrue'
<1>1. CASE rmUsage.bad
  BY <1>1 DEF SampleTrue, Feeds
<1>2. CASE ~rmUsage.bad
  BY <1>2 DEF SampleTrue, Feeds
<1> QED
  BY <1>1, <1>2

LEMMA AnswerIs ==
  ASSUME NEW a \in AnswerRecords, NEW n \in Nat
  PROVE  /\ [a EXCEPT !.n = n] \in AnswerRecords /\ [a EXCEPT !.n = n].n = n
         /\ [a EXCEPT !.n = n].model = a.model /\ [a EXCEPT !.n = n].fell = a.fell
         /\ [a EXCEPT !.n = n].over = a.over /\ [a EXCEPT !.n = n].garbled = a.garbled
  BY DEF AnswerRecords

(* A count of usage: replaced, kept, or refused.                            *)
LEMMA MergeIs ==
  ASSUME NEW u \in Usage, NEW n \in Nat, NEW initial \in BOOLEAN
  PROVE  /\ _merge(u, n, initial) \in Usage
         /\ _merge(u, n, initial).model = u.model /\ _merge(u, n, initial).stopped = u.stopped
         /\ _merge(u, n, initial).unpriced = u.unpriced
         /\ ~_merge(u, n, initial).bad => _merge(u, n, initial).n = n /\ ~u.bad
<1> DEFINE v == [u EXCEPT !.n = n]
           w == [u EXCEPT !.n = n, !.replace = FALSE]
           x == [u EXCEPT !.bad = TRUE]
<1>1. w = [v EXCEPT !.replace = FALSE]
  OBVIOUS
<1>2. v \in Usage /\ v.n = n /\ v.model = u.model /\ v.stopped = u.stopped /\ v.unpriced = u.unpriced /\ v.bad = u.bad
  BY DEF Usage
<1>3. x \in Usage /\ x.model = u.model /\ x.stopped = u.stopped /\ x.unpriced = u.unpriced /\ x.bad
  BY DEF Usage
<1>4. _merge(u, n, initial) = IF initial \/ u.replace THEN w ELSE IF n < u.n THEN x ELSE v
  BY DEF _merge
<1> HIDE DEF v, w, x
<1>5. w \in Usage /\ w.n = n /\ w.model = u.model /\ w.stopped = u.stopped /\ w.unpriced = u.unpriced /\ w.bad = u.bad
  BY <1>1, <1>2 DEF Usage
<1> QED
  BY <1>2, <1>3, <1>4, <1>5

LEMMA FallbackIs ==
  ASSUME NEW u \in Usage
  PROVE  /\ _mark_fallback(u) \in Usage /\ _mark_fallback(u).unpriced /\ _mark_fallback(u).replace
         /\ _mark_fallback(u).model = u.model /\ _mark_fallback(u).stopped = u.stopped
         /\ _mark_fallback(u).bad = u.bad
<1> DEFINE v == [u EXCEPT !.unpriced = TRUE]
           w == [u EXCEPT !.unpriced = TRUE, !.fallback = TRUE]
           x == _mark_fallback(u)
<1>1. w = [v EXCEPT !.fallback = TRUE] /\ x = [w EXCEPT !.replace = TRUE]
  BY DEF _mark_fallback
<1>2. v \in Usage /\ v.unpriced /\ v.model = u.model /\ v.stopped = u.stopped /\ v.bad = u.bad
  BY DEF Usage
<1> HIDE DEF v, w, x
<1>3. w \in Usage /\ w.unpriced /\ w.model = u.model /\ w.stopped = u.stopped /\ w.bad = u.bad
  BY <1>1, <1>2 DEF Usage
<1>4. x \in Usage /\ x.unpriced /\ x.model = u.model /\ x.stopped = u.stopped /\ x.bad = u.bad /\ x.replace
  BY <1>1, <1>3 DEF Usage
<1> QED
  BY <1>4 DEF x

LEMMA IterationsIs ==
  ASSUME NEW u \in Usage, NEW listed \in {"none", "others", "fallback"}
  PROVE  /\ _iterations(u, listed) \in Usage /\ (u.unpriced => _iterations(u, listed).unpriced)
         /\ _iterations(u, listed).model = u.model /\ _iterations(u, listed).stopped = u.stopped
         /\ _iterations(u, listed).bad = u.bad
<1>1. LET v == [u EXCEPT !.unpriced = TRUE]
      IN  v \in Usage /\ v.unpriced /\ v.model = u.model /\ v.stopped = u.stopped /\ v.bad = u.bad
  BY DEF Usage
<1>2. CASE listed = "fallback"
  BY <1>2, FallbackIs DEF _iterations
<1>3. CASE listed = "others"
  BY <1>1, <1>3 DEF _iterations
<1>4. CASE listed = "none"
  BY <1>4 DEF _iterations
<1> QED
  BY <1>2, <1>3, <1>4

LEMMA StartEventKeeps == ASSUME SampleTrue, message_start PROVE SampleTrue'
<1>1. PICK m \in {1, 2}, n \in 0..RmMaxTokens :
        /\ rmAnswer.model = 0 /\ rmAnswer' = [rmAnswer EXCEPT !.model = m, !.n = n]
        /\ Feeds(_merge([rmUsage EXCEPT !.model = m], n, TRUE))
  BY DEF message_start, Next_event
<1>2. n \in Nat /\ rmAnswer \in AnswerRecords /\ rmUsage \in Usage
  BY MetricsAssumption DEF SampleTrue
<1> DEFINE b == [rmAnswer EXCEPT !.model = m]
           a == [rmAnswer EXCEPT !.model = m, !.n = n]
           v == [rmUsage EXCEPT !.model = m]
           u == _merge(v, n, TRUE)
<1>3. a = [b EXCEPT !.n = n] /\ rmAnswer' = a /\ Feeds(u)
  BY <1>1
<1>4. b \in AnswerRecords /\ b.model = m /\ b.fell = rmAnswer.fell /\ b.over = rmAnswer.over /\ b.garbled = rmAnswer.garbled
  BY <1>2 DEF AnswerRecords
<1>5. v \in Usage /\ v.model = m /\ v.stopped = rmUsage.stopped /\ v.unpriced = rmUsage.unpriced /\ v.bad = rmUsage.bad
  BY <1>2 DEF Usage
<1> HIDE DEF a, b, v
<1>6. /\ a \in AnswerRecords /\ a.model = m /\ a.n = n /\ a.fell = rmAnswer.fell /\ a.over = rmAnswer.over
      /\ a.garbled = rmAnswer.garbled
  BY <1>2, <1>3, <1>4, AnswerIs
<1>7. /\ u \in Usage /\ u.model = m /\ u.stopped = rmUsage.stopped /\ u.unpriced = rmUsage.unpriced
      /\ (~u.bad => u.n = n /\ ~rmUsage.bad)
  BY <1>2, <1>5, MergeIs
<1> HIDE DEF u
<1> QED
  BY <1>3, <1>6, <1>7, Fed DEF SampleTrue

LEMMA FallsBackKeeps == ASSUME SampleTrue, FallsBack PROVE SampleTrue'
<1>1. PICK n \in 0..RmMaxTokens : rmAnswer' = [rmAnswer EXCEPT !.fell = TRUE, !.n = n] /\ Feeds(_mark_fallback(rmUsage))
  BY DEF FallsBack, Next_event
<1>2. n \in Nat /\ rmAnswer \in AnswerRecords /\ rmUsage \in Usage
  BY MetricsAssumption DEF SampleTrue
<1> DEFINE b == [rmAnswer EXCEPT !.fell = TRUE]
           a == [rmAnswer EXCEPT !.fell = TRUE, !.n = n]
           u == _mark_fallback(rmUsage)
<1>3. a = [b EXCEPT !.n = n] /\ rmAnswer' = a /\ Feeds(u)
  BY <1>1
<1>4. b \in AnswerRecords /\ b.model = rmAnswer.model /\ b.over = rmAnswer.over /\ b.garbled = rmAnswer.garbled
  BY <1>2 DEF AnswerRecords
<1> HIDE DEF a, b
<1>5. a \in AnswerRecords /\ a.model = rmAnswer.model /\ a.over = rmAnswer.over /\ a.garbled = rmAnswer.garbled
  BY <1>2, <1>3, <1>4, AnswerIs
<1>6. /\ u \in Usage /\ u.model = rmUsage.model /\ u.stopped = rmUsage.stopped /\ u.unpriced /\ u.replace
      /\ u.bad = rmUsage.bad
  BY <1>2, FallbackIs
<1> HIDE DEF u
<1> QED
  BY <1>3, <1>5, <1>6, Fed DEF SampleTrue

LEMMA DeltaKeeps == ASSUME SampleTrue, message_delta PROVE SampleTrue'
<1>1. PICK n \in rmAnswer.n..RmMaxTokens, listed \in {"none", "others", "fallback"} :
        /\ rmAnswer' = [rmAnswer EXCEPT !.n = n]
        /\ Feeds([_merge(_iterations(rmUsage, listed), n, FALSE) EXCEPT !.delta = TRUE])
  BY DEF message_delta, Next_event
<1>2. rmAnswer \in AnswerRecords /\ rmUsage \in Usage /\ rmAnswer.n \in Nat
  BY DEF SampleTrue, AnswerRecords
<1>3. n \in Nat
  BY <1>2, MetricsAssumption
<1> DEFINE a == [rmAnswer EXCEPT !.n = n]
           i == _iterations(rmUsage, listed)
           v == _merge(i, n, FALSE)
           u == [v EXCEPT !.delta = TRUE]
<1>4. rmAnswer' = a /\ Feeds(u)
  BY <1>1
<1>5. /\ a \in AnswerRecords /\ a.n = n /\ a.model = rmAnswer.model /\ a.over = rmAnswer.over
      /\ a.garbled = rmAnswer.garbled /\ a.fell = rmAnswer.fell
  BY <1>2, <1>3, AnswerIs
<1>6. /\ i \in Usage /\ i.model = rmUsage.model /\ i.stopped = rmUsage.stopped /\ i.bad = rmUsage.bad
      /\ (rmUsage.unpriced => i.unpriced)
  BY <1>2, IterationsIs
<1> HIDE DEF a, i
<1>7. /\ v \in Usage /\ v.model = rmUsage.model /\ v.stopped = rmUsage.stopped /\ (rmUsage.unpriced => v.unpriced)
      /\ (~v.bad => v.n = n /\ ~rmUsage.bad)
  BY <1>3, <1>6, MergeIs
<1> HIDE DEF v
<1>8. /\ u \in Usage /\ u.model = v.model /\ u.stopped = v.stopped /\ u.unpriced = v.unpriced
      /\ u.bad = v.bad /\ u.n = v.n
  BY <1>7 DEF Usage
<1> HIDE DEF u
<1> QED
  BY <1>4, <1>5, <1>7, <1>8, Fed DEF SampleTrue

LEMMA StopEventKeeps == ASSUME SampleTrue, message_stop PROVE SampleTrue'
<1>1. rmAnswer \in AnswerRecords /\ rmUsage \in Usage
  BY DEF SampleTrue
<1> DEFINE a == [rmAnswer EXCEPT !.over = TRUE]
           u == IF rmUsage.delta THEN [rmUsage EXCEPT !.stopped = TRUE] ELSE [rmUsage EXCEPT !.bad = TRUE]
<1>2. rmAnswer' = a /\ Feeds(u)
  BY DEF message_stop, Next_event
<1>3. /\ a \in AnswerRecords /\ a.n = rmAnswer.n /\ a.model = rmAnswer.model /\ a.over
      /\ a.garbled = rmAnswer.garbled /\ a.fell = rmAnswer.fell
  BY <1>1 DEF AnswerRecords
<1>4. /\ u \in Usage
      /\ ~u.bad => /\ u.model = rmUsage.model /\ u.unpriced = rmUsage.unpriced /\ u.n = rmUsage.n
                   /\ u.replace = rmUsage.replace
  BY <1>1 DEF Usage
<1> HIDE DEF a, u
<1> QED
  BY <1>2, <1>3, <1>4, Fed DEF SampleTrue

LEMMA GarbledKeeps == ASSUME SampleTrue, Garbled PROVE SampleTrue'
<1>1. rmAnswer' = [rmAnswer EXCEPT !.garbled = TRUE] /\ rmUsage' = [rmUsage EXCEPT !.bad = TRUE]
  BY DEF Garbled, Next_event, _reject
<1> QED
  BY <1>1 DEF SampleTrue, AnswerRecords, Usage

LEMMA RmStepKeeps == ASSUME RmInv, RmNext \/ UNCHANGED rmVars PROVE RmInv'
<1>1. CASE CountNext
  BY <1>1, CountStepKeeps
<1>2. CASE SampleNext \/ UNCHANGED rmVars
  <2>1. UNCHANGED countVars
    BY <1>2 DEF SampleNext, rmVars
  <2>2. SampleTrue'
    <3>1. CASE SampleNext
      BY <3>1, StartEventKeeps, FallsBackKeeps, DeltaKeeps, StopEventKeeps, GarbledKeeps DEF SampleNext, RmInv
    <3>2. CASE UNCHANGED rmVars
      BY <3>2, SampleStays DEF RmInv, rmVars
    <3> QED
      BY <1>2, <3>1, <3>2
  <2> QED
    BY <2>1, <2>2 DEF RmInv, RmTyped, CountsTrue, LockHeld, countVars
<1> QED
  BY <1>1, <1>2 DEF RmNext

LEMMA RmInvGivesSound == RmInv => MetricsSound
<1> SUFFICES ASSUME RmInv PROVE MetricsSound
  OBVIOUS
<1>1. EachCountedOnce
  <2> SUFFICES ASSUME NEW d \in Days
               PROVE  /\ rmStore.buckets[d].n <= rmSaved[<<rmStore.fp, d>>]
                      /\ <<rmStore.fp, d>> \notin rmDisturbed =>
                           rmStore.buckets[d].n = rmSaved[<<rmStore.fp, d>>]
                      /\ reported[d].n <= rmSaved[<<rmAccount, d>>]
    BY DEF EachCountedOnce
  <2>1. /\ rmStore.fp \in Accounts /\ rmAccount \in Accounts
        /\ rmSaved[<<rmAccount, d>>] \in Nat
    BY DEF RmInv, RmTyped
  <2>2. reported[d] = NoBucket \/ (rmStore.fp = rmAccount /\ reported[d] = rmStore.buckets[d])
    BY DEF reported, _current
  <2>3. NoBucket.n = 0
    BY DEF NoBucket
  <2> QED
    BY <2>1, <2>2, <2>3 DEF RmInv, CountsTrue
<1>2. BoundIsKept
  BY DEF RmInv, LockHeld, BoundIsKept
<1>3. UsageIsOfTheAnswer
  BY DEF RmInv, SampleTrue, UsageIsOfTheAnswer, finish, public_model
<1> QED
  BY <1>1, <1>2, <1>3 DEF MetricsSound

-----------------------------------------------------------------------------
(* What is kept of a model request on its way: of the connections there are *)
(* and of the one alone, of the shared connection, and of the counts.       *)
RequestsInv ==
  /\ focus # "call alone" => CallsInv(InCalls, InParts)
  /\ focus = "call alone" => CallsInv({"alone"}, 2)
  /\ TpInv /\ RmInv

LEMMA RequestsInit == ASSUME AgentsInit PROVE RequestsInv
<1>1. TpInv /\ RmInv
  BY TpInitSound, RmInitSound DEF AgentsInit
<1>2. CASE focus # "call alone"
  <2>1. InInit
    BY <1>2 DEF AgentsInit
  <2> QED
    BY <1>1, <1>2, <2>1, CallsBegin DEF RequestsInv, InInit
<1>3. CASE focus = "call alone"
  <2>1. AloneCall!InInit
    BY <1>3 DEF AgentsInit
  <2>2. AloneCall!NoCall = NoCall
    BY DEF AloneCall!NoCall, NoCall, AloneCall!NoFrames, NoFrames
  <2> QED
    BY <1>1, <1>3, <2>1, <2>2, CallsBegin DEF RequestsInv, AloneCall!InInit
<1> QED
  BY <1>2, <1>3

LEMMA RequestsStep ==
  ASSUME RequestsInv, [AgentsNext]_<<focus, agentVars, inVars, tpVars, rmVars>>
  PROVE  RequestsInv'
<1>1. UNCHANGED focus
  BY DEF AgentsNext
<1>2. TpInv'
  <2>1. TpNext \/ UNCHANGED tpVars
    BY DEF AgentsNext
  <2> QED
    BY <2>1, TpStepKeeps DEF RequestsInv
<1>3. RmInv'
  <2>1. RmNext \/ UNCHANGED rmVars
    BY DEF AgentsNext, RmNext
  <2> QED
    BY <2>1, RmStepKeeps DEF RequestsInv
<1>4. CASE focus # "call alone"
  <2>1. InNext \/ UNCHANGED inVars
    BY <1>4 DEF AgentsNext
  <2>2. CallsInv(InCalls, InParts)'
    BY <1>4, <2>1, InStepKeeps DEF RequestsInv
  <2> QED
    BY <1>1, <1>2, <1>3, <1>4, <2>2 DEF RequestsInv
<1>5. CASE focus = "call alone"
  <2>1. AloneCall!InNext \/ UNCHANGED inVars
    BY <1>5 DEF AgentsNext
  <2>2. CallsInv({"alone"}, 2)'
    BY <1>5, <2>1, AloneStepKeeps DEF RequestsInv
  <2> QED
    BY <1>1, <1>2, <1>3, <1>5, <2>2 DEF RequestsInv
<1> QED
  BY <1>4, <1>5

LEMMA RequestsInvGivesSound == RequestsInv => RequestsSound
  BY InInvGivesSound, AloneInvGivesSound, TpInvGivesSound, RmInvGivesSound
  DEF RequestsInv, RequestsSound

(* A model request, through a bridge, a link, a relay and an upstream that  *)
(* may each end at any moment, ends as a complete answer only when upstream *)
(* answered it whole; it is called retryable only where upstream had not    *)
(* taken it up; a closed bridge leaves no process and a closed launcher no  *)
(* connection of its own; and what is counted of it is counted once         *)
(* (inference_client.py, local_relay.py, relay_metrics.py).                 *)
THEOREM RequestsSoundAlways == AgentsSpec => []RequestsSound
<1>1. AgentsInit => RequestsInv
  BY RequestsInit
<1>2. ASSUME RequestsInv, [AgentsNext]_<<focus, agentVars, inVars, tpVars, rmVars>>
      PROVE  RequestsInv'
  BY <1>2, RequestsStep
<1> QED
  BY <1>1, <1>2, RequestsInvGivesSound, PTL DEF AgentsSpec

-----------------------------------------------------------------------------
(* Types: signing in.                                                       *)

(* Every sign-in was asked for by somebody who had claimed the slot.        *)
LoginFits ==
  /\ holder \in 1..MaxHolders /\ slotIs \in {"claimed", "active", "releasing"}
  /\ slotIs = "releasing" => holder < MaxHolders
  /\ \A i \in DOMAIN asked : asked[i].holder \in 1..MaxHolders

LEMMA LoginGives == LoginInv /\ LoginFits => LoginTypeOK
<1> SUFFICES ASSUME LoginInv, LoginFits PROVE LoginTypeOK
  OBVIOUS
<1>1. LoginTyped /\ ForTheRequest
  BY DEF LoginInv
<1>2. \A i \in DOMAIN asked : asked[i].kind \in Kinds /\ asked[i].holder \in 1..MaxHolders
  <2>1. PICK A : A = [kind : Kinds, holder : Nat]
    OBVIOUS
  <2>2. asked \in Seq(A)
    BY <1>1, <2>1 DEF LoginTyped
  <2>3. \A i \in DOMAIN asked : asked[i] \in A
    BY <2>2
  <2> QED
    BY <2>1, <2>3 DEF LoginFits
<1>3. row # NoLogin => /\ row.at \in DOMAIN asked /\ row.kind = asked[row.at].kind
                       /\ row.state \in Waiting \cup {"ready", "done", "failed"}
                       /\ row.detail \in Details
  BY <1>1 DEF LoginTyped, ForTheRequest, LoginRows, RowStates, Waiting
<1>4. bound \in LoginAccounts \cup {NoLogin} /\ home.cred \in LoginAccounts \cup {NoLogin}
      /\ home.block \in LoginAccounts \cup {NoLogin}
  BY <1>1 DEF LoginTyped, AnAccount, Homes
<1>5. report # NoLogin => report.detail \in Details
  BY <1>1 DEF LoginTyped, LoginReports
<1> QED
  BY <1>2, <1>3, <1>4, <1>5 DEF LoginTypeOK, LoginFits

LEMMA LoginTypes ==
  /\ LoginInit => LoginFits
  /\ LoginInv /\ LoginFits => LoginTypeOK
  /\ LoginInv /\ LoginFits /\ (LoginNext \/ UNCHANGED loginVars) => LoginFits'
<1>1. LoginInit => LoginFits
  BY LoginAssumption DEF LoginInit, LoginFits
<1>2. ASSUME LoginInv, LoginFits, LoginNext \/ UNCHANGED loginVars PROVE LoginFits'
  <2>1. ASSUME UNCHANGED <<asked, holder, slotIs>> PROVE LoginFits'
    BY <1>2, <2>1 DEF LoginFits
  <2>2. ASSUME NEW k \in Kinds, RequestSlotLogin(k) PROVE LoginFits'
    <3>1. PICK a : a = [kind |-> k, holder |-> holder]
      OBVIOUS
    <3>2. asked' = Append(asked, a) /\ a.holder = holder /\ UNCHANGED <<holder, slotIs>>
      BY <2>2, <3>1 DEF RequestSlotLogin
    <3>3. asked \in Seq([kind : Kinds, holder : Nat]) /\ a \in [kind : Kinds, holder : Nat]
      BY <1>2, <3>1 DEF LoginInv, LoginTyped
    <3>4. \A i \in DOMAIN asked' : IF i \in DOMAIN asked THEN asked'[i] = asked[i] ELSE asked'[i] = a
      BY <3>2, <3>3
    <3> QED
      BY <1>2, <3>2, <3>4 DEF LoginFits
  <2>3. CASE ReleaseSlot
    BY <1>2, <2>3 DEF ReleaseSlot, LoginFits
  <2>4. CASE WipedAndClaimed
    <3>1. holder' \in 1..MaxHolders
      BY <1>2, <2>4, LoginAssumption DEF WipedAndClaimed, LoginFits
    <3> QED
      BY <1>2, <2>4, <3>1 DEF WipedAndClaimed, LoginFits
  <2>5. CASE Heartbeat \/ HeartbeatReplyLost
    BY <1>2, <2>5 DEF Heartbeat, HeartbeatReplyLost, Hears, LoginFits
  <2>6. CASE UNCHANGED loginVars
    BY <2>1, <2>6 DEF loginVars, serverVars
  <2>7. CASE \/ SubmitSlotLoginCode \/ ReadSlotSecret \/ ClearSlotLogin \/ WeekPasses \/ HeartbeatLost
             \/ ClaudeAnswers \/ MoveCutShort \/ RunEnds
    BY <2>1, <2>7 DEF SubmitSlotLoginCode, ReadSlotSecret, ClearSlotLogin, WeekPasses, HeartbeatLost,
                      ClaudeAnswers, MoveCutShort, RunEnds, serverVars
  <2>8. CASE \/ StopAttempt \/ StartAttempt \/ SayAgain \/ ReadUrl \/ TypeCode
             \/ SayToken \/ CodeRefused \/ FirstSignIn \/ AdoptSignIn \/ StillWaiting \/ Abandon
    <3>1. Runs
      BY <2>8 DEF StopAttempt, StartAttempt, SayAgain, ReadUrl, TypeCode, SayToken, CodeRefused,
                  FirstSignIn, AdoptSignIn, StillWaiting, Abandon, In
    <3> QED
      BY <2>1, <3>1 DEF Runs, serverVars
  <2> QED
    BY <1>2, <2>2, <2>3, <2>4, <2>5, <2>6, <2>7, <2>8 DEF LoginNext
<1> QED
  BY <1>1, <1>2, LoginGives

-----------------------------------------------------------------------------
(* Types: the holder's computers.                                           *)

(* What the machine was ever told of a holder's computers was said by the   *)
(* server; a stream is of a device that was registered.                     *)
CliKnown(d) == d.code \in 1..cliCodes /\ d.claim \in 1..cliClaim /\ d.who \in CliHolders
ServerFits ==
  /\ cliClaim \in 0..CliMaxClaims /\ cliOpen \in BOOLEAN
  /\ cliState # "free" => cliHeldBy \in CliHolders
MachineFits ==
  /\ cliBuilt \in 0..CliMaxClaims /\ cliSettled \in 0..CliMaxClaims
  /\ \A d \in cliKeyFile : CliKnown(d)
  /\ IF cliStep = "idle" THEN cliOrder = NoCliHolder
     ELSE cliOrder.claim \in 0..CliMaxClaims /\ \A d \in cliOrder.keys : CliKnown(d)
StreamsFit ==
  \A s \in cliStreams : /\ s \in [device : Keys, at : {"checked", "open"}]
                        /\ s.device.code \in 1..cliCodes
CliFits == ServerFits /\ MachineFits /\ StreamsFit /\ cliFaults \in 0..CliMaxFaults

LEMMA CliBegins == CliInit => CliFits
  BY CliAccessAssumption DEF CliInit, CliFits, ServerFits, MachineFits, StreamsFit

LEMMA DevicesKnown ==
  ASSUME CliInv, CliFits
  PROVE  /\ \A d \in cliDevices : CliKnown(d)
         /\ \A p \in cliPairings : p.code \in 1..cliCodes /\ p.who \in CliHolders
<1>1. cliPairings \cup cliDevices # {} => cliHeldBy \in CliHolders /\ cliClaim \in Nat \ {0}
  BY DEF CliInv, Typed, CodesOnce, AccessIsTheClaims, UserIsTheClaims, CliFits, ServerFits
<1>2. \A x \in cliPairings \cup cliDevices : x.claim = cliClaim /\ x.who = cliHeldBy
  BY DEF CliInv, CodesOnce, AccessIsTheClaims
<1>3. /\ \A p \in cliPairings : p.code \in 1..cliCodes
      /\ \A d \in cliDevices : d.code \in 1..cliCodes
  BY DEF CliInv, CodesOnce
<1> QED
  BY <1>1, <1>2, <1>3 DEF CliKnown

LEMMA CliGives == CliInv /\ CliFits => CliTypeOK
<1> SUFFICES ASSUME CliInv, CliFits PROVE CliTypeOK
  OBVIOUS
<1>1. Typed
  BY DEF CliInv
<1>2. (cliOrder = NoCliHolder) <=> (cliStep = "idle")
  BY <1>1, CliAccessAssumption DEF Typed, CliFits, MachineFits, Orders, States, Keys, Someone, CliOrders
<1>3. {cliOpen, cliUser} \subseteq BOOLEAN
  <2>1. cliOpen \in BOOLEAN /\ cliUser \in BOOLEAN
    BY <1>1 DEF Typed, CliFits, ServerFits
  <2> QED
    BY <2>1, Zenon
<1>4. \A d \in cliDevices \cup cliKeyFile :
        d.code \in 1..cliCodes /\ d.claim \in 1..cliClaim /\ d.who \in CliHolders
  BY DevicesKnown DEF CliFits, MachineFits, CliKnown
<1>5. {cliClaim, cliBuilt, cliSettled} \subseteq 0..CliMaxClaims
  BY DEF CliFits, ServerFits, MachineFits
<1> QED
  BY <1>1, <1>2, <1>3, <1>4, <1>5, DevicesKnown
  DEF CliTypeOK, Typed, States, Someone, CliFits, StreamsFit

LEMMA KnownStays ==
  ASSUME cliCodes \in Nat, cliClaim \in Nat, cliCodes' \in Nat, cliClaim' \in Nat,
         cliCodes <= cliCodes', cliClaim <= cliClaim'
  PROVE  /\ \A n \in 1..cliCodes : n \in 1..cliCodes'
         /\ \A n \in 1..cliClaim : n \in 1..cliClaim'
  OBVIOUS

LEMMA SameMachineFits ==
  ASSUME CliFits, UNCHANGED cliMachine, cliCodes \in Nat, cliCodes' \in Nat, cliClaim' \in Nat,
         cliCodes <= cliCodes', cliClaim <= cliClaim'
  PROVE  MachineFits'
<1>1. cliClaim \in Nat
  BY CliAccessAssumption DEF CliFits, ServerFits
<1> QED
  BY <1>1, KnownStays DEF CliFits, MachineFits, CliKnown

LEMMA SameStreamsFit ==
  ASSUME CliFits, UNCHANGED cliStreams, cliCodes \in Nat, cliCodes' \in Nat, cliCodes <= cliCodes'
  PROVE  StreamsFit'
<1>1. \A n \in 1..cliCodes : n \in 1..cliCodes'
  OBVIOUS
<1> QED
  BY <1>1 DEF CliFits, StreamsFit

(* What the server does for its holder or its operator.                     *)
LEMMA ServerStepFits ==
  ASSUME CliInv, CliFits, UNCHANGED <<cliStreams, cliMachine, cliFaults>>,
         \/ \E h \in CliHolders : CliClaimSlot(h)
         \/ CliReleaseSlot \/ CliSignedIn \/ CliSetNode
         \/ request_cli_pairing \/ TenMinutesPass
         \/ \E p \in cliPairings : register_cli_device(p)
         \/ \E d \in cliDevices : revoke_cli_device(d)
  PROVE  CliFits'
<1>1. cliClaim \in Nat /\ cliCodes \in Nat /\ CliMaxClaims \in Nat
  BY CliAccessAssumption DEF CliInv, Typed
<1>2. ServerFits' /\ cliCodes' \in Nat /\ cliCodes <= cliCodes' /\ cliClaim' \in Nat
      /\ cliClaim <= cliClaim'
  <2>1. ASSUME NEW h \in CliHolders, CliClaimSlot(h)
        PROVE  ServerFits' /\ cliCodes' = cliCodes /\ cliClaim' = cliClaim + 1
    BY <1>1, <2>1 DEF CliClaimSlot, CliFits, ServerFits
  <2>2. CASE CliReleaseSlot \/ CliSignedIn \/ CliSetNode
    <3>1. CASE CliReleaseSlot
      BY <1>1, <3>1 DEF CliReleaseSlot, CliFits, ServerFits
    <3>2. CASE CliSignedIn
      BY <1>1, <3>2 DEF CliSignedIn, CliFits, ServerFits
    <3>3. CASE CliSetNode
      <4>1. cliOpen' \in BOOLEAN
        BY <3>3 DEF CliSetNode
      <4> QED
        BY <1>1, <3>3, <4>1 DEF CliSetNode, CliFits, ServerFits
    <3> QED
      BY <2>2, <3>1, <3>2, <3>3
  <2>3. CASE request_cli_pairing \/ TenMinutesPass
    BY <1>1, <2>3 DEF request_cli_pairing, TenMinutesPass, CliFits, ServerFits
  <2>4. ASSUME NEW p \in cliPairings, register_cli_device(p)
        PROVE  ServerFits' /\ cliCodes' = cliCodes /\ cliClaim' = cliClaim
    BY <1>1, <2>4 DEF register_cli_device, CliFits, ServerFits
  <2>5. ASSUME NEW d \in cliDevices, revoke_cli_device(d)
        PROVE  ServerFits' /\ cliCodes' = cliCodes /\ cliClaim' = cliClaim
    BY <1>1, <2>5 DEF revoke_cli_device, CliFits, ServerFits
  <2> QED
    BY <1>1, <2>1, <2>2, <2>3, <2>4, <2>5
<1> QED
  BY <1>1, <1>2, SameMachineFits, SameStreamsFit DEF CliFits

LEMMA StreamStepFits ==
  ASSUME CliInv, CliFits, UNCHANGED <<cliServer, cliMachine, cliFaults>>,
         \/ \E d \in cliDevices : resolve_cli_device(d)
         \/ \E n \in 1..cliCodes : Dialled(n) \/ StreamCut(n)
         \/ StreamEnds
  PROVE  CliFits'
<1>1. StreamsFit'
  <2>1. ASSUME NEW d \in cliDevices, resolve_cli_device(d) PROVE StreamsFit'
    BY <2>1, DevicesKnown DEF resolve_cli_device, CliFits, StreamsFit, CliKnown, CliInv, Typed
  <2>2. ASSUME NEW n \in 1..cliCodes, Dialled(n) PROVE StreamsFit'
    <3>1. PICK s \in cliStreams :
            /\ s.at = "checked" /\ s.device.code = n
            /\ \/ cliStreams' = (cliStreams \ {s}) \cup {[s EXCEPT !.at = "open"]}
               \/ cliStreams' = cliStreams \ {s}
      BY <2>2 DEF Dialled
    <3>2. PICK t : t = [s EXCEPT !.at = "open"]
      OBVIOUS
    <3>3. t \in [device : Keys, at : {"checked", "open"}] /\ t.device = s.device
      BY <3>1, <3>2 DEF CliFits, StreamsFit
    <3> QED
      BY <3>1, <3>2, <3>3 DEF CliFits, StreamsFit
  <2>3. ASSUME NEW n \in 1..cliCodes, StreamCut(n) PROVE StreamsFit'
    BY <2>3 DEF StreamCut, CliFits, StreamsFit
  <2>4. CASE StreamEnds
    BY <2>4 DEF StreamEnds, CliFits, StreamsFit
  <2> QED
    BY <2>1, <2>2, <2>3, <2>4
<1> QED
  BY <1>1 DEF CliFits, ServerFits, MachineFits, CliKnown

(* What the machine hears and does.                                         *)
LEMMA MachineStepFits ==
  ASSUME CliInv, CliFits, UNCHANGED cliStreams,
         CliHeartbeat \/ ConvergeFirst \/ cli_act_on_slots \/ ConvergeAgainAndSave \/ RunCut
  PROVE  CliFits'
<1>1. cliClaim \in Nat /\ cliCodes \in Nat /\ CliMaxClaims \in Nat /\ CliMaxFaults \in Nat
      /\ cliFaults \in 0..CliMaxFaults /\ 0 \in 0..CliMaxClaims
  BY CliAccessAssumption DEF CliInv, Typed, CliFits
<1>2. CASE CliHeartbeat
  <2>1. PICK paid \in BOOLEAN :
          cliOrder' = [state |-> cliState', claim |-> cliClaim, keys |-> cli_public_keys(paid),
                       clean |-> TRUE]
    BY <1>2 DEF CliHeartbeat
  <2>2. /\ cliStep' = "keys" /\ CliHeard
        /\ UNCHANGED <<cliClaim, cliOpen, cliCodes, cliBuilt, cliSettled, cliKeyFile, cliFaults>>
    BY <1>2 DEF CliHeartbeat, CliHeard
  <2>3. cliDevices' \subseteq cliDevices
    BY <2>2 DEF CliHeard, AccessEnds
  <2>4. ServerFits'
    BY <2>2 DEF CliHeard, CliFits, ServerFits
  <2>5. \A d \in cliOrder'.keys : CliKnown(d)
    BY <2>1, <2>3, DevicesKnown DEF cli_public_keys
  <2>6. MachineFits'
    BY <2>1, <2>2, <2>5 DEF CliFits, ServerFits, MachineFits, CliKnown
  <2>7. StreamsFit'
    BY <1>1, <2>2, SameStreamsFit
  <2> QED
    BY <1>1, <2>2, <2>4, <2>6, <2>7 DEF CliFits
<1>3. ASSUME UNCHANGED cliServer, MachineFits', cliFaults' \in 0..CliMaxFaults PROVE CliFits'
  <2>1. ServerFits' /\ cliCodes' = cliCodes
    BY <1>3 DEF CliFits, ServerFits
  <2>2. StreamsFit'
    BY <1>1, <2>1, SameStreamsFit
  <2> QED
    BY <1>3, <2>1, <2>2 DEF CliFits
<1>4. ASSUME NEW well \in BOOLEAN, converge_ssh_access(well), cliStep # "idle",
             UNCHANGED <<cliCodes, cliClaim>>
      PROVE  cliFaults' \in 0..CliMaxFaults /\ \A d \in cliKeyFile' : CliKnown(d)'
  BY <1>1, <1>4 DEF converge_ssh_access, CliFits, MachineFits, CliKnown
<1>5. CASE ConvergeFirst
  <2>1. PICK well \in BOOLEAN :
          /\ cliStep = "keys" /\ converge_ssh_access(well) /\ cliStep' = "act"
          /\ cliOrder' = [cliOrder EXCEPT !.clean = well]
          /\ UNCHANGED <<cliServer, cliBuilt, cliSettled>>
    BY <1>5 DEF ConvergeFirst
  <2>2. cliOrder'.claim = cliOrder.claim /\ cliOrder'.keys = cliOrder.keys
    BY <2>1 DEF CliInv, Typed, Orders
  <2>3. cliFaults' \in 0..CliMaxFaults /\ \A d \in cliKeyFile' : CliKnown(d)'
    BY <1>4, <2>1
  <2>4. MachineFits'
    BY <2>1, <2>2, <2>3 DEF CliFits, MachineFits, CliKnown
  <2> QED
    BY <1>3, <2>1, <2>3, <2>4
<1>6. CASE cli_act_on_slots
  <2>1. cliBuilt' \in 0..CliMaxClaims
    BY <1>1, <1>6 DEF cli_act_on_slots, CliFits, MachineFits
  <2>2. MachineFits'
    BY <1>6, <2>1 DEF cli_act_on_slots, CliFits, MachineFits, CliKnown
  <2> QED
    BY <1>1, <1>3, <1>6, <2>2 DEF cli_act_on_slots
<1>7. CASE ConvergeAgainAndSave
  <2>1. PICK well \in BOOLEAN :
          /\ cliStep = "again" /\ converge_ssh_access(well) /\ cliStep' = "idle"
          /\ cliOrder' = NoCliHolder
          /\ cliSettled' = (IF well /\ cliOrder.clean THEN cliOrder.claim ELSE 0)
          /\ UNCHANGED <<cliServer, cliBuilt>>
    BY <1>7 DEF ConvergeAgainAndSave, KeysAgain
  <2>2. cliFaults' \in 0..CliMaxFaults /\ \A d \in cliKeyFile' : CliKnown(d)'
    BY <1>4, <2>1
  <2>3. cliSettled' \in 0..CliMaxClaims
    BY <1>1, <2>1 DEF CliFits, MachineFits
  <2>4. MachineFits'
    BY <2>1, <2>2, <2>3 DEF CliFits, MachineFits
  <2> QED
    BY <1>3, <2>1, <2>2, <2>4
<1>8. CASE RunCut
  <2>1. MachineFits' /\ cliFaults' \in 0..CliMaxFaults
    BY <1>1, <1>8 DEF RunCut, CliFits, MachineFits, CliKnown
  <2> QED
    BY <1>3, <1>8, <2>1 DEF RunCut
<1> QED
  BY <1>2, <1>5, <1>6, <1>7, <1>8

LEMMA CliTypes ==
  /\ CliInit => CliFits
  /\ CliInv /\ CliFits => CliTypeOK
  /\ CliInv /\ CliFits /\ (CliNext \/ UNCHANGED cliVars) => CliFits'
<1>1. ASSUME CliInv, CliFits, CliNext \/ UNCHANGED cliVars PROVE CliFits'
  <2>1. CASE \/ \E h \in CliHolders : CliClaimSlot(h)
             \/ CliReleaseSlot \/ CliSignedIn \/ CliSetNode
             \/ request_cli_pairing \/ TenMinutesPass
             \/ \E p \in cliPairings : register_cli_device(p)
             \/ \E d \in cliDevices : revoke_cli_device(d)
    <3>1. UNCHANGED <<cliStreams, cliMachine, cliFaults>>
      BY <2>1 DEF CliClaimSlot, CliReleaseSlot, CliSignedIn, CliSetNode, request_cli_pairing,
                  TenMinutesPass, register_cli_device, revoke_cli_device
    <3> QED
      BY <1>1, <2>1, <3>1, ServerStepFits
  <2>2. CASE \/ \E d \in cliDevices : resolve_cli_device(d)
             \/ \E n \in 1..cliCodes : Dialled(n) \/ StreamCut(n)
             \/ StreamEnds
    <3>1. UNCHANGED <<cliServer, cliMachine, cliFaults>>
      BY <2>2 DEF resolve_cli_device, Dialled, StreamCut, StreamEnds
    <3> QED
      BY <1>1, <2>2, <3>1, StreamStepFits
  <2>3. CASE CliHeartbeat \/ ConvergeFirst \/ cli_act_on_slots \/ ConvergeAgainAndSave \/ RunCut
    <3>1. UNCHANGED cliStreams
      BY <2>3 DEF CliHeartbeat, ConvergeFirst, cli_act_on_slots, ConvergeAgainAndSave, RunCut
    <3> QED
      BY <1>1, <2>3, <3>1, MachineStepFits
  <2>4. CASE UNCHANGED cliVars
    BY <1>1, <2>4 DEF cliVars, CliFits, ServerFits, MachineFits, StreamsFit, CliKnown
  <2> QED
    BY <1>1, <2>1, <2>2, <2>3, <2>4 DEF CliNext
<1> QED
  BY <1>1, CliBegins, CliGives

-----------------------------------------------------------------------------
(* Types: updates.                                                          *)

(* What the server, the notes and the run hold.                             *)
ToldRecords == [target : Targets, number : 0..MaxReleases, ask : Asks, may : BOOLEAN]
UpdServerFits ==
  /\ pin \in Targets /\ choice \in Channels \cup {"none"} /\ login \in BOOLEAN
  /\ known \in [Channels -> 0..MaxReleases] /\ released \in [Channels -> Releases]
UpdSlotFits ==
  /\ installed \in 0..MaxReleases
  /\ saved \in NoteRecords /\ draft \in NoteRecords /\ said \in Answers /\ told \in ToldRecords
UpdFits == UpdServerFits /\ UpdSlotFits

LEMMA UpdNothings ==
  /\ 0 \in Asks /\ 0 \in 0..MaxReleases /\ 1 \in Releases /\ 1 \in 0..MaxReleases
  /\ \A r \in Releases : r \in 0..MaxReleases
  /\ NoAnswer \in Answers /\ NoNotes \in NoteRecords /\ NoTold \in ToldRecords
  /\ NoUpgrade \in [to : Targets, ok : BOOLEAN]
<1>1. 0 \in Asks /\ 0 \in 0..MaxReleases /\ 1 \in Releases /\ 1 \in 0..MaxReleases
      /\ \A r \in Releases : r \in 0..MaxReleases
  BY UpdatesAssumption DEF Asks, Releases
<1>2. "none" \in Targets
  BY DEF Targets
<1>3. NoAnswer \in Answers
  BY <1>1 DEF NoAnswer, Answers
<1>4. NoUpgrade \in [to : Targets, ok : BOOLEAN]
  BY <1>2 DEF NoUpgrade
<1>5. NoNotes \in NoteRecords
  BY <1>1, <1>2, <1>3, <1>4 DEF NoNotes, NoNote, NoteRecords
<1> QED
  BY <1>1, <1>2, <1>3, <1>4, <1>5 DEF NoTold, ToldRecords

LEMMA UpdBegins == UpdInit => UpdFits
<1>1. "none" \in Targets
  BY DEF Targets
<1> QED
  BY <1>1, UpdNothings DEF UpdInit, UpdFits, UpdServerFits, UpdSlotFits

LEMMA UpdGives == UpdInv /\ UpdFits => UpdTypeOK
<1> SUFFICES ASSUME UpdInv, UpdFits PROVE UpdTypeOK
  OBVIOUS
<1>1. updRow \in [state : {"none", "pending", "done", "failed"}, at : Asks]
  <2>1. \A a \in 0..asks : a \in Asks
    BY UpdatesAssumption DEF UpdInv, UpdKept, Asks
  <2> QED
    BY <2>1 DEF UpdInv, UpdKept
<1> QED
  BY <1>1 DEF UpdInv, UpdKept, UpdFits, UpdServerFits, UpdSlotFits, UpdTypeOK, ToldRecords

(* What a run makes of its notes are notes.                                 *)
LEMMA NotesStay ==
  ASSUME UpdFits, NEW n \in NoteRecords
  PROVE  /\ prune_state(n) \in NoteRecords
         /\ settle_update(n) \in NoteRecords
         /\ update_asked(n) \in Asks
         /\ \A ok \in BOOLEAN, landed \in 0..MaxReleases : Noted(n, ok, landed) \in NoteRecords
         /\ \A a \in Asks, done \in BOOLEAN : Answered(n, a, done) \in NoteRecords
<1>1. told \in ToldRecords
  BY DEF UpdFits, UpdSlotFits
<1>2. prune_state(n) \in NoteRecords
  BY UpdNothings DEF prune_state, NoteRecords
<1>3. settle_update(n) \in NoteRecords
  BY UpdNothings DEF settle_update, NoteRecords
<1>4. update_asked(n) \in Asks
  BY <1>1, UpdNothings DEF update_asked, ToldRecords
<1>5. ASSUME NEW ok \in BOOLEAN, NEW landed \in 0..MaxReleases
      PROVE  Noted(n, ok, landed) \in NoteRecords
  <2>1. PICK up, ch : /\ up = [to |-> told.target, ok |-> ok]
                      /\ ch = IF ok /\ told.target \in Channels
                              THEN [target |-> told.target, resolved |-> landed,
                                    number |-> told.number]
                              ELSE n.channel
    OBVIOUS
  <2>2. up \in [to : Targets, ok : BOOLEAN]
    BY <1>1, <2>1 DEF ToldRecords
  <2>3. ch \in [target : Targets, resolved : 0..MaxReleases, number : 0..MaxReleases]
    BY <1>1, <2>1 DEF ToldRecords, NoteRecords
  <2>4. Noted(n, ok, landed) = [n EXCEPT !.upgrade = up, !.channel = ch]
    BY <2>1 DEF Noted
  <2> QED
    BY <2>2, <2>3, <2>4 DEF NoteRecords
<1>6. ASSUME NEW a \in Asks, NEW done \in BOOLEAN PROVE Answered(n, a, done) \in NoteRecords
  <2>1. update_answer(a, done) \in Answers
    BY DEF update_answer, Answers
  <2> QED
    BY <2>1 DEF Answered, NoteRecords
<1> QED
  BY <1>2, <1>3, <1>4, <1>5, <1>6

LEMMA UpdServerStepFits ==
  ASSUME UpdInv, UpdFits, UNCHANGED updSlot,
         \/ request_claude_update \/ choose_stable \/ UpdSignInStartsOrEnds
         \/ \E v \in Targets : set_pinned_version(v)
         \/ \E c \in Channels : Release(c)
         \/ refresh \/ expire_claude_updates
  PROVE  UpdFits'
<1>1. UpdSlotFits'
  BY DEF UpdFits, UpdSlotFits, updSlot
<1>2. ASSUME NEW c \in Channels, _set_channel(c)
      PROVE  pin' \in Targets /\ choice' \in Channels \cup {"none"}
  BY <1>2 DEF _set_channel, UpdFits, UpdServerFits, Targets
<1>3. "latest" \in Channels /\ "stable" \in Channels
  BY DEF Channels
<1>4. CASE request_claude_update
  BY <1>1, <1>2, <1>3, <1>4 DEF request_claude_update, UpdFits, UpdServerFits
<1>5. CASE choose_stable
  BY <1>1, <1>2, <1>3, <1>5 DEF choose_stable, UpdFits, UpdServerFits
<1>6. CASE UpdSignInStartsOrEnds
  <2>1. login' \in BOOLEAN
    BY <1>6 DEF UpdSignInStartsOrEnds
  <2> QED
    BY <1>1, <1>6, <2>1 DEF UpdSignInStartsOrEnds, UpdFits, UpdServerFits
<1>7. ASSUME NEW v \in Targets, set_pinned_version(v) PROVE UpdFits'
  BY <1>1, <1>7 DEF set_pinned_version, UpdFits, UpdServerFits
<1>8. ASSUME NEW c \in Channels, Release(c) PROVE UpdFits'
  <2>1. released' \in [Channels -> Releases]
    BY <1>8, UpdatesAssumption DEF Release, UpdFits, UpdServerFits, Releases
  <2> QED
    BY <1>1, <1>8, <2>1 DEF Release, updServer, UpdFits, UpdServerFits
<1>9. CASE refresh
  <2>1. PICK read \in SUBSET Channels :
          known' = [c \in Channels |-> IF c \in read THEN released[c] ELSE known[c]]
    BY <1>9 DEF refresh
  <2>2. known' \in [Channels -> 0..MaxReleases]
    BY <2>1, UpdNothings DEF UpdFits, UpdServerFits
  <2> QED
    BY <1>1, <1>9, <2>2 DEF refresh, UpdFits, UpdServerFits
<1>10. CASE expire_claude_updates
  BY <1>1, <1>10 DEF expire_claude_updates, UpdFits, UpdServerFits
<1> QED
  BY <1>4, <1>5, <1>6, <1>7, <1>8, <1>9, <1>10

LEMMA UpdSlotStepFits ==
  ASSUME UpdInv, UpdFits,
         Post \/ PostLost \/ LeaveSignIn \/ RunNothing \/ RunInstaller \/ write_state \/ UpdKilled
  PROVE  UpdFits'
<1>1. /\ saved \in NoteRecords /\ draft \in NoteRecords /\ said \in Answers /\ told \in ToldRecords
      /\ installed \in 0..MaxReleases /\ NoNotes \in NoteRecords /\ NoAnswer \in Answers
      /\ saved.answer \in Answers /\ draft.answer \in Answers
  BY UpdNothings DEF UpdFits, UpdSlotFits, NoteRecords
<1>2. UpdServerFits'
  BY DEF Post, PostLost, LeaveSignIn, RunNothing, RunInstaller, write_state, UpdKilled,
         updServer, UpdFits, UpdServerFits
<1>3. CASE Post
  <2>1. PICK u : u = updRow' /\ told' = _version_fields(u)
    BY <1>3 DEF Post
  <2>2. u.at \in Asks
    <3>1. u.at = updRow.at
      BY <1>3, <2>1, RecordIs DEF Post, UpdInv, UpdKept, AnswerTrue
    <3> QED
      BY <3>1, UpdatesAssumption DEF UpdInv, UpdKept, Asks
  <2>3. slot_target.version \in Targets
    BY DEF slot_target, UpdInv, UpdKept, UpdFits, UpdServerFits, Targets
  <2>4. _update_block(u) \in Asks
    BY <2>2, UpdNothings DEF _update_block
  <2>5. told' \in ToldRecords
    <3>1. PICK v, b : v = slot_target.version /\ b = _update_block(u)
      OBVIOUS
    <3>2. told' = [target |-> v, number |-> IF v \in Channels THEN known[v] ELSE 0,
                   ask |-> IF v = "none" THEN 0 ELSE b, may |-> ~login]
      BY <2>1, <3>1 DEF _version_fields
    <3>3. v \in Targets /\ b \in Asks /\ (~login) \in BOOLEAN
      BY <2>3, <2>4, <3>1
    <3>4. (IF v \in Channels THEN known[v] ELSE 0) \in 0..MaxReleases
      BY UpdNothings DEF UpdFits, UpdServerFits
    <3>5. (IF v = "none" THEN 0 ELSE b) \in Asks
      BY <3>3, UpdNothings
    <3> QED
      BY <3>2, <3>3, <3>4, <3>5 DEF ToldRecords
  <2> QED
    BY <1>1, <1>2, <1>3, <2>5 DEF Post, UpdFits, UpdSlotFits
<1>4. CASE PostLost
  BY <1>1, <1>2, <1>4 DEF PostLost, UpdFits, UpdSlotFits
<1>5. PICK n, wanted : n = settle_update(prune_state(saved)) /\ wanted = update_asked(n)
  OBVIOUS
<1>6. n \in NoteRecords /\ wanted \in Asks
  BY <1>1, <1>5, NotesStay
<1>7. CASE LeaveSignIn
  BY <1>1, <1>2, <1>5, <1>6, <1>7 DEF LeaveSignIn, UpdFits, UpdSlotFits
<1>8. CASE RunNothing
  <2>1. PICK here \in BOOLEAN : draft' = Answered(n, wanted, here)
    BY <1>5, <1>8 DEF RunNothing
  <2>2. draft' \in NoteRecords
    BY <1>6, <2>1, NotesStay
  <2> QED
    BY <1>1, <1>2, <1>8, <2>2 DEF RunNothing, UpdFits, UpdSlotFits
<1>9. CASE RunInstaller
  <2>1. PICK ok \in BOOLEAN : draft' = Answered(Noted(n, ok, installed'), wanted, ok)
    BY <1>5, <1>9 DEF RunInstaller
  <2>2. told.target \in Targets /\ told.target # "none" /\ installed' \in {installed, Named}
    BY <1>1, <1>9 DEF RunInstaller, Installs, ToldRecords
  <2>3. Named \in 0..MaxReleases
    BY <2>2, UpdNothings DEF Named, Targets, UpdFits, UpdServerFits
  <2>4. installed' \in 0..MaxReleases
    BY <1>1, <2>2, <2>3
  <2>5. Noted(n, ok, installed') \in NoteRecords
    BY <1>6, <2>4, NotesStay
  <2>6. draft' \in NoteRecords
    BY <1>6, <2>1, <2>5, NotesStay
  <2> QED
    BY <1>1, <1>2, <1>9, <2>4, <2>6 DEF RunInstaller, UpdFits, UpdSlotFits
<1>10. CASE write_state
  <2>1. saved' \in NoteRecords /\ saved'.answer \in Answers
    BY <1>1, <1>10 DEF write_state
  <2> QED
    BY <1>1, <1>2, <1>10, <2>1 DEF write_state, UpdFits, UpdSlotFits
<1>11. CASE UpdKilled
  BY <1>1, <1>2, <1>11 DEF UpdKilled, UpdFits, UpdSlotFits
<1> QED
  BY <1>3, <1>4, <1>7, <1>8, <1>9, <1>10, <1>11

LEMMA UpdTypes ==
  /\ UpdInit => UpdFits
  /\ UpdInv /\ UpdFits => UpdTypeOK
  /\ UpdInv /\ UpdFits /\ (UpdNext \/ UNCHANGED updVars) => UpdFits'
<1>1. ASSUME UpdInv, UpdFits, UpdNext \/ UNCHANGED updVars PROVE UpdFits'
  <2>1. CASE \/ request_claude_update \/ choose_stable \/ UpdSignInStartsOrEnds
             \/ \E v \in Targets : set_pinned_version(v)
             \/ \E c \in Channels : Release(c)
             \/ refresh \/ expire_claude_updates
    <3>1. UNCHANGED updSlot
      BY <2>1 DEF request_claude_update, choose_stable, UpdSignInStartsOrEnds, set_pinned_version,
                  Release, refresh, expire_claude_updates
    <3> QED
      BY <1>1, <2>1, <3>1, UpdServerStepFits
  <2>2. CASE Post \/ PostLost \/ LeaveSignIn \/ RunNothing \/ RunInstaller \/ write_state \/ UpdKilled
    BY <1>1, <2>2, UpdSlotStepFits
  <2>3. CASE UNCHANGED updVars
    BY <1>1, <2>3 DEF updVars, updServer, updSlot, UpdFits, UpdServerFits, UpdSlotFits
  <2> QED
    BY <1>1, <2>1, <2>2, <2>3 DEF UpdNext
<1> QED
  BY <1>1, UpdBegins, UpdGives

-----------------------------------------------------------------------------
(* Types: the machine's name, the shared connection and renewal.            *)

HnKinds ==
  /\ hnNode \in HnNames /\ hnName \in HnNames /\ hnTold \in HnNames /\ hnWas \in HnNames
  /\ hnHosts \subseteq HnNames /\ hnAt \in {"idle", "naming", "refused", "named"}
  /\ hnKept \in BOOLEAN /\ hnCut \in BOOLEAN /\ hnDone \in BOOLEAN /\ hnRuns \in 0..HnMaxRuns

LEMMA HnTypes ==
  /\ HnInit => HnKinds
  /\ HnKinds => HnTypeOK
  /\ HnKinds /\ (HnNext \/ UNCHANGED hnVars) => HnKinds'
<1> USE DEF HnKinds
<1>0. HnProvider \in HnNames /\ 0 \in 0..HnMaxRuns
  BY HostnameAssumption
<1>1. HnInit => HnKinds
  BY <1>0 DEF HnInit
<1>2. HnKinds => HnTypeOK
  <2>1. HnKinds => {hnNode, hnName, hnTold, hnWas} \subseteq HnNames
    OBVIOUS
  <2>2. HnKinds => {hnKept, hnCut, hnDone} \subseteq BOOLEAN
    BY Zenon
  <2> QED
    BY <2>1, <2>2 DEF HnTypeOK
<1>3. ASSUME HnKinds, HnNext \/ UNCHANGED hnVars PROVE HnKinds'
  <2>1. ASSUME NEW n \in HnNames, BeginNaming(n) PROVE HnKinds'
    <3>1. hnRuns' \in 0..HnMaxRuns /\ hnTold' \in HnNames /\ hnWas' \in HnNames
      BY <1>3, <2>1, HostnameAssumption DEF BeginNaming
    <3>2. hnHosts' \subseteq HnNames /\ hnAt' \in {"idle", "naming", "refused", "named"}
          /\ hnCut' \in BOOLEAN /\ hnDone' \in BOOLEAN
      BY <1>3, <2>1 DEF BeginNaming, HostsMeanwhile
    <3> QED
      BY <1>3, <2>1, <3>1, <3>2 DEF BeginNaming
  <2>2. ASSUME NEW n \in HnNames, RenameNode(n) PROVE HnKinds'
    <3>1. hnRuns' \in 0..HnMaxRuns
      BY <1>3, <2>2, HostnameAssumption DEF RenameNode
    <3> QED
      BY <1>3, <2>2, <3>1 DEF RenameNode
  <2>3. CASE SetHostname \/ set_hostname_fails
    BY <1>3, <2>3 DEF SetHostname, set_hostname_fails
  <2>4. CASE PutBack \/ Tidy
    BY <1>3, <2>4 DEF PutBack, Tidy
  <2>5. CASE Killed \/ Restarts
    BY <1>0, <1>3, <2>5 DEF Killed, Restarts
  <2>6. CASE UNCHANGED hnVars
    BY <1>3, <2>6 DEF hnVars
  <2> QED
    BY <1>3, <2>1, <2>2, <2>3, <2>4, <2>5, <2>6 DEF HnNext
<1> QED
  BY <1>1, <1>2, <1>3

(* What a pipe carried, and who has seen the socket.                        *)
TpMore ==
  /\ heard \subseteq wrote
  /\ wrote \subseteq {"ready", "socket", "stopping", "clean", "unclean", "eof"}
  /\ witnesses \subseteq {"launcher", "supervisor"}
  /\ channels \in 0..TpMaxChannels

LEMMA TpTypes ==
  /\ TpInit => TpMore
  /\ TpInv /\ TpMore => TpTypeOK
  /\ TpMore /\ (TpNext \/ UNCHANGED tpVars) => TpMore'
<1> USE TransportAssumption DEF TpMore, LeaderActs, Files, Pipe, Group
<1>1. TpInit => TpMore
  BY DEF TpInit
<1>2. TpInv /\ TpMore => TpTypeOK
  BY DEF TpInv, TpTyped, TpTypeOK
<1>3. ASSUME TpMore, TpNext \/ UNCHANGED tpVars PROVE TpMore'
  <2>1. CASE _launch_supervisor \/ _read_status \/ BecomesReady \/ GivesUp
    BY <1>3, <2>1 DEF _launch_supervisor, _read_status, BecomesReady, GivesUp
  <2>2. CASE command
    BY <1>3, <2>2 DEF command
  <2>7. CASE close_begins \/ close_liveness \/ killpg \/ wait
    BY <1>3, <2>7 DEF close_begins, close_liveness, killpg, wait
  <2>3. CASE _transport_supervisor \/ SeesSocket \/ Stops \/ _transport_artifacts \/ KillsItsGroup
    BY <1>3, <2>3 DEF _transport_supervisor, SeesSocket, Stops, _transport_artifacts, KillsItsGroup
  <2>4. CASE Binds \/ MasterEnds \/ SupervisorDies \/ LauncherDies \/ ReapedByInit \/ GivenToAStranger
    BY <1>3, <2>4 DEF Binds, MasterEnds, SupervisorDies, LauncherDies, ReapedByInit, GivenToAStranger
  <2>5. CASE UNCHANGED tpVars
    BY <1>3, <2>5 DEF tpVars
  <2> QED
    BY <1>3, <2>1, <2>2, <2>3, <2>4, <2>5, <2>7 DEF TpNext
<1> QED
  BY <1>1, <1>2, <1>3

(* What RnTyped leaves open of the notes: the outcome of a check.            *)
CheckStates == {"none", "pending", "passed", "failed", "blocked"}
RnMore == revoked \subseteq Stamps /\ check.state \in CheckStates /\ check.build \in Builds

LEMMA RnTypes ==
  /\ RnInit => RnMore
  /\ RnInv /\ RnMore => RnTypeOK
  /\ RnInv /\ RnMore /\ (RnNext \/ UNCHANGED rnVars) => RnMore'
<1>1. RnInit => RnMore
  BY RenewalAssumption DEF RnInit, RnMore, NoCheck, CheckStates, Builds
<1>2. RnInv /\ RnMore => RnTypeOK
  BY DEF RnInv, RnTyped, RnMore, RnTypeOK, RnNote, SeenRow, RnPlaces, CheckStates
<1>3. ASSUME RnInv, RnMore, RnNext \/ UNCHANGED rnVars PROVE RnMore'
  <2>1. stamp \in Stamps /\ build \in Builds /\ seen.build \in Builds
    BY <1>3 DEF RnInv, RnTyped, SeenRow
  <2>2. revoked' \subseteq Stamps
    <3>1. revoked' = revoked \/ revoked' = revoked \cup {stamp}
      BY <1>3 DEF RnNext, rnVars, rnSlot, HolderRenews, HolderSignsIn, SignInStartsOrEnds, NewBuild,
         Revoke, TimePasses, SlotFacts, Refuse, Locked, before_start, Launch, QuotaScreen, Settle,
         Compatible, before_probe, OpenUsage, ReadUsage, Verdict, RnKilled
    <3> QED
      BY <1>3, <2>1, <3>1 DEF RnMore
  <2>3. \/ check' = check
        \/ check' = [check EXCEPT !.waits = FALSE]
        \/ \E b \in Builds, s \in CheckStates : \E r, w :
             check' = [state |-> s, reason |-> r, build |-> b, waits |-> w]
    <3>1. CASE Compatible
      BY <2>1, <3>1 DEF Compatible, CheckStates
    <3>2. CASE before_probe \/ Verdict
      BY <2>1, <3>2 DEF before_probe, Verdict, Failing, CheckStates
    <3>3. CASE TimePasses
      BY <3>3 DEF TimePasses
    <3>4. CASE UNCHANGED rnVars
      BY <3>4 DEF rnVars, rnNotes
    <3>5. CASE ~Compatible /\ ~before_probe /\ ~Verdict /\ ~TimePasses /\ RnNext
      BY <3>5 DEF RnNext, rnNotes, HolderRenews, HolderSignsIn, SignInStartsOrEnds, NewBuild,
         Revoke, SlotFacts, Refuse, Locked, before_start, Launch, QuotaScreen, Settle,
         OpenUsage, ReadUsage, RnKilled
    <3> QED
      BY <1>3, <3>1, <3>2, <3>3, <3>4, <3>5
  <2>4. check'.state \in CheckStates /\ check'.build \in Builds
    <3>1. CASE check' = [check EXCEPT !.waits = FALSE]
      <4>1. check = [state |-> check.state, reason |-> check.reason, build |-> check.build, waits |-> check.waits]
        BY <1>3 DEF RnInv, RnTyped
      <4>2. check'.state = check.state /\ check'.build = check.build
        BY <3>1, <4>1
      <4> QED
        BY <1>3, <4>2 DEF RnMore
    <3> QED
      BY <1>3, <2>3, <3>1 DEF RnMore
  <2> QED
    BY <2>2, <2>4 DEF RnMore
<1> QED
  BY <1>1, <1>2, <1>3

-----------------------------------------------------------------------------
(* Types: model requests.                                                   *)

(* What upstream has answered of a request so far.                           *)
Short(q, parts) ==
  /\ q.upParts \in 0..parts
  /\ q.up = "answers" => q.upParts < parts
  /\ q.up = "asked" => q.upParts = 0

InFits(calls, parts, changes) ==
  /\ inBridge \in {"open", "stopping", "closed"} /\ inChanges \in 0..changes
  /\ \A c \in calls : Short(inCall[c], parts)

(* Of upstream a connection's own steps leave everything, but for the post.  *)
SameUpstream(calls) ==
  /\ UNCHANGED <<inBridge, inChanges>>
  /\ \A c \in calls : inCall'[c].up = inCall[c].up /\ inCall'[c].upParts = inCall[c].upParts

LEMMA UpstreamIsLeft ==
  ASSUME NEW calls, NEW parts, CallsInv(calls, parts), NEW c \in calls, Others, NEW r, Changes(c, r),
         r.up = inCall[c].up, r.upParts = inCall[c].upParts
  PROVE  SameUpstream(calls)
BY DEF CallsInv, Changes, Others, SameUpstream

LEMMA FailsIsLeft ==
  ASSUME NEW calls, NEW parts, CallsInv(calls, parts), NEW c \in calls, Others, NEW again, Fails(c, again)
  PROVE  SameUpstream(calls)
<1>1. PICK z : Changes(c, [inCall[c] EXCEPT !.relay = "over", !.out = z])
  BY DEF Fails
<1>2. PICK r : r = [inCall[c] EXCEPT !.relay = "over", !.out = z]
  OBVIOUS
<1>3. r.up = inCall[c].up /\ r.upParts = inCall[c].upParts
  BY <1>2, TheCall DEF CallRecords
<1> QED
  BY <1>1, <1>2, <1>3, UpstreamIsLeft

LEMMA OneMovesIsLeft ==
  ASSUME NEW calls, NEW parts, CallsInv(calls, parts), NEW c \in calls, OneMoves(c), ~PostOnce(c)
  PROVE  SameUpstream(calls)
<1>1. inCall[c] \in CallRecords
  BY TheCall
<1>2. CASE _validate(c) \/ _forward(c) \/ CopyHead(c)
  BY <1>1, <1>2, UpstreamIsLeft DEF _validate, _forward, CopyHead, CallRecords
<1>3. CASE CopyPart(c) \/ CopyEnd(c) \/ _completed(c)
  BY <1>1, <1>3, UpstreamIsLeft DEF CopyPart, CopyEnd, _completed, CallRecords
<1>4. CASE LinkFails(c) \/ _finish(c) \/ _kill(c) \/ HangsUp(c)
  BY <1>1, <1>4, UpstreamIsLeft DEF LinkFails, _finish, _kill, HangsUp, CallRecords
<1>5. CASE bound_account(c)
  BY <1>1, <1>5, UpstreamIsLeft, FailsIsLeft DEF bound_account, CallRecords
<1>6. CASE connect_upstream(c)
  BY <1>1, <1>6, UpstreamIsLeft, FailsIsLeft DEF connect_upstream, CallRecords
<1>7. CASE LastCheck(c)
  BY <1>1, <1>7, UpstreamIsLeft, FailsIsLeft DEF LastCheck, CallRecords
<1>8. CASE Reply(c)
  <2>1. Others
    BY <1>8 DEF Reply
  <2>2. \/ \E again : Fails(c, again)
        \/ Changes(c, [inCall[c] EXCEPT !.relay = "stream", !.out.head = "ok"])
    BY <1>8 DEF Reply
  <2>3. CASE Changes(c, [inCall[c] EXCEPT !.relay = "stream", !.out.head = "ok"])
    <3>1. PICK r : r = [inCall[c] EXCEPT !.relay = "stream", !.out.head = "ok"]
      OBVIOUS
    <3>2. r.up = inCall[c].up /\ r.upParts = inCall[c].upParts
      BY <1>1, <3>1 DEF CallRecords
    <3> QED
      BY <2>1, <2>3, <3>1, <3>2, UpstreamIsLeft
  <2> QED
    BY <2>1, <2>2, <2>3, FailsIsLeft
<1>9. CASE write_chunk(c)
  <2>1. Others
    BY <1>9 DEF write_chunk
  <2>2. \/ \E again : Fails(c, again)
        \/ Changes(c, [inCall[c] EXCEPT !.out.parts = @ + 1])
        \/ \E z : Changes(c, [inCall[c] EXCEPT !.relay = "over", !.out = z])
    BY <1>9 DEF write_chunk
  <2>3. CASE Changes(c, [inCall[c] EXCEPT !.out.parts = @ + 1])
    <3>1. PICK r : r = [inCall[c] EXCEPT !.out.parts = @ + 1]
      OBVIOUS
    <3>2. r.up = inCall[c].up /\ r.upParts = inCall[c].upParts
      BY <1>1, <3>1 DEF CallRecords
    <3> QED
      BY <2>1, <2>3, <3>1, <3>2, UpstreamIsLeft
  <2>4. ASSUME NEW z, Changes(c, [inCall[c] EXCEPT !.relay = "over", !.out = z])
        PROVE  SameUpstream(calls)
    <3>1. PICK r : r = [inCall[c] EXCEPT !.relay = "over", !.out = z]
      OBVIOUS
    <3>2. r.up = inCall[c].up /\ r.upParts = inCall[c].upParts
      BY <1>1, <3>1 DEF CallRecords
    <3> QED
      BY <2>1, <2>4, <3>1, <3>2, UpstreamIsLeft
  <2> QED
    BY <2>1, <2>2, <2>3, <2>4, FailsIsLeft
<1>10. CASE stop_if_revoked(c)
  BY <1>1, <1>10, UpstreamIsLeft DEF stop_if_revoked, CallRecords
<1>11. CASE expired(c)
  BY <1>11, FailsIsLeft DEF expired
<1> QED
  BY <1>2, <1>3, <1>4, <1>5, <1>6, <1>7, <1>8, <1>9, <1>10, <1>11 DEF OneMoves

LEMMA LeftFits ==
  ASSUME NEW calls, NEW parts, NEW changes, InFits(calls, parts, changes), SameUpstream(calls)
  PROVE  InFits(calls, parts, changes)'
BY DEF InFits, SameUpstream, Short

LEMMA PostFits ==
  ASSUME NEW calls, NEW parts \in Nat, CallsInv(calls, parts), NEW changes, InFits(calls, parts, changes),
         NEW c \in calls, PostOnce(c)
  PROVE  InFits(calls, parts, changes)'
<1> DEFINE r == [inCall[c] EXCEPT !.relay = "reply", !.sent = TRUE, !.up = "asked"]
<1>1. inCall[c] \in CallRecords /\ CallSound(inCall[c], parts)
  BY TheCall
<1>2. Changes(c, r) /\ Others /\ inCall[c].relay = "post"
  BY DEF PostOnce
<1>3. inCall[c].upParts = 0
  <2>1. ~inCall[c].sent
    BY <1>1, <1>2 DEF CallSound, RelayInOrder
  <2> QED
    BY <1>1, <2>1 DEF CallSound, RelayInOrder
<1>4. r.up = "asked" /\ r.upParts = 0
  BY <1>1, <1>3 DEF CallRecords
<1> HIDE DEF r
<1>5. Short(r, parts)
  BY <1>4 DEF Short
<1> QED
  BY <1>2, <1>5 DEF InFits, Changes, Others, CallsInv

LEMMA UpstreamFits ==
  ASSUME NEW calls, NEW parts \in Nat \ {0}, CallsInv(calls, parts), NEW changes,
         InFits(calls, parts, changes), NEW c \in calls, Others,
         \/ inCall[c].up = "asked"
            /\ \E how \in {"refused", "answers", "broken"} : Changes(c, [inCall[c] EXCEPT !.up = how])
         \/ inCall[c].up = "answers"
            /\ \/ Changes(c, [inCall[c] EXCEPT !.upParts = inCall[c].upParts + 1,
                      !.up = IF inCall[c].upParts + 1 = parts THEN "answered" ELSE inCall[c].up])
               \/ Changes(c, [inCall[c] EXCEPT !.up = "broken"])
  PROVE  InFits(calls, parts, changes)'
<1>1. inCall[c] \in CallRecords /\ Short(inCall[c], parts)
  BY TheCall DEF InFits
<1>2. ASSUME NEW r, Changes(c, r), Short(r, parts)
      PROVE  InFits(calls, parts, changes)'
  BY <1>2 DEF InFits, Changes, Others, CallsInv
<1>3. ASSUME NEW how \in {"refused", "answers", "broken"}, Changes(c, [inCall[c] EXCEPT !.up = how]),
             how = "answers" => inCall[c].up = "asked"
      PROVE  InFits(calls, parts, changes)'
  <2>1. PICK r : r = [inCall[c] EXCEPT !.up = how]
    OBVIOUS
  <2>2. r.up = how /\ r.upParts = inCall[c].upParts
    BY <1>1, <2>1 DEF CallRecords
  <2>3. Short(r, parts)
    BY <1>1, <1>3, <2>2 DEF Short
  <2> QED
    BY <1>2, <1>3, <2>1, <2>3
<1>4. CASE /\ inCall[c].up = "answers"
           /\ Changes(c, [inCall[c] EXCEPT !.upParts = inCall[c].upParts + 1,
                      !.up = IF inCall[c].upParts + 1 = parts THEN "answered" ELSE inCall[c].up])
  <2>1. PICK n, u : /\ n = inCall[c].upParts + 1
                    /\ u = IF inCall[c].upParts + 1 = parts THEN "answered" ELSE inCall[c].up
    OBVIOUS
  <2>2. PICK r : r = [inCall[c] EXCEPT !.upParts = n, !.up = u]
    OBVIOUS
  <2>3. r.up = u /\ r.upParts = n
    BY <1>1, <2>2 DEF CallRecords
  <2>4. Short(r, parts)
    BY <1>1, <1>4, <2>1, <2>3 DEF Short
  <2> QED
    BY <1>2, <1>4, <2>1, <2>2, <2>4
<1> QED
  BY <1>3, <1>4

LEMMA OneMoreOf == ASSUME NEW most \in Nat, NEW n \in 0..most, n < most PROVE n + 1 \in 0..most
  OBVIOUS

LEMMA ClosesFits ==
  ASSUME NEW calls, NEW parts, CallsInv(calls, parts), NEW changes \in Nat, InFits(calls, parts, changes),
         \/ close_says_so
         \/ inChanges < changes /\ inChanges' = inChanges + 1 /\ UNCHANGED <<inBridge, inCall>>
         \/ /\ inBridge' = "closed" /\ UNCHANGED <<inAccount, inChanges>>
            /\ inCall' = [c \in calls |-> [inCall[c] EXCEPT !.client = FALSE,
                            !.ssh = IF inCall[c].ssh = "up" THEN "down" ELSE inCall[c].ssh]]
  PROVE  InFits(calls, parts, changes)'
<1>1. CASE close_says_so
  BY <1>1 DEF close_says_so, InFits
<1>2. CASE inChanges < changes /\ inChanges' = inChanges + 1 /\ UNCHANGED <<inBridge, inCall>>
  <2>1. inChanges' \in 0..changes
    <3>1. inChanges \in 0..changes
      BY DEF InFits
    <3> QED
      BY <1>2, <3>1, OneMoreOf
  <2> QED
    BY <1>2, <2>1 DEF InFits, Short
<1>3. CASE /\ inBridge' = "closed" /\ UNCHANGED <<inAccount, inChanges>>
           /\ inCall' = [c \in calls |-> [inCall[c] EXCEPT !.client = FALSE,
                           !.ssh = IF inCall[c].ssh = "up" THEN "down" ELSE inCall[c].ssh]]
  <2>1. \A c \in calls : inCall[c] \in CallRecords
    BY DEF CallsInv
  <2>2. \A c \in calls : \E s : inCall'[c] = [inCall[c] EXCEPT !.client = FALSE, !.ssh = s]
    BY <1>3
  <2>3. \A c \in calls : inCall'[c].up = inCall[c].up /\ inCall'[c].upParts = inCall[c].upParts
    BY <2>1, <2>2 DEF CallRecords
  <2> QED
    BY <1>3, <2>3 DEF InFits, Short
<1> QED
  BY <1>1, <1>2, <1>3

(* Admission leaves upstream, whoever decides it.                            *)
LEMMA AdmitFits ==
  ASSUME NEW calls, NEW parts, CallsInv(calls, parts), NEW c \in calls, Others, NEW where, NEW what,
         \/ Changes(c, [inCall[c] EXCEPT !.at = where])
         \/ Changes(c, [inCall[c] EXCEPT !.at = where, !.got = what])
  PROVE  SameUpstream(calls)
<1>1. inCall[c] \in CallRecords
  BY TheCall
<1>2. PICK r, s : /\ r = [inCall[c] EXCEPT !.at = where]
                  /\ s = [inCall[c] EXCEPT !.at = where, !.got = what]
  OBVIOUS
<1>3. /\ r.up = inCall[c].up /\ r.upParts = inCall[c].upParts
      /\ s.up = inCall[c].up /\ s.upParts = inCall[c].upParts
  BY <1>1, <1>2 DEF CallRecords
<1>4. Changes(c, r) \/ Changes(c, s)
  BY <1>2
<1> QED
  BY <1>3, <1>4, UpstreamIsLeft

LEMMA InNextFits ==
  ASSUME CallsInv(InCalls, InParts), InFits(InCalls, InParts, InMaxChanges), InNext \/ UNCHANGED inVars
  PROVE  InFits(InCalls, InParts, InMaxChanges)'
<1> InParts \in Nat \ {0} /\ InMaxChanges \in Nat
  BY InferenceAssumption
<1>1. ASSUME NEW c \in InCalls, process_request(c) \/ acquire_worker(c)
      PROVE  InFits(InCalls, InParts, InMaxChanges)'
  BY <1>1, AdmitFits, LeftFits DEF process_request, acquire_worker
<1>2. ASSUME NEW c \in InCalls, OneMoves(c)
      PROVE  InFits(InCalls, InParts, InMaxChanges)'
  BY <1>2, OneMovesIsLeft, LeftFits, PostFits
<1>3. ASSUME NEW c \in InCalls, Upstream(c)
      PROVE  InFits(InCalls, InParts, InMaxChanges)'
  BY <1>3, UpstreamFits DEF Upstream
<1>4. CASE close_says_so \/ stop_connections \/ AccountChanges
  BY <1>4, ClosesFits DEF stop_connections, AccountChanges
<1>5. CASE UNCHANGED inVars
  BY <1>5 DEF inVars, InFits
<1> QED
  BY <1>1, <1>2, <1>3, <1>4, <1>5 DEF InNext, OneMoves

LEMMA AloneNextFits ==
  ASSUME CallsInv({"alone"}, 2), InFits({"alone"}, 2, 2), AloneCall!InNext \/ UNCHANGED inVars
  PROVE  InFits({"alone"}, 2, 2)'
<1>1. ASSUME NEW c \in {"alone"}, AloneCall!process_request(c) \/ AloneCall!acquire_worker(c)
      PROVE  InFits({"alone"}, 2, 2)'
  BY <1>1, AdmitFits, LeftFits
  DEF AloneCall!process_request, AloneCall!acquire_worker, AloneCall!Changes, Changes,
      AloneCall!Others, Others
<1>2. ASSUME NEW c \in {"alone"}, OneMoves(c)
      PROVE  InFits({"alone"}, 2, 2)'
  BY <1>2, OneMovesIsLeft, LeftFits, PostFits
<1>3. ASSUME NEW c \in {"alone"}, AloneCall!Upstream(c)
      PROVE  InFits({"alone"}, 2, 2)'
  <2>1. /\ Others
        /\ \/ inCall[c].up = "asked"
              /\ \E how \in {"refused", "answers", "broken"} : Changes(c, [inCall[c] EXCEPT !.up = how])
           \/ inCall[c].up = "answers"
              /\ \/ Changes(c, [inCall[c] EXCEPT !.upParts = inCall[c].upParts + 1,
                        !.up = IF inCall[c].upParts + 1 = 2 THEN "answered" ELSE inCall[c].up])
                 \/ Changes(c, [inCall[c] EXCEPT !.up = "broken"])
    BY <1>3 DEF AloneCall!Upstream, AloneCall!Changes, Changes, AloneCall!Others, Others
  <2>2. 2 \in Nat \ {0}
    OBVIOUS
  <2> QED
    BY <2>1, <2>2, UpstreamFits
<1>4. CASE AloneCall!close_says_so \/ AloneCall!stop_connections \/ AloneCall!AccountChanges
  BY <1>4, ClosesFits
  DEF AloneCall!stop_connections, AloneCall!AccountChanges, AloneCall!close_says_so, close_says_so
<1>5. CASE UNCHANGED inVars
  BY <1>5 DEF inVars, InFits
<1> QED
  BY <1>1, <1>2, <1>3, <1>4, <1>5, SameCallSteps DEF AloneCall!InNext, OneMoves

LEMMA InBegins ==
  ASSUME NEW calls, NEW parts \in Nat, NEW changes \in Nat, inBridge = "open", inChanges = 0,
         inCall = [c \in calls |-> NoCall]
  PROVE  InFits(calls, parts, changes)
BY DEF InFits, Short, NoCall

(* What is copied is no longer than what upstream has answered.              *)
LEMMA CallTypes ==
  ASSUME NEW calls, NEW parts \in Nat, CallsInv(calls, parts), NEW changes,
         InFits(calls, parts, changes), NEW c \in calls
  PROVE  /\ inCall[c].at \in {"none", "queued", "body", "head", "stream", "ending", "clear", "gone"}
         /\ inCall[c].got \in {"none", "busy", "error", "begun", "whole"}
         /\ inCall[c].parts \in 0..parts /\ inCall[c].upParts \in 0..parts
         /\ inCall[c].ssh \in {"none", "up", "down"} /\ inCall[c].bound \in 0..2
         /\ inCall[c].out.head \in {"none", "ok", "error", "retryable"}
         /\ inCall[c].out.exit \in {"none", "zero", "two"}
         /\ inCall[c].up \in {"none", "asked", "refused", "answers", "answered", "broken"}
<1>1. inCall[c] \in CallRecords /\ CallSound(inCall[c], parts) /\ Short(inCall[c], parts)
  BY TheCall DEF InFits
<1>2. inCall[c].parts <= inCall[c].out.parts /\ inCall[c].out.parts <= inCall[c].upParts
  BY <1>1 DEF CallSound, RelayInOrder, CopiedInOrder
<1>3. inCall[c].parts \in Nat /\ inCall[c].out.parts \in Nat /\ inCall[c].upParts \in 0..parts
  BY <1>1 DEF Short, CallRecords, FrameRecords
<1>4. inCall[c].parts \in 0..parts
  BY <1>2, <1>3
<1>5. inCall[c].out \in FrameRecords
  BY <1>1 DEF CallRecords
<1> QED
  BY <1>1, <1>3, <1>4, <1>5 DEF CallRecords, FrameRecords

LEMMA InTypes ==
  /\ CallsInv(InCalls, InParts) /\ InFits(InCalls, InParts, InMaxChanges) => InTypeOK
  /\ CallsInv({"alone"}, 2) /\ InFits({"alone"}, 2, 2) => AloneCall!InTypeOK
<1>1. ASSUME CallsInv(InCalls, InParts), InFits(InCalls, InParts, InMaxChanges) PROVE InTypeOK
  BY <1>1, CallTypes, InferenceAssumption DEF InTypeOK, InFits, CallsInv
<1>2. ASSUME CallsInv({"alone"}, 2), InFits({"alone"}, 2, 2) PROVE AloneCall!InTypeOK
  BY <1>2, CallTypes DEF AloneCall!InTypeOK, InFits, CallsInv
<1> QED
  BY <1>1, <1>2

-----------------------------------------------------------------------------
(* Types: what is counted of requests.                                      *)

(* A day's count was last written on that day.                               *)
OfItsDay(b, d) ==
  /\ b.updated \in 0..RmMaxMoment
  /\ b.n > 0 => Day(b.updated) = d
  /\ b.n = 0 => b.updated = 0
CountsFit ==
  /\ rmNow \in 0..RmMaxMoment /\ rmSwaps \in 0..RmMaxSwaps /\ rmLock \in {0} \cup RmRelays
  /\ \A d \in Days : OfItsDay(rmStore.buckets[d], d)
  /\ \A r \in RmRelays : rmRelay[r].t \in 0..RmMaxMoment
  /\ rmDisturbed \subseteq Accounts \X Days
SampleFits ==
  rmAnswer.n \in 0..RmMaxTokens /\ rmUsage.n \in 0..RmMaxTokens /\ rmEvents \in 0..RmMaxEvents

LEMMA RmBegins == RmInit => CountsFit /\ SampleFits
<1>1. 0 \in 0..RmMaxMoment /\ 0 \in 0..RmMaxSwaps /\ 0 \in 0..RmMaxTokens /\ 0 \in 0..RmMaxEvents
  BY MetricsAssumption
<1>2. Empty_store(1).buckets = [d \in Days |-> NoBucket] /\ NoBucket.n = 0 /\ NoBucket.updated = 0
      /\ NoRequest.t = 0
  BY DEF Empty_store, NoBucket, NoRequest
<1>3. RmInit => CountsFit
  BY <1>1, <1>2 DEF RmInit, CountsFit, OfItsDay
<1>4. RmInit => SampleFits
  BY <1>1 DEF RmInit, SampleFits, Answer, NoUsage
<1> QED
  BY <1>3, <1>4

LEMMA RecordFits ==
  ASSUME RmInv, CountsFit, NEW r \in RmRelays, metrics_record(r)
  PROVE  CountsFit'
<1> DEFINE q == rmRelay[r]
           day == Day(q.t)
           kept == KeptCounts(r)
           old == kept[day]
           new == [n |-> old.n + 1, updated |-> IF old.updated > q.t THEN old.updated ELSE q.t]
           buckets == [kept EXCEPT ![day] = new]
<1>1. /\ q.at = "bound" /\ RelayEnds(r) /\ rmLock' = 0
      /\ rmStore' = [fp |-> q.fp, buckets |-> buckets]
      /\ UNCHANGED <<rmNow, rmAccount, rmSwaps>>
  BY DEF metrics_record
<1>2. rmDisturbed' = (rmDisturbed
          \cup (IF rmStore.fp # q.fp THEN {rmStore.fp} \X Days ELSE {}))
          \cup ({q.fp} \X {d \in Days : d > day \/ d <= day - RmWindow})
  BY DEF metrics_record
<1>3. /\ q.fp \in Accounts /\ day \in Days /\ q.t \in 0..RmMaxMoment /\ q \in Requests
      /\ rmStore \in [fp : Accounts, buckets : [Days -> Bucket]]
  BY <1>1 DEF RmInv, RmTyped, Requests, CountsFit
<1>4. /\ kept \in [Days -> Bucket]
      /\ \A d \in Days : kept[d] = NoBucket \/ kept[d] = rmStore.buckets[d]
  BY <1>1, KeptIs
<1> HIDE DEF kept
<1>5. NoBucket.n = 0 /\ NoBucket.updated = 0 /\ 0 \in 0..RmMaxMoment
  BY MetricsAssumption DEF NoBucket
<1>6. \A d \in Days : OfItsDay(kept[d], d)
  BY <1>4, <1>5 DEF OfItsDay, CountsFit
<1>7. old \in Bucket /\ OfItsDay(old, day)
  BY <1>3, <1>4, <1>6
<1>8. new.n = old.n + 1 /\ new.updated = (IF old.updated > q.t THEN old.updated ELSE q.t)
  OBVIOUS
<1> HIDE DEF new
<1>9. OfItsDay(new, day)
  <2>1. CASE old.updated > q.t
    <3>1. old.n \in Nat /\ old.updated \in Nat /\ q.t \in Nat
      BY <1>3, <1>7 DEF Bucket
    <3>2. old.n > 0
      BY <1>7, <2>1, <3>1 DEF OfItsDay
    <3> QED
      BY <1>7, <1>8, <2>1, <3>1, <3>2 DEF OfItsDay
  <2>2. CASE ~(old.updated > q.t)
    <3>1. old.n \in Nat
      BY <1>7 DEF Bucket
    <3>2. new.updated = q.t /\ new.n > 0 /\ new.n # 0
      BY <1>8, <2>2, <3>1
    <3> QED
      BY <1>3, <3>2 DEF OfItsDay
  <2> QED
    BY <2>1, <2>2
<1>10. \A d \in Days : OfItsDay(buckets[d], d)
  BY <1>3, <1>4, <1>6, <1>9
<1> HIDE DEF buckets
<1>11. rmStore'.buckets = buckets
  BY <1>1
<1>12. \A s \in RmRelays : rmRelay'[s].t \in 0..RmMaxMoment
  <2>1. NoRequest.t = 0
    BY DEF NoRequest
  <2>2. \A s \in RmRelays : rmRelay'[s] = NoRequest \/ rmRelay'[s] = rmRelay[s]
    BY <1>1 DEF RelayEnds, RmInv, RmTyped
  <2> QED
    BY <1>5, <2>1, <2>2 DEF CountsFit
<1>13. rmDisturbed' \subseteq Accounts \X Days
  <2>1. rmStore.fp \in Accounts
    BY <1>3
  <2>2. {rmStore.fp} \X Days \subseteq Accounts \X Days
    BY <2>1
  <2>3. {q.fp} \X {d \in Days : d > day \/ d <= day - RmWindow} \subseteq Accounts \X Days
    BY <1>3
  <2> HIDE DEF q, day
  <2> QED
    BY <1>2, <2>2, <2>3 DEF CountsFit
<1> QED
  BY <1>1, <1>10, <1>11, <1>12, <1>13 DEF CountsFit

LEMMA CountNextFits == ASSUME RmInv, CountsFit, CountNext PROVE CountsFit'
<1>1. rmNow \in 0..RmMaxMoment /\ 0 \in 0..RmMaxMoment /\ rmRelay \in [RmRelays -> Requests]
      /\ NoRequest.t = 0
  BY MetricsAssumption DEF CountsFit, RmInv, RmTyped, NoRequest
<1>2. ASSUME NEW r \in RmRelays, NEW q, rmRelay' = [rmRelay EXCEPT ![r] = q], q.t \in 0..RmMaxMoment
      PROVE  \A s \in RmRelays : rmRelay'[s].t \in 0..RmMaxMoment
  BY <1>1, <1>2 DEF CountsFit
<1>3. ASSUME NEW r \in RmRelays, Finishes(r) PROVE CountsFit'
  <2>0. PICK fp : rmRelay' = [rmRelay EXCEPT ![r] = [at |-> "lock", fp |-> fp, t |-> rmNow]]
    BY <1>3 DEF Finishes
  <2>1. PICK q : q = [at |-> "lock", fp |-> fp, t |-> rmNow]
    OBVIOUS
  <2>2. rmRelay' = [rmRelay EXCEPT ![r] = q] /\ q.t = rmNow
    BY <2>0, <2>1
  <2> QED
    BY <1>1, <1>2, <1>3, <2>2 DEF Finishes, CountsFit
<1>4. ASSUME NEW r \in RmRelays, NEW where, rmRelay' = [rmRelay EXCEPT ![r].at = where]
      PROVE  \A s \in RmRelays : rmRelay'[s].t \in 0..RmMaxMoment
  BY <1>1, <1>4 DEF CountsFit, Requests
<1>5. ASSUME NEW r \in RmRelays, _acquire(r) PROVE CountsFit'
  BY <1>4, <1>5 DEF _acquire, CountsFit
<1>6. ASSUME NEW r \in RmRelays, gives_up(r) PROVE CountsFit'
  BY <1>1, <1>2, <1>6 DEF gives_up, RelayEnds, CountsFit
<1>7. ASSUME NEW r \in RmRelays, still_bound(r) PROVE CountsFit'
  <2>1. \A s \in RmRelays : rmRelay'[s].t \in 0..RmMaxMoment
    BY <1>1, <1>2, <1>4, <1>7 DEF still_bound, RelayEnds
  <2> QED
    BY <1>7, <2>1 DEF still_bound, CountsFit
<1>8. CASE Clock
  <2>1. rmNow' \in 0..RmMaxMoment
    BY <1>1, <1>8 DEF Clock
  <2> QED
    BY <1>8, <2>1 DEF Clock, CountsFit
<1>9. CASE AccountSwapped
  <2>1. rmSwaps' \in 0..RmMaxSwaps
    BY <1>9, MetricsAssumption DEF AccountSwapped, CountsFit
  <2> QED
    BY <1>9, <2>1 DEF AccountSwapped, CountsFit
<1> QED
  BY <1>3, <1>5, <1>6, <1>7, <1>8, <1>9, RecordFits DEF CountNext

(* What is left of a count by each way an event may change it.               *)
LEMMA UsageFits ==
  ASSUME NEW u \in Usage, NEW n
  PROVE  /\ \A m \in {1, 2} : [u EXCEPT !.model = m] \in Usage /\ [u EXCEPT !.model = m].n = u.n
         /\ _mark_fallback(u).n = u.n
         /\ \A listed \in {"none", "others", "fallback"} : _iterations(u, listed).n = u.n
         /\ \A initial \in BOOLEAN : _merge(u, n, initial).n \in {u.n, n}
         /\ [u EXCEPT !.delta = TRUE].n = u.n /\ [u EXCEPT !.stopped = TRUE].n = u.n
         /\ [u EXCEPT !.bad = TRUE].n = u.n
<1>1. \A m \in {1, 2} : [u EXCEPT !.model = m] \in Usage /\ [u EXCEPT !.model = m].n = u.n
  BY DEF Usage
<1>2. /\ [u EXCEPT !.delta = TRUE].n = u.n /\ [u EXCEPT !.stopped = TRUE].n = u.n
      /\ [u EXCEPT !.bad = TRUE].n = u.n /\ [u EXCEPT !.unpriced = TRUE].n = u.n
  BY DEF Usage
<1>3. _mark_fallback(u).n = u.n
  BY DEF Usage, _mark_fallback
<1>4. \A listed \in {"none", "others", "fallback"} : _iterations(u, listed).n = u.n
  BY <1>2, <1>3 DEF _iterations
<1>5. [u EXCEPT !.n = n].n = n
  BY DEF Usage
<1>6. [u EXCEPT !.n = n, !.replace = FALSE].n = n
  BY DEF Usage
<1>7. \A initial \in BOOLEAN : _merge(u, n, initial).n \in {u.n, n}
  BY <1>2, <1>5, <1>6 DEF _merge
<1> QED
  BY <1>1, <1>2, <1>3, <1>4, <1>7

LEMMA SampleNextFits == ASSUME SampleTrue, SampleFits, SampleNext PROVE SampleFits'
<1>1. rmUsage \in Usage /\ rmAnswer \in AnswerRecords /\ rmAnswer.n \in 0..RmMaxTokens
      /\ rmUsage.n \in 0..RmMaxTokens /\ RmMaxTokens \in Nat
  BY MetricsAssumption DEF SampleTrue, SampleFits
<1>2. rmEvents' \in 0..RmMaxEvents
  <2>1. rmEvents < RmMaxEvents /\ rmEvents' = rmEvents + 1
    BY DEF SampleNext, message_start, FallsBack, message_delta, message_stop, Garbled, Next_event
  <2> QED
    BY <2>1, MetricsAssumption, OneMoreOf DEF SampleFits
<1>3. ASSUME NEW a, NEW u, rmAnswer' = a, Feeds(u), a.n \in 0..RmMaxTokens, u.n \in 0..RmMaxTokens
      PROVE  SampleFits'
  BY <1>1, <1>2, <1>3 DEF Feeds, SampleFits
<1>4. CASE message_start
  <2>1. PICK m \in {1, 2}, n \in 0..RmMaxTokens :
          /\ rmAnswer' = [rmAnswer EXCEPT !.model = m, !.n = n]
          /\ Feeds(_merge([rmUsage EXCEPT !.model = m], n, TRUE))
    BY <1>4 DEF message_start, Next_event
  <2>2. [rmAnswer EXCEPT !.model = m, !.n = n].n = n
    BY <1>1 DEF AnswerRecords
  <2>3. PICK v : v = [rmUsage EXCEPT !.model = m]
    OBVIOUS
  <2>4. v \in Usage /\ v.n = rmUsage.n
    BY <1>1, <2>3, UsageFits
  <2>5. _merge(v, n, TRUE).n \in {v.n, n}
    BY <2>4, UsageFits
  <2> QED
    BY <1>1, <1>3, <2>1, <2>2, <2>3, <2>4, <2>5
<1>5. CASE FallsBack
  <2>1. PICK n \in 0..RmMaxTokens : rmAnswer' = [rmAnswer EXCEPT !.fell = TRUE, !.n = n]
                                    /\ Feeds(_mark_fallback(rmUsage))
    BY <1>5 DEF FallsBack, Next_event
  <2>2. [rmAnswer EXCEPT !.fell = TRUE, !.n = n].n = n
    BY <1>1 DEF AnswerRecords
  <2> QED
    BY <1>1, <1>3, <2>1, <2>2, UsageFits
<1>6. CASE message_delta
  <2>1. PICK n \in rmAnswer.n..RmMaxTokens, listed \in {"none", "others", "fallback"} :
          /\ rmAnswer' = [rmAnswer EXCEPT !.n = n]
          /\ Feeds([_merge(_iterations(rmUsage, listed), n, FALSE) EXCEPT !.delta = TRUE])
    BY <1>6 DEF message_delta, Next_event
  <2>2. n \in 0..RmMaxTokens
    BY <1>1
  <2>3. [rmAnswer EXCEPT !.n = n].n = n
    BY <1>1 DEF AnswerRecords
  <2>4. PICK i, v : i = _iterations(rmUsage, listed) /\ v = _merge(i, n, FALSE)
    OBVIOUS
  <2>5. i \in Usage /\ i.n = rmUsage.n
    BY <1>1, <2>4, IterationsIs, UsageFits
  <2>6. v \in Usage /\ v.n \in {i.n, n}
    <3>1. n \in Nat
      BY <2>2
    <3> QED
      BY <2>4, <2>5, <3>1, MergeIs, UsageFits
  <2>7. [v EXCEPT !.delta = TRUE].n = v.n
    BY <2>6, UsageFits
  <2> QED
    BY <1>1, <1>3, <2>1, <2>2, <2>3, <2>4, <2>5, <2>6, <2>7
<1>7. CASE message_stop
  <2>1. [rmAnswer EXCEPT !.over = TRUE].n = rmAnswer.n
    BY <1>1 DEF AnswerRecords
  <2>2. \E u : rmAnswer' = [rmAnswer EXCEPT !.over = TRUE] /\ Feeds(u) /\ u.n = rmUsage.n
    BY <1>1, <1>7, UsageFits DEF message_stop, Next_event
  <2> QED
    BY <1>1, <1>3, <2>1, <2>2
<1>8. CASE Garbled
  <2>1. [rmAnswer EXCEPT !.garbled = TRUE].n = rmAnswer.n
    BY <1>1 DEF AnswerRecords
  <2>2. rmAnswer' = [rmAnswer EXCEPT !.garbled = TRUE] /\ rmUsage'.n = rmUsage.n
    BY <1>1, <1>8, UsageFits DEF Garbled, Next_event, _reject
  <2> QED
    BY <1>1, <1>2, <2>1, <2>2 DEF SampleFits
<1> QED
  BY <1>4, <1>5, <1>6, <1>7, <1>8 DEF SampleNext

LEMMA RmTypes ==
  /\ RmInv /\ CountsFit /\ SampleFits => RmTypeOK
  /\ RmInv /\ CountsFit /\ SampleFits /\ (RmNext \/ UNCHANGED rmVars) => CountsFit' /\ SampleFits'
<1>1. RmInv /\ CountsFit /\ SampleFits => RmTypeOK
  BY DEF RmInv, RmTyped, CountsFit, SampleFits, RmTypeOK, OfItsDay, Requests
<1>2. ASSUME RmInv, CountsFit, SampleFits, RmNext \/ UNCHANGED rmVars PROVE CountsFit' /\ SampleFits'
  <2>1. CASE CountNext
    BY <1>2, <2>1, CountNextFits DEF CountNext, SampleFits, sampleVars
  <2>2. CASE SampleNext
    BY <1>2, <2>2, SampleNextFits DEF SampleNext, CountsFit, countVars, RmInv, OfItsDay
  <2>3. CASE UNCHANGED rmVars
    BY <1>2, <2>3 DEF rmVars, countVars, sampleVars, CountsFit, SampleFits, OfItsDay
  <2> QED
    BY <1>2, <2>1, <2>2, <2>3 DEF RmNext
<1> QED
  BY <1>1, <1>2

-----------------------------------------------------------------------------
(* Types: whichever component moves.                                         *)

(* Of every component what keeps its types: the sound part and the rest; of *)
(* model requests, for the connections that are checked.                    *)
HolderFits == LoginInv /\ LoginFits /\ CliInv /\ CliFits /\ JobInv
UpkeepFits == UpdInv /\ UpdFits /\ RnInv /\ RnMore /\ HnKinds
RequestsFit ==
  /\ RequestsInv /\ TpMore /\ CountsFit /\ SampleFits
  /\ focus # "call alone" => InFits(InCalls, InParts, InMaxChanges)
  /\ focus = "call alone" => InFits({"alone"}, 2, 2)
Foci == {"login", "terminals", "updates", "renewal", "hostname", "jobs", "calls", "call alone",
         "transport", "counts", "sample"}
AgentsFit == HolderFits /\ UpkeepFits /\ RequestsFit /\ focus \in Foci

LEMMA HolderTypes ==
  /\ AgentsInit => HolderFits
  /\ HolderFits /\ [AgentsNext]_<<focus, agentVars, inVars, tpVars, rmVars>> => HolderFits'
<1>1. AgentsInit => HolderFits
  BY LoginInitSound, LoginTypes, InitKeeps, CliTypes, JobInitSound DEF AgentsInit, HolderFits
<1>2. ASSUME HolderFits, [AgentsNext]_<<focus, agentVars, inVars, tpVars, rmVars>> PROVE HolderFits'
  <2>1. /\ LoginNext \/ UNCHANGED loginVars
        /\ CliNext \/ UNCHANGED cliVars
        /\ JobNext \/ UNCHANGED jobVars
    BY <1>2 DEF AgentsNext, agentVars
  <2>2. LoginInv' /\ LoginFits'
    BY <1>2, <2>1, LoginStepKeeps, LoginTypes DEF HolderFits
  <2>3. CliInv' /\ CliFits'
    BY <1>2, <2>1, NextKeeps, CliTypes DEF HolderFits
  <2>4. JobInv'
    BY <1>2, <2>1, JobStepKeeps DEF HolderFits
  <2> QED
    BY <2>2, <2>3, <2>4 DEF HolderFits
<1> QED
  BY <1>1, <1>2

LEMMA UpkeepTypes ==
  ASSUME ~WriterBetween
  PROVE  /\ AgentsInit => UpkeepFits
         /\ UpkeepFits /\ [AgentsNext]_<<focus, agentVars, inVars, tpVars, rmVars>> => UpkeepFits'
<1>1. AgentsInit => UpkeepFits
  BY UpdInitSound, UpdTypes, RnInitSound, RnTypes, HnTypes DEF AgentsInit, UpkeepFits
<1>2. ASSUME UpkeepFits, [AgentsNext]_<<focus, agentVars, inVars, tpVars, rmVars>> PROVE UpkeepFits'
  <2>1. /\ UpdNext \/ UNCHANGED updVars
        /\ RnNext \/ UNCHANGED rnVars
        /\ HnNext \/ UNCHANGED hnVars
    BY <1>2 DEF AgentsNext, agentVars
  <2>2. UpdInv' /\ UpdFits'
    BY <1>2, <2>1, UpdStepKeeps, UpdTypes DEF UpkeepFits
  <2>3. RnInv' /\ RnMore'
    BY <1>2, <2>1, RnStepKeeps, RnTypes DEF UpkeepFits
  <2>4. HnKinds'
    BY <1>2, <2>1, HnTypes DEF UpkeepFits
  <2> QED
    BY <2>2, <2>3, <2>4 DEF UpkeepFits
<1> QED
  BY <1>1, <1>2

LEMMA RequestTypes ==
  /\ AgentsInit => RequestsFit
  /\ RequestsFit /\ [AgentsNext]_<<focus, agentVars, inVars, tpVars, rmVars>> => RequestsFit'
<1>1. ASSUME AgentsInit PROVE RequestsFit
  <2>1. RequestsInv /\ TpMore /\ CountsFit /\ SampleFits
    BY <1>1, RequestsInit, TpTypes, RmBegins DEF AgentsInit
  <2>2. CASE focus # "call alone"
    <3>1. InInit
      BY <1>1, <2>2 DEF AgentsInit
    <3>2. InFits(InCalls, InParts, InMaxChanges)
      BY <3>1, InBegins, InferenceAssumption DEF InInit
    <3> QED
      BY <2>1, <2>2, <3>2 DEF RequestsFit
  <2>3. CASE focus = "call alone"
    <3>1. AloneCall!InInit
      BY <1>1, <2>3 DEF AgentsInit
    <3>2. AloneCall!NoCall = NoCall
      BY DEF AloneCall!NoCall, NoCall, AloneCall!NoFrames, NoFrames
    <3>3. InFits({"alone"}, 2, 2)
      BY <3>1, <3>2, InBegins DEF AloneCall!InInit
    <3> QED
      BY <2>1, <2>3, <3>3 DEF RequestsFit
  <2> QED
    BY <2>2, <2>3
<1>2. ASSUME RequestsFit, [AgentsNext]_<<focus, agentVars, inVars, tpVars, rmVars>> PROVE RequestsFit'
  <2>1. RequestsInv' /\ RequestsInv
    BY <1>2, RequestsStep DEF RequestsFit
  <2>2. TpMore'
    <3>1. TpNext \/ UNCHANGED tpVars
      BY <1>2 DEF AgentsNext
    <3> QED
      BY <1>2, <3>1, TpTypes DEF RequestsFit
  <2>3. CountsFit' /\ SampleFits'
    <3>1. RmNext \/ UNCHANGED rmVars
      BY <1>2 DEF AgentsNext, RmNext
    <3> QED
      BY <1>2, <2>1, <3>1, RmTypes DEF RequestsFit, RequestsInv
  <2>4. UNCHANGED focus
    BY <1>2 DEF AgentsNext
  <2>5. CASE focus # "call alone"
    <3>1. InNext \/ UNCHANGED inVars
      BY <1>2, <2>5 DEF AgentsNext
    <3>2. InFits(InCalls, InParts, InMaxChanges)'
      BY <1>2, <2>1, <2>5, <3>1, InNextFits DEF RequestsFit, RequestsInv
    <3> QED
      BY <2>1, <2>2, <2>3, <2>4, <2>5, <3>2 DEF RequestsFit
  <2>6. CASE focus = "call alone"
    <3>1. AloneCall!InNext \/ UNCHANGED inVars
      BY <1>2, <2>6 DEF AgentsNext
    <3>2. InFits({"alone"}, 2, 2)'
      BY <1>2, <2>1, <2>6, <3>1, AloneNextFits DEF RequestsFit, RequestsInv
    <3> QED
      BY <2>1, <2>2, <2>3, <2>4, <2>6, <3>2 DEF RequestsFit
  <2> QED
    BY <2>5, <2>6
<1> QED
  BY <1>1, <1>2

LEMMA FitsGiveTypes == ASSUME AgentsFit PROVE AgentsTypeOK
<1>1. /\ focus = "login" => LoginTypeOK
      /\ focus = "terminals" => CliTypeOK
      /\ focus = "jobs" => JobTypeOK
  BY LoginTypes, CliTypes DEF AgentsFit, HolderFits, JobInv
<1>2. /\ focus = "updates" => UpdTypeOK
      /\ focus = "renewal" => RnTypeOK
      /\ focus = "hostname" => HnTypeOK
  BY UpdTypes, RnTypes, HnTypes DEF AgentsFit, UpkeepFits
<1>3. /\ focus = "calls" => InTypeOK
      /\ focus = "call alone" => AloneCall!InTypeOK
      /\ focus = "transport" => TpTypeOK
      /\ focus \in {"counts", "sample"} => RmTypeOK
  BY InTypes, TpTypes, RmTypes DEF AgentsFit, RequestsFit, RequestsInv
<1>4. focus \in Foci
  BY DEF AgentsFit
<1> QED
  BY <1>1, <1>2, <1>3, <1>4 DEF AgentsTypeOK, Foci

(* Every variable of what a slot's agents do, of what the server asks of    *)
(* them and of the requests that come to them holds what the code may put   *)
(* there, bounds included, where nobody writes the credential between two   *)
(* looks at it that follow on one another.                                  *)
THEOREM AgentsTypeCorrect ==
  ASSUME ~WriterBetween PROVE AgentsSpec => []AgentsTypeOK
<1>1. AgentsInit => AgentsFit
  BY HolderTypes, UpkeepTypes, RequestTypes DEF AgentsFit, AgentsInit, Foci
<1>2. ASSUME AgentsFit, [AgentsNext]_<<focus, agentVars, inVars, tpVars, rmVars>> PROVE AgentsFit'
  <2>1. UNCHANGED focus
    BY <1>2 DEF AgentsNext
  <2> QED
    BY <1>2, <2>1, HolderTypes, UpkeepTypes, RequestTypes DEF AgentsFit
<1> QED
  BY <1>1, <1>2, FitsGiveTypes, PTL DEF AgentsSpec
=============================================================================

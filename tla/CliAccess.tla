----------------------------- MODULE CliAccess -----------------------------
(* A holder's own computers on a hosted slot: the pairing code shown once,    *)
(* the device it registers (ccfleetd/store.py), the broker that relays that   *)
(* device's SSH stream (ccfleetd/cli_access.py, api.py), and the key file the *)
(* machine agent keeps for the slot's Linux user outside its home             *)
(* (ccfleet_agent/machine.py).  One slot, claimed again and again.  Whether   *)
(* its time is paid may change between any two steps: pairing, registering    *)
(* and resolving refuse an unpaid slot, which a step not taken stands for.    *)
EXTENDS Naturals, FiniteSets

CONSTANTS
  CliHolders,       \* accounts that may hold the slot
  NoCliHolder,      \* nobody, and no order for the machine
  CliDevicesAllowed,\* MAX_DEVICES_PER_SLOT
  CliMaxClaims,     \* bound: times the slot is claimed
  CliMaxCodes,      \* bound: pairing codes shown
  CliMaxFaults      \* bound: keys not written, runs cut short

VARIABLES
  cliState,         \* slots.state
  cliHeldBy,        \* slots.held_by
  cliClaim,         \* slots.gateway_claim_id: which claim this is
  cliOpen,          \* the slot may be reached: node enabled with an endpoint
  cliCodes,         \* how many codes were shown; a code is its number
  cliPairings,      \* cli_pairings: [code, claim, who, late]
  cliDevices,       \* cli_devices: [code, claim, who]; one key each
  cliStreams,       \* devices being relayed, "checked" once resolved, "open" on the wire
  cliUser,          \* the machine: the slot's Linux user exists
  cliBuilt,         \* the claim the machine last provisioned
  cliKeyFile,       \* /etc/ccfleet/authorized_keys/<user>: the devices it admits
  cliOrder,         \* the reply being carried out
  cliStep,          \* how far: "idle", "keys", "act", "again"
  cliTried,         \* ghost: codes whose use was refused past the payment check
  cliMade,          \* ghost: codes that registered a device
  cliSettled,       \* ghost: the claim the last run without a fault was about
  cliFaults

cliServer == <<cliState, cliHeldBy, cliClaim, cliOpen, cliCodes, cliPairings,
               cliDevices>>
cliMachine == <<cliUser, cliBuilt, cliKeyFile, cliOrder, cliStep, cliSettled>>
cliGhosts == <<cliTried, cliMade, cliFaults>>
cliVars == <<cliServer, cliStreams, cliMachine, cliGhosts>>

(* A heartbeat reply, as far as it is about the slot's keys.                  *)
CliOrders ==
  [state : {"free", "claiming", "claimed", "active", "releasing"}, claim : Nat,
   keys : SUBSET [code : Nat, claim : Nat, who : CliHolders \cup {NoCliHolder}],
   clean : BOOLEAN]

ASSUME CliAccessAssumption ==
  CliMaxClaims \in Nat /\ CliMaxFaults \in Nat /\ NoCliHolder \notin CliOrders

-----------------------------------------------------------------------------
(* The slot changes hands (SlotLifecycle has this in full).                   *)

CliClaimSlot(h) ==
  /\ cliState = "free" /\ ~cliUser
  /\ cliClaim < CliMaxClaims
  /\ cliState' = "claiming" /\ cliHeldBy' = h /\ cliClaim' = cliClaim + 1
  /\ UNCHANGED <<cliOpen, cliCodes, cliPairings, cliDevices, cliStreams, cliMachine, cliGhosts>>

\* Mutant: a release leaves what the holder paired.
AccessEnds_with_the_wipe == UNCHANGED <<cliPairings, cliDevices>>

\* Releasing takes the codes and the devices away in the same transaction.
AccessEnds == cliPairings' = {} /\ cliDevices' = {}

CliReleaseSlot ==
  /\ cliState \in {"claiming", "claimed", "active"}
  /\ cliState' = "releasing"
  /\ AccessEnds
  /\ UNCHANGED <<cliHeldBy, cliClaim, cliOpen, cliCodes, cliStreams, cliMachine,
                 cliGhosts>>

CliSignedIn ==
  /\ cliState = "claimed"
  /\ cliState' = "active"
  /\ UNCHANGED <<cliHeldBy, cliClaim, cliOpen, cliCodes, cliPairings, cliDevices,
                 cliStreams, cliMachine, cliGhosts>>

\* The operator disables the node or takes its endpoint away, or puts it back.
CliSetNode ==
  /\ cliOpen' = ~cliOpen
  /\ UNCHANGED <<cliState, cliHeldBy, cliClaim, cliCodes, cliPairings, cliDevices,
                 cliStreams, cliMachine, cliGhosts>>

-----------------------------------------------------------------------------
(* Pairing.                                                                   *)

Connected(who) == Cardinality({d \in cliDevices : d.who = who})

\* A code is minted; the ones that ran out are swept on the way.
request_cli_pairing ==
  /\ cliState = "active" /\ cliOpen
  /\ Connected(cliHeldBy) < CliDevicesAllowed
  /\ cliCodes < CliMaxCodes
  /\ cliCodes' = cliCodes + 1
  /\ cliPairings' = {p \in cliPairings : ~p.late}
       \cup {[code |-> cliCodes', claim |-> cliClaim, who |-> cliHeldBy, late |-> FALSE]}
  /\ UNCHANGED <<cliState, cliHeldBy, cliClaim, cliOpen, cliDevices, cliStreams,
                 cliMachine, cliGhosts>>

TenMinutesPass == \E p \in cliPairings :
  /\ ~p.late
  /\ cliPairings' = (cliPairings \ {p}) \cup {[p EXCEPT !.late = TRUE]}
  /\ UNCHANGED <<cliState, cliHeldBy, cliClaim, cliOpen, cliCodes, cliDevices,
                 cliStreams, cliMachine, cliGhosts>>

\* Mutant: what a good code leads to is a device, the code staying as it was.
Registered_keeping_the_code(p) ==
  cliPairings' = cliPairings
  /\ cliDevices' = cliDevices \cup {[code |-> p.code, claim |-> cliClaim, who |-> p.who]}

Registered(p) ==
  cliPairings' = cliPairings \ {p}
  /\ cliDevices' = cliDevices \cup {[code |-> p.code, claim |-> cliClaim, who |-> p.who]}

Usable(p) ==
  /\ ~p.late
  /\ cliState = "active" /\ cliHeldBy = p.who /\ cliOpen
  /\ Connected(p.who) < CliDevicesAllowed

\* The refusals come after the code's row was deleted, and each raises inside the
\* transaction, which puts the row back.
register_cli_device(p) ==
  /\ p \in cliPairings
  /\ \/ /\ Usable(p)
        /\ Registered(p)
        /\ cliMade' = cliMade \cup {p.code}
        /\ UNCHANGED cliTried
     \/ /\ ~Usable(p)
        /\ cliTried' = cliTried \cup {p.code}
        /\ UNCHANGED <<cliPairings, cliDevices, cliMade>>
  /\ UNCHANGED <<cliState, cliHeldBy, cliClaim, cliOpen, cliCodes, cliStreams,
                 cliMachine, cliFaults>>

\* Removed from the page, by the device itself, or after its token was presented.
revoke_cli_device(d) ==
  /\ d \in cliDevices
  /\ cliDevices' = cliDevices \ {d}
  /\ UNCHANGED <<cliState, cliHeldBy, cliClaim, cliOpen, cliCodes, cliPairings,
                 cliStreams, cliMachine, cliGhosts>>

-----------------------------------------------------------------------------
(* The broker.  The device is resolved, then the slot's endpoint is dialled,  *)
(* then the bytes flow while a watcher asks again every second.               *)

Authorized(d) == d \in cliDevices /\ cliState = "active" /\ cliHeldBy = d.who /\ cliOpen

resolve_cli_device(d) ==
  /\ Authorized(d)
  /\ \A s \in cliStreams : s.device # d
  /\ cliStreams' = cliStreams \cup {[device |-> d, at |-> "checked"]}
  /\ UNCHANGED <<cliServer, cliMachine, cliGhosts>>

\* The slot's sshd was reached, or was not.
Dialled(n) == \E s \in cliStreams :
  /\ s.at = "checked" /\ s.device.code = n
  /\ \/ cliStreams' = (cliStreams \ {s}) \cup {[s EXCEPT !.at = "open"]}
     \/ cliStreams' = cliStreams \ {s}
  /\ UNCHANGED <<cliServer, cliMachine, cliGhosts>>

\* Mutant: the watcher only looks for the device's row.
watch_authorization_by_row(s) == s.at = "open" /\ s.device \notin cliDevices

watch_authorization(s) == s.at = "open" /\ ~Authorized(s.device)

\* The watcher shuts the stream of a device that may no longer be here.
StreamCut(n) == \E s \in cliStreams :
  /\ s.device.code = n
  /\ watch_authorization(s)
  /\ cliStreams' = cliStreams \ {s}
  /\ UNCHANGED <<cliServer, cliMachine, cliGhosts>>

StreamEnds == \E s \in cliStreams :
  /\ s.at = "open"
  /\ cliStreams' = cliStreams \ {s}
  /\ UNCHANGED <<cliServer, cliMachine, cliGhosts>>

-----------------------------------------------------------------------------
(* The machine's run: its report is heard, its reply says what to do.         *)

\* The report moves the slot on; then the reply is read.
CliHeard ==
  LET to == CASE cliState = "claiming" /\ cliUser /\ cliBuilt = cliClaim -> "claimed"
              [] cliState = "releasing" /\ ~cliUser -> "free"
              [] OTHER -> cliState
  IN  /\ cliState' = to
      /\ cliHeldBy' = IF to = "free" THEN NoCliHolder ELSE cliHeldBy
      /\ IF to = "free" THEN AccessEnds ELSE UNCHANGED <<cliPairings, cliDevices>>
      /\ UNCHANGED <<cliClaim, cliOpen, cliCodes>>

\* wanted_slots: no keys at all for a slot that is free, being made or being wiped.
cli_public_keys(paid) ==
  IF paid /\ cliState' \in {"claimed", "active", "releasing"} THEN cliDevices' ELSE {}

CliHeartbeat == \E paid \in BOOLEAN :
  /\ cliStep = "idle"
  /\ CliHeard
  /\ cliOrder' = [state |-> cliState', claim |-> cliClaim, keys |-> cli_public_keys(paid),
                  clean |-> TRUE]
  /\ cliStep' = "keys"
  /\ UNCHANGED <<cliStreams, cliUser, cliBuilt, cliKeyFile, cliSettled, cliGhosts>>

\* Each run writes the keys twice; a file is only touched while its user exists, and
\* a failed write leaves the one that was there.
converge_ssh_access(well) ==
  /\ IF well /\ cliUser THEN cliKeyFile' = cliOrder.keys ELSE UNCHANGED cliKeyFile
  /\ IF well THEN UNCHANGED cliFaults
     ELSE cliUser /\ cliFaults < CliMaxFaults /\ cliFaults' = cliFaults + 1

ConvergeFirst == \E well \in BOOLEAN :
  /\ cliStep = "keys"
  /\ converge_ssh_access(well)
  /\ cliStep' = "act"
  /\ cliOrder' = [cliOrder EXCEPT !.clean = well]
  /\ UNCHANGED <<cliServer, cliStreams, cliUser, cliBuilt, cliSettled, cliTried, cliMade>>

\* slot-add.sh makes the user; slot-remove.sh takes it away with its home, and leaves
\* the key file, which lies outside the home.
cli_act_on_slots ==
  /\ cliStep = "act"
  /\ cliStep' = "again"
  /\ \/ /\ cliOrder.state = "claiming"
        /\ cliUser' = TRUE /\ cliBuilt' = cliOrder.claim
     \/ /\ cliOrder.state = "releasing"
        /\ cliUser' \in {FALSE, cliUser}
        /\ cliBuilt' = 0
     \/ /\ cliOrder.state \notin {"claiming", "releasing"}
        /\ UNCHANGED <<cliUser, cliBuilt>>
  /\ UNCHANGED <<cliServer, cliStreams, cliKeyFile, cliOrder, cliSettled, cliGhosts>>

\* Mutant: the second writing of the keys is left out.
KeysAgain_not(well) == well /\ UNCHANGED <<cliKeyFile, cliFaults>>

\* The account of a claim did not exist the first time.
KeysAgain(well) == converge_ssh_access(well)

ConvergeAgainAndSave == \E well \in BOOLEAN :
  /\ cliStep = "again"
  /\ KeysAgain(well)
  /\ cliStep' = "idle"
  /\ cliOrder' = NoCliHolder
  /\ cliSettled' = IF well /\ cliOrder.clean THEN cliOrder.claim ELSE 0
  /\ UNCHANGED <<cliServer, cliStreams, cliUser, cliBuilt, cliTried, cliMade>>

\* The agent is killed, or the machine restarts, in the middle of a run.
RunCut ==
  /\ cliStep # "idle" /\ cliFaults < CliMaxFaults
  /\ cliFaults' = cliFaults + 1
  /\ cliStep' = "idle" /\ cliOrder' = NoCliHolder /\ cliSettled' = 0
  /\ UNCHANGED <<cliServer, cliStreams, cliUser, cliBuilt, cliKeyFile, cliTried, cliMade>>

-----------------------------------------------------------------------------
CliInit ==
  /\ cliState = "free" /\ cliHeldBy = NoCliHolder /\ cliClaim = 0
  /\ cliOpen = TRUE /\ cliCodes = 0
  /\ cliPairings = {} /\ cliDevices = {} /\ cliStreams = {}
  /\ cliUser = FALSE /\ cliBuilt = 0 /\ cliKeyFile = {}
  /\ cliOrder = NoCliHolder /\ cliStep = "idle" /\ cliSettled = 0
  /\ cliTried = {} /\ cliMade = {} /\ cliFaults = 0

CliNext ==
  \/ \E h \in CliHolders : CliClaimSlot(h)
  \/ CliReleaseSlot \/ CliSignedIn \/ CliSetNode
  \/ request_cli_pairing \/ TenMinutesPass
  \/ \E p \in cliPairings : register_cli_device(p)
  \/ \E d \in cliDevices : revoke_cli_device(d) \/ resolve_cli_device(d)
  \/ \E n \in 1..cliCodes : Dialled(n) \/ StreamCut(n)
  \/ StreamEnds
  \/ CliHeartbeat \/ ConvergeFirst \/ cli_act_on_slots \/ ConvergeAgainAndSave \/ RunCut

CliSpec == CliInit /\ [][CliNext]_cliVars

\* Each stream has its own threads: one dials, with ten seconds to do it, and one asks
\* every second.
CliFair == \A n \in 1..CliMaxCodes : WF_cliVars(Dialled(n)) /\ WF_cliVars(StreamCut(n))
CliLive == CliSpec /\ CliFair

-----------------------------------------------------------------------------
CliTypeOK ==
  /\ cliState \in {"free", "claiming", "claimed", "active", "releasing"}
  /\ cliHeldBy \in CliHolders \cup {NoCliHolder}
  /\ {cliClaim, cliBuilt, cliSettled} \subseteq 0..CliMaxClaims
  /\ {cliOpen, cliUser} \subseteq BOOLEAN
  /\ \A d \in cliDevices \cup cliKeyFile :
       d.code \in 1..cliCodes /\ d.claim \in 1..cliClaim /\ d.who \in CliHolders
  /\ \A p \in cliPairings : p.code \in 1..cliCodes /\ p.who \in CliHolders
  /\ \A s \in cliStreams : s.at \in {"checked", "open"} /\ s.device.code \in 1..cliCodes
  /\ cliStep \in {"idle", "keys", "act", "again"}
  /\ (cliOrder = NoCliHolder) <=> (cliStep = "idle")
  /\ cliFaults \in 0..CliMaxFaults

\* What a holder paired is gone with the claim it was paired in: no code and no device
\* of an earlier claim is left to the next holder, even to the same account again; and
\* a code has made at most one device, ever.
AccessIsTheClaims ==
  /\ \A x \in cliPairings \cup cliDevices : x.claim = cliClaim /\ x.who = cliHeldBy
  /\ cliPairings \cup cliDevices # {} => cliState = "active"
  /\ \A p \in cliPairings : p.code \notin cliMade
  /\ \A d, e \in cliDevices : d.code = e.code => d = e

\* Once the machine has carried one run through for the claim the slot is in, the keys
\* that open its Linux user are that claim's; whatever an interrupted wipe of an earlier
\* holder, or a write that failed, had left there is gone.
KeysAreTheClaims ==
  cliUser /\ cliSettled = cliClaim => \A k \in cliKeyFile : k.claim = cliClaim

\* Nobody but the holder of this claim gets in, by the server or by the key file.
CliSound == AccessIsTheClaims /\ KeysAreTheClaims

\* A relayed stream ends once its device may no longer be here: it is closed, or the
\* device is let in again before the watcher looked.
StreamsOfTheGoneEnd ==
  \A n \in 1..CliMaxCodes :
    (\E s \in cliStreams : s.device.code = n /\ ~Authorized(s.device))
      ~> (\A s \in cliStreams : s.device.code = n => Authorized(s.device))

\* What the source says beside the deletion: a code is used up by the try that was
\* refused too, "even when it expired or the slot changed while the page was open".
RefusedTryUsesUpTheCode == \A p \in cliPairings : p.code \notin cliTried
=============================================================================

------------------------------ MODULE MCAgents ------------------------------
(* What a slot's agents do for its holder, what the server asks of them, and *)
(* the model requests that come to them, checked in one run: signing the     *)
(* slot in, opening it to the holder's terminals, Claude Code updates,       *)
(* renewing the credential, taking the slot's name, local jobs, model        *)
(* requests over the slot, the connection they share and what is kept of     *)
(* them.  They share no state: `focus`, chosen at the start, is the one that *)
(* moves, and the others stay where they begin.                              *)
EXTENDS SlotLogin, CliAccess, Updates, Renewal, Hostname, LocalJobs, Inference, Transport,
        RelayMetrics, TLC

VARIABLE focus    \* the component that moves

(* Jobs are interchangeable, and so are connections and relays: none is      *)
(* ordered or chosen.  They are the same two values, so one exchange is      *)
(* enough.                                                                   *)
JobSymmetry == Permutations(Jobs \cup InCalls \cup RmRelays)

(* Beside two connections under one account: a lone connection with a longer *)
(* answer, that sees the account change.                                     *)
AloneCall == INSTANCE Inference WITH InCalls <- {"alone"}, InParts <- 2, InMaxChanges <- 2

agentVars == <<loginVars, cliVars, updVars, rnVars, hnVars, jobVars>>

(* A component that never moves begins in one of its initial states.         *)
AgentsInit ==
  /\ focus \in {"login", "terminals", "updates", "renewal", "hostname", "jobs", "calls",
                "call alone", "transport", "counts", "sample"}
  /\ LoginInit /\ CliInit /\ UpdInit /\ RnInit /\ HnInit /\ JobInit /\ TpInit /\ RmInit
  /\ focus # "login" => slotIs = "claimed"
  /\ focus # "updates" => kind = "machine" /\ installed = 1
  /\ focus # "hostname" => hnNode = HnProvider
  /\ IF focus = "call alone" THEN AloneCall!InInit ELSE InInit

AgentsNext ==
  /\ UNCHANGED focus
  /\ \/ focus = "login" /\ LoginNext
        /\ UNCHANGED <<cliVars, updVars, rnVars, hnVars, jobVars, inVars, tpVars, rmVars>>
     \/ focus = "terminals" /\ CliNext
        /\ UNCHANGED <<loginVars, updVars, rnVars, hnVars, jobVars, inVars, tpVars, rmVars>>
     \/ focus = "updates" /\ UpdNext
        /\ UNCHANGED <<loginVars, cliVars, rnVars, hnVars, jobVars, inVars, tpVars, rmVars>>
     \/ focus = "renewal" /\ RnNext
        /\ UNCHANGED <<loginVars, cliVars, updVars, hnVars, jobVars, inVars, tpVars, rmVars>>
     \/ focus = "hostname" /\ HnNext
        /\ UNCHANGED <<loginVars, cliVars, updVars, rnVars, jobVars, inVars, tpVars, rmVars>>
     \/ focus = "jobs" /\ JobNext
        /\ UNCHANGED <<loginVars, cliVars, updVars, rnVars, hnVars, inVars, tpVars, rmVars>>
     \/ focus = "calls" /\ InNext /\ UNCHANGED <<agentVars, tpVars, rmVars>>
     \/ focus = "call alone" /\ AloneCall!InNext /\ UNCHANGED <<agentVars, tpVars, rmVars>>
     \/ focus = "transport" /\ TpNext /\ UNCHANGED <<agentVars, inVars, rmVars>>
     \/ focus = "counts" /\ CountNext /\ UNCHANGED <<agentVars, inVars, tpVars>>
     \/ focus = "sample" /\ SampleNext /\ UNCHANGED <<agentVars, inVars, tpVars>>

AgentsSpec == AgentsInit /\ [][AgentsNext]_<<focus, agentVars, inVars, tpVars, rmVars>>

(* Of the component that moves, that every variable holds what its code may  *)
(* put there; the others are where they began.                               *)
AgentsTypeOK ==
  CASE focus = "login" -> LoginTypeOK
    [] focus = "terminals" -> CliTypeOK
    [] focus = "updates" -> UpdTypeOK
    [] focus = "renewal" -> RnTypeOK
    [] focus = "hostname" -> HnTypeOK
    [] focus = "jobs" -> JobTypeOK
    [] focus = "calls" -> InTypeOK
    [] focus = "call alone" -> AloneCall!InTypeOK
    [] focus = "transport" -> TpTypeOK
    [] focus \in {"counts", "sample"} -> RmTypeOK

(* What keeps a slot running: an update answers its own request and runs     *)
(* once, a renewal's outcome is noted against the file it is about, and the  *)
(* machine resolves its own name and keeps nobody else's.                    *)
UpkeepSound ==
  /\ focus = "updates" => UpdatesSound
  /\ focus = "renewal" => RenewalSound
  /\ focus = "hostname" => HostnameSound

(* A model request, through processes that may each end at any moment, is    *)
(* answered whole, retried only where it cannot have been taken up, leaves   *)
(* neither a process nor a connection behind, and is counted once.           *)
RequestsSound ==
  /\ focus = "calls" => InferenceSound
  /\ focus = "call alone" => AloneCall!InferenceSound
  /\ focus = "transport" => TransportSound
  /\ focus \in {"counts", "sample"} => MetricsSound
=============================================================================

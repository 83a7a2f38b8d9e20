------------------------------- MODULE MCEnds -------------------------------
(* What must sooner or later end, checked in one run: the release of a slot  *)
(* (SlotLifecycle), a terminal's stream (CliAccess) and a local job          *)
(* (LocalJobs).  They share no state:                                        *)
(* `focus`, chosen at the start, is the one that moves, under the fairness   *)
(* its own module states; the others stay where they begin.                  *)
EXTENDS SlotLifecycle, CliAccess, LocalJobs

VARIABLE focus    \* the component that moves

allVars == <<focus, vars, cliVars, jobVars>>

EndsInit ==
  /\ focus \in {"slot", "terminal", "job"}
  /\ Init /\ CliInit /\ JobInit
  \* A slot that never moves begins in one of its initial states.
  /\ focus # "slot" => \A s \in Slots : ~user[s]
  /\ focus # "slot" => \A a \in Accounts : quota[a] = 0

EndsNext ==
  /\ UNCHANGED focus
  /\ \/ focus = "slot" /\ Next /\ UNCHANGED <<cliVars, jobVars>>
     \/ focus = "terminal" /\ CliNext /\ UNCHANGED <<vars, jobVars>>
     \/ focus = "job" /\ JobNext /\ UNCHANGED <<vars, cliVars>>

(* Each module's own fairness, asked of the component that moves.            *)
EndsFairness ==
  /\ \A s \in Slots :
       /\ WF_vars(focus = "slot" /\ machine_payload(s))
       /\ SF_vars(focus = "slot" /\ Deliver(s)) /\ SF_vars(focus = "slot" /\ Reply(s))
       /\ SF_vars(focus = "slot" /\ WipeSucceeds(s))
       /\ SF_vars(focus = "slot" /\ act_on_slots(s)) /\ SF_vars(focus = "slot" /\ write_state(s))
  /\ \A n \in 1..CliMaxCodes : /\ WF_cliVars(focus = "terminal" /\ Dialled(n))
                               /\ WF_cliVars(focus = "terminal" /\ StreamCut(n))
  /\ \A j \in Jobs :
       /\ WF_jobVars(focus = "job" /\ authorize(j)) /\ WF_jobVars(focus = "job" /\ AskAgain(j))
       /\ SF_jobVars(focus = "job" /\ EndOrdered(j))
       /\ WF_jobVars(focus = "job" /\ KillGroup(j)) /\ WF_jobVars(focus = "job" /\ SaveEnd(j))
       /\ WF_jobVars(focus = "job" /\ parent_guard(j)) /\ WF_jobVars(focus = "job" /\ GuardianKills(j))

EndsSpec == EndsInit /\ [][EndsNext]_allVars /\ EndsFairness

(* Nothing outlives its holder's leave: a terminal's stream ends once its    *)
(* device or its slot is gone, and a job once its pairing is.                *)
NothingOutlivesItsHolder == StreamsOfTheGoneEnd /\ UnpairedEnds
=============================================================================

------------------------------ MODULE LocalJobs ------------------------------
(***************************************************************************)
(* Background jobs on a paired computer (ccfleet_agent/local_jobs.py): a   *)
(* detached supervisor runs one foreground Claude command in a process     *)
(* group of its own, asks every few seconds whether the device may still   *)
(* use the slot, and writes the job's record.  Callers start, stop and     *)
(* archive jobs through the records, never through a saved PID: a held     *)
(* run.lock says a supervisor lives, and the record says what it confirmed.*)
(*                                                                         *)
(* A guardian in the command's group reads a pipe whose other end only the *)
(* supervisor holds: when the supervisor dies, however it dies, the        *)
(* guardian kills the group.                                               *)
(***************************************************************************)
EXTENDS Integers, FiniteSets

CONSTANTS
  Jobs,         \* the jobs there may be
  MaxJobs,      \* how many may run at once
  MaxJobFaults  \* bound: kills, reboots, failed kills and failed saves

ASSUME LocalJobsAssumption == IsFiniteSet(Jobs) /\ MaxJobs \in Nat \ {0} /\ MaxJobFaults \in Nat

TERMINAL == {"completed", "failed", "stopped", "timed_out"}
Places == {"none", "torn", "jobs", "archive"}
Up == {"auth", "child", "kill", "save"}

VARIABLES
  \* The job's directory: where it is, the record's state and its word on cleanup.
  place, jobState, confirmed,
  \* The supervisor: where it stands, a stop asked of it, its last answer on
  \* authorization, why it ends, whether its kill of the group went through.
  sup, stopRequested, allowed, ending, cleanup,
  \* The command's process group: the CLI, its guardian, what it left running.
  cli, guardian, others,
  \* Whether the device may use the slot; the bound on faults.
  authorized, jobFaults

jobVars == <<place, jobState, confirmed, sup, stopRequested, allowed, ending, cleanup,
             cli, guardian, others, authorized, jobFaults>>
record == <<place, jobState, confirmed>>
supervisor == <<sup, stopRequested, allowed, ending, cleanup>>
group == <<cli, guardian, others>>
world == <<authorized, jobFaults>>

JobInit ==
  /\ place = [j \in Jobs |-> "none"]
  /\ jobState = [j \in Jobs |-> "starting"] /\ confirmed = [j \in Jobs |-> FALSE]
  /\ sup = [j \in Jobs |-> "none"] /\ stopRequested = [j \in Jobs |-> FALSE]
  /\ allowed = [j \in Jobs |-> "asking"] /\ ending = [j \in Jobs |-> "none"]
  /\ cleanup = [j \in Jobs |-> TRUE]
  /\ cli = [j \in Jobs |-> "none"] /\ guardian = [j \in Jobs |-> FALSE]
  /\ others = [j \in Jobs |-> FALSE]
  /\ authorized = TRUE /\ jobFaults = 0

Fault == jobFaults < MaxJobFaults /\ jobFaults' = jobFaults + 1
Set(f, j, v) == [f EXCEPT ![j] = v]

(* A member of the job's process group still runs.                          *)
Lives(j) == cli[j] \in {"starting", "working"} \/ guardian[j] \/ others[j]

_running(j) == sup[j] \in Up

-----------------------------------------------------------------------------
(* The callers.                                                             *)

(* Mutant: a job whose record is terminal is taken to be over.              *)
JobCounted_unless_terminal(j) == place[j] = "jobs" /\ jobState[j] \notin TERMINAL

(* What the limit counts: all that is not confirmed to be cleaned up.       *)
JobCounted(j) == place[j] = "jobs" /\ ~confirmed[j]

MayStart(j) ==
  /\ place[j] = "none"
  /\ \A k \in Jobs : place[k] # "torn"      \* list_jobs cannot read it
  /\ Cardinality({k \in Jobs : JobCounted(k)}) < MaxJobs

(* Under jobs.lock: counted, recorded, and the supervisor started; or it    *)
(* cannot be started and the record says so.                                *)
start(j) ==
  /\ MayStart(j)
  /\ place' = Set(place, j, "jobs")
  /\ \/ sup' = Set(sup, j, "auth") /\ UNCHANGED <<jobState, confirmed>>
     \/ /\ jobState' = Set(jobState, j, "failed") /\ confirmed' = Set(confirmed, j, TRUE)
        /\ UNCHANGED sup
  /\ UNCHANGED <<stopRequested, allowed, ending, cleanup, group, world>>

(* The caller is killed between making the directory and writing its state, *)
(* or between the state and the supervisor.                                 *)
start_killed(j) ==
  /\ MayStart(j) /\ Fault
  /\ \E p \in {"torn", "jobs"} : place' = Set(place, j, p)
  /\ UNCHANGED <<jobState, confirmed, supervisor, group, authorized>>

(* stop, stop_device, or a start that waited long enough: the supervisor is *)
(* asked over its socket, or by SIGTERM.                                    *)
stop(j) ==
  /\ place[j] = "jobs" /\ _running(j) /\ ~stopRequested[j]
  /\ stopRequested' = Set(stopRequested, j, TRUE)
  /\ UNCHANGED <<record, sup, allowed, ending, cleanup, group, world>>

(* The record of a job that has no supervisor is moved aside; one whose     *)
(* cleanup is not confirmed only on the caller's word that they know.       *)
archive(j) ==
  /\ place[j] = "jobs" /\ ~_running(j)
  /\ place' = Set(place, j, "archive")
  /\ UNCHANGED <<jobState, confirmed, supervisor, group, world>>

Unpair ==
  /\ authorized /\ authorized' = FALSE
  /\ UNCHANGED <<record, supervisor, group, jobFaults>>

-----------------------------------------------------------------------------
(* The supervisor.                                                          *)

(* The question is asked beside the loop; it may fail, or be answered by    *)
(* what held when it was asked.                                             *)
authorize(j) ==
  /\ sup[j] \in {"auth", "child"} /\ allowed[j] = "asking"
  /\ \E answer \in {IF authorized THEN "yes" ELSE "no", "failed"} :
       allowed' = Set(allowed, j, answer)
  /\ UNCHANGED <<record, sup, stopRequested, ending, cleanup, group, world>>

AskAgain(j) ==
  /\ sup[j] \in {"auth", "child"} /\ allowed[j] = "yes"
  /\ allowed' = Set(allowed, j, "asking")
  /\ UNCHANGED <<record, sup, stopRequested, ending, cleanup, group, world>>

Spawn(j) ==
  /\ sup[j] = "auth" /\ allowed[j] = "yes"
  /\ sup' = Set(sup, j, "child") /\ cli' = Set(cli, j, "starting")
  /\ UNCHANGED <<record, stopRequested, allowed, ending, cleanup, guardian, others, world>>

(* The CLI said its guardian is ready: the job is running.                  *)
Handshake(j) ==
  /\ sup[j] = "child" /\ cli[j] \in {"working", "exited"} /\ guardian[j]
  /\ jobState[j] = "starting"
  /\ jobState' = Set(jobState, j, "running")
  /\ UNCHANGED <<place, confirmed, supervisor, group, world>>

EndWith(j, reason) ==
  /\ ending' = Set(ending, j, reason)
  /\ sup' = Set(sup, j, IF cli[j] = "none" THEN "save" ELSE "kill")
  /\ UNCHANGED <<record, stopRequested, allowed, cleanup, group, world>>

(* The loop's reasons to end: stopped, out of time, not allowed or nobody   *)
(* to say so in time, the CLI gone, no guardian, an error.                  *)
End(j) ==
  /\ sup[j] \in {"auth", "child"}
  /\ \/ stopRequested[j] /\ EndWith(j, "stopped")
     \/ EndWith(j, "timed_out")
     \/ allowed[j] \in {"no", "failed", "asking"} /\ EndWith(j, "failed")
     \/ cli[j] = "exited" /\ \E r \in {"completed", "failed"} : EndWith(j, r)
     \/ sup[j] = "child" /\ jobState[j] = "starting" /\ EndWith(j, "failed")

Dead(j) ==
  /\ cli' = Set(cli, j, IF cli[j] = "none" THEN "none" ELSE "exited")
  /\ guardian' = Set(guardian, j, FALSE) /\ others' = Set(others, j, FALSE)

(* Mutant: only the CLI itself is killed, not its group.                    *)
GroupKilled_leader_only(j) == cli' = Set(cli, j, "exited") /\ UNCHANGED <<guardian, others>>

GroupKilled(j) == Dead(j)

(* SIGTERM, a grace, SIGKILL to the whole group, and the leader reaped; or  *)
(* the kill is refused, and the record will say so.                         *)
KillGroup(j) ==
  /\ sup[j] = "kill" /\ sup' = Set(sup, j, "save")
  /\ \/ GroupKilled(j) /\ UNCHANGED <<cleanup, jobFaults>>
     \/ Fault /\ cleanup' = Set(cleanup, j, FALSE) /\ UNCHANGED group
  /\ UNCHANGED <<record, stopRequested, allowed, ending, authorized>>

(* The last word on the job, written whole or not at all; then the lock is  *)
(* let go, and the pipe to the guardian with it.                            *)
SaveEnd(j) ==
  /\ sup[j] = "save" /\ sup' = Set(sup, j, "none")
  /\ \/ /\ jobState' = Set(jobState, j, ending[j])
        /\ confirmed' = Set(confirmed, j, cleanup[j])
        /\ UNCHANGED jobFaults
     \/ Fault /\ UNCHANGED <<jobState, confirmed>>
  /\ UNCHANGED <<place, stopRequested, allowed, ending, cleanup, group, authorized>>

-----------------------------------------------------------------------------
(* The command's group, and the machine.                                    *)

(* The CLI starts its guardian before it does any work, or gives up.        *)
parent_guard(j) ==
  /\ cli[j] = "starting"
  /\ \/ guardian' = Set(guardian, j, TRUE) /\ cli' = Set(cli, j, "working")
     \/ cli' = Set(cli, j, "exited") /\ UNCHANGED guardian
  /\ UNCHANGED <<record, supervisor, others, world>>

LeaveRunning(j) ==
  /\ cli[j] = "working" /\ ~others[j] /\ others' = Set(others, j, TRUE)
  /\ UNCHANGED <<record, supervisor, cli, guardian, world>>

Exit(j) ==
  /\ cli[j] = "working" /\ cli' = Set(cli, j, "exited")
  /\ UNCHANGED <<record, supervisor, guardian, others, world>>

(* Mutant: a guardian whose CLI has gone goes too, and leaves the others.   *)
GuardianKills_of_a_live_cli(j) ==
  /\ guardian[j] /\ ~_running(j) /\ cli[j] # "exited" /\ Dead(j)
  /\ UNCHANGED <<record, supervisor, world>>

(* The guardian reads the end of its pipe and kills its own group.          *)
GuardianKills(j) ==
  /\ guardian[j] /\ ~_running(j) /\ Dead(j)
  /\ UNCHANGED <<record, supervisor, world>>

SupervisorKilled(j) ==
  /\ _running(j) /\ Fault /\ sup' = Set(sup, j, "none")
  /\ UNCHANGED <<record, stopRequested, allowed, ending, cleanup, group, authorized>>

Reboot ==
  /\ Fault
  /\ sup' = [j \in Jobs |-> "none"]
  /\ cli' = [j \in Jobs |-> IF cli[j] = "none" THEN "none" ELSE "exited"]
  /\ guardian' = [j \in Jobs |-> FALSE] /\ others' = [j \in Jobs |-> FALSE]
  /\ UNCHANGED <<record, stopRequested, allowed, ending, cleanup, authorized>>

Supervise(j) ==
  authorize(j) \/ AskAgain(j) \/ Spawn(j) \/ Handshake(j) \/ End(j) \/ KillGroup(j) \/ SaveEnd(j)

JobNext ==
  \/ \E j \in Jobs :
       \/ start(j) \/ start_killed(j) \/ stop(j) \/ archive(j)
       \/ Supervise(j)
       \/ parent_guard(j) \/ LeaveRunning(j) \/ Exit(j) \/ GuardianKills(j)
       \/ SupervisorKilled(j)
  \/ Unpair \/ Reboot

JobSpec == JobInit /\ [][JobNext]_jobVars

(* The job ends because somebody stopped it, or its device may no longer be *)
(* here.                                                                    *)
EndOrdered(j) == (stopRequested[j] \/ allowed[j] \in {"no", "failed"}) /\ End(j)

(* The supervisor's loop and the guardian run on by themselves, and a CLI   *)
(* that started goes on to have its guardian or to end.  Authorization      *)
(* always comes to an answer: one that does not is given up on.             *)
JobFairness == \A j \in Jobs :
  /\ WF_jobVars(authorize(j)) /\ WF_jobVars(AskAgain(j))
  /\ SF_jobVars(EndOrdered(j))
  /\ WF_jobVars(KillGroup(j)) /\ WF_jobVars(SaveEnd(j))
  /\ WF_jobVars(parent_guard(j)) /\ WF_jobVars(GuardianKills(j))

JobFairSpec == JobSpec /\ JobFairness

-----------------------------------------------------------------------------
JobTypeOK ==
  /\ place \in [Jobs -> Places]
  /\ jobState \in [Jobs -> TERMINAL \cup {"starting", "running"}]
  /\ confirmed \in [Jobs -> BOOLEAN]
  /\ sup \in [Jobs -> Up \cup {"none"}]
  /\ allowed \in [Jobs -> {"asking", "yes", "no", "failed"}]
  /\ ending \in [Jobs -> TERMINAL \cup {"none"}]
  /\ cli \in [Jobs -> {"none", "starting", "working", "exited"}]
  /\ guardian \in [Jobs -> BOOLEAN] /\ others \in [Jobs -> BOOLEAN]

(* A record that says the job was cleaned up is true from then on: nothing  *)
(* of its process group runs, whatever was killed, refused or left unsaved. *)
ConfirmedMeansGone == \A j \in Jobs : confirmed[j] => ~Lives(j)

(* No more jobs run than the limit: one whose supervisor was lost, and may  *)
(* still have a process running, keeps its place until somebody archives it.*)
WithinMaxJobs ==
  Cardinality({j \in Jobs : place[j] = "jobs" /\ (_running(j) \/ Lives(j))}) <= MaxJobs

JobsSound == ConfirmedMeansGone /\ WithinMaxJobs

(* Nothing of a job runs on for ever once its device is unpaired: its       *)
(* supervisor ends it, or has died and the guardian does.                   *)
UnpairedEnds == \A j \in Jobs : ~authorized /\ Lives(j) ~> ~Lives(j)
=============================================================================

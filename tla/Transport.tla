------------------------------ MODULE Transport ------------------------------
(***************************************************************************)
(* One SSH connection reused for all of a launcher's requests              *)
(* (inference_client.TransportSession).  The launcher starts a supervisor  *)
(* in a process group of its own, which starts the SSH master there, tells *)
(* of itself over a status pipe, and watches a liveness pipe: when the     *)
(* launcher ends, however it ends, the supervisor takes the group down and *)
(* removes the private directory with the master's socket.                 *)
(*                                                                         *)
(* Launcher, supervisor and master may each die at any moment.  A process  *)
(* id belongs to the group only until its dead leader is reaped; then the  *)
(* system may give it to a stranger's group.                               *)
(***************************************************************************)
EXTENDS Integers

CONSTANT TpMaxChannels   \* bound: channels asked for

ASSUME TransportAssumption == TpMaxChannels \in Nat

VARIABLES
  launcher,     \* where TransportSession is, or that its process was killed
  tpSupervisor, crashed,     \* the supervisor; whether it was killed from outside
  master,       \* the SSH master
  directory, socket,       \* the private directory, and the master's socket in it
  wrote, heard,  \* what the supervisor wrote to its status pipe, and what was read of it
  witnesses,        \* who has seen the socket, and so may remove it
  pgid,         \* whose group the supervisor's process id names
  struck,       \* history: a stranger's group was signalled
  channels

tpVars == <<launcher, tpSupervisor, crashed, master, directory, socket, wrote, heard, witnesses, pgid,
            struck, channels>>

TpInit ==
  /\ launcher = "new" /\ tpSupervisor = "none" /\ crashed = FALSE /\ master = "none"
  /\ directory = FALSE /\ socket = FALSE /\ wrote = {} /\ heard = {} /\ witnesses = {}
  /\ pgid = "none" /\ struck = FALSE /\ channels = 0

Living == tpSupervisor \in {"reading", "running", "ending", "ended"}
Open == launcher \in {"starting", "up", "closing"}    \* the liveness pipe's other end
Pipe == <<wrote, heard>>
Group == <<tpSupervisor, crashed, master, pgid, struck>>
Files == <<directory, socket, witnesses>>

-----------------------------------------------------------------------------
(* The launcher.                                                             *)

(* A private directory, and the supervisor.                                  *)
_launch_supervisor ==
  /\ launcher = "new"
  /\ launcher' = "starting" /\ directory' = TRUE
  /\ tpSupervisor' = "reading" /\ pgid' = "ours"
  /\ UNCHANGED <<crashed, master, socket, Pipe, witnesses, struck, channels>>

_read_status ==
  /\ launcher \in {"starting", "up", "waiting"} /\ heard # wrote
  /\ heard' = wrote
  /\ UNCHANGED <<launcher, Group, Files, wrote, channels>>

(* Never by asking the system: an unreaped child keeps its group's id.       *)
_alive == "ready" \in heard /\ heard \cap {"stopping", "unclean", "eof"} = {}

(* Mutant: polling would reap it.                                            *)
Reaps_if_dead == tpSupervisor = "dead"

Reaps == FALSE

Looked ==
  IF Reaps THEN tpSupervisor' = "reaped" /\ pgid' = "nobody" ELSE UNCHANGED <<tpSupervisor, pgid>>

(* The master answers a command on its socket.                               *)
_control == socket /\ master = "up"

(* Both have seen the socket, the master answers on it, and the supervisor   *)
(* has not said that it is stopping: only now are channels offered.          *)
BecomesReady ==
  /\ launcher = "starting"
  /\ _control /\ "socket" \in heard /\ _alive /\ Looked
  /\ launcher' = "up" /\ witnesses' = witnesses \cup {"launcher"}
  /\ UNCHANGED <<crashed, master, directory, socket, Pipe, struck, channels>>

(* The launcher looks at the socket while it waits, and may give up.         *)
GivesUp ==
  /\ launcher = "starting"
  /\ witnesses' = IF socket THEN witnesses \cup {"launcher"} ELSE witnesses
  /\ launcher' = "closing"
  /\ UNCHANGED <<Group, directory, socket, Pipe, channels>>

(* A channel is opened over the master's socket, or not at all.              *)
command ==
  /\ launcher = "up" /\ channels < TpMaxChannels /\ Looked
  /\ _alive /\ socket /\ channels' = channels + 1
  /\ UNCHANGED <<launcher, crashed, master, Files, Pipe, struck>>

(* close: the master is asked to end, and the liveness pipe is closed.       *)
close_begins == launcher = "up" /\ launcher' = "closing" /\ UNCHANGED <<Group, Files, Pipe, channels>>
close_liveness ==
  /\ launcher = "closing"
  /\ launcher' = "waiting"
  /\ \/ master' = master
     \/ _alive /\ _control /\ master' = "gone"
  /\ UNCHANGED <<tpSupervisor, crashed, pgid, struck, Files, Pipe, channels>>

(* Once cleanup is confirmed, the pipe has ended, or three seconds are over, *)
(* the group is struck for good, before anything of it is reaped.            *)
MasterKilled(g) == IF g = "ours" /\ master = "up" THEN "gone" ELSE master
killpg ==
  /\ launcher = "waiting"
  /\ launcher' = "struck"
  /\ tpSupervisor' = IF pgid = "ours" /\ Living THEN "dead" ELSE tpSupervisor
  /\ master' = MasterKilled(pgid)
  /\ struck' = (struck \/ pgid = "stranger")
  /\ UNCHANGED <<crashed, pgid, Files, Pipe, channels>>

(* What is left of the directory is removed, the socket only if it is the    *)
(* one that was seen.                                                        *)
Removable(who) == ~directory \/ ~socket \/ who \in witnesses

wait ==
  /\ launcher = "struck" /\ tpSupervisor \in {"dead", "reaped"}
  /\ tpSupervisor' = "reaped" /\ pgid' = IF pgid = "ours" THEN "nobody" ELSE pgid
  /\ launcher' = IF Removable("launcher") THEN "closed" ELSE "unconfirmed"
  /\ directory' = IF Removable("launcher") THEN FALSE ELSE directory
  /\ socket' = (socket /\ ~Removable("launcher"))
  /\ UNCHANGED <<crashed, master, Pipe, witnesses, struck, channels>>

-----------------------------------------------------------------------------
(* The supervisor.                                                           *)

LeaderActs == UNCHANGED <<launcher, crashed, pgid, struck, channels, heard>>

(* It reads its command and starts the master in its own group.              *)
_transport_supervisor ==
  /\ tpSupervisor = "reading" /\ Open
  /\ tpSupervisor' = "running" /\ master' = "up" /\ wrote' = wrote \cup {"ready"}
  /\ UNCHANGED Files /\ LeaderActs

SeesSocket ==
  /\ tpSupervisor = "running" /\ socket /\ "supervisor" \notin witnesses
  /\ witnesses' = witnesses \cup {"supervisor"} /\ wrote' = wrote \cup {"socket"}
  /\ UNCHANGED <<tpSupervisor, master, directory, socket>> /\ LeaderActs

(* The launcher or the master is gone, or it is asked to stop: the group is  *)
(* asked to end, and some of it does.                                        *)
Stops ==
  /\ tpSupervisor \in {"reading", "running"}
  /\ tpSupervisor' = "ending" /\ wrote' = wrote \cup {"stopping"}
  /\ \/ master' = master
     \/ master = "up" /\ master' = "gone"
  /\ UNCHANGED Files /\ LeaderActs

_transport_artifacts ==
  /\ tpSupervisor = "ending"
  /\ tpSupervisor' = "ended"
  /\ directory' = IF Removable("supervisor") THEN FALSE ELSE directory
  /\ socket' = (socket /\ ~Removable("supervisor"))
  /\ wrote' = wrote \cup {IF Removable("supervisor") THEN "clean" ELSE "unclean"}
  /\ UNCHANGED <<master, witnesses>> /\ LeaderActs

(* Its last act takes the whole group with it.                               *)
KillsItsGroup ==
  /\ tpSupervisor = "ended"
  /\ tpSupervisor' = "dead" /\ master' = MasterKilled("ours") /\ wrote' = wrote \cup {"eof"}
  /\ UNCHANGED Files /\ LeaderActs

-----------------------------------------------------------------------------
(* The master binds its socket, and may end.                                 *)
Binds ==
  /\ master = "up" /\ directory /\ ~socket
  /\ socket' = TRUE
  /\ UNCHANGED <<launcher, Group, directory, witnesses, Pipe, channels>>

MasterEnds ==
  /\ master = "up"
  /\ master' = "gone" /\ socket' \in {socket, FALSE}
  /\ UNCHANGED <<launcher, tpSupervisor, crashed, pgid, struck, directory, witnesses, Pipe, channels>>

(* Killed from outside: its group lives on.                                  *)
SupervisorDies ==
  /\ Living /\ ~crashed
  /\ tpSupervisor' = "dead" /\ crashed' = TRUE /\ wrote' = wrote \cup {"eof"}
  /\ UNCHANGED <<launcher, master, pgid, struck, Files, heard, channels>>

LauncherDies ==
  /\ launcher \notin {"new", "closed", "unconfirmed", "killed"}
  /\ launcher' = "killed"
  /\ UNCHANGED <<Group, Files, Pipe, channels>>

(* A dead supervisor whose launcher is gone is reaped by the system, and an  *)
(* id that names nobody may be given to a stranger's group.                  *)
ReapedByInit ==
  /\ launcher = "killed" /\ tpSupervisor = "dead"
  /\ tpSupervisor' = "reaped" /\ pgid' = "nobody"
  /\ UNCHANGED <<launcher, crashed, master, struck, Files, Pipe, channels>>

GivenToAStranger ==
  /\ pgid = "nobody" /\ master # "up"
  /\ pgid' = "stranger"
  /\ UNCHANGED <<launcher, tpSupervisor, crashed, master, struck, Files, Pipe, channels>>

TpNext ==
  \/ _launch_supervisor \/ _read_status \/ BecomesReady \/ GivesUp \/ command \/ close_begins \/ close_liveness
  \/ killpg \/ wait
  \/ _transport_supervisor \/ SeesSocket \/ Stops \/ _transport_artifacts \/ KillsItsGroup
  \/ Binds \/ MasterEnds \/ SupervisorDies \/ LauncherDies \/ ReapedByInit \/ GivenToAStranger

-----------------------------------------------------------------------------
(* Every variable holds what the code may put there.                         *)
TpTypeOK ==
  /\ launcher \in {"new", "starting", "up", "closing", "waiting", "struck", "closed",
                   "unconfirmed", "killed"}
  /\ tpSupervisor \in {"none", "reading", "running", "ending", "ended", "dead", "reaped"}
  /\ crashed \in BOOLEAN /\ struck \in BOOLEAN /\ directory \in BOOLEAN /\ socket \in BOOLEAN
  /\ master \in {"none", "up", "gone"}
  /\ heard \subseteq wrote
  /\ wrote \subseteq {"ready", "socket", "stopping", "clean", "unclean", "eof"}
  /\ witnesses \subseteq {"launcher", "supervisor"}
  /\ pgid \in {"none", "ours", "nobody", "stranger"} /\ channels \in 0..TpMaxChannels

(* The launcher's kill never reaches a group that is not its own, however    *)
(* its supervisor ended (close: "never reap before this final signal").      *)
StrikesOnlyItsOwn == ~struck

(* A close that reports nothing left nothing: no master with its connection, *)
(* no supervisor, no socket, no directory.                                   *)
ClosedMeansClean ==
  launcher = "closed" => master # "up" /\ tpSupervisor = "reaped" /\ ~directory /\ ~socket

(* A launcher that was killed takes the connection with it: a supervisor     *)
(* that ended by itself leaves no master behind.                             *)
NoMasterLeftBehind == tpSupervisor \in {"dead", "reaped"} /\ ~crashed => master # "up"

TransportSound == StrikesOnlyItsOwn /\ ClosedMeansClean /\ NoMasterLeftBehind
=============================================================================

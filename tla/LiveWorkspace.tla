---------------------------- MODULE LiveWorkspace ----------------------------
(***************************************************************************)
(* A folder of the holder's computer mounted on the slot                   *)
(* (ccfleet_agent/live_access.py on the slot, live_client.py on the        *)
(* computer, cmd_live of laptop/ccfleet).  The slot's daemon reads file    *)
(* requests from the mount one at a time, numbers each, and relays it over *)
(* an SSH link to the resident connector, which carries it out and answers.*)
(* The link may break at any moment; the connector dials again, and the    *)
(* daemon sends its one open request anew under the same number.           *)
(*                                                                         *)
(* Either end may die anywhere.  The `instance` file marks the connector   *)
(* a daemon was started for; only an explicit stop removes it: the         *)
(* computer's once its connector has ended, or the agent's, for a change   *)
(* of account, under a connector that goes on and dials again.  Requests   *)
(* and executions are told apart by the number of the request, whatever    *)
(* the packet says; two requests may be the same bytes.                    *)
(***************************************************************************)
EXTENDS Integers, Sequences, FiniteSets

CONSTANTS
  LvMaxInstances,  \* bound: connectors started
  LvMaxRequests,   \* bound: requests the mount makes
  LvWindow         \* the replies a connector remembers (32 in the code)

ASSUME LiveAssumption ==
  LvMaxInstances \in Nat /\ LvMaxRequests \in Nat /\ LvWindow \in Nat \ {0}

VARIABLES
  connector,   \* the resident on the computer: its instance, and what it carried out
  daemon,      \* the supervisor on the slot; `anew` (history): its connector has had
               \* another one, whose mark was cleared
  marked,      \* the instance in the slot's `instance` file, 0 without one
  mount,       \* whether the folder is mounted on the slot
  dials,       \* `link` processes on the slot that have not attached yet
  request,     \* on the link: a request, or its reply
  stopping,    \* a cleanup under way on the slot
  opening,     \* whether a terminal passed the check before it opens a session
  pane,        \* the live session's tmux pane
  stopped,     \* whether the computer was told that access ended
  asked, ran, told,  \* history: requests made, times each was carried out, replies given
  unmarked,    \* history: connectors whose mark was cleared while they went on
  renumbered,  \* history: requests numbered by a daemon started anew for such a one
  instances

lvMain == <<connector, daemon, marked, mount, dials, request, stopping>>
lvSession == <<opening, pane>>
lvHistory == <<asked, ran, told, unmarked, renumbered>>
lvVars == <<lvMain, lvSession, stopped, lvHistory, instances>>

Instances == 1..LvMaxInstances
Requested == 1..LvMaxRequests

Resident(at, i, done) == [at |-> at, instance |-> i, done |-> done]
NoResident == Resident("off", 0, <<>>)
NoDaemon == [on |-> FALSE, instance |-> 0, sequence |-> 0, pending |-> 0, anew |-> FALSE]
Quietly == [kind |-> "none", sequence |-> 0, of |-> 0]
NoStop == [at |-> 0, daemon |-> FALSE, by |-> "failure", good |-> TRUE]

Linked == connector.at = "linked"
Serving == daemon.on /\ ~(stopping.at # 0 /\ stopping.daemon)

LvInit ==
  /\ connector = NoResident /\ daemon = NoDaemon /\ marked = 0 /\ mount = FALSE
  /\ dials = {} /\ request = Quietly /\ stopping = NoStop
  /\ opening = FALSE /\ pane = "none" /\ stopped = TRUE
  /\ asked = 0 /\ ran = [o \in Requested |-> 0] /\ told = [o \in Requested |-> 0]
  /\ unmarked = {} /\ renumbered = {} /\ instances = 0

(* The connector loses its link, and dials again.                            *)
Unlinked == IF Linked THEN [connector EXCEPT !.at = "waiting"] ELSE connector

-----------------------------------------------------------------------------
(* The computer.  One connector at a time, by its lock; a new one is a new   *)
(* instance, with no memory.  Who starts one waits no longer for a stop that  *)
(* was asked for before.                                                     *)
start_local_connector ==
  /\ connector.at = "off" /\ instances < LvMaxInstances
  /\ instances' = instances + 1 /\ stopped' = FALSE
  /\ connector' = Resident("waiting", instances + 1, <<>>)
  /\ stopping' = IF stopping.by = "computer" THEN [stopping EXCEPT !.by = "abandoned"] ELSE stopping
  /\ UNCHANGED <<daemon, marked, mount, dials, request, lvSession, lvHistory>>

dial ==
  /\ connector.at = "waiting"
  /\ connector' = [connector EXCEPT !.at = "dialing"]
  /\ dials' = dials \cup {[instance |-> connector.instance, heard |-> TRUE]}
  /\ UNCHANGED <<daemon, marked, mount, request, stopping, lvSession, stopped, lvHistory, instances>>

Unheard == {[d EXCEPT !.heard = FALSE] : d \in dials}

(* The SSH child dies.  Its process on the slot may go on for a while.       *)
link_breaks ==
  /\ connector.at \in {"dialing", "linked"}
  /\ connector' = [connector EXCEPT !.at = "waiting"]
  /\ request' = Quietly
  /\ dials' \in {Unheard, {}}
  /\ UNCHANGED <<daemon, marked, mount, stopping, lvSession, stopped, lvHistory, instances>>

(* Killed, told to stop, its pairing gone: the lock is free again.           *)
connector_ends ==
  /\ connector.at # "off" /\ connector' = NoResident /\ request' = Quietly
  /\ dials' \in {Unheard, {}}
  /\ UNCHANGED <<daemon, marked, mount, stopping, lvSession, stopped, lvHistory, instances>>

(* A request it remembers is answered from memory if the bytes are the same  *)
(* (two requests may be), and ends the connector if not; the next one is     *)
(* carried out; any other number means that one was lost.                    *)
answer ==
  LET s == request.sequence
      done == connector.done
  IN /\ Linked /\ request.kind = "request"
     /\ \/ /\ s \in (Len(done) - LvWindow + 1)..Len(done)
           /\ request' = [kind |-> "reply", sequence |-> s, of |-> done[s]]
           /\ UNCHANGED <<connector, ran>>
        \/ /\ s \in (Len(done) - LvWindow + 1)..Len(done) /\ done[s] # request.of
           /\ connector' = NoResident /\ request' = Quietly /\ UNCHANGED ran
        \/ /\ s = Len(done) + 1
           /\ ran' = [ran EXCEPT ![request.of] = @ + 1]
           /\ connector' = [connector EXCEPT !.done = Append(done, request.of)]
           /\ request' = [request EXCEPT !.kind = "reply"]
        \/ /\ s \notin (Len(done) - LvWindow + 1)..Len(done) + 1
           /\ connector' = NoResident /\ request' = Quietly /\ UNCHANGED ran
     /\ UNCHANGED <<daemon, marked, mount, dials, stopping, lvSession, stopped, asked, told, unmarked,
                    renumbered, instances>>

-----------------------------------------------------------------------------
(* The slot.  A link process finds the daemon or starts one, under a lock;   *)
(* a marker or a mount of an earlier one is for an explicit stop to clear.   *)
Forget(d) ==
  /\ dials' = dials \ {d}
  /\ connector' = IF d.heard /\ connector.at = "dialing" THEN NoResident ELSE connector

LeftOver == marked # 0 \/ mount

ensure_daemon(d) ==
  /\ d \in dials /\ ~daemon.on
  /\ IF LeftOver
     THEN Forget(d) /\ UNCHANGED <<daemon, marked>>
     ELSE /\ daemon' = [on |-> TRUE, instance |-> d.instance, sequence |-> 0, pending |-> 0,
                        anew |-> d.instance \in unmarked]
          /\ marked' = d.instance /\ UNCHANGED <<dials, connector>>
  /\ UNCHANGED <<mount, request, stopping, lvSession, stopped, lvHistory, instances>>

(* Mutant: whoever dials is served.                                          *)
Owns_anyone(i) == TRUE

(* Only the connector the daemon was started for is served by it.            *)
Owns(i) == i = daemon.instance

(* A later link takes over from an earlier one; one that nobody hears ends   *)
(* as soon as it is attached.                                                *)
attach(d) ==
  /\ d \in dials /\ daemon.on
  /\ IF Serving /\ Owns(d.instance)
     THEN /\ dials' = dials \ {d} /\ request' = Quietly
          /\ connector' = IF d.heard /\ connector.at = "dialing"
                          THEN [connector EXCEPT !.at = "linked"] ELSE Unlinked
     ELSE Forget(d) /\ UNCHANGED request
  /\ UNCHANGED <<daemon, marked, mount, stopping, lvSession, stopped, lvHistory, instances>>

(* The mount asks: its greeting before it is mounted, then what is done in   *)
(* it.  One request is open at a time.                                       *)
read_packet ==
  /\ Serving /\ daemon.pending = 0 /\ asked < LvMaxRequests
  /\ mount \/ daemon.sequence = 0
  /\ asked' = asked + 1
  /\ daemon' = [daemon EXCEPT !.sequence = @ + 1, !.pending = asked + 1]
  /\ renumbered' = IF daemon.anew THEN renumbered \cup {asked + 1} ELSE renumbered
  /\ UNCHANGED <<connector, marked, mount, dials, request, stopping, lvSession, stopped, ran, told,
                 unmarked, instances>>

send ==
  /\ Serving /\ daemon.pending # 0 /\ Linked /\ request = Quietly
  /\ request' = [kind |-> "request", sequence |-> daemon.sequence, of |-> daemon.pending]
  /\ UNCHANGED <<connector, daemon, marked, mount, dials, stopping, lvSession, stopped, lvHistory,
                 instances>>

(* The reply of the open request's number goes to the mount.                 *)
receive ==
  /\ Serving /\ request.kind = "reply" /\ request.sequence = daemon.sequence
  /\ request' = Quietly /\ daemon' = [daemon EXCEPT !.pending = 0]
  /\ told' = [told EXCEPT ![daemon.pending] = request.of]
  /\ UNCHANGED <<connector, marked, mount, dials, stopping, lvSession, stopped, asked, ran, unmarked,
                 renumbered, instances>>

mounts ==
  /\ Serving /\ ~mount /\ daemon.sequence > 0 /\ daemon.pending = 0
  /\ mount' = TRUE
  /\ UNCHANGED <<connector, daemon, marked, dials, request, stopping, lvSession, stopped, lvHistory,
                 instances>>

(* The daemon, or the whole slot, is killed: nothing is cleaned up.          *)
daemon_dies ==
  /\ daemon.on /\ daemon' = NoDaemon
  /\ mount' \in {mount, FALSE} /\ pane' \in {pane, "none"}
  /\ connector' = Unlinked /\ request' = Quietly
  /\ stopping' = IF stopping.daemon THEN NoStop ELSE stopping
  /\ UNCHANGED <<marked, dials, opening, stopped, lvHistory, instances>>

-----------------------------------------------------------------------------
(* Stopping: by the computer, once its own connector has ended; by the       *)
(* daemon itself when its mount fails or the account changes; by the agent   *)
(* for an account change (_stop-all), whatever the connector does.           *)
ComputerMayStop == connector.at = "off"

Stoppers == {"computer", "failure", "agent"}

stop_begins ==
  /\ stopping.at = 0
  /\ \E by \in Stoppers :
       /\ by = "computer" => ComputerMayStop
       /\ by = "failure" => daemon.on
       /\ stopping' = [NoStop EXCEPT !.at = 1, !.daemon = daemon.on, !.by = by]
  /\ IF daemon.on THEN connector' = Unlinked /\ request' = Quietly
                  ELSE UNCHANGED <<connector, request>>
  /\ UNCHANGED <<daemon, marked, mount, dials, lvSession, stopped, lvHistory, instances>>

(* What a cleanup does, in this order: unmounting fails or not, and so may   *)
(* ending a session; the rest is done all the same.                          *)
CleanupSteps == <<"unmount", "sessions", "marker">>

Cleans(step) == stopping.at \in 1..3 /\ CleanupSteps[stopping.at] = step

cleanup_unmounts ==
  /\ Cleans("unmount") /\ mount' \in {FALSE, mount}
  /\ stopping' = [stopping EXCEPT !.at = @ + 1, !.good = ~mount']
  /\ UNCHANGED <<connector, daemon, marked, dials, request, lvSession, stopped, lvHistory, instances>>

cleanup_ends_sessions ==
  /\ Cleans("sessions") /\ pane' \in {"none", pane}
  /\ stopping' = [stopping EXCEPT !.at = @ + 1, !.good = @ /\ pane' = "none" /\ ~mount]
  /\ UNCHANGED <<connector, daemon, marked, mount, dials, request, opening, stopped, lvHistory,
                 instances>>

(* Only an explicit stop forgets whom the daemon was for.  Its answer may be *)
(* lost; the computer then asks again.                                       *)
cleanup_ends ==
  /\ Cleans("marker") /\ stopping' = NoStop
  /\ IF stopping.good /\ stopping.by # "failure"
     THEN marked' = 0 /\ unmarked' = unmarked \cup ({marked} \cap {connector.instance})
     ELSE UNCHANGED <<marked, unmarked>>
  /\ daemon' = IF stopping.daemon THEN NoDaemon ELSE daemon
  /\ stopped' \in {stopped, stopped \/ (stopping.good /\ stopping.by = "computer")}
  /\ UNCHANGED <<connector, mount, dials, request, lvSession, asked, ran, told, renumbered,
                 instances>>

-----------------------------------------------------------------------------
(* A session: the check, the pane, Claude's own check inside it, the folder  *)
(* entered and seen to be mounted.                                           *)
Ready == mount /\ Serving /\ Linked

open_live_session ==
  /\ Ready /\ ~opening /\ opening' = TRUE
  /\ UNCHANGED <<lvMain, pane, stopped, lvHistory, instances>>

new_live_session ==
  /\ opening /\ opening' = FALSE
  /\ pane' = IF pane = "none" THEN "new" ELSE pane
  /\ UNCHANGED <<lvMain, stopped, lvHistory, instances>>

run_claude ==
  /\ \/ pane = "new" /\ pane' = IF Ready THEN "checked" ELSE "none"
     \/ pane = "checked" /\ pane' = IF mount THEN "claude" ELSE "none"
     \/ pane = "claude" /\ pane' = "none"
  /\ UNCHANGED <<lvMain, opening, stopped, lvHistory, instances>>

LvNext ==
  \/ start_local_connector \/ dial \/ link_breaks \/ connector_ends \/ answer
  \/ \E d \in dials : ensure_daemon(d) \/ attach(d)
  \/ read_packet \/ send \/ receive \/ mounts \/ daemon_dies
  \/ stop_begins \/ cleanup_unmounts \/ cleanup_ends_sessions \/ cleanup_ends
  \/ open_live_session \/ new_live_session \/ run_claude

LvSpec == LvInit /\ [][LvNext]_lvVars

-----------------------------------------------------------------------------
LvTypeOK ==
  /\ connector.at \in {"off", "waiting", "dialing", "linked"}
  /\ connector.instance \in 0..LvMaxInstances /\ connector.done \in Seq(Requested)
  /\ daemon.on \in BOOLEAN /\ daemon.instance \in 0..LvMaxInstances
  /\ daemon.sequence \in 0..LvMaxRequests /\ daemon.pending \in 0..LvMaxRequests
  /\ daemon.anew \in BOOLEAN /\ unmarked \subseteq 0..LvMaxInstances
  /\ renumbered \subseteq Requested
  /\ marked \in 0..LvMaxInstances /\ mount \in BOOLEAN
  /\ dials \subseteq [instance : Instances, heard : BOOLEAN]
  /\ request.kind \in {"none", "request", "reply"} /\ request.of \in 0..LvMaxRequests
  /\ stopping.at \in 0..3 /\ opening \in BOOLEAN /\ stopped \in BOOLEAN
  /\ pane \in {"none", "new", "checked", "claude"}
  /\ asked \in 0..LvMaxRequests /\ instances \in 0..LvMaxInstances
  /\ ran \in [Requested -> 0..2] /\ told \in [Requested -> 0..LvMaxRequests]

(* A write is carried out once, however often its link broke, whichever end  *)
(* started anew.                                                             *)
CarriedOutOnce == \A o \in Requested : ran[o] <= 1

(* What the mount is told of a request is what carrying out that very        *)
(* request gave, never what an earlier one of the same number did.  So says  *)
(* shutdown: "Keep the binding as a stale marker until an explicit stop      *)
(* acknowledges the reset; never replay from sequence one on a resident      *)
(* client." (live_access.py:387-389); but the agent's stop for a change of   *)
(* account is explicit too, and its connector goes on.                       *)
TruthfulReplies == \A o \in Requested : told[o] \in {0, o}

(* So it is for every request but those numbered anew for a connector whose  *)
(* mark an explicit stop cleared under it: whatever broke, died, or was      *)
(* stopped, killed and started again otherwise.                              *)
TruthfulWhileMarked == \A o \in Requested : told[o] \in {0, o} \/ o \in renumbered

(* Once the computer was told that access ended nothing is mounted, no       *)
(* Claude works in the folder, and nobody carries anything out.              *)
StoppedIsStopped == stopped => ~mount /\ pane # "claude" /\ connector.at = "off"

LiveSound == CarriedOutOnce /\ TruthfulWhileMarked /\ StoppedIsStopped
=============================================================================

------------------------------ MODULE Hostname ------------------------------
(* A shared machine takes the name the server's last reply gave it           *)
(* (ccfleet_agent/machine.py: converge_name).  /etc/hosts is replaced whole  *)
(* or not at all; the agent, which runs as root, may be killed between any   *)
(* two steps and the machine may restart.                                    *)
EXTENDS Integers

CONSTANTS
  HnNames,       \* hostnames
  HnProvider,    \* the one the machine came with
  HnMaxRuns      \* bound: runs of the agent, and changes of the node's id

ASSUME HostnameAssumption == HnProvider \in HnNames /\ HnMaxRuns \in Nat

VARIABLES
  hnNode,        \* the agent's configured node id
  hnName,        \* the name the kernel answers with
  hnHosts,       \* the names on the 127.0.1.1 line of /etc/hosts
  hnKept,        \* cloud-init is told to leave both alone
  hnTold,        \* the name the reply of this run, or the last, gave
  hnWas,         \* the name the machine had as this run began
  hnAt,          \* where the run stands
  hnCut,         \* ghost: hostnamectl was cut off after it took the name
  hnDone,        \* ghost: the last run that was told a name saw it through
  hnRuns         \* runs so far

hnVars == <<hnNode, hnName, hnHosts, hnKept, hnTold, hnWas, hnAt, hnCut, hnDone, hnRuns>>

HnInit ==
  /\ hnNode \in HnNames /\ hnName = HnProvider /\ hnHosts = {HnProvider}
  /\ hnKept = FALSE /\ hnTold = HnProvider /\ hnWas = HnProvider
  /\ hnAt = "idle" /\ hnCut = FALSE /\ hnDone = FALSE /\ hnRuns = 0

-----------------------------------------------------------------------------
(* What /etc/hosts names while the machine is between two names.             *)
HostsMeanwhile == {hnTold', hnNode, hnName}

\* A run begins with a name from the reply.  A hosts file that cannot be read or
\* written ends it; a name the machine has already needs only the tidying.
BeginNaming(name) ==
  /\ hnAt = "idle" /\ hnRuns < HnMaxRuns
  /\ hnTold' = name /\ hnWas' = hnName /\ hnDone' = FALSE /\ hnRuns' = hnRuns + 1
  /\ \/ UNCHANGED <<hnHosts, hnAt, hnCut>>
     \/ hnName = name /\ hnAt' = "named" /\ UNCHANGED <<hnHosts, hnCut>>
     \/ /\ hnName # name
        /\ hnHosts' = HostsMeanwhile /\ hnAt' = "naming" /\ hnCut' = FALSE
  /\ UNCHANGED <<hnNode, hnName, hnKept>>

SetHostname ==
  /\ hnAt = "naming"
  /\ hnName' = hnTold /\ hnAt' = "named"
  /\ UNCHANGED <<hnNode, hnHosts, hnKept, hnTold, hnWas, hnCut, hnDone, hnRuns>>

\* hostnamectl failed, or ran out of its time having taken the name or not.
set_hostname_fails ==
  /\ hnAt = "naming" /\ hnAt' = "refused"
  /\ \/ UNCHANGED <<hnName, hnCut>>
     \/ hnName' = hnTold /\ hnCut' = TRUE
  /\ UNCHANGED <<hnNode, hnHosts, hnKept, hnTold, hnWas, hnDone, hnRuns>>

\* The name it could not take does not stay in a file every slot can read.
PutBack ==
  /\ hnAt = "refused" /\ hnAt' = "idle"
  /\ hnHosts' \in {hnHosts, {hnWas, hnNode}}
  /\ UNCHANGED <<hnNode, hnName, hnKept, hnTold, hnWas, hnCut, hnDone, hnRuns>>

\* The last name goes from /etc/hosts, and then cloud-init is told; a failure of
\* either is left to the next run.
Tidy ==
  /\ hnAt = "named" /\ hnAt' = "idle"
  /\ \/ UNCHANGED <<hnHosts, hnKept, hnDone, hnCut>>
     \/ /\ hnHosts' = {hnTold, hnNode} /\ hnCut' = FALSE
        /\ \/ hnKept' = TRUE /\ hnDone' = TRUE
           \/ UNCHANGED <<hnKept, hnDone>>
  /\ UNCHANGED <<hnNode, hnName, hnTold, hnWas, hnRuns>>

\* The operator gave the node another id, and the machine its configuration.
RenameNode(node) ==
  /\ hnAt = "idle" /\ hnRuns < HnMaxRuns
  /\ hnNode' = node /\ hnDone' = FALSE /\ hnRuns' = hnRuns + 1
  /\ UNCHANGED <<hnName, hnHosts, hnKept, hnTold, hnWas, hnAt, hnCut>>

Killed ==
  /\ hnAt # "idle" /\ hnAt' = "idle"
  /\ UNCHANGED <<hnNode, hnName, hnHosts, hnKept, hnTold, hnWas, hnCut, hnDone, hnRuns>>

\* cloud-init puts the provider's name back, in both places, unless told not to.
Restarts ==
  /\ hnAt' = "idle"
  /\ IF hnKept THEN UNCHANGED <<hnName, hnHosts, hnCut>>
     ELSE hnName' = HnProvider /\ hnHosts' = {HnProvider} /\ hnCut' = FALSE
  /\ UNCHANGED <<hnNode, hnKept, hnTold, hnWas, hnDone, hnRuns>>

HnNext ==
  \/ \E n \in HnNames : BeginNaming(n) \/ RenameNode(n)
  \/ SetHostname \/ set_hostname_fails \/ PutBack \/ Tidy \/ Killed \/ Restarts

HnSpec == HnInit /\ [][HnNext]_hnVars

-----------------------------------------------------------------------------
HnTypeOK ==
  /\ {hnNode, hnName, hnTold, hnWas} \subseteq HnNames /\ hnHosts \subseteq HnNames
  /\ hnAt \in {"idle", "naming", "refused", "named"}
  /\ {hnKept, hnCut, hnDone} \subseteq BOOLEAN /\ hnRuns \in 0..HnMaxRuns

(* Whatever fails or is cut short, /etc/hosts names what the machine answers *)
(* to, or sudo breaks: but for a hostnamectl that took the name and was      *)
(* counted as failed, until the next run.                                    *)
NameResolves == hnName \in hnHosts \/ hnCut

(* Once a run has seen the name through, nobody else's name is left on the   *)
(* machine, and a restart brings none back.                                  *)
NothingLeftBehind == hnDone => hnName = hnTold /\ hnHosts = {hnName, hnNode} /\ hnKept

HostnameSound == NameResolves /\ NothingLeftBehind
=============================================================================

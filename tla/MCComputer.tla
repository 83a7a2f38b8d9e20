----------------------------- MODULE MCComputer -----------------------------
(* What a holder's computer has of the service and opens to a slot, and the  *)
(* native agent that works for a caller, checked in one run: shared          *)
(* projects, the client's own releases, a mounted folder and the server of   *)
(* its files, requests to the native agent.  They share no state: `focus`,   *)
(* chosen at the start, is the one that moves, and the others stay where     *)
(* they begin.                                                               *)
EXTENDS Projects, ClientRelease, LiveWorkspace, LiveFiles, NativeStep, TLC

VARIABLE focus    \* the component that moves

(* Computers are interchangeable, and so are handles, the runners of         *)
(* commands and requests: none is ordered or chosen.  They are the same two  *)
(* values, so one exchange is enough.                                        *)
Interchangeable == Permutations(PrLaptops \cup LfHandles \cup CrRunners \cup NsRequests)

(* A release and two builds of the next.                                     *)
Published == {<<1, "a">>, <<2, "a">>, <<2, "b">>}

(* The mounted folder: two connectors in turn without a session, and one     *)
(* with sessions and more requests.                                          *)
WithoutSessions == ~opening' /\ asked' <= 2
OneConnector == instances' <= 1

(* Beside two workers for one request or two, under a grant that stays: a    *)
(* lone worker that sees it change.                                          *)
AloneRequest == INSTANCE NativeStep WITH NsMaxRuns <- 1, NsMaxGrants <- 3

(* A component that never moves begins in one of its initial states.         *)
ComputerInit ==
  /\ focus \in {"projects", "release", "live", "live alone", "files", "native", "native alone"}
  /\ PrInit /\ CrInit /\ LvInit /\ LfInit /\ NsInit
  /\ focus # "release" => crLauncher.current = Legacy
  /\ focus # "files" => entry[<<Root, CHOOSE n \in LfNames : TRUE>>] = 1

ComputerNext ==
  /\ UNCHANGED focus
  /\ \/ focus = "projects" /\ PrNext /\ UNCHANGED <<crVars, lvVars, lfVars, nsVars>>
     \/ focus = "release" /\ CrNext /\ UNCHANGED <<prVars, lvVars, lfVars, nsVars>>
     \/ focus = "live" /\ LvNext /\ WithoutSessions /\ UNCHANGED <<prVars, crVars, lfVars, nsVars>>
     \/ focus = "live alone" /\ LvNext /\ OneConnector /\ UNCHANGED <<prVars, crVars, lfVars, nsVars>>
     \/ focus = "files" /\ LfNext /\ UNCHANGED <<prVars, crVars, lvVars, nsVars>>
     \/ focus = "native" /\ NsNext /\ UNCHANGED <<prVars, crVars, lvVars, lfVars>>
     \/ focus = "native alone" /\ AloneRequest!NsNext /\ UNCHANGED <<prVars, crVars, lvVars, lfVars>>

ComputerSpec == ComputerInit /\ [][ComputerNext]_<<focus, prVars, crVars, lvVars, lfVars, nsVars>>

(* Of the component that moves, that every variable holds what its code may  *)
(* put there; the others are where they began.                               *)
ComputerTypeOK ==
  CASE focus = "projects" -> PrTypeOK
    [] focus = "release" -> CrTypeOK
    [] focus \in {"live", "live alone"} -> LvTypeOK
    [] focus = "files" -> LfTypeOK
    [] focus = "native" -> NsTypeOK
    [] focus = "native alone" -> AloneRequest!NsTypeOK

(* What the service keeps on a holder's computers: a shared project's files  *)
(* and the client itself are replaced whole or not at all, and nothing newer *)
(* is replaced by something older, nor anything changed meanwhile - but for  *)
(* a file written while the copy that replaces it is (NothingLost).          *)
CopiesSound ==
  /\ focus = "projects" => ProjectsSound
  /\ focus = "release" => ReleaseSound

(* What of a computer is open to the slot: its mounted folder is served      *)
(* once, until it is told to end, and no more than the folder; and           *)
(* truthfully, unless the agent clears its mark under it.                    *)
MountSound ==
  /\ focus \in {"live", "live alone"} => LiveSound
  /\ focus = "files" => LiveFilesSound

(* The native agent is asked once for a turn, nothing of an attempt is left  *)
(* when it is answered for, and no call it published is overlooked.          *)
RequestSound == focus \in {"native", "native alone"} => NativeSound
=============================================================================

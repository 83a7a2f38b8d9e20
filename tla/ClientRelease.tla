---------------------------- MODULE ClientRelease ----------------------------
(***************************************************************************)
(* Releases of the client on a holder's computer                           *)
(* (ccfleet_agent/client_release.py).  A release is a directory of its     *)
(* own, written beside the others and never changed; the launcher, one     *)
(* small file, says which runs, which to go back to, and the highest ever  *)
(* installed.  Commands take a lock, but look at the launcher before it.   *)
(*                                                                         *)
(* A command may be killed at any step, the disk may fail it, and the      *)
(* power may go: then what was renamed but not yet synced may be there or  *)
(* not.  What a release contains is left out: a bundle that is not whole,  *)
(* or not signed, is refused before anything is written.                   *)
(***************************************************************************)
EXTENDS Integers, FiniteSets

CONSTANTS
  CrReleases,     \* releases ever published: <<version, build>>
  CrRunners,      \* who may run a command at the same time
  CrMaxRuns,      \* bound: commands begun
  CrMaxFaults,    \* bound: kills, power cuts and disk errors
  CrOneJournal    \* whether a rename that survives brings the older ones with it

ASSUME ReleaseAssumption ==
  /\ \A r \in CrReleases : r[1] \in Nat \ {0}
  /\ CrMaxRuns \in Nat /\ CrMaxFaults \in Nat /\ CrOneJournal \in BOOLEAN

VARIABLES
  crLauncher,    \* the file `ccfleet`, and, as history, the command that put it there
  crOnDisk,      \* the launchers the power may leave, each with the releases there when it was put
  crStored,      \* the releases in .ccfleet-releases
  crSynced,      \* those that survive the power
  crLock,        \* the command that holds .lock, 0 for none
  crRun,         \* the command each runner is at
  crTold,        \* history: what each finished command said
  crInstalled,   \* history: releases whose installation was reported
  crRuns, crFaults

crFiles == <<crLauncher, crOnDisk, crStored, crSynced>>
crVars == <<crFiles, crLock, crRun, crTold, crInstalled, crRuns, crFaults>>

Legacy == <<0, "legacy">>
NoRelease == <<0, "none">>
Identifiers == CrReleases \cup {Legacy}
Launcher(current, previous, highest, by) ==
  [current |-> current, previous |-> previous, highest |-> highest, by |-> by]
Unmanaged == {Launcher(r, NoRelease, NoRelease, 0) : r \in {NoRelease, Legacy}}
managed == crLauncher.highest # NoRelease
NotRunning == [at |-> "idle", n |-> 0, id |-> NoRelease, was |-> Launcher(NoRelease, NoRelease, NoRelease, 0)]

CrInit ==
  /\ crLauncher \in Unmanaged /\ crOnDisk = {<<crLauncher, {}>>}
  /\ crStored = {} /\ crSynced = {} /\ crLock = 0
  /\ crRun = [x \in CrRunners |-> NotRunning]
  /\ crTold = [n \in 1..CrMaxRuns |-> "nothing"] /\ crInstalled = {} /\ crRuns = 0 /\ crFaults = 0

(* What is there of a release is looked at, file by file, before it is used. *)
_stored(ids) == ids \subseteq crStored

(* Neither older than the highest installed, nor another of its version.     *)
_newer(id) ==
  managed => /\ _stored({crLauncher.highest})
             /\ id[1] > crLauncher.highest[1] \/ id = crLauncher.highest

MayInstall(id) == _newer(id) /\ (managed => _stored({crLauncher.current}))
MayGoBack ==
  managed /\ crLauncher.previous # NoRelease /\ _stored({crLauncher.previous, crLauncher.highest})

Goes(x, place) == crRun' = [crRun EXCEPT ![x].at = place]
Faulty == crFaults < CrMaxFaults /\ crFaults' = crFaults + 1
Says(x, what) ==
  /\ crTold' = [crTold EXCEPT ![crRun[x].n] = what]
  /\ crInstalled' = IF what = "installed" THEN crInstalled \cup {crRun[x].id} ELSE crInstalled
  /\ crRun' = [crRun EXCEPT ![x] = NotRunning]
  /\ crLock' = IF crLock = crRun[x].n THEN 0 ELSE crLock

-----------------------------------------------------------------------------
BeginsCommand(x, what) ==
  /\ crRun[x].at = "idle" /\ crRuns < CrMaxRuns /\ crRuns' = crRuns + 1
  /\ crRun' = [crRun EXCEPT ![x] = [NotRunning EXCEPT !.at = what, !.n = crRuns + 1]]
  /\ UNCHANGED <<crFiles, crLock, crTold, crInstalled, crFaults>>

install(x) == BeginsCommand(x, "fetch")
begin_rollback(x) == BeginsCommand(x, "rollback")

(* The channel names a release: an old answer may name an old one, which is  *)
(* refused at once if the launcher, as it now is, is past its version.       *)
resolve_channel(x) ==
  /\ crRun[x].at = "fetch"
  /\ \E id \in CrReleases :
       /\ managed => _stored({crLauncher.highest}) /\ id[1] >= crLauncher.highest[1]
       /\ crRun' = [crRun EXCEPT ![x].at = "fetched", ![x].id = id]
  /\ UNCHANGED <<crFiles, crLock, crTold, crInstalled, crRuns, crFaults>>

(* Whoever does not get the lock gives up.                                   *)
_installation(x) ==
  /\ crRun[x].at \in {"fetched", "rollback"} /\ crLock = 0 /\ crLock' = crRun[x].n
  /\ Goes(x, IF crRun[x].at = "fetched" THEN "check" ELSE "swap")
  /\ UNCHANGED <<crFiles, crTold, crInstalled, crRuns, crFaults>>

(* Nothing to fetch: offline, expired, or not signed, not whole, not the     *)
(* release the channel named.                                                *)
verify_bundle(x) ==
  /\ crRun[x].at \in {"fetch", "fetched"} /\ Says(x, "failed")
  /\ UNCHANGED <<crFiles, crRuns, crFaults>>

(* Refused: another command runs, a downgrade, nothing to go back to, or     *)
(* what is there is not whole.                                               *)
refused(x) ==
  /\ \/ crRun[x].at \in {"fetched", "rollback"} /\ crLock # 0
     \/ crRun[x].at = "check" /\ ~MayInstall(crRun[x].id)
     \/ crRun[x].at = "swap" /\ ~MayGoBack
  /\ Says(x, "failed")
  /\ UNCHANGED <<crFiles, crRuns, crFaults>>

(* The launcher names it already: nothing is synced anew.                    *)
AlreadyRuns(x) ==
  /\ crRun[x].at = "check" /\ MayInstall(crRun[x].id) /\ managed /\ crLauncher.current = crRun[x].id
  /\ Says(x, "unchanged")
  /\ UNCHANGED <<crFiles, crRuns, crFaults>>

(* A directory is renamed into place once its files are synced, and its      *)
(* parent is synced after; one that is there already is used as it is.       *)
(* First a backup of what an older installer left.                           *)
_backup_legacy(x) ==
  /\ crRun[x].at = "check" /\ MayInstall(crRun[x].id)
  /\ crLauncher.current # crRun[x].id \/ ~managed
  /\ IF ~managed /\ crLauncher.current = Legacy /\ Legacy \notin crStored
     THEN crStored' = crStored \cup {Legacy} /\ Goes(x, "sync backup")
     ELSE Goes(x, "stage") /\ UNCHANGED crStored
  /\ UNCHANGED <<crLauncher, crOnDisk, crSynced, crLock, crTold, crInstalled, crRuns, crFaults>>

_stage(x) ==
  /\ crRun[x].at = "stage"
  /\ IF crRun[x].id \in crStored
     THEN Goes(x, "activate") /\ UNCHANGED crStored
     ELSE crStored' = crStored \cup {crRun[x].id} /\ Goes(x, "sync release")
  /\ UNCHANGED <<crLauncher, crOnDisk, crSynced, crLock, crTold, crInstalled, crRuns, crFaults>>

sync_root(x) ==
  /\ crRun[x].at \in {"sync backup", "sync release"}
  /\ Goes(x, IF crRun[x].at = "sync backup" THEN "stage" ELSE "activate")
  /\ crSynced' = crStored
  /\ UNCHANGED <<crLauncher, crOnDisk, crStored, crLock, crTold, crInstalled, crRuns, crFaults>>

-----------------------------------------------------------------------------
(* Replacing the launcher, in one step and then for good.                    *)
Selects(x, launcher) ==
  /\ crRun' = [crRun EXCEPT ![x].at = "sync launcher", ![x].was = crLauncher]
  /\ crLauncher' = launcher /\ crOnDisk' = crOnDisk \cup {<<launcher, crStored>>}
  /\ UNCHANGED <<crStored, crSynced, crLock, crTold, crInstalled, crRuns, crFaults>>

_activate(x) ==
  LET id == crRun[x].id
  IN crRun[x].at = "activate" /\ Selects(x, Launcher(id, crLauncher.current, id, crRun[x].n))

rollback(x) ==
  /\ crRun[x].at = "swap" /\ MayGoBack
  /\ Selects(x, Launcher(crLauncher.previous, crLauncher.current, crLauncher.highest, crRun[x].n))

sync_launcher(x) ==
  /\ crRun[x].at = "sync launcher"
  /\ crOnDisk' = {<<crLauncher, crStored>>}
  /\ Says(x, IF crRun[x].id = NoRelease THEN "rolled back" ELSE "installed")
  /\ UNCHANGED <<crLauncher, crStored, crSynced, crRuns, crFaults>>

(* The disk fails a command: nothing is selected yet, or the launcher that   *)
(* was is put back.                                                          *)
disk_fails(x) ==
  /\ crRun[x].at \in {"stage", "sync backup", "sync release", "activate", "swap"} /\ Faulty
  /\ Says(x, "failed")
  /\ UNCHANGED <<crFiles, crRuns>>

(* Mutant: the new one is left in place.                                     *)
Restored_not_at_all(x) == crLauncher

Restored(x) == crRun[x].was

sync_fails(x) ==
  /\ crRun[x].at = "sync launcher" /\ Faulty
  /\ crLauncher' = Restored(x)
  /\ crOnDisk' = crOnDisk \cup {<<crLauncher', crStored>>}
  /\ Goes(x, "sync restored")
  /\ UNCHANGED <<crStored, crSynced, crLock, crTold, crInstalled, crRuns>>

(* The putting back may fail too: the error then leaves the new one.         *)
restore_fails(x) ==
  /\ crRun[x].at = "sync launcher" /\ crFaults + 1 < CrMaxFaults /\ crFaults' = crFaults + 2
  /\ Says(x, "failed twice")
  /\ UNCHANGED <<crFiles, crRuns>>

sync_restored(x) ==
  /\ crRun[x].at = "sync restored"
  /\ crOnDisk' = {<<crLauncher, crStored>>} /\ Says(x, "failed")
  /\ UNCHANGED <<crLauncher, crStored, crSynced, crRuns, crFaults>>

-----------------------------------------------------------------------------
killed(x) ==
  /\ crRun[x].at # "idle" /\ Faulty
  /\ crRun' = [crRun EXCEPT ![x] = NotRunning]
  /\ crLock' = IF crLock = crRun[x].n THEN 0 ELSE crLock
  /\ UNCHANGED <<crFiles, crTold, crInstalled, crRuns>>

PowerCut ==
  /\ Faulty /\ crRun' = [x \in CrRunners |-> NotRunning] /\ crLock' = 0
  /\ \E kept \in crOnDisk, left \in SUBSET (crStored \ crSynced) :
       /\ crLauncher' = kept[1]
       /\ crStored' = crSynced \cup left \cup (IF CrOneJournal THEN kept[2] ELSE {})
       /\ crSynced' = crStored' /\ crOnDisk' = {<<kept[1], crStored'>>}
  /\ UNCHANGED <<crTold, crInstalled, crRuns>>

CrNext ==
  \/ \E x \in CrRunners :
       \/ install(x) \/ begin_rollback(x) \/ resolve_channel(x) \/ _installation(x)
       \/ verify_bundle(x) \/ refused(x)
       \/ AlreadyRuns(x) \/ _backup_legacy(x) \/ _stage(x) \/ sync_root(x)
       \/ _activate(x) \/ rollback(x) \/ sync_launcher(x)
       \/ disk_fails(x) \/ sync_fails(x) \/ restore_fails(x) \/ sync_restored(x) \/ killed(x)
  \/ PowerCut

-----------------------------------------------------------------------------
(* Every variable holds what the code may put there.                         *)
CrTypeOK ==
  /\ \E kept \in crOnDisk : kept[1] = crLauncher
  /\ \A kept \in crOnDisk :
       /\ {kept[1].current, kept[1].previous} \subseteq Identifiers \cup {NoRelease}
       /\ kept[1].highest \in CrReleases \cup {NoRelease} /\ kept[1].by \in 0..CrMaxRuns
       /\ kept[2] \subseteq crStored
  /\ crSynced \subseteq crStored /\ crStored \subseteq Identifiers
  /\ crLock \in 0..CrMaxRuns /\ crRuns \in 0..CrMaxRuns /\ crFaults \in 0..CrMaxFaults
  /\ \A x \in CrRunners : /\ crRun[x].at \in {"idle", "fetch", "fetched", "rollback", "check",
                              "sync backup", "stage", "sync release", "activate", "swap",
                              "sync launcher", "sync restored"}
                           /\ crRun[x].n \in 0..CrMaxRuns /\ crRun[x].id \in CrReleases \cup {NoRelease}
  /\ \A n \in 1..CrMaxRuns :
       crTold[n] \in {"nothing", "unchanged", "installed", "rolled back", "failed", "failed twice"}
  /\ crInstalled \subseteq CrReleases

(* Whatever was killed, and whatever the power took, the launcher runs a     *)
(* whole release, and the one to go back to is whole too.                    *)
RunsWhole ==
  managed => {crLauncher.current, crLauncher.previous, crLauncher.highest}
               \subseteq crStored \cup {NoRelease}

(* An installation that was reported stays: two commands at once, an old     *)
(* answer of the channel, a rollback or a power cut never takes the mark of  *)
(* the highest version below it, and no other build of a version replaces    *)
(* the one installed.                                                        *)
InstalledIsKept ==
  /\ \A r \in crInstalled : managed /\ crLauncher.highest[1] >= r[1]
  /\ \A r, s \in crInstalled : r[1] = s[1] => r = s

(* A command that reports failure has left the launcher as it was, also when *)
(* it failed after replacing it (_activate's "must not report an unsuccessful*)
(* update while silently leaving the new launcher selected").                *)
FailedMeansUnchanged == \A n \in 1..CrMaxRuns : crTold[n] = "failed" => crLauncher.by # n

ReleaseSound == RunsWhole /\ InstalledIsKept /\ FailedMeansUnchanged
=============================================================================

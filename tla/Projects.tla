------------------------------ MODULE Projects ------------------------------
(***************************************************************************)
(* A project shared between its holder's computers and the slot            *)
(* (ccfleet_agent/project_access.py and project_files.py): push writes the *)
(* files a computer selected over what it agreed on last, pull brings the  *)
(* slot's changes back, and neither merges inside a file.  Each keeps the  *)
(* originals of what it replaces.                                          *)
(*                                                                         *)
(* A request runs in a process of its own on the slot, under the project's *)
(* lock, and outlives the computer that sent it.  Files may be edited by   *)
(* hand on either side between any two steps, and also between the last    *)
(* look at a file and its replacement, while the new content is decoded,   *)
(* written beside it and synced: such an edit is overwritten, as the code  *)
(* warns ("avoid concurrent project edits", project_files.py:9-11).  A     *)
(* process may stop at any step: a full disk, its alarm, an account that   *)
(* changed, a killed terminal.                                             *)
(*                                                                         *)
(* A file's content is the number of the edit that made it, 0 if the file  *)
(* is not there.  Every path here is one the computers select; a path that *)
(* .gitignore names is selected on the slot only if it was shared before.  *)
(***************************************************************************)
EXTENDS Integers, FiniteSets

CONSTANTS
  PrLaptops,       \* the holder's computers
  PrSlot,          \* the slot
  PrPaths,         \* the files of the project
  PrIgnored,       \* those .gitignore names, which Git has all the same
  PrMaxEdits,      \* bound: edits by hand
  PrMaxCommands    \* bound: pushes and pulls

ASSUME ProjectsAssumption ==
  PrSlot \notin PrLaptops /\ PrIgnored \subseteq PrPaths /\ PrMaxEdits \in Nat /\ PrMaxCommands \in Nat

PrPlaces == PrLaptops \cup {PrSlot}
Contents == 0..PrMaxEdits
Trees == [PrPaths -> Contents]
Nothing == [p \in PrPaths |-> 0]

VARIABLES
  tree,          \* what is in the directory at each place
  base,          \* the manifest a computer last agreed on with the slot
  doing,       \* what runs on a computer
  sent,          \* writes that have not reached the slot
  writing,       \* the write that has the project's lock, and the names it knows
  applying,      \* an apply_snapshot under way at a place
  manifest,      \* the names the slot has on record as shared
  sessions,      \* whether Claude sessions of the project run on the slot
  backups,       \* contents kept in backups, anywhere
  byHand,        \* contents somebody replaced or deleted by hand
  raced,         \* history: contents written between a look and its replacement
  agreed,        \* what a computer's base ever had
  pushed,        \* contents a push has written on the slot
  edits, commands

treeVars == <<tree, backups, byHand, raced, edits, pushed>>
prVars == <<tree, base, doing, sent, writing, applying, manifest, sessions, backups, byHand,
            raced, pushed, agreed, edits, commands>>

-----------------------------------------------------------------------------
FilesThere(files) == {p \in PrPaths : files[p] # 0}

(* What the slot's own selection finds: shared before, or not ignored.       *)
_shared_paths(files, tracked) ==
  [p \in PrPaths |-> IF p \in tracked \/ p \notin PrIgnored THEN files[p] ELSE 0]

(* The slot's changes brought into a computer's files.                       *)
merge_project(was, ours, theirs) ==
  [p \in PrPaths |-> IF theirs[p] # was[p] THEN theirs[p] ELSE ours[p]]

Conflict(was, ours, theirs) ==
  \E p \in PrPaths : theirs[p] # was[p] /\ ours[p] \notin {was[p], theirs[p]}

Idle == [at |-> "idle", n |-> 0, local |-> Nothing, theirs |-> Nothing]
Still == [at |-> "none", want |-> Nothing, expect |-> Nothing, todo |-> {},
          looked |-> {}]
NoWrite == [n |-> 0, by |-> PrSlot, want |-> Nothing, expect |-> Nothing, names |-> {}]

ApplyOf(want, expect) ==
  [at |-> "preflight", want |-> want, expect |-> expect, todo |-> {}, looked |-> {}]
LockFree == writing = NoWrite

PrInit ==
  /\ tree = [x \in PrPlaces |-> Nothing] /\ base = [l \in PrLaptops |-> Nothing]
  /\ doing = [l \in PrLaptops |-> Idle] /\ sent = {}
  /\ writing = NoWrite /\ applying = [x \in PrPlaces |-> Still]
  /\ manifest = {} /\ sessions = FALSE /\ backups = {} /\ byHand = {} /\ raced = {}
  /\ agreed = [l \in PrLaptops |-> {}] /\ pushed = {} /\ edits = 0 /\ commands = 0

-----------------------------------------------------------------------------
(* A file looked at for the last time, and there: what is written to it now  *)
(* will be overwritten.  A file that is new is linked into place instead,    *)
(* which clobbers nothing.                                                   *)
InTheWindow(x, p) == p \in applying[x].looked /\ applying[x].expect[p] # 0

(* A person, or Claude on the slot, writes or deletes a file.                *)
EditByHand(x, p) ==
  /\ \/ /\ edits < PrMaxEdits
        /\ tree' = [tree EXCEPT ![x][p] = edits + 1] /\ edits' = edits + 1
        /\ raced' = IF InTheWindow(x, p) THEN raced \cup {edits + 1} ELSE raced
     \/ /\ tree[x][p] # 0
        /\ tree' = [tree EXCEPT ![x][p] = 0] /\ UNCHANGED <<edits, raced>>
  /\ byHand' = byHand \cup ({tree[x][p]} \ {0})
  /\ UNCHANGED <<base, doing, sent, writing, applying, manifest, sessions, backups, pushed,
                 agreed, commands>>

(* A session starts under the lock, so never during a write.                 *)
open_session ==
  /\ LockFree /\ ~sessions /\ sessions' = TRUE
  /\ UNCHANGED <<treeVars, base, doing, sent, writing, applying, manifest, agreed, commands>>

SessionsEnd ==
  /\ sessions /\ sessions' = FALSE
  /\ UNCHANGED <<treeVars, base, doing, sent, writing, applying, manifest, agreed, commands>>

-----------------------------------------------------------------------------
(* One command at a time on a computer: its projects.lock.                   *)
Begins(l) == doing[l].at = "idle" /\ commands < PrMaxCommands /\ commands' = commands + 1

(* What a computer shares: every file it selects, as it is now.              *)
snapshot(l) == tree[l]

push(l) ==
  /\ Begins(l)
  /\ sent' = sent \cup {[n |-> commands + 1, by |-> l, want |-> snapshot(l), expect |-> base[l]]}
  /\ doing' = [doing EXCEPT ![l] = [Idle EXCEPT !.at = "push", !.n = commands + 1]]
  /\ UNCHANGED <<treeVars, base, writing, applying, manifest, sessions, agreed>>

pull(l) ==
  /\ Begins(l)
  /\ doing' = [doing EXCEPT ![l] = [Idle EXCEPT !.at = "read", !.local = snapshot(l)]]
  /\ UNCHANGED <<treeVars, base, sent, writing, applying, manifest, sessions, agreed>>

(* The command ends without a result: an error, a lost connection, a `no` to *)
(* its question, a closed terminal.  What it sent may still be carried out.  *)
command_ends(l) ==
  /\ doing[l].at # "idle" /\ doing' = [doing EXCEPT ![l] = Idle]
  /\ applying' = [applying EXCEPT ![l] = Still]
  /\ UNCHANGED <<treeVars, base, sent, writing, manifest, sessions, agreed, commands>>

Agree(l, files) ==
  /\ base' = [base EXCEPT ![l] = files]
  /\ agreed' = [agreed EXCEPT ![l] = @ \cup {files[p] : p \in FilesThere(files)}]

-----------------------------------------------------------------------------
(* The names the slot knows of, once a write is taken.                       *)
Recorded(r) == manifest \cup FilesThere(r.expect) \cup FilesThere(r.want)

(* The slot takes a write: nobody works in the project, and it is as the     *)
(* computer last saw it, or is already as it wants it.  The names of both    *)
(* are on record before the first file is touched.                           *)
handle_write(r) ==
  LET names == Recorded(r)
      current == _shared_paths(tree[PrSlot], names)
  IN /\ r \in sent /\ sent' = sent \ {r}
     /\ LockFree /\ ~sessions /\ current \in {r.want, r.expect}
     /\ writing' = [n |-> r.n, by |-> r.by, want |-> r.want, expect |-> r.expect, names |-> names]
     /\ IF current = r.want
        THEN UNCHANGED <<manifest, applying>>
        ELSE /\ manifest' = names
             /\ applying' = [applying EXCEPT ![PrSlot] = ApplyOf(r.want, r.expect)]
     /\ UNCHANGED <<treeVars, base, doing, sessions, agreed, commands>>

(* Busy, in conflict, switched off, another account, or lost on the way.     *)
write_refused(r) ==
  /\ r \in sent /\ sent' = sent \ {r}
  /\ UNCHANGED <<treeVars, base, doing, writing, applying, manifest, sessions, agreed, commands>>

(* Every file as expected: the originals go into the backup first.           *)
preflight(x) ==
  LET a == applying[x]
      changes == {p \in PrPaths : a.want[p] # a.expect[p]}
  IN /\ a.at = "preflight"
     /\ \A p \in FilesThere(a.want) \cup FilesThere(a.expect) : tree[x][p] = a.expect[p]
     /\ backups' = backups \cup ({a.expect[p] : p \in changes} \ {0})
     /\ applying' = [applying EXCEPT ![x].at = "apply", ![x].todo = changes]
     /\ UNCHANGED <<tree, byHand, raced, edits, pushed, base, doing, sent, writing, manifest, sessions,
                    agreed, commands>>

(* Mutant: trusts the preflight, and does not look again.                    *)
Unchanged_since_preflight(x, p) == TRUE

Unchanged(x, p) == tree[x][p] = applying[x].expect[p]

(* One file after another is looked at once more before it is replaced or    *)
(* removed.                                                                  *)
look_again(x, p) ==
  /\ applying[x].at = "apply" /\ p \in applying[x].todo /\ applying[x].looked = {}
  /\ Unchanged(x, p)
  /\ applying' = [applying EXCEPT ![x].looked = {p}]
  /\ UNCHANGED <<treeVars, base, doing, sent, writing, manifest, sessions, agreed, commands>>

(* A new file finds its place empty, a removal something to remove; anything *)
(* else is replaced, whatever it is by now.                                  *)
MayReplace(x, p) ==
  /\ applying[x].expect[p] = 0 => tree[x][p] = 0
  /\ applying[x].want[p] = 0 => tree[x][p] # 0

apply_one(x, p) ==
  /\ p \in applying[x].looked /\ MayReplace(x, p)
  /\ tree' = [tree EXCEPT ![x][p] = applying[x].want[p]]
  /\ applying' = [applying EXCEPT ![x].todo = @ \ {p}, ![x].looked = {}]
  /\ pushed' = IF x = PrSlot THEN pushed \cup {applying[x].want[p]} ELSE pushed
  /\ UNCHANGED <<backups, byHand, raced, edits, base, doing, sent, writing, manifest, sessions,
                 agreed, commands>>

Applied(x) == applying[x].at = "apply" /\ applying[x].todo = {}

(* The slot's write stops half way: what it has written stays.               *)
write_stops ==
  /\ ~LockFree /\ writing' = NoWrite /\ applying' = [applying EXCEPT ![PrSlot] = Still]
  /\ UNCHANGED <<treeVars, base, doing, sent, manifest, sessions, agreed, commands>>

(* The write is done if the project now is what was wanted; its answer may   *)
(* be lost, or find nobody waiting for it.                                   *)
write_done ==
  LET w == writing
  IN /\ ~LockFree /\ (applying[PrSlot] = Still \/ Applied(PrSlot))
     /\ _shared_paths(tree[PrSlot], w.names) = w.want
     /\ manifest' = FilesThere(w.want)
     /\ writing' = NoWrite /\ applying' = [applying EXCEPT ![PrSlot] = Still]
     /\ \/ /\ doing[w.by].at = "push" /\ doing[w.by].n = w.n
           /\ doing' = [doing EXCEPT ![w.by] = Idle]
           /\ Agree(w.by, w.want)
        \/ UNCHANGED <<doing, base, agreed>>
     /\ UNCHANGED <<treeVars, sent, sessions, commands>>

-----------------------------------------------------------------------------
(* A pull reads the slot under its lock, brings the changes in and applies   *)
(* them over the files it began with.                                        *)
read_merge(l) ==
  LET c == doing[l]
      theirs == _shared_paths(tree[PrSlot], manifest)
      merged == merge_project(base[l], c.local, theirs)
  IN /\ c.at = "read" /\ LockFree /\ ~Conflict(base[l], c.local, theirs)
     /\ IF merged = c.local
        THEN Agree(l, theirs) /\ doing' = [doing EXCEPT ![l] = Idle] /\ UNCHANGED applying
        ELSE /\ doing' = [doing EXCEPT ![l] = [Idle EXCEPT !.at = "apply", !.theirs = theirs]]
             /\ applying' = [applying EXCEPT ![l] = ApplyOf(merged, c.local)]
             /\ UNCHANGED <<base, agreed>>
     /\ UNCHANGED <<treeVars, sent, writing, manifest, sessions, commands>>

pull_done(l) ==
  /\ doing[l].at = "apply" /\ Applied(l)
  /\ Agree(l, doing[l].theirs)
  /\ doing' = [doing EXCEPT ![l] = Idle] /\ applying' = [applying EXCEPT ![l] = Still]
  /\ UNCHANGED <<treeVars, sent, writing, manifest, sessions, commands>>

-----------------------------------------------------------------------------
PrNext ==
  \/ \E x \in PrPlaces, p \in PrPaths : EditByHand(x, p) \/ look_again(x, p) \/ apply_one(x, p)
  \/ \E x \in PrPlaces : preflight(x)
  \/ \E r \in sent : handle_write(r) \/ write_refused(r)
  \/ \E l \in PrLaptops : push(l) \/ pull(l) \/ command_ends(l) \/ read_merge(l) \/ pull_done(l)
  \/ open_session \/ SessionsEnd \/ write_stops \/ write_done

-----------------------------------------------------------------------------
PrTypeOK ==
  /\ tree \in [PrPlaces -> Trees] /\ base \in [PrLaptops -> Trees]
  /\ \A l \in PrLaptops : /\ doing[l].at \in {"idle", "push", "read", "apply"}
                          /\ doing[l].n \in 0..PrMaxCommands
                          /\ doing[l].local \in Trees /\ doing[l].theirs \in Trees
  /\ \A r \in sent : r.by \in PrLaptops /\ r.want \in Trees /\ r.expect \in Trees
  /\ writing.n \in 0..PrMaxCommands /\ writing.by \in PrPlaces /\ writing.names \subseteq PrPaths
  /\ \A x \in PrPlaces : /\ applying[x].at \in {"none", "preflight", "apply"}
                       /\ applying[x].want \in Trees /\ applying[x].expect \in Trees
                       /\ applying[x].todo \subseteq PrPaths
                       /\ applying[x].looked \subseteq applying[x].todo
  /\ manifest \subseteq PrPaths /\ sessions \in BOOLEAN
  /\ backups \subseteq Contents /\ byHand \subseteq Contents /\ raced \subseteq Contents
  /\ pushed \subseteq Contents
  /\ agreed \in [PrLaptops -> SUBSET Contents]
  /\ edits \in Contents /\ commands \in 0..PrMaxCommands

(* Whatever somebody wrote is still in a directory or in a backup, unless    *)
(* somebody removed it by hand, or wrote it after the last look at the very  *)
(* file being replaced: no push or pull, cut off anywhere, repeated or raced *)
(* by any other edit, loses work.                                            *)
NothingLost ==
  \A c \in 1..edits : \/ c \in backups \cup byHand \cup raced
                      \/ \E x \in PrPlaces, p \in PrPaths : tree[x][p] = c

(* What a push or pull may replace is what its computer had agreed on with   *)
(* the slot: never news of the other side, never unshared work of its own.   *)
ReplacesOnlyAgreed ==
  /\ \A p \in applying[PrSlot].todo :
       applying[PrSlot].expect[p] \in agreed[writing.by] \cup {0}
  /\ \A l \in PrLaptops : \A p \in applying[l].todo : applying[l].expect[p] \in agreed[l] \cup {0}

(* An ignored file that a push brought stays on the slot's record, so the    *)
(* next pull sees it, even if the push was cut off.                          *)
PushedIsSeen ==
  \A p \in PrIgnored : tree[PrSlot][p] \in pushed \ {0} => p \in manifest

ProjectsSound == NothingLost /\ ReplacesOnlyAgreed /\ PushedIsSeen
=============================================================================

------------------------------ MODULE LiveFiles ------------------------------
(***************************************************************************)
(* The file server inside the connector (ccfleet_agent/live_files.py): it  *)
(* carries out the slot's SFTP packets in the shared folder, one at a      *)
(* time, while people and programs of the computer move, replace, link and *)
(* delete the same files between two packets.  CC Fleet's own control data *)
(* may lie inside the folder; it is not part of what is shared.            *)
(*                                                                         *)
(* A place is a directory and a name in it; what is there is a file, by    *)
(* its inode, or the one subdirectory.  Symbolic links are left out: a     *)
(* path stands for what it leads to.  A file outside the folder lies in    *)
(* `outside`.  Control data that has just been written anew is seen by the *)
(* server (at its next packet) before somebody moves it elsewhere.         *)
(***************************************************************************)
EXTENDS Integers, Sequences, FiniteSets

CONSTANTS
  LfNames,       \* names of files
  LfControl,     \* the name under which the folder holds control data
  LfHandles,     \* the handles a client may hold (MAX_HANDLES)
  LfMaxInodes,   \* bound: files ever made
  LfMaxChanges   \* bound: what others do meanwhile

ASSUME LiveFilesAssumption ==
  IsFiniteSet(LfNames) /\ LfControl \notin LfNames /\ LfMaxInodes \in Nat \ {0, 1} /\ LfMaxChanges \in Nat

VARIABLES
  entry,            \* what is at each place
  protected_ids,    \* inodes the server has seen as control data
  handles,          \* the client's open files
  inodes, changes,  \* files ever made; what others did
  control,          \* history: inodes that ever were control data
  touched,          \* history: what the last packet read, changed or moved
  removed,          \* history: what the last packet removed
  disturbed         \* history: handles whose file others moved, or the client removed

lfVars == <<entry, protected_ids, handles, inodes, changes, control, touched, removed, disturbed>>

Root == "root"
Sub == "sub"
Dirs == {Root, Sub, "outside"}
Inodes == 1..LfMaxInodes
Elsewhere == <<"outside", LfControl>>                 \* one place stands for all outside
PlacesOfFiles == ({Root, Sub} \X LfNames) \cup {<<Root, LfControl>>, Elsewhere}
Empty == 0                                            \* nothing at a place
TheSub == -1                                          \* the subdirectory at a place
Things == Inodes \cup {TheSub, Empty}
Paths == {<<n>> : n \in LfNames \cup {LfControl}} \cup (LfNames \X LfNames)
Unused == [inode |-> Empty, dir |-> Root, name |-> LfControl, parts |-> <<>>]

-----------------------------------------------------------------------------
SubAt(e) == CHOOSE p \in PlacesOfFiles : e[p] = TheSub

(* Walking up from a directory reaches the folder, past no control data.     *)
_check_directory(e, d) ==
  d = Root \/ (d = Sub /\ SubAt(e)[1] = Root /\ TheSub \notin protected_ids)

(* By name: neither the control data nor, for what moves or changes a whole  *)
(* tree, a directory above it.                                               *)
_guard(parts) == parts[1] # LfControl

(* The place a path leads to; its last name need not be there.               *)
_resolve(path, e) ==
  IF Len(path) = 1 THEN {<<Root, path[1]>>}
  ELSE IF e[<<Root, path[1]>>] = TheSub THEN {<<Sub, path[2]>>} ELSE {}

Links(e, i) == Cardinality({p \in PlacesOfFiles : e[p] = i})

_regular(e, i) == i \in Inodes /\ Links(e, i) = 1 /\ i \notin protected_ids'

(* Whether a handle still is the file it was opened on, where it should be.  *)
Usable(h, e, ids) ==
  LET x == handles[h]
  IN /\ _check_directory(e, x.dir) /\ e[<<x.dir, x.name>>] = x.inode
     /\ Links(e, x.inode) = 1 /\ x.inode \notin ids /\ _guard(x.parts)

Held == {h \in LfHandles : handles[h] # Unused}

LfInit ==
  /\ \E n, m \in LfNames :
       /\ n # m
       /\ entry = [p \in PlacesOfFiles |-> CASE p = <<Root, n>> -> 1 [] p = <<Root, m>> -> TheSub
                                             [] p = <<Root, LfControl>> -> 2 [] OTHER -> Empty]
  /\ protected_ids = {2} /\ control = {2}
  /\ handles = [h \in LfHandles |-> Unused] /\ inodes = 2 /\ changes = 0
  /\ touched = {} /\ removed = {} /\ disturbed = {}

-----------------------------------------------------------------------------
(* Every packet looks at the control data first.                             *)
_refresh_protected ==
  protected_ids' = protected_ids \cup ({entry[<<Root, LfControl>>]} \ {Empty})

Packet(t, r) ==
  /\ _refresh_protected /\ touched' = t /\ removed' = r /\ UNCHANGED <<changes, control>>

At(path) == _resolve(path, entry)

(* Opening a file, or creating it.                                           *)
_open(h, path) ==
  /\ h \notin Held /\ _guard(path)
  /\ \E p \in At(path) :
       /\ _check_directory(entry, p[1])
       /\ LET i == IF entry[p] = Empty THEN inodes + 1 ELSE entry[p]
          IN /\ i \in Inodes
             /\ Packet({i}, {}) /\ (entry[p] = Empty \/ _regular(entry, i))
             /\ entry' = [entry EXCEPT ![p] = i]
             /\ inodes' = IF entry[p] = Empty THEN i ELSE inodes
             /\ handles' = [handles EXCEPT ![h] = [inode |-> i, dir |-> p[1], name |-> p[2],
                                                   parts |-> path]]
  /\ disturbed' = disturbed \ {h}

(* Reading, writing, attributes, fsync: on the file the handle is of.        *)
_handle(h) ==
  /\ h \in Held /\ Packet({handles[h].inode}, {})
  /\ Usable(h, entry, protected_ids')
  /\ UNCHANGED <<entry, handles, inodes, disturbed>>

close(h) ==
  /\ h \in Held /\ Packet({}, {}) /\ handles' = [handles EXCEPT ![h] = Unused]
  /\ disturbed' = disturbed \ {h}
  /\ UNCHANGED <<entry, inodes>>

OpenOn(i) == {h \in Held : handles[h].inode = i}

unlink(path) ==
  /\ _guard(path)
  /\ \E p \in At(path) :
       /\ entry[p] \in Inodes /\ _check_directory(entry, p[1])
       /\ Packet({}, {entry[p]}) /\ entry[p] \notin protected_ids'
       /\ entry' = [entry EXCEPT ![p] = Empty]
       /\ disturbed' = disturbed \cup OpenOn(entry[p])
  /\ UNCHANGED <<handles, inodes>>

Prefix(parts, of) == Len(parts) <= Len(of) /\ SubSeq(of, 1, Len(parts)) = parts

(* Mutant: handles under the old name are left as they are.                  *)
Followed_not_at_all(x, source, parts, to, target) == x

(* An open file keeps its identity over an acknowledged rename: a handle of  *)
(* that name gets its new place, one below it its new path.                  *)
Followed(x, source, parts, to, target) ==
  IF x = Unused \/ ~Prefix(parts, x.parts) THEN x
  ELSE [inode |-> x.inode,
        dir |-> IF x.parts = parts THEN to[1] ELSE x.dir,
        name |-> IF x.parts = parts THEN to[2] ELSE x.name,
        parts |-> target \o SubSeq(x.parts, Len(parts) + 1, Len(x.parts))]

_rename(old, new, replace) ==
  /\ _guard(old) /\ _guard(new) /\ old # new
  /\ \E p \in At(old), q \in At(new) :
       LET what == entry[p]
           there == entry[q]
       IN /\ _check_directory(entry, p[1]) /\ _check_directory(entry, q[1])
          /\ Packet({what} \ {TheSub}, {there} \ {Empty})
          /\ what = TheSub \/ _regular(entry, what)
          /\ IF what = TheSub THEN q[1] # Sub /\ there = Empty
                           ELSE there = Empty \/ (replace /\ _regular(entry, there))
          /\ entry' = [entry EXCEPT ![p] = Empty, ![q] = what]
          /\ handles' = [h \in LfHandles |-> Followed(handles[h], p, old, q, new)]
          /\ disturbed' = disturbed \cup (IF there = Empty THEN {} ELSE OpenOn(there))
  /\ UNCHANGED inodes

-----------------------------------------------------------------------------
(* What others do between two packets.  Moving a file also takes it out of   *)
(* the folder, or into it; saving it puts a new one in its place; the CC     *)
(* Fleet client saves its control data in the same way.                      *)
Meanwhile(e) ==
  /\ changes < LfMaxChanges /\ changes' = changes + 1
  /\ entry' = e /\ touched' = {} /\ removed' = {}
  /\ control' = control \cup ({e[<<Root, LfControl>>]} \ {Empty, TheSub})
  /\ disturbed' = disturbed \cup {h \in Held : ~Usable(h, e, protected_ids)}
                           \cup {h \in Held : handles[h].dir = Sub /\ SubAt(e) # SubAt(entry)}
  /\ UNCHANGED <<protected_ids, handles>>

Movable(p) == p # <<Root, LfControl>> \/ entry[p] \in protected_ids

OthersMove(p, q) ==
  /\ entry[p] # Empty /\ p # q /\ Movable(p) /\ Movable(q)
  /\ IF entry[p] = TheSub THEN q[1] # Sub /\ q # <<Root, LfControl>> /\ entry[q] = Empty ELSE entry[q] # TheSub
  /\ Meanwhile([entry EXCEPT ![p] = Empty, ![q] = entry[p]]) /\ UNCHANGED inodes

OthersSave(p) ==
  /\ entry[p] # TheSub /\ inodes < LfMaxInodes /\ inodes' = inodes + 1
  /\ Movable(p) \/ entry[p] = Empty
  /\ Meanwhile([entry EXCEPT ![p] = inodes + 1])

OthersLink(p, q) ==
  /\ entry[p] \in Inodes /\ entry[q] = Empty /\ q # <<Root, LfControl>> /\ Movable(p)
  /\ Meanwhile([entry EXCEPT ![q] = entry[p]]) /\ UNCHANGED inodes

LfNext ==
  \/ \E h \in LfHandles : _handle(h) \/ close(h) \/ \E path \in Paths : _open(h, path)
  \/ \E path \in Paths : unlink(path)
  \/ \E old, new \in Paths, replace \in BOOLEAN : _rename(old, new, replace)
  \/ \E p, q \in PlacesOfFiles : OthersMove(p, q) \/ OthersLink(p, q)
  \/ \E p \in PlacesOfFiles : OthersSave(p)

-----------------------------------------------------------------------------
LfTypeOK ==
  /\ entry \in [PlacesOfFiles -> Things] /\ Cardinality({p \in PlacesOfFiles : entry[p] = TheSub}) = 1
  /\ protected_ids \subseteq Things /\ control \subseteq Inodes
  /\ \A h \in LfHandles : /\ handles[h].inode \in Inodes \cup {Empty}
                          /\ handles[h].dir \in Dirs /\ handles[h].name \in LfNames \cup {LfControl}
  /\ inodes \in 2..LfMaxInodes /\ changes \in 0..LfMaxChanges
  /\ touched \subseteq Inodes /\ removed \subseteq Inodes /\ disturbed \subseteq LfHandles

InTheFolder(i) ==
  \E p \in PlacesOfFiles : entry[p] = i /\ (p[1] = Root \/ (p[1] = Sub /\ SubAt(entry)[1] = Root))

(* What a packet reads, changes or moves is a file of the folder at that     *)
(* moment, whatever was moved, linked or replaced before; and never what is, *)
(* or ever was, control data, by this name or another.                       *)
OnlyWhatIsShared ==
  /\ \A i \in touched : InTheFolder(i)
  /\ (touched \cup removed) \cap control = {}

(* An open file stays open over every rename of the client's, of the file or *)
(* of the directory it is in: only what others do to it or to that           *)
(* directory, or removing it, ends it.                                       *)
OpenStaysOpen == \A h \in Held : h \in disturbed \/ Usable(h, entry, protected_ids)

LiveFilesSound == OnlyWhatIsShared /\ OpenStaysOpen
=============================================================================

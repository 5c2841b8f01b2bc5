------------------------------- MODULE Trees -------------------------------
(***************************************************************************)
(* Paths, the metadata kept per path (internal/model/entry.go) and what    *)
(* the file system does to a tree when the executor                        *)
(* (internal/apply/executor.go) works on it.                               *)
(*                                                                         *)
(* A path is a sequence of components.  A component is a name with the set *)
(* of conflict stamps that were appended to it ("x_conflict_<t>"): stamps  *)
(* only grow, so the set stands for the sequence of suffixes.              *)
(* A tree is a total function from paths to entries; None is "no entry".   *)
(***************************************************************************)
EXTENDS Integers, Sequences

CONSTANTS
    Shapes,      \* the original paths, as sequences of names (naturals, so that they sort)
    MaxStamp,    \* bound: conflict stamps are 1..MaxStamp
    MaxVersion,  \* bound: contents are 1..MaxVersion
    Locations,   \* directory trees: the primary and one per service
    SizeOf       \* size of a content; equal sizes defeat the inode-reuse guard

ASSUME ShapesAssumption ==
    \A sh \in Shapes : Len(sh) \in Nat \ {0} /\ sh \in [1..Len(sh) -> Nat]
ASSUME BoundsAssumption == MaxStamp \in Nat /\ MaxVersion \in Nat
ASSUME LocationsAssumption == "none" \notin Locations
ASSUME SizeAssumption == SizeOf \in [1..MaxVersion -> Nat]

Stamps == 1..MaxStamp
Versions == 1..MaxVersion

----------------------------------------------------------------------------
(* Paths *)

Component(name, st) == [name |-> name, stamps |-> st]

PathsOfShape(sh) ==
    {[i \in 1..Len(sh) |-> Component(sh[i], st[i])] :
        st \in [1..Len(sh) -> SUBSET Stamps]}

Paths == UNION {PathsOfShape(sh) : sh \in Shapes}

ShapeOf(p) == [i \in 1..Len(p) |-> p[i].name]

\* The paths users work on: those without a conflict suffix.
OriginalPaths == {p \in Paths : \A i \in 1..Len(p) : p[i].stamps = {}}

\* Mutant: the stamp is left at its zero value.
ConflictPathUnstamped(p, t) ==
    [i \in 1..Len(p) |->
        IF i = Len(p) THEN Component(p[i].name, p[i].stamps \cup {0}) ELSE p[i]]

\* reconcile.go, conflictPath: the suffix goes to the last component.
ConflictPath(p, t) ==
    [i \in 1..Len(p) |->
        IF i = Len(p) THEN Component(p[i].name, p[i].stamps \cup {t}) ELSE p[i]]

Ancestors(p) == {SubSeq(p, 1, i) : i \in 1..(Len(p) - 1)}

\* The paths strictly below p.
Below == [p \in Paths |-> {q \in Paths : Len(p) < Len(q) /\ SubSeq(q, 1, Len(p)) = p}]

\* q is p or lies below it.
Beneath(p, q) == q = p \/ q \in Below[p]

\* The order sort.Strings gives: a parent before its children ('/' sorts before
\* '_'), a name before its conflict names, earlier stamps before later ones.
FirstOf(S) == CHOOSE x \in S : \A y \in S : x <= y

StampsBefore(S, T) ==
    /\ S # T
    /\ LET d == FirstOf((S \cup T) \ (S \cap T))
       IN  IF d \in S THEN \E x \in T : x > d ELSE ~ \E x \in S : x > d

ComponentBefore(c, d) ==
    \/ c.name < d.name
    \/ c.name = d.name /\ StampsBefore(c.stamps, d.stamps)

Before(p, q) ==
    LET common == IF Len(p) < Len(q) THEN Len(p) ELSE Len(q)
        differ == {i \in 1..common : p[i] # q[i]}
    IN  IF differ = {} THEN Len(p) < Len(q)
        ELSE ComponentBefore(p[FirstOf(differ)], q[FirstOf(differ)])

----------------------------------------------------------------------------
(* Entries *)

\* ver stands for size + mtime of a file, for the target of a symlink.
\* dev/ino matter for files only; an inode is named by the version its file
\* was created with.
Entry == [type : {"none", "file", "dir", "symlink"}, ver : Versions \cup {0},
          dev : Locations \cup {"none"}, ino : Versions \cup {0}]

None == [type |-> "none", ver |-> 0, dev |-> "none", ino |-> 0]
Dir  == [type |-> "dir",  ver |-> 0, dev |-> "none", ino |-> 0]
Symlink(v) == [type |-> "symlink", ver |-> v, dev |-> "none", ino |-> 0]
File(v, l, i) == [type |-> "file", ver |-> v, dev |-> l, ino |-> i]

Tree == [Paths -> Entry]
EmptyTree == [p \in Paths |-> None]

\* The fast-path identity: size + mtime (files), target (symlinks), existence
\* (directories).  Two absent entries are the same.
SameIdentity(a, b) ==
    /\ a.type = b.type
    /\ a.type \in {"file", "symlink"} => a.ver = b.ver

----------------------------------------------------------------------------
(* What the executor's system calls do to a tree t at location l.          *)
(* Each operator has a companion "Can..." that is FALSE when the call      *)
(* returns an error.                                                       *)

\* os.MkdirAll(p): every missing directory down to p.
CanMkdirAll(t, p) == \A q \in Ancestors(p) \cup {p} : t[q].type \in {"none", "dir"}
MkdirAll(t, p) ==
    [q \in Paths |-> IF q \in Ancestors(p) \cup {p} /\ t[q] = None THEN Dir ELSE t[q]]

\* os.MkdirAll(filepath.Dir(p)), the first call of a copy or a rename.
CanMkParent(t, p) == \A q \in Ancestors(p) : t[q].type \in {"none", "dir"}
MkParent(t, p) ==
    [q \in Paths |-> IF q \in Ancestors(p) /\ t[q] = None THEN Dir ELSE t[q]]

\* os.RemoveAll(p)
RemoveAll(t, p) == [q \in Paths |-> IF Beneath(p, q) THEN None ELSE t[q]]

HasChildren(t, p) == \E q \in Below[p] : t[q] # None
ParentExists(t, p) == \A q \in Ancestors(p) : t[q].type = "dir"

\* os.Remove(p): an absent path counts as success, a non-empty directory fails.
CanRemove(t, p) == ~ HasChildren(t, p)
Remove(t, p) == [t EXCEPT ![p] = None]

\* os.Rename(old, new): moves the whole subtree; replaces a non-directory, and
\* a directory only by a directory and only when it is empty.
CanRename(t, old, new) ==
    /\ t[old] # None
    /\ ~ Beneath(old, new)
    /\ \A q \in Ancestors(new) : t[q].type = "dir"
    /\ IF t[old].type = "dir"
         THEN t[new].type \in {"none", "dir"} /\ ~ HasChildren(t, new)
         ELSE t[new].type # "dir"
RenamedFrom(old, new, q) == old \o SubSeq(q, Len(new) + 1, Len(q))
Rename(t, old, new) ==
    [q \in Paths |->
        CASE Beneath(new, q) /\ RenamedFrom(old, new, q) \in Paths
                 -> t[RenamedFrom(old, new, q)]
          [] Beneath(new, q) /\ RenamedFrom(old, new, q) \notin Paths -> None
          [] ~ Beneath(new, q) /\ Beneath(old, q) -> None
          [] OTHER -> t[q]]

\* copyEntry after its MkdirAll: temp file + rename gives a file a new inode and
\* keeps its mtime; the source must really be a file (opening a directory or a
\* missing path fails).  A symlink is read, removed at the destination, recreated.
CanCopy(src, t, p, type) ==
    IF type = "symlink"
      THEN src[p].type = "symlink" /\ ~ HasChildren(t, p)
      ELSE src[p].type = "file" /\ t[p].type # "dir"
Copied(src, l, p, type) ==
    IF type = "symlink" THEN Symlink(src[p].ver) ELSE File(src[p].ver, l, src[p].ver)
Copy(src, t, l, p, type) == [t EXCEPT ![p] = Copied(src, l, p, type)]
============================================================================

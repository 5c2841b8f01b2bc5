--------------------------- MODULE SyncPassProofs ---------------------------
(***************************************************************************)
(* Theorems about SyncPass.                                                *)
(*                                                                         *)
(* For every set of paths, services, modes, faults and bounds: the type    *)
(* invariant, and that a one-way service never changes its source.         *)
(*                                                                         *)
(* For a two-way service on a directory of files and symlinks (TwoWay):    *)
(* nothing is lost, and the saved baseline is true.  The argument has      *)
(* three layers: what a merge decides for each path (GroupOps); what the   *)
(* trees look like while its operations are applied in order (InProgress,  *)
(* PassStep, PassEnd); what holds of baseline, trees and users' versions   *)
(* between any two steps (Sound, PassInvariant).                           *)
(***************************************************************************)
EXTENDS SyncPass, ReconcileProofs, SequenceTheorems

----------------------------------------------------------------------------
(* The state machine *)

\* applyOne leaves a tree.
LEMMA ApplyOneType ==
    ASSUME NEW op \in Op, NEW src \in Tree, NEW t \in Tree, NEW l \in Locations
    PROVE  ApplyOne(op, src, t, l) \in Tree
<1>1. op.path \in Paths /\ op.old \in Paths /\ op.kind \in OpKinds
  BY DEF Op
<1> DEFINE u == IF CanMkParent(t, op.path) THEN MkParent(t, op.path) ELSE t
<1>2. u \in Tree
  BY <1>1, TreeTypes
<1>3. Copy(src, u, l, op.path, op.type) \in Tree
  BY <1>1, <1>2, CopyType
<1>4. Rename(u, op.old, op.path) \in Tree /\ Rename(t, op.old, op.path) \in Tree
  BY <1>1, <1>2, TreeTypes
<1>5. /\ MkdirAll(t, op.path) \in Tree
      /\ RemoveAll(t, op.path) \in Tree
      /\ Remove(t, op.path) \in Tree
  BY <1>1, TreeTypes
<1> HIDE DEF u
<1>6. CASE op.kind = "copy"
  BY <1>2, <1>3, <1>6 DEF ApplyOne, u
<1>7. CASE op.kind = "rename"
  BY <1>2, <1>4, <1>7 DEF ApplyOne, u
<1>8. CASE op.kind \in {"mkdir", "rmdir", "delete", "conflictRename"}
  BY <1>4, <1>5, <1>8 DEF ApplyOne
<1> QED
  BY <1>1, <1>6, <1>7, <1>8 DEF OpKinds

\* A scan yields a tree, also when it skips what it cannot read.
LEMMA ScansType ==
    ASSUME NEW t \in Tree
    PROVE  Scans(t) \subseteq Tree
  BY TreeTypes DEF Scans

\* The two ends a service works on are locations, and only one of them is
\* the primary.
LEMMA LocationTypes ==
    /\ Primary \in Locations
    /\ \A s \in Services : s \in Locations /\ s # Primary
    /\ \A s \in Services : \A d : LocationOf(s, d) \in Locations
  BY LocationsAreTheServices DEF LocationOf

\* The end of a pass keeps the types of the pass variables.
LEMMA EndPassType ==
    ASSUME TypeOK, NEW s \in Services, EndPass(s)
    PROVE  /\ lock' \in Services \cup {"none"}
           /\ pc' \in [Services -> {"idle", "scanned", "apply"}]
           /\ view' \in [Services -> Tree]
           /\ todo' \in [Services -> SUBSET Op]
           /\ newBase' \in [Services -> Tree]
  BY EmptyTreeType DEF EndPass, TypeOK

\* Every fault counter step stays within its bound.
LEMMA ScanFaultType ==
    ASSUME TypeOK, NEW t \in Tree, NEW seen \in Scans(t), ScanFault(seen, t)
    PROVE  faults' \in 0..MaxFaults
<1>1. seen = t \/ faults < MaxFaults
  BY DEF Scans, MayFail
<1> QED
  BY <1>1, FaultBoundsAssumption DEF ScanFault, TypeOK

\* User steps keep the types.
LEMMA UserStepType ==
    ASSUME TypeOK, NEW kind, NEW l \in Locations, NEW t \in Tree,
           NEW new \in SUBSET Versions, NEW lost, UserStep(kind, l, t, new, lost)
    PROVE  TypeOK'
  BY BoundsAssumption DEF UserStep, TypeOK, pass

\* Type correctness of doPass, of the users and of crashes: in particular every
\* operation a merge produces is one the executor knows, on paths of the tree.
THEOREM TypeCorrect == Spec => []TypeOK
<1>1. Init => TypeOK
  BY EmptyTreeType, BoundsAssumption, FaultBoundsAssumption DEF Init, TypeOK
<1>2. TypeOK /\ [Next]_vars => TypeOK'
  <2> SUFFICES ASSUME TypeOK, [Next]_vars PROVE TypeOK'
    OBVIOUS
  <2> USE BoundsAssumption, FaultBoundsAssumption
  <2>1. ASSUME NEW s \in Services, Begin(s) PROVE TypeOK'
    <3>1. tree[Primary] \in Tree
      BY LocationTypes DEF TypeOK
    <3>2. PICK seen \in Scans(tree[Primary]) :
             view' = [view EXCEPT ![s] = seen] /\ ScanFault(seen, tree[Primary])
      BY <2>1 DEF Begin
    <3>3. seen \in Tree /\ faults' \in 0..MaxFaults
      BY <3>1, <3>2, ScansType, ScanFaultType
    <3> QED
      BY <2>1, <3>2, <3>3 DEF Begin, TypeOK, disk
  <2>2. ASSUME NEW s \in Services, Merge(s) PROVE TypeOK'
    <3>1. tree[s] \in Tree /\ view[s] \in Tree /\ baseline \in Tree
      BY LocationTypes DEF TypeOK
    <3>2. PICK sec \in Scans(tree[s]) :
             LET base == PassBaseline(s, view[s], sec)
                 ops == MergeOps(base, view[s], sec, now)
                 conflicts == Conflicts(base, view[s], sec)
             IN  /\ conflicts # {} => now <= MaxStamp
                 /\ now' = IF conflicts # {} /\ ~ ClockStands THEN now + 1 ELSE now
                 /\ ScanFault(sec, tree[s])
                 /\ \/ ops = {} /\ EndPass(s)
                    \/ /\ ops # {}
                       /\ todo' = [todo EXCEPT ![s] = ops]
                       /\ newBase' = [newBase EXCEPT ![s] = NewBaseline(base, view[s], sec, now)]
                       /\ pc' = [pc EXCEPT ![s] = "apply"]
                       /\ view' = [view EXCEPT ![s] = EmptyTree]
                       /\ UNCHANGED lock
      BY <2>2 DEF Merge
    <3> DEFINE base == PassBaseline(s, view[s], sec)
               ops == MergeOps(base, view[s], sec, now)
               nb == NewBaseline(base, view[s], sec, now)
    <3>3. sec \in Tree /\ faults' \in 0..MaxFaults
      BY <3>1, <3>2, ScansType, ScanFaultType
    <3>4. base \in Tree
      BY <3>1, <3>3, ModeAssumption DEF PassBaseline
    <3>5. Conflicts(base, view[s], sec) # {} => now \in Stamps
      BY <3>2 DEF TypeOK, Stamps
    <3>6. now' \in 1..(MaxStamp + 1)
      BY <3>2 DEF TypeOK
    <3>7. ops \subseteq Op /\ nb \in Tree
      BY <3>1, <3>3, <3>4, <3>5, MergeOpsType, NewBaselineType
    <3> HIDE DEF base, ops, nb
    <3>8. UNCHANGED <<tree, baseline, edits, live, crashes>>
      BY <2>2 DEF Merge, disk
    <3>9. CASE EndPass(s)
      BY <3>3, <3>6, <3>8, <3>9, EndPassType DEF TypeOK
    <3>10. CASE /\ todo' = [todo EXCEPT ![s] = ops]
                /\ newBase' = [newBase EXCEPT ![s] = nb]
                /\ pc' = [pc EXCEPT ![s] = "apply"]
                /\ view' = [view EXCEPT ![s] = EmptyTree]
                /\ UNCHANGED lock
      BY <3>3, <3>6, <3>7, <3>8, <3>10, EmptyTreeType DEF TypeOK
    <3> QED
      BY <3>2, <3>9, <3>10 DEF base, ops, nb
  <2>3. ASSUME NEW s \in Services, ApplyNext(s) PROVE TypeOK'
    <3>1. PICK op \in todo[s] :
             LET l == LocationOf(s, op.dst)
                 src == tree[LocationOf(s, OtherSide(op.dst))]
             IN  /\ todo' = [todo EXCEPT ![s] = @ \ {op}]
                 /\ \/ /\ tree' = [tree EXCEPT ![l] = ApplyOne(op, src, tree[l], l)]
                       /\ UNCHANGED faults
                    \/ /\ faults < MaxFaults
                       /\ faults' = faults + 1
                       /\ UNCHANGED tree
      BY <2>3 DEF ApplyNext, MayFail
    <3> DEFINE l == LocationOf(s, op.dst)
               src == tree[LocationOf(s, OtherSide(op.dst))]
    <3>2. op \in Op /\ l \in Locations /\ src \in Tree /\ tree[l] \in Tree
      BY LocationTypes DEF TypeOK
    <3>3. ApplyOne(op, src, tree[l], l) \in Tree
      BY <3>2, ApplyOneType
    <3>4. tree' \in [Locations -> Tree] /\ faults' \in 0..MaxFaults
      <4> HIDE DEF l, src
      <4>1. CASE tree' = [tree EXCEPT ![l] = ApplyOne(op, src, tree[l], l)] /\ UNCHANGED faults
        BY <3>3, <4>1 DEF TypeOK
      <4>2. CASE faults < MaxFaults /\ faults' = faults + 1 /\ UNCHANGED tree
        BY <4>2 DEF TypeOK
      <4> QED
        BY <3>1, <4>1, <4>2 DEF l, src
    <3>5. todo' \in [Services -> SUBSET Op]
      BY <3>1 DEF TypeOK
    <3> QED
      BY <2>3, <3>4, <3>5 DEF ApplyNext, TypeOK
  <2>4. ASSUME NEW s \in Services, Save(s) PROVE TypeOK'
    <3>1. baseline' \in Tree /\ faults' \in 0..MaxFaults
      BY <2>4 DEF Save, MayFail, TypeOK
    <3> QED
      BY <2>4, <3>1, EndPassType DEF Save, TypeOK
  <2>5. ASSUME NEW s \in Services, Crash(s) PROVE TypeOK'
    BY <2>5, EndPassType DEF Crash, TypeOK, disk
  <2>6. ASSUME User PROVE TypeOK'
    <3>1. PICK l \in EditedLocations, p \in OriginalPaths :
             \/ UserWrite(l, p) \/ UserMkdir(l, p) \/ UserRemove(l, p)
             \/ \E q \in OriginalPaths : UserMove(l, p, q)
      BY <2>6 DEF User
    <3>2. l \in Locations /\ p \in Paths /\ tree[l] \in Tree
      BY EditedLocationsAssumption DEF OriginalPaths, TypeOK
    <3>3. CASE UserWrite(l, p)
      <4>1. edits + 1 \in Versions
        BY <3>3 DEF UserWrite, UserStep, TypeOK, Versions
      <4>2. tree[l][p].ino \in Versions \cup {0}
        BY <3>2 DEF Tree, Entry
      <4>3. ASSUME NEW e \in Entry PROVE [tree[l] EXCEPT ![p] = e] \in Tree
        BY <3>2, <4>3 DEF Tree
      <4>4. PICK e \in Entry :
               UserStep("write", l, [tree[l] EXCEPT ![p] = e], {edits + 1}, {tree[l][p].ver})
        BY <3>3, <3>2, <4>1, <4>2, EntryTypes DEF UserWrite
      <4> QED
        BY <3>2, <4>1, <4>3, <4>4, UserStepType
    <3>4. CASE UserMkdir(l, p)
      <4>1. [tree[l] EXCEPT ![p] = Dir] \in Tree
        BY <3>2, EntryTypes DEF Tree
      <4> QED
        BY <3>2, <3>4, <4>1, UserStepType DEF UserMkdir
    <3>5. CASE UserRemove(l, p)
      BY <3>2, <3>5, TreeTypes, UserStepType DEF UserRemove
    <3>6. ASSUME NEW q \in OriginalPaths, UserMove(l, p, q) PROVE TypeOK'
      <4>1. q \in Paths
        BY DEF OriginalPaths
      <4>2. Rename(tree[l], p, q) \in Tree
        BY <3>2, <4>1, TreeTypes
      <4> QED
        BY <3>2, <3>6, <4>2, UserStepType DEF UserMove
    <3> QED
      BY <3>1, <3>3, <3>4, <3>5, <3>6
  <2>7. CASE UNCHANGED vars
    BY <2>7 DEF vars, TypeOK
  <2> QED
    BY <2>1, <2>2, <2>3, <2>4, <2>5, <2>6, <2>7 DEF Next, Engine
<1> QED
  BY <1>1, <1>2, PTL DEF Spec

\* Pending operations of a one-way service only touch its mirror: forceOneway
\* pins the baseline to the mirror, so Reconcile never finds a change there.
THEOREM OnewayTargets == Spec => []TodoTargetsMirror
<1>1. Init => TodoTargetsMirror
  BY DEF Init, TodoTargetsMirror
<1>2. TypeOK /\ TodoTargetsMirror /\ [Next]_vars => TodoTargetsMirror'
  <2> SUFFICES ASSUME TypeOK, TodoTargetsMirror, [Next]_vars PROVE TodoTargetsMirror'
    OBVIOUS
  <2>1. ASSUME NEW s \in Services, EndPass(s) PROVE TodoTargetsMirror'
    BY <2>1 DEF EndPass, TodoTargetsMirror, TypeOK
  <2>2. ASSUME UNCHANGED todo PROVE TodoTargetsMirror'
    BY <2>2 DEF TodoTargetsMirror
  <2>3. ASSUME NEW s \in Services, Merge(s) PROVE TodoTargetsMirror'
    <3>1. tree[s] \in Tree /\ view[s] \in Tree
      BY LocationTypes DEF TypeOK
    <3>2. PICK sec \in Scans(tree[s]) :
             \/ EndPass(s)
             \/ todo' = [todo EXCEPT ![s] =
                            MergeOps(PassBaseline(s, view[s], sec), view[s], sec, now)]
      BY <2>3 DEF Merge
    <3>3. sec \in Tree
      BY <3>1, <3>2, ScansType
    <3> DEFINE ops == MergeOps(PassBaseline(s, view[s], sec), view[s], sec, now)
    <3>4. ASSUME Mode[s] = "push", NEW op \in ops PROVE LocationOf(s, op.dst) = Mirror(s)
      <4>1. op.dst = "secondary"
        BY <3>1, <3>3, <3>4, PushTargets DEF PassBaseline
      <4> QED
        BY <3>4, <4>1 DEF LocationOf, Mirror
    <3>5. ASSUME Mode[s] = "pull", NEW op \in ops PROVE LocationOf(s, op.dst) = Mirror(s)
      <4>1. op.dst = "primary"
        BY <3>1, <3>3, <3>5, PullTargets DEF PassBaseline
      <4> QED
        BY <3>5, <4>1 DEF LocationOf, Mirror
    <3> HIDE DEF ops
    <3>6. CASE todo' = [todo EXCEPT ![s] = ops]
      BY <3>4, <3>5, <3>6, ModeAssumption DEF TodoTargetsMirror, TypeOK
    <3> QED
      BY <2>1, <3>2, <3>6 DEF ops
  <2>4. ASSUME NEW s \in Services, ApplyNext(s) PROVE TodoTargetsMirror'
    <3>1. PICK op \in todo[s] : todo' = [todo EXCEPT ![s] = @ \ {op}]
      BY <2>4 DEF ApplyNext
    <3> QED
      BY <3>1 DEF TodoTargetsMirror, TypeOK
  <2>5. ASSUME NEW s \in Services, Begin(s) PROVE UNCHANGED todo
    BY <2>5 DEF Begin
  <2>6. ASSUME NEW s \in Services, Save(s) \/ Crash(s) PROVE EndPass(s)
    BY <2>6 DEF Save, Crash
  <2>7. ASSUME User PROVE UNCHANGED todo
    BY <2>7 DEF User, UserWrite, UserMkdir, UserRemove, UserMove, UserStep, pass
  <2>8. CASE UNCHANGED vars
    BY <2>2, <2>8 DEF vars
  <2> QED
    BY <2>1, <2>2, <2>3, <2>4, <2>5, <2>6, <2>7, <2>8 DEF Next, Engine
<1> QED
  BY <1>1, <1>2, TypeCorrect, PTL DEF Spec

\* forceOneway is a one-way street: no step of a push or pull service changes
\* the source tree, for any number of services, users, faults and crashes.
THEOREM SourceSafe == Spec => SourceUntouched
<1>1. TypeOK /\ TodoTargetsMirror /\ [Next]_vars =>
         [\A s \in Services : (Mode[s] # "sync" /\ (Engine(s) \/ Crash(s)))
              => tree'[Source(s)] = tree[Source(s)]]_vars
  <2> SUFFICES ASSUME TypeOK, TodoTargetsMirror,
                      NEW s \in Services, Mode[s] # "sync", Engine(s) \/ Crash(s)
               PROVE  tree'[Source(s)] = tree[Source(s)]
    OBVIOUS
  <2>1. Source(s) \in Locations /\ Mirror(s) # Source(s)
    BY LocationTypes DEF Source, Mirror
  <2>2. ASSUME ApplyNext(s) PROVE tree'[Source(s)] = tree[Source(s)]
    <3>1. PICK op \in todo[s] :
             \/ \E new : tree' = [tree EXCEPT ![LocationOf(s, op.dst)] = new]
             \/ UNCHANGED tree
      BY <2>2 DEF ApplyNext
    <3>2. LocationOf(s, op.dst) = Mirror(s)
      BY DEF TodoTargetsMirror
    <3> QED
      BY <2>1, <3>1, <3>2 DEF TypeOK
  <2>3. ASSUME Begin(s) \/ Merge(s) \/ Save(s) \/ Crash(s) PROVE UNCHANGED tree
    BY <2>3 DEF Begin, Merge, Save, Crash, disk
  <2> QED
    BY <2>2, <2>3 DEF Engine
<1> QED
  BY <1>1, TypeCorrect, OnewayTargets, PTL DEF Spec, SourceUntouched


----------------------------------------------------------------------------
(* The two-way pass on a directory of files and symlinks: nothing is lost  *)
(* and the saved baseline is true.                                         *)

\* One directory, without directories in it.
Flat == \A sh \in Shapes : Len(sh) = 1

\* Files, symlinks and nothing else.
Plain(t) == \A p \in Paths : t[p] = None \/ t[p].type \in {"file", "symlink"}

\* A path that was made by a conflict of the pass with stamp t.
StampedBy(p, t) == t \in p[Len(p)].stamps

\* In a flat directory nothing lies above or below a path.
LEMMA FlatPaths ==
    ASSUME Flat, NEW p \in Paths
    PROVE  /\ Len(p) = 1
           /\ \E c : p = <<c>>
           /\ Ancestors(p) = {}
           /\ Below[p] = {}
           /\ \A q \in Paths : Beneath(p, q) <=> q = p
<1>1. ASSUME NEW q \in Paths PROVE Len(q) = 1 /\ \E c : q = <<c>>
  <2>1. PICK sh \in Shapes : q \in PathsOfShape(sh)
    BY DEF Paths
  <2>2. PICK st \in [1..Len(sh) -> SUBSET Stamps] :
           q = [i \in 1..Len(sh) |-> Component(sh[i], st[i])]
    BY <2>1 DEF PathsOfShape
  <2>3. Len(sh) = 1
    BY DEF Flat
  <2>4. q = <<Component(sh[1], st[1])>>
    BY <2>2, <2>3
  <2> QED
    BY <2>4
<1>2. Ancestors(p) = {}
  BY <1>1 DEF Ancestors
<1>3. Below[p] = {}
  BY <1>1 DEF Below
<1> QED
  BY <1>1, <1>2, <1>3 DEF Beneath

\* A stamp added to a path takes nothing of its other stamps away.
LEMMA OneMore ==
    ASSUME NEW S, NEW R, NEW t, ~ (t \in S), ~ (t \in R), S \cup {t} = R \cup {t}
    PROVE  S = R
<1>1. ASSUME NEW x \in S PROVE x \in R
  <2>1. x \in R \cup {t} /\ x # t
    OBVIOUS
  <2> QED
    BY <2>1
<1>2. ASSUME NEW x \in R PROVE x \in S
  <2>1. x \in S \cup {t} /\ x # t
    OBVIOUS
  <2> QED
    BY <2>1
<1> QED
  BY <1>1, <1>2

\* Conflict names of fresh stamps are fresh, and each belongs to one path.
LEMMA FlatConflictPaths ==
    ASSUME Flat, NEW p \in Paths, NEW t, ~ StampedBy(p, t)
    PROVE  /\ StampedBy(ConflictPath(p, t), t)
           /\ ConflictPath(p, t) # p
           /\ \A s : s # t => (StampedBy(ConflictPath(p, t), s) <=> StampedBy(p, s))
           /\ \A q \in Paths :
                 ~ StampedBy(q, t) /\ ConflictPath(q, t) = ConflictPath(p, t) => q = p
<1>1. ASSUME NEW q \in Paths
      PROVE  /\ q = <<q[1]>> /\ Len(q) = 1
             /\ q[1] = [name |-> q[1].name, stamps |-> q[1].stamps]
             /\ ConflictPath(q, t) = <<[name |-> q[1].name, stamps |-> q[1].stamps \cup {t}]>>
           /\ Len(ConflictPath(q, t)) = 1
           /\ ConflictPath(q, t)[1].name = q[1].name
           /\ ConflictPath(q, t)[1].stamps = q[1].stamps \cup {t}
  <2>1. PICK sh \in Shapes : q \in PathsOfShape(sh)
    BY DEF Paths
  <2>2. PICK st \in [1..Len(sh) -> SUBSET Stamps] :
           q = [i \in 1..Len(sh) |-> Component(sh[i], st[i])]
    BY <2>1 DEF PathsOfShape
  <2>3. Len(sh) = 1
    BY DEF Flat
  <2>4. q = <<Component(sh[1], st[1])>>
    BY <2>2, <2>3
  <2>5. q = <<q[1]>> /\ Len(q) = 1 /\ q[1] = [name |-> q[1].name, stamps |-> q[1].stamps]
    BY <2>4 DEF Component
  <2>6. \A i \in 1..1 : i = 1
    OBVIOUS
  <2> DEFINE body(i) == IF i = Len(q) THEN Component(q[i].name, q[i].stamps \cup {t}) ELSE q[i]
             stamped == [name |-> q[1].name, stamps |-> q[1].stamps \cup {t}]
  <2>7. ConflictPath(q, t) = [i \in 1..1 |-> body(i)]
    BY <2>5 DEF ConflictPath
  <2>8. \A i \in 1..1 : body(i) = stamped
    BY <2>5, <2>6 DEF Component
  <2>9. stamped.name = q[1].name /\ stamped.stamps = q[1].stamps \cup {t}
    OBVIOUS
  <2> HIDE DEF body, stamped
  <2>10. ConflictPath(q, t) = <<stamped>>
    BY <2>7, <2>8
  <2>11. Len(ConflictPath(q, t)) = 1 /\ ConflictPath(q, t)[1] = stamped
    BY <2>10
  <2> QED
    BY <2>5, <2>9, <2>10, <2>11 DEF stamped
<1> DEFINE c == ConflictPath(p, t)
<1>2. Len(c) = 1 /\ c[1].stamps = p[1].stamps \cup {t} /\ c[1].name = p[1].name
  BY <1>1
<1>3. ~ (t \in p[1].stamps)
  BY <1>1 DEF StampedBy
<1>4. StampedBy(c, t) /\ c # p
  BY <1>1, <1>2, <1>3 DEF StampedBy
<1>5. \A s : s # t => (StampedBy(c, s) <=> StampedBy(p, s))
  BY <1>1, <1>2 DEF StampedBy
<1>6. ASSUME NEW q \in Paths, ~ StampedBy(q, t), ConflictPath(q, t) = c PROVE q = p
  <2>1. ~ (t \in q[1].stamps)
    BY <1>1, <1>6 DEF StampedBy
  <2>2. ConflictPath(q, t)[1].stamps = q[1].stamps \cup {t} /\ ConflictPath(q, t)[1].name = q[1].name
    BY <1>1
  <2>3. q[1].stamps \cup {t} = p[1].stamps \cup {t} /\ q[1].name = p[1].name
    BY <1>2, <1>6, <2>2
  <2>4. q[1].stamps = p[1].stamps
    BY <1>3, <2>1, <2>3, OneMore
  <2>5. q = <<[name |-> q[1].name, stamps |-> q[1].stamps]>>
    BY <1>1
  <2>6. p = <<[name |-> p[1].name, stamps |-> p[1].stamps]>>
    BY <1>1
  <2> QED
    BY <2>3, <2>4, <2>5, <2>6, Zenon
<1> QED
  BY <1>4, <1>5, <1>6


\* Among files, symlinks and absent entries the fast-path identity compares the
\* type and the version.
Content(e) == e \in Entry /\ (e = None \/ e.type \in {"file", "symlink"})

\* (model.Entry's FastEqual, on such entries.)
LEMMA ContentIdentity ==
    ASSUME NEW a, NEW b, Content(a), Content(b)
    PROVE  /\ SameIdentity(a, b) <=> a.type = b.type /\ a.ver = b.ver
           /\ SameIdentity(a, b) => (a = None <=> b = None)
           /\ a = None <=> a.type = "none"
           /\ a = None => a.ver = 0
           /\ a.type \in {"none", "file", "symlink"}
  BY DEF Content, SameIdentity, None

\* The system calls of the executor in a flat directory.
LEMMA FlatCalls ==
    ASSUME Flat, NEW t \in Tree, NEW p \in Paths, NEW q \in Paths
    PROVE  /\ CanMkParent(t, p) /\ MkParent(t, p) = t
           /\ CanRemove(t, p) /\ ~ HasChildren(t, p)
           /\ (p # q /\ t[p] # None /\ t[p].type # "dir" /\ t[q] = None)
                 => /\ CanRename(t, p, q)
                    /\ Rename(t, p, q) = [t EXCEPT ![q] = t[p], ![p] = None]
<1>1. CanMkParent(t, p) /\ MkParent(t, p) = t
  BY FlatPaths DEF CanMkParent, MkParent, Tree
<1>2. CanRemove(t, p) /\ ~ HasChildren(t, p)
  BY FlatPaths DEF CanRemove, HasChildren
<1>3. ASSUME p # q, t[p] # None, t[p].type # "dir", t[q] = None PROVE CanRename(t, p, q)
  <2>1. ~ Beneath(p, q) /\ Ancestors(q) = {}
    BY <1>3, FlatPaths
  <2> QED
    BY <1>3, <2>1 DEF CanRename, None
<1>4. ASSUME p # q PROVE Rename(t, p, q) = [t EXCEPT ![q] = t[p], ![p] = None]
  <2>1. RenamedFrom(p, q, q) = p
    <3>1. PICK c, d : p = <<c>> /\ q = <<d>>
      BY FlatPaths
    <3>2. SubSeq(q, Len(q) + 1, Len(q)) = << >>
      BY <3>1
    <3>3. p \in Seq({c})
      BY <3>1
    <3> QED
      BY <3>2, <3>3, ConcatEmptySeq DEF RenamedFrom
  <2>2. \A x \in Paths : (Beneath(q, x) <=> x = q) /\ (Beneath(p, x) <=> x = p)
    BY FlatPaths
  <2>3. \A x \in Paths : Rename(t, p, q)[x] = IF x = q THEN t[p] ELSE IF x = p THEN None ELSE t[x]
    BY <2>1, <2>2 DEF Rename
  <2>4. \A x \in Paths : [t EXCEPT ![q] = t[p], ![p] = None][x]
                            = IF x = q THEN t[p] ELSE IF x = p THEN None ELSE t[x]
    BY <1>4 DEF Tree
  <2>5. Rename(t, p, q) = [x \in Paths |-> Rename(t, p, q)[x]]
    BY DEF Rename
  <2>6. [t EXCEPT ![q] = t[p], ![p] = None]
           = [x \in Paths |-> [t EXCEPT ![q] = t[p], ![p] = None][x]]
    BY DEF Tree
  <2> QED
    BY <2>3, <2>4, <2>5, <2>6
<1> QED
  BY <1>1, <1>2, <1>3, <1>4

\* So do its operations.
LEMMA FlatApply ==
    ASSUME Flat, NEW op \in Op, NEW src \in Tree, NEW t \in Tree, NEW l
    PROVE  /\ op.kind = "delete" => ApplyOne(op, src, t, l) = [t EXCEPT ![op.path] = None]
           /\ (/\ op.kind = "copy"
               /\ op.type \in {"file", "symlink"}
               /\ src[op.path].type = op.type
               /\ t[op.path].type # "dir")
                 => \E e : /\ e.type = src[op.path].type
                           /\ e.ver = src[op.path].ver
                           /\ ApplyOne(op, src, t, l) = [t EXCEPT ![op.path] = e]
           /\ (/\ op.kind = "conflictRename"
               /\ op.old # op.path
               /\ t[op.old] # None
               /\ t[op.old].type # "dir"
               /\ t[op.path] = None)
                 => ApplyOne(op, src, t, l)
                       = [t EXCEPT ![op.path] = t[op.old], ![op.old] = None]
<1>1. op.path \in Paths /\ op.old \in Paths
  BY DEF Op
<1>2. ASSUME op.kind = "delete" PROVE ApplyOne(op, src, t, l) = [t EXCEPT ![op.path] = None]
  BY <1>1, <1>2, FlatCalls DEF ApplyOne, Remove
<1>3. ASSUME op.kind = "copy", op.type \in {"file", "symlink"},
             src[op.path].type = op.type, t[op.path].type # "dir"
      PROVE  \E e : /\ e.type = src[op.path].type
                    /\ e.ver = src[op.path].ver
                    /\ ApplyOne(op, src, t, l) = [t EXCEPT ![op.path] = e]
  <2>1. CanMkParent(t, op.path) /\ MkParent(t, op.path) = t /\ ~ HasChildren(t, op.path)
    BY <1>1, FlatCalls
  <2>2. CanCopy(src, t, op.path, op.type)
    BY <1>3, <2>1 DEF CanCopy
  <2> DEFINE e == Copied(src, l, op.path, op.type)
  <2>3. ApplyOne(op, src, t, l) = [t EXCEPT ![op.path] = e]
    BY <1>3, <2>1, <2>2 DEF ApplyOne, Copy
  <2>4. e.type = src[op.path].type /\ e.ver = src[op.path].ver
    BY <1>3 DEF Copied, File, Symlink
  <2> QED
    BY <2>3, <2>4
<1>4. ASSUME op.kind = "conflictRename", op.old # op.path, t[op.old] # None,
             t[op.old].type # "dir", t[op.path] = None
      PROVE  ApplyOne(op, src, t, l) = [t EXCEPT ![op.path] = t[op.old], ![op.old] = None]
  BY <1>1, <1>4, FlatCalls DEF ApplyOne
<1> QED
  BY <1>2, <1>3, <1>4


----------------------------------------------------------------------------
(* What a merge decides for a path, by the side that has to change.  F holds *)
(* the trees of the two sides when they were scanned.                      *)

\* Only the other side has changed: side d follows.
Follows(B, F, d, p) ==
    /\ SameIdentity(B[p], F[d][p])
    /\ ~ SameIdentity(B[p], F[OtherSide(d)][p])

\* Both sides have changed, and differently.
Clash(B, F, p) ==
    /\ \A d \in Sides : ~ SameIdentity(B[p], F[d][p])
    /\ ~ SameIdentity(F["primary"][p], F["secondary"][p])

\* Side d has to give its entry a conflict name.
Loses(B, F, d, p) ==
    /\ Clash(B, F, p)
    /\ F[d][p] # None
    /\ d = "secondary" \/ F["secondary"][p] = None

FollowOp(F, d, p) ==
    LET new == F[OtherSide(d)][p]
    IN  IF new = None THEN MkOp("delete", d, p, p, F[d][p].type, p, 1)
                      ELSE MkOp("copy", d, p, p, new.type, p, 1)
AsideOp(F, t, d, p) ==
    MkOp("conflictRename", d, ConflictPath(p, t), p, F[d][p].type, p, 1)
KeptOp(F, t, d, p) ==
    MkOp("copy", OtherSide(d), ConflictPath(p, t), ConflictPath(p, t), F[d][p].type, p, 2)
WinnerOp(F, d, p) ==
    MkOp("copy", d, p, p, F[OtherSide(d)][p].type, p, 3)

GroupOps(B, F, t, p) ==
    {FollowOp(F, d, p) : d \in {x \in Sides : Follows(B, F, x, p)}}
    \cup (UNION {{AsideOp(F, t, d, p), KeptOp(F, t, d, p)} : d \in {x \in Sides : Loses(B, F, x, p)}})
    \cup {WinnerOp(F, d, p) :
             d \in {x \in Sides : Loses(B, F, x, p) /\ F[OtherSide(x)][p] # None}}

\* There are two sides.
LEMMA TwoSides ==
    /\ Sides = {"primary", "secondary"}
    /\ OtherSide("primary") = "secondary" /\ OtherSide("secondary") = "primary"
    /\ \A d \in Sides : /\ OtherSide(d) \in Sides /\ OtherSide(d) # d
                        /\ OtherSide(OtherSide(d)) = d
                        /\ \A e \in Sides : e = d \/ e = OtherSide(d)
  BY DEF Sides, OtherSide

\* What of the three is the case for a path, and for which side, is settled.
LEMMA OneVerdict ==
    ASSUME NEW B, NEW F, NEW p, NEW d \in Sides
    PROVE  /\ Follows(B, F, d, p) => /\ ~ Follows(B, F, OtherSide(d), p)
                                     /\ ~ Clash(B, F, p)
                                     /\ \A e : ~ Loses(B, F, e, p)
           /\ Loses(B, F, d, p) => /\ ~ Loses(B, F, OtherSide(d), p)
                                   /\ \A e \in Sides : ~ Follows(B, F, e, p)
                                   /\ F[OtherSide(d)][p] # None => d = "secondary"
           /\ Clash(B, F, p) => \A e \in Sides : ~ Follows(B, F, e, p)
  BY TwoSides DEF Follows, Clash, Loses

\* The code's switch, by sides.
LEMMA GroupIsPathOps ==
    ASSUME NEW B, NEW F, NEW t, NEW p,
           Content(B[p]), \A d \in Sides : Content(F[d][p])
    PROVE  PathOps(p, t, B[p], F["primary"][p], F["secondary"][p]) = GroupOps(B, F, t, p)
<1> DEFINE b == B[p]
           pr == F["primary"][p]
           se == F["secondary"][p]
<1>1. /\ b.type \in {"none", "file", "symlink"} /\ pr.type \in {"none", "file", "symlink"}
      /\ se.type \in {"none", "file", "symlink"}
      /\ pr = None <=> pr.type = "none"
      /\ se = None <=> se.type = "none"
  BY TwoSides, ContentIdentity
<1>2. /\ Follows(B, F, "primary", p) <=> SameIdentity(b, pr) /\ ~ SameIdentity(b, se)
      /\ Follows(B, F, "secondary", p) <=> SameIdentity(b, se) /\ ~ SameIdentity(b, pr)
      /\ Clash(B, F, p) <=> /\ ~ SameIdentity(b, pr) /\ ~ SameIdentity(b, se)
                            /\ ~ SameIdentity(pr, se)
  BY TwoSides DEF Follows, Clash
<1>3. /\ Loses(B, F, "primary", p) <=> Clash(B, F, p) /\ pr # None /\ se = None
      /\ Loses(B, F, "secondary", p) <=> Clash(B, F, p) /\ se # None
  BY DEF Loses
<1>4. ~ SameIdentity(pr, se) => pr # None \/ se # None
  BY DEF SameIdentity
<1>5. \A d \in Sides : F[d][p].type # "dir"
  BY <1>1, TwoSides
<1> DEFINE fol(d) == FollowOp(F, d, p)
           asi(d) == AsideOp(F, t, d, p)
           kep(d) == KeptOp(F, t, d, p)
           win(d) == WinnerOp(F, d, p)
           pa == "primary"
           sa == "secondary"
<1> DEFINE s1 == IF Follows(B, F, pa, p) THEN {fol(pa)} ELSE {}
           s2 == IF Follows(B, F, sa, p) THEN {fol(sa)} ELSE {}
           s3 == IF Loses(B, F, pa, p) THEN {asi(pa), kep(pa)} ELSE {}
           s4 == IF Loses(B, F, sa, p) THEN {asi(sa), kep(sa)} ELSE {}
           s5 == IF Loses(B, F, pa, p) /\ se # None THEN {win(pa)} ELSE {}
           s6 == IF Loses(B, F, sa, p) /\ pr # None THEN {win(sa)} ELSE {}
           six == s1 \cup s2 \cup s3 \cup s4 \cup s5 \cup s6
<1>6. GroupOps(B, F, t, p) = six
  <2> HIDE DEF fol, asi, kep, win
  <2>1. {x \in Sides : Loses(B, F, x, p)} =
           (IF Loses(B, F, pa, p) THEN {pa} ELSE {}) \cup (IF Loses(B, F, sa, p) THEN {sa} ELSE {})
    BY TwoSides
  <2>2. {x \in Sides : Follows(B, F, x, p)} =
           (IF Follows(B, F, pa, p) THEN {pa} ELSE {}) \cup (IF Follows(B, F, sa, p) THEN {sa} ELSE {})
    BY TwoSides
  <2>3. {x \in Sides : Loses(B, F, x, p) /\ F[OtherSide(x)][p] # None} =
           (IF Loses(B, F, pa, p) /\ se # None THEN {pa} ELSE {})
           \cup (IF Loses(B, F, sa, p) /\ pr # None THEN {sa} ELSE {})
    BY TwoSides
  <2> DEFINE ls == {x \in Sides : Loses(B, F, x, p)}
             fs == {x \in Sides : Follows(B, F, x, p)}
             ws == {x \in Sides : Loses(B, F, x, p) /\ F[OtherSide(x)][p] # None}
  <2>4. GroupOps(B, F, t, p) =
           {fol(d) : d \in fs} \cup (UNION {{asi(d), kep(d)} : d \in ls}) \cup {win(d) : d \in ws}
    BY DEF GroupOps, fol, asi, kep, win
  <2> HIDE DEF ls, fs, ws
  <2>5. {fol(d) : d \in fs} = s1 \cup s2
    BY <2>2 DEF fs
  <2>6. UNION {{asi(d), kep(d)} : d \in ls} = s3 \cup s4
    BY <2>1 DEF ls
  <2>7. {win(d) : d \in ws} = s5 \cup s6
    BY <2>3 DEF ws
  <2> DEFINE fo == {fol(d) : d \in fs}
             ak == UNION {{asi(d), kep(d)} : d \in ls}
             wi == {win(d) : d \in ws}
             f2 == s1 \cup s2
             a2 == s3 \cup s4
             w2 == s5 \cup s6
  <2> HIDE DEF fo, ak, wi, f2, a2, w2
  <2>8. GroupOps(B, F, t, p) = f2 \cup a2 \cup w2
    <3>1. fo = f2 /\ ak = a2 /\ wi = w2
      BY <2>5, <2>6, <2>7 DEF fo, ak, wi, f2, a2, w2
    <3>2. GroupOps(B, F, t, p) = fo \cup ak \cup wi
      BY <2>4 DEF fo, ak, wi
    <3> QED
      BY <3>1, <3>2
  <2> HIDE DEF s1, s2, s3, s4, s5, s6
  <2> QED
    BY <2>8 DEF f2, a2, w2
<1>7. Propagate(pa, p, se, pr) = {fol(pa)}
  BY <1>1, TwoSides DEF Propagate, FollowOp, DelKind, CreateKind
<1>8. Propagate(sa, p, pr, se) = {fol(sa)}
  BY <1>1, TwoSides DEF Propagate, FollowOp, DelKind, CreateKind
<1>9. /\ ConflictOps(p, t, pr, se) = {asi(sa), kep(sa), win(sa)}
      /\ ConflictDeleteOps(sa, p, t, se) = {asi(sa), kep(sa)}
      /\ ConflictDeleteOps(pa, p, t, pr) = {asi(pa), kep(pa)}
  BY TwoSides DEF ConflictOps, ConflictDeleteOps, AsideOp, KeptOp, WinnerOp
<1> HIDE DEF fol, asi, kep, win, b, pr, se
<1>10. PathOps(p, t, b, pr, se) = six
  <2> DEFINE sp == SameIdentity(b, pr)
             ss == SameIdentity(b, se)
  <2>1. CASE sp /\ ss
    <3>1. PathOps(p, t, b, pr, se) = {}
      BY <2>1 DEF PathOps, Verdict
    <3> QED
      BY <2>1, <3>1, <1>2, <1>3
  <2>2. CASE sp /\ ~ ss
    <3>1. PathOps(p, t, b, pr, se) = Propagate(pa, p, se, pr)
      BY <2>2 DEF PathOps, Verdict
    <3> QED
      BY <2>2, <3>1, <1>2, <1>3, <1>7
  <2>3. CASE ~ sp /\ ss
    <3>1. PathOps(p, t, b, pr, se) = Propagate(sa, p, pr, se)
      BY <2>3 DEF PathOps, Verdict
    <3> QED
      BY <2>3, <3>1, <1>2, <1>3, <1>8
  <2>4. CASE ~ sp /\ ~ ss /\ SameIdentity(pr, se)
    <3>1. PathOps(p, t, b, pr, se) = {}
      BY <2>4 DEF PathOps, Verdict
    <3> QED
      BY <2>4, <3>1, <1>2, <1>3
  <2>5. CASE ~ sp /\ ~ ss /\ ~ SameIdentity(pr, se) /\ pr = None
    <3>1. PathOps(p, t, b, pr, se) = ConflictDeleteOps(sa, p, t, se)
      BY <2>5 DEF PathOps, Verdict
    <3> QED
      BY <2>5, <3>1, <1>2, <1>3, <1>4, <1>9
  <2>6. CASE ~ sp /\ ~ ss /\ ~ SameIdentity(pr, se) /\ pr # None /\ se = None
    <3>1. PathOps(p, t, b, pr, se) = ConflictDeleteOps(pa, p, t, pr)
      BY <2>6 DEF PathOps, Verdict
    <3> QED
      BY <2>6, <3>1, <1>2, <1>3, <1>4, <1>9
  <2>7. CASE ~ sp /\ ~ ss /\ ~ SameIdentity(pr, se) /\ pr # None /\ se # None
    <3>1. PathOps(p, t, b, pr, se) = ConflictOps(p, t, pr, se)
      BY <2>7 DEF PathOps, Verdict
    <3> QED
      BY <2>7, <3>1, <1>2, <1>3, <1>4, <1>9
  <2> QED
    BY <2>1, <2>2, <2>3, <2>4, <2>5, <2>6, <2>7
<1> HIDE DEF six
<1> QED
  BY <1>6, <1>10 DEF b, pr, se


----------------------------------------------------------------------------
(* A pass on its way.  B is the baseline, F[d] is what side d looked like  *)
(* when it was scanned, T[d] what it looks like now, ops are the           *)
(* operations not applied yet and t is the stamp of the pass.              *)

\* What a merge starts from: plain trees, no path with the stamp of this pass,
\* and nothing that rename detection takes for a rename.
Start(B, F, t) ==
    /\ B \in Tree /\ F \in [Sides -> Tree]
    /\ Plain(B) /\ \A d \in Sides : Plain(F[d])
    /\ \A p \in Paths : StampedBy(p, t) => B[p] = None /\ \A d \in Sides : F[d][p] = None
    /\ (\E p \in Paths : Clash(B, F, p)) => t \in Stamps
    /\ RenamePairs(B, F["primary"], F["secondary"]) = {}
    /\ RenamePairs(B, F["secondary"], F["primary"]) = {}

Merged(B, F, t) == MergeOps(B, F["primary"], F["secondary"], t)

\* Operation i of path p has not been applied yet.
Pending(ops, p, i) == \E op \in ops : op.at = p /\ op.seq = i

FollowsDone(F, ops, T, d, p) ==
    IF Pending(ops, p, 1) THEN T[d][p] = F[d][p]
                          ELSE SameIdentity(T[d][p], F[OtherSide(d)][p])

LosesDone(F, t, ops, T, d, p) ==
    LET o == OtherSide(d)
        c == ConflictPath(p, t)
    IN  /\ IF Pending(ops, p, 1)
             THEN /\ T[d][p] = F[d][p]
                  /\ T[d][c] = None
                  /\ Pending(ops, p, 2)
                  /\ F[o][p] # None => Pending(ops, p, 3)
             ELSE /\ T[d][c] = F[d][p]
                  /\ IF Pending(ops, p, 3) THEN T[d][p] = None
                                           ELSE SameIdentity(T[d][p], F[o][p])
        /\ IF Pending(ops, p, 2) THEN T[o][c] = None
                                 ELSE SameIdentity(T[o][c], F[d][p])

\* Every cell of the two trees is as its operations have left it.
InProgress(B, F, t, ops, T) ==
    \A d \in Sides, p \in Paths :
        /\ Follows(B, F, d, p) => FollowsDone(F, ops, T, d, p)
        /\ Loses(B, F, d, p) => LosesDone(F, t, ops, T, d, p)
        /\ (~ Follows(B, F, d, p) /\ ~ Loses(B, F, d, p) /\ ~ StampedBy(p, t))
              => T[d][p] = F[d][p]
        /\ (StampedBy(p, t) /\ \A x \in Paths : Clash(B, F, x) => ConflictPath(x, t) # p)
              => T[d][p] = None

\* The entries of plain trees.
LEMMA PlainContent ==
    ASSUME NEW u \in Tree, Plain(u), NEW p \in Paths
    PROVE  Content(u[p])
  BY DEF Plain, Content, Tree

\* The entries a merge starts from.
LEMMA StartContent ==
    ASSUME NEW B, NEW F, NEW t, Start(B, F, t), NEW p \in Paths
    PROVE  Content(B[p]) /\ \A d \in Sides : Content(F[d][p])
  BY PlainContent DEF Start

\* A path with the stamp of the pass has no verdict of its own.
LEMMA NoVerdictForStamped ==
    ASSUME NEW B, NEW F, NEW t, Start(B, F, t), NEW p \in Paths, NEW d \in Sides,
           Follows(B, F, d, p) \/ Clash(B, F, p) \/ Loses(B, F, d, p)
    PROVE  ~ StampedBy(p, t)
<1> SUFFICES ASSUME StampedBy(p, t) PROVE FALSE
  OBVIOUS
<1>1. B[p] = None /\ \A x \in Sides : F[x][p] = None
  BY DEF Start
<1>2. SameIdentity(None, None)
  BY DEF SameIdentity
<1>3. \A x \in Sides : ~ Follows(B, F, x, p)
  BY <1>1, <1>2, TwoSides DEF Follows
<1>4. ~ Clash(B, F, p)
  BY <1>1, <1>2, TwoSides DEF Clash
<1> QED
  BY <1>3, <1>4 DEF Loses

\* The operations of a merge without renames, path by path.
LEMMA MergedGroups ==
    ASSUME NEW B, NEW F, NEW t, Start(B, F, t)
    PROVE  Merged(B, F, t) = UNION {GroupOps(B, F, t, p) : p \in Paths}
<1> DEFINE P == F["primary"]
           S == F["secondary"]
           group(p) == PathOps(p, t, B[p], P[p], S[p])
<1>1. RenamePairs(B, P, S) = {} /\ RenamePairs(B, S, P) = {}
  BY DEF Start
<1>2. Renamed(B, P, S) = {} /\ RenameOps(B, P, S) = {}
  BY <1>1 DEF Renamed, RenameOps
<1>3. \A p \in Paths : group(p) = GroupOps(B, F, t, p)
  BY StartContent, GroupIsPathOps
<1> HIDE DEF group
<1>4. MergeOps(B, P, S, t) = UNION {group(p) : p \in Paths}
  BY <1>2 DEF MergeOps, group
<1> QED
  BY <1>3, <1>4 DEF Merged

\* The fields of the operations.
LEMMA SameNameFields ==
    ASSUME NEW F, NEW d, NEW p
    PROVE  /\ FollowOp(F, d, p).at = p /\ FollowOp(F, d, p).seq = 1
           /\ FollowOp(F, d, p).dst = d /\ FollowOp(F, d, p).path = p
           /\ IF F[OtherSide(d)][p] = None
                THEN FollowOp(F, d, p).kind = "delete"
                ELSE /\ FollowOp(F, d, p).kind = "copy"
                     /\ FollowOp(F, d, p).type = F[OtherSide(d)][p].type
           /\ WinnerOp(F, d, p).at = p /\ WinnerOp(F, d, p).seq = 3
           /\ WinnerOp(F, d, p).dst = d /\ WinnerOp(F, d, p).path = p
           /\ WinnerOp(F, d, p).kind = "copy"
           /\ WinnerOp(F, d, p).type = F[OtherSide(d)][p].type
  BY DEF FollowOp, WinnerOp, MkOp

\* The fields of the operations on a conflict name.
LEMMA ConflictFields ==
    ASSUME NEW F, NEW t, NEW d, NEW p
    PROVE  /\ AsideOp(F, t, d, p).at = p /\ AsideOp(F, t, d, p).seq = 1
           /\ AsideOp(F, t, d, p).dst = d /\ AsideOp(F, t, d, p).old = p
           /\ AsideOp(F, t, d, p).path = ConflictPath(p, t)
           /\ AsideOp(F, t, d, p).kind = "conflictRename"
           /\ KeptOp(F, t, d, p).at = p /\ KeptOp(F, t, d, p).seq = 2
           /\ KeptOp(F, t, d, p).dst = OtherSide(d)
           /\ KeptOp(F, t, d, p).path = ConflictPath(p, t)
           /\ KeptOp(F, t, d, p).kind = "copy" /\ KeptOp(F, t, d, p).type = F[d][p].type
  BY DEF AsideOp, KeptOp, MkOp

\* The operations of a path are told apart by their position.
LEMMA GroupSlots ==
    ASSUME NEW B, NEW F, NEW t, NEW p
    PROVE  /\ \A d \in Sides : Follows(B, F, d, p) =>
                 \A op \in GroupOps(B, F, t, p) : op = FollowOp(F, d, p)
           /\ \A d \in Sides : Loses(B, F, d, p) =>
                 \A op \in GroupOps(B, F, t, p) :
                     \/ op = AsideOp(F, t, d, p)
                     \/ op = KeptOp(F, t, d, p)
                     \/ op = WinnerOp(F, d, p) /\ F[OtherSide(d)][p] # None
           /\ \A op \in GroupOps(B, F, t, p) :
                 \E d \in Sides : Follows(B, F, d, p) \/ Loses(B, F, d, p)
           /\ \A op \in GroupOps(B, F, t, p) : op.at = p
           /\ \A o1, o2 \in GroupOps(B, F, t, p) : o1.seq = o2.seq => o1 = o2
<1>1. ASSUME NEW op \in GroupOps(B, F, t, p)
      PROVE  \E d \in Sides :
                \/ Follows(B, F, d, p) /\ op = FollowOp(F, d, p)
                \/ Loses(B, F, d, p) /\ op = AsideOp(F, t, d, p)
                \/ Loses(B, F, d, p) /\ op = KeptOp(F, t, d, p)
                \/ Loses(B, F, d, p) /\ F[OtherSide(d)][p] # None /\ op = WinnerOp(F, d, p)
  BY DEF GroupOps
<1>2. ASSUME NEW d \in Sides, Follows(B, F, d, p), NEW op \in GroupOps(B, F, t, p)
      PROVE  op = FollowOp(F, d, p)
  BY <1>1, <1>2, TwoSides, OneVerdict
<1>3. ASSUME NEW d \in Sides, Loses(B, F, d, p), NEW op \in GroupOps(B, F, t, p)
      PROVE  \/ op = AsideOp(F, t, d, p)
             \/ op = KeptOp(F, t, d, p)
             \/ op = WinnerOp(F, d, p) /\ F[OtherSide(d)][p] # None
  BY <1>1, <1>3, TwoSides, OneVerdict
<1>4. ASSUME NEW op \in GroupOps(B, F, t, p) PROVE op.at = p
  <2>1. PICK d \in Sides : op \in {FollowOp(F, d, p), AsideOp(F, t, d, p),
                                  KeptOp(F, t, d, p), WinnerOp(F, d, p)}
    BY <1>1
  <2> QED
    BY <2>1, SameNameFields, ConflictFields
<1>5. ASSUME NEW o1 \in GroupOps(B, F, t, p), NEW o2 \in GroupOps(B, F, t, p), o1.seq = o2.seq
      PROVE  o1 = o2
  <2>1. PICK d \in Sides : Follows(B, F, d, p) \/ Loses(B, F, d, p)
    BY <1>1
  <2>2. CASE Follows(B, F, d, p)
    BY <1>2, <2>2
  <2>3. CASE Loses(B, F, d, p)
    BY <1>3, <1>5, <2>3, SameNameFields, ConflictFields
  <2> QED
    BY <2>1, <2>2, <2>3
<1>6. \A op \in GroupOps(B, F, t, p) :
         \E d \in Sides : Follows(B, F, d, p) \/ Loses(B, F, d, p)
  BY <1>1
<1> QED
  BY <1>2, <1>3, <1>4, <1>5, <1>6, Zenon


\* At the start everything is pending.
LEMMA StartProgress ==
    ASSUME Flat, NEW B, NEW F, NEW t, Start(B, F, t)
    PROVE  InProgress(B, F, t, Merged(B, F, t), F)
<1> DEFINE ops == Merged(B, F, t)
<1>1. ASSUME NEW p \in Paths, NEW op \in GroupOps(B, F, t, p) PROVE op \in ops
  BY <1>1, MergedGroups
<1> HIDE DEF ops
<1>2. ASSUME NEW d \in Sides, NEW p \in Paths, Follows(B, F, d, p)
      PROVE  Pending(ops, p, 1)
  <2>1. FollowOp(F, d, p) \in GroupOps(B, F, t, p)
    BY <1>2 DEF GroupOps
  <2> QED
    BY <1>1, <2>1, SameNameFields, ConflictFields DEF Pending
<1>3. ASSUME NEW d \in Sides, NEW p \in Paths, Loses(B, F, d, p)
      PROVE  LosesDone(F, t, ops, F, d, p)
  <2>1. AsideOp(F, t, d, p) \in GroupOps(B, F, t, p) /\ KeptOp(F, t, d, p) \in GroupOps(B, F, t, p)
    BY <1>3 DEF GroupOps
  <2>2. F[OtherSide(d)][p] # None => WinnerOp(F, d, p) \in GroupOps(B, F, t, p)
    BY <1>3 DEF GroupOps
  <2>3. Pending(ops, p, 1) /\ Pending(ops, p, 2)
    BY <1>1, <2>1, SameNameFields, ConflictFields DEF Pending
  <2>4. F[OtherSide(d)][p] # None => Pending(ops, p, 3)
    BY <1>1, <2>2, SameNameFields, ConflictFields DEF Pending
  <2>5. t \in Stamps /\ ~ StampedBy(p, t)
    BY <1>3, NoVerdictForStamped DEF Start, Loses
  <2>6. ConflictPath(p, t) \in Paths /\ StampedBy(ConflictPath(p, t), t)
    BY <2>5, ConflictPathType, FlatConflictPaths
  <2>7. F[d][ConflictPath(p, t)] = None /\ F[OtherSide(d)][ConflictPath(p, t)] = None
    BY <2>6, TwoSides DEF Start
  <2> QED
    BY <2>3, <2>4, <2>7 DEF LosesDone
<1>4. ASSUME NEW d \in Sides, NEW p \in Paths, StampedBy(p, t) PROVE F[d][p] = None
  BY <1>4 DEF Start
<1> QED
  BY <1>2, <1>3, <1>4 DEF InProgress, FollowsDone, ops

\* Applying an operation takes it from the pending ones, and only it.
LEMMA PendingShrinks ==
    ASSUME NEW B, NEW F, NEW t, Start(B, F, t),
           NEW ops \in SUBSET Merged(B, F, t), NEW op \in ops
    PROVE  \A q, i : Pending(ops \ {op}, q, i)
                        <=> Pending(ops, q, i) /\ ~ (q = op.at /\ i = op.seq)
<1>1. ASSUME NEW o1 \in Merged(B, F, t), NEW o2 \in Merged(B, F, t),
             o1.at = o2.at, o1.seq = o2.seq
      PROVE  o1 = o2
  <2>1. PICK p \in Paths : o1 \in GroupOps(B, F, t, p)
    BY MergedGroups
  <2>2. PICK q \in Paths : o2 \in GroupOps(B, F, t, q)
    BY MergedGroups
  <2>3. p = q
    BY <1>1, <2>1, <2>2, GroupSlots
  <2> QED
    BY <1>1, <2>1, <2>2, <2>3, GroupSlots
<1> QED
  BY <1>1 DEF Pending

\* The operations of one path are applied in their order.
LEMMA InOrder ==
    ASSUME NEW B, NEW F, NEW t, Start(B, F, t),
           NEW ops \in SUBSET Merged(B, F, t), NEW op \in ops, IsFirst(op, ops),
           NEW d \in Sides, NEW p \in Paths, Loses(B, F, d, p),
           op = KeptOp(F, t, d, p) \/ op = WinnerOp(F, d, p)
    PROVE  ~ Pending(ops, p, 1)
<1> SUFFICES ASSUME NEW o1 \in ops, o1.at = p, o1.seq = 1 PROVE FALSE
  BY DEF Pending
<1>1. PICK q \in Paths : o1 \in GroupOps(B, F, t, q)
  BY MergedGroups
<1>2. o1 \in GroupOps(B, F, t, p)
  BY <1>1, GroupSlots
<1>3. o1 = AsideOp(F, t, d, p)
  BY <1>2, GroupSlots, SameNameFields, ConflictFields
<1>4. Phase(o1) = 2 /\ Phase(op) = 2 /\ op.kind # "rename" /\ op.at = p /\ op.seq \in {2, 3}
  BY <1>3, SameNameFields, ConflictFields DEF Phase, IsDelete
<1>5. Precedes(op, o1)
  BY <1>4 DEF IsFirst
<1> QED
  BY <1>4, <1>5 DEF Precedes


\* The conflicts of a merge without renames.
LEMMA ClashesAreConflicts ==
    ASSUME NEW B, NEW F,
           RenamePairs(B, F["primary"], F["secondary"]) = {},
           RenamePairs(B, F["secondary"], F["primary"]) = {}
    PROVE  Conflicts(B, F["primary"], F["secondary"]) = {p \in Paths : Clash(B, F, p)}
<1> DEFINE P == F["primary"]
           S == F["secondary"]
<1>1. Renamed(B, P, S) = {}
  BY DEF Renamed
<1>2. \A p \in Paths : Verdict(B[p], P[p], S[p]) \in ConflictVerdicts <=> Clash(B, F, p)
  BY TwoSides DEF Verdict, ConflictVerdicts, Clash
<1> QED
  BY <1>1, <1>2 DEF Conflicts

\* The operations of a merge are ones of the executor.
LEMMA MergedType ==
    ASSUME NEW B, NEW F, NEW t, Start(B, F, t)
    PROVE  /\ Merged(B, F, t) \subseteq Op
           /\ Conflicts(B, F["primary"], F["secondary"]) = {p \in Paths : Clash(B, F, p)}
<1> DEFINE P == F["primary"]
           S == F["secondary"]
<1>1. Conflicts(B, P, S) = {p \in Paths : Clash(B, F, p)}
  BY ClashesAreConflicts DEF Start
<1>2. B \in Tree /\ P \in Tree /\ S \in Tree
  BY TwoSides DEF Start
<1>3. Conflicts(B, P, S) # {} => t \in Stamps
  BY <1>1 DEF Start
<1> QED
  BY <1>1, <1>2, <1>3, MergeOpsType DEF Merged

----------------------------------------------------------------------------
(* What one operation does *)

Applied(T, op, l) ==
    [T EXCEPT ![op.dst] = ApplyOne(op, T[OtherSide(op.dst)], T[op.dst], l)]

\* An entry of the other side replaces one that the baseline knows, or none.
Copies(B, T, T2, d, q) ==
    LET o == OtherSide(d)
    IN  /\ T[o][q] # None
        /\ \E e : /\ e.type = T[o][q].type /\ e.ver = T[o][q].ver
                  /\ T2 = [T EXCEPT ![d] = [T[d] EXCEPT ![q] = e]]
        /\ \/ T[d][q] = None
           \/ SameIdentity(B[q], T[d][q]) /\ ~ SameIdentity(B[q], T[o][q])

\* An entry that the baseline knows and the other side no longer has goes.
Deletes(B, T, T2, d, q) ==
    /\ T[OtherSide(d)][q] = None
    /\ SameIdentity(B[q], T[d][q])
    /\ B[q] # None
    /\ T2 = [T EXCEPT ![d] = [T[d] EXCEPT ![q] = None]]

\* A changed entry gets a conflict name nobody uses.
SetsAside(B, T, T2, t, d, q) ==
    LET o == OtherSide(d)
        c == ConflictPath(q, t)
    IN  /\ c \in Paths /\ c # q /\ t \in Stamps /\ ~ StampedBy(q, t)
        /\ T[d][q] # None
        /\ ~ SameIdentity(B[q], T[d][q])
        /\ ~ SameIdentity(B[q], T[o][q])
        /\ ~ SameIdentity(T[o][q], T[d][q])
        /\ B[c] = None /\ T[d][c] = None /\ T[o][c] = None
        /\ T2 = [T EXCEPT ![d] = [T[d] EXCEPT ![c] = T[d][q], ![q] = None]]

\* The change of the side that follows.
LEMMA FollowStep ==
    ASSUME Flat, NEW B, NEW F, NEW t, Start(B, F, t),
           NEW ops \in SUBSET Merged(B, F, t), NEW op \in ops, NEW l,
           NEW T \in [Sides -> Tree], \A x \in Sides : Plain(T[x]),
           InProgress(B, F, t, ops, T),
           NEW d \in Sides, NEW p \in Paths, Follows(B, F, d, p), op = FollowOp(F, d, p)
    PROVE  /\ InProgress(B, F, t, ops \ {op}, Applied(T, op, l))
           /\ Copies(B, T, Applied(T, op, l), d, p) \/ Deletes(B, T, Applied(T, op, l), d, p)
<1> DEFINE o == OtherSide(d)
           T2 == Applied(T, op, l)
<1>1. /\ o \in Sides /\ o # d /\ OtherSide(o) = d
      /\ op.at = p /\ op.seq = 1 /\ op.dst = d /\ op.path = p
      /\ T[d] \in Tree /\ T[o] \in Tree /\ op \in Op
  BY TwoSides, SameNameFields, MergedType
<1>2. ~ StampedBy(p, t)
  BY NoVerdictForStamped
<1>3. ~ Follows(B, F, o, p) /\ ~ Loses(B, F, o, p) /\ ~ Loses(B, F, d, p)
  BY <1>1, OneVerdict
<1>4. Pending(ops, p, 1)
  BY <1>1 DEF Pending
<1>5. T[d][p] = F[d][p] /\ T[o][p] = F[o][p]
  BY <1>1, <1>2, <1>3, <1>4 DEF InProgress, FollowsDone
<1>6. /\ Content(B[p]) /\ Content(F[d][p]) /\ Content(F[o][p])
      /\ SameIdentity(B[p], F[d][p]) /\ ~ SameIdentity(B[p], F[o][p])
  BY <1>1, StartContent DEF Follows
<1>7. PICK e : /\ T2 = [T EXCEPT ![d] = [T[d] EXCEPT ![p] = e]]
               /\ e.type = F[o][p].type /\ e.ver = F[o][p].ver
               /\ F[o][p] = None => e = None
  <2> DEFINE u == ApplyOne(op, T[o], T[d], l)
  <2>3. T2 = [T EXCEPT ![d] = u]
    BY <1>1 DEF Applied
  <2>1. CASE F[o][p] = None
    <3>1. op.kind = "delete"
      BY <2>1, SameNameFields
    <3>2. u = [T[d] EXCEPT ![p] = None]
      BY <1>1, <3>1, FlatApply
    <3> QED
      BY <2>1, <2>3, <3>2
  <2>2. CASE F[o][p] # None
    <3>1. op.kind = "copy" /\ op.type = F[o][p].type
      BY <2>2, SameNameFields
    <3>2. F[o][p].type \in {"file", "symlink"} /\ T[d][p].type # "dir"
      BY <1>5, <1>6, <2>2 DEF Content, None
    <3>3. \E e : /\ e.type = F[o][p].type /\ e.ver = F[o][p].ver
                 /\ u = [T[d] EXCEPT ![p] = e]
      BY <1>1, <1>5, <3>1, <3>2, FlatApply
    <3> QED
      BY <2>2, <2>3, <3>3
  <2> QED
    BY <2>1, <2>2
<1>8. Copies(B, T, T2, d, p) \/ Deletes(B, T, T2, d, p)
  <2>1. CASE F[o][p] = None
    <3>1. B[p] # None
      BY <1>6, <2>1 DEF SameIdentity, None
    <3> QED
      BY <1>5, <1>6, <1>7, <2>1, <3>1 DEF Deletes
  <2>2. CASE F[o][p] # None
    BY <1>1, <1>5, <1>6, <1>7, <2>2 DEF Copies
  <2> QED
    BY <2>1, <2>2
<1>9. InProgress(B, F, t, ops \ {op}, T2)
  <2>1. \A q, i : Pending(ops \ {op}, q, i) <=> Pending(ops, q, i) /\ ~ (q = p /\ i = 1)
    BY <1>1, PendingShrinks
  <2>2. \A x \in Sides, q \in Paths : T2[x][q] = IF x = d /\ q = p THEN e ELSE T[x][q]
    BY <1>1, <1>7 DEF Tree
  <2>3. SameIdentity(e, F[o][p])
    BY <1>7 DEF SameIdentity
  <2> HIDE DEF T2
  <2> SUFFICES ASSUME NEW x \in Sides, NEW q \in Paths
               PROVE  /\ Follows(B, F, x, q) => FollowsDone(F, ops \ {op}, T2, x, q)
                      /\ Loses(B, F, x, q) => LosesDone(F, t, ops \ {op}, T2, x, q)
                      /\ (~ Follows(B, F, x, q) /\ ~ Loses(B, F, x, q) /\ ~ StampedBy(q, t))
                            => T2[x][q] = F[x][q]
                      /\ (StampedBy(q, t) /\ \A y \in Paths : Clash(B, F, y) => ConflictPath(y, t) # q)
                            => T2[x][q] = None
    BY DEF InProgress, T2
  <2>4. ASSUME Follows(B, F, x, q) PROVE FollowsDone(F, ops \ {op}, T2, x, q)
    <3>1. FollowsDone(F, ops, T, x, q)
      BY <2>4 DEF InProgress
    <3>2. CASE x = d /\ q = p
      BY <2>1, <2>2, <2>3, <3>2 DEF FollowsDone
    <3>3. CASE q # p
      BY <2>1, <2>2, <3>1, <3>3 DEF FollowsDone
    <3> QED
      BY <1>3, <2>4, <3>2, <3>3, TwoSides
  <2>5. ASSUME Loses(B, F, x, q) PROVE LosesDone(F, t, ops \ {op}, T2, x, q)
    <3>1. q # p /\ OtherSide(x) \in Sides
      BY <2>5, <1>3, TwoSides
    <3>2. ConflictPath(q, t) \in Paths /\ ConflictPath(q, t) # p
      <4>1. t \in Stamps /\ ~ StampedBy(q, t)
        BY <2>5, NoVerdictForStamped DEF Start, Loses
      <4> QED
        BY <1>2, <4>1, ConflictPathType, FlatConflictPaths
    <3>3. LosesDone(F, t, ops, T, x, q)
      BY <2>5 DEF InProgress
    <3>4. /\ T2[x][q] = T[x][q]
          /\ T2[x][ConflictPath(q, t)] = T[x][ConflictPath(q, t)]
          /\ T2[OtherSide(x)][ConflictPath(q, t)] = T[OtherSide(x)][ConflictPath(q, t)]
      BY <2>2, <3>1, <3>2
    <3>5. \A i : Pending(ops \ {op}, q, i) <=> Pending(ops, q, i)
      BY <2>1, <3>1
    <3> QED
      BY <3>3, <3>4, <3>5 DEF LosesDone
  <2>6. (~ Follows(B, F, x, q) /\ ~ Loses(B, F, x, q) /\ ~ StampedBy(q, t)) => T2[x][q] = F[x][q]
    BY <2>2 DEF InProgress
  <2>7. (StampedBy(q, t) /\ \A y \in Paths : Clash(B, F, y) => ConflictPath(y, t) # q) => T2[x][q] = None
    BY <1>2, <2>2 DEF InProgress
  <2> QED
    BY <2>4, <2>5, <2>6, <2>7
<1> QED
  BY <1>8, <1>9


\* A step on the conflict that side d loses at p leaves the rest as it is.
OnlyConflict(t, ops, ops2, T, T2, d, p) ==
    /\ \A q, i : q # p => (Pending(ops2, q, i) <=> Pending(ops, q, i))
    /\ \A x \in Sides, q \in Paths :
          q # p /\ q # ConflictPath(p, t) => T2[x][q] = T[x][q]
    /\ T2[OtherSide(d)][p] = T[OtherSide(d)][p]

\* What is true of the other paths stays true.
LEMMA OthersStay ==
    ASSUME Flat, NEW B, NEW F, NEW t, Start(B, F, t),
           NEW ops, NEW ops2, NEW T, NEW T2, InProgress(B, F, t, ops, T),
           NEW d \in Sides, NEW p \in Paths, Loses(B, F, d, p),
           OnlyConflict(t, ops, ops2, T, T2, d, p),
           LosesDone(F, t, ops2, T2, d, p)
    PROVE  InProgress(B, F, t, ops2, T2)
<1> USE DEF OnlyConflict
<1> DEFINE c == ConflictPath(p, t)
           o == OtherSide(d)
<1>1. ~ StampedBy(p, t) /\ t \in Stamps /\ Clash(B, F, p)
  BY NoVerdictForStamped DEF Start, Loses
<1>2. c \in Paths /\ StampedBy(c, t) /\ c # p
  BY <1>1, ConflictPathType, FlatConflictPaths
<1>3. \A x \in Sides : ~ Follows(B, F, x, p) /\ (Loses(B, F, x, p) => x = d)
  BY OneVerdict, TwoSides
<1> SUFFICES ASSUME NEW x \in Sides, NEW q \in Paths
             PROVE  /\ Follows(B, F, x, q) => FollowsDone(F, ops2, T2, x, q)
                    /\ Loses(B, F, x, q) => LosesDone(F, t, ops2, T2, x, q)
                    /\ (~ Follows(B, F, x, q) /\ ~ Loses(B, F, x, q) /\ ~ StampedBy(q, t))
                          => T2[x][q] = F[x][q]
                    /\ (StampedBy(q, t) /\ \A y \in Paths : Clash(B, F, y) => ConflictPath(y, t) # q)
                          => T2[x][q] = None
  BY DEF InProgress
<1>4. ASSUME Follows(B, F, x, q) PROVE FollowsDone(F, ops2, T2, x, q)
  <2>1. q # p /\ q # c
    BY <1>2, <1>3, <1>4, NoVerdictForStamped
  <2>2. FollowsDone(F, ops, T, x, q)
    BY <1>4 DEF InProgress
  <2> QED
    BY <2>1, <2>2 DEF FollowsDone
<1>5. ASSUME Loses(B, F, x, q), q # p PROVE LosesDone(F, t, ops2, T2, x, q)
  <2> DEFINE cq == ConflictPath(q, t)
  <2>1. ~ StampedBy(q, t) /\ q # c
    BY <1>2, <1>5, NoVerdictForStamped
  <2>2. cq \in Paths /\ cq # p /\ cq # c
    BY <1>1, <1>5, <2>1, ConflictPathType, FlatConflictPaths
  <2>3. /\ T2[x][q] = T[x][q] /\ T2[x][cq] = T[x][cq]
        /\ T2[OtherSide(x)][cq] = T[OtherSide(x)][cq]
    BY <1>5, <2>1, <2>2, TwoSides
  <2>4. LosesDone(F, t, ops, T, x, q)
    BY <1>5 DEF InProgress
  <2>5. \A i : Pending(ops2, q, i) <=> Pending(ops, q, i)
    BY <1>5
  <2> QED
    BY <2>3, <2>4, <2>5 DEF LosesDone
<1>6. ASSUME Loses(B, F, x, q), q = p PROVE LosesDone(F, t, ops2, T2, x, q)
  BY <1>3, <1>6
<1>7. ASSUME ~ Follows(B, F, x, q), ~ Loses(B, F, x, q), ~ StampedBy(q, t)
      PROVE  T2[x][q] = F[x][q]
  <2>1. T[x][q] = F[x][q] /\ q # c
    BY <1>2, <1>7 DEF InProgress
  <2>2. CASE q = p
    BY <1>7, <2>1, <2>2, TwoSides
  <2>3. CASE q # p
    BY <2>1, <2>3
  <2> QED
    BY <2>2, <2>3
<1>8. ASSUME StampedBy(q, t), \A y \in Paths : Clash(B, F, y) => ConflictPath(y, t) # q
      PROVE  T2[x][q] = None
  <2>1. q # p /\ q # c
    BY <1>1, <1>8
  <2> QED
    BY <1>8, <2>1 DEF InProgress
<1> QED
  BY <1>4, <1>5, <1>6, <1>7, <1>8

\* The losing entry gets its conflict name.
LEMMA AsideStep ==
    ASSUME Flat, NEW B, NEW F, NEW t, Start(B, F, t),
           NEW ops \in SUBSET Merged(B, F, t), NEW op \in ops, NEW l,
           NEW T \in [Sides -> Tree], \A x \in Sides : Plain(T[x]),
           InProgress(B, F, t, ops, T),
           NEW d \in Sides, NEW p \in Paths, Loses(B, F, d, p), op = AsideOp(F, t, d, p)
    PROVE  /\ InProgress(B, F, t, ops \ {op}, Applied(T, op, l))
           /\ SetsAside(B, T, Applied(T, op, l), t, d, p)
<1> DEFINE o == OtherSide(d)
           c == ConflictPath(p, t)
           T2 == Applied(T, op, l)
<1>1. /\ o \in Sides /\ o # d /\ OtherSide(o) = d
      /\ op.at = p /\ op.seq = 1 /\ op.dst = d /\ op.path = c /\ op.old = p
      /\ op.kind = "conflictRename"
      /\ T[d] \in Tree /\ T[o] \in Tree /\ op \in Op
  BY TwoSides, ConflictFields, MergedType
<1>2. ~ StampedBy(p, t) /\ t \in Stamps /\ Clash(B, F, p)
  BY NoVerdictForStamped DEF Start, Loses
<1>3. c \in Paths /\ StampedBy(c, t) /\ c # p
  BY <1>2, ConflictPathType, FlatConflictPaths
<1>4. Pending(ops, p, 1)
  BY <1>1 DEF Pending
<1>5. LosesDone(F, t, ops, T, d, p)
  BY DEF InProgress
<1>6. /\ T[d][p] = F[d][p] /\ T[d][c] = None
      /\ F[o][p] # None => Pending(ops, p, 3)
  BY <1>4, <1>5 DEF LosesDone
<1>7. T[o][p] = F[o][p]
  BY <1>1, <1>2, OneVerdict DEF InProgress
<1>8. T2 = [T EXCEPT ![d] = [T[d] EXCEPT ![c] = T[d][p], ![p] = None]]
  <2>1. T[d][p] # None /\ T[d][p].type # "dir"
    BY <1>6 DEF Loses, Plain
  <2>2. ApplyOne(op, T[o], T[d], l) = [T[d] EXCEPT ![c] = T[d][p], ![p] = None]
    BY <1>1, <1>3, <1>6, <2>1, FlatApply
  <2> QED
    BY <1>1, <2>2 DEF Applied
<1>9. \A q, i : Pending(ops \ {op}, q, i) <=> Pending(ops, q, i) /\ ~ (q = p /\ i = 1)
  BY <1>1, PendingShrinks
<1>10. \A x \in Sides, q \in Paths :
          T2[x][q] = IF x = d /\ q = c THEN F[d][p] ELSE IF x = d /\ q = p THEN None ELSE T[x][q]
  BY <1>1, <1>3, <1>6, <1>8 DEF Tree
<1> HIDE DEF T2
<1>11. LosesDone(F, t, ops \ {op}, T2, d, p)
  <2>1. T2[d][p] = None /\ T2[d][c] = F[d][p] /\ T2[o][c] = T[o][c]
    BY <1>1, <1>3, <1>10
  <2>2. F[o][p] = None => SameIdentity(None, F[o][p])
    BY DEF SameIdentity, None
  <2>3. ~ Pending(ops \ {op}, p, 1) /\ (Pending(ops \ {op}, p, 2) <=> Pending(ops, p, 2))
        /\ (Pending(ops \ {op}, p, 3) <=> Pending(ops, p, 3))
    BY <1>9
  <2> QED
    BY <1>5, <1>6, <2>1, <2>2, <2>3 DEF LosesDone
<1>12. InProgress(B, F, t, ops \ {op}, T2)
  <2>1. T2[o][p] = T[o][p]
    BY <1>1, <1>10
  <2>2. \A x \in Sides, q \in Paths : q # p /\ q # c => T2[x][q] = T[x][q]
    BY <1>10
  <2>3. \A q, i : q # p => (Pending(ops \ {op}, q, i) <=> Pending(ops, q, i))
    BY <1>9
  <2>4. OnlyConflict(t, ops, ops \ {op}, T, T2, d, p)
    BY <2>1, <2>2, <2>3 DEF OnlyConflict
  <2> QED
    BY <1>11, <2>4, OthersStay
<1>13. T[o][c] = None /\ B[c] = None
  BY <1>3, <1>4, <1>5 DEF LosesDone, Start
<1>14. SetsAside(B, T, T2, t, d, p)
  <2>1. F[d][p] # None /\ ~ SameIdentity(B[p], F[d][p]) /\ ~ SameIdentity(B[p], F[o][p])
    BY <1>1 DEF Loses, Clash
  <2>2. ~ SameIdentity(F[o][p], F[d][p])
    BY TwoSides DEF Loses, Clash, SameIdentity
  <2> QED
    BY <1>2, <1>3, <1>6, <1>7, <1>8, <1>13, <2>1, <2>2 DEF SetsAside, T2
<1> QED
  BY <1>12, <1>14 DEF T2


\* The other side gets a copy of it.
LEMMA KeptStep ==
    ASSUME Flat, NEW B, NEW F, NEW t, Start(B, F, t),
           NEW ops \in SUBSET Merged(B, F, t), NEW op \in ops, IsFirst(op, ops), NEW l,
           NEW T \in [Sides -> Tree], \A x \in Sides : Plain(T[x]),
           InProgress(B, F, t, ops, T),
           NEW d \in Sides, NEW p \in Paths, Loses(B, F, d, p), op = KeptOp(F, t, d, p)
    PROVE  /\ InProgress(B, F, t, ops \ {op}, Applied(T, op, l))
           /\ Copies(B, T, Applied(T, op, l), OtherSide(d), ConflictPath(p, t))
<1> DEFINE o == OtherSide(d)
           c == ConflictPath(p, t)
           T2 == Applied(T, op, l)
<1>1. /\ o \in Sides /\ o # d /\ OtherSide(o) = d
      /\ op.at = p /\ op.seq = 2 /\ op.dst = o /\ op.path = c
      /\ op.kind = "copy" /\ op.type = F[d][p].type
      /\ T[d] \in Tree /\ T[o] \in Tree /\ op \in Op
  BY TwoSides, ConflictFields, MergedType
<1>2. ~ StampedBy(p, t) /\ t \in Stamps
  BY NoVerdictForStamped DEF Start, Loses
<1>3. c \in Paths /\ c # p
  BY <1>2, ConflictPathType, FlatConflictPaths
<1>4. Pending(ops, p, 2) /\ ~ Pending(ops, p, 1)
  BY <1>1, InOrder DEF Pending
<1>5. LosesDone(F, t, ops, T, d, p)
  BY DEF InProgress
<1>6. T[d][c] = F[d][p] /\ T[o][c] = None
  BY <1>4, <1>5 DEF LosesDone
<1>7. PICK e : /\ T2 = [T EXCEPT ![o] = [T[o] EXCEPT ![c] = e]]
               /\ e.type = F[d][p].type /\ e.ver = F[d][p].ver
  <2> DEFINE u == ApplyOne(op, T[d], T[o], l)
  <2>1. T2 = [T EXCEPT ![o] = u]
    BY <1>1 DEF Applied
  <2>2. F[d][p].type \in {"file", "symlink"} /\ T[o][c].type # "dir"
    BY <1>6, StartContent DEF Content, None, Loses
  <2>3. \E e : /\ e.type = F[d][p].type /\ e.ver = F[d][p].ver
               /\ u = [T[o] EXCEPT ![c] = e]
    BY <1>1, <1>6, <2>2, FlatApply
  <2> QED
    BY <2>1, <2>3
<1>8. \A q, i : Pending(ops \ {op}, q, i) <=> Pending(ops, q, i) /\ ~ (q = p /\ i = 2)
  BY <1>1, PendingShrinks
<1>9. \A x \in Sides, q \in Paths : T2[x][q] = IF x = o /\ q = c THEN e ELSE T[x][q]
  BY <1>1, <1>3, <1>7 DEF Tree
<1> HIDE DEF T2
<1>10. LosesDone(F, t, ops \ {op}, T2, d, p)
  <2>1. T2[d][p] = T[d][p] /\ T2[d][c] = T[d][c] /\ T2[o][c] = e
    BY <1>1, <1>3, <1>9
  <2>2. SameIdentity(e, F[d][p])
    BY <1>7 DEF SameIdentity
  <2>3. /\ ~ Pending(ops \ {op}, p, 1) /\ ~ Pending(ops \ {op}, p, 2)
        /\ (Pending(ops \ {op}, p, 3) <=> Pending(ops, p, 3))
    BY <1>4, <1>8
  <2> QED
    BY <1>4, <1>5, <2>1, <2>2, <2>3 DEF LosesDone
<1>11. OnlyConflict(t, ops, ops \ {op}, T, T2, d, p)
  <2>1. T2[o][p] = T[o][p]
    BY <1>1, <1>3, <1>9
  <2>2. \A x \in Sides, q \in Paths : q # p /\ q # c => T2[x][q] = T[x][q]
    BY <1>9
  <2>3. \A q, i : q # p => (Pending(ops \ {op}, q, i) <=> Pending(ops, q, i))
    BY <1>8
  <2> QED
    BY <2>1, <2>2, <2>3 DEF OnlyConflict
<1>12. InProgress(B, F, t, ops \ {op}, T2)
  BY <1>10, <1>11, OthersStay
<1>13. Copies(B, T, T2, o, c)
  <2>1. T[OtherSide(o)][c] = F[d][p] /\ F[d][p] # None
    BY <1>1, <1>6 DEF Loses
  <2> QED
    BY <1>6, <1>7, <2>1 DEF Copies
<1> QED
  BY <1>12, <1>13 DEF T2

\* The winning entry takes the place of the losing one.
LEMMA WinnerStep ==
    ASSUME Flat, NEW B, NEW F, NEW t, Start(B, F, t),
           NEW ops \in SUBSET Merged(B, F, t), NEW op \in ops, IsFirst(op, ops), NEW l,
           NEW T \in [Sides -> Tree], \A x \in Sides : Plain(T[x]),
           InProgress(B, F, t, ops, T),
           NEW d \in Sides, NEW p \in Paths, Loses(B, F, d, p), F[OtherSide(d)][p] # None,
           op = WinnerOp(F, d, p)
    PROVE  /\ InProgress(B, F, t, ops \ {op}, Applied(T, op, l))
           /\ Copies(B, T, Applied(T, op, l), d, p)
<1> DEFINE o == OtherSide(d)
           c == ConflictPath(p, t)
           T2 == Applied(T, op, l)
<1>1. /\ o \in Sides /\ o # d /\ OtherSide(o) = d
      /\ op.at = p /\ op.seq = 3 /\ op.dst = d /\ op.path = p
      /\ op.kind = "copy" /\ op.type = F[o][p].type
      /\ T[d] \in Tree /\ T[o] \in Tree /\ op \in Op
  BY TwoSides, SameNameFields, MergedType
<1>2. ~ StampedBy(p, t) /\ t \in Stamps /\ Clash(B, F, p)
  BY NoVerdictForStamped DEF Start, Loses
<1>3. c \in Paths /\ c # p
  BY <1>2, ConflictPathType, FlatConflictPaths
<1>4. Pending(ops, p, 3) /\ ~ Pending(ops, p, 1)
  BY <1>1, InOrder DEF Pending
<1>5. LosesDone(F, t, ops, T, d, p)
  BY DEF InProgress
<1>6. T[d][p] = None
  BY <1>4, <1>5 DEF LosesDone
<1>7. T[o][p] = F[o][p]
  BY <1>1, <1>2, OneVerdict DEF InProgress
<1>8. PICK e : /\ T2 = [T EXCEPT ![d] = [T[d] EXCEPT ![p] = e]]
               /\ e.type = F[o][p].type /\ e.ver = F[o][p].ver
  <2> DEFINE u == ApplyOne(op, T[o], T[d], l)
  <2>1. T2 = [T EXCEPT ![d] = u]
    BY <1>1 DEF Applied
  <2>2. F[o][p].type \in {"file", "symlink"} /\ T[d][p].type # "dir"
    BY <1>1, <1>6, StartContent DEF Content, None
  <2>3. \E e : /\ e.type = F[o][p].type /\ e.ver = F[o][p].ver
               /\ u = [T[d] EXCEPT ![p] = e]
    BY <1>1, <1>7, <2>2, FlatApply
  <2> HIDE DEF u
  <2> QED
    BY <2>1, <2>3
<1>9. \A q, i : Pending(ops \ {op}, q, i) <=> Pending(ops, q, i) /\ ~ (q = p /\ i = 3)
  BY <1>1, PendingShrinks
<1>10. \A x \in Sides, q \in Paths : T2[x][q] = IF x = d /\ q = p THEN e ELSE T[x][q]
  BY <1>1, <1>8 DEF Tree
<1> HIDE DEF T2
<1>11. LosesDone(F, t, ops \ {op}, T2, d, p)
  <2>1. T2[d][p] = e /\ T2[d][c] = T[d][c] /\ T2[o][c] = T[o][c]
    BY <1>1, <1>3, <1>10
  <2>2. SameIdentity(e, F[o][p])
    BY <1>8 DEF SameIdentity
  <2>3. /\ ~ Pending(ops \ {op}, p, 1) /\ ~ Pending(ops \ {op}, p, 3)
        /\ (Pending(ops \ {op}, p, 2) <=> Pending(ops, p, 2))
    BY <1>4, <1>9
  <2> QED
    BY <1>4, <1>5, <2>1, <2>2, <2>3 DEF LosesDone
<1>12. OnlyConflict(t, ops, ops \ {op}, T, T2, d, p)
  <2>1. T2[o][p] = T[o][p]
    BY <1>1, <1>10
  <2>2. \A x \in Sides, q \in Paths : q # p /\ q # c => T2[x][q] = T[x][q]
    BY <1>10
  <2>3. \A q, i : q # p => (Pending(ops \ {op}, q, i) <=> Pending(ops, q, i))
    BY <1>9
  <2> QED
    BY <2>1, <2>2, <2>3 DEF OnlyConflict
<1>13. InProgress(B, F, t, ops \ {op}, T2)
  BY <1>11, <1>12, OthersStay
<1>14. Copies(B, T, T2, d, p)
  BY <1>1, <1>6, <1>7, <1>8 DEF Copies, T2
<1> QED
  BY <1>13, <1>14 DEF T2

\* What any operation of a pass does.
LEMMA PassStep ==
    ASSUME Flat, NEW B, NEW F, NEW t, Start(B, F, t),
           NEW ops \in SUBSET Merged(B, F, t), NEW op \in ops, IsFirst(op, ops), NEW l,
           NEW T \in [Sides -> Tree], \A x \in Sides : Plain(T[x]),
           InProgress(B, F, t, ops, T)
    PROVE  /\ InProgress(B, F, t, ops \ {op}, Applied(T, op, l))
           /\ \E d \in Sides, p \in Paths :
                 \/ Copies(B, T, Applied(T, op, l), d, p)
                 \/ Deletes(B, T, Applied(T, op, l), d, p)
                 \/ SetsAside(B, T, Applied(T, op, l), t, d, p) /\ Clash(B, F, p)
<1>1. PICK p \in Paths : op \in GroupOps(B, F, t, p)
  BY MergedGroups
<1>2. PICK d \in Sides : Follows(B, F, d, p) \/ Loses(B, F, d, p)
  BY <1>1, GroupSlots
<1>3. CASE Follows(B, F, d, p)
  <2>1. op = FollowOp(F, d, p)
    BY <1>1, <1>3, GroupSlots
  <2> QED
    BY <1>3, <2>1, FollowStep
<1>4. CASE Loses(B, F, d, p)
  <2>1. \/ op = AsideOp(F, t, d, p)
        \/ op = KeptOp(F, t, d, p)
        \/ op = WinnerOp(F, d, p) /\ F[OtherSide(d)][p] # None
    BY <1>1, <1>4, GroupSlots
  <2>2. CASE op = AsideOp(F, t, d, p)
    BY <1>4, <2>2, AsideStep DEF Loses
  <2>3. CASE op = KeptOp(F, t, d, p)
    <3>1. ConflictPath(p, t) \in Paths
      BY <1>4, ConflictPathType DEF Start, Loses
    <3> QED
      BY <1>4, <2>3, <3>1, TwoSides, KeptStep
  <2>4. CASE op = WinnerOp(F, d, p) /\ F[OtherSide(d)][p] # None
    BY <1>4, <2>4, WinnerStep
  <2> QED
    BY <2>1, <2>2, <2>3, <2>4
<1> QED
  BY <1>2, <1>3, <1>4


----------------------------------------------------------------------------
(* The end of a pass *)

\* The verdicts by sides, spelled out.
LEMMA VerdictsBySide ==
    ASSUME NEW B, NEW F, NEW p
    PROVE  LET b == B[p]
               pr == F["primary"][p]
               se == F["secondary"][p]
           IN  /\ Follows(B, F, "primary", p) <=> SameIdentity(b, pr) /\ ~ SameIdentity(b, se)
               /\ Follows(B, F, "secondary", p) <=> SameIdentity(b, se) /\ ~ SameIdentity(b, pr)
               /\ Clash(B, F, p) <=> /\ ~ SameIdentity(b, pr) /\ ~ SameIdentity(b, se)
                                     /\ ~ SameIdentity(pr, se)
               /\ Loses(B, F, "primary", p) <=> Clash(B, F, p) /\ pr # None /\ se = None
               /\ Loses(B, F, "secondary", p) <=> Clash(B, F, p) /\ se # None
               /\ ~ SameIdentity(pr, se) => pr # None \/ se # None
<1>1. \A pr, se : ~ SameIdentity(pr, se) => pr # None \/ se # None
  BY DEF SameIdentity
<1> QED
  BY <1>1, TwoSides DEF Follows, Clash, Loses

\* In a conflict one side has to give way.
LEMMA SomebodyLoses ==
    ASSUME NEW B, NEW F, NEW p, Clash(B, F, p)
    PROVE  \E d \in Sides : Loses(B, F, d, p)
  BY VerdictsBySide, TwoSides

\* The baseline takes the entry of the side that is not changed.
LEMMA OwnEntry ==
    ASSUME NEW B, NEW F, NEW p, NEW d \in Sides,
           Follows(B, F, d, p) \/ Loses(B, F, d, p)
    PROVE  OwnBaseline(B[p], F["primary"][p], F["secondary"][p]) = F[OtherSide(d)][p]
<1> DEFINE b == B[p]
           pr == F["primary"][p]
           se == F["secondary"][p]
<1>1. /\ Follows(B, F, "primary", p) <=> SameIdentity(b, pr) /\ ~ SameIdentity(b, se)
      /\ Follows(B, F, "secondary", p) <=> SameIdentity(b, se) /\ ~ SameIdentity(b, pr)
      /\ Clash(B, F, p) <=> /\ ~ SameIdentity(b, pr) /\ ~ SameIdentity(b, se)
                            /\ ~ SameIdentity(pr, se)
      /\ Loses(B, F, "primary", p) <=> Clash(B, F, p) /\ pr # None /\ se = None
      /\ Loses(B, F, "secondary", p) <=> Clash(B, F, p) /\ se # None
      /\ ~ SameIdentity(pr, se) => pr # None \/ se # None
  BY VerdictsBySide
<1> HIDE DEF b, pr, se
<1>2. CASE d = "primary"
  <2>1. OwnBaseline(b, pr, se) = se
    BY <1>1, <1>2 DEF OwnBaseline, Verdict
  <2> QED
    BY <1>2, <2>1, TwoSides DEF b, pr, se
<1>3. CASE d = "secondary"
  <2>1. OwnBaseline(b, pr, se) = pr
    BY <1>1, <1>3 DEF OwnBaseline, Verdict
  <2> QED
    BY <1>3, <2>1, TwoSides DEF b, pr, se
<1> QED
  BY <1>2, <1>3, TwoSides

\* Under the conflict name it takes the entry that lost.
LEMMA LoserEntry ==
    ASSUME NEW B, NEW F, NEW p, NEW d \in Sides, Loses(B, F, d, p)
    PROVE  Loser(B[p], F["primary"][p], F["secondary"][p]) = F[d][p]
<1> DEFINE b == B[p]
           pr == F["primary"][p]
           se == F["secondary"][p]
<1>1. /\ Clash(B, F, p) <=> /\ ~ SameIdentity(b, pr) /\ ~ SameIdentity(b, se)
                            /\ ~ SameIdentity(pr, se)
      /\ Loses(B, F, "primary", p) <=> Clash(B, F, p) /\ pr # None /\ se = None
      /\ Loses(B, F, "secondary", p) <=> Clash(B, F, p) /\ se # None
      /\ ~ SameIdentity(pr, se) => pr # None \/ se # None
  BY VerdictsBySide
<1> HIDE DEF b, pr, se
<1>2. CASE d = "primary"
  <2>1. Loser(b, pr, se) = pr
    BY <1>1, <1>2 DEF Loser, Verdict
  <2> QED
    BY <1>2, <2>1 DEF b, pr, se
<1>3. CASE d = "secondary"
  <2>1. Loser(b, pr, se) = se
    BY <1>1, <1>3 DEF Loser, Verdict
  <2> QED
    BY <1>3, <2>1 DEF b, pr, se
<1> QED
  BY <1>2, <1>3, TwoSides

\* Where nothing is to be done it takes what both sides have.
LEMMA KeptEntry ==
    ASSUME NEW B, NEW F, NEW p,
           \A d \in Sides : ~ Follows(B, F, d, p) /\ ~ Loses(B, F, d, p)
    PROVE  \A d \in Sides :
              SameIdentity(OwnBaseline(B[p], F["primary"][p], F["secondary"][p]), F[d][p])
<1> DEFINE b == B[p]
           pr == F["primary"][p]
           se == F["secondary"][p]
<1>1. /\ ~ (SameIdentity(b, pr) /\ ~ SameIdentity(b, se))
      /\ ~ (SameIdentity(b, se) /\ ~ SameIdentity(b, pr))
      /\ ~ (~ SameIdentity(b, pr) /\ ~ SameIdentity(b, se) /\ ~ SameIdentity(pr, se))
  BY VerdictsBySide, SomebodyLoses, TwoSides
<1>2. SameIdentity(pr, pr)
  BY DEF SameIdentity
<1> HIDE DEF b, pr, se
<1>3. SameIdentity(OwnBaseline(b, pr, se), pr) /\ SameIdentity(OwnBaseline(b, pr, se), se)
  BY <1>1, <1>2 DEF OwnBaseline, Verdict
<1> QED
  BY <1>3, TwoSides DEF b, pr, se

\* The new baseline, path by path.
LEMMA NewBaselineEntries ==
    ASSUME Flat, NEW B, NEW F, NEW t, Start(B, F, t), NEW q \in Paths
    PROVE  LET P == F["primary"]
               S == F["secondary"]
               new == NewBaseline(B, P, S, t)[q]
           IN  /\ ~ StampedBy(q, t) => new = OwnBaseline(B[q], P[q], S[q])
               /\ (StampedBy(q, t) /\ \A x \in Paths : Clash(B, F, x) => ConflictPath(x, t) # q)
                      => new = None
               /\ \A p \in Paths : Clash(B, F, p) /\ ConflictPath(p, t) = q
                      => new = Loser(B[p], P[p], S[p])
<1> DEFINE P == F["primary"]
           S == F["secondary"]
           new == NewBaseline(B, P, S, t)[q]
           own == OwnBaseline(B[q], P[q], S[q])
           lost == {p \in {x \in Paths : Clash(B, F, x)} : ConflictPath(p, t) = q}
           loser == LET p == CHOOSE x \in lost : TRUE IN Loser(B[p], P[p], S[p])
<1>1. Renamed(B, P, S) = {}
  BY DEF Start, Renamed
<1>2. Conflicts(B, P, S) = {x \in Paths : Clash(B, F, x)}
  BY MergedType
<1>3. new = IF own # None THEN own ELSE IF lost # {} THEN loser ELSE None
  BY <1>1, <1>2 DEF NewBaseline
<1>4. \A x \in lost : ~ StampedBy(x, t) /\ StampedBy(q, t)
  <2> SUFFICES ASSUME NEW x \in lost PROVE ~ StampedBy(x, t) /\ StampedBy(q, t)
    OBVIOUS
  <2>1. x \in Paths /\ Clash(B, F, x) /\ ConflictPath(x, t) = q
    OBVIOUS
  <2>2. ~ StampedBy(x, t)
    BY <2>1, NoVerdictForStamped, TwoSides
  <2> QED
    BY <2>1, <2>2, FlatConflictPaths
<1>5. StampedBy(q, t) => own = None
  <2> SUFFICES ASSUME StampedBy(q, t) PROVE own = None
    OBVIOUS
  <2>1. B[q] = None /\ P[q] = None /\ S[q] = None
    BY TwoSides DEF Start
  <2> QED
    BY <2>1 DEF OwnBaseline, Verdict, SameIdentity
<1>6. ASSUME NEW p \in Paths, Clash(B, F, p), ConflictPath(p, t) = q
      PROVE  lost = {p}
  <2>1. p \in lost
    BY <1>6
  <2>2. ~ StampedBy(p, t)
    BY <1>4, <2>1
  <2>3. \A x \in lost : x = p
    BY <1>4, <1>6, <2>2, FlatConflictPaths
  <2> QED
    BY <2>1, <2>3
<1>7. ASSUME NEW p \in Paths, Clash(B, F, p), ConflictPath(p, t) = q
      PROVE  new = Loser(B[p], P[p], S[p])
  <2>1. lost = {p}
    BY <1>6, <1>7
  <2>2. StampedBy(q, t)
    BY <1>4, <2>1
  <2>3. (CHOOSE x \in lost : TRUE) = p
    BY <2>1
  <2>4. loser = Loser(B[p], P[p], S[p])
    BY <2>3
  <2> HIDE DEF lost, loser, own, new
  <2> QED
    BY <1>3, <1>5, <2>1, <2>2, <2>4
<1>8. ASSUME StampedBy(q, t), \A x \in Paths : Clash(B, F, x) => ConflictPath(x, t) # q
      PROVE  new = None
  <2>1. lost = {}
    BY <1>8
  <2> HIDE DEF lost, loser, own, new
  <2> QED
    BY <1>3, <1>5, <1>8, <2>1
<1>9. ASSUME ~ StampedBy(q, t) PROVE new = own
  <2>1. lost = {}
    BY <1>4, <1>9
  <2> HIDE DEF lost, loser, own, new
  <2> QED
    BY <1>3, <2>1
<1> HIDE DEF new, own
<1> QED
  BY <1>7, <1>8, <1>9 DEF new, own

\* When all operations are applied both sides look as the new baseline says.
LEMMA PassEnd ==
    ASSUME Flat, NEW B, NEW F, NEW t, Start(B, F, t),
           NEW T \in [Sides -> Tree], \A x \in Sides : Plain(T[x]),
           InProgress(B, F, t, {}, T)
    PROVE  LET new == NewBaseline(B, F["primary"], F["secondary"], t)
           IN  /\ Plain(new)
               /\ \A d \in Sides, q \in Paths : SameIdentity(new[q], T[d][q])
<1> DEFINE P == F["primary"]
           S == F["secondary"]
           new == NewBaseline(B, P, S, t)
           own(q) == OwnBaseline(B[q], P[q], S[q])
           loser(q) == Loser(B[q], P[q], S[q])
<1>1. \A p, i : ~ Pending({}, p, i)
  BY DEF Pending
<1>2. \A p \in Paths : Content(B[p]) /\ \A d \in Sides : Content(F[d][p])
  BY StartContent
<1>3. ASSUME NEW q \in Paths
      PROVE  Content(new[q]) /\ \A d \in Sides : SameIdentity(new[q], T[d][q])
  <2>0. Content(B[q]) /\ \A d \in Sides : Content(F[d][q])
    BY <1>2
  <2>1. CASE ~ StampedBy(q, t)
    <3>1. new[q] = own(q)
      BY <2>1, NewBaselineEntries
    <3>2. Content(own(q))
      BY <2>0, TwoSides, EntryTypes DEF OwnBaseline, Content
    <3>3. ASSUME NEW d \in Sides, Follows(B, F, d, q) PROVE \A x \in Sides : SameIdentity(new[q], T[x][q])
      <4>1. own(q) = F[OtherSide(d)][q]
        BY <3>3, OwnEntry
      <4>2. SameIdentity(T[d][q], F[OtherSide(d)][q])
        BY <1>1, <3>3 DEF InProgress, FollowsDone
      <4>3. T[OtherSide(d)][q] = F[OtherSide(d)][q]
        BY <2>1, <3>3, OneVerdict, TwoSides DEF InProgress
      <4> QED
        BY <3>1, <4>1, <4>2, <4>3, TwoSides DEF SameIdentity
    <3>4. ASSUME NEW d \in Sides, Loses(B, F, d, q) PROVE \A x \in Sides : SameIdentity(new[q], T[x][q])
      <4>1. own(q) = F[OtherSide(d)][q]
        BY <3>4, OwnEntry
      <4>2. SameIdentity(T[d][q], F[OtherSide(d)][q])
        BY <1>1, <3>4 DEF InProgress, LosesDone
      <4>3. T[OtherSide(d)][q] = F[OtherSide(d)][q]
        BY <2>1, <3>4, OneVerdict, TwoSides DEF InProgress
      <4> QED
        BY <3>1, <4>1, <4>2, <4>3, TwoSides DEF SameIdentity
    <3>5. ASSUME \A d \in Sides : ~ Follows(B, F, d, q) /\ ~ Loses(B, F, d, q)
          PROVE  \A x \in Sides : SameIdentity(new[q], T[x][q])
      <4>1. \A x \in Sides : SameIdentity(own(q), F[x][q])
        BY <3>5, KeptEntry
      <4>2. \A x \in Sides : T[x][q] = F[x][q]
        BY <2>1, <3>5 DEF InProgress
      <4> QED
        BY <3>1, <4>1, <4>2
    <3> QED
      BY <3>1, <3>2, <3>3, <3>4, <3>5
  <2>2. ASSUME NEW p \in Paths, Clash(B, F, p), ConflictPath(p, t) = q
        PROVE  Content(new[q]) /\ \A d \in Sides : SameIdentity(new[q], T[d][q])
    <3>1. new[q] = loser(p)
      BY <2>2, NewBaselineEntries
    <3>2. PICK d \in Sides : Loses(B, F, d, p)
      BY <2>2, SomebodyLoses
    <3>3. loser(p) = F[d][p]
      BY <3>2, LoserEntry
    <3>4. T[d][q] = F[d][p] /\ SameIdentity(T[OtherSide(d)][q], F[d][p])
      BY <1>1, <2>2, <3>2 DEF InProgress, LosesDone
    <3> QED
      BY <1>2, <3>1, <3>3, <3>4, TwoSides DEF SameIdentity
  <2>3. CASE StampedBy(q, t) /\ \A x \in Paths : Clash(B, F, x) => ConflictPath(x, t) # q
    <3>1. new[q] = None
      BY <2>3, NewBaselineEntries
    <3>2. \A d \in Sides : T[d][q] = None
      BY <2>3 DEF InProgress
    <3>3. Content(None)
      BY EntryTypes DEF Content
    <3> QED
      BY <3>1, <3>2, <3>3 DEF SameIdentity
  <2> QED
    BY <2>1, <2>2, <2>3
<1>4. Plain(new)
  BY <1>3 DEF Plain, Content
<1> HIDE DEF new
<1> QED
  BY <1>3, <1>4 DEF new


----------------------------------------------------------------------------
(* Between and during passes: B is the baseline, T[d] the tree of side d,  *)
(* n the number of user operations, k the next stamp, lv the versions the  *)
(* users still want.                                                       *)

\* Entries are made by users, and conflict names by earlier passes.
Authentic(u, n, k) ==
    \A p \in Paths : u[p] # None =>
        /\ u[p].type \in {"file", "symlink"}
        /\ u[p].ver \in 1..n
        /\ \A t : StampedBy(p, t) => t < k

\* A version has one path and one type in all trees.
OnePath(U) ==
    \A u, w \in U, p, q \in Paths :
        u[p] # None /\ w[q] # None /\ u[p].ver = w[q].ver
            => p = q /\ u[p].type = w[q].type

Known(B, T) == {T[d] : d \in Sides} \cup {B}

\* What a side has replaced since the baseline nobody wants.
Replaced(B, T, lv) ==
    \A d \in Sides, p \in Paths :
        B[p] # None /\ ~ SameIdentity(B[p], T[d][p]) => B[p].ver \notin lv

Stored(T, lv) == \A v \in lv : \E d \in Sides, p \in Paths : T[d][p].ver = v

Sound(B, T, n, k, lv) ==
    /\ B \in Tree /\ T \in [Sides -> Tree] /\ n \in Nat /\ lv \subseteq 1..n
    /\ \A u \in Known(B, T) : Authentic(u, n, k)
    /\ OnePath(Known(B, T))
    /\ Replaced(B, T, lv)
    /\ Stored(T, lv)

\* Authentic trees are plain.
LEMMA AuthenticPlain ==
    ASSUME NEW u \in Tree, NEW n, NEW k, Authentic(u, n, k)
    PROVE  Plain(u) /\ \A p \in Paths : Content(u[p])
  BY DEF Authentic, Plain, Content, Tree

\* In sound trees rename detection finds nothing: a version has one path, and
\* sizes tell versions apart.
LEMMA SoundNoRenames ==
    ASSUME NEW B, NEW T, NEW n, NEW k, NEW lv, Sound(B, T, n, k, lv),
           \A v, w \in Versions : SizeOf[v] = SizeOf[w] => v = w,
           n <= MaxVersion, NEW d \in Sides, NEW e \in Sides
    PROVE  RenamePairs(B, T[d], T[e]) = {}
<1> SUFFICES ASSUME NEW m \in Reappeared(B, T[d]),
                    FollowsRename(B, T[d], T[e], OldPath(B, T[d], m), m)
             PROVE  FALSE
  BY DEF RenamePairs
<1> DEFINE o == OldPath(B, T[d], m)
<1>1. m \in Paths /\ T[d][m].type = "file" /\ B[m] = None /\ Vanished(B, T[d], T[d][m]) # {}
  BY DEF Reappeared
<1>2. o \in Vanished(B, T[d], T[d][m])
  BY <1>1 DEF OldPath
<1>3. o \in Paths /\ B[o].type = "file"
  BY <1>2 DEF Vanished
<1>4. SizeOf[B[o].ver] = SizeOf[T[d][m].ver]
  BY DEF FollowsRename
<1>5. B[o] # None /\ T[d][m] # None
  BY <1>1, <1>3 DEF None
<1>6. B \in Known(B, T) /\ T[d] \in Known(B, T)
  BY DEF Known
<1>7. B[o].ver \in Versions /\ T[d][m].ver \in Versions
  BY <1>1, <1>3, <1>5, <1>6, BoundsAssumption DEF Sound, Authentic, Versions
<1>8. B[o].ver = T[d][m].ver
  BY <1>4, <1>7
<1>9. o = m
  BY <1>1, <1>3, <1>5, <1>6, <1>8 DEF Sound, OnePath
<1> QED
  BY <1>1, <1>5, <1>9

\* So they can be merged.
LEMMA SoundStart ==
    ASSUME NEW B, NEW T, NEW n, NEW k, NEW lv, Sound(B, T, n, k, lv),
           \A v, w \in Versions : SizeOf[v] = SizeOf[w] => v = w,
           (\E p \in Paths : Clash(B, T, p)) => k \in Stamps,
           k \in Nat, n <= MaxVersion
    PROVE  Start(B, T, k)
<1>1. Plain(B) /\ \A d \in Sides : Plain(T[d])
  BY AuthenticPlain DEF Sound, Known
<1>2. \A p \in Paths : StampedBy(p, k) => B[p] = None /\ \A d \in Sides : T[d][p] = None
  BY DEF Sound, Known, Authentic
<1>3. /\ RenamePairs(B, T["primary"], T["secondary"]) = {}
      /\ RenamePairs(B, T["secondary"], T["primary"]) = {}
  BY SoundNoRenames, TwoSides
<1> QED
  BY <1>1, <1>2, <1>3 DEF Start, Sound

\* A copy within a pass.
LEMMA SoundCopy ==
    ASSUME NEW B, NEW T, NEW n, NEW k, NEW lv, Sound(B, T, n, k, lv),
           NEW T2 \in [Sides -> Tree], NEW d \in Sides, NEW q \in Paths, Copies(B, T, T2, d, q)
    PROVE  Sound(B, T2, n, k, lv)
<1> DEFINE o == OtherSide(d)
<1>1. PICK e : /\ e.type = T[o][q].type /\ e.ver = T[o][q].ver
               /\ T2 = [T EXCEPT ![d] = [T[d] EXCEPT ![q] = e]]
  BY DEF Copies
<1>2. o \in Sides /\ o # d /\ T[o][q] # None
  BY TwoSides DEF Copies
<1>3. \A x \in Sides, p \in Paths : T2[x][p] = IF x = d /\ p = q THEN e ELSE T[x][p]
  BY <1>1 DEF Sound, Tree
<1>4. /\ B \in Known(B, T) /\ \A x \in Sides : T[x] \in Known(B, T)
      /\ \A u \in Known(B, T2) : u = B \/ \E x \in Sides : u = T2[x]
  BY DEF Known
<1>5. Authentic(T[o], n, k)
  BY <1>2, <1>4 DEF Sound
<1>6. \A u \in Known(B, T2) : Authentic(u, n, k)
  <2>1. \A x \in Sides : Authentic(T2[x], n, k)
    BY <1>1, <1>2, <1>3, <1>4, <1>5 DEF Sound, Authentic
  <2> QED
    BY <1>4, <2>1 DEF Sound
<1>7. OnePath(Known(B, T2))
  <2>1. ASSUME NEW u \in Known(B, T2), NEW p \in Paths, u[p] # None
        PROVE  \E w \in Known(B, T) : w[p] # None /\ w[p].ver = u[p].ver /\ w[p].type = u[p].type
    <3>1. CASE u = B
      BY <1>4, <2>1, <3>1
    <3>2. ASSUME NEW x \in Sides, u = T2[x], ~ (x = d /\ p = q) PROVE u[p] = T[x][p]
      BY <1>3, <3>2
    <3>3. ASSUME u = T2[d], p = q PROVE u[p] = e
      BY <1>3, <3>3
    <3>4. CASE \E x \in Sides : u = T2[x] /\ ~ (x = d /\ p = q)
      BY <1>4, <2>1, <3>2, <3>4
    <3>5. CASE u = T2[d] /\ p = q
      BY <1>1, <1>2, <1>4, <3>3, <3>5
    <3> QED
      BY <1>4, <2>1, <3>1, <3>4, <3>5
  <2>2. OnePath(Known(B, T))
    BY DEF Sound
  <2> QED
    BY <2>1, <2>2 DEF OnePath
<1>8. Replaced(B, T2, lv)
  <2>1. ASSUME ~ SameIdentity(B[q], e) PROVE ~ SameIdentity(B[q], T[o][q])
    BY <1>1, <2>1 DEF SameIdentity
  <2> QED
    BY <1>2, <1>3, <2>1 DEF Sound, Replaced
<1>9. Stored(T2, lv)
  <2> SUFFICES ASSUME NEW v \in lv PROVE \E x \in Sides, p \in Paths : T2[x][p].ver = v
    BY DEF Stored
  <2>1. PICK x \in Sides, p \in Paths : T[x][p].ver = v
    BY DEF Sound, Stored
  <2>2. CASE ~ (x = d /\ p = q)
    BY <1>3, <2>1, <2>2
  <2>3. CASE x = d /\ p = q
    <3>1. T[d][q] # None
      BY <2>1, <2>3 DEF Sound, None
    <3>2. SameIdentity(B[q], T[d][q]) /\ ~ SameIdentity(B[q], T[o][q])
      BY <3>1 DEF Copies
    <3>3. T[d][q].type \in {"file", "symlink"}
      BY <1>4, <3>1 DEF Sound, Authentic
    <3>4. B[q].ver = v /\ B[q] # None
      BY <2>1, <2>3, <3>2, <3>3 DEF SameIdentity, None
    <3> QED
      BY <1>2, <3>2, <3>4 DEF Sound, Replaced
  <2> QED
    BY <2>2, <2>3
<1> QED
  BY <1>6, <1>7, <1>8, <1>9 DEF Sound

\* A deletion within a pass.
LEMMA SoundDelete ==
    ASSUME NEW B, NEW T, NEW n, NEW k, NEW lv, Sound(B, T, n, k, lv),
           NEW T2 \in [Sides -> Tree], NEW d \in Sides, NEW q \in Paths, Deletes(B, T, T2, d, q)
    PROVE  Sound(B, T2, n, k, lv)
<1> DEFINE o == OtherSide(d)
<1>1. /\ T[o][q] = None /\ SameIdentity(B[q], T[d][q]) /\ B[q] # None
      /\ T2 = [T EXCEPT ![d] = [T[d] EXCEPT ![q] = None]]
  BY DEF Deletes
<1>2. o \in Sides /\ o # d
  BY TwoSides
<1>3. \A x \in Sides, p \in Paths : T2[x][p] = IF x = d /\ p = q THEN None ELSE T[x][p]
  BY <1>1 DEF Sound, Tree
<1>4. /\ B \in Known(B, T) /\ \A x \in Sides : T[x] \in Known(B, T)
      /\ \A u \in Known(B, T2) : u = B \/ \E x \in Sides : u = T2[x]
  BY DEF Known
<1>5. \A u \in Known(B, T2) : Authentic(u, n, k)
  <2>1. \A x \in Sides : Authentic(T2[x], n, k)
    BY <1>3, <1>4 DEF Sound, Authentic
  <2> QED
    BY <1>4, <2>1 DEF Sound
<1>6. OnePath(Known(B, T2))
  <2>1. ASSUME NEW u \in Known(B, T2), NEW p \in Paths, u[p] # None
        PROVE  \E w \in Known(B, T) : w[p] = u[p]
    BY <1>3, <1>4, <2>1
  <2>2. OnePath(Known(B, T))
    BY DEF Sound
  <2> QED
    BY <2>1, <2>2 DEF OnePath
<1>7. ~ SameIdentity(B[q], None)
  <2>1. B[q].type \in {"file", "symlink"}
    BY <1>1, <1>4 DEF Sound, Authentic
  <2> QED
    BY <2>1 DEF SameIdentity, None
<1>8. B[q].ver \notin lv
  BY <1>1, <1>2, <1>7 DEF Sound, Replaced
<1>9. Replaced(B, T2, lv)
  BY <1>3, <1>8 DEF Sound, Replaced
<1>10. Stored(T2, lv)
  <2> SUFFICES ASSUME NEW v \in lv PROVE \E x \in Sides, p \in Paths : T2[x][p].ver = v
    BY DEF Stored
  <2>1. PICK x \in Sides, p \in Paths : T[x][p].ver = v
    BY DEF Sound, Stored
  <2>2. T[d][q].ver # v
    <3>1. B[q].type \in {"file", "symlink"}
      BY <1>1, <1>4 DEF Sound, Authentic
    <3> QED
      BY <1>1, <1>8, <3>1 DEF SameIdentity
  <2> QED
    BY <1>3, <2>1, <2>2
<1> QED
  BY <1>5, <1>6, <1>9, <1>10 DEF Sound

\* A conflict rename within a pass: the version moves to its conflict name.
LEMMA SoundAside ==
    ASSUME Flat, NEW B, NEW T, NEW n, NEW k \in Nat, NEW lv, Sound(B, T, n, k, lv),
           NEW T2 \in [Sides -> Tree], NEW t, t < k,
           NEW d \in Sides, NEW q \in Paths, SetsAside(B, T, T2, t, d, q)
    PROVE  Sound(B, T2, n, k, lv)
<1> DEFINE o == OtherSide(d)
           c == ConflictPath(q, t)
           e == T[d][q]
<1>1. /\ c \in Paths /\ c # q /\ t \in Stamps /\ ~ StampedBy(q, t)
      /\ e # None /\ ~ SameIdentity(B[q], e) /\ ~ SameIdentity(T[o][q], e)
      /\ B[c] = None /\ T[d][c] = None /\ T[o][c] = None
      /\ T2 = [T EXCEPT ![d] = [T[d] EXCEPT ![c] = e, ![q] = None]]
  BY DEF SetsAside
<1>2. o \in Sides /\ o # d /\ \A x \in Sides : x = d \/ x = o
  BY TwoSides
<1>3. /\ \A s : StampedBy(c, s) => s = t \/ StampedBy(q, s)
      /\ c = ConflictPath(q, t)
  BY <1>1, FlatConflictPaths
<1> HIDE DEF c, o, e
<1>4. \A x \in Sides, p \in Paths :
         T2[x][p] = IF x = d /\ p = c THEN e ELSE IF x = d /\ p = q THEN None ELSE T[x][p]
  BY <1>1 DEF Sound, Tree
<1>5. /\ B \in Known(B, T) /\ T[d] \in Known(B, T) /\ T[o] \in Known(B, T)
      /\ \A u \in Known(B, T2) : u = B \/ u = T2[o] \/ u = T2[d]
  BY <1>2 DEF Known
<1>6. \A u \in Known(B, T2) : Authentic(u, n, k)
  <2>1. Authentic(B, n, k) /\ Authentic(T[d], n, k) /\ Authentic(T[o], n, k)
    BY <1>5 DEF Sound
  <2>2. /\ e.type \in {"file", "symlink"} /\ e.ver \in 1..n
        /\ \A s : StampedBy(q, s) => s < k
    BY <1>1, <2>1 DEF Authentic, e
  <2>3. \A s : StampedBy(c, s) => s < k
    BY <1>3, <2>2
  <2>4. Authentic(T2[d], n, k) /\ Authentic(T2[o], n, k)
    BY <1>2, <1>4, <2>1, <2>2, <2>3 DEF Authentic
  <2> QED
    BY <1>5, <2>1, <2>4
<1>7. \A u \in Known(B, T), p \in Paths :
         u[p] # None /\ u[p].ver = e.ver => p = q /\ u[p].type = e.type
  BY <1>1, <1>5 DEF Sound, OnePath, e
<1>8. e.type \in {"file", "symlink"}
  BY <1>1, <1>5 DEF Sound, Authentic, e
<1>9. /\ B[q] # None => B[q].ver # e.ver
      /\ T[o][q] # None => T[o][q].ver # e.ver
  BY <1>1, <1>5, <1>7, <1>8 DEF SameIdentity
<1>10. \A u \in Known(B, T2), p \in Paths :
          u[p] # None => IF u[p].ver = e.ver THEN p = c /\ u[p].type = e.type
                         ELSE \E w \in Known(B, T) : w[p] = u[p]
  <2> SUFFICES ASSUME NEW u \in Known(B, T2), NEW p \in Paths, u[p] # None
               PROVE  IF u[p].ver = e.ver THEN p = c /\ u[p].type = e.type
                      ELSE \E w \in Known(B, T) : w[p] = u[p]
    OBVIOUS
  <2>1. CASE u = B
    BY <1>5, <1>7, <1>9, <2>1
  <2>2. CASE u = T2[o]
    <3>1. u[p] = T[o][p]
      BY <1>2, <1>4, <2>2
    <3> QED
      BY <1>5, <1>7, <1>9, <3>1
  <2>3. CASE u = T2[d]
    <3>1. u[p] = IF p = c THEN e ELSE IF p = q THEN None ELSE T[d][p]
      BY <1>4, <2>3
    <3>2. CASE p = c
      BY <2>3, <3>1, <3>2
    <3>3. CASE p # c /\ p # q
      BY <1>5, <1>7, <3>1, <3>3
    <3> QED
      BY <3>1, <3>2, <3>3
  <2> QED
    BY <1>5, <2>1, <2>2, <2>3
<1>11. OnePath(Known(B, T2))
  <2>1. OnePath(Known(B, T))
    BY DEF Sound
  <2> SUFFICES ASSUME NEW u \in Known(B, T2), NEW w \in Known(B, T2),
                      NEW p \in Paths, NEW r \in Paths,
                      u[p] # None, w[r] # None, u[p].ver = w[r].ver
               PROVE  p = r /\ u[p].type = w[r].type
    BY DEF OnePath
  <2>2. CASE u[p].ver = e.ver
    <3>1. p = c /\ u[p].type = e.type
      BY <1>10, <2>2
    <3>2. r = c /\ w[r].type = e.type
      BY <1>10, <2>2
    <3> QED
      BY <3>1, <3>2
  <2>3. CASE u[p].ver # e.ver
    <3>1. PICK u1 \in Known(B, T) : u1[p] = u[p]
      BY <1>10, <2>3
    <3>2. PICK w1 \in Known(B, T) : w1[r] = w[r]
      BY <1>10, <2>3
    <3> QED
      BY <2>1, <3>1, <3>2 DEF OnePath
  <2> QED
    BY <2>2, <2>3
<1>12. Replaced(B, T2, lv)
  <2>1. Replaced(B, T, lv)
    BY DEF Sound
  <2>2. ~ SameIdentity(B[q], T[d][q])
    BY <1>1 DEF e
  <2> QED
    BY <1>1, <1>4, <2>1, <2>2 DEF Replaced
<1>13. Stored(T2, lv)
  <2> SUFFICES ASSUME NEW v \in lv PROVE \E x \in Sides, p \in Paths : T2[x][p].ver = v
    BY DEF Stored
  <2>1. PICK x \in Sides, p \in Paths : T[x][p].ver = v
    BY DEF Sound, Stored
  <2>2. v # 0
    BY DEF Sound
  <2>3. CASE x = d /\ p = q
    <3>1. T2[d][c].ver = v
      BY <1>1, <1>4, <2>1, <2>3 DEF e
    <3> QED
      BY <1>1, <3>1
  <2>4. CASE x = d /\ p = c
    BY <1>1, <2>1, <2>2, <2>4 DEF None
  <2>5. CASE ~ (x = d /\ p = q) /\ ~ (x = d /\ p = c)
    BY <1>4, <2>1, <2>5
  <2> QED
    BY <2>3, <2>4, <2>5
<1> QED
  BY <1>6, <1>11, <1>12, <1>13 DEF Sound

\* The baseline is replaced by one that is true of both sides.
LEMMA SoundSave ==
    ASSUME NEW B, NEW T, NEW n, NEW k, NEW lv, Sound(B, T, n, k, lv),
           NEW new \in Tree, Plain(new),
           \A x \in Sides, p \in Paths : SameIdentity(new[p], T[x][p])
    PROVE  Sound(new, T, n, k, lv)
<1> DEFINE P == T["primary"]
<1>1. /\ P \in Known(B, T)
      /\ \A u \in Known(new, T) : u = new \/ u \in Known(B, T)
  BY TwoSides DEF Known
<1>2. \A p \in Paths : SameIdentity(new[p], P[p])
  BY TwoSides
<1>3. P \in Tree /\ Authentic(P, n, k)
  BY <1>1, TwoSides DEF Sound
<1> HIDE DEF P
<1>4. \A p \in Paths : Content(new[p]) /\ Content(P[p])
  BY <1>3, PlainContent, AuthenticPlain
<1>5. \A p \in Paths : /\ new[p].type = P[p].type /\ new[p].ver = P[p].ver
                       /\ new[p] = None <=> P[p] = None
  BY <1>2, <1>4, ContentIdentity
<1>6. Authentic(new, n, k)
  BY <1>3, <1>5 DEF Authentic
<1>7. \A u \in Known(new, T) : Authentic(u, n, k)
  BY <1>1, <1>6 DEF Sound
<1>8. \A u \in Known(new, T), p \in Paths : u[p] # None =>
         \E w \in Known(B, T) : w[p] # None /\ w[p].ver = u[p].ver /\ w[p].type = u[p].type
  BY <1>1, <1>5
<1>9. OnePath(Known(new, T))
  <2>1. OnePath(Known(B, T))
    BY DEF Sound
  <2> QED
    BY <1>8, <2>1 DEF OnePath
<1>10. Replaced(new, T, lv)
  BY DEF Replaced
<1> QED
  BY <1>7, <1>9, <1>10 DEF Sound

\* A path without a conflict suffix.
Unstamped(p) == \A t : ~ StampedBy(p, t)

\* Version n + 1, or nothing, takes the place of what was there.
Edited(T, T2, n, lv, lv2, d, p, e) ==
    /\ T2 = [T EXCEPT ![d] = [T[d] EXCEPT ![p] = e]]
    /\ e # None => e.type \in {"file", "symlink"} /\ e.ver = n + 1
    /\ Unstamped(p)
    /\ lv2 \subseteq (lv \ {T[d][p].ver}) \cup {n + 1}
    /\ n + 1 \in lv2 => e # None

\* A user writes a file or a symlink, or removes one.
LEMMA SoundEdit ==
    ASSUME NEW B, NEW T, NEW n, NEW k, NEW lv, Sound(B, T, n, k, lv),
           NEW T2 \in [Sides -> Tree], NEW d \in Sides, NEW p \in Paths, NEW e,
           NEW lv2, Edited(T, T2, n, lv, lv2, d, p, e)
    PROVE  Sound(B, T2, n + 1, k, lv2)
<1> DEFINE m == n + 1
<1>1. n \in Nat /\ m \in Nat /\ m > n /\ lv \subseteq 1..n /\ m \in 1..m /\ 1..n \subseteq 1..m
  BY DEF Sound
<1>2. \A x \in Sides, q \in Paths : T2[x][q] = IF x = d /\ q = p THEN e ELSE T[x][q]
  BY DEF Sound, Tree, Edited
<1>3. /\ B \in Known(B, T) /\ \A x \in Sides : T[x] \in Known(B, T)
      /\ \A u \in Known(B, T2) : u = B \/ \E x \in Sides : u = T2[x]
  BY DEF Known
<1>4. \A u \in Known(B, T) : Authentic(u, n, k)
  BY DEF Sound
<1>5. lv2 \subseteq (lv \ {T[d][p].ver}) \cup {m} /\ (m \in lv2 => e # None)
  BY DEF Edited
<1>6. e # None => e.type \in {"file", "symlink"} /\ e.ver = m
  BY DEF Edited
<1> HIDE DEF m
<1>7. \A u \in Known(B, T2), q \in Paths : u[q] # None =>
         \/ q = p /\ u[q] = e
         \/ \E w \in Known(B, T) : w[q] = u[q]
  <2> SUFFICES ASSUME NEW u \in Known(B, T2), NEW q \in Paths, u[q] # None
               PROVE  \/ q = p /\ u[q] = e
                      \/ \E w \in Known(B, T) : w[q] = u[q]
    OBVIOUS
  <2>1. CASE u = B
    BY <1>3, <2>1
  <2>2. ASSUME NEW x \in Sides, u = T2[x] PROVE (q = p /\ u[q] = e) \/ u[q] = T[x][q]
    BY <1>2, <2>2
  <2> QED
    BY <1>3, <2>1, <2>2
<1>8. \A u \in Known(B, T2) : Authentic(u, m, k)
  BY <1>1, <1>4, <1>6, <1>7 DEF Authentic, Unstamped, Edited
<1>9. \A w \in Known(B, T), q \in Paths : w[q] # None => w[q].ver # m
  BY <1>1, <1>4 DEF Authentic
<1>10. OnePath(Known(B, T2))
  <2>1. OnePath(Known(B, T))
    BY DEF Sound
  <2> SUFFICES \A u, w \in Known(B, T2), q, r \in Paths :
                  u[q] # None /\ w[r] # None /\ u[q].ver = w[r].ver
                     => q = r /\ u[q].type = w[r].type
    BY DEF OnePath
  <2> TAKE u, w \in Known(B, T2), q, r \in Paths
  <2> HAVE u[q] # None /\ w[r] # None /\ u[q].ver = w[r].ver
  <2>2. \/ q = p /\ u[q] = e
        \/ \E v \in Known(B, T) : v[q] = u[q]
    BY <1>7
  <2>3. \/ r = p /\ w[r] = e
        \/ \E v \in Known(B, T) : v[r] = w[r]
    BY <1>7
  <2>4. CASE q = p /\ u[q] = e
    BY <1>6, <1>9, <2>3, <2>4
  <2>5. CASE \E v \in Known(B, T) : v[q] = u[q]
    <3>1. PICK u1 \in Known(B, T) : u1[q] = u[q]
      BY <2>5
    <3>2. PICK w1 \in Known(B, T) : w1[r] = w[r]
      BY <1>6, <1>9, <2>3, <3>1
    <3> QED
      BY <2>1, <3>1, <3>2 DEF OnePath
  <2> QED
    BY <2>2, <2>4, <2>5
<1>11. Replaced(B, T2, lv2)
  <2> SUFFICES ASSUME NEW x \in Sides, NEW q \in Paths,
                      B[q] # None, ~ SameIdentity(B[q], T2[x][q])
               PROVE  B[q].ver \notin lv2
    BY DEF Replaced
  <2>1. B[q].ver # m
    BY <1>3, <1>9
  <2>2. CASE ~ SameIdentity(B[q], T[x][q])
    BY <1>5, <2>1, <2>2 DEF Sound, Replaced
  <2>3. CASE SameIdentity(B[q], T[x][q])
    <3>1. x = d /\ q = p
      BY <1>2, <2>3
    <3>2. B[q].type \in {"file", "symlink"}
      BY <1>3, <1>4 DEF Authentic
    <3>3. B[q].ver = T[d][p].ver
      BY <2>3, <3>1, <3>2 DEF SameIdentity
    <3> QED
      BY <1>5, <2>1, <3>3
  <2> QED
    BY <2>2, <2>3
<1>12. Stored(T2, lv2)
  <2> SUFFICES ASSUME NEW v \in lv2 PROVE \E x \in Sides, q \in Paths : T2[x][q].ver = v
    BY DEF Stored
  <2>1. CASE v = m
    BY <1>2, <1>5, <1>6, <2>1
  <2>2. CASE v \in lv \ {T[d][p].ver}
    <3>1. PICK x \in Sides, q \in Paths : T[x][q].ver = v
      BY <2>2 DEF Sound, Stored
    <3>2. ~ (x = d /\ q = p)
      BY <2>2, <3>1
    <3> QED
      BY <1>2, <3>1, <3>2
  <2> QED
    BY <1>5, <2>1, <2>2
<1>13. lv2 \subseteq 1..m
  BY <1>1, <1>5
<1>14. Sound(B, T2, m, k, lv2)
  BY <1>1, <1>8, <1>10, <1>11, <1>12, <1>13 DEF Sound
<1> QED
  BY <1>14 DEF m

\* Time goes on.
LEMMA SoundLater ==
    ASSUME NEW B, NEW T, NEW n, NEW k \in Nat, NEW lv, Sound(B, T, n, k, lv), NEW j \in Nat, k <= j
    PROVE  Sound(B, T, n, j, lv)
<1>1. \A p \in Paths : \A t : StampedBy(p, t) => t \in Int
  <2> SUFFICES ASSUME NEW p \in Paths, NEW t, StampedBy(p, t) PROVE t \in Int
    OBVIOUS
  <2>1. PICK sh \in Shapes : p \in PathsOfShape(sh)
    BY DEF Paths
  <2>2. PICK st \in [1..Len(sh) -> SUBSET Stamps] :
           p = [i \in 1..Len(sh) |-> Component(sh[i], st[i])]
    BY <2>1 DEF PathsOfShape
  <2>3. Len(p) = Len(sh) /\ Len(p) \in 1..Len(sh)
    BY <2>2, ShapesAssumption
  <2>4. p[Len(p)].stamps \subseteq Stamps
    BY <2>2, <2>3 DEF Component
  <2> QED
    BY <2>4 DEF StampedBy, Stamps
<1>2. \A u : Authentic(u, n, k) => Authentic(u, n, j)
  BY <1>1 DEF Authentic
<1> QED
  BY <1>2 DEF Sound

----------------------------------------------------------------------------
(* The state machine with one two-way service *)

\* Users write and remove files and symlinks in one directory between the
\* passes, sizes tell contents apart (the inode-reuse guard of rename.go is
\* exact), no two conflicts fall into one second, and the only call that fails
\* is state.Save.
TwoWay(s) ==
    /\ Services = {s} /\ Mode[s] = "sync"
    /\ Flat
    /\ UserOps \subseteq {"write", "remove"}
    /\ \A v, w \in Versions : SizeOf[v] = SizeOf[w] => v = w
    /\ ~ EditsDuringPass /\ ~ ClockStands
    /\ Faults \subseteq {"save"}

Ends(s) == [d \in Sides |-> tree[LocationOf(s, d)]]

\* The pass that is being applied: F is what it has scanned, t its stamp.
Underway(s) ==
    \E F, t :
        /\ Start(baseline, F, t)
        /\ todo[s] \subseteq Merged(baseline, F, t)
        /\ newBase[s] = NewBaseline(baseline, F["primary"], F["secondary"], t)
        /\ InProgress(baseline, F, t, todo[s], Ends(s))
        /\ (\E p \in Paths : Clash(baseline, F, p)) => t < now

PassInv(s) ==
    /\ pc[s] = "idle" <=> lock = "none"
    /\ pc[s] = "scanned" => view[s] = tree[Primary]
    /\ Sound(baseline, Ends(s), edits, now, live)
    /\ pc[s] = "apply" => Underway(s)

\* The two ends of the service are all the trees there are.
LEMMA EndsAre ==
    ASSUME NEW s \in Services, TwoWay(s)
    PROVE  /\ Ends(s)["primary"] = tree[Primary] /\ Ends(s)["secondary"] = tree[s]
           /\ \A d \in Sides : Ends(s)[d] = tree[LocationOf(s, d)]
           /\ Locations = {Primary, s} /\ s # Primary
           /\ TypeOK => Ends(s) \in [Sides -> Tree]
           /\ tree' = tree => Ends(s)' = Ends(s)
<1>1. Locations = {Primary, s} /\ s # Primary
  BY LocationsAreTheServices DEF TwoWay
<1>2. \A d \in Sides : Ends(s)[d] = tree[LocationOf(s, d)]
  BY DEF Ends
<1>3. Ends(s)["primary"] = tree[Primary] /\ Ends(s)["secondary"] = tree[s]
  BY <1>2 DEF LocationOf, Sides
<1>4. TypeOK => Ends(s) \in [Sides -> Tree]
  BY <1>1 DEF Ends, TypeOK, LocationOf
<1>5. tree' = tree => Ends(s)' = Ends(s)
  BY DEF Ends, LocationOf
<1> QED
  BY <1>1, <1>2, <1>3, <1>4, <1>5

\* Two empty trees and an empty baseline.
LEMMA PassInvInit ==
    ASSUME NEW s \in Services, TwoWay(s), Init
    PROVE  PassInv(s)
<1>1. TypeOK
  BY EmptyTreeType, BoundsAssumption, FaultBoundsAssumption DEF Init, TypeOK
<1>2. /\ baseline = EmptyTree /\ \A d \in Sides : Ends(s)[d] = EmptyTree
      /\ edits = 0 /\ now = 1 /\ live = {}
  BY EndsAre DEF Init, LocationOf
<1>3. \A p \in Paths : EmptyTree[p] = None
  BY DEF EmptyTree
<1>4. \A u \in Known(baseline, Ends(s)) : u = EmptyTree
  BY <1>2 DEF Known
<1>5. Authentic(EmptyTree, edits, now)
  BY <1>3 DEF Authentic
<1>6. Sound(baseline, Ends(s), edits, now, live)
  BY <1>1, <1>2, <1>3, <1>4, <1>5, EndsAre, EmptyTreeType DEF Sound, OnePath, Replaced, Stored
<1> QED
  BY <1>6 DEF PassInv, Init

\* A step that leaves the disk alone and ends the pass, or opens it.
LEMMA EndPassKeeps ==
    ASSUME NEW s \in Services, TwoWay(s), TypeOK, TypeOK', EndPass(s),
           Sound(baseline', Ends(s), edits, now, live), tree' = tree,
           edits' = edits, live' = live, now <= now'
    PROVE  PassInv(s)'
<1>1. now \in Nat /\ now' \in Nat
  BY DEF TypeOK
<1>2. Sound(baseline', Ends(s), edits, now', live)
  BY <1>1, SoundLater
<1>3. Sound(baseline', Ends(s)', edits', now', live')
  BY <1>2, EndsAre
<1>4. pc'[s] = "idle" /\ lock' = "none"
  BY DEF EndPass, TypeOK
<1> QED
  BY <1>3, <1>4 DEF PassInv

\* Begin: the primary is scanned as it is.
LEMMA BeginKeeps ==
    ASSUME NEW s \in Services, TwoWay(s), TypeOK, TypeOK', PassInv(s), Begin(s)
    PROVE  PassInv(s)'
<1>1. view'[s] = tree[Primary]
  BY DEF Begin, Scans, MayFail, TwoWay, TypeOK
<1>2. pc'[s] = "scanned" /\ lock' = s /\ s # "none"
  BY EndsAre, LocationsAssumption DEF Begin, TypeOK
<1>3. UNCHANGED <<tree, baseline, edits, now, live>>
  BY DEF Begin, disk
<1>4. Sound(baseline', Ends(s)', edits', now', live')
  BY <1>3, EndsAre DEF PassInv
<1> QED
  BY <1>1, <1>2, <1>3, <1>4 DEF PassInv

\* Merge: nothing has been applied yet.
LEMMA MergeKeeps ==
    ASSUME NEW s \in Services, TwoWay(s), TypeOK, TypeOK', PassInv(s), Merge(s)
    PROVE  PassInv(s)'
<1> DEFINE F == Ends(s)
           nb == NewBaseline(baseline, F["primary"], F["secondary"], now)
           ops == Merged(baseline, F, now)
           conflicts == Conflicts(baseline, F["primary"], F["secondary"])
<1>1. view[s] = tree[Primary] /\ PassBaseline(s, view[s], tree[s]) = baseline
  BY DEF Merge, PassInv, PassBaseline, TwoWay
<1>2. Scans(tree[s]) = {tree[s]}
  BY DEF Scans, MayFail, TwoWay
<1>3. F["primary"] = tree[Primary] /\ F["secondary"] = tree[s]
  BY EndsAre
<1>4. /\ conflicts # {} => now <= MaxStamp
      /\ now' = IF conflicts # {} /\ ~ ClockStands THEN now + 1 ELSE now
      /\ \/ ops = {} /\ EndPass(s)
         \/ /\ todo' = [todo EXCEPT ![s] = ops]
            /\ newBase' = [newBase EXCEPT ![s] = nb]
            /\ pc' = [pc EXCEPT ![s] = "apply"]
            /\ UNCHANGED lock
  BY <1>1, <1>2, <1>3 DEF Merge, Merged
<1>5. UNCHANGED <<tree, baseline, edits, live>> /\ pc[s] = "scanned"
  BY DEF Merge, disk
<1>6. now \in Nat /\ now' \in Nat /\ now <= now' /\ edits <= MaxVersion
  BY <1>4 DEF TypeOK
<1>7. Sound(baseline, F, edits, now, live)
  BY DEF PassInv
<1>8. \A v, w \in Versions : SizeOf[v] = SizeOf[w] => v = w
  BY DEF TwoWay
<1>9. ~ ClockStands
  BY DEF TwoWay
<1> HIDE DEF F, nb
<1>10. conflicts = {p \in Paths : Clash(baseline, F, p)}
  <2>1. /\ RenamePairs(baseline, F["primary"], F["secondary"]) = {}
        /\ RenamePairs(baseline, F["secondary"], F["primary"]) = {}
    BY <1>6, <1>7, <1>8, SoundNoRenames, TwoSides
  <2> QED
    BY <2>1, ClashesAreConflicts
<1> HIDE DEF ops, conflicts
<1>11. Start(baseline, F, now)
  <2>1. (\E p \in Paths : Clash(baseline, F, p)) => now \in Stamps
    BY <1>4, <1>10 DEF TypeOK, Stamps
  <2> QED
    BY <1>6, <1>7, <1>8, <2>1, SoundStart
<1>12. CASE EndPass(s)
  BY <1>5, <1>6, <1>7, <1>12, EndPassKeeps DEF F
<1>13. CASE /\ todo' = [todo EXCEPT ![s] = ops]
            /\ newBase' = [newBase EXCEPT ![s] = nb]
            /\ pc' = [pc EXCEPT ![s] = "apply"]
            /\ UNCHANGED lock
  <2>1. todo'[s] = ops /\ newBase'[s] = nb /\ pc'[s] = "apply" /\ lock' = lock /\ baseline' = baseline
    BY <1>5, <1>13 DEF TypeOK
  <2>2. Ends(s)' = F
    BY <1>5, EndsAre DEF F
  <2>3. InProgress(baseline, F, now, ops, F)
    BY <1>11, StartProgress DEF TwoWay, ops
  <2>4. (\E p \in Paths : Clash(baseline, F, p)) => now < now'
    BY <1>4, <1>6, <1>9, <1>10
  <2>5. Underway(s)'
    BY <1>11, <2>1, <2>2, <2>3, <2>4 DEF Underway, ops, nb
  <2>6. Sound(baseline', Ends(s)', edits', now', live')
    BY <1>5, <1>6, <1>7, <2>2, SoundLater
  <2>7. lock # "none"
    BY <1>5 DEF PassInv, TypeOK
  <2> QED
    BY <2>1, <2>5, <2>6, <2>7 DEF PassInv
<1> QED
  BY <1>4, <1>12, <1>13

\* ApplyNext: one of the three things an operation does.
LEMMA ApplyKeeps ==
    ASSUME NEW s \in Services, TwoWay(s), TypeOK, TypeOK', PassInv(s), ApplyNext(s)
    PROVE  PassInv(s)'
<1> DEFINE T == Ends(s)
           T2 == Ends(s)'
<1>1. PICK op \in todo[s] :
         LET l == LocationOf(s, op.dst)
             src == tree[LocationOf(s, OtherSide(op.dst))]
         IN  /\ IsFirst(op, todo[s])
             /\ todo' = [todo EXCEPT ![s] = @ \ {op}]
             /\ tree' = [tree EXCEPT ![l] = ApplyOne(op, src, tree[l], l)]
  BY DEF ApplyNext, MayFail, TwoWay
<1> DEFINE l == LocationOf(s, op.dst)
<1>2. /\ UNCHANGED <<baseline, pc, lock, newBase, now, edits, live>>
      /\ pc[s] = "apply" /\ todo'[s] = todo[s] \ {op}
  BY <1>1 DEF ApplyNext, TypeOK
<1>3. PICK F, t :
         /\ Start(baseline, F, t)
         /\ todo[s] \subseteq Merged(baseline, F, t)
         /\ newBase[s] = NewBaseline(baseline, F["primary"], F["secondary"], t)
         /\ InProgress(baseline, F, t, todo[s], T)
         /\ (\E p \in Paths : Clash(baseline, F, p)) => t < now
  BY <1>2 DEF PassInv, Underway
<1>4. op.dst \in Sides /\ OtherSide(op.dst) \in Sides /\ OtherSide(op.dst) # op.dst
  BY <1>1, TwoSides DEF TypeOK, Op
<1>5. T \in [Sides -> Tree] /\ T2 \in [Sides -> Tree]
  <2>1. tree' \in [Locations -> Tree] /\ \A d \in Sides : LocationOf(s, d) \in Locations
    BY LocationTypes DEF TypeOK
  <2> QED
    BY <2>1, EndsAre DEF Ends, LocationOf
<1>6. T2 = Applied(T, op, l)
  <2>1. \A d \in Sides : /\ T[d] = tree[LocationOf(s, d)]
                         /\ T2[d] = tree'[LocationOf(s, d)]
    BY DEF Ends, LocationOf
  <2>2. \A d \in Sides : LocationOf(s, d) = l <=> d = op.dst
    BY <1>4, EndsAre DEF LocationOf, Sides
  <2>3. \A d \in Sides : LocationOf(s, d) \in Locations
    BY LocationTypes
  <2> DEFINE u == ApplyOne(op, T[OtherSide(op.dst)], T[op.dst], l)
  <2>4. tree' = [tree EXCEPT ![l] = u]
    BY <1>1, <1>4, <2>1
  <2> HIDE DEF T, T2, l, u
  <2>5. \A d \in Sides : T2[d] = IF d = op.dst THEN u ELSE T[d]
    BY <2>1, <2>2, <2>3, <2>4 DEF TypeOK
  <2>6. T2 = [d \in Sides |-> T2[d]] /\ T = [d \in Sides |-> T[d]]
    BY <1>5
  <2>7. T2 = [T EXCEPT ![op.dst] = u]
    BY <1>4, <1>5, <2>5, <2>6
  <2> QED
    BY <2>7 DEF Applied, u
<1>7. Sound(baseline, T, edits, now, live) /\ now \in Nat
  BY DEF PassInv, TypeOK
<1> HIDE DEF T, T2, l
<1>8. \A x \in Sides : Plain(T[x])
  <2>1. \A x \in Sides : Authentic(T[x], edits, now)
    BY <1>7 DEF Sound, Known
  <2> QED
    BY <1>5, <2>1, AuthenticPlain
<1>9. Flat
  BY DEF TwoWay
<1>10. /\ InProgress(baseline, F, t, todo[s] \ {op}, T2)
       /\ \E d \in Sides, p \in Paths :
             \/ Copies(baseline, T, T2, d, p)
             \/ Deletes(baseline, T, T2, d, p)
             \/ SetsAside(baseline, T, T2, t, d, p) /\ Clash(baseline, F, p)
  <2>1. todo[s] \in SUBSET Merged(baseline, F, t) /\ IsFirst(op, todo[s])
    BY <1>1, <1>3
  <2> QED
    BY <1>1, <1>3, <1>5, <1>6, <1>8, <1>9, <2>1, PassStep
<1>11. Sound(baseline, T2, edits, now, live)
  <2>1. PICK d \in Sides, p \in Paths :
             \/ Copies(baseline, T, T2, d, p)
             \/ Deletes(baseline, T, T2, d, p)
             \/ SetsAside(baseline, T, T2, t, d, p) /\ Clash(baseline, F, p)
    BY <1>10
  <2>2. CASE Copies(baseline, T, T2, d, p)
    BY <1>5, <1>7, <2>2, SoundCopy
  <2>3. CASE Deletes(baseline, T, T2, d, p)
    BY <1>5, <1>7, <2>3, SoundDelete
  <2>4. CASE SetsAside(baseline, T, T2, t, d, p) /\ Clash(baseline, F, p)
    BY <1>3, <1>5, <1>7, <1>9, <2>4, SoundAside
  <2> QED
    BY <2>1, <2>2, <2>3, <2>4
<1>12. Underway(s)'
  BY <1>2, <1>3, <1>10 DEF Underway, T2
<1>13. Sound(baseline', Ends(s)', edits', now', live')
  BY <1>2, <1>11 DEF T2
<1>14. pc'[s] = "apply" /\ lock' # "none"
  BY <1>2 DEF PassInv
<1> QED
  BY <1>12, <1>13, <1>14 DEF PassInv

\* A pass with nothing left to apply: its new baseline is true of both sides.
LEMMA AllApplied ==
    ASSUME NEW s \in Services, TwoWay(s), TypeOK, PassInv(s), pc[s] = "apply", todo[s] = {}
    PROVE  /\ Plain(newBase[s])
           /\ \A d \in Sides, p \in Paths : SameIdentity(newBase[s][p], Ends(s)[d][p])
<1> DEFINE T == Ends(s)
<1>1. PICK F, t :
         /\ Start(baseline, F, t)
         /\ newBase[s] = NewBaseline(baseline, F["primary"], F["secondary"], t)
         /\ InProgress(baseline, F, t, {}, T)
  BY DEF PassInv, Underway
<1>2. T \in [Sides -> Tree] /\ Sound(baseline, T, edits, now, live)
  BY EndsAre DEF PassInv
<1> HIDE DEF T
<1>3. \A x \in Sides : Authentic(T[x], edits, now)
  BY <1>2 DEF Sound, Known
<1>4. \A x \in Sides : Plain(T[x])
  BY <1>2, <1>3, AuthenticPlain
<1>5. Flat
  BY DEF TwoWay
<1>6. LET new == NewBaseline(baseline, F["primary"], F["secondary"], t)
      IN  /\ Plain(new)
          /\ \A d \in Sides, q \in Paths : SameIdentity(new[q], T[d][q])
  BY <1>1, <1>2, <1>4, <1>5, PassEnd
<1> QED
  BY <1>1, <1>6 DEF T

\* Save: in the first case the new baseline takes the place of the old one.
LEMMA SaveKeeps ==
    ASSUME NEW s \in Services, TwoWay(s), TypeOK, TypeOK', PassInv(s), Save(s)
    PROVE  PassInv(s)'
<1>1. /\ baseline' = newBase[s] \/ baseline' = baseline
      /\ EndPass(s) /\ UNCHANGED <<tree, now, edits, live>>
      /\ pc[s] = "apply" /\ todo[s] = {}
  BY DEF Save
<1>2. Sound(baseline, Ends(s), edits, now, live)
  BY DEF PassInv
<1>3. newBase[s] \in Tree /\ Plain(newBase[s])
  BY <1>1, AllApplied DEF TypeOK
<1>4. \A d \in Sides, p \in Paths : SameIdentity(newBase[s][p], Ends(s)[d][p])
  BY <1>1, AllApplied
<1>5. Sound(newBase[s], Ends(s), edits, now, live)
  BY <1>2, <1>3, <1>4, SoundSave
<1>6. Sound(baseline', Ends(s), edits, now, live) /\ now <= now'
  BY <1>1, <1>2, <1>5 DEF TypeOK
<1> QED
  BY <1>1, <1>6, EndPassKeeps

\* Crash: the trees stay as the last operation has left them.
LEMMA CrashKeeps ==
    ASSUME NEW s \in Services, TwoWay(s), TypeOK, TypeOK', PassInv(s), Crash(s)
    PROVE  PassInv(s)'
<1>1. EndPass(s) /\ UNCHANGED <<tree, baseline, now, edits, live>>
  BY DEF Crash, disk
<1>2. Sound(baseline', Ends(s), edits, now, live) /\ now <= now'
  BY <1>1 DEF PassInv, TypeOK
<1> QED
  BY <1>1, <1>2, EndPassKeeps

\* What a user does between the passes, on path p of tree l.
Edit(l, p, e) ==
    /\ lock = "none" /\ edits' = edits + 1
    /\ UNCHANGED <<baseline, lock, pc, view, todo, newBase, now>>
    /\ Unstamped(p)
    /\ tree' = [tree EXCEPT ![l] = [tree[l] EXCEPT ![p] = e]]
    /\ e # None => e.type \in {"file", "symlink"} /\ e.ver = edits + 1
    /\ live' \subseteq (live \ {tree[l][p].ver}) \cup {edits + 1}
    /\ edits + 1 \in live' => e # None

\* A user step is one such edit: the others need directories or renames.
LEMMA UserEffect ==
    ASSUME NEW s \in Services, TwoWay(s), TypeOK, live \subseteq 1..edits, User
    PROVE  \E l \in Locations, p \in Paths : \E e : Edit(l, p, e)
<1>1. PICK l \in EditedLocations, p \in OriginalPaths : UserWrite(l, p) \/ UserRemove(l, p)
  <2>1. \A l \in EditedLocations, p \in OriginalPaths : ~ UserMkdir(l, p)
    BY DEF UserMkdir, UserStep, TwoWay
  <2>2. \A l \in EditedLocations, p, q \in OriginalPaths : ~ UserMove(l, p, q)
    BY DEF UserMove, UserStep, TwoWay
  <2> QED
    BY <2>1, <2>2 DEF User
<1>2. l \in Locations /\ p \in Paths /\ tree[l] \in Tree /\ edits \in Nat
  BY EditedLocationsAssumption DEF OriginalPaths, TypeOK
<1>3. Unstamped(p)
  BY FlatPaths DEF TwoWay, OriginalPaths, StampedBy, Unstamped
<1>4. CASE UserWrite(l, p)
  <2>1. PICK e : /\ e # None /\ e.type \in {"file", "symlink"} /\ e.ver = edits + 1
                 /\ UserStep("write", l, [tree[l] EXCEPT ![p] = e], {edits + 1}, {tree[l][p].ver})
    <3>1. \A v : Symlink(v) # None /\ Symlink(v).type = "symlink" /\ Symlink(v).ver = v
      BY DEF Symlink, None
    <3>0. \A v, loc, i : /\ File(v, loc, i) # None
                         /\ File(v, loc, i).type = "file" /\ File(v, loc, i).ver = v
      BY DEF File, None
    <3>2. \/ \E i : UserStep("write", l, [tree[l] EXCEPT ![p] = File(edits + 1, l, i)],
                             {edits + 1}, {tree[l][p].ver})
          \/ UserStep("write", l, [tree[l] EXCEPT ![p] = Symlink(edits + 1)],
                      {edits + 1}, {tree[l][p].ver})
      BY <1>4 DEF UserWrite
    <3>3. ASSUME NEW i, UserStep("write", l, [tree[l] EXCEPT ![p] = File(edits + 1, l, i)],
                                 {edits + 1}, {tree[l][p].ver})
          PROVE  \E e : /\ e # None /\ e.type \in {"file", "symlink"} /\ e.ver = edits + 1
                        /\ UserStep("write", l, [tree[l] EXCEPT ![p] = e],
                                    {edits + 1}, {tree[l][p].ver})
      <4> WITNESS File(edits + 1, l, i)
      <4> QED
        BY <3>0, <3>3
    <3>4. ASSUME UserStep("write", l, [tree[l] EXCEPT ![p] = Symlink(edits + 1)],
                          {edits + 1}, {tree[l][p].ver})
          PROVE  \E e : /\ e # None /\ e.type \in {"file", "symlink"} /\ e.ver = edits + 1
                        /\ UserStep("write", l, [tree[l] EXCEPT ![p] = e],
                                    {edits + 1}, {tree[l][p].ver})
      <4> WITNESS Symlink(edits + 1)
      <4> QED
        BY <3>1, <3>4
    <3> QED
      BY <3>2, <3>3, <3>4
  <2>2. /\ lock = "none" /\ edits' = edits + 1
        /\ UNCHANGED <<baseline, lock, pc, view, todo, newBase, now>>
        /\ tree' = [tree EXCEPT ![l] = [tree[l] EXCEPT ![p] = e]]
        /\ live' = (live \ {tree[l][p].ver}) \cup {edits + 1}
    BY <2>1 DEF UserStep, TwoWay, pass
  <2>3. Edit(l, p, e)
    BY <1>3, <2>1, <2>2 DEF Edit
  <2> QED
    BY <1>2, <2>3
<1>5. CASE UserRemove(l, p)
  <2>1. \A q \in Paths : Beneath(p, q) <=> q = p
    BY <1>2, FlatPaths DEF TwoWay
  <2>2. RemoveAll(tree[l], p) = [tree[l] EXCEPT ![p] = None]
    BY <1>2, <2>1 DEF RemoveAll, Tree
  <2>3. VersionsIn(tree[l], p) = {tree[l][p].ver} \ {0}
    BY <1>2, <2>1 DEF VersionsIn
  <2>4. UserStep("remove", l, [tree[l] EXCEPT ![p] = None], {}, {tree[l][p].ver} \ {0})
    BY <1>5, <2>2, <2>3 DEF UserRemove
  <2>5. live' \subseteq live \ {tree[l][p].ver} /\ edits + 1 \notin live'
    BY <1>2, <2>4 DEF UserStep
  <2> QED
    BY <1>2, <1>3, <2>4, <2>5 DEF Edit, UserStep, TwoWay, pass
<1> QED
  BY <1>1, <1>4, <1>5

\* User: the version that is replaced is no longer wanted.
LEMMA UserKeeps ==
    ASSUME NEW s \in Services, TwoWay(s), TypeOK, TypeOK', PassInv(s), User
    PROVE  PassInv(s)'
<1> DEFINE T == Ends(s)
           T2 == Ends(s)'
<1>1. Sound(baseline, T, edits, now, live) /\ live \subseteq 1..edits
  BY DEF PassInv, Sound
<1>2. PICK l \in Locations, p \in Paths : \E e : Edit(l, p, e)
  BY <1>1, UserEffect
<1> PICK e : Edit(l, p, e)
  BY <1>2
<1>3. PICK d \in Sides : LocationOf(s, d) = l
  BY EndsAre DEF LocationOf, Sides
<1>4. T \in [Sides -> Tree] /\ T2 \in [Sides -> Tree]
  <2>1. tree' \in [Locations -> Tree] /\ \A x \in Sides : LocationOf(s, x) \in Locations
    BY LocationTypes DEF TypeOK
  <2> QED
    BY <2>1, EndsAre DEF Ends, LocationOf
<1>5. \A x \in Sides : LocationOf(s, x) = l <=> x = d
  BY <1>3, EndsAre DEF LocationOf, Sides
<1>6. \A x \in Sides : /\ T[x] = tree[LocationOf(s, x)]
                       /\ T2[x] = tree'[LocationOf(s, x)]
                       /\ LocationOf(s, x) \in Locations
  BY LocationTypes DEF Ends, LocationOf
<1> HIDE DEF T, T2
<1>7. T2 = [T EXCEPT ![d] = [T[d] EXCEPT ![p] = e]]
  <2> DEFINE u == [T[d] EXCEPT ![p] = e]
  <2>1. tree' = [tree EXCEPT ![l] = u]
    BY <1>3, <1>6 DEF Edit
  <2> HIDE DEF u
  <2>2. \A x \in Sides : T2[x] = IF x = d THEN u ELSE T[x]
    BY <1>5, <1>6, <2>1 DEF TypeOK
  <2>3. T2 = [x \in Sides |-> T2[x]] /\ T = [x \in Sides |-> T[x]]
    BY <1>4
  <2>4. T2 = [T EXCEPT ![d] = u]
    BY <1>4, <2>2, <2>3
  <2> QED
    BY <2>4 DEF u
<1>8. tree[l][p].ver = T[d][p].ver
  BY <1>3, <1>6
<1>9. Sound(baseline, T2, edits + 1, now, live')
  <2> DEFINE lv == live'
  <2>1. /\ e # None => e.type \in {"file", "symlink"} /\ e.ver = edits + 1
        /\ Unstamped(p)
    BY DEF Edit
  <2>2. /\ lv \subseteq (live \ {T[d][p].ver}) \cup {edits + 1}
        /\ edits + 1 \in lv => e # None
    BY <1>8 DEF Edit
  <2> HIDE DEF lv
  <2>3. Edited(T, T2, edits, live, lv, d, p, e)
    BY <1>7, <2>1, <2>2 DEF Edited
  <2>4. Sound(baseline, T2, edits + 1, now, lv)
    BY <1>1, <1>4, <2>3, SoundEdit
  <2> QED
    BY <2>4 DEF lv
<1>10. Sound(baseline', Ends(s)', edits', now', live')
  BY <1>9 DEF Edit, T2
<1>11. pc'[s] = "idle" /\ lock' = "none"
  BY DEF Edit, PassInv
<1> QED
  BY <1>10, <1>11 DEF PassInv

\* The inductive invariant.
THEOREM PassInvariant ==
    ASSUME NEW s \in Services, TwoWay(s)
    PROVE  Spec => [](TypeOK /\ PassInv(s))
<1>1. Init => PassInv(s)
  BY PassInvInit
<1>2. TypeOK /\ TypeOK' /\ PassInv(s) /\ [Next]_vars => PassInv(s)'
  <2> SUFFICES ASSUME TypeOK, TypeOK', PassInv(s), [Next]_vars PROVE PassInv(s)'
    OBVIOUS
  <2>1. \A x \in Services : x = s
    BY DEF TwoWay
  <2>2. CASE Begin(s)
    BY <2>2, BeginKeeps
  <2>3. CASE Merge(s)
    BY <2>3, MergeKeeps
  <2>4. CASE ApplyNext(s)
    BY <2>4, ApplyKeeps
  <2>5. CASE Save(s)
    BY <2>5, SaveKeeps
  <2>6. CASE Crash(s)
    BY <2>6, CrashKeeps
  <2>7. CASE User
    BY <2>7, UserKeeps
  <2>8. CASE UNCHANGED vars
    <3>1. Ends(s)' = Ends(s)
      BY <2>8, EndsAre DEF vars
    <3>2. UNCHANGED <<tree, baseline, lock, pc, view, todo, newBase, now, edits, live>>
      BY <2>8 DEF vars
    <3>3. Underway(s) => Underway(s)'
      BY <3>1, <3>2 DEF Underway
    <3> QED
      BY <3>1, <3>2, <3>3 DEF PassInv
  <2> QED
    BY <2>1, <2>2, <2>3, <2>4, <2>5, <2>6, <2>7, <2>8 DEF Next, Engine
<1> QED
  BY <1>1, <1>2, TypeCorrect, PTL DEF Spec

\* "Primary wins, nothing lost": whatever the users write or remove between the
\* passes of a two-way service, and wherever a pass crashes or fails to save, a
\* version no user has overwritten or removed is in one of the two trees.
THEOREM NoVersionLost ==
    ASSUME NEW s \in Services, TwoWay(s)
    PROVE  Spec => []NothingLost
<1>1. TypeOK /\ PassInv(s) => NothingLost
  <2> SUFFICES ASSUME PassInv(s), NEW v \in live
               PROVE  \E l \in Locations, p \in Paths : tree[l][p].ver = v
    BY DEF NothingLost
  <2>1. PICK d \in Sides, p \in Paths : Ends(s)[d][p].ver = v
    BY DEF PassInv, Sound, Stored
  <2> QED
    BY <2>1, EndsAre, LocationTypes
<1> QED
  BY <1>1, PassInvariant, PTL

\* Result.NewBaseline, "the baseline AFTER ops are applied", is true of both
\* sides when a pass is about to save it.
THEOREM BaselineTrue ==
    ASSUME NEW s \in Services, TwoWay(s)
    PROVE  Spec => []SavedBaselineIsTrue
<1>1. TypeOK /\ PassInv(s) => SavedBaselineIsTrue
  <2> SUFFICES ASSUME TypeOK, PassInv(s), NEW x \in Services, pc[x] = "apply", todo[x] = {},
                      NEW p \in Paths
               PROVE  /\ SameIdentity(newBase[x][p], tree[Primary][p])
                      /\ SameIdentity(newBase[x][p], tree[x][p])
    BY DEF SavedBaselineIsTrue
  <2>1. x = s
    BY DEF TwoWay
  <2> QED
    BY <2>1, AllApplied, EndsAre, TwoSides
<1> QED
  BY <1>1, PassInvariant, PTL

============================================================================

-------------------------- MODULE ReconcileProofs --------------------------
(***************************************************************************)
(* Lemmas about trees, the system calls that change them and the           *)
(* three-way merge, for every set of paths.                                *)
(***************************************************************************)
EXTENDS Reconcile, TLAPS

----------------------------------------------------------------------------
(* Entries, paths and trees *)

\* The entries the executor and the users make are entries.
LEMMA EntryTypes ==
    /\ None \in Entry
    /\ Dir \in Entry
    /\ \A v \in Versions : Symlink(v) \in Entry
    /\ \A v \in Versions \cup {0}, l \in Locations, i \in Versions \cup {0} :
          File(v, l, i) \in Entry /\ Symlink(v) \in Entry
  BY DEF None, Dir, Symlink, File, Entry

\* The tree without entries is a tree.
LEMMA EmptyTreeType == EmptyTree \in Tree
  BY EntryTypes DEF EmptyTree, Tree

\* conflictPath names a path again.
LEMMA ConflictPathType ==
    ASSUME NEW p \in Paths, NEW t \in Stamps
    PROVE  ConflictPath(p, t) \in Paths
<1>1. PICK sh \in Shapes : p \in PathsOfShape(sh)
  BY DEF Paths
<1>2. PICK st \in [1..Len(sh) -> SUBSET Stamps] :
         p = [i \in 1..Len(sh) |-> Component(sh[i], st[i])]
  BY <1>1 DEF PathsOfShape
<1>3. Len(sh) \in Nat \ {0}
  BY ShapesAssumption
<1>4. Len(p) = Len(sh)
  BY <1>2, <1>3
<1> DEFINE st2 == [i \in 1..Len(sh) |-> IF i = Len(sh) THEN st[i] \cup {t} ELSE st[i]]
<1>5. st2 \in [1..Len(sh) -> SUBSET Stamps]
  BY <1>2
<1>6. ConflictPath(p, t) = [i \in 1..Len(sh) |-> Component(sh[i], st2[i])]
  BY <1>2, <1>4 DEF ConflictPath, Component
<1>7. ConflictPath(p, t) \in PathsOfShape(sh)
  BY <1>5, <1>6 DEF PathsOfShape
<1> QED
  BY <1>7 DEF Paths

\* Every system call of the executor turns a tree into a tree.
LEMMA TreeTypes ==
    ASSUME NEW t \in Tree, NEW p \in Paths, NEW q \in Paths
    PROVE  /\ MkdirAll(t, p) \in Tree
           /\ MkParent(t, p) \in Tree
           /\ RemoveAll(t, p) \in Tree
           /\ Remove(t, p) \in Tree
           /\ Rename(t, p, q) \in Tree
<1>1. MkdirAll(t, p) \in Tree /\ MkParent(t, p) \in Tree
  BY EntryTypes DEF MkdirAll, MkParent, Tree
<1>2. RemoveAll(t, p) \in Tree /\ Remove(t, p) \in Tree
  BY EntryTypes DEF RemoveAll, Remove, Tree
<1>3. Rename(t, p, q) \in Tree
  <2>1. \A x \in Paths : Rename(t, p, q)[x] \in Entry
    BY EntryTypes DEF Rename, Tree
  <2> QED
    BY <2>1 DEF Rename, Tree
<1> QED
  BY <1>1, <1>2, <1>3

\* What a copy writes is an entry.
LEMMA CopyType ==
    ASSUME NEW src \in Tree, NEW t \in Tree, NEW l \in Locations, NEW p \in Paths, NEW type
    PROVE  Copy(src, t, l, p, type) \in Tree
<1>1. src[p].ver \in Versions \cup {0}
  BY DEF Tree, Entry
<1>2. Copied(src, l, p, type) \in Entry
  BY <1>1, EntryTypes DEF Copied
<1> QED
  BY <1>2 DEF Copy, Tree

----------------------------------------------------------------------------
(* The merge *)

\* Rename detection names paths.
LEMMA RenamePairsType ==
    ASSUME NEW B \in Tree, NEW N \in Tree, NEW O \in Tree
    PROVE  RenamePairs(B, N, O) \subseteq Paths \X Paths
<1>1. ASSUME NEW n \in Reappeared(B, N)
      PROVE  n \in Paths /\ OldPath(B, N, n) \in Paths
  <2>1. Vanished(B, N, N[n]) # {} /\ Vanished(B, N, N[n]) \subseteq Paths
    BY <1>1 DEF Reappeared, Vanished
  <2>2. OldPath(B, N, n) \in Vanished(B, N, N[n])
    BY <2>1 DEF OldPath
  <2> QED
    BY <2>1, <2>2 DEF Reappeared
<1> QED
  BY <1>1 DEF RenamePairs

\* The operations of one path are operations, as long as a conflict can still
\* be stamped.
LEMMA PathOpsType ==
    ASSUME NEW p \in Paths, NEW t, NEW b \in Entry, NEW pr \in Entry, NEW se \in Entry,
           Verdict(b, pr, se) \in ConflictVerdicts => t \in Stamps
    PROVE  PathOps(p, t, b, pr, se) \subseteq Op
<1> DEFINE types == {"none", "file", "dir", "symlink"}
<1>1. pr.type \in types /\ se.type \in types
  BY DEF Entry
<1>2. ASSUME NEW k \in OpKinds, NEW d \in Sides, NEW x \in Paths, NEW y \in Paths,
             NEW ty \in types, NEW n \in 0..3
      PROVE  MkOp(k, d, x, y, ty, p, n) \in Op
  BY <1>2 DEF MkOp, Op
<1>3. \A k \in types : DelKind(k) \in OpKinds /\ CreateKind(k) \in OpKinds
  BY DEF DelKind, CreateKind, OpKinds
<1>4. \A d \in Sides : /\ Propagate(d, p, se, pr) \subseteq Op
                       /\ Propagate(d, p, pr, se) \subseteq Op
  BY <1>1, <1>2, <1>3 DEF Propagate
<1>5. ASSUME t \in Stamps
      PROVE  /\ ConflictOps(p, t, pr, se) \subseteq Op
             /\ ConflictDeleteOps("secondary", p, t, se) \subseteq Op
             /\ ConflictDeleteOps("primary", p, t, pr) \subseteq Op
  <2>1. ConflictPath(p, t) \in Paths
    BY <1>5, ConflictPathType
  <2>2. "conflictRename" \in OpKinds /\ "copy" \in OpKinds
        /\ "primary" \in Sides /\ "secondary" \in Sides
        /\ OtherSide("primary") \in Sides /\ OtherSide("secondary") \in Sides
    BY DEF OpKinds, Sides, OtherSide
  <2> QED
    BY <2>1, <2>2, <1>1, <1>2 DEF ConflictOps, ConflictDeleteOps
<1>6. "primary" \in Sides /\ "secondary" \in Sides
  BY DEF Sides
<1>7. Verdict(b, pr, se) \in {"keep", "agree", "toPrimary", "toSecondary"} \cup ConflictVerdicts
  BY DEF Verdict, ConflictVerdicts
<1>8. CASE Verdict(b, pr, se) \in ConflictVerdicts
  BY <1>5, <1>8 DEF PathOps, ConflictVerdicts
<1>9. CASE Verdict(b, pr, se) \in {"keep", "agree", "toPrimary", "toSecondary"}
  BY <1>4, <1>6, <1>9 DEF PathOps
<1> QED
  BY <1>7, <1>8, <1>9

\* So are the operations of a merge.
LEMMA MergeOpsType ==
    ASSUME NEW B \in Tree, NEW P \in Tree, NEW S \in Tree, NEW t,
           Conflicts(B, P, S) # {} => t \in Stamps
    PROVE  MergeOps(B, P, S, t) \subseteq Op
<1>1. RenameOps(B, P, S) \subseteq Op
  <2>1. RenamePairs(B, P, S) \subseteq Paths \X Paths /\ RenamePairs(B, S, P) \subseteq Paths \X Paths
    BY RenamePairsType
  <2>2. \A r \in Paths \X Paths :
           /\ MkOp("rename", "secondary", r[2], r[1], "file", r[2], 0) \in Op
           /\ MkOp("rename", "primary", r[2], r[1], "file", r[2], 0) \in Op
    BY DEF MkOp, Op, OpKinds, Sides
  <2> QED
    BY <2>1, <2>2 DEF RenameOps
<1>2. ASSUME NEW p \in Paths \ Renamed(B, P, S)
      PROVE  PathOps(p, t, B[p], P[p], S[p]) \subseteq Op
  <2>1. B[p] \in Entry /\ P[p] \in Entry /\ S[p] \in Entry
    BY DEF Tree
  <2>2. Verdict(B[p], P[p], S[p]) \in ConflictVerdicts => t \in Stamps
    BY DEF Conflicts
  <2> QED
    BY <2>1, <2>2, PathOpsType
<1> QED
  BY <1>1, <1>2 DEF MergeOps

\* The new baseline is a tree.
LEMMA NewBaselineType ==
    ASSUME NEW B \in Tree, NEW P \in Tree, NEW S \in Tree, NEW t
    PROVE  NewBaseline(B, P, S, t) \in Tree
<1>1. \A p \in Paths : B[p] \in Entry /\ P[p] \in Entry /\ S[p] \in Entry
  BY DEF Tree
<1>2. \A p \in Paths : OwnBaseline(B[p], P[p], S[p]) \in Entry /\ Loser(B[p], P[p], S[p]) \in Entry
  BY <1>1, EntryTypes DEF OwnBaseline, Loser
<1>3. Conflicts(B, P, S) \subseteq Paths
  BY DEF Conflicts
<1> DEFINE lost(q) == {p \in Conflicts(B, P, S) : ConflictPath(p, t) = q}
           loser(q) == LET p == CHOOSE x \in lost(q) : TRUE IN Loser(B[p], P[p], S[p])
<1>4. ASSUME NEW q \in Paths, lost(q) # {} PROVE loser(q) \in Entry
  BY <1>2, <1>3, <1>4
<1>5. \A q \in Paths : NewBaseline(B, P, S, t)[q] \in Entry
  BY <1>1, <1>2, <1>4, EntryTypes DEF NewBaseline
<1> QED
  BY <1>5 DEF NewBaseline, Tree

\* forceOneway, push: with the secondary as its own baseline the merge only
\* writes to the secondary.
LEMMA PushTargets ==
    ASSUME NEW P \in Tree, NEW S \in Tree, NEW t, NEW op \in MergeOps(S, P, S, t)
    PROVE  op.dst = "secondary"
<1>1. Reappeared(S, S) = {}
  BY EntryTypes DEF Reappeared, Vanished, None
<1>2. RenamePairs(S, S, P) = {}
  BY <1>1 DEF RenamePairs
<1>3. CASE op \in RenameOps(S, P, S)
  BY <1>2, <1>3 DEF RenameOps, MkOp
<1>4. ASSUME NEW p \in Paths, op \in PathOps(p, t, S[p], P[p], S[p])
      PROVE  op.dst = "secondary"
  <2>1. Verdict(S[p], P[p], S[p]) \in {"keep", "toSecondary"}
    BY DEF Verdict, SameIdentity
  <2>2. op \in Propagate("secondary", p, P[p], S[p])
    BY <1>4, <2>1 DEF PathOps
  <2> QED
    BY <2>2 DEF Propagate, MkOp
<1> QED
  BY <1>3, <1>4 DEF MergeOps

\* forceOneway, pull: with the primary as baseline the merge only writes to it.
LEMMA PullTargets ==
    ASSUME NEW P \in Tree, NEW S \in Tree, NEW t, NEW op \in MergeOps(P, P, S, t)
    PROVE  op.dst = "primary"
<1>1. Reappeared(P, P) = {}
  BY EntryTypes DEF Reappeared, Vanished, None
<1>2. RenamePairs(P, P, S) = {}
  BY <1>1 DEF RenamePairs
<1>3. CASE op \in RenameOps(P, P, S)
  BY <1>2, <1>3 DEF RenameOps, MkOp
<1>4. ASSUME NEW p \in Paths, op \in PathOps(p, t, P[p], P[p], S[p])
      PROVE  op.dst = "primary"
  <2>1. Verdict(P[p], P[p], S[p]) \in {"keep", "toPrimary"}
    BY DEF Verdict, SameIdentity
  <2>2. op \in Propagate("primary", p, S[p], P[p])
    BY <1>4, <2>1 DEF PathOps
  <2> QED
    BY <2>2 DEF Propagate, MkOp
<1> QED
  BY <1>3, <1>4 DEF MergeOps
============================================================================

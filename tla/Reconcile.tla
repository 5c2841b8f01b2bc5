----------------------------- MODULE Reconcile -----------------------------
(***************************************************************************)
(* The three-way merge of internal/reconcile: from the baseline B and the  *)
(* scanned trees P (primary) and S (secondary), the operations that make   *)
(* both sides converge and the baseline to save after they are applied.    *)
(* t is the conflict stamp of this pass (nowStamp).                        *)
(*                                                                         *)
(* The code's slice of operations is a set here; IsFirst gives the order   *)
(* in which main.go's applyOrdered executes it.                            *)
(***************************************************************************)
EXTENDS Trees

Sides == {"primary", "secondary"}
OtherSide(d) == IF d = "primary" THEN "secondary" ELSE "primary"

OpKinds == {"mkdir", "copy", "delete", "rmdir", "rename", "conflictRename"}

\* seq is the position of an operation among those of its path (at most three).
Op == [kind : OpKinds, dst : Sides, path : Paths, old : Paths,
       type : {"none", "file", "dir", "symlink"}, at : Paths, seq : 0..3]

MkOp(kind, dst, path, old, type, at, seq) ==
    [kind |-> kind, dst |-> dst, path |-> path, old |-> old, type |-> type,
     at |-> at, seq |-> seq]

----------------------------------------------------------------------------
(* Rename detection (rename.go) *)

\* deletedByKey: the baseline path with file f's inode that disappeared from
\* tree N (hard links aside there is at most one).
Vanished(B, N, f) ==
    {o \in Paths : /\ B[o].type = "file"
                   /\ N[o] = None
                   /\ B[o].dev = f.dev /\ B[o].ino = f.ino}

\* New files whose inode the baseline knows under a path that is gone.
Reappeared(B, N) ==
    {n \in Paths : /\ N[n].type = "file"
                   /\ B[n] = None
                   /\ Vanished(B, N, N[n]) # {}}

OldPath(B, N, n) == CHOOSE o \in Vanished(B, N, N[n]) : TRUE

\* Renames on the side of tree N that the other side (tree O) can follow: the
\* sizes match (inode-reuse guard), O still has the old path as the baseline
\* knows it and does not have the new one.
FollowsRename(B, N, O, o, n) ==
    /\ SizeOf[B[o].ver] = SizeOf[N[n].ver]
    /\ O[o] # None
    /\ O[n] = None
    /\ SameIdentity(B[o], O[o])

RenamePairs(B, N, O) ==
    {<<OldPath(B, N, n), n>> :
        n \in {m \in Reappeared(B, N) : FollowsRename(B, N, O, OldPath(B, N, m), m)}}

RenameOps(B, P, S) ==
    {MkOp("rename", "secondary", r[2], r[1], "file", r[2], 0) : r \in RenamePairs(B, P, S)}
    \cup
    {MkOp("rename", "primary", r[2], r[1], "file", r[2], 0) : r \in RenamePairs(B, S, P)}

\* Paths that rename detection has consumed.
Renamed(B, P, S) ==
    UNION {{r[1], r[2]} : r \in RenamePairs(B, P, S) \cup RenamePairs(B, S, P)}

----------------------------------------------------------------------------
(* The generic three-way diff of one path, reconcile.go's switch.  With    *)
(* None as an entry the nine cases are: nobody changed the path, one side  *)
(* did (created, modified or deleted it), both did and agree, both did and *)
(* one of them deleted it, both did and differ.                            *)

\* Mutant: an unchanged primary is taken for "nothing to do".
VerdictPrimaryOnly(b, pr, se) ==
    CASE SameIdentity(b, pr) -> "keep"
      [] ~ SameIdentity(b, pr) /\ SameIdentity(b, se) -> "toSecondary"
      [] OTHER -> "agree"

Verdict(b, pr, se) ==
    CASE SameIdentity(b, pr) /\ SameIdentity(b, se) -> "keep"
      [] SameIdentity(b, pr) /\ ~ SameIdentity(b, se) -> "toPrimary"
      [] ~ SameIdentity(b, pr) /\ SameIdentity(b, se) -> "toSecondary"
      [] OTHER -> IF SameIdentity(pr, se) THEN "agree"
                  ELSE IF pr = None THEN "primaryDeleted"
                  ELSE IF se = None THEN "secondaryDeleted"
                  ELSE "conflict"

DelKind(type) == IF type = "dir" THEN "rmdir" ELSE "delete"
CreateKind(type) == IF type = "dir" THEN "mkdir" ELSE "copy"

\* Mutant: deletions are not propagated.
PropagateCreatesOnly(dst, p, new, old) ==
    IF new = None THEN {} ELSE {MkOp(CreateKind(new.type), dst, p, p, new.type, p, 1)}

\* addCreate, or a delete when the changed side no longer has the path.
Propagate(dst, p, new, old) ==
    IF new = None THEN {MkOp(DelKind(old.type), dst, p, p, old.type, p, 1)}
                  ELSE {MkOp(CreateKind(new.type), dst, p, p, new.type, p, 1)}

\* Mutant: the losing version is overwritten, not renamed aside.
ConflictOpsOverwrite(p, t, pr, se) == {MkOp("copy", "secondary", p, p, pr.type, p, 3)}

\* conflict: the primary's version wins in place, the secondary's survives on
\* both sides under the conflict name.
ConflictOps(p, t, pr, se) ==
    LET c == ConflictPath(p, t)
    IN  {MkOp("conflictRename", "secondary", c, p, se.type, p, 1),
         MkOp("copy", "primary", c, c, se.type, p, 2),
         MkOp("copy", "secondary", p, p, pr.type, p, 3)}

\* conflictDelete: the side that still has content keeps it under the conflict
\* name, the other side gets a copy of that.
ConflictDeleteOps(loser, p, t, e) ==
    LET c == ConflictPath(p, t)
    IN  {MkOp("conflictRename", loser, c, p, e.type, p, 1),
         MkOp("copy", OtherSide(loser), c, c, e.type, p, 2)}

PathOps(p, t, b, pr, se) ==
    LET v == Verdict(b, pr, se)
    IN  CASE v \in {"keep", "agree"}  -> {}
          [] v = "toPrimary"          -> Propagate("primary", p, se, pr)
          [] v = "toSecondary"        -> Propagate("secondary", p, pr, se)
          [] v = "conflict"           -> ConflictOps(p, t, pr, se)
          [] v = "primaryDeleted"     -> ConflictDeleteOps("secondary", p, t, se)
          [] v = "secondaryDeleted"   -> ConflictDeleteOps("primary", p, t, pr)

MergeOps(B, P, S, t) ==
    LET renamed == Renamed(B, P, S)
    IN  RenameOps(B, P, S)
        \cup UNION {PathOps(p, t, B[p], P[p], S[p]) : p \in Paths \ renamed}

ConflictVerdicts == {"conflict", "primaryDeleted", "secondaryDeleted"}

Conflicts(B, P, S) ==
    LET renamed == Renamed(B, P, S)
    IN  {p \in Paths \ renamed : Verdict(B[p], P[p], S[p]) \in ConflictVerdicts}

----------------------------------------------------------------------------
(* The baseline after the operations: a path's own verdict, else the       *)
(* losing entry of a conflict that was given this name, else the entry a   *)
(* rename brought.                                                         *)

\* Mutant: the baseline takes the losing entry of a conflict.
OwnBaselineLoser(b, pr, se) ==
    LET v == Verdict(b, pr, se)
    IN  CASE v = "keep"       -> b
          [] v \in {"toPrimary", "conflict"} -> se
          [] v \in {"toSecondary", "agree"}  -> pr
          [] OTHER            -> None

OwnBaseline(b, pr, se) ==
    LET v == Verdict(b, pr, se)
    IN  CASE v = "keep"       -> b
          [] v = "toPrimary"  -> se
          [] v \in {"toSecondary", "agree", "conflict"} -> pr
          [] OTHER            -> None

Loser(b, pr, se) == IF Verdict(b, pr, se) = "secondaryDeleted" THEN pr ELSE se

NewBaseline(B, P, S, t) ==
    LET renamed == Renamed(B, P, S)
        conflicts == Conflicts(B, P, S)
        own == [q \in Paths |-> IF q \in renamed THEN None ELSE OwnBaseline(B[q], P[q], S[q])]
        lost(q) == {p \in conflicts : ConflictPath(p, t) = q}
        loser(q) == LET p == CHOOSE x \in lost(q) : TRUE IN Loser(B[p], P[p], S[p])
        moved(q) == IF q \in renamed /\ B[q] = None
                      THEN IF P[q] # None THEN P[q] ELSE S[q]
                      ELSE None
    IN  [q \in Paths |->
            IF own[q] # None THEN own[q]
            ELSE IF lost(q) # {} THEN loser(q) ELSE moved(q)]

----------------------------------------------------------------------------
(* Execution order (Reconcile's path sort and applyOrdered): renames, then *)
(* creates and conflict operations by ascending path, then deletes by      *)
(* descending path.  The renames that happened on the primary come first;  *)
(* those of one side are collected from a map, in any order.               *)

IsDelete(op) == op.kind \in {"delete", "rmdir"}
Phase(op) ==
    CASE op.kind = "rename" -> IF op.dst = "secondary" THEN 0 ELSE 1
      [] IsDelete(op) -> 3
      [] OTHER -> 2

Precedes(o1, o2) ==
    \/ Phase(o1) < Phase(o2)
    \/ /\ Phase(o1) = Phase(o2)
       /\ \/ o1.kind = "rename"
          \/ o1.at = o2.at /\ o1.seq < o2.seq
          \/ o1.at # o2.at /\ IF IsDelete(o1) THEN Before(o2.at, o1.at) ELSE Before(o1.at, o2.at)

IsFirst(op, ops) == op \in ops /\ \A x \in ops \ {op} : Precedes(op, x)
============================================================================

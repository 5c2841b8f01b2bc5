-------------------------- MODULE RemoteLegProofs --------------------------
(***************************************************************************)
(* Theorems about the backup leg, for every set of paths and every number  *)
(* of edits, failures, lost connections, crashes and unmounts.             *)
(***************************************************************************)
EXTENDS RemoteLeg, ReconcileProofs, FiniteSetTheorems, SequenceTheorems

----------------------------------------------------------------------------
(* Types *)

TreesType ==
    /\ primary \in Tree /\ savedBase \in Tree /\ seen \in Tree /\ base \in Tree /\ remote \in Tree
FlagsType ==
    /\ mounted \in BOOLEAN /\ frozen \in BOOLEAN /\ approval \in BOOLEAN
    /\ granted \in BOOLEAN /\ alive \in BOOLEAN
StoreType ==
    /\ retry \in [Paths -> [attempts : 0..MaxAttempts, waiting : BOOLEAN]]
    /\ savedRetry \in [Paths -> [attempts : 0..MaxAttempts, waiting : BOOLEAN]]
    /\ source \in {"none", "dataset", "parent"}
SenderType ==
    /\ pc \in PCs /\ phase \in Phases /\ stat0 \in Versions \cup {0}
    /\ todo \subseteq Op /\ cur \in Op /\ blocked \subseteq Paths /\ leftOut \subseteq Paths
NetType ==
    /\ link \in {"none", "up", "down"}
    /\ wire \in Seq(Frame) /\ acks \in Seq(BOOLEAN)
    /\ tmp \in [open : BOOLEAN, path : Paths, ver : Versions \cup {0}]
HistoryType ==
    /\ edits \in 0..MaxVersion /\ faults \in 0..MaxFaults /\ drops \in 0..MaxDrops
    /\ crashes \in 0..MaxCrashes /\ unmounts \in 0..MaxUnmounts
    /\ gone \subseteq Paths /\ lost \subseteq Paths /\ size \in Nat

\* The type invariant in parts.
LEMMA TypeParts ==
    TypeOK <=> TreesType /\ FlagsType /\ StoreType /\ SenderType /\ NetType /\ HistoryType
  BY DEF TypeOK, TreesType, FlagsType, StoreType, SenderType, NetType, HistoryType

\* The sender only plans what it has a frame for.
Sendable == \A op \in todo : op.kind # "conflictRename" /\ op.dst = "secondary"

\* The placeholders are of the types they hold the place of.
LEMMA Placeholders ==
    /\ NoOp \in Op
    /\ NoTmp \in [open : BOOLEAN, path : Paths, ver : Versions \cup {0}]
    /\ NoRetry \in [Paths -> [attempts : 0..MaxAttempts, waiting : BOOLEAN]]
<1>1. (CHOOSE p \in Paths : TRUE) \in Paths
  BY PathsAssumption
<1>2. NoOp \in Op
  BY <1>1 DEF NoOp, MkOp, Op, OpKinds, Sides
<1>3. NoOp.path \in Paths
  BY <1>2 DEF Op
<1> QED
  BY <1>2, <1>3, AttemptsAssumption DEF NoTmp, NoRetry

\* What the primary's path shows is a tree.
LEMMA VisibleType ==
    ASSUME TreesType
    PROVE  Visible \in Tree /\ \A p \in Paths : Visible[p].ver \in Versions \cup {0}
<1>1. Visible \in Tree
  BY EmptyTreeType DEF Visible, TreesType
<1> QED
  BY <1>1 DEF Tree, Entry

\* Against remote.state as baseline and as secondary, the merge has no conflict and
\* writes to the receiver only.
LEMMA PlanType ==
    ASSUME NEW b \in Tree, NEW t \in Tree
    PROVE  /\ MergeOps(b, t, b, 0) \subseteq Op
           /\ \A op \in MergeOps(b, t, b, 0) :
                 op.kind # "conflictRename" /\ op.dst = "secondary"
<1>1. \A p \in Paths : Verdict(b[p], t[p], b[p]) \in {"keep", "toSecondary"}
  BY DEF Verdict, SameIdentity
<1>2. Conflicts(b, t, b) = {}
  BY <1>1 DEF Conflicts, ConflictVerdicts
<1>3. MergeOps(b, t, b, 0) \subseteq Op
  BY <1>2, MergeOpsType
<1>4. ASSUME NEW op \in MergeOps(b, t, b, 0) PROVE op.kind # "conflictRename"
  <2>1. CASE op \in RenameOps(b, t, b)
    BY <2>1 DEF RenameOps, MkOp
  <2>2. ASSUME NEW p \in Paths, op \in PathOps(p, 0, b[p], t[p], b[p])
        PROVE  op.kind # "conflictRename"
    <3>1. op \in Propagate("secondary", p, t[p], b[p])
      BY <1>1, <2>2 DEF PathOps
    <3> QED
      BY <3>1 DEF Propagate, MkOp, DelKind, CreateKind
  <2> QED
    BY <2>1, <2>2 DEF MergeOps
<1> QED
  BY <1>3, <1>4, PushTargets

\* applyToBaseline leaves a tree.
LEMMA ApplyToBaselineType ==
    ASSUME TreesType, NEW op \in Op
    PROVE  ApplyToBaseline(base, op) \in Tree
<1>1. op.path \in Paths /\ op.old \in Paths
  BY DEF Op
<1>2. /\ RemoveAll(base, op.path) \in Tree
      /\ Remove(base, op.path) \in Tree
      /\ Rename(base, op.old, op.path) \in Tree
  BY <1>1, TreeTypes DEF TreesType
<1>3. [base EXCEPT ![op.path] = seen[op.path]] \in Tree
  BY <1>1 DEF TreesType, Tree
<1> QED
  BY <1>2, <1>3 DEF ApplyToBaseline, TreesType

\* A frame leaves a tree and a temp file.
LEMMA HandledType ==
    ASSUME TreesType, NetType, NEW f \in Frame
    PROVE  /\ Handled(f, remote, tmp).tree \in Tree
           /\ Handled(f, remote, tmp).tmp \in [open : BOOLEAN, path : Paths, ver : Versions \cup {0}]
           /\ Handled(f, remote, tmp).ok \in BOOLEAN
<1> DEFINE TmpFile == [open : BOOLEAN, path : Paths, ver : Versions \cup {0}]
           Good(o) == o.tree \in Tree /\ o.tmp \in TmpFile /\ o.ok \in BOOLEAN
<1>1. /\ f.path \in Paths /\ f.old \in Paths /\ f.kind \in FrameKinds
      /\ f.ver \in Versions \cup {0}
  BY DEF Frame
<1>2. remote \in Tree /\ tmp \in TmpFile
  BY DEF TreesType, NetType
<1>3. ASSUME NEW t \in Tree, NEW x \in TmpFile
      PROVE  Good(Outcome(TRUE, t, x)) /\ Good(Outcome(FALSE, t, x))
  BY <1>3 DEF Outcome
<1>4. NoTmp \in TmpFile /\ \A p \in Paths, v \in Versions \cup {0} : Tmp(p, v) \in TmpFile
  BY Placeholders DEF Tmp
<1> HIDE DEF Good, TmpFile
<1>5. /\ MkdirAll(remote, f.path) \in Tree /\ MkParent(remote, f.path) \in Tree
      /\ Remove(remote, f.path) \in Tree /\ RemoveAll(remote, f.path) \in Tree
  BY <1>1, <1>2, TreeTypes
<1>6. Good(MakeLink(remote, f.path, f.ver))
  <2> DEFINE u == IF CanRemove(remote, f.path) THEN Remove(remote, f.path) ELSE remote
             w == IF CanMkParent(u, f.path) THEN MkParent(u, f.path) ELSE u
  <2>1. u \in Tree
    BY <1>2, <1>5
  <2>2. w \in Tree
    BY <1>1, <2>1, TreeTypes
  <2>3. [w EXCEPT ![f.path] = Symlink(f.ver)] \in Tree
    <3>1. Symlink(f.ver) \in Entry
      BY <1>1 DEF Symlink, Entry
    <3> QED
      BY <1>1, <2>2, <3>1 DEF Tree
  <2> HIDE DEF w
  <2> QED
    BY <1>2, <1>3, <2>2, <2>3 DEF MakeLink, w
<1>7. Good(MoveEntry(remote, f.old, f.path))
  <2> DEFINE u == IF CanMkParent(remote, f.path) THEN MkParent(remote, f.path) ELSE remote
  <2>1. u \in Tree
    BY <1>2, <1>5
  <2>2. Rename(u, f.old, f.path) \in Tree
    BY <1>1, <2>1, TreeTypes
  <2> HIDE DEF u
  <2> QED
    BY <1>2, <1>3, <2>1, <2>2 DEF MoveEntry, u
<1>8. Good(BeginFile(remote, f.path))
  BY <1>1, <1>2, <1>3, <1>4, <1>5 DEF BeginFile
<1>9. Good(FinishFile(remote, tmp, f.ver))
  <2>1. tmp.path \in Paths
    BY <1>2 DEF TmpFile
  <2>2. File(f.ver, "remote", f.ver) \in Entry
    BY <1>1, TwoTrees DEF File, Entry
  <2>3. [remote EXCEPT ![tmp.path] = File(f.ver, "remote", f.ver)] \in Tree
    BY <1>2, <2>1, <2>2 DEF Tree
  <2> QED
    BY <1>2, <1>3, <1>4, <2>3 DEF FinishFile
<1>10. Tmp(tmp.path, f.ver) \in TmpFile
  BY <1>1, <1>2, <1>4 DEF TmpFile
<1>11. Good(Handled(f, remote, tmp))
  BY <1>1, <1>2, <1>3, <1>5, <1>6, <1>7, <1>8, <1>9, <1>10 DEF Handled, FrameKinds
<1> QED
  BY <1>11 DEF Good, TmpFile

\* The first frame of an operation that the sender plans is a frame.
LEMMA FirstFrameType ==
    ASSUME TreesType, NEW op \in Op, op.kind # "conflictRename"
    PROVE  FirstFrame(op) \in Frame
<1>1. op.path \in Paths /\ op.old \in Paths /\ op.kind \in OpKinds
  BY DEF Op
<1>2. seen[op.path].ver \in Versions \cup {0}
  BY <1>1 DEF TreesType, Tree, Entry
<1> QED
  BY <1>1, <1>2 DEF FirstFrame, MkFrame, Frame, FrameKinds, OpKinds


\* Counting a failure and forgetting the failures of a path.
LEMMA RetryType ==
    ASSUME NEW r \in [Paths -> [attempts : 0..MaxAttempts, waiting : BOOLEAN]], NEW p \in Paths
    PROVE  /\ Fail(r, p) \in [Paths -> [attempts : 0..MaxAttempts, waiting : BOOLEAN]]
           /\ Clear(r, p) \in [Paths -> [attempts : 0..MaxAttempts, waiting : BOOLEAN]]
<1> DEFINE Rec == [attempts : 0..MaxAttempts, waiting : BOOLEAN]
           n == IF r[p].attempts < MaxAttempts THEN r[p].attempts + 1 ELSE r[p].attempts
<1>1. r[p] \in Rec /\ n \in 0..MaxAttempts
  BY AttemptsAssumption
<1>2. [attempts |-> n, waiting |-> TRUE] \in Rec /\ [attempts |-> 0, waiting |-> FALSE] \in Rec
  BY <1>1, AttemptsAssumption
<1>3. Fail(r, p) = [r EXCEPT ![p] = [attempts |-> n, waiting |-> TRUE]]
  BY DEF Fail
<1> QED
  BY <1>2, <1>3 DEF Clear

\* The steps of an operation that is over, and of a pass that is over.
LEMMA StepTypes ==
    ASSUME TypeOK, Sendable
    PROVE  /\ \A op \in Op : \A lnk : OpFailed(op, lnk) =>
                 /\ base' \in Tree /\ retry' \in [Paths -> [attempts : 0..MaxAttempts, waiting : BOOLEAN]]
                 /\ todo' \subseteq todo /\ blocked' \subseteq Paths /\ leftOut' \subseteq Paths /\ cur' \in Op
                 /\ pc' \in PCs /\ phase' \in Phases /\ stat0' = 0
           /\ \A op \in Op : OpDone(op) =>
                 /\ base' \in Tree /\ retry' \in [Paths -> [attempts : 0..MaxAttempts, waiting : BOOLEAN]]
                 /\ todo' \subseteq todo /\ blocked' \subseteq Paths /\ leftOut' \subseteq Paths /\ cur' \in Op
                 /\ pc' \in PCs /\ phase' \in Phases /\ stat0' = 0
           /\ GoIdle =>
                 /\ seen' \in Tree
                 /\ todo' = {} /\ blocked' = {} /\ leftOut' = {} /\ cur' \in Op
                 /\ pc' \in PCs /\ phase' \in Phases /\ stat0' = 0
                 /\ granted' = FALSE /\ lost' = {} /\ size' = 0
<1>0. TreesType /\ StoreType /\ SenderType
  BY TypeParts
<1>1. ASSUME NEW op \in Op, NEW lnk, OpFailed(op, lnk)
      PROVE  /\ base' \in Tree /\ retry' \in [Paths -> [attempts : 0..MaxAttempts, waiting : BOOLEAN]]
             /\ todo' \subseteq todo /\ blocked' \subseteq Paths /\ leftOut' \subseteq Paths /\ cur' \in Op
             /\ pc' \in PCs /\ phase' \in Phases /\ stat0' = 0
  <2>1. op.path \in Paths /\ Below[op.path] \subseteq Paths
    BY DEF Op, Below
  <2>2. Fail(retry, op.path) \in [Paths -> [attempts : 0..MaxAttempts, waiting : BOOLEAN]]
    BY <1>0, <2>1, RetryType DEF StoreType
  <2> QED
    BY <1>0, <1>1, <2>1, <2>2, Placeholders DEF OpFailed, TreesType, SenderType, PCs, Phases
<1>2. ASSUME NEW op \in Op, OpDone(op)
      PROVE  /\ base' \in Tree /\ retry' \in [Paths -> [attempts : 0..MaxAttempts, waiting : BOOLEAN]]
             /\ todo' \subseteq todo /\ blocked' \subseteq Paths /\ leftOut' \subseteq Paths /\ cur' \in Op
             /\ pc' \in PCs /\ phase' \in Phases /\ stat0' = 0
  <2>1. Clear(retry, op.path) \in [Paths -> [attempts : 0..MaxAttempts, waiting : BOOLEAN]]
    BY <1>0, RetryType DEF StoreType, Op
  <2> QED
    BY <1>0, <1>2, <2>1, Placeholders, ApplyToBaselineType DEF OpDone, SenderType, PCs, Phases
<1>3. GoIdle =>
         /\ seen' \in Tree
         /\ todo' = {} /\ blocked' = {} /\ leftOut' = {} /\ cur' \in Op
         /\ pc' \in PCs /\ phase' \in Phases /\ stat0' = 0
         /\ granted' = FALSE /\ lost' = {} /\ size' = 0
  BY Placeholders, EmptyTreeType DEF GoIdle, PCs, Phases
<1> QED
  BY <1>1, <1>2, <1>3

\* A user changes the primary and the history only.
LEMMA UserChanges ==
    ASSUME User
    PROVE  UNCHANGED <<mounted, store, pc, memory, net, receiver, budget>>
<1>1. ASSUME NEW kind, NEW t, UserStep(kind, t)
      PROVE  UNCHANGED <<mounted, store, pc, memory, net, receiver, budget>>
  BY <1>1 DEF UserStep
<1>2. PICK kind, t : UserStep(kind, t)
  BY DEF User
<1> QED
  BY <1>1, <1>2

\* Trees stay trees.
LEMMA TreesStep == TypeOK /\ Sendable /\ [Next]_vars => TreesType'
<1> SUFFICES ASSUME TypeOK, Sendable, [Next]_vars PROVE TreesType'
  OBVIOUS
<1>0. TreesType /\ NetType /\ SenderType
  BY TypeParts
<1>1. primary' \in Tree
  <2>1. ASSUME NEW kind, NEW t \in Tree, UserStep(kind, t) PROVE primary' \in Tree
    BY <2>1 DEF UserStep
  <2>2. ASSUME User PROVE primary' \in Tree
    <3>1. PICK p \in OriginalPaths :
            \/ UserStep("write", [primary EXCEPT ![p] = File(edits + 1, "primary", edits + 1)])
            \/ \E v \in 1..(edits + 1) : UserStep("write", [primary EXCEPT ![p] = Symlink(v)])
            \/ UserStep("mkdir", [primary EXCEPT ![p] = Dir])
            \/ UserStep("remove", RemoveAll(primary, p))
            \/ \E q \in OriginalPaths : UserStep("move", Rename(primary, p, q))
      BY <2>2 DEF User
    <3>2. OriginalPaths \subseteq Paths
      BY DEF OriginalPaths
    <3>3. \A kind, t : UserStep(kind, t) => edits + 1 \in Versions /\ 1..(edits + 1) \subseteq Versions
      BY BoundsAssumption DEF UserStep, Versions, TypeOK
    <3>4. /\ edits + 1 \in Versions =>
                [primary EXCEPT ![p] = File(edits + 1, "primary", edits + 1)] \in Tree
          /\ \A v \in Versions : [primary EXCEPT ![p] = Symlink(v)] \in Tree
      BY <1>0, <3>2, TwoTrees DEF TreesType, Tree, File, Symlink, Entry
    <3>5. [primary EXCEPT ![p] = Dir] \in Tree
      BY <1>0, <3>2, EntryTypes DEF TreesType, Tree
    <3>6. RemoveAll(primary, p) \in Tree /\ \A q \in OriginalPaths : Rename(primary, p, q) \in Tree
      BY <1>0, <3>2, TreeTypes DEF TreesType
    <3> QED
      BY <2>1, <3>1, <3>3, <3>4, <3>5, <3>6
  <2>3. User \/ primary' = primary
    BY DEF Next, vars, Sender, Scan, Guard, Connect, Pinged, Plan, SendNext, Answered, Disconnected,
           PushAcl, AclPushed, SaveRemoteBaseline, SaveRetry, Handle, Panic, Drop, CrashReceiver,
           StartReceiver, CrashSender, BackoffOver, Approve, Unmount, Mount
  <2> QED
    BY <1>0, <2>2, <2>3 DEF TreesType
<1>2. savedBase' \in Tree
  <2>1. savedBase' = savedBase \/ savedBase' = base
    BY DEF Next, vars, Sender, Scan, Guard, Connect, Pinged, Plan, SendNext, Answered, Disconnected,
           PushAcl, AclPushed, SaveRemoteBaseline, SaveRetry, Handle, Panic, Drop, CrashReceiver,
           StartReceiver, CrashSender, BackoffOver, Approve, Unmount, Mount, User, UserStep, store
  <2> QED
    BY <1>0, <2>1 DEF TreesType
<1>3. seen' \in Tree
  <2>1. seen' = seen \/ seen' = Visible \/ GoIdle
    BY DEF Next, vars, Sender, Scan, Guard, Connect, Pinged, Plan, SendNext, Answered, Disconnected,
           PushAcl, AclPushed, SaveRemoteBaseline, SaveRetry, Handle, Panic, Drop, CrashReceiver,
           StartReceiver, CrashSender, BackoffOver, Approve, Unmount, Mount, User, UserStep, memory
  <2> QED
    BY <1>0, <2>1, StepTypes, VisibleType DEF TreesType
<1>4. base' \in Tree
  <2>1. \/ base' = base \/ base' = savedBase
        \/ OpDone(cur)
    BY DEF Next, vars, Sender, Scan, Guard, Connect, Pinged, Plan, SendNext, Answered, Disconnected,
           PushAcl, AclPushed, SaveRemoteBaseline, SaveRetry, Handle, Panic, Drop, CrashReceiver,
           StartReceiver, CrashSender, BackoffOver, Approve, Unmount, Mount, User, UserStep, memory,
           OpFailed
  <2> QED
    BY <1>0, <2>1, StepTypes DEF TreesType, SenderType
<1>5. remote' \in Tree
  <2>1. CASE Handle
    <3>1. Head(wire) \in Frame
      BY <1>0, <2>1 DEF Handle, NetType
    <3>2. remote' = Handled(Head(wire), remote, tmp).tree \/ remote' = remote
      BY <2>1 DEF Handle
    <3> QED
      BY <1>0, <3>1, <3>2, HandledType DEF TreesType
  <2>2. Handle \/ remote' = remote
    BY DEF Next, vars, Sender, Scan, Guard, Connect, Pinged, Plan, SendNext, Answered, Disconnected,
           PushAcl, AclPushed, SaveRemoteBaseline, SaveRetry, Panic, Drop, CrashReceiver,
           StartReceiver, CrashSender, BackoffOver, Approve, Unmount, Mount, User, UserStep, receiver
  <2> QED
    BY <1>0, <2>1, <2>2 DEF TreesType
<1> QED
  BY <1>1, <1>2, <1>3, <1>4, <1>5 DEF TreesType


\* Switches stay switches.
LEMMA FlagsStep == TypeOK /\ [Next]_vars => FlagsType'
<1> SUFFICES ASSUME TypeOK, [Next]_vars PROVE FlagsType'
  OBVIOUS
<1>1. /\ mounted' = mounted \/ mounted' = TRUE \/ mounted' = FALSE
      /\ frozen' = frozen \/ frozen' = TRUE \/ frozen' = FALSE
      /\ approval' = approval \/ approval' = TRUE \/ approval' = FALSE
      /\ granted' = granted \/ granted' = approval \/ granted' = FALSE
      /\ alive' = alive \/ alive' = TRUE \/ alive' = FALSE
  BY Zenon DEF Next, vars, Sender, Scan, Guard, Connect, Pinged, Plan, SendNext, Answered, Disconnected,
     PushAcl, AclPushed, SaveRemoteBaseline, SaveRetry, Handle, Panic, Drop, CrashReceiver,
     StartReceiver, CrashSender, BackoffOver, Approve, Unmount, Mount, User, UserStep, store, memory,
     sending, receiver, GoIdle
<1>2. /\ mounted \in BOOLEAN /\ frozen \in BOOLEAN /\ approval \in BOOLEAN
      /\ granted \in BOOLEAN /\ alive \in BOOLEAN
  BY Zenon DEF TypeOK
<1> QED
  BY Zenon, <1>1, <1>2 DEF FlagsType

\* What the sender has on disk, apart from remote.state, keeps its types.
LEMMA StoreStep == TypeOK /\ Sendable /\ [Next]_vars => StoreType'
<1> SUFFICES ASSUME TypeOK, Sendable, [Next]_vars PROVE StoreType'
  OBVIOUS
<1> DEFINE Retries == [Paths -> [attempts : 0..MaxAttempts, waiting : BOOLEAN]]
<1>0. StoreType /\ SenderType /\ retry \in Retries /\ savedRetry \in Retries
  BY TypeParts DEF StoreType
<1>1. CASE Sender
  <2>1. \/ retry' = retry
        \/ \E op \in todo \cup {cur} : \E lnk : OpFailed(op, lnk)
        \/ OpDone(cur)
    BY <1>1 DEF Sender, Scan, Guard, Connect, Pinged, Plan, SendNext, Answered, Disconnected,
       PushAcl, AclPushed, SaveRemoteBaseline, SaveRetry, memory
  <2>2. retry' \in Retries
    BY <1>0, <2>1, StepTypes DEF SenderType
  <2>3. savedRetry' = savedRetry \/ savedRetry' = retry
    BY <1>1 DEF Sender, Scan, Guard, Connect, Pinged, Plan, SendNext, Answered, Disconnected,
       PushAcl, AclPushed, SaveRemoteBaseline, SaveRetry, store
  <2>4. source' = source \/ source' = Device
    BY <1>1 DEF Sender, Scan, Guard, Connect, Pinged, Plan, SendNext, Answered, Disconnected,
       PushAcl, AclPushed, SaveRemoteBaseline, SaveRetry, store
  <2> QED
    BY <1>0, <2>2, <2>3, <2>4 DEF StoreType, Device
<1>2. CASE CrashSender
  BY <1>0, <1>2 DEF CrashSender, store, StoreType
<1>3. ASSUME NEW p \in Paths, BackoffOver(p) PROVE StoreType'
  <2>1. ASSUME NEW r \in Retries PROVE [r EXCEPT ![p].waiting = FALSE] \in Retries
    BY <2>1
  <2> QED
    BY <1>0, <1>3, <2>1 DEF BackoffOver, StoreType
<1>4. CASE UNCHANGED <<retry, savedRetry, source>>
  BY <1>0, <1>4 DEF StoreType
<1> QED
  BY <1>1, <1>2, <1>3, <1>4
     DEF Next, vars, Handle, Panic, Drop, CrashReceiver, StartReceiver, Approve, Unmount, Mount,
         User, UserStep, store, memory

\* The sender stays at a step, with operations it has frames for.
LEMMA SenderStep == TypeOK /\ Sendable /\ [Next]_vars => SenderType' /\ Sendable'
<1> SUFFICES ASSUME TypeOK, Sendable, [Next]_vars PROVE SenderType' /\ Sendable'
  OBVIOUS
<1>0. SenderType /\ TreesType
  BY TypeParts
<1> DEFINE Quiet == UNCHANGED <<phase, stat0, todo, cur, blocked, leftOut>>
<1>1. CASE Quiet /\ pc' \in PCs
  BY <1>0, <1>1 DEF SenderType, Sendable
<1>2. CASE GoIdle
  BY <1>0, <1>2, StepTypes DEF SenderType, Sendable
<1>3. CASE Plan
  <2>1. \/ GoIdle
        \/ /\ todo' = MergeOps(base, seen, base, 0)
           /\ pc' = "send" /\ UNCHANGED <<blocked, leftOut, cur, phase, stat0>>
    BY <1>3 DEF Plan
  <2>2. MergeOps(base, seen, base, 0) \subseteq Op
        /\ \A op \in MergeOps(base, seen, base, 0) : op.kind # "conflictRename" /\ op.dst = "secondary"
    BY <1>0, PlanType DEF TreesType
  <2> QED
    BY <1>0, <1>2, <2>1, <2>2 DEF SenderType, Sendable, PCs
<1>4. ASSUME NEW op \in Op, NEW lnk, OpFailed(op, lnk) PROVE SenderType' /\ Sendable'
  BY <1>0, <1>4, StepTypes DEF SenderType, Sendable
<1>5. ASSUME OpDone(cur) PROVE SenderType' /\ Sendable'
  BY <1>0, <1>5, StepTypes DEF SenderType, Sendable
<1>6. CASE SendNext
  <2>1. PICK op \in todo :
          \/ /\ todo' = todo \ {op} /\ leftOut' \in {leftOut, leftOut \cup {op.path}}
             /\ UNCHANGED <<pc, blocked, cur, phase, stat0>>
          \/ OpFailed(op, link)
          \/ /\ cur' = op
             /\ phase' = IF IsFileCopy(op) THEN "begin" ELSE "op"
             /\ stat0' = IF IsFileCopy(op) THEN Visible[op.path].ver ELSE 0
             /\ pc' = "wait"
             /\ UNCHANGED <<todo, blocked, leftOut>>
    BY <1>6 DEF SendNext
  <2>2. op \in Op /\ op.path \in Paths
    BY <1>0 DEF SenderType, Op
  <2> QED
    BY <1>0, <1>4, <2>1, <2>2, VisibleType DEF SenderType, Sendable, PCs, Phases
<1>7. CASE Answered
  <2>1. \/ OpDone(cur)
        \/ OpFailed(cur, link)
        \/ phase' \in {"data", "end", "torn"} /\ UNCHANGED <<pc, todo, blocked, leftOut, cur, stat0>>
    BY <1>7 DEF Answered
  <2> QED
    BY <1>0, <1>4, <1>5, <2>1 DEF SenderType, Sendable, Phases
<1>8. CASE Disconnected
  BY <1>0, <1>4, <1>8 DEF Disconnected, SenderType
<1>9. Plan \/ SendNext \/ Answered \/ Disconnected \/ GoIdle \/ (Quiet /\ pc' \in PCs)
  <2>1. pc \in PCs
    BY <1>0 DEF SenderType
  <2>2. CASE Sender
    BY <2>1, <2>2 DEF Sender, Scan, Guard, Connect, Pinged, PushAcl, AclPushed,
                      SaveRemoteBaseline, SaveRetry, memory, sending, PCs
  <2>3. CASE User
    BY <2>1, <2>3, UserChanges DEF memory, sending
  <2>4. CASE ~ Sender /\ ~ User
    BY <2>1, <2>4 DEF Next, vars, Handle, Panic, Drop, CrashReceiver, StartReceiver, CrashSender,
                      BackoffOver, Approve, Unmount, Mount, memory, sending
  <2> QED
    BY <2>2, <2>3, <2>4
<1> QED
  BY <1>1, <1>2, <1>3, <1>6, <1>7, <1>8, <1>9

\* The connection carries frames and answers.
LEMMA NetStep == TypeOK /\ Sendable /\ [Next]_vars => NetType'
<1> SUFFICES ASSUME TypeOK, Sendable, [Next]_vars PROVE NetType'
  OBVIOUS
<1>0. NetType /\ SenderType /\ TreesType
  BY TypeParts
<1>1. \A f \in Frame : Post(f) => wire' \in Seq(Frame)
  BY <1>0 DEF Post, NetType
<1>2. /\ \A k \in FrameKinds : Bare(k) \in Frame
      /\ \A k \in FrameKinds, p \in Paths, v \in Versions \cup {0} : MkFrame(k, p, p, v) \in Frame
  BY Placeholders DEF Bare, MkFrame, Frame, Op
<1>3. ASSUME NEW state \in {"none", "down"}, Closed(state) PROVE NetType'
  BY <1>3, Placeholders DEF Closed, NetType
<1>4. acks # <<>> => Head(acks) \in BOOLEAN /\ Tail(acks) \in Seq(BOOLEAN)
  BY <1>0 DEF NetType
<1>5. CASE Connect
  <2>1. "ping" \in FrameKinds /\ "loopMarker" \in FrameKinds
    BY DEF FrameKinds
  <2>2. <<>> \in Seq(Frame) /\ <<Bare("loopMarker")>> \in Seq(Frame) /\ <<>> \in Seq(BOOLEAN)
    BY <1>2, <2>1
  <2>3. /\ tmp' = tmp
        /\ link' = link \/ link' = "up"
        /\ acks' = acks \/ acks' = <<>>
        /\ Post(Bare("ping")) \/ wire' = wire \/ wire' = <<>> \/ wire' = <<Bare("loopMarker")>>
    BY <1>5 DEF Connect, net, receiver
  <2> QED
    BY <1>0, <1>1, <1>2, <2>1, <2>2, <2>3 DEF NetType
<1>6. CASE Pinged
  BY <1>0, <1>3, <1>4, <1>6 DEF Pinged, NetType
<1>7. CASE SendNext
  <2>1. PICK op \in todo : wire' = wire \/ Post(FirstFrame(op))
    BY <1>7 DEF SendNext
  <2>2. FirstFrame(op) \in Frame
    BY <1>0, FirstFrameType DEF SenderType, Sendable
  <2> QED
    BY <1>0, <1>1, <1>7, <2>1, <2>2 DEF SendNext, NetType, receiver
<1>8. CASE Answered
  <2>1. cur.path \in Paths /\ stat0 \in Versions \cup {0}
    BY <1>0 DEF SenderType, Op
  <2>2. \/ wire' = wire
        \/ Post(MkFrame("fileData", cur.path, cur.path, stat0))
        \/ Post(MkFrame("fileEnd", cur.path, cur.path, stat0))
        \/ Post(MkFrame("fileEnd", cur.path, cur.path, 0))
    BY <1>8 DEF Answered
  <2>3. wire' \in Seq(Frame)
    BY <1>0, <1>1, <1>2, <2>1, <2>2 DEF NetType, FrameKinds
  <2>4. acks' \in Seq(BOOLEAN) /\ UNCHANGED <<link, tmp>>
    BY <1>4, <1>8 DEF Answered, receiver
  <2> QED
    BY <1>0, <2>3, <2>4 DEF NetType
<1>9. CASE Disconnected
  BY <1>0, <1>9 DEF Disconnected, NetType, receiver
<1>10. CASE PushAcl
  BY <1>0, <1>1, <1>2, <1>10 DEF PushAcl, NetType, FrameKinds, receiver
<1>11. CASE AclPushed
  BY <1>0, <1>4, <1>11 DEF AclPushed, NetType, receiver
<1>12. CASE Handle
  <2>1. Head(wire) \in Frame /\ Tail(wire) \in Seq(Frame)
    BY <1>0, <1>12 DEF Handle, NetType
  <2> DEFINE done == Handled(Head(wire), remote, tmp)
  <2>2. done.ok \in BOOLEAN /\ done.tmp \in [open : BOOLEAN, path : Paths, ver : Versions \cup {0}]
    BY <1>0, <2>1, HandledType
  <2> HIDE DEF done
  <2>3. /\ wire' = Tail(wire) /\ link' = link
        /\ acks' = Append(acks, done.ok) \/ acks' = Append(acks, FALSE)
        /\ tmp' \in {done.tmp, NoTmp, tmp}
    BY <1>12 DEF Handle, done
  <2>4. acks' \in Seq(BOOLEAN)
    <3>1. \A b \in BOOLEAN : Append(acks, b) \in Seq(BOOLEAN)
      BY <1>0 DEF NetType
    <3> QED
      BY <2>2, <2>3, <3>1, Zenon
  <2>5. tmp' \in [open : BOOLEAN, path : Paths, ver : Versions \cup {0}]
    BY <1>0, <2>2, <2>3, Placeholders DEF NetType
  <2> QED
    BY <1>0, <2>1, <2>3, <2>4, <2>5 DEF NetType
<1>13. CASE Panic \/ Drop \/ CrashReceiver \/ CrashSender
  <2>1. Closed("down") \/ Closed("none") \/ (Closed(link) /\ link \in {"none", "down"})
    BY <1>0, <1>13 DEF Panic, Drop, CrashReceiver, CrashSender, NetType
  <2> QED
    BY <1>3, <2>1
<1>14. CASE UNCHANGED <<link, wire, acks, tmp>>
  BY <1>0, <1>14 DEF NetType
<1> QED
  BY <1>5, <1>6, <1>7, <1>8, <1>9, <1>10, <1>11, <1>12, <1>13, <1>14
     DEF Next, vars, Sender, Scan, Guard, Plan, SaveRemoteBaseline, SaveRetry, StartReceiver,
         BackoffOver, Approve, Unmount, Mount, User, UserStep, net, receiver

\* Counters keep their bounds; the baseline has finitely many entries.
LEMMA HistoryStep == TypeOK /\ [Next]_vars => HistoryType'
<1> SUFFICES ASSUME TypeOK, [Next]_vars PROVE HistoryType'
  OBVIOUS
<1>0. HistoryType
  BY TypeParts
<1> USE BoundsAssumption, RemoteBounds
<1>1. /\ edits' = edits \/ (edits < MaxVersion /\ edits' = edits + 1)
      /\ faults' = faults \/ (faults < MaxFaults /\ faults' = faults + 1)
      /\ drops' = drops \/ (drops < MaxDrops /\ drops' = drops + 1)
      /\ crashes' = crashes \/ (crashes < MaxCrashes /\ crashes' = crashes + 1)
      /\ unmounts' = unmounts \/ (unmounts < MaxUnmounts /\ unmounts' = unmounts + 1)
  BY DEF Next, vars, Sender, Scan, Guard, Connect, Pinged, Plan, SendNext, Answered, Disconnected,
     PushAcl, AclPushed, SaveRemoteBaseline, SaveRetry, Handle, Panic, Drop, CrashReceiver,
     StartReceiver, CrashSender, BackoffOver, Approve, Unmount, Mount, User, UserStep, env
<1>2. gone' \subseteq Paths
  <2>1. gone' = gone \/ \E t : gone' = gone \cup {p \in Paths : primary[p] # None /\ t[p] = None}
    BY DEF Next, vars, Sender, Scan, Guard, Connect, Pinged, Plan, SendNext, Answered, Disconnected,
     PushAcl, AclPushed, SaveRemoteBaseline, SaveRetry, Handle, Panic, Drop, CrashReceiver,
     StartReceiver, CrashSender, BackoffOver, Approve, Unmount, Mount, User, UserStep, env
  <2> QED
    BY <1>0, <2>1 DEF HistoryType
<1>3. lost' \subseteq Paths /\ size' \in Nat
  <2>1. CASE Handle
    <3>1. size' = size /\ \E t : lost' \subseteq lost \cup {p \in Paths : remote[p] # None /\ t[p] = None}
      BY <2>1 DEF Handle
    <3> QED
      BY <1>0, <3>1 DEF HistoryType
  <2>2. CASE Plan
    <3>1. GoIdle \/ (lost' = {} /\ size' = Cardinality({p \in Paths : base[p] # None}))
      BY <2>2 DEF Plan
    <3>2. Cardinality({p \in Paths : base[p] # None}) \in Nat
      <4>1. IsFiniteSet({p \in Paths : base[p] # None})
        BY PathsAssumption, FS_Subset
      <4> QED
        BY <4>1, FS_CardinalityType
    <3> QED
      BY <3>1, <3>2 DEF GoIdle
  <2>3. CASE GoIdle
    BY <2>3 DEF GoIdle
  <2>4. Handle \/ Plan \/ GoIdle \/ UNCHANGED <<lost, size>>
    BY DEF Next, vars, Sender, Scan, Guard, Connect, Pinged, SendNext, Answered, Disconnected,
     PushAcl, AclPushed, SaveRemoteBaseline, SaveRetry, Panic, Drop, CrashReceiver,
     StartReceiver, CrashSender, BackoffOver, Approve, Unmount, Mount, User, UserStep, budget
  <2> QED
    BY <1>0, <2>1, <2>2, <2>3, <2>4 DEF HistoryType
<1> QED
  BY <1>0, <1>1, <1>2, <1>3 DEF HistoryType

\* Every operation a pass plans is one it has a frame for, and all state of sender,
\* connection and receiver keeps its type, whatever fails (sendOp, handle).
LEMMA PlansAreSent == Spec => [](TypeOK /\ Sendable)
<1>1. Init => TypeOK /\ Sendable
  <2> SUFFICES ASSUME Init PROVE TypeOK /\ Sendable
    OBVIOUS
  <2>1. TreesType /\ StoreType /\ Sendable
    BY Placeholders, EmptyTreeType DEF Init, TreesType, StoreType, Sendable
  <2>2. FlagsType
    BY Zenon DEF Init, FlagsType
  <2>3. SenderType
    BY Placeholders DEF Init, SenderType, PCs, Phases
  <2>4. NetType
    BY Placeholders DEF Init, NetType
  <2>5. HistoryType
    BY BoundsAssumption, RemoteBounds DEF Init, HistoryType
  <2> QED
    BY <2>1, <2>2, <2>3, <2>4, <2>5, TypeParts
<1>2. TypeOK /\ Sendable /\ [Next]_vars => (TypeOK /\ Sendable)'
  <2>1. TypeOK /\ Sendable /\ [Next]_vars =>
          TreesType' /\ FlagsType' /\ StoreType' /\ SenderType' /\ NetType' /\ HistoryType' /\ Sendable'
    BY TreesStep, FlagsStep, StoreStep, SenderStep, NetStep, HistoryStep
  <2>2. TreesType' /\ FlagsType' /\ StoreType' /\ SenderType' /\ NetType' /\ HistoryType' => TypeOK'
    BY TypeParts, PTL
  <2> QED
    BY <2>1, <2>2
<1> QED
  BY <1>1, <1>2, PTL DEF Spec

\* Type correctness of the backup leg: of the trees on both hosts and the one the
\* receiver has acknowledged, of the frames under way and of the retry state.
THEOREM BackupTypeCorrect == Spec => []TypeOK
  BY PlansAreSent, PTL


----------------------------------------------------------------------------
(* The exchange: without loop markers, whose answer nobody reads, there is *)
(* one frame or one answer under way while the sender waits, and nothing   *)
(* while it does not.                                                      *)

\* The frame of the current operation that waits for its answer.
CurFrame ==
    IF phase \in {"op", "begin"} THEN FirstFrame(cur)
    ELSE IF phase = "data" THEN MkFrame("fileData", cur.path, cur.path, stat0)
    ELSE MkFrame("fileEnd", cur.path, cur.path, IF phase = "end" THEN stat0 ELSE 0)

Posted(f) == wire = <<f>> /\ acks = <<>>
Replied == wire = <<>> /\ Len(acks) = 1
Still == wire = <<>> /\ acks = <<>>

Exchange ==
    /\ link # "up" => Still
    /\ link = "up" =>
          /\ pc = "ping" => Posted(Bare("ping")) \/ Replied
          /\ pc = "acl" => Posted(Bare("aclCSV")) \/ Replied
          /\ pc = "wait" => Posted(CurFrame) \/ Replied
          /\ pc \notin {"ping", "acl", "wait"} => Still
    /\ pc = "wait" => cur \in todo
    /\ pc \in {"idle", "scanned", "connect", "ping", "plan"} => todo = {} /\ lost = {}

\* Short queues.
LEMMA ShortQueues ==
    /\ \A s \in Seq(BOOLEAN) : Len(s) = 1 => Tail(s) = <<>>
    /\ \A b \in BOOLEAN : Len(Append(<<>>, b)) = 1
    /\ \A f \in Frame : /\ Append(<<>>, f) = <<f>> /\ <<f>> # <<>>
                        /\ Head(<<f>>) = f /\ Tail(<<f>>) = <<>>
<1> DEFINE Short(S) == \A s \in Seq(S) : Len(s) = 1 => Tail(s) = <<>>
<1>0. \A S : Short(S)
  <2> SUFFICES ASSUME NEW S, NEW s \in Seq(S), Len(s) = 1 PROVE Tail(s) = <<>>
    OBVIOUS
  <2>1. Tail(s) \in Seq(S) /\ Len(Tail(s)) = 0
    OBVIOUS
  <2> QED
    BY <2>1, EmptySeq
<1>1. Short(BOOLEAN)
  BY <1>0, Zenon
<1>2. \A S : \A x \in S : Len(Append(<<>>, x)) = 1
  OBVIOUS
<1>3. \A b \in BOOLEAN : Len(Append(<<>>, b)) = 1
  BY <1>2, Zenon
<1>4. \A f \in Frame : Append(<<>>, f) = <<f>> /\ <<f>> # <<>> /\ Head(<<f>>) = f /\ Tail(<<f>>) = <<>>
  OBVIOUS
<1> QED
  BY <1>1, <1>3, <1>4, Zenon

\* The answer to the frame under way is the next one that is read.
LEMMA ExchangeStep ==
    ~ LoopMarkers /\ TypeOK /\ Sendable /\ Exchange /\ [Next]_vars => Exchange'
<1> SUFFICES ASSUME ~ LoopMarkers, TypeOK, Sendable, Exchange, [Next]_vars PROVE Exchange'
  OBVIOUS
<1>0. NetType /\ SenderType /\ TreesType
  BY TypeParts
<1>1. acks \in Seq(BOOLEAN) /\ wire \in Seq(Frame) /\ link \in {"none", "up", "down"}
  BY <1>0 DEF NetType
<1>2. /\ \A k \in FrameKinds : Bare(k) \in Frame
      /\ \A k \in FrameKinds, p \in Paths, v \in Versions \cup {0} : MkFrame(k, p, p, v) \in Frame
  BY Placeholders DEF Bare, MkFrame, Frame, Op
<1>3. \A f \in Frame : Still /\ Post(f) /\ UNCHANGED acks =>
         /\ link = "up" => Posted(f)'
         /\ link # "up" => Still'
  BY ShortQueues DEF Still, Post, Posted
<1>4. \A state : Closed(state) => Still'
  BY DEF Closed, Still
<1>5. \A f \in Frame : acks # <<>> /\ (Posted(f) \/ Replied) => Replied /\ Tail(acks) = <<>>
  BY <1>1, ShortQueues DEF Posted, Replied
<1>6. ASSUME GoIdle, UNCHANGED <<link, wire, acks>>, pc \notin {"ping", "acl", "wait"} \/ Still
      PROVE  Exchange'
  BY <1>6 DEF GoIdle, Exchange, Still
<1>7. CASE Connect
  <2>1. CASE link # "none" /\ Post(Bare("ping")) /\ pc' = "ping" /\ UNCHANGED <<link, acks, sending, budget>>
    <3>1. Still /\ todo = {} /\ lost = {}
      BY <1>1, <1>7 DEF Connect, Exchange
    <3>2. Bare("ping") \in Frame
      BY <1>2 DEF FrameKinds
    <3> QED
      BY <1>1, <1>3, <2>1, <3>1, <3>2 DEF Exchange, sending, budget
  <2>2. CASE link = "none" /\ GoIdle /\ UNCHANGED net
    BY <1>6, <1>7, <2>2 DEF Connect, net
  <2>3. CASE link' = "up" /\ wire' = <<>> /\ acks' = <<>> /\ pc' = "plan" /\ UNCHANGED <<sending, budget>>
    BY <1>7, <2>3 DEF Connect, Exchange, Still, sending, budget
  <2> QED
    BY <1>7, <2>1, <2>2, <2>3 DEF Connect
<1>8. CASE Pinged
  <2>1. Bare("ping") \in Frame
    BY <1>2 DEF FrameKinds
  <2>2. CASE acks # <<>> /\ acks' = Tail(acks) /\ pc' = "plan" /\ UNCHANGED <<link, wire, tmp>>
    BY <1>1, <1>5, <1>8, <2>1, <2>2 DEF Pinged, Exchange, Still, Replied, memory, sending, budget
  <2>3. CASE Closed("none") /\ pc' = "connect"
    BY <1>4, <1>8, <2>3 DEF Pinged, Exchange, Closed, memory, sending, budget
  <2> QED
    BY <1>8, <2>2, <2>3 DEF Pinged
<1>9. CASE Plan
  BY <1>6, <1>9 DEF Plan, Exchange, net, Still
<1>10. CASE SendNext
  <2>1. Still /\ UNCHANGED <<link, acks>>
    BY <1>10 DEF SendNext, Exchange
  <2>2. PICK op \in todo :
          \/ pc' = pc /\ wire' = wire
          \/ OpFailed(op, link) /\ wire' = wire
          \/ /\ Post(FirstFrame(op))
             /\ cur' = op
             /\ phase' = IF IsFileCopy(op) THEN "begin" ELSE "op"
             /\ pc' = "wait"
             /\ UNCHANGED todo
    BY <1>10 DEF SendNext
  <2>3. CASE pc' = "send" /\ wire' = wire
    BY <2>1, <2>3 DEF Exchange, Still
  <2>4. CASE Post(FirstFrame(op)) /\ cur' = op /\ phase' \in {"op", "begin"} /\ pc' = "wait" /\ UNCHANGED todo
    <3>1. FirstFrame(op) \in Frame
      BY <1>0, FirstFrameType DEF SenderType, Sendable
    <3>2. FirstFrame(op)' = FirstFrame(cur)'
      BY <2>4
    <3>3. seen' = seen
      BY <1>10 DEF SendNext
    <3>4. CurFrame' = FirstFrame(op)
      BY <2>4, <3>3 DEF CurFrame, FirstFrame
    <3> QED
      BY <1>3, <2>1, <2>2, <2>4, <3>1, <3>4 DEF Exchange, Posted, Still
  <2> QED
    BY <1>10, <2>2, <2>3, <2>4 DEF OpFailed, SendNext
<1>11. CASE Answered
  <2>1. CurFrame \in Frame
    <3>1. cur \in Op /\ cur.kind # "conflictRename" /\ cur.path \in Paths /\ stat0 \in Versions \cup {0}
      BY <1>0, <1>11 DEF Answered, Exchange, SenderType, Sendable, Op
    <3> QED
      BY <1>0, <1>2, <3>1, FirstFrameType DEF CurFrame, FrameKinds
  <2>2. link = "up" /\ wire = <<>> /\ acks' = <<>>
    BY <1>1, <1>5, <1>11, <2>1 DEF Answered, Exchange, Still, Replied
  <2>3. link' = link
    BY <1>11 DEF Answered
  <2>4. \/ wire' = wire /\ pc' = "send"
        \/ /\ Post(MkFrame("fileData", cur.path, cur.path, stat0)) /\ phase' = "data"
           /\ UNCHANGED <<pc, todo, cur, stat0>>
        \/ /\ Post(MkFrame("fileEnd", cur.path, cur.path, stat0)) /\ phase' = "end"
           /\ UNCHANGED <<pc, todo, cur, stat0>>
        \/ /\ Post(MkFrame("fileEnd", cur.path, cur.path, 0)) /\ phase' = "torn"
           /\ UNCHANGED <<pc, todo, cur, stat0>>
    BY <1>11 DEF Answered, OpDone, OpFailed
  <2>5. CASE wire' = wire /\ pc' = "send"
    BY <2>2, <2>3, <2>5 DEF Exchange, Still
  <2>6. CASE Post(CurFrame') /\ UNCHANGED <<pc, todo, cur>>
    <3>1. wire' = <<CurFrame'>>
      BY <1>1, <2>2, <2>6 DEF Post
    <3> QED
      BY <1>11, <2>2, <2>3, <2>6, <3>1 DEF Answered, Exchange, Posted
  <2> QED
    BY <2>4, <2>5, <2>6 DEF CurFrame
<1>12. CASE Disconnected
  BY <1>12 DEF Disconnected, OpFailed, Exchange, Still
<1>13. CASE PushAcl
  <2>1. Bare("aclCSV") \in Frame
    BY <1>2 DEF FrameKinds
  <2> QED
    BY <1>1, <1>3, <1>13, <2>1 DEF PushAcl, Exchange, Still, Posted
<1>14. CASE AclPushed
  <2>1. Bare("aclCSV") \in Frame
    BY <1>2 DEF FrameKinds
  <2>2. pc = "acl" /\ pc' = "save" /\ wire' = wire
    BY <1>14 DEF AclPushed
  <2>3. CASE acks # <<>> /\ acks' = Tail(acks) /\ UNCHANGED link
    BY <1>1, <1>5, <2>1, <2>2, <2>3 DEF Exchange, Still, Replied
  <2>4. CASE link = "down" /\ link' = "none" /\ UNCHANGED acks
    BY <2>2, <2>4 DEF Exchange, Still
  <2> QED
    BY <1>14, <2>3, <2>4 DEF AclPushed
<1>15. CASE Handle
  <2>1. /\ UNCHANGED <<link, pc, cur, todo, seen, phase, stat0>> /\ link = "up" /\ wire # <<>>
        /\ wire' = Tail(wire)
        /\ lost' = lost \/ Head(wire).kind \in {"delete", "rmdir"}
    BY <1>15 DEF Handle, memory, sending
  <2>2. Head(wire) \in Frame
    BY <1>1, <2>1
  <2>3. Handled(Head(wire), remote, tmp).ok \in BOOLEAN
    BY <1>0, <2>2, HandledType
  <2>4. pc \in {"ping", "acl", "wait"} /\ wire = <<Head(wire)>> /\ acks = <<>>
    BY <2>1, <1>1 DEF Exchange, Posted, Replied, Still
  <2>5. wire' = <<>> /\ Len(acks') = 1
    <3>1. acks' = Append(acks, Handled(Head(wire), remote, tmp).ok) \/ acks' = Append(acks, FALSE)
      BY <1>15 DEF Handle
    <3>2. Len(acks') = 1
      BY <2>3, <2>4, <3>1, ShortQueues, Zenon
    <3> QED
      BY <2>1, <2>2, <2>4, <3>2, ShortQueues
  <2>6. pc = "ping" => Head(wire).kind = "ping"
    BY <2>1, <2>4 DEF Exchange, Posted, Replied, Bare, MkFrame
  <2> QED
    BY <2>1, <2>4, <2>5, <2>6 DEF Exchange, Replied
<1>16. CASE Panic \/ Drop \/ CrashReceiver \/ CrashSender
  <2>1. Still' /\ link' # "up"
    BY <1>4, <1>16 DEF Panic, Drop, CrashReceiver, CrashSender, Closed
  <2>2. CASE GoIdle
    BY <2>1, <2>2 DEF Exchange, GoIdle
  <2>3. CASE UNCHANGED <<pc, cur, todo, lost>>
    BY <2>1, <2>3 DEF Exchange
  <2> QED
    BY <1>16, <2>2, <2>3 DEF Panic, Drop, CrashReceiver, CrashSender, memory, sending, budget
<1>17. CASE Guard
  <2>1. pc = "scanned" /\ UNCHANGED <<link, wire, acks>>
    BY <1>17 DEF Guard, net
  <2>2. GoIdle \/ (pc' = "connect" /\ UNCHANGED <<todo, cur, lost>>)
    BY <1>17 DEF Guard, budget
  <2> QED
    BY <1>6, <2>1, <2>2 DEF Exchange, Still
<1>18. CASE SaveRetry
  BY <1>6, <1>18 DEF SaveRetry, net
<1>19. CASE UNCHANGED <<link, wire, acks, cur, todo, lost>> /\ (Scan \/ SaveRemoteBaseline)
  BY <1>19 DEF Exchange, Still, Scan, SaveRemoteBaseline
<1>20. CASE UNCHANGED <<link, wire, acks, pc, cur, todo, lost, seen, phase, stat0>>
  <2>1. CurFrame' = CurFrame
    BY <1>20 DEF CurFrame, FirstFrame
  <2> QED
    BY <1>20, <2>1 DEF Exchange, Still, Posted, Replied
<1> QED
  BY <1>7, <1>8, <1>9, <1>10, <1>11, <1>12, <1>13, <1>14, <1>15, <1>16, <1>17, <1>18, <1>19, <1>20
     DEF Next, vars, Sender, Scan, SaveRemoteBaseline, StartReceiver, BackoffOver, Approve, Unmount,
         Mount, User, UserStep, net, memory, sending, budget


----------------------------------------------------------------------------
(* The delete budget, on trees without directories: there an operation     *)
(* removes no more than the entry it names.                                *)

\* What users create on such a tree.
FilesAndLinks == \A p \in OriginalPaths : "dir" \notin Kinds[ShapeOf(p)]

Plain(t) == \A p \in Paths : t[p].type # "dir"
PlainTrees == Plain(primary) /\ Plain(savedBase) /\ Plain(seen) /\ Plain(base)

\* So every operation is a copy, a deletion of one entry or a rename.
PlainOps == \A op \in todo : op.kind \in {"copy", "delete", "rename"}

\* What the receiver has deleted or may still delete in this pass.
Doomed == lost \cup {op.path : op \in {o \in todo : IsDelete(o)}}
WithinBudget == ~ granted => ~ OverBudget(Cardinality(Doomed), size)

\* Fewer deletions of the same baseline are within a budget that more are within.
LEMMA OverBudgetMonotone ==
    ASSUME NEW n \in Nat, NEW m \in Nat, n <= m, NEW total \in Nat, OverBudget(n, total)
    PROVE  OverBudget(m, total)
<1>1. ASSUME total > 0 PROVE (n * 100) \div total <= (m * 100) \div total
  <2> DEFINE a == (n * 100) \div total
             b == (m * 100) \div total
  <2>1. a \in Nat /\ b \in Nat /\ total * a <= n * 100 /\ m * 100 < total * (b + 1)
    BY <1>1
  <2>2. total * a < total * (b + 1)
    BY <1>1, <2>1
  <2>3. a >= b + 1 => total * a >= total * (b + 1)
    BY <1>1, <2>1
  <2> HIDE DEF a, b
  <2>4. total * a \in Int /\ total * (b + 1) \in Int
    BY <2>1
  <2>5. a <= b
    BY <2>1, <2>2, <2>3, <2>4
  <2> QED
    BY <2>5 DEF a, b
<1>2. /\ total > 0 => (n * 100) \div total \in Int /\ (m * 100) \div total \in Int
  OBVIOUS
<1> QED
  BY <1>1, <1>2, BudgetAssumption DEF OverBudget

\* The deletions of a plan have different paths: as many entries as operations.
LEMMA PlannedDeletes ==
    ASSUME NEW b \in Tree, NEW t \in Tree
    PROVE  LET D == {op \in MergeOps(b, t, b, 0) : IsDelete(op)}
           IN  Cardinality({op.path : op \in D}) = Cardinality(D)
<1> DEFINE D == {op \in MergeOps(b, t, b, 0) : IsDelete(op)}
           T == {op.path : op \in D}
           f == [op \in D |-> op.path]
<1>1. \A p \in Paths : Verdict(b[p], t[p], b[p]) \in {"keep", "toSecondary"}
  BY DEF Verdict, SameIdentity
<1>2. ASSUME NEW op \in D
      PROVE  op.path \in Paths /\ op = MkOp(DelKind(b[op.path].type), "secondary", op.path, op.path,
                                            b[op.path].type, op.path, 1)
  <2>1. op \notin RenameOps(b, t, b)
    BY DEF RenameOps, MkOp, IsDelete
  <2>2. PICK p \in Paths : op \in PathOps(p, 0, b[p], t[p], b[p])
    BY <2>1 DEF MergeOps
  <2>3. op \in Propagate("secondary", p, t[p], b[p])
    BY <1>1, <2>2 DEF PathOps
  <2> QED
    BY <2>3 DEF Propagate, MkOp, IsDelete, CreateKind
<1>3. T \subseteq Paths
  BY <1>2
<1>4. IsFiniteSet(T)
  BY <1>3, PathsAssumption, FS_Subset
<1>5. f \in Injection(D, T)
  BY <1>2 DEF Injection, IsInjective
<1>6. f \in Surjection(D, T)
  BY DEF Surjection
<1> HIDE DEF D, T, f
<1>7. Cardinality(D) = Cardinality(T)
  BY <1>4, <1>5, <1>6, FS_Injection
<1> QED
  BY <1>7 DEF D, T


\* A tree without directories stays one when entries are removed or moved.
LEMMA PlainChanges ==
    ASSUME NEW t \in Tree, Plain(t), NEW p \in Paths, NEW q \in Paths
    PROVE  Plain(RemoveAll(t, p)) /\ Plain(Remove(t, p)) /\ Plain(Rename(t, p, q))
<1>1. Plain(RemoveAll(t, p)) /\ Plain(Remove(t, p))
  BY DEF Plain, RemoveAll, Remove, None, Tree
<1>2. \A x \in Paths : Rename(t, p, q)[x] = None \/ \E y \in Paths : Rename(t, p, q)[x] = t[y]
  BY DEF Rename
<1> QED
  BY <1>1, <1>2 DEF Plain, None

\* Against a baseline without directories, a merge has no directory to make or remove.
LEMMA PlainPlan ==
    ASSUME NEW b \in Tree, NEW t \in Tree, Plain(b), Plain(t), NEW op \in MergeOps(b, t, b, 0)
    PROVE  op.kind \in {"copy", "delete", "rename"}
<1>1. \A p \in Paths : Verdict(b[p], t[p], b[p]) \in {"keep", "toSecondary"}
  BY DEF Verdict, SameIdentity
<1>2. CASE op \in RenameOps(b, t, b)
  BY <1>2 DEF RenameOps, MkOp
<1>3. ASSUME NEW p \in Paths, op \in PathOps(p, 0, b[p], t[p], b[p])
      PROVE  op.kind \in {"copy", "delete"}
  <2>1. op \in Propagate("secondary", p, t[p], b[p])
    BY <1>1, <1>3 DEF PathOps
  <2> QED
    BY <2>1 DEF Propagate, MkOp, DelKind, CreateKind, Plain
<1> QED
  BY <1>2, <1>3 DEF MergeOps

\* Without directories on the primary, the sender never sees or records one.
LEMMA PlainStep ==
    FilesAndLinks /\ TypeOK /\ Sendable /\ PlainTrees /\ [Next]_vars => PlainTrees'
<1> SUFFICES ASSUME FilesAndLinks, TypeOK, Sendable, PlainTrees, [Next]_vars PROVE PlainTrees'
  OBVIOUS
<1>0. TreesType /\ SenderType
  BY TypeParts
<1>1. Plain(primary')
  <2>1. CASE User
    <3>1. PICK p \in OriginalPaths :
            \/ primary' = [primary EXCEPT ![p] = File(edits + 1, "primary", edits + 1)]
            \/ \E v : primary' = [primary EXCEPT ![p] = Symlink(v)]
            \/ "dir" \in Kinds[ShapeOf(p)]
            \/ primary' = RemoveAll(primary, p)
            \/ \E q \in OriginalPaths : primary' = Rename(primary, p, q)
      <4>1. \A kind, t : UserStep(kind, t) => primary' = t
        BY DEF UserStep
      <4> QED
        BY <2>1, <4>1 DEF User
    <3>2. OriginalPaths \subseteq Paths
      BY DEF OriginalPaths
    <3>3. RemoveAll(primary, p) = primary' => Plain(primary')
      BY <1>0, <3>2, PlainChanges DEF PlainTrees, TreesType
    <3>4. \A q \in OriginalPaths : Rename(primary, p, q) = primary' => Plain(primary')
      BY <1>0, <3>2, PlainChanges DEF PlainTrees, TreesType
    <3>5. ASSUME primary' = [primary EXCEPT ![p] = File(edits + 1, "primary", edits + 1)]
                 \/ \E v : primary' = [primary EXCEPT ![p] = Symlink(v)]
          PROVE  Plain(primary')
      <4>1. ASSUME NEW e, primary' = [primary EXCEPT ![p] = e], e.type \in {"file", "symlink"}
            PROVE  Plain(primary')
        BY <1>0, <4>1 DEF PlainTrees, Plain, TreesType, Tree
      <4>2. \A v, m, c : File(v, m, c).type = "file" /\ Symlink(v).type = "symlink"
        BY DEF File, Symlink
      <4> QED
        BY <3>5, <4>1, <4>2
    <3> QED
      BY <3>1, <3>3, <3>4, <3>5 DEF FilesAndLinks
  <2>2. User \/ primary' = primary
    BY DEF Next, vars, Sender, Scan, Guard, Connect, Pinged, Plan, SendNext, Answered, Disconnected,
           PushAcl, AclPushed, SaveRemoteBaseline, SaveRetry, Handle, Panic, Drop, CrashReceiver,
           StartReceiver, CrashSender, BackoffOver, Approve, Unmount, Mount
  <2> QED
    BY <2>1, <2>2 DEF PlainTrees
<1>2. savedBase' = savedBase \/ savedBase' = base
  BY DEF Next, vars, Sender, Scan, Guard, Connect, Pinged, Plan, SendNext, Answered, Disconnected,
         PushAcl, AclPushed, SaveRemoteBaseline, SaveRetry, Handle, Panic, Drop, CrashReceiver,
         StartReceiver, CrashSender, BackoffOver, Approve, Unmount, Mount, User, UserStep, store
<1>3. Plain(seen')
  <2>1. seen' = seen \/ seen' = Visible \/ seen' = EmptyTree
    BY DEF Next, vars, Sender, Scan, Guard, Connect, Pinged, Plan, SendNext, Answered, Disconnected,
           PushAcl, AclPushed, SaveRemoteBaseline, SaveRetry, Handle, Panic, Drop, CrashReceiver,
           StartReceiver, CrashSender, BackoffOver, Approve, Unmount, Mount, User, UserStep, memory,
           GoIdle
  <2>2. Plain(EmptyTree)
    BY DEF Plain, EmptyTree, None
  <2> QED
    BY <2>1, <2>2 DEF Visible, PlainTrees
<1>4. Plain(base')
  <2>1. base' = base \/ base' = savedBase \/ base' = ApplyToBaseline(base, cur)
    BY DEF Next, vars, Sender, Scan, Guard, Connect, Pinged, Plan, SendNext, Answered, Disconnected,
           PushAcl, AclPushed, SaveRemoteBaseline, SaveRetry, Handle, Panic, Drop, CrashReceiver,
           StartReceiver, CrashSender, BackoffOver, Approve, Unmount, Mount, User, UserStep, memory,
           OpFailed, OpDone
  <2>2. cur.path \in Paths /\ cur.old \in Paths
    BY <1>0 DEF SenderType, Op
  <2>3. /\ Plain(RemoveAll(base, cur.path)) /\ Plain(Remove(base, cur.path))
        /\ Plain(Rename(base, cur.old, cur.path))
    BY <1>0, <2>2, PlainChanges DEF PlainTrees, TreesType
  <2>4. Plain([base EXCEPT ![cur.path] = seen[cur.path]])
    BY <1>0, <2>2 DEF PlainTrees, Plain, TreesType, Tree
  <2>5. ApplyToBaseline(base, cur) \in {RemoveAll(base, cur.path), Remove(base, cur.path), base,
                Rename(base, cur.old, cur.path), [base EXCEPT ![cur.path] = seen[cur.path]]}
    BY DEF ApplyToBaseline
  <2> QED
    BY <2>1, <2>3, <2>4, <2>5 DEF PlainTrees
<1> QED
  BY <1>1, <1>2, <1>3, <1>4 DEF PlainTrees

\* Operations enter the batch when it is planned only.
LEMMA TodoShrinks ==
    ASSUME TypeOK, Sendable, [Next]_vars
    PROVE  \/ todo' \subseteq todo
           \/ Plan /\ todo' = MergeOps(base, seen, base, 0)
<1>0. SenderType
  BY TypeParts
<1>1. ASSUME NEW op \in Op, NEW lnk, OpFailed(op, lnk) PROVE todo' \subseteq todo
  BY <1>1 DEF OpFailed
<1>2. \/ todo' = todo \/ todo' = {} \/ OpDone(cur)
      \/ \E op \in todo \cup {cur} : todo' = todo \ {op} \/ \E lnk : OpFailed(op, lnk)
      \/ Plan /\ todo' = MergeOps(base, seen, base, 0)
  BY DEF Next, vars, Sender, Scan, Guard, Connect, Pinged, Plan, SendNext, Answered, Disconnected,
         PushAcl, AclPushed, SaveRemoteBaseline, SaveRetry, Handle, Panic, Drop, CrashReceiver,
         StartReceiver, CrashSender, BackoffOver, Approve, Unmount, Mount, User, UserStep, memory,
         sending, GoIdle
<1> QED
  BY <1>0, <1>1, <1>2 DEF OpDone, SenderType

\* On such trees, the batch never holds a directory's operation.
LEMMA PlainOpsStep ==
    TypeOK /\ Sendable /\ PlainTrees /\ PlainOps /\ [Next]_vars => PlainOps'
<1> SUFFICES ASSUME TypeOK, Sendable, PlainTrees, PlainOps, [Next]_vars PROVE PlainOps'
  OBVIOUS
<1>1. \A op \in MergeOps(base, seen, base, 0) : op.kind \in {"copy", "delete", "rename"}
  BY TypeParts, PlainPlan DEF PlainTrees, TreesType
<1> QED
  BY <1>1, TodoShrinks DEF PlainOps

\* What is removed at the receiver was planned to be.
LEMMA DoomedGoes ==
    ASSUME TypeOK, Sendable, Exchange, PlainOps, Handle
    PROVE  lost' \subseteq Doomed
<1>0. NetType /\ SenderType /\ TreesType
  BY TypeParts
<1> DEFINE f == Head(wire)
           erased == {p \in Paths : remote[p] # None /\ Handled(f, remote, tmp).tree[p] = None}
<1>1. link = "up" /\ wire # <<>>
  BY DEF Handle
<1>2. lost' = lost \/ (f.kind \in {"delete", "rmdir"} /\ lost' = lost \cup erased)
  BY DEF Handle
<1>3. ASSUME f.kind \in {"delete", "rmdir"} PROVE erased \subseteq Doomed
  <2>1. pc = "wait" /\ wire = <<CurFrame>>
    BY <1>1, <1>3 DEF Exchange, Posted, Replied, Still, Bare, MkFrame
  <2>2. cur \in todo /\ cur \in Op /\ cur.kind \in {"copy", "delete", "rename"}
    BY <1>0, <2>1 DEF Exchange, PlainOps, SenderType
  <2>3. f = CurFrame
    BY <2>1
  <2>4. f.kind = "delete" /\ f.path = cur.path /\ cur.kind = "delete"
    BY <1>3, <2>2, <2>3 DEF CurFrame, FirstFrame, MkFrame
  <2>5. Handled(f, remote, tmp).tree \in {Remove(remote, f.path), remote}
    BY <2>4 DEF Handled, Outcome
  <2>6. erased \subseteq {f.path}
    BY <1>0, <2>5 DEF Remove, TreesType, Tree
  <2> QED
    BY <2>2, <2>4, <2>6 DEF Doomed, IsDelete
<1> QED
  BY <1>2, <1>3 DEF Doomed

\* No step makes a pass without approval lose more than the budget.
LEMMA BudgetStep ==
    TypeOK /\ Sendable /\ Exchange /\ PlainOps /\ WithinBudget /\ [Next]_vars => WithinBudget'
<1> SUFFICES ASSUME TypeOK, Sendable, Exchange, PlainOps, WithinBudget, [Next]_vars
             PROVE  WithinBudget'
  OBVIOUS
<1>0. SenderType /\ HistoryType /\ TreesType
  BY TypeParts
<1>1. Doomed \subseteq Paths
  BY <1>0 DEF Doomed, SenderType, HistoryType, Op
<1>2. IsFiniteSet(Doomed) /\ Cardinality(Doomed) \in Nat
  BY <1>1, PathsAssumption, FS_Subset, FS_CardinalityType
<1>3. ASSUME Doomed' \subseteq Doomed, UNCHANGED <<size, granted>> PROVE WithinBudget'
  <2>1. Cardinality(Doomed') <= Cardinality(Doomed) /\ IsFiniteSet(Doomed')
    BY <1>2, <1>3, FS_Subset
  <2>2. Cardinality(Doomed') \in Nat
    BY <2>1, FS_CardinalityType
  <2> QED
    BY <1>0, <1>2, <1>3, <2>1, <2>2, OverBudgetMonotone DEF WithinBudget, HistoryType
<1>4. ASSUME lost' = {}, todo' = {} PROVE WithinBudget'
  <2>1. Doomed' = {}
    BY <1>4 DEF Doomed
  <2>2. Cardinality(Doomed') = 0
    BY <2>1, FS_EmptySet
  <2> QED
    BY <2>2 DEF WithinBudget, OverBudget
<1>5. CASE GoIdle
  BY <1>4, <1>5 DEF GoIdle
<1>6. CASE Guard
  BY <1>4, <1>5, <1>6 DEF Guard, Exchange, budget
<1>7. CASE Plan
  <2> DEFINE ops == MergeOps(base, seen, base, 0)
             entries == Cardinality({p \in Paths : base[p] # None})
  <2>1. \/ GoIdle
        \/ /\ granted \/ ~ OverBudget(CountDeletes(ops), entries)
           /\ todo' = ops /\ lost' = {} /\ size' = entries /\ UNCHANGED granted
    BY <1>7 DEF Plan
  <2>2. ASSUME granted \/ ~ OverBudget(CountDeletes(ops), entries),
               todo' = ops, lost' = {}, size' = entries, UNCHANGED granted
        PROVE  WithinBudget'
    <3>1. Doomed' = {op.path : op \in {o \in ops : IsDelete(o)}}
      BY <2>2 DEF Doomed
    <3>2. Cardinality(Doomed') = CountDeletes(ops)
      BY <1>0, <3>1, PlannedDeletes DEF CountDeletes, TreesType
    <3> QED
      BY <2>2, <3>2 DEF WithinBudget
  <2> QED
    BY <1>5, <2>1, <2>2
<1>8. CASE Handle
  <2>1. lost' \subseteq Doomed
    BY <1>8, DoomedGoes
  <2>2. UNCHANGED <<todo, size, granted>>
    BY <1>8 DEF Handle, memory, sending
  <2>3. Doomed' \subseteq Doomed
    BY <2>1, <2>2 DEF Doomed
  <2> QED
    BY <1>3, <2>2, <2>3
<1>9. CASE UNCHANGED <<lost, size, granted>> /\ todo' \subseteq todo
  <2>1. Doomed' \subseteq Doomed
    BY <1>9 DEF Doomed
  <2> QED
    BY <1>3, <1>9, <2>1
<1>10. GoIdle \/ Guard \/ Plan \/ Handle \/ UNCHANGED <<lost, size, granted>>
  <2>1. CASE Sender
    BY <2>1 DEF Sender, Scan, Connect, Pinged, SendNext, Answered, Disconnected, PushAcl,
                AclPushed, SaveRemoteBaseline, SaveRetry, memory, sending, budget
  <2>2. CASE User
    BY <2>2, UserChanges DEF memory, sending, budget
  <2>3. CASE ~ Sender /\ ~ User
    BY <2>3 DEF Next, vars, Panic, Drop, CrashReceiver, StartReceiver, CrashSender, BackoffOver,
                Approve, Unmount, Mount, memory, sending, budget
  <2> QED
    BY <2>1, <2>2, <2>3
<1> QED
  BY <1>5, <1>6, <1>7, <1>8, <1>9, <1>10, TodoShrinks

\* The delete budget bounds what a pass without approval removes from the backup, not
\* only what it plans to (Budget.Check): on trees of files and links, without loop
\* markers, whatever is lost, fails or crashes in between.
THEOREM LossWithinBudget ==
    ASSUME FilesAndLinks, ~ LoopMarkers
    PROVE  Spec => []BudgetBoundsLoss
<1>1. Init => Exchange /\ PlainTrees /\ PlainOps /\ WithinBudget
  <2> SUFFICES ASSUME Init PROVE Exchange /\ PlainTrees /\ PlainOps /\ WithinBudget
    OBVIOUS
  <2>1. Doomed = {}
    BY DEF Init, Doomed
  <2>2. WithinBudget
    BY <2>1, FS_EmptySet DEF WithinBudget, OverBudget
  <2> QED
    BY <2>2 DEF Init, Exchange, Still, PlainTrees, Plain, EmptyTree, None, PlainOps
<1>2. TypeOK /\ Sendable /\ Exchange /\ PlainTrees /\ PlainOps /\ WithinBudget /\ [Next]_vars =>
         (Exchange /\ PlainTrees /\ PlainOps /\ WithinBudget)'
  BY ExchangeStep, PlainStep, PlainOpsStep, BudgetStep
<1>3. TypeOK /\ WithinBudget => BudgetBoundsLoss
  <2> SUFFICES ASSUME TypeOK, WithinBudget, ~ granted PROVE ~ OverBudget(Cardinality(lost), size)
    BY DEF BudgetBoundsLoss
  <2>1. SenderType /\ HistoryType
    BY TypeParts
  <2>2. Doomed \subseteq Paths /\ lost \subseteq Doomed
    BY <2>1 DEF Doomed, SenderType, HistoryType, Op
  <2>3. /\ IsFiniteSet(Doomed) /\ IsFiniteSet(lost) /\ Cardinality(lost) <= Cardinality(Doomed)
    BY <2>2, PathsAssumption, FS_Subset
  <2>4. Cardinality(lost) \in Nat /\ Cardinality(Doomed) \in Nat
    BY <2>3, FS_CardinalityType
  <2> QED
    BY <2>1, <2>3, <2>4, OverBudgetMonotone DEF WithinBudget, HistoryType
<1> QED
  BY <1>1, <1>2, <1>3, PlansAreSent, PTL DEF Spec


----------------------------------------------------------------------------
(* What is not pending is stored, on a mounted tree of files and links     *)
(* that nobody renames: for the files of it, because a link may get back   *)
(* the target it had.                                                      *)

\* Where a file's version is seen again, it is at the path it was written to.
InPlace == FilesAndLinks /\ "move" \notin UserOps /\ MaxUnmounts = 0

\* Users make symlinks.
LinksMade == \E p \in OriginalPaths : "symlink" \in Kinds[ShapeOf(p)]

\* What the primary's host knows of a path.
Known(p) == {primary[p], seen[p], base[p], savedBase[p]}

\* An entry that users have written at p.
Written(p, e) ==
    /\ \/ e.type = "file" /\ e.ver \in 1..edits /\ e.ino = e.ver
       \/ e.type = "symlink" /\ LinksMade
    /\ Ancestors(p) = {}

Authentic == \A p \in Paths : \A e \in Known(p) : e = None \/ Written(p, e)
\* A version of a file is written at one path only.
OnePath ==
    \A p \in Paths, q \in Paths : \A e \in Known(p), f \in Known(q) :
        e.type = "file" /\ f.type = "file" /\ e.ver = f.ver => p = q

\* The batch copies what was seen and deletes what was not.
FollowsScan == \A op \in todo : op.kind = IF seen[op.path] = None THEN "delete" ELSE "copy"

\* e is the file that the primary has now.
Current(p, e) == e.type = "file" /\ SameIdentity(primary[p], e)

\* A file that users have replaced does not come back: a baseline entry that the primary
\* still has was there when the pass scanned it.
SeenIfCurrent ==
    pc # "idle" => \A p \in Paths : \A e \in {base[p], savedBase[p]} :
        Current(p, e) => SameIdentity(seen[p], e)

\* The first stat of a file that has not changed since the scan.
StatIsCurrent ==
    pc = "wait" =>
        /\ IsFileCopy(cur) => phase \in {"begin", "data", "end", "torn"}
        /\ ~ IsFileCopy(cur) => phase = "op"
        /\ IsFileCopy(cur) /\ Current(cur.path, seen[cur.path]) => stat0 = seen[cur.path].ver

\* The answer under way says that the frame was carried out.
Accepted == acks # <<>> /\ Head(acks)

\* What the sender concludes from an answer is so.
AnswersAreTrue ==
    pc = "wait" /\ link = "up" =>
        /\ (phase \in {"data", "end", "torn"} \/ (phase = "begin" /\ Accepted)) =>
              (tmp.open => tmp.path = cur.path)
        /\ phase = "end" /\ Accepted =>
              /\ remote[cur.path].type = "file"
              /\ remote[cur.path].ver = stat0
\* An acknowledged file that is still current is stored.
Stored ==
    \A p \in Paths : \A e \in {base[p], savedBase[p]} :
        Current(p, e) => SameIdentity(remote[p], e)

StoredInv ==
    /\ mounted /\ Authentic /\ OnePath /\ FollowsScan /\ SeenIfCurrent
    /\ StatIsCurrent /\ AnswersAreTrue /\ Stored


\* A step adds at most one entry to what is known, at the path users write to: a file
\* of a new version, or any link.
OneWrite(q, e) ==
    /\ edits' = edits + 1 /\ Ancestors(q) = {} /\ primary'[q] = e
    /\ e = File(edits + 1, "primary", edits + 1) \/ (LinksMade /\ \E v : e = Symlink(v))
    /\ \A p \in Paths : Known(p)' \subseteq Known(p) \cup {None} \cup (IF p = q THEN {e} ELSE {})
    /\ \A p \in Paths \ {q} : primary'[p] = primary[p]

NoWrite ==
    /\ edits' \in {edits, edits + 1}
    /\ \A p \in Paths : Known(p)' \subseteq Known(p) \cup {None} /\ primary'[p] \in {primary[p], None}

\* Operations that only copy and delete leave what was known, seen or nothing in the
\* baseline.
LEMMA BaselineMoves ==
    ASSUME TypeOK, Exchange, FollowsScan, [Next]_vars
    PROVE  /\ \A p \in Paths : base'[p] \in {base[p], savedBase[p], seen[p], None}
           /\ savedBase' \in {savedBase, base}
<1>0. TreesType /\ SenderType
  BY TypeParts
<1>1. savedBase' \in {savedBase, base}
  BY DEF Next, vars, Sender, Scan, Guard, Connect, Pinged, Plan, SendNext, Answered, Disconnected,
         PushAcl, AclPushed, SaveRemoteBaseline, SaveRetry, Handle, Panic, Drop, CrashReceiver,
         StartReceiver, CrashSender, BackoffOver, Approve, Unmount, Mount, User, UserStep, store
<1>2. \/ base' = base \/ base' = savedBase
      \/ pc = "wait" /\ base' = ApplyToBaseline(base, cur)
  BY DEF Next, vars, Sender, Scan, Guard, Connect, Pinged, Plan, SendNext, Answered, Disconnected,
         PushAcl, AclPushed, SaveRemoteBaseline, SaveRetry, Handle, Panic, Drop, CrashReceiver,
         StartReceiver, CrashSender, BackoffOver, Approve, Unmount, Mount, User, UserStep, memory,
         OpFailed, OpDone
<1>3. ASSUME pc = "wait", base' = ApplyToBaseline(base, cur), NEW p \in Paths
      PROVE  base'[p] \in {base[p], seen[p], None}
  <2>1. cur.kind \in {"copy", "delete"} /\ cur.path \in Paths
    BY <1>0, <1>3 DEF Exchange, FollowsScan, SenderType, Op
  <2>2. ApplyToBaseline(base, cur) \in
          {base, Remove(base, cur.path), [base EXCEPT ![cur.path] = seen[cur.path]]}
    BY <2>1 DEF ApplyToBaseline
  <2> QED
    BY <1>0, <1>3, <2>1, <2>2 DEF Remove, TreesType, Tree
<1> QED
  BY <1>1, <1>2, <1>3

\* What is known changes by a version that users write, or by nothing new.
LEMMA KnownStep ==
    ASSUME InPlace, TypeOK, PlainTrees, Exchange, mounted, FollowsScan, [Next]_vars
    PROVE  NoWrite \/ \E q \in Paths, e \in Entry : OneWrite(q, e)
<1>0. TreesType /\ HistoryType
  BY TypeParts
<1>1. /\ \A p \in Paths : base'[p] \in {base[p], savedBase[p], seen[p], None}
      /\ savedBase' \in {savedBase, base}
  BY BaselineMoves
<1>2. \A p \in Paths : seen'[p] \in {seen[p], primary[p], None}
  <2>1. seen' = seen \/ seen' = Visible \/ seen' = EmptyTree
    BY DEF Next, vars, Sender, Scan, Guard, Connect, Pinged, Plan, SendNext, Answered, Disconnected,
           PushAcl, AclPushed, SaveRemoteBaseline, SaveRetry, Handle, Panic, Drop, CrashReceiver,
           StartReceiver, CrashSender, BackoffOver, Approve, Unmount, Mount, User, UserStep, memory,
           GoIdle
  <2> QED
    BY <2>1 DEF Visible, EmptyTree
<1>3. ASSUME NEW q \in Paths, NEW e \in Entry, edits' = edits + 1, Ancestors(q) = {},
             primary' = [primary EXCEPT ![q] = e],
             e = File(edits + 1, "primary", edits + 1) \/ (LinksMade /\ \E v : e = Symlink(v))
      PROVE  OneWrite(q, e)
  <2>1. \A p \in Paths : primary'[p] = IF p = q THEN e ELSE primary[p]
    BY <1>0, <1>3 DEF TreesType, Tree
  <2>2. \A p \in Paths : Known(p)' \subseteq Known(p) \cup {None} \cup (IF p = q THEN {e} ELSE {})
    BY <1>1, <1>2, <2>1 DEF Known
  <2> QED
    BY <1>3, <2>1, <2>2 DEF OneWrite
<1>4. ASSUME edits' \in {edits, edits + 1}, \A p \in Paths : primary'[p] \in {primary[p], None} PROVE NoWrite
  BY <1>1, <1>2, <1>4 DEF NoWrite, Known
<1>5. CASE User
  <2>1. PICK p \in OriginalPaths :
          /\ edits' = edits + 1 /\ edits < MaxVersion
          /\ \/ /\ ParentExists(primary, p)
                /\ \/ primary' = [primary EXCEPT ![p] = File(edits + 1, "primary", edits + 1)]
                   \/ \E v \in 1..(edits + 1) : LinksMade /\ primary' = [primary EXCEPT ![p] = Symlink(v)]
             \/ primary' = RemoveAll(primary, p)
    BY <1>5 DEF User, UserStep, InPlace, FilesAndLinks, LinksMade
  <2>2. p \in Paths /\ edits + 1 \in Versions /\ 1..(edits + 1) \subseteq Versions
    BY <1>0, <2>1, BoundsAssumption DEF OriginalPaths, HistoryType, Versions
  <2>3. ParentExists(primary, p) => Ancestors(p) = {}
    BY <2>2, PathsAssumption DEF ParentExists, PlainTrees, Plain
  <2>4. File(edits + 1, "primary", edits + 1) \in Entry /\ \A v \in 1..(edits + 1) : Symlink(v) \in Entry
    BY <2>2, EntryTypes, TwoTrees
  <2>5. CASE primary' = RemoveAll(primary, p)
    <3>1. \A q \in Paths : primary'[q] \in {primary[q], None}
      BY <2>5 DEF RemoveAll
    <3> QED
      BY <1>4, <2>1, <2>2, <3>1
  <2> QED
    BY <1>3, <2>1, <2>2, <2>3, <2>4, <2>5
<1>6. CASE primary' = primary /\ edits' = edits
  BY <1>0, <1>4, <1>6 DEF HistoryType
<1>7. User \/ (primary' = primary /\ edits' = edits)
  BY DEF Next, vars, Sender, Scan, Guard, Connect, Pinged, Plan, SendNext, Answered, Disconnected,
         PushAcl, AclPushed, SaveRemoteBaseline, SaveRetry, Handle, Panic, Drop, CrashReceiver,
         StartReceiver, CrashSender, BackoffOver, Approve, Unmount, Mount, env
<1> QED
  BY <1>5, <1>6, <1>7

\* A version of a file is written once, at one path; no file that was replaced becomes
\* current.
LEMMA AuthenticStep ==
    ASSUME TypeOK, Authentic, OnePath, NoWrite \/ \E q \in Paths, e \in Entry : OneWrite(q, e)
    PROVE  /\ Authentic' /\ OnePath'
           /\ \A p \in Paths : \A e \in Known(p) : Current(p, e)' => Current(p, e)
<1>0. edits \in Nat
  BY TypeParts, BoundsAssumption DEF HistoryType
<1>1. \A p \in Paths : \A e : edits' \in {edits, edits + 1} /\ Written(p, e) => Written(p, e)'
  BY <1>0 DEF Written
<1>2. CASE NoWrite
  <2>1. edits' \in {edits, edits + 1} /\ \A p \in Paths : Known(p)' \subseteq Known(p) \cup {None}
    BY <1>2 DEF NoWrite
  <2>2. Authentic'
    BY <1>1, <2>1 DEF Authentic
  <2>3. OnePath'
    BY <2>1 DEF OnePath, None
  <2>4. \A p \in Paths : \A e \in Known(p) : Current(p, e)' => Current(p, e)
    BY <1>2 DEF NoWrite, Current, SameIdentity, Authentic, Written, None
  <2> QED
    BY <2>2, <2>3, <2>4
<1>3. ASSUME NEW q \in Paths, NEW e \in Entry, OneWrite(q, e)
      PROVE  /\ Authentic' /\ OnePath'
             /\ \A p \in Paths : \A f \in Known(p) : Current(p, f)' => Current(p, f)
  <2>1. /\ edits' = edits + 1 /\ Ancestors(q) = {}
        /\ \/ e.type = "file" /\ e.ver = edits + 1 /\ e.ino = e.ver
           \/ e.type = "symlink" /\ LinksMade
    BY <1>3 DEF OneWrite, File, Symlink
  <2>2. \A p \in Paths : \A f \in Known(p)' : f \in Known(p) \/ f = None \/ (f = e /\ p = q)
    BY <1>3 DEF OneWrite
  <2>3. Written(q, e)'
    BY <1>0, <2>1 DEF Written
  <2>4. Authentic'
    BY <1>0, <1>1, <2>1, <2>2, <2>3 DEF Authentic
  <2>5. \A p \in Paths : \A f \in Known(p) : f.type = "file" => f.ver \in 1..edits
    BY DEF Authentic, Written, None
  <2>6. \A p \in Paths : \A f \in Known(p) : f.type = "file" /\ e.type = "file" => f.ver # e.ver
    BY <1>0, <2>1, <2>5
  <2>7. OnePath'
    BY <2>2, <2>6 DEF OnePath, None
  <2>8. \A p \in Paths : \A f \in Known(p) : Current(p, f)' => Current(p, f)
    BY <1>3, <2>1, <2>6 DEF OneWrite, Current, SameIdentity
  <2> QED
    BY <2>4, <2>7, <2>8
<1> QED
  BY <1>2, <1>3


\* When every version of a file is at one path, a plan copies what was seen and deletes what was
\* not: there is no rename to detect.
LEMMA PlanFollowsScan ==
    ASSUME TypeOK, Authentic, OnePath, NEW op \in MergeOps(base, seen, base, 0)
    PROVE  op.kind = IF seen[op.path] = None THEN "delete" ELSE "copy"
<1>0. base \in Tree /\ seen \in Tree
  BY TypeParts DEF TreesType
<1>1. \A p \in Paths : Verdict(base[p], seen[p], base[p]) \in {"keep", "toSecondary"}
  BY DEF Verdict, SameIdentity
<1>2. \A p \in Paths : \A e \in {base[p], seen[p]} :
         /\ e = None \/ e.type \in {"file", "symlink"}
         /\ e.type = "file" => e.ino = e.ver /\ e # None
  BY DEF Authentic, Known, Written, None
<1>3. \A n \in Paths : seen[n].type = "file" /\ base[n] = None => Vanished(base, seen, seen[n]) = {}
  <2> SUFFICES ASSUME NEW n \in Paths, seen[n].type = "file", base[n] = None,
                      NEW o \in Vanished(base, seen, seen[n])
               PROVE  FALSE
    OBVIOUS
  <2>1. o \in Paths /\ base[o].type = "file" /\ base[o].ino = seen[n].ino
    BY DEF Vanished
  <2>2. base[o] # None /\ seen[n] # None /\ base[o].ver = seen[n].ver
    BY <1>2, <2>1
  <2>3. o = n
    BY <2>1, <2>2 DEF OnePath, Known
  <2> QED
    BY <2>2, <2>3
<1>4. RenamePairs(base, seen, base) = {}
  BY <1>3 DEF RenamePairs, Reappeared
<1>5. RenamePairs(base, base, seen) = {}
  BY DEF RenamePairs, Reappeared, None
<1>6. CASE op \in RenameOps(base, seen, base)
  BY <1>4, <1>5, <1>6 DEF RenameOps
<1>7. ASSUME NEW p \in Paths, op \in PathOps(p, 0, base[p], seen[p], base[p])
      PROVE  op.kind = IF seen[op.path] = None THEN "delete" ELSE "copy"
  <2>1. op \in Propagate("secondary", p, seen[p], base[p])
    BY <1>1, <1>7 DEF PathOps
  <2>2. base[p].type # "dir" /\ seen[p].type # "dir"
    BY <1>2 DEF None
  <2>3. op.path = p /\ op.kind = IF seen[p] = None THEN "delete" ELSE "copy"
    BY <2>1, <2>2 DEF Propagate, MkOp, DelKind, CreateKind
  <2> QED
    BY <2>3
<1> QED
  BY <1>6, <1>7 DEF MergeOps

\* The batch goes on copying what was seen and deleting what was not.
LEMMA FollowsScanStep ==
    ASSUME TypeOK, Sendable, Exchange, Authentic, OnePath, FollowsScan, [Next]_vars
    PROVE  FollowsScan'
<1>1. seen' = seen \/ todo' = {}
  BY DEF Next, vars, Sender, Scan, Guard, Connect, Pinged, Plan, SendNext, Answered, Disconnected,
         PushAcl, AclPushed, SaveRemoteBaseline, SaveRetry, Handle, Panic, Drop, CrashReceiver,
         StartReceiver, CrashSender, BackoffOver, Approve, Unmount, Mount, User, UserStep, memory,
         sending, GoIdle, Exchange
<1>2. \A op \in MergeOps(base, seen, base, 0) :
         op.kind = IF seen[op.path] = None THEN "delete" ELSE "copy"
  BY PlanFollowsScan
<1> QED
  BY <1>1, <1>2, TodoShrinks DEF FollowsScan

\* What the primary has of the baseline was there when it was scanned.
LEMMA SeenStep ==
    ASSUME TypeOK, mounted, Exchange, Authentic, FollowsScan, SeenIfCurrent, [Next]_vars,
           \A p \in Paths : \A e \in Known(p) : Current(p, e)' => Current(p, e)
    PROVE  SeenIfCurrent'
<1>1. CASE Scan
  <2>1. seen' = primary /\ UNCHANGED <<primary, base, savedBase>>
    BY <1>1 DEF Scan, Visible, memory, store
  <2> QED
    BY <2>1 DEF SeenIfCurrent, Current
<1>2. CASE pc # "idle" /\ seen' = seen
  <2> SUFFICES ASSUME NEW p \in Paths, NEW e \in {base'[p], savedBase'[p]}, Current(p, e)'
               PROVE  SameIdentity(seen[p], e)
    BY <1>2 DEF SeenIfCurrent
  <2>1. e \in {base[p], savedBase[p], seen[p], None}
    BY BaselineMoves
  <2>2. e # None
    BY DEF Current, None
  <2>3. e \in Known(p)
    BY <2>1, <2>2 DEF Known
  <2>4. Current(p, e)
    BY <2>3
  <2>5. e = seen[p] => SameIdentity(seen[p], e)
    BY DEF SameIdentity
  <2> QED
    BY <1>2, <2>1, <2>2, <2>4, <2>5 DEF SeenIfCurrent
<1>3. Scan \/ pc' = "idle" \/ (pc # "idle" /\ seen' = seen)
  BY DEF Next, vars, Sender, Guard, Connect, Pinged, Plan, SendNext, Answered, Disconnected,
         PushAcl, AclPushed, SaveRemoteBaseline, SaveRetry, Handle, Panic, Drop, CrashReceiver,
         StartReceiver, CrashSender, BackoffOver, Approve, Unmount, Mount, User, UserStep, memory,
         GoIdle
<1> QED
  BY <1>1, <1>2, <1>3 DEF SeenIfCurrent

\* The stat before the first frame of a file is that of the version scanned, unless users
\* have replaced it.
LEMMA StatStep ==
    ASSUME TypeOK, mounted, StatIsCurrent, [Next]_vars,
           \A p \in Paths : \A e \in Known(p) : Current(p, e)' => Current(p, e)
    PROVE  StatIsCurrent'
<1>0. SenderType
  BY TypeParts
<1>1. CASE SendNext
  <2>1. UNCHANGED <<primary, seen>>
    BY <1>1 DEF SendNext
  <2>2. \/ pc' # "wait"
        \/ \E op \in todo :
              /\ cur' = op
              /\ phase' = IF IsFileCopy(op) THEN "begin" ELSE "op"
              /\ stat0' = IF IsFileCopy(op) THEN primary[op.path].ver ELSE 0
    BY <1>1 DEF SendNext, OpFailed, Visible
  <2>3. \A op : IsFileCopy(op)' <=> IsFileCopy(op)
    BY <2>1 DEF IsFileCopy
  <2> QED
    BY <2>1, <2>2 DEF StatIsCurrent, IsFileCopy, Current, SameIdentity
<1>2. CASE Answered
  <2>1. UNCHANGED <<primary, seen>> /\ pc = "wait"
    BY <1>2 DEF Answered
  <2>2. \/ pc' # "wait"
        \/ phase \in {"begin", "data"} /\ phase' \in {"data", "end", "torn"} /\ UNCHANGED <<cur, stat0>>
    BY <1>2 DEF Answered, OpDone, OpFailed
  <2> QED
    BY <2>1, <2>2 DEF StatIsCurrent, IsFileCopy, Current
<1>3. CASE UNCHANGED <<pc, cur, phase, stat0, seen>>
  <2>1. cur.path \in Paths
    BY <1>0 DEF SenderType, Op
  <2>2. Current(cur.path, seen[cur.path])' => Current(cur.path, seen[cur.path])
    <3> DEFINE p == cur.path
               e == seen[cur.path]
    <3>1. e \in Known(p) /\ p \in Paths
      BY <2>1 DEF Known
    <3>2. Current(p, e)' <=> /\ e.type = "file" /\ primary'[p].type = "file"
                             /\ primary'[p].ver = e.ver
      BY <1>3 DEF Current, SameIdentity
    <3> QED
      BY <1>3, <3>1 DEF Current
  <2> QED
    BY <1>3, <2>2 DEF StatIsCurrent, IsFileCopy
<1>4. SendNext \/ Answered \/ pc' # "wait" \/ UNCHANGED <<pc, cur, phase, stat0, seen>>
  <2>1. CASE Sender /\ ~ SendNext /\ ~ Answered
    <3>1. CASE Scan \/ Plan \/ Disconnected
      BY <3>1 DEF Scan, Plan, Disconnected, GoIdle, OpFailed
    <3>2. CASE Guard \/ Connect \/ Pinged \/ PushAcl \/ AclPushed
      BY <3>2 DEF Guard, Connect, Pinged, PushAcl, AclPushed, GoIdle
    <3>3. CASE SaveRemoteBaseline \/ SaveRetry
      BY <3>3 DEF SaveRemoteBaseline, SaveRetry, GoIdle
    <3> QED
      BY <2>1, <3>1, <3>2, <3>3 DEF Sender
  <2>2. CASE User
    BY <2>2, UserChanges DEF memory, sending
  <2>3. CASE ~ Sender /\ ~ User
    BY <2>3 DEF Next, vars, Handle, Panic, Drop, CrashReceiver, StartReceiver, CrashSender,
                BackoffOver, Approve, Unmount, Mount, memory, sending, GoIdle
  <2> QED
    BY <2>1, <2>2, <2>3
<1> QED
  BY <1>1, <1>2, <1>3, <1>4 DEF StatIsCurrent


\* While an operation is sent, the receiver handles the frame of it that has no answer.
LEMMA CurrentFrame ==
    ASSUME TypeOK, Sendable, Exchange, Handle, pc = "wait"
    PROVE  /\ link = "up" /\ acks = <<>> /\ Head(wire) = CurFrame /\ CurFrame \in Frame
           /\ cur \in todo /\ cur.path \in Paths
<1>0. NetType /\ SenderType
  BY TypeParts
<1>1. link = "up" /\ wire # <<>>
  BY DEF Handle
<1>2. wire = <<CurFrame>> /\ acks = <<>>
  BY <1>1 DEF Exchange, Posted, Replied
<1>3. Head(wire) \in Frame /\ Head(wire) = CurFrame
  BY <1>0, <1>1, <1>2 DEF NetType
<1> QED
  BY <1>0, <1>1, <1>2, <1>3 DEF Exchange, SenderType, Op

\* The acknowledgement of a frame, when it is the first under way.
LEMMA FirstAnswer ==
    /\ \A b \in BOOLEAN : Append(<<>>, b) # <<>> /\ Head(Append(<<>>, b)) = b
<1>1. \A S : \A x \in S : Append(<<>>, x) # <<>> /\ Head(Append(<<>>, x)) = x
  OBVIOUS
<1> QED
  BY <1>1, Zenon

\* What the frame of an operation does, where there are no directories: the path of the
\* operation only, and what the answer says.
LEMMA CurrentFrameDoes ==
    ASSUME TypeOK, Sendable, Exchange, Authentic, FollowsScan, StatIsCurrent, AnswersAreTrue,
           Handle, pc = "wait"
    PROVE  LET p == cur.path
           IN  /\ \A q \in Paths \ {p} : remote'[q] = remote[q]
               /\ cur.kind = "delete" => remote'[p] \in {remote[p], None}
               /\ cur.kind = "copy" /\ phase = "op" =>
                     remote'[p] = remote[p] \/ SameIdentity(remote'[p], seen[p])
               /\ phase \in {"begin", "data", "torn"} => remote' = remote
               /\ phase = "end" =>
                     /\ \/ remote'[p] = remote[p]
                        \/ remote'[p].type = "file" /\ remote'[p].ver = stat0
                     /\ Accepted' => remote'[p].type = "file" /\ remote'[p].ver = stat0
               /\ (phase \in {"data", "end", "torn"} \/ (phase = "begin" /\ Accepted')) =>
                     (tmp'.open => tmp'.path = p)
<1> DEFINE p == cur.path
           f == CurFrame
           done == Handled(f, remote, tmp)
<1>0. TreesType /\ NetType /\ SenderType
  BY TypeParts
<1>1. /\ Head(wire) = f /\ f \in Frame /\ acks = <<>> /\ link = "up" /\ p \in Paths
      /\ cur \in todo /\ cur.kind = IF seen[p] = None THEN "delete" ELSE "copy"
  BY CurrentFrame DEF FollowsScan
<1>2. done.ok \in BOOLEAN
  BY <1>0, <1>1, HandledType
<1>3. \/ remote' = done.tree /\ tmp' = done.tmp /\ acks' = Append(<<>>, done.ok)
      \/ remote' = remote /\ acks' = Append(<<>>, FALSE) /\ tmp' \in {tmp, NoTmp}
  BY <1>1 DEF Handle
<1>4. Accepted' => remote' = done.tree /\ tmp' = done.tmp /\ done.ok
  <2>1. acks' = Append(<<>>, FALSE) => ~ Accepted'
    BY FirstAnswer, Zenon DEF Accepted
  <2>2. acks' = Append(<<>>, done.ok) /\ Accepted' => done.ok
    BY <1>2, FirstAnswer, Zenon DEF Accepted
  <2> QED
    BY <1>3, <2>1, <2>2, Zenon
<1>5. ~ NoTmp.open
  BY DEF NoTmp
<1> HIDE DEF f
<1>6. CASE cur.kind = "delete"
  <2>1. phase = "op" /\ f.kind = "delete" /\ f.path = p
    BY <1>6 DEF StatIsCurrent, IsFileCopy, f, CurFrame, FirstFrame, MkFrame
  <2>2. done.tree \in {remote, Remove(remote, p)}
    BY <2>1 DEF Handled, Outcome
  <2>3. remote' = remote \/ remote' = Remove(remote, p)
    BY <1>3, <2>2
  <2> QED
    BY <1>0, <1>1, <1>6, <2>1, <2>3 DEF Remove, TreesType, Tree
<1>7. CASE cur.kind = "copy"
  <2>1. /\ seen[p] # None /\ Ancestors(p) = {} /\ seen[p].type \in {"file", "symlink"}
        /\ IsFileCopy(cur) <=> seen[p].type = "file"
    BY <1>1, <1>7 DEF Authentic, Known, Written, IsFileCopy
  <2>2. \A t : MkParent(t, p) = [q \in Paths |-> t[q]] /\ CanMkParent(t, p)
    BY <2>1 DEF MkParent, CanMkParent
  <2>3. CASE seen[p].type = "symlink"
    <3>1. phase = "op" /\ f = MkFrame("symlink", p, p, seen[p].ver)
      BY <1>7, <2>1, <2>3 DEF StatIsCurrent, f, CurFrame, FirstFrame
    <3> DEFINE v == seen[p].ver
               u == IF CanRemove(remote, p) THEN Remove(remote, p) ELSE remote
    <3>2. done = MakeLink(remote, p, v)
      BY <3>1 DEF Handled, MkFrame
    <3>3. u \in Tree
      BY <1>0, <1>1, TreeTypes DEF TreesType
    <3>4. MkParent(u, p) = u
      <4> HIDE DEF u
      <4> QED
        BY <2>2, <3>3 DEF Tree
    <3>5. /\ \A q \in Paths \ {p} : u[q] = remote[q]
          /\ u[p] = None \/ u[p] = remote[p]
      BY <1>0, <1>1 DEF Remove, TreesType, Tree
    <3>6. CanMkParent(u, p)
      BY <2>2
    <3>7. done = IF u[p] = None THEN Outcome(TRUE, [u EXCEPT ![p] = Symlink(v)], tmp)
                                ELSE Outcome(FALSE, u, tmp)
      <4>1. MakeLink(remote, p, v) =
              LET w == IF CanMkParent(u, p) THEN MkParent(u, p) ELSE u
              IN  IF CanMkParent(u, p) /\ w[p] = None
                    THEN Outcome(TRUE, [w EXCEPT ![p] = Symlink(v)], tmp)
                    ELSE Outcome(FALSE, w, tmp)
        BY DEF MakeLink
      <4> HIDE DEF u
      <4> QED
        BY <3>2, <3>4, <3>6, <4>1
    <3> HIDE DEF u
    <3>8. /\ \A q \in Paths \ {p} : done.tree[q] = remote[q]
          /\ done.ok => done.tree[p] = Symlink(v)
          /\ done.tree[p] \in {remote[p], Symlink(v)}
      BY <1>1, <3>3, <3>5, <3>7 DEF Outcome, Tree
    <3>9. SameIdentity(Symlink(v), seen[p])
      BY <2>3 DEF SameIdentity, Symlink
    <3> HIDE DEF done
    <3> QED
      BY <1>3, <1>4, <1>7, <3>1, <3>8, <3>9
  <2>4. CASE seen[p].type = "file"
    <3>1. phase \in {"begin", "data", "end", "torn"}
      BY <2>1, <2>4 DEF StatIsCurrent
    <3>2. (phase \in {"data", "end", "torn"}) => (tmp.open => tmp.path = p)
      BY <1>1 DEF AnswersAreTrue
    <3>3. CASE phase = "begin"
      <4>1. f = MkFrame("fileBegin", p, p, 0)
        BY <1>7, <2>4, <3>3 DEF f, CurFrame, FirstFrame
      <4>2. done = Outcome(TRUE, MkParent(remote, p), Tmp(p, 0))
        BY <2>2, <4>1 DEF Handled, MkFrame, BeginFile
      <4>3. done.tree = remote /\ done.tmp.path = p
        BY <1>0, <2>2, <4>2 DEF Outcome, Tmp, TreesType, Tree
      <4> QED
        BY <1>3, <1>4, <1>7, <3>3, <4>3
    <3>4. CASE phase = "data"
      <4>1. f = MkFrame("fileData", p, p, stat0)
        BY <3>4 DEF f, CurFrame
      <4>2. done.tree = remote /\ done.tmp.path = tmp.path /\ (done.tmp.open => tmp.open)
        BY <4>1 DEF Handled, MkFrame, Outcome, Tmp
      <4> QED
        BY <1>3, <1>5, <1>7, <3>2, <3>4, <4>2
    <3>5. CASE phase = "torn"
      <4>1. f = MkFrame("fileEnd", p, p, 0)
        BY <3>5 DEF f, CurFrame
      <4>2. ~ tmp.open
        BY <1>1, <4>1 DEF Handle, Panics, MkFrame
      <4>3. done.tree = remote /\ done.tmp = tmp
        BY <4>1, <4>2 DEF Handled, MkFrame, Outcome
      <4> QED
        BY <1>3, <1>5, <1>7, <3>5, <4>2, <4>3
    <3>6. CASE phase = "end"
      <4>1. f = MkFrame("fileEnd", p, p, stat0)
        BY <3>6 DEF f, CurFrame
      <4>2. done = IF tmp.open THEN FinishFile(remote, tmp, stat0) ELSE Outcome(FALSE, remote, tmp)
        BY <4>1 DEF Handled, MkFrame
      <4>3. tmp.open => tmp.path = p
        BY <3>2, <3>6
      <4>4. /\ \A q \in Paths \ {p} : done.tree[q] = remote[q]
            /\ done.ok => done.tree[p].type = "file" /\ done.tree[p].ver = stat0
            /\ \/ done.tree[p] = remote[p]
               \/ done.tree[p].type = "file" /\ done.tree[p].ver = stat0
        <5>1. CASE done.tree = remote /\ ~ done.ok
          BY <5>1
        <5>2. CASE done.tree = [remote EXCEPT ![p] = File(stat0, "remote", stat0)]
          BY <1>0, <1>1, <5>2 DEF File, TreesType, Tree
        <5>3. \/ done = Outcome(TRUE, [remote EXCEPT ![p] = File(stat0, "remote", stat0)], NoTmp)
              \/ done = Outcome(FALSE, remote, NoTmp)
              \/ done = Outcome(FALSE, remote, tmp)
          BY <4>2, <4>3 DEF FinishFile
        <5>4. \A ok, t, x : Outcome(ok, t, x).ok = ok /\ Outcome(ok, t, x).tree = t
          BY DEF Outcome
        <5>5. \/ done.tree = remote /\ ~ done.ok
              \/ done.tree = [remote EXCEPT ![p] = File(stat0, "remote", stat0)]
          <6> DEFINE written == [remote EXCEPT ![p] = File(stat0, "remote", stat0)]
          <6> HIDE DEF done, written
          <6>1. ASSUME done = Outcome(TRUE, written, NoTmp) PROVE done.tree = written
            BY <5>4, <6>1
          <6>2. ASSUME NEW x, done = Outcome(FALSE, remote, x)
                PROVE  done.tree = remote /\ ~ done.ok
            BY <5>4, <6>2
          <6> QED
            BY <5>3, <6>1, <6>2 DEF written
        <5> QED
          BY <5>1, <5>2, <5>5
      <4>5. done.tmp.open => done.tmp.path = p
        BY <1>5, <4>2, <4>3 DEF FinishFile, Outcome
      <4> HIDE DEF done
      <4> QED
        BY <1>3, <1>4, <1>5, <1>7, <3>2, <3>6, <4>4, <4>5
    <3> QED
      BY <3>1, <3>3, <3>4, <3>5, <3>6
  <2> QED
    BY <2>1, <2>3, <2>4
<1> QED
  BY <1>1, <1>6, <1>7


\* Whatever comes, an answer that the sender accepts tells what the receiver has.
LEMMA AnswersStep ==
    ASSUME TypeOK, Sendable, Exchange, Exchange', Authentic, FollowsScan, StatIsCurrent,
           AnswersAreTrue, [Next]_vars
    PROVE  AnswersAreTrue'
<1>0. NetType /\ SenderType /\ TreesType
  BY TypeParts
<1>1. ASSUME acks' = <<>>,
             phase' \in {"data", "end", "torn"} => (tmp'.open => tmp'.path = cur'.path)
      PROVE  AnswersAreTrue'
  BY <1>1 DEF AnswersAreTrue, Accepted
<1>2. CASE SendNext
  <2>1. acks' = <<>>
    BY <1>2 DEF SendNext, Exchange, Still
  <2>2. pc' # "wait" \/ phase' \in {"op", "begin"}
    BY <1>2 DEF SendNext, OpFailed
  <2> QED
    BY <1>1, <2>1, <2>2 DEF AnswersAreTrue
<1>3. CASE Answered /\ pc' = "wait"
  <2>1. /\ pc = "wait" /\ Accepted /\ phase \in {"begin", "data"}
        /\ acks' = Tail(acks) /\ UNCHANGED <<tmp, cur, link>>
    BY <1>3, Zenon DEF Answered, OpDone, OpFailed, Accepted, receiver
  <2>2. link = "up" /\ acks' = <<>>
    <3>1. link = "up" /\ Len(acks) = 1
      BY <2>1 DEF Exchange, Still, Posted, Replied, Accepted
    <3> QED
      BY <1>0, <2>1, <3>1, ShortQueues DEF NetType
  <2>3. tmp.open => tmp.path = cur.path
    BY <2>1, <2>2 DEF AnswersAreTrue
  <2> QED
    BY <1>1, <2>1, <2>2, <2>3
<1>4. CASE Handle /\ pc = "wait"
  <2>1. UNCHANGED <<pc, link, phase, stat0, cur, seen>>
    BY <1>4 DEF Handle, memory, sending
  <2>2. (phase \in {"data", "end", "torn"} \/ (phase = "begin" /\ Accepted')) =>
            (tmp'.open => tmp'.path = cur.path)
    BY <1>4, CurrentFrameDoes
  <2>3. phase = "end" /\ Accepted' =>
            remote'[cur.path].type = "file" /\ remote'[cur.path].ver = stat0
    BY <1>4, CurrentFrameDoes
  <2> QED
    BY <2>1, <2>2, <2>3 DEF AnswersAreTrue
<1>5. CASE UNCHANGED <<pc, link, phase, acks, tmp, cur, remote, stat0, seen>>
  BY <1>5 DEF AnswersAreTrue, Accepted
<1>6. \/ SendNext \/ (Answered /\ pc' = "wait") \/ (Handle /\ pc = "wait")
      \/ pc' # "wait" \/ link' # "up"
      \/ UNCHANGED <<pc, link, phase, acks, tmp, cur, remote, stat0, seen>>
  <2>1. CASE Sender /\ ~ SendNext /\ ~ Answered
    BY <2>1 DEF Sender, Scan, Guard, Connect, Pinged, Plan, Disconnected, PushAcl, AclPushed,
                SaveRemoteBaseline, SaveRetry, GoIdle, OpFailed
  <2>2. CASE Handle
    BY <2>2 DEF Handle
  <2>3. CASE Panic \/ Drop \/ CrashReceiver \/ CrashSender
    BY <2>3 DEF Panic, Drop, CrashReceiver, CrashSender, Closed
  <2>4. CASE User
    BY <2>4, UserChanges DEF memory, sending, net, receiver
  <2>5. CASE \/ StartReceiver \/ (\E p \in Paths : BackoffOver(p))
             \/ Approve \/ Unmount \/ Mount \/ UNCHANGED vars
    <3>1. UNCHANGED <<pc, memory, link, acks>> \/ UNCHANGED <<pc, seen, base, sending, link, acks>>
      BY <2>5 DEF StartReceiver, BackoffOver, Approve, Unmount, Mount, vars, net
    <3>2. UNCHANGED <<tmp, remote>>
      BY <2>5 DEF StartReceiver, BackoffOver, Approve, Unmount, Mount, vars, receiver
    <3> QED
      BY <3>1, <3>2 DEF memory, sending
  <2> QED
    BY <2>1, <2>2, <2>3, <2>4, <2>5 DEF Next, Sender
<1> QED
  BY <1>2, <1>3, <1>4, <1>5, <1>6 DEF AnswersAreTrue

\* The receiver changes a file that is still current into itself only.
LEMMA HandleKeepsStored ==
    ASSUME TypeOK, Sendable, Exchange, Authentic, FollowsScan, SeenIfCurrent, StatIsCurrent,
           AnswersAreTrue, Stored, Handle
    PROVE  Stored'
<1>0. TreesType
  BY TypeParts
<1>1. UNCHANGED <<primary, base, savedBase>>
  BY DEF Handle, memory, store
<1>2. CASE pc = "wait"
  <2> SUFFICES ASSUME NEW q \in Paths, NEW e \in {base[q], savedBase[q]}, Current(q, e)
               PROVE  SameIdentity(remote'[q], e)
    BY <1>1 DEF Stored, Current
  <2> DEFINE p == cur.path
  <2>1. SameIdentity(remote[q], e)
    BY DEF Stored
  <2>2. SameIdentity(seen[q], e) /\ e # None /\ e.type = "file"
    BY <1>2 DEF SeenIfCurrent, Current, None
  <2>3. /\ \A x \in Paths \ {p} : remote'[x] = remote[x]
        /\ cur.kind = "delete" => remote'[p] \in {remote[p], None}
        /\ cur.kind = "copy" /\ phase = "op" =>
              remote'[p] = remote[p] \/ SameIdentity(remote'[p], seen[p])
        /\ phase \in {"begin", "data", "torn"} => remote' = remote
        /\ phase = "end" => \/ remote'[p] = remote[p]
                            \/ remote'[p].type = "file" /\ remote'[p].ver = stat0
    BY <1>2, CurrentFrameDoes
  <2>4. cur \in todo /\ p \in Paths /\ cur.kind = IF seen[p] = None THEN "delete" ELSE "copy"
    BY <1>2, CurrentFrame DEF FollowsScan
  <2>5. CASE q = p
    <3>1. cur.kind = "copy"
      BY <2>2, <2>4, <2>5 DEF SameIdentity, None
    <3>2. Current(p, seen[p])
      BY <2>2, <2>4, <2>5, <3>1 DEF Current, SameIdentity
    <3>3. IsFileCopy(cur) => stat0 = seen[p].ver
      BY <1>2, <3>2 DEF StatIsCurrent
    <3>4. phase = "end" => IsFileCopy(cur)
      BY <1>2 DEF StatIsCurrent
    <3>5. phase \in {"op", "begin", "data", "end", "torn"}
      BY TypeParts DEF SenderType, Phases
    <3> QED
      BY <2>1, <2>2, <2>3, <2>5, <3>1, <3>3, <3>4, <3>5 DEF SameIdentity, IsFileCopy
  <2> QED
    BY <2>1, <2>3, <2>5
<1>3. CASE pc # "wait"
  <2>1. Head(wire).kind \in {"ping", "aclCSV"}
    <3>1. link = "up" /\ wire # <<>>
      BY DEF Handle
    <3>2. wire = <<Bare("ping")>> \/ wire = <<Bare("aclCSV")>>
      BY <1>3, <3>1 DEF Exchange, Posted, Replied, Still
    <3> QED
      BY <3>2 DEF Bare, MkFrame
  <2>2. remote' = remote
    BY <2>1 DEF Handle, Handled, Outcome
  <2> QED
    BY <1>1, <2>2 DEF Stored, Current
<1> QED
  BY <1>2, <1>3

\* What is recorded as stored, and still current, is stored.
LEMMA StoredStep ==
    ASSUME TypeOK, Sendable, Exchange, Authentic, FollowsScan, SeenIfCurrent, StatIsCurrent,
           AnswersAreTrue, Stored, [Next]_vars,
           \A p \in Paths : \A e \in Known(p) : Current(p, e)' => Current(p, e)
    PROVE  Stored'
<1>0. TreesType /\ SenderType
  BY TypeParts
<1>1. CASE Handle
  BY <1>1, HandleKeepsStored
<1>2. ASSUME remote' = remote, NEW q \in Paths, NEW e \in {base[q], savedBase[q]}, Current(q, e)'
      PROVE  SameIdentity(remote'[q], e)
  <2>1. Current(q, e)
    BY <1>2 DEF Known
  <2> QED
    BY <1>2, <2>1 DEF Stored
<1>3. CASE remote' = remote /\ base' \in {base, savedBase} /\ savedBase' \in {savedBase, base}
  <2> SUFFICES ASSUME NEW q \in Paths, NEW e \in {base'[q], savedBase'[q]}, Current(q, e)'
               PROVE  SameIdentity(remote'[q], e)
    BY DEF Stored
  <2>1. e \in {base[q], savedBase[q]}
    BY <1>3
  <2> QED
    BY <1>2, <1>3, <2>1
<1>4. CASE Answered /\ OpDone(cur)
  <2> SUFFICES ASSUME NEW q \in Paths, NEW e \in {base'[q], savedBase'[q]}, Current(q, e)'
               PROVE  SameIdentity(remote'[q], e)
    BY DEF Stored
  <2> DEFINE p == cur.path
  <2>1. /\ pc = "wait" /\ Accepted /\ phase \in {"op", "end"}
        /\ UNCHANGED <<remote, savedBase, primary>>
        /\ base' = ApplyToBaseline(base, cur)
    <3>1. /\ pc = "wait" /\ acks # <<>>
          /\ \/ Head(acks) /\ phase \in {"op", "end"}
             \/ OpFailed(cur, link)
             \/ phase' \in {"data", "end", "torn"}
          /\ UNCHANGED <<remote, savedBase, primary>>
      BY <1>4, Zenon DEF Answered, receiver, store
    <3>2. phase' = "op" /\ base' = ApplyToBaseline(base, cur) /\ retry' = Clear(retry, p)
      BY <1>4 DEF OpDone
    <3>3. ~ OpFailed(cur, link)
      <4>1. p \in Paths
        BY <1>0 DEF SenderType, Op
      <4>2. Clear(retry, p)[p].waiting = FALSE /\ Fail(retry, p)[p].waiting = TRUE
        BY <1>0, <4>1, TypeParts DEF Clear, Fail, StoreType
      <4> QED
        BY <3>2, <4>2 DEF OpFailed
    <3> QED
      BY <3>1, <3>2, <3>3, Zenon DEF Accepted
  <2>2. link = "up" /\ cur \in todo /\ p \in Paths
    BY <1>0, <2>1 DEF Exchange, Still, Accepted, SenderType, Op
  <2>3. cur.kind = IF seen[p] = None THEN "delete" ELSE "copy"
    BY <2>2 DEF FollowsScan
  <2>4. base' \in {Remove(base, p), [base EXCEPT ![p] = seen[p]]} /\ base'[p] = seen[p]
    BY <1>0, <2>1, <2>2, <2>3 DEF ApplyToBaseline, Remove, TreesType, Tree
  <2>5. \A x \in Paths \ {p} : base'[x] = base[x]
    BY <1>0, <2>2, <2>4 DEF Remove, TreesType, Tree
  <2>6. CASE e \in {base[q], savedBase[q]}
    BY <1>2, <2>1, <2>6
  <2>7. CASE q = p /\ e = seen[p]
    <3>1. e.type = "file" /\ cur.kind = "copy" /\ Current(p, seen[p])
      BY <2>1, <2>3, <2>7 DEF Current, None
    <3>2. phase = "end"
      BY <2>1, <2>7, <3>1 DEF StatIsCurrent, IsFileCopy
    <3>3. IsFileCopy(cur) /\ stat0 = seen[p].ver
      BY <2>1, <3>1, <3>2 DEF StatIsCurrent
    <3>4. remote[p].type = "file" /\ remote[p].ver = stat0
      BY <2>1, <2>2, <3>2 DEF AnswersAreTrue
    <3> QED
      BY <2>1, <2>7, <3>3, <3>4 DEF SameIdentity, IsFileCopy
  <2> QED
    BY <2>1, <2>4, <2>5, <2>6, <2>7
<1>5. \/ Handle \/ (Answered /\ OpDone(cur))
      \/ remote' = remote /\ base' \in {base, savedBase} /\ savedBase' \in {savedBase, base}
  <2>1. CASE Sender /\ ~ (Answered /\ OpDone(cur))
    <3>1. remote' = remote
      BY <2>1 DEF Sender, Scan, Guard, Connect, Pinged, Plan, SendNext, Answered, Disconnected,
                  PushAcl, AclPushed, SaveRemoteBaseline, SaveRetry, receiver
    <3>2. base' = base
      <4>1. CASE SendNext \/ Answered \/ Disconnected
        BY <2>1, <4>1 DEF SendNext, Answered, Disconnected, OpFailed
      <4> QED
        BY <2>1, <4>1 DEF Sender, Scan, Guard, Connect, Pinged, Plan, PushAcl, AclPushed,
                          SaveRemoteBaseline, SaveRetry, memory
    <3>3. savedBase' \in {savedBase, base}
      BY <2>1 DEF Sender, Scan, Guard, Connect, Pinged, Plan, SendNext, Answered, Disconnected,
                  PushAcl, AclPushed, SaveRemoteBaseline, SaveRetry, store
    <3> QED
      BY <3>1, <3>2, <3>3
  <2>2. CASE User
    BY <2>2, UserChanges DEF memory, store, receiver
  <2>3. CASE ~ Sender /\ ~ Handle /\ ~ User
    BY <2>3 DEF Next, vars, Panic, Drop, CrashReceiver, StartReceiver, CrashSender, BackoffOver,
                Approve, Unmount, Mount, memory, store, receiver
  <2> QED
    BY <2>1, <2>2, <2>3
<1> QED
  BY <1>1, <1>3, <1>4, <1>5


\* One step of the inductive invariant.
LEMMA StoredInvStep ==
    InPlace /\ TypeOK /\ Sendable /\ PlainTrees /\ Exchange /\ Exchange' /\ StoredInv /\ [Next]_vars
        => StoredInv'
<1> SUFFICES ASSUME InPlace, TypeOK, Sendable, PlainTrees, Exchange, Exchange', StoredInv, [Next]_vars
             PROVE  StoredInv'
  OBVIOUS
<1>0. /\ mounted /\ Authentic /\ OnePath /\ FollowsScan /\ SeenIfCurrent
      /\ StatIsCurrent /\ AnswersAreTrue /\ Stored
  BY Zenon DEF StoredInv
<1>1. mounted'
  <2>1. unmounts \in 0..MaxUnmounts /\ MaxUnmounts = 0
    BY TypeParts DEF HistoryType, InPlace
  <2>2. ~ (unmounts < MaxUnmounts)
    BY <2>1
  <2>3. mounted' = mounted \/ mounted' = TRUE
    BY <2>2, Zenon DEF Next, vars, Sender, Scan, Guard, Connect, Pinged, Plan, SendNext, Answered,
       Disconnected, PushAcl, AclPushed, SaveRemoteBaseline, SaveRetry, Handle, Panic, Drop,
       CrashReceiver, StartReceiver, CrashSender, BackoffOver, Approve, Unmount, Mount, User, UserStep
  <2> QED
    BY <1>0, <2>3, Zenon
<1>2. NoWrite \/ \E q \in Paths, e \in Entry : OneWrite(q, e)
  BY <1>0, KnownStep
<1>3. /\ Authentic' /\ OnePath'
      /\ \A p \in Paths : \A e \in Known(p) : Current(p, e)' => Current(p, e)
  BY <1>0, <1>2, AuthenticStep
<1>4. FollowsScan'
  BY <1>0, FollowsScanStep
<1>5. SeenIfCurrent' /\ StatIsCurrent'
  BY <1>0, <1>3, SeenStep, StatStep
<1>6. AnswersAreTrue'
  BY <1>0, AnswersStep
<1>7. Stored'
  BY <1>0, <1>3, StoredStep
<1> QED
  BY <1>1, <1>3, <1>4, <1>5, <1>6, <1>7, Zenon DEF StoredInv

\* The invariant holds on such a tree as long as the exchange stays in step.
LEMMA StoredForEver ==
    ASSUME InPlace, ~ LoopMarkers
    PROVE  Spec => []StoredInv
<1>0. FilesAndLinks
  BY DEF InPlace
<1>1. Init => Exchange /\ PlainTrees /\ StoredInv
  <2> SUFFICES ASSUME Init PROVE Exchange /\ PlainTrees /\ StoredInv
    OBVIOUS
  <2>1. Exchange /\ PlainTrees
    BY DEF Init, Exchange, Still, PlainTrees, Plain, EmptyTree, None
  <2>2. mounted
    BY Zenon DEF Init
  <2>3. \A p \in Paths : Known(p) = {None} /\ base[p] = None /\ savedBase[p] = None
    BY DEF Init, Known, EmptyTree
  <2>4. Authentic /\ OnePath /\ Stored
    BY <2>3 DEF Authentic, OnePath, Stored, Current, None
  <2>5. FollowsScan /\ SeenIfCurrent /\ StatIsCurrent /\ AnswersAreTrue
    BY DEF Init, FollowsScan, SeenIfCurrent, StatIsCurrent, AnswersAreTrue
  <2> QED
    BY <2>1, <2>2, <2>4, <2>5, Zenon DEF StoredInv
<1>2. TypeOK /\ Sendable /\ Exchange /\ PlainTrees /\ [Next]_vars => (Exchange /\ PlainTrees)'
  BY <1>0, ExchangeStep, PlainStep
<1>3. TypeOK /\ Sendable /\ Exchange /\ Exchange' /\ PlainTrees /\ StoredInv /\ [Next]_vars => StoredInv'
  BY StoredInvStep
<1> QED
  BY <1>1, <1>2, <1>3, PlansAreSent, PTL DEF Spec

\* An acknowledged file that the primary still has is stored.
LEMMA PendingOrStored ==
    ASSUME StoredInv, NEW p \in Paths, NotPending(p), primary[p].type = "file"
    PROVE  SameIdentity(primary[p], remote[p])
<1>1. PICK e \in {base[p], savedBase[p]} : SameIdentity(primary[p], e)
  BY DEF NotPending
<1>2. Current(p, e)
  BY <1>1 DEF Current, SameIdentity
<1>3. SameIdentity(remote[p], e)
  BY <1>2 DEF StoredInv, Stored
<1> QED
  BY <1>1, <1>3 DEF SameIdentity

\* What is not pending is stored (Sender's comment, Pass): on a mounted tree of files and
\* links that nobody renames, a file of the primary that equals its entry in the
\* acknowledged tree, in memory or on disk, is at the receiver, whatever fails, is lost
\* or crashes and however the file changes while it is sent.
THEOREM NotPendingFilesStored ==
    ASSUME InPlace, ~ LoopMarkers
    PROVE  Spec => []NotPendingFilesAreStored
<1>1. StoredInv => NotPendingFilesAreStored
  BY PendingOrStored DEF NotPendingFilesAreStored
<1> QED
  BY <1>1, StoredForEver, PTL

\* The same of every entry of a tree on which users make no links: there what is not
\* pending is stored.
THEOREM NotPendingStored ==
    ASSUME InPlace, ~ LinksMade, ~ LoopMarkers
    PROVE  Spec => []NotPendingIsStored
<1>1. StoredInv => NotPendingIsStored
  <2> SUFFICES ASSUME StoredInv, NEW p \in Paths, NotPending(p) PROVE SameIdentity(primary[p], remote[p])
    BY DEF NotPendingIsStored
  <2>1. primary[p].type = "file"
    BY DEF StoredInv, NotPending, Authentic, Known, Written
  <2> QED
    BY <2>1, PendingOrStored
<1> QED
  BY <1>1, StoredForEver, PTL

----------------------------------------------------------------------------
(* Directories before what is below them                                   *)

\* What a path is a sequence of.
Names == [name : Nat, stamps : SUBSET Stamps]

\* A path is a sequence of names and has one at least.
LEMMA PathIsSequence ==
    ASSUME NEW p \in Paths
    PROVE  p \in Seq(Names) /\ Len(p) \in Nat \ {0}
<1>1. PICK sh \in Shapes : p \in PathsOfShape(sh)
  BY DEF Paths
<1>2. PICK st \in [1..Len(sh) -> SUBSET Stamps] :
         p = [i \in 1..Len(sh) |-> Component(sh[i], st[i])]
  BY <1>1 DEF PathsOfShape
<1>3. Len(sh) \in Nat \ {0} /\ sh \in [1..Len(sh) -> Nat]
  BY ShapesAssumption
<1>4. p \in [1..Len(sh) -> Names]
  BY <1>2, <1>3 DEF Component, Names
<1>5. p \in Seq(Names)
  BY <1>3, <1>4, SeqDef
<1>6. Len(p) = Len(sh)
  BY <1>3, <1>4, <1>5, LenProperties
<1> QED
  BY <1>3, <1>5, <1>6

\* A path's first names are a path above it, and what is above that is above the
\* path too.
LEMMA AncestorFacts ==
    ASSUME NEW p \in Paths, NEW q \in Ancestors(p)
    PROVE  /\ q \in Paths /\ p \in Below[q]
           /\ q # p /\ Len(q) \in 1..(Len(p) - 1) /\ q = SubSeq(p, 1, Len(q))
           /\ Ancestors(q) \subseteq Ancestors(p)
<1>1. q \in Paths
  BY PathsAssumption
<1>2. p \in Seq(Names) /\ q \in Seq(Names) /\ Len(p) \in Nat /\ Len(q) \in Nat \ {0}
  BY <1>1, PathIsSequence
<1>3. PICK i \in 1..(Len(p) - 1) : q = SubSeq(p, 1, i)
  BY DEF Ancestors
<1>4. i \in Nat /\ 1 <= i /\ i < Len(p) /\ 1 \in 1..(Len(p) + 1) /\ i \in 1..Len(p)
  BY <1>2, <1>3
<1>5. Len(q) = i
  BY <1>2, <1>3, <1>4, SubSeqProperties
<1>6. p \in Below[q]
  BY <1>1, <1>3, <1>4, <1>5 DEF Below
<1>7. ASSUME NEW j \in 1..(i - 1) PROVE SubSeq(q, 1, j) = SubSeq(p, 1, j)
  BY <1>2, <1>3, <1>4, SubSeqOfSubSeq
<1>8. Ancestors(q) \subseteq Ancestors(p)
  BY <1>4, <1>5, <1>7 DEF Ancestors
<1> QED
  BY <1>1, <1>2, <1>3, <1>4, <1>5, <1>6, <1>8

\* A path beneath one that lies above p is beneath nothing p is not beneath.
LEMMA BeneathAncestor ==
    ASSUME NEW p \in Paths, NEW q \in Ancestors(p), NEW n \in Paths, Beneath(n, q)
    PROVE  n \in Ancestors(p) /\ Beneath(n, p)
<1>1. /\ q \in Paths /\ Len(q) \in 1..(Len(p) - 1) /\ q = SubSeq(p, 1, Len(q))
      /\ p \in Below[q] /\ Ancestors(q) \subseteq Ancestors(p)
  BY AncestorFacts
<1>2. Len(n) \in Nat \ {0} /\ Len(q) \in Nat
  BY <1>1, PathIsSequence
<1>3. CASE q \in Below[n]
  <2>1. Len(n) < Len(q) /\ SubSeq(q, 1, Len(n)) = n
    BY <1>3 DEF Below
  <2>2. n \in Ancestors(q)
    <3>1. Len(n) \in 1..(Len(q) - 1)
      BY <1>2, <2>1
    <3> QED
      BY <2>1, <3>1 DEF Ancestors
  <2>3. n \in Ancestors(p)
    BY <1>1, <2>2
  <2>4. p \in Below[n]
    BY <2>3, AncestorFacts
  <2> QED
    BY <2>3, <2>4 DEF Beneath
<1> QED
  BY <1>1, <1>3 DEF Beneath

\* A cut of a sequence that has another beginning now.
LEMMA CutOfReplaced ==
    ASSUME NEW s \in Seq(Names), NEW q \in Seq(Names), NEW n \in Nat, NEW i \in Nat,
           n <= i, i <= Len(q)
    PROVE  /\ Len(s \o SubSeq(q, n + 1, Len(q))) = Len(s) + (Len(q) - n)
           /\ s \o SubSeq(SubSeq(q, 1, i), n + 1, i)
                = SubSeq(s \o SubSeq(q, n + 1, Len(q)), 1, Len(s) + (i - n))
<1> DEFINE tail == SubSeq(q, n + 1, Len(q))
           a == SubSeq(q, 1, i)
           rest == SubSeq(a, n + 1, i)
           r == s \o tail
           ra == s \o rest
           k == Len(s) + (i - n)
           cut == SubSeq(r, 1, k)
<1>1. Len(s) \in Nat /\ Len(q) \in Nat /\ \A j \in 1..Len(q) : q[j] \in Names
  BY ElementOfSeq, LenProperties
<1>2. /\ tail \in Seq(Names) /\ Len(tail) = Len(q) - n
      /\ \A j \in 1..(Len(q) - n) : tail[j] = q[j + n]
  <2>1. \A j \in (n + 1)..Len(q) : q[j] \in Names
    BY <1>1
  <2>2. /\ tail \in Seq(Names) /\ Len(tail) = IF n + 1 <= Len(q) THEN Len(q) - (n + 1) + 1 ELSE 0
        /\ \A j \in 1..(Len(q) - (n + 1) + 1) : tail[j] = q[(n + 1) + j - 1]
    BY <1>1, <2>1, SubSeqProperties
  <2> QED
    BY <1>1, <2>2
<1>3. a \in Seq(Names) /\ Len(a) = i /\ \A j \in 1..i : a[j] = q[j]
  <2>1. \A j \in 1..i : q[j] \in Names
    BY <1>1
  <2>2. /\ a \in Seq(Names) /\ Len(a) = IF 1 <= i THEN i - 1 + 1 ELSE 0
        /\ \A j \in 1..(i - 1 + 1) : a[j] = q[1 + j - 1]
    BY <1>1, <2>1, SubSeqProperties
  <2> QED
    BY <1>1, <2>2
<1>4. /\ rest \in Seq(Names) /\ Len(rest) = i - n
      /\ \A j \in 1..(i - n) : rest[j] = q[j + n]
  <2> HIDE DEF a
  <2>1. \A j \in (n + 1)..i : a[j] \in Names
    BY <1>1, <1>3
  <2>2. /\ rest \in Seq(Names) /\ Len(rest) = IF n + 1 <= i THEN i - (n + 1) + 1 ELSE 0
        /\ \A j \in 1..(i - (n + 1) + 1) : rest[j] = a[(n + 1) + j - 1]
    BY <1>1, <2>1, SubSeqProperties
  <2> QED
    BY <1>1, <1>3, <2>2
<1> HIDE DEF tail, rest
<1>5. /\ r \in Seq(Names) /\ Len(r) = Len(s) + Len(tail)
      /\ \A j \in 1..(Len(s) + Len(tail)) : r[j] = IF j <= Len(s) THEN s[j] ELSE tail[j - Len(s)]
  <2>1. tail \in Seq(Names)
    BY <1>2
  <2> QED
    BY <2>1, ConcatProperties
<1>6. /\ ra \in Seq(Names) /\ Len(ra) = Len(s) + Len(rest)
      /\ \A j \in 1..(Len(s) + Len(rest)) : ra[j] = IF j <= Len(s) THEN s[j] ELSE rest[j - Len(s)]
  <2>1. rest \in Seq(Names)
    BY <1>4
  <2> QED
    BY <2>1, ConcatProperties
<1> HIDE DEF r, ra
<1>7. cut \in Seq(Names) /\ Len(cut) = k /\ \A j \in 1..k : cut[j] = r[j]
  <2>1. k \in Nat /\ k <= Len(r) /\ Len(r) \in Nat
    BY <1>1, <1>2, <1>5
  <2> HIDE DEF k
  <2>2. \A j \in 1..k : r[j] \in Names
    BY <1>5, <2>1, ElementOfSeq
  <2>3. /\ cut \in Seq(Names) /\ Len(cut) = IF 1 <= k THEN k - 1 + 1 ELSE 0
        /\ \A j \in 1..(k - 1 + 1) : cut[j] = r[1 + j - 1]
    BY <2>1, <2>2, SubSeqProperties
  <2> QED
    BY <2>1, <2>3
<1> HIDE DEF cut
<1>8. Len(ra) = k /\ \A j \in 1..k : ra[j] = cut[j]
  <2>1. Len(ra) = k
    BY <1>1, <1>4, <1>6
  <2>2. ASSUME NEW j \in 1..k PROVE ra[j] = r[j]
    <3>0. j \in Nat /\ j \in 1..(Len(s) + Len(rest)) /\ j \in 1..(Len(s) + Len(tail))
      BY <1>1, <1>2, <1>4, <2>2
    <3> HIDE DEF k
    <3>1. CASE j <= Len(s)
      BY <1>5, <1>6, <3>0, <3>1
    <3>2. CASE ~ (j <= Len(s))
      <4>1. j - Len(s) \in 1..(i - n) /\ j - Len(s) \in 1..(Len(q) - n)
        BY <1>1, <1>2, <1>4, <3>0, <3>2
      <4>2. ra[j] = rest[j - Len(s)] /\ r[j] = tail[j - Len(s)]
        BY <1>5, <1>6, <3>0, <3>2
      <4>3. rest[j - Len(s)] = q[j - Len(s) + n] /\ tail[j - Len(s)] = q[j - Len(s) + n]
        BY <1>2, <1>4, <4>1
      <4> QED
        BY <4>2, <4>3
    <3> QED
      BY <3>1, <3>2
  <2> QED
    BY <1>7, <2>1, <2>2
<1>9. ra = cut
  BY <1>6, <1>7, <1>8, SeqEqual
<1> QED
  BY <1>1, <1>2, <1>5, <1>9 DEF r, ra, cut, tail, rest

\* Under a path that is moved, what lay above an entry lies above it still.
LEMMA RenamedAncestors ==
    ASSUME NEW old \in Paths, NEW new \in Paths, NEW q \in Paths, Beneath(new, q),
           NEW a \in Ancestors(q), a \notin Ancestors(new)
    PROVE  /\ Beneath(new, a)
           /\ RenamedFrom(old, new, a) \in Ancestors(RenamedFrom(old, new, q))
<1>1. old \in Seq(Names) /\ new \in Seq(Names) /\ q \in Seq(Names)
      /\ Len(old) \in Nat \ {0} /\ Len(new) \in Nat \ {0} /\ Len(q) \in Nat \ {0}
  BY PathIsSequence
<1>2. /\ a \in Paths /\ Len(a) \in Nat /\ 1 <= Len(a) /\ Len(a) < Len(q)
      /\ a = SubSeq(q, 1, Len(a))
  BY <1>1, AncestorFacts
<1>3. Len(new) <= Len(q) /\ new = SubSeq(q, 1, Len(new))
  <2>1. CASE q = new
    BY <1>1, <2>1, SubSeqFull
  <2>2. CASE q \in Below[new]
    BY <1>1, <2>2 DEF Below
  <2> QED
    BY <2>1, <2>2 DEF Beneath
<1>4. \A m, i \in 1..Len(q) : m <= i => SubSeq(SubSeq(q, 1, i), 1, m) = SubSeq(q, 1, m)
  BY <1>1, SubSeqOfSubSeq
<1>5. Len(new) <= Len(a)
  <2> SUFFICES ASSUME Len(a) < Len(new) PROVE FALSE
    BY <1>1, <1>2
  <2>1. SubSeq(new, 1, Len(a)) = a
    BY <1>1, <1>2, <1>3, <1>4
  <2>2. Len(a) \in 1..(Len(new) - 1)
    BY <1>1, <1>2
  <2> QED
    BY <2>1, <2>2 DEF Ancestors
<1>6. Beneath(new, a)
  <2>1. CASE Len(a) = Len(new)
    BY <1>2, <1>3, <2>1 DEF Beneath
  <2>2. CASE Len(new) < Len(a)
    <3>1. SubSeq(a, 1, Len(new)) = new
      BY <1>1, <1>2, <1>3, <1>4, <2>2
    <3> QED
      BY <1>2, <2>2, <3>1 DEF Beneath, Below
  <2> QED
    BY <1>1, <1>2, <1>5, <2>1, <2>2
<1> DEFINE r == RenamedFrom(old, new, q)
           k == Len(old) + (Len(a) - Len(new))
<1>7. Len(r) = Len(old) + (Len(q) - Len(new)) /\ RenamedFrom(old, new, a) = SubSeq(r, 1, k)
  <2>1. /\ Len(old \o SubSeq(q, Len(new) + 1, Len(q))) = Len(old) + (Len(q) - Len(new))
        /\ old \o SubSeq(SubSeq(q, 1, Len(a)), Len(new) + 1, Len(a))
             = SubSeq(old \o SubSeq(q, Len(new) + 1, Len(q)), 1, k)
    <3>1. /\ Len(new) \in Nat /\ Len(a) \in Nat /\ Len(new) <= Len(a) /\ Len(a) <= Len(q)
          /\ old \in Seq(Names) /\ q \in Seq(Names)
      BY <1>1, <1>2, <1>5
    <3> QED
      BY <3>1, CutOfReplaced
  <2> QED
    BY <1>2, <2>1 DEF RenamedFrom
<1>8. k \in 1..(Len(r) - 1)
  BY <1>1, <1>2, <1>5, <1>7
<1> QED
  BY <1>6, <1>7, <1>8 DEF Ancestors

\* A tree as a file system shows it: what is above an entry is a directory.
Rooted(t) == \A p \in Paths : t[p] # None => ParentExists(t, p)
RootedTrees == Rooted(primary) /\ Rooted(seen)

\* Nothing is below what is no directory.
LEMMA NothingBelow ==
    ASSUME NEW t, Rooted(t), NEW p \in Paths, NEW q \in Ancestors(p), t[q].type # "dir"
    PROVE  t[p] = None
  BY DEF Rooted, ParentExists

\* A removal takes what is below along.
LEMMA RootedRemoveAll ==
    ASSUME NEW t \in Tree, Rooted(t), NEW p \in Paths
    PROVE  Rooted(RemoveAll(t, p))
<1> SUFFICES ASSUME NEW q \in Paths, RemoveAll(t, p)[q] # None, NEW a \in Ancestors(q)
             PROVE  RemoveAll(t, p)[a].type = "dir"
  BY DEF Rooted, ParentExists
<1>1. ~ Beneath(p, q) /\ t[q] # None
  BY DEF RemoveAll
<1>2. a \in Paths /\ ~ Beneath(p, a)
  BY <1>1, AncestorFacts, BeneathAncestor
<1>3. t[a].type = "dir"
  BY <1>1 DEF Rooted, ParentExists
<1> QED
  BY <1>2, <1>3 DEF RemoveAll

\* A new entry has its directories; what it replaces has nothing below.
LEMMA RootedWrite ==
    ASSUME NEW t \in Tree, Rooted(t), NEW p \in Paths, NEW e, ParentExists(t, p), t[p].type # "dir"
    PROVE  Rooted([t EXCEPT ![p] = e])
<1> DEFINE u == [t EXCEPT ![p] = e]
<1> SUFFICES ASSUME NEW q \in Paths, u[q] # None, NEW a \in Ancestors(q) PROVE u[a].type = "dir"
  BY DEF Rooted, ParentExists
<1>1. a \in Paths /\ a # q
  BY AncestorFacts
<1>2. CASE q = p
  BY <1>1, <1>2 DEF ParentExists, Tree
<1>3. CASE q # p
  <2>1. t[q] # None
    BY <1>3 DEF Tree
  <2>2. t[a].type = "dir"
    BY <2>1 DEF Rooted, ParentExists
  <2> QED
    BY <1>1, <2>2 DEF Tree
<1> QED
  BY <1>2, <1>3

\* So does what is moved, with everything below it.
LEMMA RootedRename ==
    ASSUME NEW t \in Tree, Rooted(t), NEW old \in Paths, NEW new \in Paths, CanRename(t, old, new)
    PROVE  Rooted(Rename(t, old, new))
<1> DEFINE u == Rename(t, old, new)
           from(q) == RenamedFrom(old, new, q)
<1> SUFFICES ASSUME NEW q \in Paths, u[q] # None, NEW a \in Ancestors(q) PROVE u[a].type = "dir"
  BY DEF Rooted, ParentExists
<1>1. a \in Paths /\ q \in Below[a] /\ Ancestors(a) \subseteq Ancestors(q)
  BY AncestorFacts
<1>2. CASE Beneath(new, q)
  <2>1. from(q) \in Paths /\ t[from(q)] # None
    BY <1>2 DEF Rename
  <2>2. CASE a \in Ancestors(new)
    <3>1. t[a].type = "dir"
      BY <2>2 DEF CanRename
    <3>2. ~ Beneath(new, a)
      <4>1. a # new /\ Len(a) \in 1..(Len(new) - 1) /\ Len(new) \in Nat
        BY <2>2, AncestorFacts, PathIsSequence
      <4> QED
        BY <4>1 DEF Beneath, Below
    <3>3. ~ Beneath(old, a)
      BY <2>2, BeneathAncestor DEF CanRename
    <3> QED
      BY <1>1, <3>1, <3>2, <3>3 DEF Rename
  <2>3. CASE a \notin Ancestors(new)
    <3>1. Beneath(new, a) /\ from(a) \in Ancestors(from(q))
      BY <1>2, <2>3, RenamedAncestors
    <3>2. from(a) \in Paths
      BY <2>1, <3>1, PathsAssumption
    <3>3. t[from(a)].type = "dir"
      BY <2>1, <3>1 DEF Rooted, ParentExists
    <3> QED
      BY <1>1, <3>1, <3>2, <3>3 DEF Rename
  <2> QED
    BY <2>2, <2>3
<1>3. CASE ~ Beneath(new, q)
  <2>1. ~ Beneath(old, q) /\ t[q] # None
    BY <1>3 DEF Rename
  <2>2. ~ Beneath(new, a) /\ ~ Beneath(old, a)
    BY <1>3, <2>1, BeneathAncestor
  <2>3. t[a].type = "dir"
    BY <2>1 DEF Rooted, ParentExists
  <2> QED
    BY <1>1, <2>2, <2>3 DEF Rename
<1> QED
  BY <1>2, <1>3

\* The primary's tree is rooted whatever users do, and so is what a scan saw of it.
LEMMA RootedStep == TypeOK /\ Sendable /\ RootedTrees /\ [Next]_vars => RootedTrees'
<1> SUFFICES ASSUME TypeOK, Sendable, RootedTrees, [Next]_vars PROVE RootedTrees'
  OBVIOUS
<1>0. TreesType
  BY TypeParts
<1>1. Rooted(primary')
  <2>1. CASE User
    <3>1. \A kind, t : UserStep(kind, t) => primary' = t
      BY DEF UserStep
    <3>2. PICK p \in OriginalPaths :
            \/ /\ ParentExists(primary, p) /\ primary[p].type # "dir"
               /\ primary' = [primary EXCEPT ![p] = File(edits + 1, "primary", edits + 1)]
            \/ /\ ParentExists(primary, p) /\ primary[p].type # "dir"
               /\ \E v : primary' = [primary EXCEPT ![p] = Symlink(v)]
            \/ /\ ParentExists(primary, p) /\ primary[p] = None
               /\ primary' = [primary EXCEPT ![p] = Dir]
            \/ primary' = RemoveAll(primary, p)
            \/ \E q \in OriginalPaths : CanRename(primary, p, q) /\ primary' = Rename(primary, p, q)
      BY <2>1, <3>1 DEF User
    <3>3. OriginalPaths \subseteq Paths /\ None.type # "dir"
      BY DEF OriginalPaths, None
    <3>4. ASSUME NEW e, ParentExists(primary, p), primary[p].type # "dir"
          PROVE  Rooted([primary EXCEPT ![p] = e])
      BY <1>0, <3>3, <3>4, RootedWrite DEF RootedTrees, TreesType
    <3>5. Rooted(RemoveAll(primary, p))
      BY <1>0, <3>3, RootedRemoveAll DEF RootedTrees, TreesType
    <3>6. \A q \in OriginalPaths : CanRename(primary, p, q) => Rooted(Rename(primary, p, q))
      BY <1>0, <3>3, RootedRename DEF RootedTrees, TreesType
    <3> QED
      BY <3>2, <3>3, <3>4, <3>5, <3>6
  <2>2. User \/ primary' = primary
    BY DEF Next, vars, Sender, Scan, Guard, Connect, Pinged, Plan, SendNext, Answered, Disconnected,
           PushAcl, AclPushed, SaveRemoteBaseline, SaveRetry, Handle, Panic, Drop, CrashReceiver,
           StartReceiver, CrashSender, BackoffOver, Approve, Unmount, Mount
  <2> QED
    BY <2>1, <2>2 DEF RootedTrees
<1>2. Rooted(seen')
  <2>1. seen' = seen \/ seen' = Visible \/ seen' = EmptyTree
    BY DEF Next, vars, Sender, Scan, Guard, Connect, Pinged, Plan, SendNext, Answered, Disconnected,
           PushAcl, AclPushed, SaveRemoteBaseline, SaveRetry, Handle, Panic, Drop, CrashReceiver,
           StartReceiver, CrashSender, BackoffOver, Approve, Unmount, Mount, User, UserStep, memory,
           GoIdle
  <2>2. Rooted(EmptyTree)
    BY DEF Rooted, EmptyTree
  <2> QED
    BY <2>1, <2>2 DEF Visible, RootedTrees
<1> QED
  BY <1>1, <1>2 DEF RootedTrees

\* An operation of the batch and the scan it was planned from.
Follows(op) ==
    ~ IsDelete(op) =>
        /\ seen[op.path] # None
        /\ op.kind = "mkdir" => seen[op.path].type = "dir"
        /\ op.kind = "rename" => seen[op.path].type = "file" /\ seen[op.old] = None

\* What is above a path has been acknowledged, is still to come or was left out, or the
\* path is blocked.
Served(p) ==
    \/ p \in blocked
    \/ \A q \in Ancestors(p) :
          \/ base[q].type = "dir" \/ q \in leftOut
          \/ \E m \in todo : m.kind = "mkdir" /\ m.path = q

BatchInv ==
    /\ pc = "idle" => todo = {}
    /\ \A p \in blocked : Below[p] \subseteq blocked
    /\ \A op \in todo : Follows(op) /\ (~ IsDelete(op) => Served(op.path))
    /\ pc = "wait" => RemoteFirst(cur, todo) /\ cur.path \notin blocked

\* A plan creates what the scan saw, and makes every directory of the scan that has
\* not been acknowledged.
LEMMA PlanFollows ==
    ASSUME NEW b \in Tree, NEW t \in Tree
    PROVE  LET ops == MergeOps(b, t, b, 0)
           IN  /\ \A op \in ops : ~ IsDelete(op) =>
                     /\ t[op.path] # None
                     /\ op.kind = "mkdir" => t[op.path].type = "dir"
                     /\ op.kind = "rename" => t[op.path].type = "file" /\ t[op.old] = None
               /\ \A p \in Paths : t[p].type = "dir" =>
                     b[p].type = "dir" \/ \E m \in ops : m.kind = "mkdir" /\ m.path = p
<1> DEFINE ops == MergeOps(b, t, b, 0)
<1>1. \A p \in Paths : Verdict(b[p], t[p], b[p]) \in {"keep", "toSecondary"}
  BY DEF Verdict, SameIdentity
<1>2. RenamePairs(b, b, t) = {}
  <2>1. Reappeared(b, b) = {}
    BY DEF Reappeared, None
  <2> QED
    BY <2>1 DEF RenamePairs
<1>3. ASSUME NEW r \in RenamePairs(b, t, b)
      PROVE  r[1] \in Paths /\ r[2] \in Paths /\ t[r[2]].type = "file" /\ t[r[1]] = None
  <2>1. PICK n \in Reappeared(b, t) : r = <<OldPath(b, t, n), n>>
    BY DEF RenamePairs
  <2>2. Vanished(b, t, t[n]) # {} /\ n \in Paths /\ t[n].type = "file"
    BY DEF Reappeared
  <2>3. OldPath(b, t, n) \in Vanished(b, t, t[n])
    BY <2>2 DEF OldPath
  <2> QED
    BY <2>1, <2>2, <2>3 DEF Vanished
<1>4. ASSUME NEW op \in ops, ~ IsDelete(op)
      PROVE  /\ t[op.path] # None
             /\ op.kind = "mkdir" => t[op.path].type = "dir"
             /\ op.kind = "rename" => t[op.path].type = "file" /\ t[op.old] = None
  <2>1. CASE op \in RenameOps(b, t, b)
    <3>1. PICK r \in RenamePairs(b, t, b) : op = MkOp("rename", "secondary", r[2], r[1], "file", r[2], 0)
      BY <1>2, <2>1 DEF RenameOps
    <3>2. op.kind = "rename" /\ op.path = r[2] /\ op.old = r[1]
      BY <3>1 DEF MkOp
    <3> QED
      BY <1>3, <3>2 DEF None
  <2>2. ASSUME NEW p \in Paths, op \in PathOps(p, 0, b[p], t[p], b[p])
        PROVE  op.path = p /\ t[p] # None /\ op.kind = CreateKind(t[p].type)
    <3>1. op \in Propagate("secondary", p, t[p], b[p])
      BY <1>1, <2>2 DEF PathOps
    <3> QED
      BY <1>4, <3>1 DEF Propagate, MkOp, IsDelete, DelKind
  <2>3. op \in RenameOps(b, t, b) \/ \E p \in Paths : op \in PathOps(p, 0, b[p], t[p], b[p])
    BY DEF MergeOps
  <2> QED
    BY <2>1, <2>2, <2>3 DEF CreateKind
<1>5. ASSUME NEW p \in Paths, t[p].type = "dir", b[p].type # "dir"
      PROVE  \E m \in ops : m.kind = "mkdir" /\ m.path = p
  <2>1. p \notin Renamed(b, t, b)
    BY <1>2, <1>3, <1>5 DEF Renamed, None
  <2>2. Verdict(b[p], t[p], b[p]) = "toSecondary"
    BY <1>5 DEF Verdict, SameIdentity
  <2>3. t[p] # None
    BY <1>5 DEF None
  <2>4. MkOp("mkdir", "secondary", p, p, t[p].type, p, 1) \in PathOps(p, 0, b[p], t[p], b[p])
    BY <1>5, <2>2, <2>3 DEF PathOps, Propagate, CreateKind
  <2> QED
    BY <2>1, <2>4 DEF MergeOps, MkOp
<1> QED
  BY <1>4, <1>5

\* A directory that has been acknowledged and was seen stays so, whatever operation of
\* the batch is.
LEMMA AcknowledgedDirs ==
    ASSUME TypeOK, Rooted(seen), NEW op \in Op, Follows(op), ~ IsDelete(op),
           NEW p \in Paths, seen[p].type = "dir"
    PROVE  /\ base[p].type = "dir" => ApplyToBaseline(base, op)[p].type = "dir"
           /\ op.path = p => op.kind = "rename" \/ ApplyToBaseline(base, op)[p].type = "dir"
<1>0. base \in Tree /\ seen \in Tree /\ op.path \in Paths /\ op.old \in Paths
  BY TypeParts DEF TreesType, Op
<1>1. CASE op.kind = "rename"
  <2>1. seen[op.path].type = "file" /\ seen[op.old] = None
    BY <1>1 DEF Follows
  <2>2. \A n \in Paths : n \in Ancestors(p) => seen[n].type = "dir"
    BY DEF Rooted, ParentExists, None
  <2>3. \A n \in Paths : Beneath(n, p) /\ n # p => n \in Ancestors(p)
    <3>1. \A n \in Paths : Len(n) \in Nat \ {0} /\ Len(p) \in Nat
      BY PathIsSequence
    <3> QED
      BY <3>1 DEF Beneath, Below, Ancestors
  <2>4. ~ Beneath(op.path, p) /\ ~ Beneath(op.old, p)
    BY <1>0, <2>1, <2>2, <2>3 DEF None
  <2>5. Rename(base, op.old, op.path)[p] = base[p]
    BY <2>4 DEF Rename
  <2> QED
    BY <1>1, <2>5 DEF ApplyToBaseline
<1>2. CASE op.kind # "rename"
  <2>1. seen[op.path] # None
    BY DEF Follows
  <2>2. ApplyToBaseline(base, op) = [base EXCEPT ![op.path] = seen[op.path]]
    BY <1>2, <2>1 DEF ApplyToBaseline, IsDelete
  <2> QED
    BY <1>0, <2>2 DEF Tree
<1> QED
  BY <1>1, <1>2

\* When a creation's turn comes, no directory above it is still to be made.
LEMMA TurnOfChildren ==
    ASSUME TypeOK, NEW op \in Op, RemoteFirst(op, todo), ~ IsDelete(op),
           NEW m \in todo, m.kind = "mkdir"
    PROVE  m.path \notin Ancestors(op.path)
<1> SUFFICES ASSUME m.path \in Ancestors(op.path) PROVE FALSE
  OBVIOUS
<1>1. op.path \in Paths /\ m.path \in Paths
  BY TypeParts DEF SenderType, Op
<1>2. /\ m.path # op.path /\ Len(m.path) \in 1..(Len(op.path) - 1)
      /\ m.path = SubSeq(op.path, 1, Len(m.path)) /\ Len(op.path) \in Nat
  BY <1>1, AncestorFacts, PathIsSequence
<1>3. Before(op.path, m.path)
  BY <1>2 DEF RemoteFirst, IsDelete
<1>4. \A i \in 1..Len(m.path) : op.path[i] = m.path[i]
  <2>1. op.path \in Seq(Names)
    BY <1>1, PathIsSequence
  <2>2. \A i \in 1..Len(m.path) : SubSeq(op.path, 1, Len(m.path))[i] = op.path[i]
    BY <1>2, <2>1
  <2> QED
    BY <1>2, <2>2
<1>5. ~ (Len(op.path) < Len(m.path))
  BY <1>2
<1>6. {i \in 1..Len(m.path) : op.path[i] # m.path[i]} = {}
  BY <1>4
<1> QED
  BY <1>3, <1>5, <1>6, Zenon DEF Before

\* A pass that is over leaves no batch.
LEMMA IdleBatch == GoIdle => BatchInv'
  BY DEF GoIdle, BatchInv

\* Steps that leave the batch alone.
LEMMA QuietBatch ==
    ASSUME BatchInv, UNCHANGED <<base, seen, todo, blocked, leftOut, cur>>,
           pc' = pc \/ pc' \notin {"idle", "wait"}
    PROVE  BatchInv'
<1>1. \A op \in todo : Follows(op)' <=> Follows(op)
  BY DEF Follows
<1>2. \A p : Served(p)' <=> Served(p)
  BY DEF Served
<1> QED
  BY <1>1, <1>2, Zenon DEF BatchInv

\* An operation leaves the batch.  What it leaves unmade is left out, or blocked with all
\* that is below.
LEMMA ShorterBatch ==
    ASSUME BatchInv, NEW op \in todo, todo' = todo \ {op} \/ todo' = {}, seen' = seen,
           pc' = "send", leftOut \subseteq leftOut',
           blocked \subseteq blocked', \A p \in blocked' : Below[p] \subseteq blocked',
           \A x \in todo' : ~ IsDelete(x) =>
              \A q \in Ancestors(x.path) :
                  /\ base[q].type = "dir" => base'[q].type = "dir"
                  /\ op.kind = "mkdir" /\ op.path = q =>
                        base'[q].type = "dir" \/ q \in leftOut' \/ x.path \in blocked'
    PROVE  BatchInv'
<1>1. \A x \in todo' : x \in todo /\ (Follows(x)' <=> Follows(x))
  BY DEF Follows
<1>2. ASSUME NEW x \in todo', ~ IsDelete(x) PROVE Served(x.path)'
  <2>1. Served(x.path)
    BY <1>1, <1>2 DEF BatchInv
  <2>2. CASE x.path \in blocked'
    BY <2>2 DEF Served
  <2>3. CASE x.path \notin blocked'
    <3>1. ASSUME NEW q \in Ancestors(x.path)
          PROVE  \/ base'[q].type = "dir" \/ q \in leftOut'
                 \/ \E m \in todo' : m.kind = "mkdir" /\ m.path = q
      <4>1. CASE base[q].type = "dir" \/ q \in leftOut
        BY <1>2, <3>1, <4>1
      <4>2. CASE \E m \in todo : m.kind = "mkdir" /\ m.path = q
        BY <1>2, <2>3, <3>1, <4>2
      <4> QED
        BY <2>1, <2>3, <3>1, <4>1, <4>2 DEF Served
    <3> QED
      BY <3>1 DEF Served
  <2> QED
    BY <2>2, <2>3
<1> QED
  BY <1>1, <1>2 DEF BatchInv

\* An operation has failed.
LEMMA FailedBatch ==
    ASSUME TypeOK, Sendable, BatchInv, NEW op \in todo, NEW lnk, OpFailed(op, lnk), seen' = seen
    PROVE  BatchInv'
<1>0. todo \subseteq Op /\ op.path \in Paths
  BY TypeParts DEF SenderType, Op
<1>1. \A p \in blocked' : Below[p] \subseteq blocked'
  <2>1. \A p \in Below[op.path] : Below[p] \subseteq Below[op.path]
    <3> SUFFICES ASSUME NEW p \in Below[op.path], NEW q \in Below[p] PROVE q \in Below[op.path]
      OBVIOUS
    <3>1. p \in Paths /\ q \in Paths
      BY <1>0 DEF Below
    <3>2. Len(p) \in Nat \ {0} /\ Len(q) \in Nat \ {0} /\ Len(op.path) \in Nat \ {0}
      BY <1>0, <3>1, PathIsSequence
    <3>3. Len(p) < Len(q) /\ SubSeq(q, 1, Len(p)) = p
      BY <3>1 DEF Below
    <3>4. p \in Ancestors(q)
      <4>1. Len(p) \in 1..(Len(q) - 1)
        BY <3>2, <3>3
      <4> QED
        BY <3>3, <4>1 DEF Ancestors
    <3>5. Beneath(op.path, p)
      BY DEF Beneath
    <3>6. op.path \in Ancestors(q)
      BY <1>0, <3>1, <3>4, <3>5, BeneathAncestor
    <3> QED
      BY <3>1, <3>6, AncestorFacts
  <2>2. \A p \in blocked : Below[p] \subseteq blocked
    BY DEF BatchInv
  <2> QED
    BY <2>1, <2>2 DEF OpFailed
<1>2. ASSUME NEW x \in todo, op.kind = "mkdir", op.path \in Ancestors(x.path) PROVE x.path \in blocked'
  <2>1. x.path \in Paths
    BY <1>0 DEF Op
  <2>2. x.path \in Below[op.path]
    BY <1>2, <2>1, AncestorFacts
  <2> QED
    BY <1>2, <2>2 DEF OpFailed
<1>3. (todo' = todo \ {op} \/ todo' = {}) /\ pc' = "send" /\ blocked \subseteq blocked'
      /\ base' = base /\ leftOut' = leftOut
  BY DEF OpFailed
<1> QED
  BY <1>1, <1>2, <1>3, ShorterBatch

\* An operation has been acknowledged.
LEMMA DoneBatch ==
    ASSUME TypeOK, Sendable, Rooted(seen), BatchInv, NEW op \in todo, RemoteFirst(op, todo),
           OpDone(op), seen' = seen
    PROVE  BatchInv'
<1>0. todo \subseteq Op /\ op.path \in Paths
  BY TypeParts DEF SenderType, Op
<1>1. /\ todo' = todo \ {op} /\ pc' = "send" /\ blocked' = blocked /\ leftOut' = leftOut
      /\ base' = ApplyToBaseline(base, op)
  BY DEF OpDone
<1>2. ASSUME NEW x \in todo', ~ IsDelete(x), NEW q \in Ancestors(x.path)
      PROVE  /\ base[q].type = "dir" => base'[q].type = "dir"
             /\ op.kind = "mkdir" /\ op.path = q => base'[q].type = "dir"
  <2>1. x \in todo /\ x # op /\ x.path \in Paths
    BY <1>0, <1>1 DEF Op
  <2>2. ~ IsDelete(op)
    BY <1>2, <2>1 DEF RemoteFirst
  <2>3. q \in Paths
    BY <2>1, PathsAssumption
  <2>4. seen[q].type = "dir"
    <3>1. Follows(x)
      BY <2>1 DEF BatchInv
    <3>2. seen[x.path] # None
      BY <1>2, <3>1 DEF Follows
    <3> QED
      BY <2>1, <3>2 DEF Rooted, ParentExists
  <2>5. Follows(op)
    BY DEF BatchInv
  <2> QED
    BY <1>0, <1>1, <2>2, <2>3, <2>4, <2>5, AcknowledgedDirs
<1>3. \A p \in blocked : Below[p] \subseteq blocked
  BY DEF BatchInv
<1> QED
  BY <1>1, <1>2, <1>3, ShorterBatch

\* The batch keeps its order through every step.
LEMMA BatchStep ==
    TypeOK /\ Sendable /\ RootedTrees /\ BatchInv /\ [Next]_vars => BatchInv'
<1> SUFFICES ASSUME TypeOK, Sendable, RootedTrees, BatchInv, [Next]_vars PROVE BatchInv'
  OBVIOUS
<1>0. /\ TreesType /\ todo \subseteq Op
      /\ pc = "wait" => cur \in todo /\ RemoteFirst(cur, todo) /\ cur.path \notin blocked
  BY TypeParts DEF SenderType, BatchInv, RemoteFirst
<1>1. CASE Scan
  <2>1. todo = {} /\ UNCHANGED <<todo, blocked, cur, base>> /\ pc' = "scanned"
    BY <1>1, Zenon DEF Scan, BatchInv, sending
  <2> QED
    BY <2>1 DEF BatchInv
<1>2. CASE GoIdle
  BY <1>2, IdleBatch
<1>3. CASE Plan /\ ~ GoIdle
  <2>1. todo' = MergeOps(base, seen, base, 0) /\ pc' = "send" /\ UNCHANGED <<seen, blocked, base>>
    BY <1>3, Zenon DEF Plan
  <2>2. \A op \in todo' : (~ IsDelete(op) =>
              /\ seen[op.path] # None
              /\ op.kind = "mkdir" => seen[op.path].type = "dir"
              /\ op.kind = "rename" => seen[op.path].type = "file" /\ seen[op.old] = None)
    BY <1>0, <2>1, PlanFollows DEF TreesType
  <2>3. ASSUME NEW op \in todo', ~ IsDelete(op), NEW q \in Ancestors(op.path)
        PROVE  base[q].type = "dir" \/ \E m \in todo' : m.kind = "mkdir" /\ m.path = q
    <3>1. op.path \in Paths
      BY <1>0, <2>1, PlanType DEF TreesType, Op
    <3>2. q \in Paths /\ seen[q].type = "dir"
      BY <2>2, <2>3, <3>1, PathsAssumption DEF RootedTrees, Rooted, ParentExists
    <3> QED
      BY <1>0, <2>1, <3>2, PlanFollows DEF TreesType
  <2>4. \A op \in todo' : Follows(op)' /\ (~ IsDelete(op) => Served(op.path)')
    BY <2>1, <2>2, <2>3 DEF Follows, Served
  <2> QED
    BY <2>1, <2>4 DEF BatchInv
<1>4. CASE SendNext
  <2>1. PICK op \in todo :
          /\ RemoteFirst(op, todo)
          /\ \/ /\ todo' = todo \ {op} /\ UNCHANGED <<pc, base, blocked>>
                /\ leftOut' = IF op.kind = "mkdir" /\ op.path \notin blocked
                                THEN leftOut \cup {op.path} ELSE leftOut
             \/ OpFailed(op, link)
             \/ /\ op.path \notin blocked
                /\ cur' = op /\ pc' = "wait"
                /\ UNCHANGED <<base, todo, blocked, leftOut>>
    BY <1>4 DEF SendNext
  <2>2. seen' = seen /\ pc = "send"
    BY <1>4 DEF SendNext
  <2>3. CASE /\ todo' = todo \ {op} /\ UNCHANGED <<pc, base, blocked>>
             /\ leftOut' = IF op.kind = "mkdir" /\ op.path \notin blocked
                             THEN leftOut \cup {op.path} ELSE leftOut
    <3>2. \A p \in blocked : Below[p] \subseteq blocked
      BY DEF BatchInv
    <3>3. ASSUME NEW x \in todo, op.kind = "mkdir", op.path \in Ancestors(x.path), op.path \in blocked
          PROVE  x.path \in blocked
      <4>1. x.path \in Paths
        BY <1>0 DEF Op
      <4>2. x.path \in Below[op.path]
        BY <3>3, <4>1, AncestorFacts
      <4> QED
        BY <3>2, <3>3, <4>2
    <3>4. leftOut \subseteq leftOut' /\ (op.kind = "mkdir" => op.path \in leftOut' \/ op.path \in blocked)
      BY <2>3
    <3> QED
      BY <2>2, <2>3, <3>2, <3>3, <3>4, ShorterBatch
  <2>4. CASE OpFailed(op, link)
    BY <2>2, <2>4, FailedBatch
  <2>5. CASE /\ op.path \notin blocked
             /\ cur' = op /\ pc' = "wait"
             /\ UNCHANGED <<base, todo, blocked, leftOut>>
    <3>1. \A x \in todo : Follows(x)' /\ (~ IsDelete(x) => Served(x.path)')
      BY <2>2, <2>5 DEF BatchInv, Follows, Served
    <3> QED
      BY <2>1, <2>2, <2>5, <3>1 DEF BatchInv
  <2> QED
    BY <2>1, <2>3, <2>4, <2>5
<1>5. CASE Answered
  <2>1. pc = "wait" /\ seen' = seen
    BY <1>5 DEF Answered
  <2>2. OpDone(cur) \/ OpFailed(cur, link) \/ UNCHANGED <<pc, base, todo, blocked, leftOut, cur>>
    BY <1>5, Zenon DEF Answered
  <2>3. CASE OpDone(cur)
    BY <1>0, <2>1, <2>3, DoneBatch DEF RootedTrees
  <2>4. CASE OpFailed(cur, link)
    BY <1>0, <2>1, <2>4, FailedBatch
  <2> QED
    BY <2>1, <2>2, <2>3, <2>4, QuietBatch
<1>6. CASE Disconnected
  <2>1. pc = "wait" /\ seen' = seen /\ OpFailed(cur, "none")
    BY <1>6 DEF Disconnected
  <2> QED
    BY <1>0, <2>1, FailedBatch
<1>7. \/ Scan \/ GoIdle \/ (Plan /\ ~ GoIdle) \/ SendNext \/ Answered \/ Disconnected
      \/ /\ UNCHANGED <<base, seen, todo, blocked, leftOut, cur>>
         /\ pc' = pc \/ pc' \notin {"idle", "wait"}
  <2>1. CASE Scan \/ Plan \/ SendNext \/ Answered \/ Disconnected
    BY <2>1
  <2>2. CASE Guard \/ Connect \/ Pinged \/ PushAcl \/ AclPushed \/ SaveRemoteBaseline \/ SaveRetry
    BY <2>2 DEF Guard, Connect, Pinged, PushAcl, AclPushed, SaveRemoteBaseline, SaveRetry, memory,
                sending
  <2>3. CASE Handle \/ Panic \/ Drop \/ CrashReceiver \/ StartReceiver \/ Approve \/ Unmount \/ Mount
    BY <2>3 DEF Handle, Panic, Drop, CrashReceiver, StartReceiver, Approve, Unmount, Mount, memory,
                sending
  <2>4. CASE User
    BY <2>4, UserChanges DEF memory, sending
  <2>5. CASE CrashSender \/ \E p \in Paths : BackoffOver(p)
    BY <2>5 DEF CrashSender, BackoffOver, sending
  <2>6. CASE UNCHANGED vars
    BY <2>6 DEF vars, memory, sending
  <2> QED
    BY <2>1, <2>2, <2>3, <2>4, <2>5, <2>6 DEF Next, Sender
<1> QED
  BY <1>1, <1>2, <1>3, <1>4, <1>5, <1>6, <1>7, QuietBatch

\* ChildrenWait: nothing is sent below a directory that the receiver has not acknowledged,
\* unless this pass has left out the mkdir for its backoff or quarantine, whatever fails,
\* is lost, crashes or is changed by users meanwhile.
THEOREM DirectoriesFirst == Spec => []ChildrenWait
<1>1. Init => RootedTrees /\ BatchInv
  BY DEF Init, RootedTrees, Rooted, EmptyTree, BatchInv
<1>2. TypeOK /\ Sendable /\ RootedTrees /\ BatchInv /\ [Next]_vars => RootedTrees' /\ BatchInv'
  BY RootedStep, BatchStep
<1>3. TypeOK /\ BatchInv => ChildrenWait
  <2> SUFFICES ASSUME TypeOK, BatchInv, pc = "wait", ~ IsDelete(cur), NEW q \in Ancestors(cur.path)
               PROVE  base[q].type = "dir" \/ q \in leftOut
    BY DEF ChildrenWait
  <2>1. cur \in todo /\ RemoteFirst(cur, todo) /\ cur.path \notin blocked /\ cur \in Op
    BY TypeParts DEF BatchInv, RemoteFirst, SenderType
  <2>2. Served(cur.path)
    BY <2>1 DEF BatchInv
  <2>3. \A m \in todo : m.kind = "mkdir" => m.path # q
    BY <2>1, TurnOfChildren
  <2> QED
    BY <2>1, <2>2, <2>3 DEF Served
<1> QED
  BY <1>1, <1>2, <1>3, PlansAreSent, PTL DEF Spec
============================================================================

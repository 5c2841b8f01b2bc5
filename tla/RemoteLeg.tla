----------------------------- MODULE RemoteLeg -----------------------------
(***************************************************************************)
(* The backup leg: Sender.Pass (internal/remote/sender.go) pushes the      *)
(* primary over one TCP connection to a receiver (receiver.go), guarded by *)
(* the source check, the delete budget and the retry quarantine            *)
(* (internal/guard).                                                       *)
(*                                                                         *)
(* The sender never looks at the receiver's tree.  It diffs the primary    *)
(* against remote.state, the tree the receiver has acknowledged, which it  *)
(* changes in memory per acknowledged operation and writes at the end of   *)
(* a pass.  Frames and acknowledgements are two FIFO queues; the           *)
(* connection can break, and both ends can crash, between any two steps.   *)
(***************************************************************************)
EXTENDS Reconcile, FiniteSets

CONSTANTS
    Kinds,        \* per shape: the entry types users create there
    UserOps,      \* which of "write", "mkdir", "remove", "move" users do
    LoopMarkers,  \* the sender has a service id, so connect sends a loop marker
    MaxCount,     \* delete budget: number of entries, 0 disables
    MaxPercent,   \* delete budget: share of the baseline, 0 disables
    MaxAttempts,  \* failures of a path before it is quarantined; 10 in the code
    MaxFaults,    \* bound: operations that fail at the receiver
    MaxDrops,     \* bound: lost connections
    MaxCrashes,   \* bound: crashes of sender and receiver
    MaxUnmounts,  \* bound: times the primary's dataset is unmounted
    MaxEvents     \* bound: user operations and all of these together

ASSUME TwoTrees == Locations = {"primary", "remote"}
\* A tree has a place for at least one entry, and never infinitely many; what is
\* above a path is a path.
ASSUME PathsAssumption ==
    Paths # {} /\ IsFiniteSet(Paths) /\ \A p \in Paths : Ancestors(p) \subseteq Paths
ASSUME RemoteKinds == Kinds \in [Shapes -> SUBSET {"file", "dir", "symlink"}]
ASSUME LoopMarkersAssumption == LoopMarkers \in BOOLEAN
ASSUME BudgetAssumption == MaxCount \in Nat /\ MaxPercent \in Nat
ASSUME AttemptsAssumption == MaxAttempts \in Nat \ {0}
ASSUME RemoteBounds ==
    {MaxFaults, MaxDrops, MaxCrashes, MaxUnmounts, MaxEvents} \subseteq Nat

VARIABLES
    \* the primary host
    primary,     \* the dataset's tree
    mounted,     \* FALSE: the primary's path shows the empty mount point
    savedBase,   \* remote.state
    savedRetry,  \* retry.state
    source,      \* source.id: the device recorded at the first pass
    frozen,      \* delete-freeze.txt exists
    approval,    \* delete-approve.txt exists
    \* the sender process
    pc, seen, base, retry, todo, blocked,
    leftOut,     \* history: mkdirs this pass left out for their backoff or quarantine
    cur,         \* the operation being sent
    phase,       \* which of its frames
    stat0,       \* the version sendFile saw before reading
    granted,     \* this pass runs on an approval
    \* the connection, as far as the sender knows: "none" (s.conn is nil),
    \* "up", or "down" (broken, not noticed yet)
    link, wire, acks,
    \* the receiver
    alive, remote, tmp,
    \* environment and history
    edits, faults, drops, crashes, unmounts,
    gone,        \* paths users have removed or moved away so far
    lost,        \* entries deletions of this pass have removed at the receiver
    size         \* entries in the baseline when this pass was planned

env == <<edits, faults, drops, crashes, unmounts, gone>>
store == <<savedBase, savedRetry, source, frozen, approval>>
sending == <<todo, blocked, leftOut, cur, phase, stat0, granted>>
memory == <<seen, base, retry, sending>>
net == <<link, wire, acks>>
receiver == <<alive, remote, tmp>>
budget == <<lost, size>>
vars == <<primary, mounted, store, pc, memory, net, receiver, env, budget>>

----------------------------------------------------------------------------
NoOp == MkOp("copy", "secondary", CHOOSE p \in Paths : TRUE, CHOOSE p \in Paths : TRUE,
             "none", CHOOSE p \in Paths : TRUE, 0)

FrameKinds == {"ping", "loopMarker", "mkdir", "rename", "delete", "rmdir", "symlink",
               "fileBegin", "fileData", "fileEnd", "aclCSV"}

\* ver is a symlink's target, a block's content or the hash of a whole file
\* (0: the hash "torn").
Frame == [kind : FrameKinds, path : Paths, old : Paths, ver : Versions \cup {0}]

MkFrame(kind, path, old, ver) == [kind |-> kind, path |-> path, old |-> old, ver |-> ver]
Bare(kind) == MkFrame(kind, NoOp.path, NoOp.path, 0)

\* The receiver's open temp file; one without content has version 0.
NoTmp == [open |-> FALSE, path |-> NoOp.path, ver |-> 0]
Tmp(p, v) == [open |-> TRUE, path |-> p, ver |-> v]

NoRetry == [p \in Paths |-> [attempts |-> 0, waiting |-> FALSE]]

Phases == {"op", "begin", "data", "end", "torn"}
PCs == {"idle", "scanned", "connect", "ping", "plan", "send", "wait", "acl", "save", "saveRetry"}

TypeOK ==
    /\ primary \in Tree /\ savedBase \in Tree /\ seen \in Tree /\ base \in Tree /\ remote \in Tree
    /\ retry \in [Paths -> [attempts : 0..MaxAttempts, waiting : BOOLEAN]]
    /\ savedRetry \in [Paths -> [attempts : 0..MaxAttempts, waiting : BOOLEAN]]
    /\ source \in {"none", "dataset", "parent"}
    /\ mounted \in BOOLEAN /\ frozen \in BOOLEAN /\ approval \in BOOLEAN /\ granted \in BOOLEAN
    /\ pc \in PCs /\ phase \in Phases /\ stat0 \in Versions \cup {0}
    /\ todo \subseteq Op /\ cur \in Op /\ blocked \subseteq Paths /\ leftOut \subseteq Paths
    /\ link \in {"none", "up", "down"}
    /\ wire \in Seq(Frame) /\ acks \in Seq(BOOLEAN)
    /\ alive \in BOOLEAN
    /\ tmp \in [open : BOOLEAN, path : Paths, ver : Versions \cup {0}]
    /\ edits \in 0..MaxVersion /\ faults \in 0..MaxFaults /\ drops \in 0..MaxDrops
    /\ crashes \in 0..MaxCrashes /\ unmounts \in 0..MaxUnmounts
    /\ gone \subseteq Paths /\ lost \subseteq Paths /\ size \in Nat

Init ==
    /\ primary = EmptyTree /\ savedBase = EmptyTree /\ seen = EmptyTree
    /\ base = EmptyTree /\ remote = EmptyTree
    /\ retry = NoRetry /\ savedRetry = NoRetry
    /\ source = "none"
    /\ mounted = TRUE /\ frozen = FALSE /\ approval = FALSE /\ granted = FALSE
    /\ pc = "idle" /\ phase = "op" /\ stat0 = 0
    /\ todo = {} /\ cur = NoOp /\ blocked = {} /\ leftOut = {}
    /\ link = "none" /\ wire = <<>> /\ acks = <<>>
    /\ alive = TRUE /\ tmp = NoTmp
    /\ edits = 0 /\ faults = 0 /\ drops = 0 /\ crashes = 0 /\ unmounts = 0
    /\ gone = {} /\ lost = {} /\ size = 0

\* Not all the events of the bound have happened.
Room == edits + faults + drops + crashes + unmounts < MaxEvents

----------------------------------------------------------------------------
(* The guards (guard.go) *)

\* Budget.Check's error, with Go's integer division.
OverBudget(n, total) ==
    /\ n > 0
    /\ \/ MaxCount > 0 /\ n > MaxCount
       \/ MaxPercent > 0 /\ total > 0 /\ (n * 100) \div total > MaxPercent

Quarantined(r, p) == r[p].attempts >= MaxAttempts
Skip(r, p) == Quarantined(r, p) \/ r[p].waiting
\* Mutants: attempts counted down; a single failure quarantines.
FailCountsDown(r, p) == [r EXCEPT ![p].attempts = @ - 1, ![p].waiting = TRUE]
FailQuarantines(r, p) == [r EXCEPT ![p].attempts = MaxAttempts, ![p].waiting = TRUE]
Fail(r, p) ==
    [r EXCEPT ![p] = [attempts |-> IF @.attempts < MaxAttempts THEN @.attempts + 1 ELSE @.attempts,
                      waiting |-> TRUE]]
Clear(r, p) == [r EXCEPT ![p] = [attempts |-> 0, waiting |-> FALSE]]

\* What the primary's path shows, and the device it is on.
Visible == IF mounted THEN primary ELSE EmptyTree
Device == IF mounted THEN "dataset" ELSE "parent"

----------------------------------------------------------------------------
(* The sender.  A pass ends by going idle; the connection stays.           *)

GoIdle ==
    /\ pc' = "idle"
    /\ seen' = EmptyTree
    /\ todo' = {} /\ blocked' = {} /\ leftOut' = {} /\ cur' = NoOp
    /\ phase' = "op" /\ stat0' = 0 /\ granted' = FALSE
    /\ lost' = {} /\ size' = 0

\* doPass scans the primary before it calls Sender.Pass.
Scan ==
    /\ pc = "idle"
    /\ seen' = Visible
    /\ pc' = "scanned"
    /\ UNCHANGED <<primary, mounted, store, base, retry, sending, net, receiver, env, budget>>

\* ConsumeApproval or Frozen, then CheckSource (the first pass records the
\* device) and saveSourceID.  The approval is gone whatever happens next.
Guard ==
    /\ pc = "scanned"
    /\ approval' = FALSE
    /\ frozen' = IF approval THEN FALSE ELSE frozen
    /\ \/ /\ ~ approval /\ frozen
          /\ GoIdle
          /\ UNCHANGED source
       \/ /\ approval \/ ~ frozen
          /\ source \notin {"none", Device}
          /\ GoIdle
          /\ UNCHANGED source
       \/ /\ approval \/ ~ frozen
          /\ source \in {"none", Device}
          /\ source' = Device
          /\ granted' = approval
          /\ pc' = "connect"
          /\ UNCHANGED <<seen, todo, blocked, leftOut, cur, phase, stat0, budget>>
    /\ UNCHANGED <<primary, mounted, savedBase, savedRetry, base, retry, net, receiver, env>>

\* Conn.Send on a connection that may be broken already.
Post(f) == wire' = IF link = "up" THEN Append(wire, f) ELSE wire

\* Both ends forget the connection; the receiver aborts its temp file.
Closed(state) == link' = state /\ wire' = <<>> /\ acks' = <<>> /\ tmp' = NoTmp

\* connect: a ping on the old connection, or a dial with handshake.
Connect ==
    /\ pc = "connect"
    /\ \/ /\ link # "none"
          /\ Post(Bare("ping"))
          /\ pc' = "ping"
          /\ UNCHANGED <<link, acks, seen, sending, budget>>
       \/ /\ link = "none" /\ alive
          /\ link' = "up"
          /\ wire' = IF LoopMarkers THEN <<Bare("loopMarker")>> ELSE <<>>
          /\ acks' = <<>>
          /\ pc' = "plan"
          /\ UNCHANGED <<seen, sending, budget>>
       \/ /\ link = "none" /\ ~ alive
          /\ GoIdle
          /\ UNCHANGED net
    /\ UNCHANGED <<primary, mounted, store, base, retry, receiver, env>>

\* The ping's answer; an error of any kind closes the connection and dials.
Pinged ==
    /\ pc = "ping"
    /\ \/ /\ acks # <<>> /\ Head(acks)
          /\ acks' = Tail(acks)
          /\ pc' = "plan"
          /\ UNCHANGED <<link, wire, tmp>>
       \/ /\ link = "down" \/ (acks # <<>> /\ ~ Head(acks))
          /\ Closed("none")
          /\ pc' = "connect"
    /\ UNCHANGED <<primary, mounted, store, memory, alive, remote, env, budget>>

\* Mutant: directories are left out of the count.
CountFileDeletes(ops) == Cardinality({op \in ops : op.kind = "delete"})
CountDeletes(ops) == Cardinality({op \in ops : IsDelete(op)})

\* Reconcile against the acknowledged tree; the delete budget, checked before
\* anything is sent, freezes the relationship.
Plan ==
    LET ops == MergeOps(base, seen, base, 0)
        deletes == CountDeletes(ops)
        entries == Cardinality({p \in Paths : base[p] # None})
    IN  /\ pc = "plan"
        /\ \/ /\ ~ granted /\ OverBudget(deletes, entries)
              /\ frozen' = TRUE
              /\ GoIdle
           \/ /\ granted \/ ~ OverBudget(deletes, entries)
              /\ ops = {}
              /\ GoIdle
              /\ UNCHANGED frozen
           \/ /\ granted \/ ~ OverBudget(deletes, entries)
              /\ ops # {}
              /\ todo' = ops
              /\ pc' = "send"
              /\ lost' = {} /\ size' = entries
              /\ UNCHANGED <<frozen, seen, blocked, leftOut, cur, phase, stat0, granted>>
        /\ UNCHANGED <<primary, mounted, savedBase, savedRetry, source, approval, base, retry,
                       net, receiver, env>>

\* Creates and renames ascending, then deletes descending.
RemoteFirst(op, ops) ==
    op \in ops /\ \A x \in ops \ {op} :
        IF IsDelete(op) = IsDelete(x)
          THEN IF IsDelete(op) THEN Before(x.path, op.path) ELSE Before(op.path, x.path)
          ELSE IsDelete(x)

\* Mutant: a failed operation is recorded as done.
OpFailedRecorded(op, lnk) ==
    /\ retry' = Fail(retry, op.path)
    /\ base' = [base EXCEPT ![op.path] = seen[op.path]]
    /\ todo' = IF lnk = "none" THEN {} ELSE todo \ {op}
    /\ pc' = "send" /\ cur' = NoOp /\ phase' = "op" /\ stat0' = 0
    /\ UNCHANGED <<blocked, leftOut>>

\* Mutant: a failed mkdir blocks nothing.
OpFailedBlocksNothing(op, lnk) ==
    /\ retry' = Fail(retry, op.path)
    /\ todo' = IF lnk = "none" THEN {} ELSE todo \ {op}
    /\ pc' = "send" /\ cur' = NoOp /\ phase' = "op" /\ stat0' = 0
    /\ UNCHANGED <<base, blocked, leftOut>>

\* An operation has failed: backoff, a failed mkdir blocks what is below it, a
\* lost connection (s.conn is nil) ends the batch.
OpFailed(op, lnk) ==
    /\ retry' = Fail(retry, op.path)
    /\ blocked' = IF op.kind = "mkdir" THEN blocked \cup Below[op.path] ELSE blocked
    /\ todo' = IF lnk = "none" THEN {} ELSE todo \ {op}
    /\ pc' = "send" /\ cur' = NoOp /\ phase' = "op" /\ stat0' = 0
    /\ UNCHANGED <<base, leftOut>>


\* applyToBaseline: what an acknowledged operation does to remote.state.  A
\* renamed entry keeps the metadata it had under its old name.
ApplyToBaseline(b, op) ==
    CASE op.kind \in {"delete", "rmdir"} -> IF op.kind = "rmdir" THEN RemoveAll(b, op.path)
                                                                 ELSE Remove(b, op.path)
      [] op.kind = "rename" -> IF b[op.old] # None THEN Rename(b, op.old, op.path) ELSE b
      [] OTHER -> IF seen[op.path] # None THEN [b EXCEPT ![op.path] = seen[op.path]] ELSE b

OpDone(op) ==
    /\ retry' = Clear(retry, op.path)
    /\ base' = ApplyToBaseline(base, op)
    /\ todo' = todo \ {op}
    /\ pc' = "send" /\ cur' = NoOp /\ phase' = "op" /\ stat0' = 0
    /\ UNCHANGED <<blocked, leftOut>>

\* The first frame of an operation (sendOp).
FirstFrame(op) ==
    IF op.kind = "copy"
      THEN IF seen[op.path].type = "symlink"
             THEN MkFrame("symlink", op.path, op.path, seen[op.path].ver)
             ELSE MkFrame("fileBegin", op.path, op.path, 0)
      ELSE MkFrame(op.kind, op.path, op.old, 0)

\* sendFile stats and opens the file before its first frame, and stats it again
\* before its last one.  Links dangle here, so a path that has become one fails.
Readable(p) == Visible[p].type \in {"file", "dir"}
IsFileCopy(op) == op.kind = "copy" /\ seen[op.path].type = "file"

SendNext ==
    /\ pc = "send"
    /\ \E op \in todo :
          /\ RemoteFirst(op, todo)
          /\ \/ /\ Skip(retry, op.path) \/ op.path \in blocked
                /\ todo' = todo \ {op}
                /\ leftOut' = IF op.kind = "mkdir" /\ op.path \notin blocked
                                THEN leftOut \cup {op.path} ELSE leftOut
                /\ UNCHANGED <<pc, base, retry, blocked, cur, phase, stat0, wire>>
             \/ /\ ~ Skip(retry, op.path) /\ op.path \notin blocked
                /\ IsFileCopy(op) /\ ~ Readable(op.path)
                /\ OpFailed(op, link)
                /\ UNCHANGED wire
             \/ /\ ~ Skip(retry, op.path) /\ op.path \notin blocked
                /\ IsFileCopy(op) => Readable(op.path)
                /\ Post(FirstFrame(op))
                /\ cur' = op
                /\ phase' = IF IsFileCopy(op) THEN "begin" ELSE "op"
                /\ stat0' = IF IsFileCopy(op) THEN Visible[op.path].ver ELSE 0
                /\ pc' = "wait"
                /\ UNCHANGED <<base, retry, todo, blocked, leftOut>>
    /\ UNCHANGED <<primary, mounted, store, seen, granted, link, acks, receiver, env, budget>>

\* roundtrip has read an acknowledgement.  The next frame of a file follows the
\* last one; the torn-copy check stands before the end of the file.
Answered ==
    /\ pc = "wait"
    /\ acks # <<>>
    /\ acks' = Tail(acks)
    /\ LET ok == Head(acks)
           unchanged == Visible[cur.path].ver = stat0
       IN  \/ /\ ok /\ phase \in {"op", "end"}
              /\ OpDone(cur)
              /\ UNCHANGED wire
           \/ /\ \/ ~ ok \/ phase = "torn"
                 \/ phase = "begin" /\ stat0 = 0          \* a directory by now: unreadable
                 \/ phase = "data" /\ ~ Readable(cur.path) \* the second stat fails
              /\ OpFailed(cur, link)
              /\ UNCHANGED wire
           \/ /\ ok /\ phase = "begin" /\ stat0 # 0
              /\ Post(MkFrame("fileData", cur.path, cur.path, stat0))
              /\ phase' = "data"
              /\ UNCHANGED <<pc, base, retry, todo, blocked, leftOut, cur, stat0>>
           \/ /\ ok /\ phase = "data" /\ Readable(cur.path)
              /\ Post(MkFrame("fileEnd", cur.path, cur.path, IF unchanged THEN stat0 ELSE 0))
              /\ phase' = IF unchanged THEN "end" ELSE "torn"
              /\ UNCHANGED <<pc, base, retry, todo, blocked, leftOut, cur, stat0>>
    /\ UNCHANGED <<primary, mounted, store, seen, granted, link, receiver, env, budget>>

\* roundtrip on a broken connection: s.conn becomes nil.
Disconnected ==
    /\ pc = "wait"
    /\ link = "down"
    /\ link' = "none"
    /\ OpFailed(cur, "none")
    /\ UNCHANGED <<primary, mounted, store, seen, granted, wire, acks, receiver, env, budget>>

\* After the batch: the acl.csv frame (root ACL included), whose failure is only
\* logged.
PushAcl ==
    /\ pc = "send"
    /\ todo = {}
    /\ IF link = "none" THEN pc' = "save" /\ UNCHANGED wire
                        ELSE pc' = "acl" /\ Post(Bare("aclCSV"))
    /\ UNCHANGED <<primary, mounted, store, memory, link, acks, receiver, env, budget>>

AclPushed ==
    /\ pc = "acl"
    /\ \/ /\ acks # <<>>
          /\ acks' = Tail(acks)
          /\ UNCHANGED link
       \/ /\ link = "down"
          /\ link' = "none"
          /\ UNCHANGED acks
    /\ pc' = "save"
    /\ UNCHANGED <<primary, mounted, store, memory, wire, receiver, env, budget>>

SaveRemoteBaseline ==
    /\ pc = "save"
    /\ savedBase' = base
    /\ pc' = "saveRetry"
    /\ UNCHANGED <<primary, mounted, savedRetry, source, frozen, approval, memory, net, receiver,
                   env, budget>>

SaveRetry ==
    /\ pc = "saveRetry"
    /\ savedRetry' = retry
    /\ GoIdle
    /\ UNCHANGED <<primary, mounted, savedBase, source, frozen, approval, base, retry, net,
                   receiver, env>>

Sender ==
    \/ Scan \/ Guard \/ Connect \/ Pinged \/ Plan \/ SendNext \/ Answered \/ Disconnected
    \/ PushAcl \/ AclPushed \/ SaveRemoteBaseline \/ SaveRetry

----------------------------------------------------------------------------
(* The receiver (handle): one frame, one acknowledgement.                  *)

\* What a frame does to the tree t and the temp file x: the outcome, the tree
\* and the temp file afterwards.
Outcome(ok, t, x) == [ok |-> ok, tree |-> t, tmp |-> x]

\* os.Remove of what is there, missing parents, then the link.
MakeLink(t, p, v) ==
    LET u == IF CanRemove(t, p) THEN Remove(t, p) ELSE t
        w == IF CanMkParent(u, p) THEN MkParent(u, p) ELSE u
    IN  IF CanMkParent(u, p) /\ w[p] = None THEN Outcome(TRUE, [w EXCEPT ![p] = Symlink(v)], tmp)
                                            ELSE Outcome(FALSE, w, tmp)

MoveEntry(t, old, p) ==
    LET u == IF CanMkParent(t, p) THEN MkParent(t, p) ELSE t
    IN  IF CanMkParent(t, p) /\ CanRename(u, old, p) THEN Outcome(TRUE, Rename(u, old, p), tmp)
                                                     ELSE Outcome(FALSE, u, tmp)

BeginFile(t, p) ==
    IF CanMkParent(t, p) THEN Outcome(TRUE, MkParent(t, p), Tmp(p, 0)) ELSE Outcome(FALSE, t, NoTmp)

\* finishFile: the hash must match before the rename into place.
FinishFile(t, x, hash) ==
    LET p == x.path
    IN  IF x.ver = hash /\ t[p].type # "dir" /\ ParentExists(t, p)
          THEN Outcome(TRUE, [t EXCEPT ![p] = File(hash, "remote", hash)], NoTmp)
          ELSE Outcome(FALSE, t, NoTmp)

Handled(f, t, x) ==
    CASE f.kind \in {"ping", "loopMarker", "aclCSV"} -> Outcome(TRUE, t, x)
      [] f.kind = "mkdir" -> IF CanMkdirAll(t, f.path) THEN Outcome(TRUE, MkdirAll(t, f.path), x)
                                                       ELSE Outcome(FALSE, t, x)
      [] f.kind = "rename" -> MoveEntry(t, f.old, f.path)
      [] f.kind = "delete" -> IF CanRemove(t, f.path) THEN Outcome(TRUE, Remove(t, f.path), x)
                                                      ELSE Outcome(FALSE, t, x)
      [] f.kind = "rmdir" -> Outcome(TRUE, RemoveAll(t, f.path), x)
      [] f.kind = "symlink" -> MakeLink(t, f.path, f.ver)
      [] f.kind = "fileBegin" -> BeginFile(t, f.path)
      [] f.kind = "fileData" -> IF x.open THEN Outcome(TRUE, t, Tmp(x.path, f.ver))
                                          ELSE Outcome(FALSE, t, x)
      [] f.kind = "fileEnd" -> IF x.open THEN FinishFile(t, x, f.ver) ELSE Outcome(FALSE, t, x)

\* finishFile cuts the wanted hash to 12 characters for its error message:
\* with the hash "torn" that panics, and the process ends.
Panics(f, x) == f.kind = "fileEnd" /\ x.open /\ f.ver = 0

Handle ==
    /\ alive /\ link = "up" /\ wire # <<>>
    /\ ~ Panics(Head(wire), tmp)
    /\ LET f == Head(wire)
           done == Handled(f, remote, tmp)
           erased == {p \in Paths : remote[p] # None /\ done.tree[p] = None}
       IN  \/ /\ remote' = done.tree /\ tmp' = done.tmp
              /\ acks' = Append(acks, done.ok)
              /\ lost' = IF f.kind \in {"delete", "rmdir"} THEN lost \cup erased ELSE lost
              /\ UNCHANGED faults
           \/ /\ faults < MaxFaults /\ Room
              /\ f.kind \notin {"ping", "loopMarker"}
              /\ faults' = faults + 1
              /\ acks' = Append(acks, FALSE)
              /\ tmp' = IF f.kind \in {"fileBegin", "fileData", "fileEnd"} THEN NoTmp ELSE tmp
              /\ UNCHANGED <<remote, lost>>
    /\ wire' = Tail(wire)
    /\ UNCHANGED <<primary, mounted, store, pc, memory, link, alive, edits, drops, crashes,
                   unmounts, gone, size>>

Panic ==
    /\ alive /\ link = "up" /\ wire # <<>>
    /\ Panics(Head(wire), tmp)
    /\ alive' = FALSE
    /\ Closed("down")
    /\ UNCHANGED <<primary, mounted, store, pc, memory, remote, env, budget>>

----------------------------------------------------------------------------
(* Failures, time and people *)

Drop ==
    /\ link = "up"
    /\ drops < MaxDrops /\ Room
    /\ drops' = drops + 1
    /\ Closed("down")
    /\ UNCHANGED <<primary, mounted, store, pc, memory, alive, remote, edits, faults, crashes,
                   unmounts, gone, budget>>

CrashReceiver ==
    /\ alive
    /\ crashes < MaxCrashes /\ Room
    /\ crashes' = crashes + 1
    /\ alive' = FALSE
    /\ Closed(IF link = "up" THEN "down" ELSE link)
    /\ UNCHANGED <<primary, mounted, store, pc, memory, remote, edits, faults, drops, unmounts,
                   gone, budget>>

StartReceiver ==
    /\ ~ alive
    /\ alive' = TRUE
    /\ UNCHANGED <<primary, mounted, store, pc, memory, net, remote, tmp, env, budget>>

\* The sender dies and is restarted: Init loads remote.state and retry.state.
CrashSender ==
    /\ crashes < MaxCrashes /\ Room
    /\ crashes' = crashes + 1
    /\ base' = savedBase /\ retry' = savedRetry
    /\ GoIdle
    /\ Closed("none")
    /\ UNCHANGED <<primary, mounted, store, alive, remote, edits, faults, drops, unmounts, gone>>

\* The backoff window of a path closes (its end is in retry.state too).
BackoffOver(p) ==
    /\ retry[p].waiting \/ savedRetry[p].waiting
    /\ retry' = [retry EXCEPT ![p].waiting = FALSE]
    /\ savedRetry' = [savedRetry EXCEPT ![p].waiting = FALSE]
    /\ UNCHANGED <<primary, mounted, savedBase, source, frozen, approval, pc, seen, base, sending,
                   net, receiver, env, budget>>

\* The operator renames delete-freeze.txt to delete-approve.txt.
Approve ==
    /\ frozen
    /\ frozen' = FALSE /\ approval' = TRUE
    /\ UNCHANGED <<primary, mounted, savedBase, savedRetry, source, pc, memory, net, receiver,
                   env, budget>>

\* The relationship has been set up with the dataset mounted.
Unmount ==
    /\ mounted
    /\ source = "dataset"
    /\ unmounts < MaxUnmounts /\ Room
    /\ unmounts' = unmounts + 1
    /\ mounted' = FALSE
    /\ UNCHANGED <<primary, store, pc, memory, net, receiver, edits, faults, drops, crashes, gone,
                   budget>>

Mount ==
    /\ ~ mounted
    /\ mounted' = TRUE
    /\ UNCHANGED <<primary, store, pc, memory, net, receiver, env, budget>>

UserStep(kind, t) ==
    /\ kind \in UserOps
    /\ mounted
    /\ edits < MaxVersion /\ Room
    /\ edits' = edits + 1
    /\ primary' = t
    /\ gone' = gone \cup {p \in Paths : primary[p] # None /\ t[p] = None}
    /\ UNCHANGED <<mounted, store, pc, memory, net, receiver, faults, drops, crashes, unmounts,
                   budget>>

\* A file that is written has a size and mtime it never had; a symlink is its target,
\* which may be one it had before.
User ==
    \E p \in OriginalPaths :
        \/ /\ ParentExists(primary, p) /\ primary[p].type # "dir" /\ "file" \in Kinds[ShapeOf(p)]
           /\ UserStep("write", [primary EXCEPT ![p] = File(edits + 1, "primary", edits + 1)])
        \/ /\ ParentExists(primary, p) /\ primary[p].type # "dir" /\ "symlink" \in Kinds[ShapeOf(p)]
           /\ \E v \in 1..(edits + 1) : UserStep("write", [primary EXCEPT ![p] = Symlink(v)])
        \/ /\ ParentExists(primary, p) /\ primary[p] = None /\ "dir" \in Kinds[ShapeOf(p)]
           /\ UserStep("mkdir", [primary EXCEPT ![p] = Dir])
        \/ /\ primary[p] # None
           /\ UserStep("remove", RemoveAll(primary, p))
        \/ \E q \in OriginalPaths :
              /\ primary[q] = None /\ primary[p].type \in Kinds[ShapeOf(q)]
              /\ CanRename(primary, p, q)
              /\ UserStep("move", Rename(primary, p, q))

----------------------------------------------------------------------------
Next ==
    \/ Sender
    \/ Handle \/ Panic
    \/ Drop \/ CrashReceiver \/ StartReceiver \/ CrashSender
    \/ \E p \in Paths : BackoffOver(p)
    \/ Approve \/ Unmount \/ Mount
    \/ User

Spec == Init /\ [][Next]_vars

\* The safety net starts passes for ever, a running pass and the receiver go on,
\* a receiver that died is started again, backoff windows end, a freeze is
\* approved in the end and an unmounted dataset comes back.
FairSpec ==
    /\ Spec
    /\ WF_vars(Sender) /\ WF_vars(Handle \/ Panic) /\ WF_vars(StartReceiver)
    /\ WF_vars(Approve) /\ WF_vars(Mount)
    /\ \A p \in Paths : WF_vars(BackoffOver(p))

----------------------------------------------------------------------------
(* Properties *)

\* p would not be sent: its entry on the primary equals the one in the acknowledged
\* tree, in memory or in remote.state.
NotPending(p) ==
    /\ primary[p] # None
    /\ SameIdentity(primary[p], base[p]) \/ SameIdentity(primary[p], savedBase[p])

\* Sender's comment: anything whose primary state differs from the baseline is
\* pending.  So between passes what is not pending is backed up.
NotPendingIsStored ==
    pc = "idle" => \A p \in Paths : NotPending(p) => SameIdentity(primary[p], remote[p])

\* The same for files alone.  A file that users write has an mtime of its own; the
\* target of a symlink can come back, and what is at the receiver for it is then
\* another one if an acknowledgement was lost in between.
NotPendingFilesAreStored ==
    pc = "idle" =>
        \A p \in Paths :
            NotPending(p) /\ primary[p].type = "file" => SameIdentity(primary[p], remote[p])

\* The delete budget bounds what a pass without approval really removes from the
\* backup, not only what it planned to.
BudgetBoundsLoss == ~ granted => ~ OverBudget(Cardinality(lost), size)

\* CheckSource: an unmounted source propagates no deletion.  The backup loses
\* only what users removed.
OnlyUsersDelete == lost \subseteq gone

\* "so the receiver discards the temp file and errors this op" (sendFile): a
\* file that changes while it is sent does not end the receiver.
TornCopyIsDiscarded == crashes = 0 => alive

\* "A failed mkdir BLOCKS its children" (Pass): nothing is created below a
\* directory that the receiver has not acknowledged.
MkdirBeforeChildren ==
    pc = "wait" /\ ~ IsDelete(cur) => \A q \in Ancestors(cur.path) : base[q].type = "dir"

\* The one way round it is a mkdir that the batch leaves out for its backoff window or
\* quarantine, which blocks nothing.  Otherwise a mkdir stands before what is below it,
\* and one that has failed in this pass keeps it back, whatever else fails or changes.
ChildrenWait ==
    pc = "wait" /\ ~ IsDelete(cur) =>
        \A q \in Ancestors(cur.path) : base[q].type = "dir" \/ q \in leftOut

\* Once users are done, every entry of the primary gets to the receiver.
BackupComplete == <>[](\A p \in Paths : primary[p] # None => SameIdentity(primary[p], remote[p]))

\* ... and the receiver has nothing else.
BackupMirrors == <>[](\A p \in Paths : SameIdentity(primary[p], remote[p]))

============================================================================

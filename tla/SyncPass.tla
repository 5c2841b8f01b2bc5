------------------------------ MODULE SyncPass ------------------------------
(***************************************************************************)
(* The reconcile pass of main.go (doPass) run by one or more services that *)
(* share a primary, its state file and its pass lock, while users change   *)
(* the trees and services crash.                                           *)
(*                                                                         *)
(* Service s keeps a secondary tree of its own.  Its mode is "sync" (both  *)
(* ways), "push" (primary is the source) or "pull" (the secondary is).     *)
(* The lock is abstract here: PassLock models the lock file.               *)
(***************************************************************************)
EXTENDS Reconcile, FiniteSets

CONSTANTS
    Services,         \* names of the services
    Mode,             \* [Services -> {"sync", "push", "pull"}]
    Kinds,            \* per shape: the entry types users create there
    EditedLocations,  \* the trees users work on
    UserOps,          \* which of "write", "mkdir", "remove", "move" users do
    ClockStands,      \* do all passes fall into one second?
    EditsDuringPass,  \* may users change a tree while a pass runs?
    Faults,           \* which of "op", "scan", "save" may fail
    MaxFaults,        \* bound: failures of the above
    MaxCrashes,       \* bound: crashes of services
    MaxEvents         \* bound: user operations, failures and crashes together

Primary == "primary"

ASSUME LocationsAreTheServices == Locations = Services \cup {Primary} /\ Primary \notin Services
ASSUME ModeAssumption == Mode \in [Services -> {"sync", "push", "pull"}]
ASSUME KindsAssumption == Kinds \in [Shapes -> SUBSET {"file", "dir", "symlink"}]
ASSUME EditedLocationsAssumption == EditedLocations \subseteq Locations
ASSUME ClockAssumption == ClockStands \in BOOLEAN
ASSUME FaultBoundsAssumption == {MaxFaults, MaxCrashes, MaxEvents} \subseteq Nat

VARIABLES
    tree,      \* location -> what is on disk
    baseline,  \* cs-sync.state, shared by all services of the primary
    lock,      \* the service in a pass, or "none"
    pc,        \* service -> where its pass is
    view,      \* service -> the primary tree this pass has scanned
    todo,      \* service -> operations not applied yet
    newBase,   \* service -> the baseline to save after the operations
    now,       \* nowStamp, in seconds in which there is a conflict
    \* environment and history
    edits,     \* number of user operations so far; names the next version
    live,      \* versions no user has overwritten or deleted
    crashes, faults

disk == <<tree, baseline>>
pass == <<pc, view, todo, newBase>>
history == <<edits, live, crashes, faults>>
vars == <<tree, baseline, lock, pc, view, todo, newBase, now, edits, live, crashes, faults>>

TypeOK ==
    /\ tree \in [Locations -> Tree]
    /\ baseline \in Tree
    /\ lock \in Services \cup {"none"}
    /\ pc \in [Services -> {"idle", "scanned", "apply"}]
    /\ view \in [Services -> Tree]
    /\ todo \in [Services -> SUBSET Op]
    /\ newBase \in [Services -> Tree]
    /\ now \in 1..(MaxStamp + 1)
    /\ edits \in 0..MaxVersion
    /\ live \subseteq Versions
    /\ crashes \in 0..MaxCrashes
    /\ faults \in 0..MaxFaults

Init ==
    /\ tree = [l \in Locations |-> EmptyTree]
    /\ baseline = EmptyTree
    /\ lock = "none"
    /\ pc = [s \in Services |-> "idle"]
    /\ view = [s \in Services |-> EmptyTree]
    /\ todo = [s \in Services |-> {}]
    /\ newBase = [s \in Services |-> EmptyTree]
    /\ now = 1
    /\ edits = 0
    /\ live = {}
    /\ crashes = 0
    /\ faults = 0

----------------------------------------------------------------------------
(* Where a service's sides live *)

Source(s) == IF Mode[s] = "pull" THEN s ELSE Primary
Mirror(s) == IF Mode[s] = "pull" THEN Primary ELSE s
LocationOf(s, side) == IF side = "primary" THEN Primary ELSE s

----------------------------------------------------------------------------
(* The pass *)

EndPass(s) ==
    /\ lock' = "none"
    /\ pc' = [pc EXCEPT ![s] = "idle"]
    /\ view' = [view EXCEPT ![s] = EmptyTree]
    /\ todo' = [todo EXCEPT ![s] = {}]
    /\ newBase' = [newBase EXCEPT ![s] = EmptyTree]

\* Not all the events of the bound have happened.
Room == edits + crashes + faults < MaxEvents

MayFail(kind) == kind \in Faults /\ faults < MaxFaults /\ Room

\* A scan skips entries it cannot read, with everything below them.
Scans(t) ==
    {t} \cup (IF MayFail("scan")
              THEN {RemoveAll(t, p) : p \in {q \in Paths : t[q] # None}} ELSE {})

ScanFault(seen, t) == faults' = IF seen = t THEN faults ELSE faults + 1

\* lock.Acquire, state.Load and scanner.Scan of the primary.  The baseline is
\* read under the lock, so it is taken from the state file when it is used.
Begin(s) ==
    /\ pc[s] = "idle"
    /\ lock = "none"
    /\ lock' = s
    /\ pc' = [pc EXCEPT ![s] = "scanned"]
    /\ \E seen \in Scans(tree[Primary]) :
          /\ view' = [view EXCEPT ![s] = seen]
          /\ ScanFault(seen, tree[Primary])
    /\ UNCHANGED <<disk, todo, newBase, now, edits, live, crashes>>

\* Mutant: the stored baseline is not overridden.
PassBaselineStored(s, prim, sec) == baseline

\* forceOneway: the baseline is pinned to what the mirror looks like.
PassBaseline(s, prim, sec) ==
    CASE Mode[s] = "sync" -> baseline
      [] Mode[s] = "push" -> sec
      [] Mode[s] = "pull" -> prim

\* Scan of the secondary and Reconcile.  Without operations the pass returns at
\* once and saves nothing.
Merge(s) ==
    /\ pc[s] = "scanned"
    /\ \E sec \in Scans(tree[s]) :
          LET base == PassBaseline(s, view[s], sec)
              ops == MergeOps(base, view[s], sec, now)
              conflicts == Conflicts(base, view[s], sec)
          IN  /\ conflicts # {} => now <= MaxStamp
              /\ now' = IF conflicts # {} /\ ~ ClockStands THEN now + 1 ELSE now
              /\ ScanFault(sec, tree[s])
              /\ \/ ops = {} /\ EndPass(s)
                 \/ /\ ops # {}
                    /\ todo' = [todo EXCEPT ![s] = ops]
                    /\ newBase' = [newBase EXCEPT ![s] = NewBaseline(base, view[s], sec, now)]
                    /\ pc' = [pc EXCEPT ![s] = "apply"]
                    /\ view' = [view EXCEPT ![s] = EmptyTree]
                    /\ UNCHANGED lock
    /\ UNCHANGED <<disk, edits, live, crashes>>

\* applyOne on the tree of the operation's side; an operation that fails may
\* still have created its parent directories.
ApplyOne(op, src, t, l) ==
    CASE op.kind = "mkdir"  -> IF CanMkdirAll(t, op.path) THEN MkdirAll(t, op.path) ELSE t
      [] op.kind = "rmdir"  -> RemoveAll(t, op.path)
      [] op.kind = "delete" -> IF CanRemove(t, op.path) THEN Remove(t, op.path) ELSE t
      [] op.kind = "rename" ->
             LET u == IF CanMkParent(t, op.path) THEN MkParent(t, op.path) ELSE t
             IN  IF CanRename(u, op.old, op.path) THEN Rename(u, op.old, op.path) ELSE u
      [] op.kind = "conflictRename" ->
             IF CanRename(t, op.old, op.path) THEN Rename(t, op.old, op.path) ELSE t
      [] op.kind = "copy" ->
             LET u == IF CanMkParent(t, op.path) THEN MkParent(t, op.path) ELSE t
             IN  IF CanMkParent(t, op.path) /\ CanCopy(src, u, op.path, op.type)
                   THEN Copy(src, u, l, op.path, op.type) ELSE u

\* The next operation in applyOrdered's order.  apply.Apply's errors are logged
\* and dropped: the pass goes on.
ApplyNext(s) ==
    /\ pc[s] = "apply"
    /\ \E op \in todo[s] :
          LET l == LocationOf(s, op.dst)
              src == tree[LocationOf(s, OtherSide(op.dst))]
          IN  /\ IsFirst(op, todo[s])
              /\ todo' = [todo EXCEPT ![s] = @ \ {op}]
              /\ \/ /\ tree' = [tree EXCEPT ![l] = ApplyOne(op, src, tree[l], l)]
                    /\ UNCHANGED faults
                 \/ /\ MayFail("op")
                    /\ faults' = faults + 1
                    /\ UNCHANGED tree
    /\ UNCHANGED <<baseline, lock, pc, view, newBase, now, edits, live, crashes>>

\* state.Save (temp file, fsync, rename: all or nothing), then the deferred
\* Unlock.  A failed save is only logged.
Save(s) ==
    /\ pc[s] = "apply"
    /\ todo[s] = {}
    /\ \/ /\ baseline' = newBase[s]
          /\ UNCHANGED faults
       \/ /\ MayFail("save")
          /\ faults' = faults + 1
          /\ UNCHANGED baseline
    /\ EndPass(s)
    /\ UNCHANGED <<tree, now, edits, live, crashes>>

\* The process dies in a pass; its lock file goes stale and is stolen.
Crash(s) ==
    /\ pc[s] # "idle"
    /\ crashes < MaxCrashes /\ Room
    /\ crashes' = crashes + 1
    /\ EndPass(s)
    /\ UNCHANGED <<disk, now, edits, live, faults>>

Engine(s) == Begin(s) \/ Merge(s) \/ ApplyNext(s) \/ Save(s)

----------------------------------------------------------------------------
(* Users *)

VersionsIn(t, p) == {t[q].ver : q \in {x \in Paths : Beneath(p, x)}} \ {0}

\* One user operation on tree l; lost are the versions it gives up.
UserStep(kind, l, t, new, lost) ==
    /\ kind \in UserOps
    /\ edits < MaxVersion /\ Room
    /\ EditsDuringPass \/ lock = "none"
    /\ tree' = [tree EXCEPT ![l] = t]
    /\ edits' = edits + 1
    /\ live' = (live \ lost) \cup new
    /\ UNCHANGED <<baseline, lock, pass, now, crashes, faults>>

\* Create a file or a symlink, or change one: a file in place or, as editors
\* do, by replacing it with a new one.  A symlink gets a target it never had:
\* one that equals the baseline's or the other side's is no change to the merge.
UserWrite(l, p) ==
    LET v == edits + 1
        old == tree[l][p]
    IN  /\ ParentExists(tree[l], p)
        /\ old.type # "dir"
        /\ \/ /\ "file" \in Kinds[ShapeOf(p)]
              /\ \E i \in {v} \cup (IF old.type = "file" THEN {old.ino} ELSE {}) :
                    UserStep("write", l, [tree[l] EXCEPT ![p] = File(v, l, i)], {v}, {old.ver})
           \/ /\ "symlink" \in Kinds[ShapeOf(p)]
              /\ UserStep("write", l, [tree[l] EXCEPT ![p] = Symlink(v)], {v}, {old.ver})

UserMkdir(l, p) ==
    /\ ParentExists(tree[l], p)
    /\ tree[l][p] = None
    /\ "dir" \in Kinds[ShapeOf(p)]
    /\ UserStep("mkdir", l, [tree[l] EXCEPT ![p] = Dir], {}, {})

UserRemove(l, p) ==
    /\ tree[l][p] # None
    /\ UserStep("remove", l, RemoveAll(tree[l], p), {}, VersionsIn(tree[l], p))

UserMove(l, p, q) ==
    /\ tree[l][q] = None
    /\ tree[l][p].type \in Kinds[ShapeOf(q)]
    /\ CanRename(tree[l], p, q)
    /\ UserStep("move", l, Rename(tree[l], p, q), {}, {})

User ==
    \E l \in EditedLocations, p \in OriginalPaths :
        \/ UserWrite(l, p)
        \/ UserMkdir(l, p)
        \/ UserRemove(l, p)
        \/ \E q \in OriginalPaths : UserMove(l, p, q)

----------------------------------------------------------------------------
Next ==
    \/ \E s \in Services : Engine(s) \/ Crash(s)
    \/ User

Spec == Init /\ [][Next]_vars

\* The safety-net rescan triggers a pass again and again and a running pass goes
\* on (WF).  A service that waits for the lock retries every 20 ms for 10 s and
\* then takes it, so it is not kept out forever (SF).
FairSpec == Spec /\ \A s \in Services : WF_vars(Engine(s)) /\ SF_vars(Begin(s))

----------------------------------------------------------------------------
(* Properties *)

InSync(s) == \A p \in Paths : SameIdentity(tree[Primary][p], tree[s][p])

\* "Primary wins, nothing lost" (reconcile.go, conflict and conflictDelete): a
\* version no user has overwritten or deleted is always on disk somewhere, also
\* between the operations of a pass and after a crash in the middle of one.
NothingLost ==
    \A v \in live : \E l \in Locations, p \in Paths : tree[l][p].ver = v

\* Result.NewBaseline is "the baseline AFTER ops are applied": when a pass is
\* about to save it, both sides look exactly as it says.  A baseline that lies
\* makes a later pass take an untouched file for an edit or a deletion.
SavedBaselineIsTrue ==
    \A s \in Services : pc[s] = "apply" /\ todo[s] = {} =>
        \A p \in Paths : /\ SameIdentity(newBase[s][p], tree[Primary][p])
                         /\ SameIdentity(newBase[s][p], tree[s][p])

\* Once users are done, passes bring every secondary in line with the primary
\* for good (doPass with forceOneway or the three-way merge), whatever crashed
\* or failed before.
Converges == <>[](\A s \in Services : InSync(s))

\* forceOneway: no step of a one-way service ever changes its source tree,
\* whatever users do to the mirror, whichever operations fail and wherever the
\* service crashes.
SourceUntouched ==
    [][\A s \in Services :
          (Mode[s] # "sync" /\ (Engine(s) \/ Crash(s)))
              => tree'[Source(s)] = tree[Source(s)]]_vars

\* Why it holds: every pending operation of a one-way service is one on its
\* mirror.  (The inductive invariant behind SourceUntouched.)
TodoTargetsMirror ==
    \A s \in Services : Mode[s] # "sync" =>
        \A op \in todo[s] : LocationOf(s, op.dst) = Mirror(s)

\* conflictDelete's comment: "if the modify happened on primary, primary's
\* content wins at the original path".  No step of a pass takes a version that a
\* user wrote on the primary since the last baseline away from its path.
PrimaryContentWins ==
    [][\A p \in OriginalPaths :
          (/\ \E s \in Services : Engine(s)
           /\ tree[Primary][p].ver \in live
           /\ ~ SameIdentity(tree[Primary][p], baseline[p]))
              => tree'[Primary][p].ver = tree[Primary][p].ver]_vars

\* Reconcile's comment on a path "gone on both sides": "drop from baseline".  A
\* pass that ends knows no path that it has seen on neither side.
GoneEntriesAreDropped ==
    [][\A s \in Services :
          (pc[s] = "scanned" /\ Merge(s) /\ pc'[s] = "idle")
              => \A p \in Paths : view[s][p] = None /\ tree[s][p] = None
                                      => baseline'[p] = None]_vars
============================================================================

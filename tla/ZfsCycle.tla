----------------------------- MODULE ZfsCycle -----------------------------
(***************************************************************************)
(* Local ZFS replication (zfs.go): the cycle that snapshots the primary    *)
(* dataset, sends the snapshot to the backup dataset and rotates the       *)
(* service's snapshots on both, and recoverCycle, which derives from the   *)
(* snapshots themselves where an interrupted cycle stopped.                *)
(*                                                                         *)
(* Every zfs command that changes something is a step; it may fail, and    *)
(* the host may go down before it.  A number of a GUID that nothing refers *)
(* to any more is used again.                                              *)
(***************************************************************************)
EXTENDS ZfsStore

CONSTANTS
    KeepOnPrimary,  \* --versions: kept snapshots on the primary too
    RollbackAuto,   \* --rollback auto
    Freeze,         \* a daily snapshot goes through cs-freeze4snap
    MaxFaults,      \* bound: zfs commands that fail
    MaxCrashes,     \* bound: times the host goes down
    MaxRollbacks    \* bound: rollbacks of the primary by its operator

ASSUME ZfsSwitches == {KeepOnPrimary, RollbackAuto, Freeze} \subseteq BOOLEAN
ASSUME ZfsBounds == {MaxFaults, MaxCrashes, MaxRollbacks} \subseteq Nat

Datasets == {"primary", "backup"}

Pairs == (0..MaxGuid) \X (0..MaxGuid)
NoPair == <<0, 0>>

VARIABLES
    snaps,      \* dataset -> slot -> snapshot (listSnaps)
    data,       \* what the primary holds
    backup,     \* "absent", "partial" (an unfinished first receive) or "ready"
    token,      \* receive_resume_token of the backup: GUID of the snapshot, or 0
    tag,        \* cs:sync of the backup names this primary
    blocked,    \* <id>.blocked: the base and the newest backup snapshot
    approve,    \* <id>.approve
    pc,         \* the next command
    on,         \* the dataset being rotated
    recovering, \* the rotation belongs to recoverCycle
    cons,       \* takeSnapshot's result: this snapshot was taken frozen
    tried,      \* freezeTried; MaxHour + 1: never
    hour,
    \* environment and history
    writes, faults, crashes, rollbacks,
    agreed      \* backup snapshots the operator has agreed to lose

store == <<snaps, backup, token, tag>>
files == <<blocked, approve>>
process == <<pc, on, recovering, cons, tried>>
env == <<hour, writes, crashes, rollbacks>>
vars == <<snaps, data, backup, token, tag, blocked, approve, pc, on, recovering, cons, tried, hour,
          writes, faults, crashes, rollbacks, agreed>>

Stages == {"idle", "dropBackup", "dropPrimary", "check", "snap", "full", "setTag", "resume",
           "decide", "incr", "consume", "confirm", "mark", "fail"} \cup RotateStages

TypeOK ==
    /\ snaps \in [Datasets -> Listing]
    /\ data \in 0..MaxWrites
    /\ backup \in {"absent", "partial", "ready"}
    /\ token \in 0..MaxGuid /\ tag \in BOOLEAN
    /\ blocked \in Pairs /\ approve \in Pairs
    /\ pc \in Stages /\ on \in Datasets /\ recovering \in BOOLEAN
    /\ cons \in BOOLEAN /\ tried \in 0..(MaxHour + 1)
    /\ hour \in Hours
    /\ writes \in 0..MaxWrites /\ faults \in 0..MaxFaults
    /\ crashes \in 0..MaxCrashes /\ rollbacks \in 0..MaxRollbacks
    /\ agreed \subseteq 0..MaxGuid

Init ==
    /\ snaps = [d \in Datasets |-> Empty]
    /\ data = 0
    /\ backup = "absent" /\ token = 0 /\ tag = FALSE
    /\ blocked = NoPair /\ approve = NoPair
    /\ pc = "idle" /\ on = "primary" /\ recovering = FALSE
    /\ cons = FALSE /\ tried = MaxHour + 1
    /\ hour = 0
    /\ writes = 0 /\ faults = 0 /\ crashes = 0 /\ rollbacks = 0
    /\ agreed = {}

----------------------------------------------------------------------------
(* Snapshots *)

P == snaps["primary"]
B == snaps["backup"]

NextGuid ==
    1 + MaxOf(Guids(P) \cup Guids(B)
                \cup {token, blocked[1], blocked[2], approve[1], approve[2]})

\* The newest snapshot the two datasets have in common; pl was listed before
\* the new snapshot was taken.
Base == MaxOf((Guids(P) \ {P[New].guid}) \cap Guids(B))
Newest == MaxOf(Guids(B))

Put(d, s, x) == [snaps EXCEPT ![d][s] = x]

\* The command fails.
Fault == faults < MaxFaults /\ faults' = faults + 1

Goto(stage) == pc' = stage /\ UNCHANGED <<on, recovering, cons, tried>>
Rotate(d, rec) == pc' = "keep" /\ on' = d /\ recovering' = rec /\ UNCHANGED <<cons, tried>>

\* The cycle returns.
Return == pc' = "idle" /\ on' = "primary" /\ recovering' = FALSE /\ cons' = FALSE
          /\ UNCHANGED tried

----------------------------------------------------------------------------
(* recoverCycle *)

\* What is left of a cycle whose snapshot the backup does not have.
DropStage == IF Has(P, New) THEN "dropPrimary" ELSE "check"

RecoverCycle ==
    LET pn == P[New]
        bn == B[New]
    IN  /\ pc = "idle"
        /\ \/ /\ bn = NoSnap                        \* also: the backup does not exist
              /\ Goto(DropStage)
              /\ UNCHANGED faults
           \/ /\ bn # NoSnap /\ bn.guid = pn.guid
              /\ Rotate("primary", TRUE)
              /\ UNCHANGED faults
           \/ /\ bn # NoSnap /\ bn.guid # pn.guid
              /\ bn.guid = P[N0].guid \* the primary has rotated
              /\ Rotate("backup", TRUE)
              /\ UNCHANGED faults
           \/ /\ bn # NoSnap /\ bn.guid \notin {pn.guid, P[N0].guid}
              /\ Goto("dropBackup")
              /\ UNCHANGED faults
           \/ /\ bn # NoSnap                        \* zfsExists takes an error for "no"
              /\ Fault
              /\ Goto(DropStage)
        /\ UNCHANGED <<store, data, files, env, agreed>>

\* destroySnap of a dataset's leftover.
Drop(d, next) ==
    /\ \/ /\ snaps' = Put(d, New, NoSnap)
          /\ Goto(next)
          /\ UNCHANGED faults
       \/ /\ Fault
          /\ Return
          /\ UNCHANGED snaps
    /\ UNCHANGED <<data, backup, token, tag, files, env, agreed>>

DropBackup == pc = "dropBackup" /\ Drop("backup", DropStage)
DropPrimary == pc = "dropPrimary" /\ Drop("primary", "check")

----------------------------------------------------------------------------
(* cycle *)

\* Nothing written since n0?  An error counts as a change.
Check ==
    /\ pc = "check"
    /\ LET idle == Has(P, N0) /\ P[N0].data = data
       IN  \/ idle /\ Return /\ UNCHANGED faults
           \/ ~ idle /\ Goto("snap") /\ UNCHANGED faults
           \/ idle /\ Fault /\ Goto("snap")
    /\ UNCHANGED <<store, data, files, env, agreed>>

\* takeSnapshot: the first one of a day goes through the freeze tool, which may
\* freeze the guest or not; if it fails, what it left is destroyed and a plain
\* snapshot is tried, which fails when the name exists.
TakeSnapshot ==
    LET due == Freeze /\ tried # Day(hour)
        new == [guid |-> NextGuid, created |-> hour, data |-> data, frozen |-> FALSE]
    IN  /\ pc = "snap"
        /\ NextGuid <= MaxGuid
        /\ tried' = IF due THEN Day(hour) ELSE tried
        /\ \/ /\ ~ Has(P, New)
              /\ snaps' = Put("primary", New, new)
              /\ cons' \in IF due THEN BOOLEAN ELSE {FALSE}
              /\ pc' = IF backup = "absent" THEN "full" ELSE IF token # 0 THEN "resume" ELSE "decide"
              /\ UNCHANGED <<faults, on, recovering>>
           \/ /\ due
              /\ snaps' = Put("primary", New, NoSnap)
              /\ UNCHANGED <<faults, pc, on, recovering, cons>>
           \/ /\ ~ due
              /\ IF Has(P, New) THEN UNCHANGED faults ELSE Fault
              /\ pc' = "idle" /\ on' = "primary" /\ recovering' = FALSE /\ cons' = FALSE
              /\ UNCHANGED snaps
        /\ UNCHANGED <<data, backup, token, tag, files, env, agreed>>

\* A receive that breaks off keeps its partial state (recv -s) or nothing.
FullBroken ==
    \/ UNCHANGED store
    \/ backup' = "partial" /\ token' = P[New].guid /\ UNCHANGED <<snaps, tag>>

FullSend ==
    /\ pc = "full"
    /\ \/ /\ snaps' = Put("backup", New, P[New])
          /\ backup' = "ready"
          /\ Goto("setTag")
          /\ UNCHANGED <<token, tag, faults>>
       \/ /\ Fault
          /\ FullBroken
          /\ Goto("fail")
    /\ UNCHANGED <<data, files, env, agreed>>

\* zfs set readonly, canmount and cs:sync; errors are ignored.
SetTag ==
    /\ pc = "setTag"
    /\ \/ tag' = TRUE /\ UNCHANGED faults
       \/ Fault /\ UNCHANGED tag
    /\ Goto("confirm")
    /\ UNCHANGED <<snaps, data, backup, token, files, env, agreed>>

\* send -t needs the snapshot of the token.  It had the name that the snapshot
\* of this cycle has now, so it is gone: the resume fails, and recv -A discards
\* the partial state, and an unfinished backup with it.
Resume ==
    /\ pc = "resume"
    /\ \/ /\ token' = 0
          /\ backup' = IF backup = "partial" THEN "absent" ELSE backup
          /\ UNCHANGED faults
       \/ /\ Fault
          /\ UNCHANGED <<token, backup>>
    /\ Goto("decide")
    /\ UNCHANGED <<snaps, data, tag, files, env, agreed>>

\* Mutants: being asked is enough; the GUIDs in the wrong order.
ApprovedAsked(base, newest) == blocked = <<base, newest>>
ApprovedSwapped(base, newest) == approve = <<newest, base>>

Approved(base, newest) == approve = <<base, newest>>

\* cs:sync, the common base and the rollback that recv -F would mean; one of the
\* queries may fail.
Decide ==
    LET rollback == Base # Newest /\ ~ RollbackAuto /\ ~ Approved(Base, Newest)
        refused == ~ tag \/ Base = 0
    IN  /\ pc = "decide"
        /\ \/ /\ blocked' = IF ~ refused /\ rollback THEN <<Base, Newest>> ELSE blocked
              /\ Goto(IF refused \/ rollback THEN "fail" ELSE "incr")
              /\ UNCHANGED faults
           \/ /\ Fault
              /\ Goto("fail")
              /\ UNCHANGED blocked
        /\ UNCHANGED <<store, data, approve, env, agreed>>

\* A broken incremental receive may have rolled the backup back already.
IncrBroken ==
    /\ \/ UNCHANGED snaps
       \/ snaps' = [snaps EXCEPT !["backup"] = RolledBack(B, Base)]
    /\ token' \in {token, P[New].guid}
    /\ UNCHANGED <<backup, tag>>

\* recv refuses a name that exists and a dataset with partial state.
Receivable == token = 0 /\ ~ Has(B, New)

IncrSend ==
    /\ pc = "incr"
    /\ \/ /\ Receivable
          /\ snaps' = [snaps EXCEPT !["backup"] =
                          [RolledBack(B, Base) EXCEPT ![New] = P[New]]]
          /\ Goto("consume")
          /\ UNCHANGED <<backup, token, tag, faults>>
       \/ /\ ~ Receivable
          /\ Goto("fail")
          /\ UNCHANGED <<store, faults>>
       \/ /\ Receivable /\ Fault
          /\ IncrBroken
          /\ Goto("fail")
    /\ UNCHANGED <<data, files, env, agreed>>

\* Mutant: the approval file is emptied, not removed.
ConsumeTruncates ==
    /\ pc = "consume"
    /\ approve' = <<>>
    /\ agreed' = {}
    /\ Goto("confirm")
    /\ UNCHANGED <<store, data, blocked, env, faults>>

\* The approval is good for one rollback.
Consume ==
    /\ pc = "consume"
    /\ approve' = NoPair
    /\ agreed' = {}
    /\ Goto("confirm")
    /\ UNCHANGED <<store, data, blocked, env, faults>>

\* The GUIDs agree; cs:consistent is set on the primary's snapshot, then on the
\* backup's.  Errors are ignored.
MarkOn(d, next) ==
    /\ \/ /\ snaps' = [snaps EXCEPT ![d][New].frozen = cons]
          /\ UNCHANGED faults
       \/ /\ cons /\ Fault
          /\ UNCHANGED snaps
    /\ next
    /\ UNCHANGED <<data, backup, token, tag, files, env, agreed>>

\* A listing that fails counts as "not confirmed".
Confirm ==
    /\ pc = "confirm"
    /\ \/ /\ P[New].guid = B[New].guid
          /\ MarkOn("primary", Goto("mark"))
       \/ /\ Fault
          /\ Goto("fail")
          /\ UNCHANGED <<store, data, files, env, agreed>>

Mark == pc = "mark" /\ MarkOn("backup", Rotate("primary", FALSE))

\* fail: the new snapshot is destroyed; an error is ignored.
Fail ==
    /\ pc = "fail"
    /\ \/ snaps' = Put("primary", New, NoSnap) /\ UNCHANGED faults
       \/ Fault /\ UNCHANGED snaps
    /\ Return
    /\ UNCHANGED <<data, backup, token, tag, files, env, agreed>>

----------------------------------------------------------------------------
(* rotate *)

\* What the next command of rotate makes of the dataset.
Rotation == Rotated(snaps[on], pc, on = "backup" \/ KeepOnPrimary, hour)

\* A command of rotate; an error ends the cycle.
RotateStep ==
    /\ pc \in RotateStages \ {"prune"}
    /\ \/ /\ snaps' = [snaps EXCEPT ![on] = Rotation]
          /\ Goto(NextStage[pc])
          /\ UNCHANGED faults
       \/ /\ Rotation # snaps[on]
          /\ Fault
          /\ Return
          /\ UNCHANGED snaps
    /\ UNCHANGED <<data, backup, token, tag, files, env, agreed>>

\* prune (a destroy that fails is only logged) and clearBlocked; the backup is
\* rotated after the primary.
Prune ==
    /\ pc = "prune"
    /\ \/ /\ snaps' = [snaps EXCEPT ![on] = Rotation]
          /\ UNCHANGED faults
       \/ /\ Rotation # snaps[on] /\ Fault
          /\ UNCHANGED snaps
    /\ blocked' = NoPair
    /\ \/ on = "primary" /\ Rotate("backup", recovering)
       \/ on = "backup" /\ recovering /\ pc' = "check" /\ on' = "primary" /\ recovering' = FALSE
             /\ UNCHANGED <<cons, tried>>
       \/ on = "backup" /\ ~ recovering /\ Return
    /\ UNCHANGED <<data, backup, token, tag, approve, env, agreed>>

Cycle ==
    \/ RecoverCycle \/ DropBackup \/ DropPrimary \/ Check \/ TakeSnapshot \/ FullSend \/ SetTag
    \/ Resume \/ Decide \/ IncrSend \/ Consume \/ Confirm \/ Mark \/ Fail
    \/ RotateStep \/ Prune

----------------------------------------------------------------------------
(* The host, the operator, the clients of the dataset *)

\* The host goes down and comes back; a receive that ran is broken off.
Crash ==
    /\ pc # "idle"
    /\ crashes < MaxCrashes
    /\ crashes' = crashes + 1
    /\ \/ pc = "full" /\ FullBroken
       \/ pc = "incr" /\ Receivable /\ IncrBroken
       \/ UNCHANGED store
    /\ pc' = "idle" /\ on' = "primary" /\ recovering' = FALSE /\ cons' = FALSE
    /\ tried' = MaxHour + 1
    /\ UNCHANGED <<data, files, hour, writes, faults, rollbacks, agreed>>

Write ==
    /\ writes < MaxWrites
    /\ writes' = writes + 1
    /\ data' = writes + 1
    /\ UNCHANGED <<store, files, process, hour, faults, crashes, rollbacks, agreed>>

\* The operator rolls the primary back, between cycles, to one of its base
\* snapshots that the backup has too.
Rollback(s) ==
    LET to == P[s]
    IN  /\ pc = "idle"
        /\ rollbacks < MaxRollbacks
        /\ to # NoSnap /\ to.guid \in Guids(B)
        /\ rollbacks' = rollbacks + 1
        /\ data' = to.data
        /\ snaps' = [snaps EXCEPT !["primary"] = RolledBack(P, to.guid)]
        /\ UNCHANGED <<backup, token, tag, files, process, hour, writes, faults, crashes, agreed>>

\* The frontend copies <id>.blocked to <id>.approve.
Approve ==
    /\ blocked # NoPair
    /\ approve # blocked
    /\ approve' = blocked
    /\ agreed' = {g \in Guids(B) : g > blocked[1]}
    /\ UNCHANGED <<store, data, blocked, process, env, faults>>

Tick ==
    /\ hour < MaxHour
    /\ hour' = hour + 1
    /\ UNCHANGED <<store, data, files, process, writes, faults, crashes, rollbacks, agreed>>

Next ==
    \/ Cycle
    \/ Crash
    \/ Write
    \/ \E s \in {N0, N1} : Rollback(s)
    \/ Approve
    \/ Tick

Spec == Init /\ [][Next]_vars

\* The loop of zfsCmd never stops, and the operator answers a blocked status.
FairSpec == Spec /\ WF_vars(Cycle) /\ WF_vars(Approve)

----------------------------------------------------------------------------
(* Properties *)

\* The first cycle is over: the backup carries its tag and a base.
Established == tag /\ Has(B, N0)

\* An incremental send needs a snapshot both sides have (cycle: "no common base
\* snapshot").  Once the backup is established there always is one, wherever a
\* cycle, a recovery or a rotation is interrupted and whatever fails in it.
CommonBase == Established => Guids(P) \cap Guids(B) # {}

\* No listing of recoverCycle fails.  One that does is taken for "no such snapshot",
\* and the half-finished cycle it was to complete is discarded.
ListingsWork == pc = "idle" => UNCHANGED faults

\* The cycle as long as recoverCycle sees what is there; any other command may fail.
SeeingSpec == Init /\ [][Next /\ ListingsWork]_vars

\* recv -F takes no snapshot from the backup that the operator has not agreed to
\* lose when approving exactly this rollback (approved, "one-shot").
OnlyAgreedLoss ==
    [][~ RollbackAuto /\ pc = "incr" =>
          Guids(B) \ Guids(B)' \subseteq agreed]_vars

R == INSTANCE Replica WITH
        Auto <- RollbackAuto,
        mine <- Guids(P),
        held <- Guids([B EXCEPT ![New] = NoSnap]),
        fresh <- B[New].guid,
        linked <- tag

\* The cycle, its recovery and its rotation, command by command, implement the
\* abstract replica: only the primary's newest snapshot arrives, it is confirmed
\* only while the primary has it, retention spares the newest shared snapshot, a
\* rollback of the backup takes exactly what was agreed, and no failure leaves
\* the two sides without a shared snapshot.
ImplementsReplica == R!Spec

\* The newest base of the backup holds what the primary holds.
Current == Has(B, N0) /\ B[N0].data = data

\* An established replication catches up once the clients stop, whatever was
\* interrupted, failed or rolled back before.
CatchesUp == <>[](Established => Current)

\* recoverCycle "completes or discards a half-finished cycle": after a crash at
\* any point replication comes to work again.
RecoveryCompletes == <>[]Current

\* --hold: "last N base snapshots (n0,n1)" are kept as bases on both sides:
\* between cycles the backup has both bases of the primary.
BasesShared ==
    pc = "idle" /\ ~ Has(B, New) /\ tag =>
        \A s \in {N0, N1} : Has(P, s) => P[s].guid \in Guids(B)
============================================================================

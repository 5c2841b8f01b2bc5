----------------------------- MODULE ZfsPair -----------------------------
(***************************************************************************)
(* ZFS replication between two hosts (zfsnet.go): the service at the       *)
(* primary (cycleRemote) offers its snapshots, the service at the backup   *)
(* (handle, planBackup) answers with a plan, receives the stream, confirms *)
(* it and rotates when told to.  The Proxmox configuration of a guest      *)
(* (pveconf.go) travels with the rotation or alone.                        *)
(*                                                                         *)
(* Each host has its own process: either may crash, the connection may     *)
(* break between any two steps, and a zfs command may fail.  Commands that *)
(* change something are steps of their own.  Time stands still (retention  *)
(* by age is in ZfsCycle); snapshots are taken in the same hour.           *)
(***************************************************************************)
EXTENDS ZfsStore

CONSTANTS
    KeepOnPrimary,  \* --versions
    RollbackAuto,   \* --rollback auto, at the backup
    Freeze,         \* snapshots may go through cs-freeze4snap
    MaxConf,        \* bound: versions of the guest's configuration
    MaxFailures,    \* bound: failed commands, crashes and broken connections together
    MaxRollbacks,   \* bound: rollbacks of the primary by its operator
    MaxEvents       \* bound: all of these together

ASSUME PairSwitches == {KeepOnPrimary, RollbackAuto, Freeze} \subseteq BOOLEAN
ASSUME PairBounds == {MaxConf, MaxFailures, MaxRollbacks, MaxEvents} \subseteq Nat

Guid == 0..MaxGuid
Pairs == Guid \X Guid
NoPair == <<0, 0>>
Conf == 0..MaxConf      \* 0: no configuration, cs:pveconf is not set
Unread == -1            \* confSeen is nil

\* Frames (wire/zfs.go).
NoMsg == [kind |-> "none"]
Hello == [kind : {"hello"}, snaps : [Slots -> Guid]]
ConfOnly == [kind : {"conf"}, conf : Conf]
Chunk == [kind : {"data"}, base : Guid, snap : Snapshot]
End == [kind |-> "end"]
RotateMsg == [kind : {"rotate"}, cons : BOOLEAN, conf : Conf]
PlanKinds == {"error", "blocked", "rotate", "resume", "full", "inc"}
PlanMsg == [kind : PlanKinds, base : Guid]      \* base: also the token's snapshot
Done == [kind : {"done"}, ok : BOOLEAN, guid : Guid]

ToBackup == Hello \cup ConfOnly \cup Chunk \cup RotateMsg \cup {End}
ToPrimary == PlanMsg \cup Done
NoPlan == [kind |-> "none", base |-> 0]

VARIABLES
    \* the primary's host: dataset, guest configuration, its property
    P, data, conf, pconf,
    \* the backup's host: dataset, its state, receive_resume_token (the GUIDs of
    \* the snapshot and of its base, or 0), cs:sync, property, <id>.blocked and
    \* <id>.approve
    B, backup, token, onto, tag, bconf, blocked, approve,
    \* cycleRemote: next step, plan, takeSnapshot's result, confs, confSeen
    pc, plan, cons, confs, seen,
    \* handle: next step, the request at work, what it is for
    rpc, req, todo,
    \* the connection and the frame on its way in each direction
    up, ask, answer,
    \* environment and history
    writes, failures, rollbacks,
    agreed      \* backup snapshots the operator has agreed to lose

primary == <<P, data, conf, pconf>>
store == <<B, backup, token, onto, tag>>
files == <<blocked, approve, agreed>>
sender == <<pc, plan, cons, confs, seen>>
receiver == <<rpc, req, todo>>
conn == <<up, ask, answer>>
env == <<writes, rollbacks>>
vars == <<P, data, conf, pconf, B, backup, token, onto, tag, bconf, blocked, approve, pc, plan, cons,
          confs, seen, rpc, req, todo, up, ask, answer, writes, failures, rollbacks, agreed>>

TypeOK ==
    /\ P \in Listing /\ data \in 0..MaxWrites /\ conf \in Conf /\ pconf \in Conf
    /\ B \in Listing /\ backup \in {"absent", "partial", "ready"} /\ tag \in BOOLEAN
    /\ token \in Guid /\ onto \in Guid
    /\ bconf \in Conf /\ blocked \in Pairs /\ approve \in Pairs
    /\ pc \in {"idle", "conf", "plan", "drop", "snap", "stream", "end", "done", "mark", "store",
               "order", "rotated", "fail"} \cup RotateStages
    /\ plan \in PlanMsg \cup {NoPlan} /\ cons \in BOOLEAN /\ confs \in Conf /\ seen \in Conf \cup {Unread}
    /\ rpc \in {"accept", "wait", "plan", "drop", "base", "recv", "data", "tag", "consume", "report",
                "mark", "store"} \cup RotateStages
    /\ req \in ToBackup \cup {NoMsg}
    /\ todo \in {"none", "full", "inc", "resume", "rotate", "base", "done"}
    /\ up \in BOOLEAN /\ ask \in ToBackup \cup {NoMsg} /\ answer \in ToPrimary \cup {NoMsg}
    /\ writes \in 0..MaxWrites /\ failures \in 0..MaxFailures /\ rollbacks \in 0..MaxRollbacks
    /\ agreed \subseteq Guid

Init ==
    /\ P = Empty /\ data = 0 /\ conf = 0 /\ pconf = 0
    /\ B = Empty /\ backup = "absent" /\ token = 0 /\ onto = 0 /\ tag = FALSE
    /\ bconf = 0 /\ blocked = NoPair /\ approve = NoPair
    /\ pc = "idle" /\ plan = NoPlan /\ cons = FALSE /\ confs = 0 /\ seen = Unread
    /\ rpc = "accept" /\ req = NoMsg /\ todo = "none"
    /\ up = FALSE /\ ask = NoMsg /\ answer = NoMsg
    /\ writes = 0 /\ failures = 0 /\ rollbacks = 0
    /\ agreed = {}

\* Not all the events of the bound have happened.
Room == conf + failures + rollbacks < MaxEvents

\* A zfs command fails, a service crashes or the connection breaks.
Fault == failures < MaxFailures /\ Room /\ failures' = failures + 1

----------------------------------------------------------------------------
(* The primary: cycleRemote *)

Goto(stage) == pc' = stage /\ UNCHANGED <<plan, cons, confs, seen>>

\* The cycle returns and closes the connection; what it has sent may still be read.
LeaveSender ==
    /\ pc' = "idle" /\ plan' = NoPlan /\ cons' = FALSE /\ confs' = 0
    /\ up' = FALSE /\ answer' = NoMsg

Return == LeaveSender /\ UNCHANGED <<seen, ask>>

\* An error of the stream or of its confirmation.
GiveUp == IF plan.kind = "resume" THEN Return ELSE Goto("fail") /\ UNCHANGED conn

\* The backup serves one connection at a time.
Dial(frame) ==
    /\ rpc = "accept"
    /\ rpc' = "wait"
    /\ up' = TRUE /\ ask' = frame /\ answer' = NoMsg
    /\ UNCHANGED <<req, todo>>

Idle == Has(P, N0) /\ ~ Has(P, New) /\ P[N0].data = data

\* A query that fails counts as a change.
SendHello ==
    /\ pc = "idle"
    /\ IF Idle THEN Fault ELSE UNCHANGED failures
    /\ Dial([kind |-> "hello", snaps |-> [s \in Slots |-> P[s].guid]])
    /\ Goto("plan")
    /\ UNCHANGED <<primary, store, bconf, files, env>>

\* Mutant: the configuration that was sent last is sent.
ConfDeltaSeen(known) == known

\* The configuration to send, known being the one sent last.
ConfDelta(known) == conf

\* confOnlyRemote; confSeen is read from the primary's property first.
SendConf ==
    LET known == IF seen = Unread THEN pconf ELSE seen
    IN  /\ pc = "idle" /\ Idle
        /\ seen' = known
        /\ \/ /\ conf # known
              /\ Dial([kind |-> "conf", conf |-> ConfDelta(known)])
              /\ pc' = "conf" /\ confs' = ConfDelta(known)
           \/ /\ conf = known                  \* nothing to do in this cycle
              /\ UNCHANGED <<pc, confs, receiver, conn>>
        /\ UNCHANGED <<primary, store, bconf, files, failures, env, plan, cons>>

\* Its answer: only then the property of the primary and confSeen are set.
ConfSent ==
    /\ pc = "conf" /\ answer # NoMsg
    /\ seen' = IF answer.ok THEN confs ELSE seen
    /\ \/ pconf' = (IF answer.ok THEN confs ELSE pconf) /\ UNCHANGED failures
       \/ Fault /\ UNCHANGED pconf
    /\ LeaveSender
    /\ UNCHANGED <<P, data, conf, store, bconf, files, receiver, ask, env>>

\* The backup's plan.
ReadPlan ==
    /\ pc = "plan" /\ answer # NoMsg
    /\ \/ /\ answer.kind \in {"error", "blocked"}
          /\ Return
       \/ /\ answer.kind \notin {"error", "blocked"}
          /\ plan' = answer
          /\ pc' = CASE answer.kind = "rotate" -> "keep"
                     [] answer.kind = "resume" -> "stream"
                     [] OTHER -> IF Has(P, New) THEN "drop" ELSE "snap"
          /\ answer' = NoMsg
          /\ UNCHANGED <<cons, confs, seen, up, ask>>
    /\ UNCHANGED <<primary, store, bconf, files, receiver, failures, env>>

\* The backup does not hold the leftover; an error is ignored.
DropStale ==
    /\ pc = "drop"
    /\ \/ P' = Destroyed(P, New) /\ UNCHANGED failures
       \/ Fault /\ UNCHANGED P
    /\ Goto("snap")
    /\ UNCHANGED <<data, conf, pconf, store, bconf, files, receiver, conn, env>>

NextGuid ==
    1 + MaxOf(Guids(P) \cup Guids(B) \cup {token, blocked[1], blocked[2], approve[1], approve[2]})

\* takeSnapshot and confsIfOn.  A freeze tool that fails leaves the name free.
TakeSnapshot ==
    /\ pc = "snap"
    /\ NextGuid <= MaxGuid
    /\ \/ /\ ~ Has(P, New)
          /\ P' = [P EXCEPT ![New] =
                      [guid |-> NextGuid, created |-> 0, data |-> data, frozen |-> FALSE]]
          /\ cons' \in IF Freeze THEN BOOLEAN ELSE {FALSE}
          /\ confs' = conf
          /\ pc' = "stream"
          /\ UNCHANGED <<failures, plan, seen, conn>>
       \/ /\ Freeze /\ Has(P, New)
          /\ P' = Destroyed(P, New)
          /\ UNCHANGED <<failures, sender, conn>>
       \/ /\ IF Has(P, New) THEN UNCHANGED failures ELSE Fault
          /\ Return
          /\ UNCHANGED P
    /\ UNCHANGED <<data, conf, pconf, store, bconf, files, receiver, env>>

\* streamTo: zfs send, by full stream, from a base or from a token.  send -t
\* finds the token's snapshot under the name it had.
Sendable == plan.kind = "resume" => P[New].guid = plan.base

Stream ==
    /\ pc = "stream"
    /\ \/ /\ Sendable /\ up /\ ask = NoMsg
          /\ ask' = [kind |-> "data", base |-> plan.base, snap |-> P[New]]
          /\ Goto("end")
          /\ UNCHANGED <<up, answer, failures>>
       \/ /\ ~ Sendable \/ ~ up
          /\ GiveUp
          /\ UNCHANGED failures
       \/ /\ Sendable /\ up /\ Fault
          /\ GiveUp
    /\ UNCHANGED <<primary, store, bconf, files, receiver, env>>

\* The last chunk, or zfs send ends with an error.
StreamEnd ==
    /\ pc = "end"
    /\ \/ /\ up /\ ask = NoMsg
          /\ ask' = End
          /\ Goto("done")
          /\ UNCHANGED <<up, answer, failures>>
       \/ /\ ~ up
          /\ GiveUp
          /\ UNCHANGED failures
       \/ /\ up /\ Fault
          /\ GiveUp
    /\ UNCHANGED <<primary, store, bconf, files, receiver, env>>

\* recvDone, and the GUID the backup reports is the one of the new snapshot.
Confirm ==
    /\ pc = "done" /\ answer # NoMsg
    /\ \/ /\ answer.ok /\ plan.kind # "resume" /\ answer.guid = P[New].guid
          /\ Goto("mark")
          /\ answer' = NoMsg
          /\ UNCHANGED <<up, ask, failures>>
       \/ /\ ~ answer.ok \/ plan.kind = "resume" \/ answer.guid # P[New].guid
          /\ GiveUp
          /\ UNCHANGED failures
       \/ /\ answer.ok /\ plan.kind # "resume" /\ Fault
          /\ GiveUp
    /\ UNCHANGED <<primary, store, bconf, files, receiver, env>>

\* cs:consistent on the primary's snapshot; an error is ignored.
Mark ==
    /\ pc = "mark"
    /\ \/ P' = [P EXCEPT ![New].frozen = cons] /\ UNCHANGED failures
       \/ cons /\ Fault /\ UNCHANGED P
    /\ Goto("store")
    /\ UNCHANGED <<data, conf, pconf, store, bconf, files, receiver, conn, env>>

\* applyConfs (errors are logged) and confMarkSeen.
StoreConf ==
    /\ pc = "store"
    /\ \/ pconf' = (IF confs = 0 THEN pconf ELSE confs) /\ UNCHANGED failures
       \/ confs # 0 /\ Fault /\ UNCHANGED pconf
    /\ seen' = IF confs = 0 THEN seen ELSE confs
    /\ pc' = "keep"
    /\ UNCHANGED <<P, data, conf, store, bconf, files, receiver, conn, env, plan, cons, confs>>

\* rotate, command by command.
RotatePrimary ==
    LET result == Rotated(P, pc, KeepOnPrimary, 0)
    IN  /\ pc \in RotateStages \ {"prune"}
        /\ \/ /\ P' = result
              /\ Goto(NextStage[pc])
              /\ UNCHANGED <<conn, failures>>
           \/ /\ result # P /\ Fault
              /\ Return
              /\ UNCHANGED P
        /\ UNCHANGED <<data, conf, pconf, store, bconf, files, receiver, env>>

\* Nothing expires here.  After a plan "rotate" the cycle is over.
PrunePrimary ==
    /\ pc = "prune"
    /\ IF plan.kind = "rotate" THEN Return ELSE Goto("order") /\ UNCHANGED conn
    /\ UNCHANGED <<primary, store, bconf, files, receiver, failures, env>>

OrderRotate ==
    /\ pc = "order"
    /\ \/ /\ up /\ ask = NoMsg
          /\ ask' = [kind |-> "rotate", cons |-> cons, conf |-> confs]
          /\ Goto("rotated")
          /\ UNCHANGED <<up, answer>>
       \/ /\ ~ up
          /\ Return
    /\ UNCHANGED <<primary, store, bconf, files, receiver, failures, env>>

CycleDone ==
    /\ pc = "rotated" /\ answer # NoMsg
    /\ Return
    /\ UNCHANGED <<primary, store, bconf, files, receiver, failures, env>>

\* The connection is gone and no answer will come.
NoAnswer ==
    /\ pc \in {"conf", "plan", "done", "rotated"}
    /\ ~ up /\ answer = NoMsg
    /\ IF pc = "done" THEN GiveUp ELSE Return
    /\ UNCHANGED <<primary, store, bconf, files, receiver, failures, env>>

\* fail: the new snapshot is destroyed; an error is ignored.
Fail ==
    /\ pc = "fail"
    /\ \/ P' = Destroyed(P, New) /\ UNCHANGED failures
       \/ Fault /\ UNCHANGED P
    /\ Return
    /\ UNCHANGED <<data, conf, pconf, store, bconf, files, receiver, env>>

CycleRemote ==
    \/ SendHello \/ SendConf \/ ConfSent \/ ReadPlan \/ DropStale \/ TakeSnapshot \/ Stream \/ StreamEnd
    \/ Confirm \/ Mark \/ StoreConf \/ RotatePrimary \/ PrunePrimary \/ OrderRotate \/ CycleDone
    \/ NoAnswer \/ Fail

----------------------------------------------------------------------------
(* The backup: handle, planBackup, receiveStream *)

Keep(stage) == rpc' = stage /\ UNCHANGED <<req, todo>>
Become(stage, what) == rpc' = stage /\ todo' = what /\ UNCHANGED req

\* A frame for the primary; an error of the connection is ignored.
Reply(frame) == answer' = (IF up THEN frame ELSE answer) /\ UNCHANGED <<up, ask>>
Wait(frame) == Reply(frame) /\ rpc' = "wait" /\ req' = NoMsg /\ todo' = "none"

Plan(kind, base) == [kind |-> kind, base |-> base]
Error == Plan("error", 0)
DoneMsg(ok, guid) == [kind |-> "done", ok |-> ok, guid |-> guid]

\* ConfOnly: applyConfs on an existing backup; an error is logged.
ReadConf ==
    /\ rpc = "wait" /\ ask.kind = "conf"
    /\ \/ bconf' = (IF backup = "absent" THEN bconf ELSE ask.conf) /\ UNCHANGED failures
       \/ Fault /\ UNCHANGED bconf
    /\ answer' = IF up THEN DoneMsg(backup # "absent", 0) ELSE answer
    /\ ask' = NoMsg
    /\ UNCHANGED <<primary, store, files, sender, receiver, up, env>>

\* A hello or a rotation order.  Chunks outside of a receive are skipped.
ReadFrame ==
    /\ rpc = "wait" /\ ask.kind \in {"hello", "rotate", "data", "end"}
    /\ CASE ask.kind = "hello" -> rpc' = "plan" /\ req' = ask /\ UNCHANGED <<todo, answer>>
         [] ask.kind = "rotate" /\ Has(B, New) ->
                rpc' = "mark" /\ req' = ask /\ todo' = "done" /\ UNCHANGED answer
         [] ask.kind = "rotate" /\ ~ Has(B, New) ->
                answer' = (IF up THEN DoneMsg(FALSE, 0) ELSE answer) /\ UNCHANGED receiver
         [] OTHER -> UNCHANGED <<receiver, answer>>
    /\ ask' = NoMsg
    /\ UNCHANGED <<primary, store, bconf, files, sender, up, failures, env>>

\* Mutant: the backup completes every rotation it finds half done.
HeldSlotAny(guid) == N0

\* The slot under which the primary offers the snapshot.
HeldSlot(guid) ==
    IF \E s \in Slots : req.snaps[s] = guid THEN CHOOSE s \in Slots : req.snaps[s] = guid ELSE N1

\* planBackup up to the listing: is the backup there and ours, is there a token,
\* and how far did the last cycle get?
PlanBackup ==
    /\ rpc = "plan"
    /\ \/ /\ backup = "absent"
          /\ Reply(Plan("full", 0)) /\ Become("recv", "full")
          /\ UNCHANGED failures
       \/ /\ backup # "absent" /\ ~ tag
          /\ Wait(Error)
          /\ UNCHANGED failures
       \/ /\ backup # "absent" /\ tag /\ token # 0
          /\ Reply(Plan("resume", token)) /\ Become("recv", "resume")
          /\ UNCHANGED failures
       \/ /\ backup # "absent" /\ tag /\ token = 0
          /\ CASE ~ Has(B, New) -> Keep("base")
               [] Has(B, New) /\ HeldSlot(B[New].guid) = New -> Become("keep", "rotate")
               [] Has(B, New) /\ HeldSlot(B[New].guid) = N0 -> Become("keep", "base")
               [] OTHER -> Keep("drop")
          /\ UNCHANGED <<conn, failures>>
       \/ /\ backup # "absent" /\ Fault     \* zfsExists: an error means "no"
          /\ Reply(Plan("full", 0)) /\ Become("recv", "full")
       \/ /\ backup # "absent" /\ Fault     \* cs:sync or the listing cannot be read
          /\ Wait(Error)
       \/ /\ token # 0 /\ tag /\ Fault      \* the token cannot be read
          /\ Keep("base")
          /\ UNCHANGED conn
    /\ UNCHANGED <<primary, store, bconf, files, sender, env>>

\* The primary does not have it; an error is ignored.
DropNew ==
    /\ rpc = "drop"
    /\ \/ B' = Destroyed(B, New) /\ UNCHANGED failures
       \/ Fault /\ UNCHANGED B
    /\ Keep("base")
    /\ UNCHANGED <<primary, backup, token, onto, tag, bconf, files, sender, conn, env>>

Base == MaxOf({req.snaps[s] : s \in Slots \ {New}} \cap Guids(B))
Newest == MaxOf(Guids(B))

\* Mutants: being asked is enough; the GUIDs in the wrong order.
ApprovedAsked(base, newest) == blocked = <<base, newest>>
ApprovedSwapped(base, newest) == approve = <<newest, base>>

Approved(base, newest) == approve = <<base, newest>>

\* The rest of planBackup: the common base, and the rollback recv -F would mean.
ChooseBase ==
    /\ rpc = "base"
    /\ \/ /\ Base = 0                       \* also: no snapshots at all
          /\ Wait(Error)
          /\ UNCHANGED <<blocked, failures>>
       \/ /\ Base # 0
          /\ Base = Newest \/ RollbackAuto \/ Approved(Base, Newest)
          /\ Reply(Plan("inc", Base)) /\ Become("recv", "inc")
          /\ UNCHANGED <<blocked, failures>>
       \/ /\ Base \notin {0, Newest} /\ ~ RollbackAuto /\ ~ Approved(Base, Newest)
          /\ blocked' = <<Base, Newest>>
          /\ Wait(Plan("blocked", 0))
          /\ UNCHANGED failures
       \/ /\ Fault
          /\ Wait(Error)
          /\ UNCHANGED blocked
    /\ UNCHANGED <<primary, store, bconf, approve, agreed, sender, env>>

\* What zfs recv accepts: a full stream for a new dataset, an increment on a base
\* under a free name and without partial state, the rest of a token's stream.  Only
\* an increment is received with -F: a resume is refused while the backup has
\* snapshots newer than the token's base.
Accepts ==
    CASE todo = "full" -> backup = "absent"
      [] todo = "inc" -> token = 0 /\ ~ Has(B, New) /\ ask.base \in Guids(B)
      [] todo = "resume" -> token = ask.snap.guid /\ Newest = onto

\* The stream starts, or recv refuses it or fails.
ReceiveStart ==
    /\ rpc = "recv" /\ ask.kind = "data"
    /\ \/ /\ Accepts
          /\ rpc' = "data" /\ req' = ask
          /\ UNCHANGED <<todo, answer, failures>>
       \/ /\ IF Accepts THEN Fault ELSE UNCHANGED failures
          /\ answer' = IF up THEN DoneMsg(FALSE, 0) ELSE answer
          /\ rpc' = "wait" /\ req' = NoMsg /\ todo' = "none"
    /\ ask' = NoMsg
    /\ UNCHANGED <<primary, store, bconf, files, sender, up, env>>

\* A receive that breaks off has rolled nothing back.  It keeps its partial state
\* (recv -s) or, if it was too short, nothing.
BrokenOff ==
    /\ \/ UNCHANGED <<backup, token, onto>>
       \/ /\ token' = req.snap.guid
          /\ onto' = IF todo = "resume" THEN onto ELSE req.base
          /\ backup' = IF todo = "full" THEN "partial" ELSE backup
    /\ UNCHANGED <<B, tag>>

\* recv -F: what the backup keeps below an increment.
Forced == IF todo = "inc" THEN RolledBack(B, req.base) ELSE B

\* The last chunk: zfs recv ends, and only now the backup is rolled back.
ReceiveEnd ==
    /\ rpc = "data" /\ ask.kind = "end"
    /\ \/ /\ B' = [Forced EXCEPT ![New] = req.snap]
          /\ backup' = "ready" /\ token' = 0 /\ onto' = 0
          /\ rpc' = CASE todo = "full" -> "tag" [] todo = "inc" -> "consume" [] todo = "resume" -> "report"
          /\ UNCHANGED <<tag, req, todo, answer, failures>>
       \/ /\ Fault
          /\ BrokenOff
          /\ answer' = IF up THEN DoneMsg(FALSE, 0) ELSE answer
          /\ rpc' = "wait" /\ req' = NoMsg /\ todo' = "none"
    /\ ask' = NoMsg
    /\ UNCHANGED <<primary, bconf, files, sender, up, env>>

\* After a full receive: readonly, canmount and cs:sync; errors are ignored.
SetTag ==
    /\ rpc = "tag"
    /\ \/ tag' = TRUE /\ UNCHANGED failures
       \/ Fault /\ UNCHANGED tag
    /\ Keep("report")
    /\ UNCHANGED <<primary, B, backup, token, onto, bconf, files, sender, conn, env>>

\* Mutant: the approval file is emptied, not removed.
ConsumeTruncates ==
    /\ rpc = "consume"
    /\ approve' = <<>> /\ agreed' = {}
    /\ Keep("report")
    /\ UNCHANGED <<primary, store, bconf, blocked, sender, conn, failures, env>>

\* The approval is good for one rollback.
Consume ==
    /\ rpc = "consume"
    /\ approve' = NoPair /\ agreed' = {}
    /\ Keep("report")
    /\ UNCHANGED <<primary, store, bconf, blocked, sender, conn, failures, env>>

\* Done names the snapshot; without a listing it names none.
Report ==
    /\ rpc = "report"
    /\ \/ Wait(DoneMsg(TRUE, B[New].guid)) /\ UNCHANGED failures
       \/ Fault /\ Wait(DoneMsg(TRUE, 0))
    /\ UNCHANGED <<primary, store, bconf, files, sender, env>>

\* The order to rotate: cs:consistent and the configuration first.
MarkBackup ==
    /\ rpc = "mark"
    /\ \/ B' = [B EXCEPT ![New].frozen = req.cons] /\ UNCHANGED failures
       \/ req.cons /\ Fault /\ UNCHANGED B
    /\ Keep("store")
    /\ UNCHANGED <<primary, backup, token, onto, tag, bconf, files, sender, conn, env>>

StoreConfBackup ==
    /\ rpc = "store"
    /\ \/ bconf' = (IF req.conf = 0 THEN bconf ELSE req.conf) /\ UNCHANGED failures
       \/ req.conf # 0 /\ Fault /\ UNCHANGED bconf
    /\ Keep("keep")
    /\ UNCHANGED <<primary, store, files, sender, conn, env>>

RotateBackup ==
    LET result == Rotated(B, rpc, TRUE, 0)
    IN  /\ rpc \in RotateStages \ {"prune"}
        /\ \/ /\ B' = result
              /\ Keep(NextStage[rpc])
              /\ UNCHANGED <<conn, failures>>
           \/ /\ result # B /\ Fault
              /\ Wait(IF todo = "done" THEN DoneMsg(FALSE, 0) ELSE Error)
              /\ UNCHANGED B
        /\ UNCHANGED <<primary, backup, token, onto, tag, bconf, files, sender, env>>

\* clearBlocked; the rotation was ordered, or is the plan, or planning goes on.
PruneBackup ==
    /\ rpc = "prune"
    /\ blocked' = NoPair
    /\ \/ todo = "done" /\ Wait(DoneMsg(TRUE, 0))
       \/ todo = "rotate" /\ Wait(Plan("rotate", 0))
       \/ todo = "base" /\ Become("base", "none") /\ UNCHANGED conn
    /\ UNCHANGED <<primary, store, bconf, approve, agreed, sender, failures, env>>

\* The connection is gone and everything that came is read: handle returns.
Hangup ==
    /\ rpc \in {"wait", "recv", "data"}
    /\ ~ up /\ ask = NoMsg
    /\ IF rpc = "data" THEN BrokenOff ELSE UNCHANGED store
    /\ rpc' = "accept" /\ req' = NoMsg /\ todo' = "none"
    /\ UNCHANGED <<primary, bconf, files, sender, conn, failures, env>>

Handle ==
    \/ ReadConf \/ ReadFrame \/ PlanBackup \/ DropNew \/ ChooseBase \/ ReceiveStart \/ ReceiveEnd
    \/ SetTag \/ Consume \/ Report \/ MarkBackup \/ StoreConfBackup \/ RotateBackup \/ PruneBackup
    \/ Hangup

----------------------------------------------------------------------------
(* The network, the hosts, the operators, the guest *)

\* The connection breaks; what was on its way may have arrived.
Drop ==
    /\ up /\ Fault
    /\ up' = FALSE
    /\ ask' \in {ask, NoMsg} /\ answer' \in {answer, NoMsg}
    /\ UNCHANGED <<primary, store, bconf, files, sender, receiver, writes, rollbacks>>

CrashSender ==
    /\ pc # "idle" /\ Fault
    /\ LeaveSender
    /\ seen' = Unread
    /\ ask' \in {ask, NoMsg}
    /\ UNCHANGED <<primary, store, bconf, files, receiver, writes, rollbacks>>

CrashReceiver ==
    /\ rpc # "accept" /\ Fault
    /\ IF rpc = "data" THEN BrokenOff ELSE UNCHANGED store
    /\ rpc' = "accept" /\ req' = NoMsg /\ todo' = "none"
    /\ up' = FALSE /\ ask' = NoMsg /\ answer' \in {answer, NoMsg}
    /\ UNCHANGED <<primary, bconf, files, sender, writes, rollbacks>>

Write ==
    /\ writes < MaxWrites
    /\ writes' = writes + 1
    /\ data' = writes + 1
    /\ UNCHANGED <<P, conf, pconf, store, bconf, files, sender, receiver, conn, failures, rollbacks>>

ChangeConf ==
    /\ conf < MaxConf /\ Room
    /\ conf' = conf + 1
    /\ UNCHANGED <<P, data, pconf, store, bconf, files, sender, receiver, conn, failures, env>>

\* The operator rolls the primary back, between exchanges, to one of its base
\* snapshots that the backup has too.
Rollback(s) ==
    /\ pc = "idle" /\ rpc = "accept"
    /\ rollbacks < MaxRollbacks /\ Room
    /\ Has(P, s) /\ P[s].guid \in Guids(B)
    /\ rollbacks' = rollbacks + 1
    /\ data' = P[s].data
    /\ P' = RolledBack(P, P[s].guid)
    /\ UNCHANGED <<conf, pconf, store, bconf, files, sender, receiver, conn, failures, writes>>

\* The frontend copies <id>.blocked to <id>.approve.
Approve ==
    /\ blocked # NoPair
    /\ approve # blocked
    /\ approve' = blocked
    /\ agreed' = {g \in Guids(B) : g > blocked[1]}
    /\ UNCHANGED <<primary, store, bconf, blocked, sender, receiver, conn, failures, env>>

Next ==
    \/ CycleRemote
    \/ Handle
    \/ Drop \/ CrashSender \/ CrashReceiver
    \/ Write \/ ChangeConf
    \/ \E s \in {N0, N1} : Rollback(s)
    \/ Approve

Spec == Init /\ [][Next]_vars

\* Both services run for ever, and the operator answers a blocked status.
FairSpec == Spec /\ WF_vars(CycleRemote) /\ WF_vars(Handle) /\ WF_vars(Approve)

----------------------------------------------------------------------------
(* Properties *)

R == INSTANCE Replica WITH
        Auto <- RollbackAuto,
        mine <- Guids(P),
        held <- Guids([B EXCEPT ![New] = NoSnap]),
        fresh <- B[New].guid,
        linked <- tag

\* The pair of services implements the same abstract replica as the local cycle,
\* although each host only knows its own snapshots and what the last frame said:
\* whatever is lost or interrupted, planBackup neither confirms a snapshot the
\* primary has given up nor throws away the last shared one.
ImplementsReplica == R!Spec

\* zfsExists sees an existing backup.  An error of the command is taken for "no", and
\* the plan is a full stream, for which the primary destroys its new snapshot.
ExistsWorks == rpc = "plan" /\ todo' = "full" => backup = "absent"

\* The pair as long as planBackup sees the backup; any other command may fail.
SeeingSpec == Init /\ [][Next /\ ExistsWorks]_vars

\* The first cycle is over on both hosts: the backup carries its tag and a base,
\* and the primary has rotated.
Established == tag /\ Has(B, N0) /\ (Has(P, N0) \/ Has(P, N1))

\* The backup holds the primary's data in a snapshot both have.
Current == \E s \in Slots : Has(B, s) /\ B[s].guid \in Guids(P) /\ B[s].data = data

\* The token's snapshot is gone from the primary: send -t cannot find it.
Orphaned == token # 0 /\ token # P[New].guid

\* The token's stream was to roll the backup back: recv without -F is refused.
Outrun == token # 0 /\ Newest # onto

\* An established replication catches up once the guest stops writing, whatever
\* was lost, interrupted, failed or rolled back before, unless the backup waits
\* for the rest of a stream that cannot be resumed.
CatchesUp == <>[](Established /\ ~ Orphaned /\ ~ Outrun => Current)

\* A frame or an answer that comes late never takes the guest's configuration on
\* the backup back to an older version.
ConfNeverGoesBack == [][bconf' >= bconf]_vars

\* receiveStream: "partial state stays resumable (recv -s)": after a broken
\* connection the replication catches up too.
ResumeCatchesUp == <>[](Established => Current)

\* The same for a rollback that the operator has approved: when its stream breaks
\* off and the primary still has the snapshot, resuming completes it.
RollbackResumes == <>[](Established /\ ~ Orphaned => Current)

\* planBackup "completes or discards a half-finished cycle of the backup side": an
\* interrupted first cycle is made up for.
ReplicationStarts == <>[]Current

\* pveconf.go: "The properties are set on both sides": the guest's configuration
\* reaches an established backup.
ConfArrives == <>[](Established => bconf = conf)

\* rotate: a frozen snapshot is "kept on both sides": when nothing is going on, the
\* two sides agree on which of their shared, rotated snapshots is frozen.
FrozenOnBoth ==
    pc = "idle" /\ rpc = "accept" =>
        \A s, t \in Slots \ {New} : Has(P, s) /\ P[s].guid = B[t].guid => P[s].frozen = B[t].frozen

\* A rollback is asked for only after someone has gone back on the primary: the
\* service never has to ask because of its own interruptions.
AskedForAReason == blocked # NoPair => rollbacks > 0
============================================================================

--------------------------- MODULE ZfsPairProofs ---------------------------
(* Theorems about the replication over the LAN, for every number of snapshots,    *)
(* configurations, failures and rollbacks.                                        *)
EXTENDS ZfsPair, ZfsStoreProofs

(* The two processes keep step: TypeOK alone is not inductive, since nothing in it *)
(* says that the frame a side takes is an answer to what it asked.                 *)

\* What is on its way to the primary is an answer to what it waits for.
Answers ==
    /\ pc = "plan" => answer.kind \in PlanKinds \cup {"none"}
    /\ pc \in {"conf", "end", "done", "rotated"} => answer.kind \in {"done", "none"}
    /\ pc \in {"drop", "snap", "stream", "mark", "store", "order"} \cup RotateStages => answer = NoMsg

\* What the backup works on is what its step is for.
Streams == {"full", "inc", "resume"}
Requests ==
    /\ rpc \in {"recv", "data"} => todo \in Streams
    /\ rpc = "data" => req.kind = "data"
    /\ rpc \in {"mark", "store"} => req.kind = "rotate"

\* The last frame of the primary is under way, worked on, or answered.
Asked(kind, stage) == answer = NoMsg /\ ask.kind = kind /\ rpc = stage
Working(stages) == answer = NoMsg /\ ask = NoMsg /\ rpc \in stages
Answered == answer # NoMsg /\ ask = NoMsg /\ rpc = "wait"

\* While the connection is up, each side is where the other one takes it to be; a stream
\* that has failed already may still have its last chunk under way.
InStep ==
    up =>
        /\ pc # "idle" /\ rpc # "accept"
        /\ pc = "plan" =>
              \/ Asked("hello", "wait")
              \/ Working({"plan", "drop", "base"})
              \/ Working(RotateStages) /\ todo \in {"rotate", "base"}
              \/ answer.kind \in Streams /\ ask = NoMsg /\ rpc = "recv"
              \/ Answered /\ answer.kind \notin Streams
        /\ pc = "conf" => Asked("conf", "wait") \/ Answered
        /\ pc \in {"drop", "snap", "stream"} => Working({"recv"})
        /\ pc = "end" => Asked("data", "recv") \/ Working({"data"}) \/ (Answered /\ ~ answer.ok)
        /\ pc = "done" =>
              \/ Asked("end", "data")
              \/ Working({"tag", "consume", "report"})
              \/ answer # NoMsg /\ ~ answer.ok /\ ask.kind = "end" /\ rpc = "wait"
              \/ Answered
        /\ pc \in {"mark", "store", "order"} \cup RotateStages => Working({"wait"})
        /\ pc = "rotated" =>
              \/ Asked("rotate", "wait")
              \/ Working({"mark", "store"} \cup RotateStages) /\ todo = "done"
              \/ Answered

Talk == Answers /\ Requests /\ InStep

\* A frame is known by its kind.
LEMMA FrameKinds ==
    /\ \A m \in ToBackup \cup {NoMsg} :
          /\ m.kind \in {"hello", "conf", "data", "rotate", "end", "none"}
          /\ m.kind = "none" => m = NoMsg
          /\ m.kind = "data" => m \in Chunk
          /\ m.kind = "conf" => m \in ConfOnly
          /\ m.kind = "rotate" => m \in RotateMsg
    /\ \A m \in ToPrimary \cup {NoMsg} :
          /\ m.kind \in PlanKinds \cup {"done", "none"}
          /\ m.kind = "none" => m = NoMsg
          /\ m.kind = "done" => m \in Done
          /\ m.kind \in PlanKinds => m \in PlanMsg
    /\ NoMsg.kind = "none" /\ End.kind = "end"
<1>1. ASSUME NEW m \in ToBackup \cup {NoMsg}
      PROVE  /\ m.kind \in {"hello", "conf", "data", "rotate", "end", "none"}
             /\ m.kind = "none" => m = NoMsg
             /\ m.kind = "data" => m \in Chunk
             /\ m.kind = "conf" => m \in ConfOnly
             /\ m.kind = "rotate" => m \in RotateMsg
  <2>1. CASE m \in Hello
    BY <2>1 DEF Hello
  <2>2. CASE m \in ConfOnly
    BY <2>2 DEF ConfOnly
  <2>3. CASE m \in Chunk
    BY <2>3 DEF Chunk
  <2>4. CASE m \in RotateMsg
    BY <2>4 DEF RotateMsg
  <2>5. CASE m \in {End, NoMsg}
    BY <2>5 DEF End, NoMsg
  <2> QED
    BY <1>1, <2>1, <2>2, <2>3, <2>4, <2>5 DEF ToBackup
<1>2. ASSUME NEW m \in ToPrimary \cup {NoMsg}
      PROVE  /\ m.kind \in PlanKinds \cup {"done", "none"}
             /\ m.kind = "none" => m = NoMsg
             /\ m.kind = "done" => m \in Done
             /\ m.kind \in PlanKinds => m \in PlanMsg
  <2>1. CASE m \in PlanMsg
    BY <2>1 DEF PlanMsg, PlanKinds
  <2>2. CASE m \in Done
    BY <2>2 DEF Done, PlanKinds
  <2>3. CASE m = NoMsg
    BY <2>3 DEF NoMsg, PlanKinds
  <2> QED
    BY <1>2, <2>1, <2>2, <2>3 DEF ToPrimary
<1>3. NoMsg.kind = "none" /\ End.kind = "end"
  BY DEF NoMsg, End
<1> QED
  BY <1>1, <1>2, <1>3

\* What the steps of the primary do to the exchange.
LEMMA SenderTalks == TypeOK /\ Talk /\ CycleRemote => Talk'
<1> SUFFICES ASSUME Talk, CycleRemote,
                    ask.kind = "none" => ask = NoMsg,
                    answer.kind = "none" => answer = NoMsg,
                    answer.kind \in PlanKinds \cup {"done", "none"},
                    NoMsg.kind = "none", End.kind = "end",
                    up \in BOOLEAN
             PROVE  Talk'
  BY FrameKinds DEF TypeOK
<1>snap. TakeSnapshot =>
          /\ pc = "snap" /\ UNCHANGED <<rpc, req, todo, ask>>
          /\ \/ pc' \in {"stream", "snap"} /\ UNCHANGED <<up, answer>>
             \/ pc' = "idle" /\ up' = FALSE /\ answer' = NoMsg
  BY DEF TakeSnapshot, Return, LeaveSender, sender, receiver, conn
<1> USE DEF Talk, Answers, Requests, InStep, Asked, Working, Answered, Streams, PlanKinds, RotateStages,
            receiver, conn
<1>1. CASE SendHello
  BY <1>1 DEF SendHello, Dial, Goto
<1>2. CASE SendConf
  BY <1>2 DEF SendConf, Dial
<1>3. CASE ConfSent
  BY <1>3 DEF ConfSent, LeaveSender
<1>4. CASE ReadPlan
  BY <1>4 DEF ReadPlan, Return, LeaveSender
<1>5. CASE DropStale
  BY <1>5 DEF DropStale, Goto
<1>6. CASE TakeSnapshot
  BY <1>snap, <1>6
<1>7. CASE Stream
  BY <1>7 DEF Stream, GiveUp, Goto, Return, LeaveSender
<1>8. CASE StreamEnd
  BY <1>8 DEF StreamEnd, GiveUp, Goto, Return, LeaveSender
<1>9. CASE Confirm
  BY <1>9 DEF Confirm, GiveUp, Goto, Return, LeaveSender
<1>10. CASE Mark
  BY <1>10 DEF Mark, Goto
<1>11. CASE StoreConf
  BY <1>11 DEF StoreConf
<1>12. CASE RotatePrimary
  BY <1>12 DEF RotatePrimary, Goto, Return, LeaveSender, NextStage
<1>13. CASE PrunePrimary
  BY <1>13 DEF PrunePrimary, Goto, Return, LeaveSender
<1>14. CASE OrderRotate
  BY <1>14 DEF OrderRotate, Goto, Return, LeaveSender
<1>15. CASE CycleDone \/ NoAnswer
  BY <1>15 DEF CycleDone, NoAnswer, GiveUp, Goto, Return, LeaveSender
<1>16. CASE Fail
  BY <1>16 DEF Fail, Return, LeaveSender
<1> QED
  BY <1>1, <1>2, <1>3, <1>4, <1>5, <1>6, <1>7, <1>8, <1>9, <1>10, <1>11, <1>12, <1>13, <1>14, <1>15, <1>16
     DEF CycleRemote

\* And those of the backup.
LEMMA ReceiverTalks == TypeOK /\ Talk /\ Handle => Talk'
<1> SUFFICES ASSUME Talk, Handle,
                    ask.kind = "none" => ask = NoMsg,
                    answer.kind = "none" => answer = NoMsg,
                    NoMsg.kind = "none", End.kind = "end",
                    up \in BOOLEAN
             PROVE  Talk'
  BY FrameKinds DEF TypeOK
<1>plan. PlanBackup =>
          /\ rpc = "plan" /\ UNCHANGED <<pc, up, ask>>
          /\ \/ rpc' \in {"base", "drop"} /\ UNCHANGED answer
             \/ rpc' = "keep" /\ todo' \in {"rotate", "base"} /\ UNCHANGED answer
             \/ rpc' = "recv" /\ todo' \in Streams /\ IF up THEN answer'.kind = todo' ELSE UNCHANGED answer
             \/ rpc' = "wait" /\ IF up THEN answer'.kind = "error" ELSE UNCHANGED answer
  BY DEF PlanBackup, Reply, Become, Keep, Wait, Plan, Error, conn, sender, Streams
<1>rot. RotateBackup =>
          /\ rpc \in {"keep", "shift", "promote"} /\ UNCHANGED <<pc, up, ask>>
          /\ \/ rpc' \in RotateStages /\ UNCHANGED <<todo, answer>>
             \/ rpc' = "wait" /\ IF up THEN answer'.kind = IF todo = "done" THEN "done" ELSE "error"
                               ELSE UNCHANGED answer
  <2> SUFFICES ASSUME RotateBackup PROVE <1>rot!2
    OBVIOUS
  <2>1. /\ rpc \in {"keep", "shift", "promote"} /\ UNCHANGED <<pc, up, ask>>
        /\ \/ Keep(NextStage[rpc]) /\ UNCHANGED answer
           \/ Wait(IF todo = "done" THEN DoneMsg(FALSE, 0) ELSE Error)
    BY DEF RotateBackup, Wait, Reply, conn, sender, RotateStages
  <2>2. NextStage[rpc] \in RotateStages
    BY <2>1 DEF NextStage, RotateStages
  <2>3. DoneMsg(FALSE, 0).kind = "done" /\ Error.kind = "error"
    BY DEF DoneMsg, Error, Plan
  <2> QED
    BY <2>1, <2>2, <2>3 DEF Keep, Wait, Reply
<1> USE DEF Talk, Answers, Requests, InStep, Asked, Working, Answered, Streams, PlanKinds, RotateStages,
            receiver, sender
<1>1. CASE ReadConf
  BY <1>1 DEF ReadConf, DoneMsg
<1>2. CASE ReadFrame
  BY <1>2 DEF ReadFrame, DoneMsg
<1>3. CASE PlanBackup
  <2>1. up => pc \in {"plan", "fail"} \/ pc \notin {"idle", "conf", "drop", "snap", "stream", "end", "done",
                                                  "mark", "store", "order", "rotated"} \cup RotateStages
    BY <1>plan, <1>3
  <2>2. Requests'
    BY <1>plan, <1>3
  <2>3. Answers'
    BY <1>plan, <1>3, <2>1
  <2>4. InStep'
    <3> SUFFICES ASSUME up PROVE InStep'
      BY <1>plan, <1>3
    <3>1. (ask = NoMsg /\ answer = NoMsg) \/ pc # "plan"
      BY <1>plan, <1>3
    <3>2. rpc' # "accept" /\ pc' = pc /\ pc # "idle"
      BY <1>plan, <1>3
    <3>3. CASE pc = "plan"
      <4>1. ask' = NoMsg
        BY <1>plan, <1>3, <3>1, <3>3
      <4>2. CASE rpc' \in {"base", "drop", "keep"}
        BY <1>plan, <1>3, <3>1, <3>2, <3>3, <4>1, <4>2
      <4>3. CASE rpc' = "recv"
        BY <1>plan, <1>3, <3>2, <3>3, <4>1, <4>3
      <4>4. CASE rpc' = "wait"
        <5>1. answer'.kind = "error" /\ answer' # NoMsg
          BY <1>plan, <1>3, <4>4
        <5> QED
          BY <3>2, <3>3, <4>1, <4>4, <5>1
      <4> QED
        BY <1>plan, <1>3, <4>2, <4>3, <4>4
    <3>4. CASE pc # "plan"
      BY <1>plan, <1>3, <2>1, <3>2, <3>4
    <3> QED
      BY <3>3, <3>4
  <2> QED
    BY <2>2, <2>3, <2>4
<1>4. CASE DropNew
  BY <1>4 DEF DropNew, Keep, conn
<1>5. CASE ChooseBase
  BY <1>5 DEF ChooseBase, Reply, Become, Wait, Plan, Error
<1>6. CASE ReceiveStart
  BY <1>6 DEF ReceiveStart, DoneMsg
<1>7. CASE ReceiveEnd
  BY <1>7 DEF ReceiveEnd, DoneMsg
<1>8. CASE SetTag \/ Consume \/ MarkBackup \/ StoreConfBackup
  BY <1>8 DEF SetTag, Consume, MarkBackup, StoreConfBackup, Keep, conn
<1>9. CASE Report
  BY <1>9 DEF Report, Wait, Reply, DoneMsg
<1>10. CASE RotateBackup
  <2>1. Requests'
    BY <1>10, <1>rot
  <2>2. Answers'
    BY <1>10, <1>rot
  <2>3. InStep'
    <3>1. CASE UNCHANGED answer
      BY <1>10, <1>rot, <3>1
    <3>2. CASE up /\ answer' # answer
      <4>1. rpc' = "wait" /\ answer' # NoMsg /\ answer'.kind \notin Streams
        BY <1>10, <1>rot, <3>2
      <4> QED
        BY <1>10, <1>rot, <3>2, <4>1
    <3> QED
      BY <1>10, <1>rot, <3>1, <3>2
  <2> QED
    BY <2>1, <2>2, <2>3
<1>11. CASE PruneBackup
  BY <1>11 DEF PruneBackup, Become, Wait, Reply, DoneMsg, Plan, conn
<1>12. CASE Hangup
  BY <1>12 DEF Hangup, conn
<1> QED
  BY <1>1, <1>2, <1>3, <1>4, <1>5, <1>6, <1>7, <1>8, <1>9, <1>10, <1>11, <1>12 DEF Handle

\* A broken connection, a crash and the world around keep it too.
LEMMA TalkStep == TypeOK /\ Talk /\ [Next]_vars => Talk'
<1> SUFFICES ASSUME TypeOK, Talk, [Next]_vars PROVE Talk'
  OBVIOUS
<1>1. CASE CycleRemote
  BY <1>1, SenderTalks
<1>2. CASE Handle
  BY <1>2, ReceiverTalks
<1>3. CASE Drop \/ CrashSender \/ CrashReceiver
  <2>1. NoMsg.kind = "none"
    BY FrameKinds
  <2>2. CASE Drop
    BY <2>1, <2>2 DEF Drop, sender, receiver, Talk, Answers, Requests, InStep
  <2>3. CASE CrashSender
    BY <2>3 DEF CrashSender, LeaveSender, receiver, Talk, Answers, Requests, InStep, RotateStages
  <2>4. CASE CrashReceiver
    BY <2>1, <2>4 DEF CrashReceiver, sender, Talk, Answers, Requests, InStep
  <2> QED
    BY <1>3, <2>2, <2>3, <2>4
<1>4. ASSUME NEW s, Write \/ ChangeConf \/ Rollback(s) \/ Approve \/ UNCHANGED vars PROVE Talk'
  <2>1. UNCHANGED <<pc, rpc, req, todo, up, ask, answer>>
    BY <1>4 DEF Write, ChangeConf, Rollback, Approve, sender, receiver, conn, vars
  <2> QED
    BY <2>1 DEF Talk, Answers, Requests, InStep, Asked, Working, Answered
<1> QED
  BY <1>1, <1>2, <1>3, <1>4 DEF Next

----------------------------------------------------------------------------
(* Types *)

\* What the state holds of the frames under way.
LEMMA FrameParts ==
    ASSUME TypeOK, Talk
    PROVE  /\ ask.kind = "conf" => ask.conf \in Conf
           /\ ask.kind = "data" => ask.base \in Guid
           /\ rpc = "data" => req.base \in Guid /\ req.snap \in Snapshot /\ req.snap.guid \in Guid
           /\ rpc \in {"mark", "store"} => req.conf \in Conf
           /\ rpc = "mark" => req.cons \in BOOLEAN
           /\ pc = "plan" /\ answer # NoMsg => answer \in PlanMsg
<1>1. ask \in ToBackup \cup {NoMsg} /\ req \in ToBackup \cup {NoMsg} /\ answer \in ToPrimary \cup {NoMsg}
  BY DEF TypeOK
<1>2. (ask.kind = "conf" => ask \in ConfOnly) /\ (ask.kind = "data" => ask \in Chunk)
  BY <1>1, FrameKinds
<1>3. (rpc = "data" => req \in Chunk) /\ (rpc \in {"mark", "store"} => req \in RotateMsg)
  BY <1>1, FrameKinds DEF Talk, Requests
<1>4. pc = "plan" /\ answer # NoMsg => answer \in PlanMsg
  BY <1>1, FrameKinds DEF Talk, Answers
<1>5. \A c \in Chunk : c.base \in Guid /\ c.snap \in Snapshot /\ c.snap.guid \in Guid
  BY DEF Chunk, Snapshot, Guid
<1>6. /\ \A c \in ConfOnly : c.conf \in Conf
      /\ \A c \in RotateMsg : c.conf \in Conf
  BY DEF ConfOnly, RotateMsg
<1>7. \A c \in RotateMsg : c.cons \in BOOLEAN
  BY DEF RotateMsg
<1> QED
  BY <1>2, <1>3, <1>4, <1>5, <1>6, <1>7

\* What both hosts know about GUIDs.
LEMMA PairGuids ==
    ASSUME TypeOK
    PROVE  /\ New \in Slots /\ N0 \in Slots /\ N1 \in Slots
           /\ Base \in Guid /\ Newest \in Guid /\ 0 \in Guid /\ NoPair \in Pairs
           /\ \A s \in Slots : P[s].guid \in Guid /\ B[s].guid \in Guid
           /\ Guids(B) \subseteq Guid
           /\ P[New] \in Snapshot
           /\ NextGuid <= MaxGuid =>
                 [guid |-> NextGuid, created |-> 0, data |-> data, frozen |-> FALSE] \in Snapshot
<1>1. P \in Listing /\ B \in Listing
  BY DEF TypeOK
<1>2. Guids(P) \subseteq 1..MaxGuid /\ Guids(B) \subseteq 1..MaxGuid
      /\ \A s \in Slots : P[s].guid \in Guid /\ B[s].guid \in Guid
  BY <1>1, GuidsFacts DEF Guid
<1>3. MaxGuid \in Nat /\ 0 \in Guid /\ NoPair \in Pairs
  BY ZfsStoreBounds DEF Guid, Pairs, NoPair
<1>4. Base \in Guid /\ Newest \in Guid
  <2>1. \A S \in SUBSET (0..MaxGuid) : MaxOf(S) \in 0..MaxGuid
    BY MaxOfIsMax
  <2>2. {req.snaps[s] : s \in Slots \ {New}} \cap Guids(B) \in SUBSET (0..MaxGuid)
    BY <1>2, <1>3
  <2>3. Guids(B) \in SUBSET (0..MaxGuid)
    BY <1>2, <1>3
  <2> QED
    BY <2>1, <2>2, <2>3 DEF Base, Newest, Guid
<1>5. ASSUME NextGuid <= MaxGuid
      PROVE  [guid |-> NextGuid, created |-> 0, data |-> data, frozen |-> FALSE] \in Snapshot
  <2> DEFINE names == Guids(P) \cup Guids(B) \cup {token, blocked[1], blocked[2], approve[1], approve[2]}
  <2>1. names \in SUBSET (0..MaxGuid)
    BY <1>2, <1>3 DEF TypeOK, Pairs, Guid
  <2>2. NextGuid = 1 + MaxOf(names)
    BY DEF NextGuid
  <2> HIDE DEF names
  <2>3. NextGuid \in 0..MaxGuid
    BY <1>3, <1>5, <2>1, <2>2, MaxOfIsMax
  <2>4. 0 \in Hours /\ data \in 0..MaxWrites
    BY ZfsStoreBounds DEF Hours, TypeOK
  <2> QED
    BY <2>3, <2>4 DEF Snapshot
<1>6. New \in Slots /\ N0 \in Slots /\ N1 \in Slots /\ P[New] \in Snapshot
  BY <1>1, SlotFacts DEF Listing
<1> QED
  BY <1>2, <1>3, <1>4, <1>5, <1>6, ZfsStoreBounds DEF Guid

\* The two datasets.
LEMMA ListingsStep ==
    ASSUME TypeOK, Talk, [Next]_vars
    PROVE  P' \in Listing /\ B' \in Listing
<1>1. P \in Listing /\ B \in Listing /\ cons \in BOOLEAN
  BY DEF TypeOK
<1>2. \A l \in Listing, s \in Slots : Destroyed(l, s) \in Listing
  BY DestroyedListing
<1>3. \A l \in Listing, x \in Snapshot : [l EXCEPT ![New] = x] \in Listing
  BY PutListing, PairGuids
<1>4. \A l \in Listing, yes \in BOOLEAN : [l EXCEPT ![New].frozen = yes] \in Listing
  BY FrozenListing, PairGuids
<1>5. \A l \in Listing, g \in Guid : RolledBack(l, g) \in Listing
  BY RolledBackListing DEF Guid
<1>6. \A l \in Listing, stage \in RotateStages : \A keep, now : Rotated(l, stage, keep, now) \in Listing
  BY RotatedListing
<1>7. P' \in Listing
  <2>1. CASE DropStale \/ Fail
    BY <1>1, <1>2, <2>1, PairGuids DEF DropStale, Fail
  <2>2. CASE TakeSnapshot
    BY <1>1, <1>2, <1>3, <2>2, PairGuids DEF TakeSnapshot
  <2>3. CASE Mark
    BY <1>1, <1>4, <2>3 DEF Mark
  <2>4. CASE RotatePrimary
    <3>1. pc \in RotateStages /\ (P' = Rotated(P, pc, KeepOnPrimary, 0) \/ P' = P)
      BY <2>4 DEF RotatePrimary
    <3> QED
      BY <1>1, <1>6, <3>1
  <2>5. ASSUME NEW s \in {N0, N1}, Rollback(s) PROVE P' \in Listing
    BY <1>1, <1>5, <2>5, PairGuids DEF Rollback
  <2>6. CASE SendHello \/ SendConf \/ ConfSent \/ ReadPlan \/ Stream \/ StreamEnd \/ Confirm \/ StoreConf
              \/ PrunePrimary \/ OrderRotate \/ CycleDone \/ NoAnswer
    BY <1>1, <2>6 DEF SendHello, SendConf, ConfSent, ReadPlan, Stream, StreamEnd, Confirm, StoreConf,
                      PrunePrimary, OrderRotate, CycleDone, NoAnswer, primary
  <2>7. CASE Handle
    BY <1>1, <2>7 DEF Handle, ReadConf, ReadFrame, PlanBackup, DropNew, ChooseBase, ReceiveStart, ReceiveEnd,
         SetTag, Consume, Report, MarkBackup, StoreConfBackup, RotateBackup, PruneBackup, Hangup, primary
  <2>8. CASE Drop \/ CrashSender \/ CrashReceiver \/ Write \/ ChangeConf \/ Approve \/ UNCHANGED vars
    BY <1>1, <2>8 DEF Drop, CrashSender, CrashReceiver, Write, ChangeConf, Approve, primary, vars
  <2> QED
    BY <2>1, <2>2, <2>3, <2>4, <2>5, <2>6, <2>7, <2>8 DEF Next, CycleRemote
<1>8. B' \in Listing
  <2>1. CASE DropNew
    BY <1>1, <1>2, <2>1, PairGuids DEF DropNew
  <2>2. CASE ReceiveStart
    BY <1>1, <2>2 DEF ReceiveStart, store
  <2>3. CASE ReceiveEnd
    <3>1. rpc = "data" /\ (B' = B \/ B' = [Forced EXCEPT ![New] = req.snap])
      BY <2>3 DEF ReceiveEnd, BrokenOff
    <3>2. Forced \in Listing
      BY <1>1, <1>5, <3>1, FrameParts DEF Forced
    <3> QED
      BY <1>1, <1>3, <3>1, <3>2, FrameParts
  <2>4. CASE MarkBackup
    <3>1. req.cons \in BOOLEAN
      BY <2>4, FrameParts DEF MarkBackup
    <3> QED
      BY <1>1, <1>4, <2>4, <3>1 DEF MarkBackup
  <2>5. CASE RotateBackup
    <3>1. rpc \in RotateStages /\ (B' = Rotated(B, rpc, TRUE, 0) \/ B' = B)
      BY <2>5 DEF RotateBackup
    <3> QED
      BY <1>1, <1>6, <3>1
  <2>6. CASE ReadConf \/ ReadFrame \/ PlanBackup \/ ChooseBase \/ SetTag \/ Consume \/ Report
              \/ StoreConfBackup \/ PruneBackup \/ Hangup
    BY <1>1, <2>6 DEF ReadConf, ReadFrame, PlanBackup, ChooseBase, SetTag, Consume, Report,
                      StoreConfBackup, PruneBackup, Hangup, BrokenOff, store
  <2>7. CASE CycleRemote
    BY <1>1, <2>7 DEF CycleRemote, SendHello, SendConf, ConfSent, ReadPlan, DropStale, TakeSnapshot, Stream,
         StreamEnd, Confirm, Mark, StoreConf, RotatePrimary, PrunePrimary, OrderRotate, CycleDone, NoAnswer,
         Fail, store
  <2>8. ASSUME NEW s, \/ Drop \/ CrashSender \/ CrashReceiver \/ Write \/ ChangeConf \/ Rollback(s)
                      \/ Approve \/ UNCHANGED vars
        PROVE  B' \in Listing
    BY <1>1, <2>8 DEF Drop, CrashSender, CrashReceiver, BrokenOff, Write, ChangeConf, Rollback, Approve,
                      store, vars
  <2> QED
    BY <2>1, <2>2, <2>3, <2>4, <2>5, <2>6, <2>7, <2>8 DEF Next, Handle
<1> QED
  BY <1>7, <1>8

\* The frames and the plan.
LEMMA FramesStep ==
    ASSUME TypeOK, Talk, [Next]_vars
    PROVE  /\ ask' \in ToBackup \cup {NoMsg} /\ answer' \in ToPrimary \cup {NoMsg}
           /\ req' \in ToBackup \cup {NoMsg} /\ plan' \in PlanMsg \cup {NoPlan}
<1>1. /\ ask \in ToBackup \cup {NoMsg} /\ answer \in ToPrimary \cup {NoMsg}
      /\ req \in ToBackup \cup {NoMsg} /\ plan \in PlanMsg \cup {NoPlan}
  BY DEF TypeOK
<1>2. ASSUME NEW kind \in PlanKinds, NEW base \in Guid
      PROVE  Plan(kind, base) \in ToPrimary \cup {NoMsg}
  BY <1>2 DEF Plan, PlanMsg, ToPrimary
<1>3. ASSUME NEW ok \in BOOLEAN, NEW guid \in Guid
      PROVE  DoneMsg(ok, guid) \in ToPrimary \cup {NoMsg}
  BY <1>3 DEF DoneMsg, Done, ToPrimary
<1>4. {"error", "blocked", "rotate", "resume", "full", "inc"} \subseteq PlanKinds /\ 0 \in Guid /\ token \in Guid
  BY PairGuids DEF PlanKinds, TypeOK
<1>5. ask' \in ToBackup \cup {NoMsg}
  <2>1. [kind |-> "hello", snaps |-> [s \in Slots |-> P[s].guid]] \in ToBackup
    BY PairGuids DEF ToBackup, Hello
  <2>2. \A c \in Conf : [kind |-> "conf", conf |-> c] \in ToBackup
    BY DEF ToBackup, ConfOnly
  <2>3. plan.base \in Guid
    BY <1>1, <1>4 DEF PlanMsg, NoPlan
  <2>4. [kind |-> "data", base |-> plan.base, snap |-> P[New]] \in ToBackup
    BY <2>3, PairGuids DEF ToBackup, Chunk
  <2>5. [kind |-> "rotate", cons |-> cons, conf |-> confs] \in ToBackup
    <3>1. cons \in BOOLEAN /\ confs \in Conf
      BY DEF TypeOK
    <3> QED
      BY <3>1 DEF ToBackup, RotateMsg
  <2>6. End \in ToBackup
    BY DEF ToBackup
  <2>7. CASE SendHello
    BY <2>1, <2>7 DEF SendHello, Dial
  <2>8. CASE SendConf
    BY <1>1, <2>2, <2>8 DEF SendConf, Dial, ConfDelta, conn, TypeOK
  <2>9. CASE Stream
    BY <1>1, <2>4, <2>9 DEF Stream, GiveUp, Goto, Return, conn
  <2>10. CASE StreamEnd
    BY <1>1, <2>6, <2>10 DEF StreamEnd, GiveUp, Goto, Return, conn
  <2>11. CASE OrderRotate
    BY <1>1, <2>5, <2>11 DEF OrderRotate, Return
  <2>12. CASE ConfSent \/ ReadPlan \/ DropStale \/ TakeSnapshot \/ Confirm \/ Mark \/ StoreConf
               \/ RotatePrimary \/ PrunePrimary \/ CycleDone \/ NoAnswer \/ Fail
    BY <1>1, <2>12 DEF ConfSent, ReadPlan, DropStale, TakeSnapshot, Confirm, Mark, StoreConf, RotatePrimary,
                       PrunePrimary, CycleDone, NoAnswer, Fail, GiveUp, Goto, Return, conn
  <2>13. CASE Handle
    BY <1>1, <2>13 DEF Handle, ReadConf, ReadFrame, PlanBackup, DropNew, ChooseBase, ReceiveStart, ReceiveEnd,
         SetTag, Consume, Report, MarkBackup, StoreConfBackup, RotateBackup, PruneBackup, Hangup,
         Wait, Reply, conn
  <2>14. ASSUME NEW s, \/ Drop \/ CrashSender \/ CrashReceiver \/ Write \/ ChangeConf \/ Rollback(s)
                       \/ Approve \/ UNCHANGED vars
         PROVE  ask' \in ToBackup \cup {NoMsg}
    BY <1>1, <2>14 DEF Drop, CrashSender, CrashReceiver, Write, ChangeConf, Rollback, Approve, conn, vars
  <2> QED
    BY <2>7, <2>8, <2>9, <2>10, <2>11, <2>12, <2>13, <2>14 DEF Next, CycleRemote
<1>6. answer' \in ToPrimary \cup {NoMsg}
  <2>1. FALSE \in BOOLEAN /\ TRUE \in BOOLEAN /\ (backup # "absent") \in BOOLEAN
    OBVIOUS
  <2>2. /\ DoneMsg(FALSE, 0) \in ToPrimary \cup {NoMsg} /\ DoneMsg(TRUE, 0) \in ToPrimary \cup {NoMsg}
        /\ DoneMsg(backup # "absent", 0) \in ToPrimary \cup {NoMsg}
    BY <1>3, <1>4, <2>1, Zenon
  <2>3. DoneMsg(TRUE, B[New].guid) \in ToPrimary \cup {NoMsg}
    BY <1>3, PairGuids
  <2>4. /\ Error \in ToPrimary \cup {NoMsg}
        /\ Plan("full", 0) \in ToPrimary \cup {NoMsg} /\ Plan("resume", token) \in ToPrimary \cup {NoMsg}
        /\ Plan("inc", Base) \in ToPrimary \cup {NoMsg} /\ Plan("blocked", 0) \in ToPrimary \cup {NoMsg}
        /\ Plan("rotate", 0) \in ToPrimary \cup {NoMsg}
    BY <1>2, <1>4, PairGuids DEF Error
  <2>5. CASE CycleRemote
    BY <1>1, <2>5 DEF CycleRemote, SendHello, SendConf, ConfSent, ReadPlan, DropStale, TakeSnapshot, Stream,
         StreamEnd, Confirm, Mark, StoreConf, RotatePrimary, PrunePrimary, OrderRotate, CycleDone, NoAnswer,
         Fail, Dial, GiveUp, Goto, Return, LeaveSender, conn
  <2>6. CASE ReadConf \/ ReadFrame \/ ReceiveStart \/ ReceiveEnd
    BY <1>1, <2>2, <2>6 DEF ReadConf, ReadFrame, ReceiveStart, ReceiveEnd
  <2>7. CASE PlanBackup \/ ChooseBase
    BY <1>1, <2>4, <2>7 DEF PlanBackup, ChooseBase, Reply, Wait, conn
  <2>8. CASE Report \/ RotateBackup \/ PruneBackup
    BY <1>1, <2>2, <2>3, <2>4, <2>8 DEF Report, RotateBackup, PruneBackup, Reply, Wait, conn
  <2>9. CASE DropNew \/ SetTag \/ Consume \/ MarkBackup \/ StoreConfBackup \/ Hangup
    BY <1>1, <2>9 DEF DropNew, SetTag, Consume, MarkBackup, StoreConfBackup, Hangup, conn
  <2>10. ASSUME NEW s, \/ Drop \/ CrashSender \/ CrashReceiver \/ Write \/ ChangeConf \/ Rollback(s)
                       \/ Approve \/ UNCHANGED vars
         PROVE  answer' \in ToPrimary \cup {NoMsg}
    BY <1>1, <2>10 DEF Drop, CrashSender, LeaveSender, CrashReceiver, Write, ChangeConf, Rollback, Approve,
                       conn, vars
  <2> QED
    BY <2>5, <2>6, <2>7, <2>8, <2>9, <2>10 DEF Next, Handle
<1>7. req' \in ToBackup \cup {NoMsg}
  <2>1. req' \in {req, ask, NoMsg}
    BY DEF Next, CycleRemote, SendHello, SendConf, ConfSent, ReadPlan, DropStale, TakeSnapshot, Stream,
         StreamEnd, Confirm, Mark, StoreConf, RotatePrimary, PrunePrimary, OrderRotate, CycleDone, NoAnswer,
         Fail, Dial, Handle, ReadConf, ReadFrame, PlanBackup, DropNew, ChooseBase, ReceiveStart, ReceiveEnd,
         SetTag, Consume, Report, MarkBackup, StoreConfBackup, RotateBackup, PruneBackup, Hangup,
         Wait, Keep, Become, Drop, CrashSender, CrashReceiver, Write, ChangeConf, Rollback, Approve,
         receiver, vars
  <2> QED
    BY <1>1, <2>1
<1>8. plan' \in PlanMsg \cup {NoPlan}
  <2>1. CASE ReadPlan
    BY <1>1, <2>1, FrameParts DEF ReadPlan, Return, LeaveSender
  <2>2. CASE ~ ReadPlan
    <3>1. plan' \in {plan, NoPlan}
      BY <2>2 DEF Next, CycleRemote, SendHello, SendConf, ConfSent, DropStale, TakeSnapshot, Stream,
         StreamEnd, Confirm, Mark, StoreConf, RotatePrimary, PrunePrimary, OrderRotate, CycleDone, NoAnswer,
         Fail, GiveUp, Goto, Return, LeaveSender, Handle, ReadConf, ReadFrame, PlanBackup, DropNew, ChooseBase,
         ReceiveStart, ReceiveEnd, SetTag, Consume, Report, MarkBackup, StoreConfBackup, RotateBackup,
         PruneBackup, Hangup, Drop, CrashSender, CrashReceiver, Write, ChangeConf, Rollback, Approve,
         sender, vars
    <3> QED
      BY <1>1, <3>1
  <2> QED
    BY <2>1, <2>2
<1> QED
  BY <1>5, <1>6, <1>7, <1>8

\* Switches: each is set to a constant, passed on or chosen.
LEMMA SwitchesStep ==
    TypeOK /\ [Next]_vars => tag' \in BOOLEAN /\ cons' \in BOOLEAN /\ up' \in BOOLEAN
<1> SUFFICES ASSUME tag \in BOOLEAN, cons \in BOOLEAN, up \in BOOLEAN, [Next]_vars
             PROVE  tag' \in BOOLEAN /\ cons' \in BOOLEAN /\ up' \in BOOLEAN
  BY DEF TypeOK
<1>1. tag' = tag \/ tag' = TRUE
  BY DEF Next, CycleRemote, SendHello, SendConf, ConfSent, ReadPlan, DropStale, TakeSnapshot, Stream,
         StreamEnd, Confirm, Mark, StoreConf, RotatePrimary, PrunePrimary, OrderRotate, CycleDone, NoAnswer,
         Fail, Handle, ReadConf, ReadFrame, PlanBackup, DropNew, ChooseBase,
         ReceiveStart, ReceiveEnd, SetTag, Consume, Report, MarkBackup, StoreConfBackup, RotateBackup,
         PruneBackup, Hangup, BrokenOff, Drop, CrashSender, CrashReceiver, Write, ChangeConf, Rollback, Approve,
         store, vars
<1>2. up' = up \/ up' = TRUE \/ up' = FALSE
  BY DEF Next, CycleRemote, SendHello, SendConf, ConfSent, ReadPlan, DropStale, TakeSnapshot, Stream,
         StreamEnd, Confirm, Mark, StoreConf, RotatePrimary, PrunePrimary, OrderRotate, CycleDone, NoAnswer,
         Fail, Dial, GiveUp, Goto, Return, LeaveSender, Handle, ReadConf, ReadFrame, PlanBackup, DropNew,
         ChooseBase, ReceiveStart, ReceiveEnd, SetTag, Consume, Report, MarkBackup, StoreConfBackup, RotateBackup,
         PruneBackup, Hangup, Wait, Reply, Drop, CrashSender, CrashReceiver, Write, ChangeConf, Rollback, Approve,
         conn, vars
<1>3. cons' = cons \/ cons' = FALSE \/ (TakeSnapshot /\ cons' \in IF Freeze THEN BOOLEAN ELSE {FALSE})
  BY DEF Next, CycleRemote, SendHello, SendConf, ConfSent, ReadPlan, DropStale, TakeSnapshot, Stream,
         StreamEnd, Confirm, Mark, StoreConf, RotatePrimary, PrunePrimary, OrderRotate, CycleDone, NoAnswer,
         Fail, GiveUp, Goto, Return, LeaveSender, Handle, ReadConf, ReadFrame, PlanBackup, DropNew,
         ChooseBase, ReceiveStart, ReceiveEnd, SetTag, Consume, Report, MarkBackup, StoreConfBackup, RotateBackup,
         PruneBackup, Hangup, Drop, CrashSender, CrashReceiver, Write, ChangeConf, Rollback, Approve,
         sender, vars
<1>4. (IF Freeze THEN BOOLEAN ELSE {FALSE}) \subseteq BOOLEAN
  OBVIOUS
<1> QED
  BY <1>1, <1>2, <1>3, <1>4, Zenon

\* Versions of the configuration, GUIDs, and the bounds.
LEMMA NumbersStep ==
    ASSUME TypeOK, Talk, [Next]_vars
    PROVE  /\ data' \in 0..MaxWrites /\ conf' \in Conf /\ pconf' \in Conf /\ bconf' \in Conf
           /\ confs' \in Conf /\ seen' \in Conf \cup {Unread}
           /\ token' \in Guid /\ onto' \in Guid
           /\ blocked' \in Pairs /\ approve' \in Pairs /\ agreed' \subseteq Guid
           /\ writes' \in 0..MaxWrites /\ failures' \in 0..MaxFailures /\ rollbacks' \in 0..MaxRollbacks
<1>1. /\ data \in 0..MaxWrites /\ conf \in Conf /\ pconf \in Conf /\ bconf \in Conf
      /\ confs \in Conf /\ seen \in Conf \cup {Unread}
      /\ token \in Guid /\ onto \in Guid
      /\ blocked \in Pairs /\ approve \in Pairs /\ agreed \subseteq Guid
      /\ writes \in 0..MaxWrites /\ failures \in 0..MaxFailures /\ rollbacks \in 0..MaxRollbacks
      /\ MaxWrites \in Nat /\ MaxFailures \in Nat /\ MaxRollbacks \in Nat /\ MaxConf \in Nat
      /\ P \in Listing
  BY ZfsStoreBounds, PairBounds DEF TypeOK
<1>2. 0 \in Conf
  BY <1>1 DEF Conf
<1>3. conf' = conf \/ (conf < MaxConf /\ conf' = conf + 1)
  BY DEF Next, CycleRemote, SendHello, SendConf, ConfSent, ReadPlan, DropStale, TakeSnapshot, Stream,
         StreamEnd, Confirm, Mark, StoreConf, RotatePrimary, PrunePrimary, OrderRotate, CycleDone, NoAnswer,
         Fail, Handle, ReadConf, ReadFrame, PlanBackup, DropNew, ChooseBase,
         ReceiveStart, ReceiveEnd, SetTag, Consume, Report, MarkBackup, StoreConfBackup, RotateBackup,
         PruneBackup, Hangup, Drop, CrashSender, CrashReceiver, Write, ChangeConf, Rollback, Approve,
         primary, vars
<1>4. pconf' \in {pconf, confs}
  BY DEF Next, CycleRemote, SendHello, SendConf, ConfSent, ReadPlan, DropStale, TakeSnapshot, Stream,
         StreamEnd, Confirm, Mark, StoreConf, RotatePrimary, PrunePrimary, OrderRotate, CycleDone, NoAnswer,
         Fail, Handle, ReadConf, ReadFrame, PlanBackup, DropNew, ChooseBase,
         ReceiveStart, ReceiveEnd, SetTag, Consume, Report, MarkBackup, StoreConfBackup, RotateBackup,
         PruneBackup, Hangup, Drop, CrashSender, CrashReceiver, Write, ChangeConf, Rollback, Approve,
         primary, vars
<1>5. confs' \in {confs, conf, 0}
  BY DEF Next, CycleRemote, SendHello, SendConf, ConfSent, ReadPlan, DropStale, TakeSnapshot, Stream,
         StreamEnd, Confirm, Mark, StoreConf, RotatePrimary, PrunePrimary, OrderRotate, CycleDone, NoAnswer,
         Fail, ConfDelta, GiveUp, Goto, Return, LeaveSender, Handle, ReadConf, ReadFrame, PlanBackup, DropNew,
         ChooseBase, ReceiveStart, ReceiveEnd, SetTag, Consume, Report, MarkBackup, StoreConfBackup, RotateBackup,
         PruneBackup, Hangup, Drop, CrashSender, CrashReceiver, Write, ChangeConf, Rollback, Approve,
         sender, vars
<1>6. seen' \in {seen, pconf, confs, Unread}
  BY DEF Next, CycleRemote, SendHello, SendConf, ConfSent, ReadPlan, DropStale, TakeSnapshot, Stream,
         StreamEnd, Confirm, Mark, StoreConf, RotatePrimary, PrunePrimary, OrderRotate, CycleDone, NoAnswer,
         Fail, GiveUp, Goto, Return, LeaveSender, Handle, ReadConf, ReadFrame, PlanBackup, DropNew,
         ChooseBase, ReceiveStart, ReceiveEnd, SetTag, Consume, Report, MarkBackup, StoreConfBackup, RotateBackup,
         PruneBackup, Hangup, Drop, CrashSender, CrashReceiver, Write, ChangeConf, Rollback, Approve,
         sender, vars
<1>7. \/ bconf' = bconf
      \/ ask.kind = "conf" /\ bconf' = ask.conf
      \/ rpc = "store" /\ bconf' = req.conf
  BY DEF Next, CycleRemote, SendHello, SendConf, ConfSent, ReadPlan, DropStale, TakeSnapshot, Stream,
         StreamEnd, Confirm, Mark, StoreConf, RotatePrimary, PrunePrimary, OrderRotate, CycleDone, NoAnswer,
         Fail, Handle, ReadConf, ReadFrame, PlanBackup, DropNew, ChooseBase,
         ReceiveStart, ReceiveEnd, SetTag, Consume, Report, MarkBackup, StoreConfBackup, RotateBackup,
         PruneBackup, Hangup, Drop, CrashSender, CrashReceiver, Write, ChangeConf, Rollback, Approve, vars
<1>8. /\ token' \in {token, 0} \/ (rpc = "data" /\ token' = req.snap.guid)
      /\ onto' \in {onto, 0} \/ (rpc = "data" /\ onto' = req.base)
  BY DEF Next, CycleRemote, SendHello, SendConf, ConfSent, ReadPlan, DropStale, TakeSnapshot, Stream,
         StreamEnd, Confirm, Mark, StoreConf, RotatePrimary, PrunePrimary, OrderRotate, CycleDone, NoAnswer,
         Fail, Handle, ReadConf, ReadFrame, PlanBackup, DropNew, ChooseBase,
         ReceiveStart, ReceiveEnd, SetTag, Consume, Report, MarkBackup, StoreConfBackup, RotateBackup,
         PruneBackup, Hangup, BrokenOff, Drop, CrashSender, CrashReceiver, Write, ChangeConf, Rollback, Approve,
         store, vars
<1>9. /\ blocked' \in {blocked, NoPair, <<Base, Newest>>}
      /\ approve' \in {approve, NoPair, blocked}
      /\ agreed' = agreed \/ agreed' \subseteq Guids(B)
  BY DEF Next, CycleRemote, SendHello, SendConf, ConfSent, ReadPlan, DropStale, TakeSnapshot, Stream,
         StreamEnd, Confirm, Mark, StoreConf, RotatePrimary, PrunePrimary, OrderRotate, CycleDone, NoAnswer,
         Fail, Handle, ReadConf, ReadFrame, PlanBackup, DropNew, ChooseBase,
         ReceiveStart, ReceiveEnd, SetTag, Consume, Report, MarkBackup, StoreConfBackup, RotateBackup,
         PruneBackup, Hangup, Drop, CrashSender, CrashReceiver, Write, ChangeConf, Rollback, Approve,
         files, vars
<1>10. /\ writes' = writes \/ (writes < MaxWrites /\ writes' = writes + 1)
       /\ rollbacks' = rollbacks \/ (rollbacks < MaxRollbacks /\ rollbacks' = rollbacks + 1)
       /\ failures' = failures \/ (failures < MaxFailures /\ failures' = failures + 1)
  BY DEF Next, CycleRemote, SendHello, SendConf, ConfSent, ReadPlan, DropStale, TakeSnapshot, Stream,
         StreamEnd, Confirm, Mark, StoreConf, RotatePrimary, PrunePrimary, OrderRotate, CycleDone, NoAnswer,
         Fail, Handle, ReadConf, ReadFrame, PlanBackup, DropNew, ChooseBase,
         ReceiveStart, ReceiveEnd, SetTag, Consume, Report, MarkBackup, StoreConfBackup, RotateBackup,
         PruneBackup, Hangup, Drop, CrashSender, CrashReceiver, Write, ChangeConf, Rollback, Approve,
         Fault, env, vars
<1>11. data' \in {data, writes'} \/ \E s \in {N0, N1} : data' = P[s].data
  BY DEF Next, CycleRemote, SendHello, SendConf, ConfSent, ReadPlan, DropStale, TakeSnapshot, Stream,
         StreamEnd, Confirm, Mark, StoreConf, RotatePrimary, PrunePrimary, OrderRotate, CycleDone, NoAnswer,
         Fail, Handle, ReadConf, ReadFrame, PlanBackup, DropNew, ChooseBase,
         ReceiveStart, ReceiveEnd, SetTag, Consume, Report, MarkBackup, StoreConfBackup, RotateBackup,
         PruneBackup, Hangup, Drop, CrashSender, CrashReceiver, Write, ChangeConf, Rollback, Approve,
         primary, vars
<1>12. writes' \in 0..MaxWrites /\ rollbacks' \in 0..MaxRollbacks /\ failures' \in 0..MaxFailures
  BY <1>1, <1>10
<1>13. data' \in 0..MaxWrites
  BY <1>1, <1>11, <1>12, SlotFacts DEF Listing, Snapshot
<1>14. conf' \in Conf /\ pconf' \in Conf /\ confs' \in Conf /\ seen' \in Conf \cup {Unread}
  BY <1>1, <1>2, <1>3, <1>4, <1>5, <1>6 DEF Conf
<1>15. bconf' \in Conf /\ token' \in Guid /\ onto' \in Guid
  BY <1>1, <1>7, <1>8, FrameParts, PairGuids
<1>16. <<Base, Newest>> \in Pairs
  BY PairGuids DEF Pairs
<1>17. blocked' \in Pairs /\ approve' \in Pairs /\ agreed' \subseteq Guid
  BY <1>1, <1>9, <1>16, PairGuids
<1> QED
  BY <1>12, <1>13, <1>14, <1>15, <1>17

PrimarySteps == {"idle", "conf", "plan", "drop", "snap", "stream", "end", "done", "mark", "store",
                 "order", "rotated", "fail"} \cup RotateStages
BackupSteps == {"accept", "wait", "plan", "drop", "base", "recv", "data", "tag", "consume", "report",
                "mark", "store"} \cup RotateStages
Purposes == {"none", "full", "inc", "resume", "rotate", "base", "done"}

\* The control of the two processes.
LEMMA ControlStep ==
    ASSUME TypeOK, Talk, [Next]_vars
    PROVE  /\ pc' \in PrimarySteps /\ rpc' \in BackupSteps /\ todo' \in Purposes
           /\ backup' \in {"absent", "partial", "ready"}
<1>1. pc \in PrimarySteps /\ rpc \in BackupSteps /\ todo \in Purposes /\ backup \in {"absent", "partial", "ready"}
  BY DEF TypeOK, PrimarySteps, BackupSteps, Purposes
<1>2. \A s \in RotateStages \ {"prune"} : NextStage[s] \in RotateStages
  BY DEF RotateStages, NextStage
<1>3. pc' \in PrimarySteps
  <2>1. CASE CycleRemote
    BY <1>1, <1>2, <2>1
       DEF PrimarySteps, RotateStages, CycleRemote, SendHello, SendConf, ConfSent, ReadPlan, DropStale,
           TakeSnapshot, Stream, StreamEnd, Confirm, Mark, StoreConf, RotatePrimary, PrunePrimary, OrderRotate,
           CycleDone, NoAnswer, Fail, GiveUp, Goto, Return, LeaveSender, sender
  <2>2. ASSUME NEW s, \/ Handle \/ Drop \/ CrashSender \/ CrashReceiver \/ Write \/ ChangeConf \/ Rollback(s)
                      \/ Approve \/ UNCHANGED vars
        PROVE  pc' = pc \/ pc' = "idle"
    BY <2>2 DEF Handle, ReadConf, ReadFrame, PlanBackup, DropNew, ChooseBase,
         ReceiveStart, ReceiveEnd, SetTag, Consume, Report, MarkBackup, StoreConfBackup, RotateBackup,
         PruneBackup, Hangup, Drop, CrashSender, LeaveSender, CrashReceiver, Write, ChangeConf, Rollback, Approve,
         sender, vars
  <2> QED
    BY <1>1, <2>1, <2>2 DEF Next, PrimarySteps
<1>4. rpc' \in BackupSteps /\ todo' \in Purposes
  <2>1. CASE CycleRemote
    BY <1>1, <2>1
       DEF CycleRemote, SendHello, SendConf, ConfSent, ReadPlan, DropStale,
           TakeSnapshot, Stream, StreamEnd, Confirm, Mark, StoreConf, RotatePrimary, PrunePrimary, OrderRotate,
           CycleDone, NoAnswer, Fail, Dial, receiver, BackupSteps
  <2>2. CASE ReceiveEnd
    <3>1. todo \in Streams
      BY <2>2 DEF ReceiveEnd, Talk, Requests
    <3> QED
      BY <1>1, <2>2, <3>1 DEF ReceiveEnd, Streams, BackupSteps, Purposes
  <2>3. CASE ReadConf \/ ReadFrame \/ DropNew \/ ChooseBase \/ ReceiveStart \/ SetTag \/ Consume \/ Report
             \/ MarkBackup \/ StoreConfBackup \/ PruneBackup \/ Hangup
    BY <1>1, <2>3
       DEF ReadConf, ReadFrame, DropNew, ChooseBase, ReceiveStart, SetTag, Consume, Report, MarkBackup,
           StoreConfBackup, PruneBackup, Hangup, Keep, Become, Wait, receiver,
           BackupSteps, Purposes, RotateStages
  <2>4. CASE PlanBackup
    BY <1>1, <2>4 DEF PlanBackup, Keep, Become, Wait, BackupSteps, Purposes, RotateStages
  <2>5. CASE RotateBackup
    BY <1>1, <1>2, <2>5 DEF RotateBackup, Keep, Wait, BackupSteps, Purposes
  <2>6. ASSUME NEW s, \/ Drop \/ CrashSender \/ CrashReceiver \/ Write \/ ChangeConf \/ Rollback(s)
                      \/ Approve \/ UNCHANGED vars
        PROVE  rpc' \in {rpc, "accept"} /\ todo' \in {todo, "none"}
    BY <2>6 DEF Drop, CrashSender, CrashReceiver, Write, ChangeConf, Rollback, Approve, receiver, vars
  <2> QED
    BY <1>1, <2>1, <2>2, <2>3, <2>4, <2>5, <2>6 DEF Next, Handle, BackupSteps, Purposes
<1>5. backup' \in {backup, "ready", "partial"}
  BY DEF Next, CycleRemote, SendHello, SendConf, ConfSent, ReadPlan, DropStale, TakeSnapshot, Stream,
         StreamEnd, Confirm, Mark, StoreConf, RotatePrimary, PrunePrimary, OrderRotate, CycleDone, NoAnswer,
         Fail, Handle, ReadConf, ReadFrame, PlanBackup, DropNew, ChooseBase,
         ReceiveStart, ReceiveEnd, SetTag, Consume, Report, MarkBackup, StoreConfBackup, RotateBackup,
         PruneBackup, Hangup, BrokenOff, Drop, CrashSender, CrashReceiver, Write, ChangeConf, Rollback, Approve,
         store, vars
<1> QED
  BY <1>1, <1>3, <1>4, <1>5

\* The two services never take a frame for something it is not: a plan is a plan, a Done a
\* Done, an order an order, wherever the connection breaks or either side goes down.
THEOREM ExchangeInStep == Spec => [](TypeOK /\ Talk)
<1>1. Init => TypeOK /\ Talk
  <2> SUFFICES ASSUME Init PROVE TypeOK /\ Talk
    OBVIOUS
  <2>1. P \in Listing /\ B \in Listing
    BY SlotFacts DEF Init
  <2>2. tag \in BOOLEAN /\ cons \in BOOLEAN /\ up \in BOOLEAN
    BY DEF Init
  <2>3. Talk
    BY DEF Init, Talk, Answers, Requests, InStep, RotateStages
  <2> QED
    BY <2>1, <2>2, <2>3, ZfsStoreBounds, PairBounds
       DEF Init, TypeOK, Conf, Guid, Pairs, NoPair
<1>2. TypeOK /\ Talk /\ [Next]_vars => TypeOK'
  <2> SUFFICES ASSUME TypeOK, Talk, [Next]_vars PROVE TypeOK'
    OBVIOUS
  <2>1. P' \in Listing /\ B' \in Listing
    BY ListingsStep
  <2>2. /\ ask' \in ToBackup \cup {NoMsg} /\ answer' \in ToPrimary \cup {NoMsg}
        /\ req' \in ToBackup \cup {NoMsg} /\ plan' \in PlanMsg \cup {NoPlan}
    BY FramesStep
  <2>3. tag' \in BOOLEAN /\ cons' \in BOOLEAN /\ up' \in BOOLEAN
    BY SwitchesStep
  <2> QED
    BY <2>1, <2>2, <2>3, NumbersStep, ControlStep DEF TypeOK, PrimarySteps, BackupSteps, Purposes
<1> QED
  BY <1>1, <1>2, TalkStep, PTL DEF Spec

\* In particular the types.
THEOREM PairTypeCorrect == Spec => []TypeOK
BY ExchangeInStep, PTL

----------------------------------------------------------------------------
(* The guest's configuration: the inductive invariant *)

\* Every version that is still under way is between the backup's and the guest's; a cycle
\* holds none that is older, and the backup accepts a connection only when nothing is left
\* of the one before.
Between(c) == bconf <= c /\ c <= conf
Carries(m) == m.conf = 0 \/ Between(m.conf)

ConfInv ==
    /\ bconf <= conf /\ confs <= conf
    /\ pc \in {"idle", "plan", "drop", "snap"} => confs = 0
    /\ rpc = "accept" => ~ up /\ ask = NoMsg
    /\ ask.kind = "conf" => Between(ask.conf) /\ pc \in {"idle", "conf"}
    /\ ask.kind = "rotate" => Carries(ask) /\ pc \in {"idle", "rotated"}
    /\ rpc \in {"mark", "store"} =>
          req.kind = "rotate" /\ Carries(req) /\ ask = NoMsg /\ pc \in {"idle", "rotated"}
    /\ pc \in {"stream", "end", "done", "mark", "store", "order"} \cup RotateStages =>
          confs = 0 \/ Between(confs)

\* The numbers the invariant compares.
LEMMA ConfNumbers ==
    ASSUME TypeOK, Talk
    PROVE  /\ bconf \in Nat /\ conf \in Nat /\ confs \in Nat /\ NoMsg.kind = "none" /\ End.kind = "end"
           /\ ask.kind \in {"conf", "rotate"} => ask.conf \in Nat
           /\ rpc \in {"mark", "store"} => req.conf \in Nat
<1>1. \A c \in Conf : c \in Nat
  BY PairBounds DEF Conf
<1>2. ask.kind = "rotate" => ask.conf \in Conf
  <2>1. ask.kind = "rotate" => ask \in RotateMsg
    BY FrameKinds DEF TypeOK
  <2> QED
    BY <2>1 DEF RotateMsg
<1> QED
  BY <1>1, <1>2, FrameParts, FrameKinds DEF TypeOK

\* The primary takes the guest's version, and offers a newer one only when the backup has
\* no frame of it left to read.
LEMMA SenderConf == TypeOK /\ Talk /\ ConfInv /\ CycleRemote => ConfInv'
<1> SUFFICES ASSUME ConfInv, CycleRemote,
                    bconf \in Nat, conf \in Nat, confs \in Nat, NoMsg.kind = "none", End.kind = "end",
                    ask.kind \in {"conf", "rotate"} => ask.conf \in Nat,
                    rpc \in {"mark", "store"} => req.conf \in Nat
             PROVE  ConfInv'
  BY ConfNumbers
<1>0. UNCHANGED <<bconf, conf>>
  BY DEF CycleRemote, SendHello, SendConf, ConfSent, ReadPlan, DropStale, TakeSnapshot, Stream, StreamEnd,
         Confirm, Mark, StoreConf, RotatePrimary, PrunePrimary, OrderRotate, CycleDone, NoAnswer, Fail, primary
<1>1. CASE SendHello
  BY <1>0, <1>1 DEF SendHello, Dial, Goto, ConfInv, Between, Carries, RotateStages
<1>2. CASE SendConf
  BY <1>0, <1>2 DEF SendConf, Dial, ConfDelta, receiver, conn, ConfInv, Between, Carries, RotateStages
<1>3. CASE TakeSnapshot
  <2>1. /\ pc = "snap" /\ UNCHANGED <<rpc, req, ask>>
        /\ \/ pc' = "stream" /\ confs' = conf /\ UNCHANGED up
           \/ pc' = "snap" /\ UNCHANGED <<confs, up>>
           \/ pc' = "idle" /\ confs' = 0 /\ up' = FALSE
    BY <1>3 DEF TakeSnapshot, Return, LeaveSender, sender, receiver, conn
  <2> QED
    BY <1>0, <2>1 DEF ConfInv, Between, Carries, RotateStages
<1>4. CASE OrderRotate
  <2>1. /\ pc = "order" /\ UNCHANGED <<rpc, req>>
        /\ \/ /\ up /\ UNCHANGED <<up, confs>> /\ ask = NoMsg /\ pc' = "rotated"
              /\ ask' = [kind |-> "rotate", cons |-> cons, conf |-> confs]
           \/ UNCHANGED ask /\ pc' = "idle" /\ confs' = 0 /\ up' = FALSE
    BY <1>4 DEF OrderRotate, Goto, Return, LeaveSender, receiver
  <2> QED
    BY <1>0, <2>1 DEF ConfInv, Between, Carries, RotateStages
<1>5. CASE Stream \/ StreamEnd
  <2>1. /\ pc \in {"stream", "end"} /\ UNCHANGED <<rpc, req>>
        /\ \/ up /\ UNCHANGED <<up, confs>> /\ ask'.kind \in {"data", "end"} /\ pc' \in {"end", "done"}
           \/ UNCHANGED <<up, confs, ask>> /\ pc' = "fail"
           \/ UNCHANGED ask /\ pc' = "idle" /\ confs' = 0 /\ up' = FALSE
    BY <1>5 DEF Stream, StreamEnd, GiveUp, Goto, Return, LeaveSender, receiver, conn
  <2> QED
    BY <1>0, <2>1 DEF ConfInv, Between, Carries, RotateStages
<1>6. CASE ReadPlan
  <2>1. /\ pc = "plan" /\ UNCHANGED <<rpc, req, ask>>
        /\ \/ UNCHANGED <<up, confs>> /\ pc' \in {"keep", "stream", "drop", "snap"}
           \/ pc' = "idle" /\ confs' = 0 /\ up' = FALSE
    BY <1>6 DEF ReadPlan, Return, LeaveSender, receiver
  <2>2. confs = 0
    BY <2>1 DEF ConfInv
  <2> QED
    BY <1>0, <2>1, <2>2 DEF ConfInv, Between, Carries, RotateStages
<1>7. CASE ConfSent \/ DropStale \/ Confirm \/ Mark \/ StoreConf \/ RotatePrimary \/ PrunePrimary \/ CycleDone
           \/ NoAnswer \/ Fail
  <2>1. /\ UNCHANGED <<rpc, req, ask>>
        /\ \/ pc' = "idle" /\ confs' = 0 /\ up' = FALSE
           \/ UNCHANGED <<up, confs>> /\ pc = "drop" /\ pc' = "snap"
           \/ UNCHANGED <<up, confs>> /\ pc \in {"done", "mark", "store"} \cup RotateStages
              /\ pc' \in {"mark", "store", "order", "fail"} \cup RotateStages
    BY <1>7 DEF ConfSent, DropStale, Confirm, Mark, StoreConf, RotatePrimary, PrunePrimary, CycleDone, NoAnswer,
                Fail, GiveUp, Goto, Return, LeaveSender, NextStage, RotateStages, receiver, conn
  <2> QED
    BY <1>0, <2>1 DEF ConfInv, Between, Carries, RotateStages
<1> QED
  BY <1>1, <1>2, <1>3, <1>4, <1>5, <1>6, <1>7 DEF CycleRemote

\* The backup stores what it was sent.
LEMMA ReceiverConf == TypeOK /\ Talk /\ ConfInv /\ Handle => ConfInv' /\ bconf' >= bconf
<1> SUFFICES ASSUME ConfInv, Handle,
                    bconf \in Nat, conf \in Nat, confs \in Nat, NoMsg.kind = "none", End.kind = "end",
                    ask.kind \in {"conf", "rotate"} => ask.conf \in Nat,
                    rpc \in {"mark", "store"} => req.conf \in Nat,
                    rpc = "data" => todo \in Streams
             PROVE  ConfInv' /\ bconf' >= bconf
  BY ConfNumbers DEF Talk, Requests
<1>0. UNCHANGED <<conf, pc, confs>>
  BY DEF Handle, ReadConf, ReadFrame, PlanBackup, DropNew, ChooseBase, ReceiveStart, ReceiveEnd, SetTag, Consume,
         Report, MarkBackup, StoreConfBackup, RotateBackup, PruneBackup, Hangup, primary, sender
<1>1. CASE ReadConf
  <2>1. /\ rpc = "wait" /\ ask.kind = "conf" /\ UNCHANGED <<rpc, req, up>> /\ ask' = NoMsg
        /\ bconf' \in {bconf, ask.conf}
    BY <1>1 DEF ReadConf, receiver
  <2> QED
    BY <1>0, <2>1 DEF ConfInv, Between, Carries, RotateStages
<1>2. CASE ReadFrame
  <2>1. /\ rpc = "wait" /\ ask' = NoMsg /\ UNCHANGED <<bconf, up>>
        /\ rpc' \in {"wait", "plan"} \/ (ask.kind = "rotate" /\ rpc' = "mark" /\ req' = ask)
    BY <1>2 DEF ReadFrame, receiver
  <2> QED
    BY <1>0, <2>1 DEF ConfInv, Between, Carries, RotateStages
<1>3. CASE StoreConfBackup
  <2>1. /\ rpc = "store" /\ rpc' = "keep" /\ UNCHANGED <<ask, up>>
        /\ bconf' \in {bconf, req.conf} /\ (req.conf = 0 => bconf' = bconf)
    BY <1>3 DEF StoreConfBackup, Keep, conn
  <2> QED
    BY <1>0, <2>1 DEF ConfInv, Between, Carries, RotateStages
<1>4. CASE MarkBackup
  <2>1. rpc = "mark" /\ rpc' = "store" /\ UNCHANGED <<ask, up, req, bconf>>
    BY <1>4 DEF MarkBackup, Keep, conn
  <2> QED
    BY <1>0, <2>1 DEF ConfInv, Between, Carries, RotateStages
<1>5. CASE \/ PlanBackup \/ DropNew \/ ChooseBase \/ ReceiveStart \/ ReceiveEnd \/ SetTag \/ Consume
           \/ Report \/ RotateBackup \/ PruneBackup \/ Hangup
  <2>1. UNCHANGED <<bconf, up>> /\ ask' \in {ask, NoMsg}
    BY <1>5 DEF PlanBackup, DropNew, ChooseBase, ReceiveStart, ReceiveEnd, SetTag, Consume, Report, RotateBackup,
                PruneBackup, Hangup, Wait, Reply, conn
  <2>2. rpc' \notin {"mark", "store"} /\ (rpc' = "accept" => ~ up /\ ask' = NoMsg)
    <3>1. CASE PlanBackup
      BY <3>1 DEF PlanBackup, Wait, Keep, Become
    <3>2. CASE RotateBackup
      <4>1. rpc \in RotateStages \ {"prune"} /\ (rpc' = NextStage[rpc] \/ rpc' = "wait")
        BY <3>2 DEF RotateBackup, Wait, Keep
      <4>2. NextStage[rpc] \in RotateStages
        BY <4>1 DEF NextStage, RotateStages
      <4> QED
        BY <4>1, <4>2 DEF RotateStages
    <3>3. CASE ReceiveEnd
      BY <3>3 DEF ReceiveEnd, Streams
    <3>4. CASE DropNew \/ ChooseBase \/ ReceiveStart \/ SetTag \/ Consume \/ Report \/ PruneBackup \/ Hangup
      BY <3>4 DEF DropNew, ChooseBase, ReceiveStart, SetTag, Consume, Report, PruneBackup, Hangup,
                  Wait, Keep, Become, conn
    <3> QED
      BY <1>5, <3>1, <3>2, <3>3, <3>4
  <2> QED
    BY <1>0, <2>1, <2>2 DEF ConfInv, Between, Carries, RotateStages
<1> QED
  BY <1>1, <1>2, <1>3, <1>4, <1>5 DEF Handle

\* No step of either service takes the configuration of the backup back, and what is
\* still under way stays ahead of it.
LEMMA ConfStep == TypeOK /\ Talk /\ ConfInv /\ [Next]_vars => ConfInv' /\ bconf' >= bconf
<1> SUFFICES ASSUME TypeOK, Talk, ConfInv, [Next]_vars PROVE ConfInv' /\ bconf' >= bconf
  OBVIOUS
<1>1. bconf \in Nat /\ conf \in Nat /\ confs \in Nat /\ NoMsg.kind = "none"
  BY ConfNumbers
<1>2. CASE CycleRemote
  <2>1. bconf' = bconf
    BY <1>2 DEF CycleRemote, SendHello, SendConf, ConfSent, ReadPlan, DropStale, TakeSnapshot, Stream, StreamEnd,
         Confirm, Mark, StoreConf, RotatePrimary, PrunePrimary, OrderRotate, CycleDone, NoAnswer, Fail
  <2> QED
    BY <1>1, <1>2, <2>1, SenderConf
<1>3. CASE Handle
  BY <1>3, ReceiverConf
<1>4. CASE Drop \/ CrashSender \/ CrashReceiver
  <2>1. /\ UNCHANGED <<bconf, conf>> /\ ask' \in {ask, NoMsg}
        /\ \/ UNCHANGED <<rpc, req>>
           \/ rpc' = "accept" /\ ask' = NoMsg
        /\ up' = FALSE
        /\ UNCHANGED <<pc, confs>> \/ (pc' = "idle" /\ confs' = 0)
    BY <1>4 DEF Drop, CrashSender, LeaveSender, CrashReceiver, primary, sender, receiver
  <2> QED
    BY <1>1, <2>1 DEF ConfInv, Between, Carries, RotateStages
<1>5. CASE ChangeConf
  <2>1. UNCHANGED <<bconf, confs, pc, rpc, req, up, ask>> /\ conf' = conf + 1
    BY <1>5 DEF ChangeConf, sender, receiver, conn
  <2>2. /\ ask.kind \in {"conf", "rotate"} => ask.conf \in Nat
        /\ rpc \in {"mark", "store"} => req.conf \in Nat
    BY ConfNumbers
  <2> QED
    BY <1>1, <2>1, <2>2 DEF ConfInv, Between, Carries
<1>6. ASSUME NEW s, Write \/ Rollback(s) \/ Approve \/ UNCHANGED vars PROVE ConfInv' /\ bconf' >= bconf
  <2>1. UNCHANGED <<bconf, conf, confs, pc, rpc, req, up, ask>>
    BY <1>6 DEF Write, Rollback, Approve, primary, sender, receiver, conn, vars
  <2> QED
    BY <1>1, <2>1 DEF ConfInv, Between, Carries
<1> QED
  BY <1>2, <1>3, <1>4, <1>5, <1>6 DEF Next

\* However late a frame, an order or an answer comes, and whoever goes down in between, the
\* backup never gets an older configuration of the guest than it has (confOnlyRemote,
\* applyConfs: the primary sends what it reads, never what it sent last).
THEOREM ConfForward == Spec => ConfNeverGoesBack
<1>1. Init => ConfInv
  BY FrameKinds DEF Init, ConfInv, RotateStages
<1> QED
  BY <1>1, ConfStep, ExchangeInStep, PTL DEF Spec, ConfNeverGoesBack

----------------------------------------------------------------------------
(* Whose turn it is, also after the connection has broken *)

\* The backup is planning, or rotates because it was told to.
Planning == rpc \in {"plan", "drop", "base"} \/ (rpc \in RotateStages /\ todo \in {"rotate", "base"})
Following == rpc \in {"mark", "store"} \/ (rpc \in RotateStages /\ todo = "done")

\* A plan that sends a new snapshot.
Sends == {"full", "inc"}

\* The backup: what it does is what the primary has asked for in the same connection, and
\* the primary has not gone on since, or has given up.
BackupTurn ==
    /\ rpc = "accept" => ~ up /\ ask = NoMsg
    /\ ask.kind = "hello" => rpc = "wait" /\ pc \in {"plan", "idle"} /\ answer = NoMsg
    /\ ask.kind = "rotate" => rpc = "wait" /\ pc \in {"rotated", "idle"}
    /\ ask.kind = "data" => rpc = "recv" /\ pc \in {"end", "fail", "idle"}
    /\ ask.kind = "end" => pc \in {"done", "fail", "idle"}
    /\ Planning => pc \in {"plan", "idle"} /\ answer = NoMsg
    /\ Following => todo = "done" /\ pc \in {"rotated", "idle"}
    /\ rpc \in RotateStages => todo \in {"rotate", "base", "done"}
    /\ rpc = "recv" => pc \in {"plan", "drop", "snap", "stream", "end", "fail", "idle"}
    /\ rpc = "data" => pc \in {"end", "done", "fail", "idle"}
    /\ rpc \in {"tag", "consume", "report"} => ask = NoMsg /\ pc \in {"done", "fail", "idle"}

\* The primary: while it acts on a plan or a confirmation, the backup waits for it.
PrimaryTurn ==
    /\ pc = "plan" /\ answer.kind = "rotate" => rpc \in {"wait", "accept"}
    /\ pc = "plan" /\ answer.kind \in Streams => rpc \in {"recv", "accept"} /\ (rpc = "recv" => todo = answer.kind)
    /\ pc \in {"drop", "snap", "stream"} => rpc \in {"recv", "accept"} /\ (rpc = "recv" => todo = plan.kind)
    /\ pc = "done" /\ answer.kind = "done" /\ answer.ok => ask = NoMsg /\ rpc \in {"wait", "accept"}
    /\ pc \in {"mark", "store", "order"} \cup RotateStages => rpc \in {"wait", "accept"}
    /\ pc \in {"drop", "snap", "fail", "mark", "store", "order"} => plan.kind \in Sends
    /\ pc \in {"stream", "end", "done"} => plan.kind \in Streams
    /\ pc \in RotateStages => plan.kind \in Sends \cup {"rotate"}

Turns == BackupTurn /\ PrimaryTurn

\* The steps of the primary keep the turns.
LEMMA SenderTurns == TypeOK /\ Talk /\ Turns /\ CycleRemote => Turns'
<1> SUFFICES ASSUME Talk, Turns, CycleRemote,
                    ask.kind = "none" => ask = NoMsg,
                    answer.kind = "none" => answer = NoMsg,
                    answer.kind \in PlanKinds \cup {"done", "none"},
                    NoMsg.kind = "none", End.kind = "end",
                    up \in BOOLEAN
             PROVE  Turns'
  BY FrameKinds DEF TypeOK
<1>snap. TakeSnapshot =>
          /\ pc = "snap" /\ UNCHANGED <<rpc, req, todo, ask>>
          /\ \/ pc' \in {"stream", "snap"} /\ UNCHANGED <<up, answer, plan>>
             \/ pc' = "idle" /\ up' = FALSE /\ answer' = NoMsg
  BY DEF TakeSnapshot, Return, LeaveSender, sender, receiver, conn
<1> USE DEF Turns, BackupTurn, PrimaryTurn, Planning, Following, Sends, Streams, RotateStages, receiver, conn
<1>1. CASE SendHello
  BY <1>1 DEF SendHello, Dial, Goto
<1>2. CASE SendConf
  BY <1>2 DEF SendConf, Dial
<1>3. CASE ConfSent
  BY <1>3 DEF ConfSent, LeaveSender
<1>4. CASE ReadPlan
  BY <1>4 DEF ReadPlan, Return, LeaveSender, Talk, Answers, PlanKinds
<1>5. CASE DropStale
  BY <1>5 DEF DropStale, Goto
<1>6. CASE TakeSnapshot
  BY <1>snap, <1>6
<1>7. CASE Stream
  BY <1>7 DEF Stream, GiveUp, Goto, Return, LeaveSender, Talk, InStep, Working
<1>8. CASE StreamEnd
  BY <1>8 DEF StreamEnd, GiveUp, Goto, Return, LeaveSender, Talk, InStep, Working, Asked, Answered
<1>9. CASE Confirm
  BY <1>9 DEF Confirm, GiveUp, Goto, Return, LeaveSender, Talk, Answers
<1>10. CASE Mark
  BY <1>10 DEF Mark, Goto
<1>11. CASE StoreConf
  BY <1>11 DEF StoreConf
<1>12. CASE RotatePrimary
  BY <1>12 DEF RotatePrimary, Goto, Return, LeaveSender, NextStage
<1>13. CASE PrunePrimary
  BY <1>13 DEF PrunePrimary, Goto, Return, LeaveSender
<1>14. CASE OrderRotate
  BY <1>14 DEF OrderRotate, Goto, Return, LeaveSender, Talk, InStep, Working
<1>15. CASE CycleDone \/ NoAnswer
  BY <1>15 DEF CycleDone, NoAnswer, GiveUp, Goto, Return, LeaveSender
<1>16. CASE Fail
  BY <1>16 DEF Fail, Return, LeaveSender
<1> QED
  BY <1>1, <1>2, <1>3, <1>4, <1>5, <1>6, <1>7, <1>8, <1>9, <1>10, <1>11, <1>12, <1>13, <1>14, <1>15, <1>16
     DEF CycleRemote

\* So do those of the backup.
LEMMA ReceiverTurns == TypeOK /\ Talk /\ Turns /\ Handle => Turns'
<1> SUFFICES ASSUME Talk, Turns, Handle,
                    ask.kind = "none" => ask = NoMsg,
                    answer.kind = "none" => answer = NoMsg,
                    NoMsg.kind = "none", End.kind = "end",
                    up \in BOOLEAN
             PROVE  Turns'
  BY FrameKinds DEF TypeOK
<1>plan. PlanBackup =>
          /\ rpc = "plan" /\ UNCHANGED <<pc, plan, up, ask>>
          /\ \/ rpc' \in {"base", "drop"} /\ UNCHANGED answer
             \/ rpc' = "keep" /\ todo' \in {"rotate", "base"} /\ UNCHANGED answer
             \/ rpc' = "recv" /\ todo' \in Streams /\ IF up THEN answer'.kind = todo' ELSE UNCHANGED answer
             \/ rpc' = "wait" /\ IF up THEN answer'.kind = "error" ELSE UNCHANGED answer
  BY DEF PlanBackup, Reply, Become, Keep, Wait, Plan, Error, conn, sender, Streams
<1>rot. RotateBackup =>
          /\ rpc \in {"keep", "shift", "promote"} /\ UNCHANGED <<pc, plan, up, ask>>
          /\ \/ rpc' \in RotateStages /\ UNCHANGED <<todo, answer>>
             \/ rpc' = "wait" /\ IF up THEN answer'.kind = IF todo = "done" THEN "done" ELSE "error"
                               ELSE UNCHANGED answer
  <2> SUFFICES ASSUME RotateBackup PROVE <1>rot!2
    OBVIOUS
  <2>1. /\ rpc \in {"keep", "shift", "promote"} /\ UNCHANGED <<pc, plan, up, ask>>
        /\ \/ Keep(NextStage[rpc]) /\ UNCHANGED answer
           \/ Wait(IF todo = "done" THEN DoneMsg(FALSE, 0) ELSE Error)
    BY DEF RotateBackup, Wait, Reply, conn, sender, RotateStages
  <2>2. NextStage[rpc] \in RotateStages
    BY <2>1 DEF NextStage, RotateStages
  <2>3. DoneMsg(FALSE, 0).kind = "done" /\ Error.kind = "error"
    BY DEF DoneMsg, Error, Plan
  <2> QED
    BY <2>1, <2>2, <2>3 DEF Keep, Wait, Reply
<1> USE DEF Turns, BackupTurn, PrimaryTurn, Planning, Following, Sends, Streams, RotateStages, receiver, sender
<1>1. CASE ReadConf
  BY <1>1 DEF ReadConf, DoneMsg
<1>2. CASE ReadFrame
  BY <1>2 DEF ReadFrame, DoneMsg
<1>3. CASE PlanBackup
  BY <1>3, <1>plan
<1>4. CASE DropNew
  BY <1>4 DEF DropNew, Keep, conn
<1>5. CASE ChooseBase
  BY <1>5 DEF ChooseBase, Reply, Become, Wait, Plan, Error
<1>6. CASE ReceiveStart
  BY <1>6 DEF ReceiveStart, DoneMsg
<1>7. CASE ReceiveEnd
  BY <1>7 DEF ReceiveEnd, DoneMsg, Talk, Requests
<1>8. CASE SetTag \/ Consume \/ MarkBackup \/ StoreConfBackup
  BY <1>8 DEF SetTag, Consume, MarkBackup, StoreConfBackup, Keep, conn
<1>9. CASE Report
  BY <1>9 DEF Report, Wait, Reply, DoneMsg
<1>10. CASE RotateBackup
  BY <1>10, <1>rot
<1>11. CASE PruneBackup
  BY <1>11 DEF PruneBackup, Become, Wait, Reply, DoneMsg, Plan, conn
<1>12. CASE Hangup
  BY <1>12 DEF Hangup, conn
<1> QED
  BY <1>1, <1>2, <1>3, <1>4, <1>5, <1>6, <1>7, <1>8, <1>9, <1>10, <1>11, <1>12 DEF Handle

\* And everything else.
LEMMA TurnsStep == TypeOK /\ Talk /\ Turns /\ [Next]_vars => Turns'
<1> SUFFICES ASSUME TypeOK, Talk, Turns, [Next]_vars PROVE Turns'
  OBVIOUS
<1>1. CASE CycleRemote
  BY <1>1, SenderTurns
<1>2. CASE Handle
  BY <1>2, ReceiverTurns
<1>3. CASE Drop \/ CrashSender \/ CrashReceiver
  <2>1. NoMsg.kind = "none"
    BY FrameKinds
  <2>2. /\ up' = FALSE /\ ask' \in {ask, NoMsg} /\ answer' \in {answer, NoMsg}
        /\ \/ UNCHANGED <<pc, plan, rpc, todo>>
           \/ pc' = "idle" /\ answer' = NoMsg /\ UNCHANGED <<rpc, todo>>
           \/ rpc' = "accept" /\ ask' = NoMsg /\ UNCHANGED <<pc, plan>>
    BY <1>3 DEF Drop, CrashSender, CrashReceiver, LeaveSender, sender, receiver
  <2> QED
    BY <2>1, <2>2 DEF Turns, BackupTurn, PrimaryTurn, Planning, Following, RotateStages, Streams
<1>4. ASSUME NEW s, Write \/ ChangeConf \/ Rollback(s) \/ Approve \/ UNCHANGED vars PROVE Turns'
  <2>1. UNCHANGED <<pc, plan, rpc, todo, up, ask, answer>>
    BY <1>4 DEF Write, ChangeConf, Rollback, Approve, sender, receiver, conn, vars
  <2> QED
    BY <2>1 DEF Turns, BackupTurn, PrimaryTurn, Planning, Following
<1> QED
  BY <1>1, <1>2, <1>3, <1>4 DEF Next

----------------------------------------------------------------------------
(* The shared base: the inductive invariant, while planBackup sees what is there *)

Mine == P[New].guid
Theirs == B[New].guid
MyBase == P[N0].guid
TheirBase == B[N0].guid
Offer == [s \in Slots |-> P[s].guid]

\* A linked backup that holds snapshots shares one with the primary.
Based == tag /\ Others(B) # {} => Guids(P) \cap Guids(B) # {}

\* It shares one that neither side is about to discard.
Kept == tag /\ Others(B) # {} => Others(P) \cap Others(B) # {}

\* Nothing on the backup is newer than what both have rotated.
Topped == \A x \in Guids(B) : \E y \in Others(P) \cap Guids(B) : x <= y

\* The newest snapshot on the backup is in no question that is still open.
Unasked == blocked[2] \notin Guids(B) /\ approve[2] \notin Guids(B)

\* Snapshots that the backup may be rolled back to, that may arrive on top of what it
\* has, and that may be the last ones the primary has taken.
Loss(b) == {g \in Guids(B) : g > b}
Grants ==
    {b \in Others(P) \cap Others(B) :
        ~ RollbackAuto =>
            /\ Loss(b) \subseteq agreed
            /\ blocked # NoPair /\ Loss(b) # {} => blocked[1] <= b}
Ahead == {g \in 1..MaxGuid : \A x \in Guids(B) \cup {blocked[2], approve[2]} : x < g}
Leading == {g \in Guid : g \notin Others(P) /\ \A x \in Guids(P) : x <= g}

\* Where the two new snapshots can be: a received one that the primary has is its newest
\* or its base, and it is newer than everything else on the backup.
Placed ==
    /\ \A s \in Slots : B[s] = NoSnap \/ B[s].guid # 0
    /\ Theirs # 0 => \A s \in Slots : P[s].guid = Theirs => s \in {New, N0}
    /\ Theirs # 0 => \A x \in Others(B) : x < Theirs
    /\ Mine \notin Others(P)
    /\ Mine # 0 => \A x \in Guids(P) : x <= Mine
    /\ backup = "absent" => ~ tag /\ Guids(B) = {}

\* What a token stands for is newer than the backup, which holds nothing unconfirmed.
Partial ==
    token # 0 =>
        /\ Theirs = 0
        /\ token \in Ahead
        /\ token = Mine /\ Newest = onto => Topped

\* A question names the newest base, as long as what would be lost is there, and
\* what the operator has agreed to lose is what the approval says.
Settled(pair) ==
    /\ pair = NoPair \/ pair[1] < pair[2]
    /\ pair[2] \in Guids(B) => \A g \in Others(P) \cap Guids(B) : g <= pair[1]
Asking ==
    /\ Settled(blocked) /\ Settled(approve)
    /\ \A g \in Guids(B) : approve[1] < g /\ g <= approve[2] => g \in agreed
    /\ approve[2] \in Guids(B) /\ blocked # NoPair => blocked[1] <= approve[1]
    /\ Theirs = Mine /\ Mine # 0 => Unasked

Stocked == Based /\ Placed /\ Partial /\ Asking

\* What the backup plans with is what the primary has, until it gets the plan.
Offered ==
    /\ ask.kind = "hello" => ask.snaps = Offer
    /\ Planning => req.snaps = Offer
    /\ rpc \in {"drop", "base"} => Theirs \notin Guids(P)

\* The base of an increment stays one until the stream has ended.
Promised ==
    /\ rpc = "recv" /\ todo = "inc" =>
        /\ pc = "plan" /\ answer.kind = "inc" => answer.base \in Grants
        /\ pc \in {"drop", "snap", "stream"} => plan.base \in Grants
        /\ ask.kind = "data" => ask.base \in Grants
    /\ rpc = "data" /\ todo = "inc" => req.base \in Grants

\* A new snapshot that is sent is the newest one, and until it is confirmed an older base
\* is kept for "fail".
Sending ==
    /\ \/ pc = "plan" /\ answer.kind \in Sends
       \/ pc \in {"drop", "snap", "stream", "end", "done", "fail"} /\ plan.kind \in Sends
       => Kept
    /\ pc = "stream" /\ plan.kind \in Sends => Mine \in Ahead
    /\ pc \in {"end", "done"} /\ plan.kind \in Sends => Mine # 0
    /\ pc = "done" /\ answer.kind = "done" /\ answer.ok => answer.guid \in {0, Theirs}

Arriving ==
    /\ ask.kind = "data" =>
          /\ todo \in Sends => ask.snap.guid \in Ahead
          /\ ask.snap.guid # 0 => ask.snap.guid \in Leading
    /\ rpc = "recv" /\ todo = "resume" => token # 0
    /\ rpc = "data" =>
          /\ Theirs = 0 /\ req.snap.guid \in Ahead /\ req.snap.guid \in Leading
          /\ todo = "full" => Guids(B) = {}
          /\ todo # "inc" /\ req.snap.guid = Mine => Topped
    /\ rpc = "tag" => backup # "absent" /\ Others(B) = {}

\* The primary rotates what both have, and the backup follows it.
Confirmed ==
    /\ pc \in {"mark", "store"} \/ (pc \in {"keep", "shift", "promote"} /\ plan.kind \in Sends) =>
          Theirs = Mine /\ Mine # 0
    /\ pc = "order" \/ (pc = "prune" /\ plan.kind \in Sends) => Theirs = MyBase /\ Theirs # 0
    /\ ask.kind = "rotate" => Theirs = MyBase /\ Theirs # 0
    /\ Following /\ rpc # "prune" => Theirs = MyBase /\ Theirs # 0

\* A rotation that was interrupted is completed, on the backup first.
Recovering ==
    /\ rpc \in {"keep", "shift", "promote"} /\ todo = "rotate" => Theirs = Mine /\ Mine # 0
    /\ rpc \in {"keep", "shift", "promote"} /\ todo = "base" => Theirs = MyBase /\ Theirs # 0
    /\ rpc = "promote" => TheirBase = 0
    /\ rpc = "prune" => Theirs = 0
    /\ \/ rpc = "prune" /\ todo = "rotate"
       \/ pc = "plan" /\ answer.kind = "rotate"
       \/ pc \in {"keep", "shift", "promote"} /\ plan.kind = "rotate"
       => Mine = TheirBase /\ Mine # 0 /\ Theirs = 0 /\ Unasked

Staged == Offered /\ Promised /\ Sending /\ Arriving /\ Confirmed /\ Recovering
BaseInv == Turns /\ Stocked /\ Staged

\* What the two sides hold, with and without the new snapshots.
LEMMA Sides ==
    ASSUME TypeOK
    PROVE  /\ P \in Listing /\ B \in Listing
           /\ Guids(P) = Others(P) \cup ({Mine} \ {0}) /\ Guids(B) = Others(B) \cup ({Theirs} \ {0})
           /\ Guids(P) \subseteq 1..MaxGuid /\ Guids(B) \subseteq 1..MaxGuid
           /\ Others(P) \subseteq 1..MaxGuid /\ Others(B) \subseteq 1..MaxGuid
           /\ Mine \in 0..MaxGuid /\ Theirs \in 0..MaxGuid
           /\ MyBase \in 0..MaxGuid /\ TheirBase \in 0..MaxGuid
           /\ MyBase # 0 => MyBase \in Others(P)
           /\ TheirBase # 0 => TheirBase \in Others(B)
<1>1. P \in Listing /\ B \in Listing
  BY DEF TypeOK
<1>2. New \in Slots /\ N0 \in Slots /\ N0 # New
  BY SlotFacts
<1> QED
  BY <1>1, <1>2, OthersFacts, GuidsFacts DEF Mine, Theirs, MyBase, TheirBase

\* The same after a step.
LEMMA SidesNext ==
    ASSUME TypeOK'
    PROVE  /\ P' \in Listing /\ B' \in Listing
           /\ Guids(P)' = Others(P)' \cup ({Mine'} \ {0}) /\ Guids(B)' = Others(B)' \cup ({Theirs'} \ {0})
           /\ Guids(P)' \subseteq 1..MaxGuid /\ Guids(B)' \subseteq 1..MaxGuid
           /\ Others(P)' \subseteq 1..MaxGuid /\ Others(B)' \subseteq 1..MaxGuid
           /\ Mine' \in 0..MaxGuid /\ Theirs' \in 0..MaxGuid
           /\ MyBase' \in 0..MaxGuid /\ TheirBase' \in 0..MaxGuid
           /\ MyBase' # 0 => MyBase' \in Others(P)'
           /\ TheirBase' # 0 => TheirBase' \in Others(B)'
<1>1. P' \in Listing /\ B' \in Listing
  BY DEF TypeOK
<1>2. New \in Slots /\ N0 \in Slots /\ N0 # New
  BY SlotFacts
<1> QED
  BY <1>1, <1>2, OthersFacts, GuidsFacts DEF Mine, Theirs, MyBase, TheirBase

\* A side whose listing stays the same.
LEMMA SamePrimary ==
    ASSUME P' = P
    PROVE  Guids(P)' = Guids(P) /\ Others(P)' = Others(P) /\ UNCHANGED <<Mine, MyBase, Offer>>
  BY DEF Guids, Others, Mine, MyBase, Offer

\* The other one.
LEMMA SameBackup ==
    ASSUME B' = B
    PROVE  Guids(B)' = Guids(B) /\ Others(B)' = Others(B) /\ UNCHANGED <<Theirs, TheirBase>>
  BY DEF Guids, Others, Theirs, TheirBase

\* The newest snapshot depends on the GUIDs only.
LEMMA SameNewest ==
    ASSUME Guids(B)' = Guids(B)
    PROVE  Newest' = Newest
  BY DEF Newest, MaxOf

\* A side that gets another listing.
LEMMA NextSides ==
    ASSUME NEW l
    PROVE  /\ P' = l => /\ Guids(P)' = Guids(l) /\ Others(P)' = Others(l)
                        /\ Mine' = l[New].guid /\ MyBase' = l[N0].guid
           /\ B' = l => /\ Guids(B)' = Guids(l) /\ Others(B)' = Others(l)
                        /\ Theirs' = l[New].guid /\ TheirBase' = l[N0].guid
  BY DEF Guids, Others, Mine, MyBase, Theirs, TheirBase

\* Numbers can be compared.
LEMMA PairNumbers ==
    ASSUME TypeOK
    PROVE  /\ token \in 0..MaxGuid
           /\ blocked[1] \in 0..MaxGuid /\ blocked[2] \in 0..MaxGuid
           /\ approve[1] \in 0..MaxGuid /\ approve[2] \in 0..MaxGuid
           /\ blocked = NoPair => blocked[1] = 0 /\ blocked[2] = 0
           /\ NoPair[1] = 0 /\ NoPair[2] = 0
           /\ Guid = 0..MaxGuid /\ MaxGuid \in Nat
  BY ZfsStoreBounds DEF TypeOK, Pairs, Guid, NoPair

----------------------------------------------------------------------------
(* The steps of the abstract replica, seen from the two hosts *)

ReplicaStep == R!Next \/ UNCHANGED R!vars

\* The backup of the replica is the backup, and what is shared is shared.
LEMMA Mapped ==
    ASSUME TypeOK
    PROVE  R!Theirs = Guids(B) /\ R!Shared = Guids(P) \cap Guids(B)
<1>1. Guids([B EXCEPT ![New] = NoSnap]) = Others(B) /\ B[New].guid = Theirs
  BY DEF Others, Destroyed, Theirs
<1>2. Guids(B) = Others(B) \cup ({Theirs} \ {0})
  BY Sides
<1>3. R!Theirs = Guids(B)
  BY <1>1, <1>2 DEF R!Theirs
<1> QED
  BY <1>3 DEF R!Shared

\* So is the promise of a shared snapshot, which the steps keep.
LEMMA MappedBased == TypeOK' /\ Based' => (R!Based)'
<1> SUFFICES ASSUME TypeOK', Based' PROVE (R!Based)'
  OBVIOUS
<1>1. Guids([B EXCEPT ![New] = NoSnap])' = Others(B)' /\ B'[New].guid = Theirs'
  BY DEF Others, Destroyed, Theirs
<1>2. Guids(B)' = Others(B)' \cup ({Theirs'} \ {0})
  BY SidesNext
<1>3. (R!Theirs)' = Guids(B)'
  BY <1>1, <1>2 DEF R!Theirs
<1>4. (R!Shared)' = Guids(P)' \cap Guids(B)'
  BY <1>3 DEF R!Shared
<1> QED
  BY <1>1, <1>4 DEF R!Based, Based

\* Nothing the replica knows of changes.
LEMMA ReplicaStutters ==
    ASSUME UNCHANGED <<Guids(P), Others(B), Theirs, tag, agreed>>
    PROVE  ReplicaStep
  BY DEF ReplicaStep, R!vars, Others, Destroyed, Theirs

\* The primary gives snapshots up.
LEMMA ReplicaReleases ==
    ASSUME TypeOK', Guids(P)' \subseteq Guids(P), Based',
           UNCHANGED <<Others(B), Theirs, tag, agreed>>
    PROVE  ReplicaStep
<1>1. (R!Based)'
  BY MappedBased
<1>2. R!Release
  BY <1>1 DEF R!Release, Others, Destroyed, Theirs
<1> QED
  BY <1>2 DEF ReplicaStep, R!Next
----------------------------------------------------------------------------
(* The steps that change no GUID of either side *)

\* What such a step leaves the other process to rely on.
StockKept ==
    /\ UNCHANGED <<Mine, Theirs, MyBase, TheirBase, Offer, Guids(P), Guids(B), Others(P), Others(B)>>
    /\ token # 0 => token' # 0
    /\ backup # "absent" => backup' # "absent"
    /\ Kept => Kept'
    /\ Topped => Topped'
    /\ rpc # "base" /\ Unasked => Unasked'
    /\ rpc' = "recv" \/ rpc \notin {"base", "consume"} => Grants \subseteq Grants'
    /\ Ahead \subseteq Ahead' /\ Leading \subseteq Leading'

\* A step that touches neither the datasets nor the files of the operator.
LEMMA QuietStock ==
    ASSUME Stocked, UNCHANGED <<P, B, backup, token, onto, tag, blocked, approve, agreed>>
    PROVE  /\ Stocked' /\ StockKept /\ ReplicaStep
           /\ UNCHANGED <<Kept, Topped, Unasked, Grants, Ahead, Leading>>
<1>1. /\ Guids(P)' = Guids(P) /\ Others(P)' = Others(P) /\ UNCHANGED <<Mine, MyBase, Offer>>
      /\ Guids(B)' = Guids(B) /\ Others(B)' = Others(B) /\ UNCHANGED <<Theirs, TheirBase>>
  BY SamePrimary, SameBackup
<1>2. Kept' = Kept /\ Topped' = Topped /\ Unasked' = Unasked
  BY <1>1 DEF Kept, Topped, Unasked
<1>3. \A b : Loss(b)' = Loss(b)
  BY <1>1 DEF Loss
<1>4. Grants' = Grants
  BY <1>1, <1>3 DEF Grants
<1>5. Ahead' = Ahead /\ Leading' = Leading
  BY <1>1 DEF Ahead, Leading
<1>6. Based' /\ Placed' /\ Partial'
  BY <1>1, <1>2, <1>5, SameNewest DEF Stocked, Based, Placed, Partial
<1>7. Asking'
  BY <1>1, <1>2 DEF Stocked, Asking, Settled
<1>8. StockKept
  BY <1>1, <1>2, <1>4, <1>5 DEF StockKept
<1> QED
  BY <1>1, <1>2, <1>4, <1>5, <1>6, <1>7, <1>8, ReplicaStutters DEF Stocked

\* cs:consistent is set on a new snapshot.
LEMMA MarkedStock ==
    ASSUME TypeOK, Stocked, UNCHANGED <<backup, token, onto, tag, blocked, approve, agreed>>,
           \/ B' = B /\ \E yes \in BOOLEAN : P' = [P EXCEPT ![New].frozen = yes]
           \/ P' = P /\ Theirs # 0 /\ \E yes \in BOOLEAN : B' = [B EXCEPT ![New].frozen = yes]
    PROVE  Stocked' /\ StockKept /\ ReplicaStep
<1>1. P \in Listing /\ B \in Listing /\ New \in Slots /\ N0 \in Slots /\ N0 # New /\ NoSnap.guid = 0
  BY Sides, SlotFacts
<1>2. /\ \A s \in Slots : P'[s].guid = P[s].guid /\ B'[s].guid = B[s].guid
      /\ \A s \in Slots \ {New} : P'[s] = P[s] /\ B'[s] = B[s]
      /\ P' \in Listing /\ B' \in Listing
      /\ Guids(P)' = Guids(P) /\ Others(P)' = Others(P)
      /\ Guids(B)' = Guids(B) /\ Others(B)' = Others(B)
  <2>1. ASSUME NEW yes \in BOOLEAN, P' = [P EXCEPT ![New].frozen = yes], B' = B PROVE <1>2
    <3> DEFINE l == [P EXCEPT ![New].frozen = yes]
    <3>0. /\ l \in Listing /\ Guids(l) = Guids(P) /\ Others(l) = Others(P)
          /\ \A s \in Slots : l[s].guid = P[s].guid
      <4>1. l \in Listing /\ Guids(l) = Guids(P) /\ \A s \in Slots : l[s].guid = P[s].guid
        BY <1>1, FrozenListing
      <4>2. Others(l) = Others(P)
        BY <1>1, FrozenOthers
      <4> QED
        BY <4>1, <4>2
    <3> HIDE DEF l
    <3>1. P' \in Listing /\ Guids(P)' = Guids(P) /\ Others(P)' = Others(P)
          /\ \A s \in Slots : P'[s].guid = P[s].guid
      BY <2>1, <3>0, NextSides DEF l
    <3>2. \A s \in Slots \ {New} : P'[s] = P[s]
      BY <1>1, <2>1 DEF Listing
    <3> QED
      BY <1>1, <2>1, <3>1, <3>2, SameBackup
  <2>2. ASSUME NEW yes \in BOOLEAN, B' = [B EXCEPT ![New].frozen = yes], P' = P PROVE <1>2
    <3> DEFINE l == [B EXCEPT ![New].frozen = yes]
    <3>0. /\ l \in Listing /\ Guids(l) = Guids(B) /\ Others(l) = Others(B)
          /\ \A s \in Slots : l[s].guid = B[s].guid
      <4>1. l \in Listing /\ Guids(l) = Guids(B) /\ \A s \in Slots : l[s].guid = B[s].guid
        BY <1>1, FrozenListing
      <4>2. Others(l) = Others(B)
        BY <1>1, FrozenOthers
      <4> QED
        BY <4>1, <4>2
    <3> HIDE DEF l
    <3>1. B' \in Listing /\ Guids(B)' = Guids(B) /\ Others(B)' = Others(B)
          /\ \A s \in Slots : B'[s].guid = B[s].guid
      BY <2>2, <3>0, NextSides DEF l
    <3>2. \A s \in Slots \ {New} : B'[s] = B[s]
      BY <1>1, <2>2 DEF Listing
    <3> QED
      BY <1>1, <2>2, <3>1, <3>2, SamePrimary
  <2> QED
    BY <2>1, <2>2
<1>3. UNCHANGED <<Mine, MyBase, Offer, Theirs, TheirBase>>
  BY <1>1, <1>2 DEF Mine, MyBase, Offer, Theirs, TheirBase
<1>4. Kept' = Kept /\ Topped' = Topped /\ Unasked' = Unasked
  BY <1>2 DEF Kept, Topped, Unasked
<1>5. \A b : Loss(b)' = Loss(b)
  BY <1>2 DEF Loss
<1>6. Grants' = Grants
  BY <1>2, <1>5 DEF Grants
<1>7. Ahead' = Ahead /\ Leading' = Leading
  BY <1>2 DEF Ahead, Leading
<1>8. \A s \in Slots : B'[s] = NoSnap \/ B'[s].guid # 0
  <2>1. \A s \in Slots : B[s] = NoSnap \/ B[s].guid # 0
    BY DEF Stocked, Placed
  <2>2. B'[New] = B[New] \/ B'[New].guid # 0
    BY <1>1, <1>2 DEF Theirs
  <2> QED
    BY <1>2, <2>1, <2>2
<1>9. Based' /\ Partial'
  BY <1>2, <1>3, <1>4, <1>7, SameNewest DEF Stocked, Based, Partial
<1>10. Placed'
  BY <1>2, <1>3, <1>8 DEF Stocked, Placed
<1>11. Asking'
  BY <1>2, <1>3, <1>4 DEF Stocked, Asking, Settled
<1>12. StockKept
  BY <1>2, <1>3, <1>4, <1>6, <1>7 DEF StockKept
<1> QED
  BY <1>2, <1>3, <1>9, <1>10, <1>11, <1>12, ReplicaStutters DEF Stocked

\* cs:sync is set on a backup that has been received as a whole.
LEMMA LinkedStock ==
    ASSUME Stocked, UNCHANGED <<P, B, backup, token, onto, blocked, approve, agreed>>, tag' = TRUE,
           Others(B) = {}, backup # "absent"
    PROVE  Stocked' /\ StockKept /\ ReplicaStep
<1>1. /\ Guids(P)' = Guids(P) /\ Others(P)' = Others(P) /\ UNCHANGED <<Mine, MyBase, Offer>>
      /\ Guids(B)' = Guids(B) /\ Others(B)' = Others(B) /\ UNCHANGED <<Theirs, TheirBase>>
  BY SamePrimary, SameBackup
<1>2. Kept' /\ Based' /\ Topped' = Topped /\ Unasked' = Unasked
  BY <1>1 DEF Kept, Based, Topped, Unasked
<1>3. \A b : Loss(b)' = Loss(b)
  BY <1>1 DEF Loss
<1>4. Grants' = Grants
  BY <1>1, <1>3 DEF Grants
<1>5. Ahead' = Ahead /\ Leading' = Leading
  BY <1>1 DEF Ahead, Leading
<1>6. Placed' /\ Partial'
  BY <1>1, <1>2, <1>5, SameNewest DEF Stocked, Placed, Partial
<1>7. Asking'
  BY <1>1, <1>2 DEF Stocked, Asking, Settled
<1>8. StockKept
  BY <1>1, <1>2, <1>4, <1>5 DEF StockKept
<1>9. R!Link
  BY <1>1 DEF R!Link, Others, Destroyed, Theirs
<1> QED
  BY <1>2, <1>6, <1>7, <1>8, <1>9 DEF Stocked, ReplicaStep, R!Next

\* A receive breaks off, at best with a token for its snapshot.
LEMMA BrokenStock ==
    ASSUME Stocked, UNCHANGED <<P, blocked, approve, agreed>>, BrokenOff,
           Theirs = 0, req.snap.guid \in Ahead,
           todo # "inc" /\ req.snap.guid = Mine => Topped,
           todo = "inc" /\ Newest = req.base => Topped
    PROVE  Stocked' /\ StockKept /\ ReplicaStep
<1>1. /\ Guids(P)' = Guids(P) /\ Others(P)' = Others(P) /\ UNCHANGED <<Mine, MyBase, Offer>>
      /\ Guids(B)' = Guids(B) /\ Others(B)' = Others(B) /\ UNCHANGED <<Theirs, TheirBase>>
      /\ UNCHANGED <<B, tag>>
  BY SamePrimary, SameBackup DEF BrokenOff
<1>2. /\ \/ UNCHANGED <<token, onto>>
         \/ token' = req.snap.guid /\ (todo = "inc" => onto' = req.base)
      /\ backup' = backup \/ backup' = "partial"
  BY DEF BrokenOff
<1>3. Kept' = Kept /\ Topped' = Topped /\ Unasked' = Unasked
  BY <1>1 DEF Kept, Topped, Unasked
<1>4. \A b : Loss(b)' = Loss(b)
  BY <1>1 DEF Loss
<1>5. Grants' = Grants
  BY <1>1, <1>4 DEF Grants
<1>6. Ahead' = Ahead /\ Leading' = Leading
  BY <1>1 DEF Ahead, Leading
<1>7. req.snap.guid # 0
  BY ZfsStoreBounds DEF Ahead
<1>8. Based' /\ Placed'
  BY <1>1, <1>2 DEF Stocked, Based, Placed
<1>9. Partial'
  BY <1>1, <1>2, <1>3, <1>6, SameNewest DEF Stocked, Partial
<1>10. Asking'
  BY <1>1, <1>3 DEF Stocked, Asking, Settled
<1>11. StockKept
  BY <1>1, <1>2, <1>3, <1>5, <1>6, <1>7 DEF StockKept
<1> QED
  BY <1>1, <1>8, <1>9, <1>10, <1>11, ReplicaStutters DEF Stocked
\* The approval is removed, or the question.
LEMMA ClearedStock ==
    ASSUME TypeOK, Stocked, UNCHANGED <<P, B, backup, token, onto, tag>>,
           \/ approve' = NoPair /\ agreed' = {} /\ blocked' = blocked /\ rpc = "consume" /\ rpc' = "report"
           \/ blocked' = NoPair /\ UNCHANGED <<approve, agreed>>
    PROVE  Stocked' /\ StockKept /\ ReplicaStep /\ (Unasked => Unasked')
<1>1. /\ Guids(P)' = Guids(P) /\ Others(P)' = Others(P) /\ UNCHANGED <<Mine, MyBase, Offer>>
      /\ Guids(B)' = Guids(B) /\ Others(B)' = Others(B) /\ UNCHANGED <<Theirs, TheirBase>>
  BY SamePrimary, SameBackup
<1>2. /\ Guids(B) \subseteq 1..MaxGuid /\ Others(P) \subseteq 1..MaxGuid
      /\ NoPair[1] = 0 /\ NoPair[2] = 0
      /\ blocked[1] \in 0..MaxGuid /\ approve[1] \in 0..MaxGuid /\ approve[2] \in 0..MaxGuid
  BY Sides, PairNumbers
<1>3. Kept' = Kept /\ Topped' = Topped /\ (Unasked => Unasked')
  BY <1>1, <1>2 DEF Kept, Topped, Unasked
<1>4. \A b : Loss(b)' = Loss(b)
  BY <1>1 DEF Loss
<1>5. rpc' = "recv" \/ rpc \notin {"base", "consume"} => Grants \subseteq Grants'
  BY <1>1, <1>4 DEF Grants
<1>6. Ahead \subseteq Ahead' /\ Leading' = Leading
  BY <1>1, <1>2 DEF Ahead, Leading
<1>7. Based' /\ Placed' /\ Partial'
  BY <1>1, <1>3, <1>6, SameNewest DEF Stocked, Based, Placed, Partial
<1>8. Settled(blocked)' /\ Settled(approve)'
  BY <1>1, <1>2 DEF Stocked, Asking, Settled
<1>9. Asking'
  <2>1. CASE approve' = NoPair /\ blocked' = blocked
    BY <1>1, <1>2, <1>3, <1>8, <2>1 DEF Stocked, Asking
  <2>2. CASE blocked' = NoPair /\ UNCHANGED <<approve, agreed>>
    BY <1>1, <1>2, <1>3, <1>8, <2>2 DEF Stocked, Asking
  <2> QED
    BY <2>1, <2>2
<1>10. StockKept
  BY <1>1, <1>3, <1>5, <1>6 DEF StockKept
<1>11. ReplicaStep
  <2>1. CASE agreed' = agreed
    BY <1>1, <2>1, ReplicaStutters
  <2>2. CASE agreed' = {}
    <3>1. R!Agree
      BY <1>1, <2>2 DEF R!Agree, Others, Destroyed, Theirs
    <3> QED
      BY <3>1 DEF ReplicaStep, R!Next
  <2> QED
    BY <2>1, <2>2
<1> QED
  BY <1>3, <1>7, <1>9, <1>10, <1>11 DEF Stocked

\* The operator agrees to the question that is asked.
LEMMA ApprovedStock ==
    ASSUME TypeOK, Stocked, Approve
    PROVE  Stocked' /\ StockKept /\ ReplicaStep
<1>0. /\ UNCHANGED <<P, B, backup, token, onto, tag, blocked>> /\ approve' = blocked
      /\ blocked # NoPair /\ agreed' = {g \in Guids(B) : g > blocked[1]}
  BY DEF Approve, primary, store
<1>1. /\ Guids(P)' = Guids(P) /\ Others(P)' = Others(P) /\ UNCHANGED <<Mine, MyBase, Offer>>
      /\ Guids(B)' = Guids(B) /\ Others(B)' = Others(B) /\ UNCHANGED <<Theirs, TheirBase>>
  BY <1>0, SamePrimary, SameBackup
<1>2. /\ Guids(B) \subseteq 1..MaxGuid /\ Others(B) \subseteq 1..MaxGuid
      /\ blocked[1] \in 0..MaxGuid /\ blocked[2] \in 0..MaxGuid
  BY Sides, PairNumbers
<1>3. Kept' = Kept /\ Topped' = Topped /\ (Unasked => Unasked')
  BY <1>0, <1>1 DEF Kept, Topped, Unasked
<1>4. Ahead \subseteq Ahead' /\ Leading' = Leading
  BY <1>0, <1>1 DEF Ahead, Leading
<1>5. Grants \subseteq Grants'
  <2> SUFFICES ASSUME NEW b \in Grants PROVE b \in Grants'
    OBVIOUS
  <2>1. b \in Others(P) \cap Others(B) /\ b \in 1..MaxGuid
    BY <1>2 DEF Grants
  <2>2. Loss(b)' = Loss(b)
    BY <1>1 DEF Loss
  <2>3. ~ RollbackAuto /\ Loss(b) # {} => blocked[1] <= b
    BY <1>0 DEF Grants
  <2>4. ~ RollbackAuto => Loss(b) \subseteq agreed'
    BY <1>0, <1>2, <2>1, <2>3 DEF Loss
  <2> QED
    BY <1>0, <1>1, <2>1, <2>2, <2>3, <2>4 DEF Grants
<1>6. Based' /\ Placed' /\ Partial'
  BY <1>0, <1>1, <1>3, <1>4, SameNewest DEF Stocked, Based, Placed, Partial
<1>7. Asking'
  BY <1>0, <1>1, <1>2, <1>3 DEF Stocked, Asking, Settled
<1>8. StockKept
  BY <1>0, <1>1, <1>3, <1>4, <1>5 DEF StockKept
<1>9. R!Agree
  <2>1. agreed' \subseteq R!Theirs
    BY <1>0, Mapped
  <2> QED
    BY <1>0, <1>1, <2>1 DEF R!Agree, Others, Destroyed, Theirs
<1> QED
  BY <1>6, <1>7, <1>8, <1>9 DEF Stocked, ReplicaStep, R!Next

\* The base of the backup's plan: the newest snapshot both have rotated.
LEMMA BaseIsShared ==
    ASSUME TypeOK, req.snaps = Offer, Theirs \notin Guids(P)
    PROVE  /\ Base \in 0..MaxGuid /\ Newest \in 0..MaxGuid
           /\ Base # 0 => Base \in Others(P) \cap Others(B) /\ Newest \in Guids(B)
           /\ \A g \in Others(P) \cap Guids(B) : g <= Base
           /\ \A g \in Guids(B) : g <= Newest
           /\ Loss(Newest) = {}
<1> DEFINE T == {req.snaps[s] : s \in Slots \ {New}} \cap Guids(B)
<1>1. /\ P \in Listing /\ Guids(B) \subseteq 1..MaxGuid
      /\ Guids(B) = Others(B) \cup ({Theirs} \ {0})
      /\ Others(P) \subseteq Guids(P)
  BY Sides, OthersFacts
<1>2. T = Others(P) \cap Guids(B)
  <2>1. \A s \in Slots : req.snaps[s] = P[s].guid
    BY DEF Offer
  <2>2. /\ \A s \in Slots \ {New} : P[s].guid # 0 => P[s].guid \in Others(P)
        /\ \A g \in Others(P) : \E s \in Slots \ {New} : P[s].guid = g
    BY <1>1, OthersFacts
  <2>3. 0 \notin Guids(B)
    BY <1>1
  <2> QED
    BY <2>1, <2>2, <2>3
<1>3. Base = MaxOf(T) /\ Newest = MaxOf(Guids(B))
  BY DEF Base, Newest
<1> HIDE DEF T
<1>4. T \in SUBSET (0..MaxGuid) /\ Guids(B) \in SUBSET (0..MaxGuid) /\ 0 \notin T
  BY <1>1, <1>2
<1>5. /\ Base \in 0..MaxGuid /\ (T # {} => Base \in T) /\ \A g \in T : g <= Base
      /\ Newest \in 0..MaxGuid /\ (Guids(B) # {} => Newest \in Guids(B))
      /\ \A g \in Guids(B) : g <= Newest
  BY <1>3, <1>4, MaxOfIsMax
<1>6. T = {} => Base = 0
  BY <1>3 DEF MaxOf
<1>7. Loss(Newest) = {}
  BY <1>4, <1>5 DEF Loss
<1> QED
  BY <1>1, <1>2, <1>5, <1>6, <1>7

\* A backup whose newest snapshot is a shared base has nothing newer.
LEMMA ToppedByNewest ==
    ASSUME TypeOK, Newest \in Others(P) \cap Others(B)
    PROVE  Topped
<1>1. Guids(B) \in SUBSET (0..MaxGuid) /\ Others(B) \subseteq Guids(B)
  BY Sides, ZfsStoreBounds
<1>2. \A g \in Guids(B) : g <= Newest
  BY <1>1, MaxOfIsMax DEF Newest
<1> QED
  BY <1>1, <1>2 DEF Topped

\* The backup asks before it loses anything.
LEMMA AskedStock ==
    ASSUME TypeOK, Stocked, UNCHANGED <<P, B, backup, token, onto, tag, approve, agreed>>,
           rpc = "base", rpc' = "wait", req.snaps = Offer, Theirs \notin Guids(P),
           Base \notin {0, Newest}, blocked' = <<Base, Newest>>
    PROVE  Stocked' /\ StockKept /\ ReplicaStep
<1>1. /\ Guids(P)' = Guids(P) /\ Others(P)' = Others(P) /\ UNCHANGED <<Mine, MyBase, Offer>>
      /\ Guids(B)' = Guids(B) /\ Others(B)' = Others(B) /\ UNCHANGED <<Theirs, TheirBase>>
  BY SamePrimary, SameBackup
<1>2. /\ Base \in 0..MaxGuid /\ Newest \in 0..MaxGuid
      /\ Base \in Others(P) \cap Others(B) /\ Newest \in Guids(B)
      /\ \A g \in Others(P) \cap Guids(B) : g <= Base
      /\ \A g \in Guids(B) : g <= Newest
  BY BaseIsShared
<1>3. /\ Guids(B) = Others(B) \cup ({Theirs} \ {0}) /\ Guids(B) \subseteq 1..MaxGuid
      /\ Guids(P) = Others(P) \cup ({Mine} \ {0})
      /\ approve[1] \in 0..MaxGuid
  BY Sides, PairNumbers
<1>4. Base < Newest /\ blocked'[1] = Base /\ blocked'[2] = Newest
  BY <1>2, <1>3
<1>5. Kept' = Kept /\ Topped' = Topped
  BY <1>1 DEF Kept, Topped
<1>6. Ahead \subseteq Ahead' /\ Leading' = Leading
  BY <1>1, <1>2, <1>4 DEF Ahead, Leading
<1>7. Based' /\ Placed' /\ Partial'
  BY <1>1, <1>5, <1>6, SameNewest DEF Stocked, Based, Placed, Partial
<1>8. Settled(blocked)' /\ Settled(approve)'
  BY <1>1, <1>2, <1>4 DEF Stocked, Asking, Settled
<1>9. approve[2] \in Guids(B) => Base <= approve[1]
  BY <1>2, <1>3 DEF Stocked, Asking, Settled
<1>10. Theirs = Mine => Mine = 0
  BY <1>3
<1>11. Asking'
  BY <1>1, <1>4, <1>8, <1>9, <1>10 DEF Stocked, Asking
<1>12. StockKept
  BY <1>1, <1>5, <1>6 DEF StockKept
<1> QED
  BY <1>1, <1>7, <1>11, <1>12, ReplicaStutters DEF Stocked
----------------------------------------------------------------------------
(* The exchange under such steps: the primary *)

\* The steps of the primary that change no GUID.
SenderQuiet ==
    \/ SendHello \/ SendConf \/ ConfSent \/ ReadPlan \/ Stream \/ StreamEnd \/ Confirm \/ Mark \/ StoreConf
    \/ PrunePrimary \/ OrderRotate \/ CycleDone \/ NoAnswer
    \/ DropStale /\ P' = P
    \/ (TakeSnapshot \/ RotatePrimary \/ Fail) /\ Return /\ P' = P
    \/ CrashSender

\* They leave what the next step of the exchange relies on.
LEMMA SenderStaged ==
    ASSUME TypeOK, Talk, Turns, Stocked, Staged, StockKept, SenderQuiet
    PROVE  Staged'
<1>0. /\ ask.kind = "none" => ask = NoMsg
      /\ answer.kind = "none" => answer = NoMsg
      /\ answer.kind \in PlanKinds \cup {"done", "none"}
      /\ NoMsg.kind = "none" /\ End.kind = "end"
      /\ up \in BOOLEAN
      /\ 0 \notin Ahead
      /\ UNCHANGED <<Mine, Theirs, MyBase, TheirBase, Offer, Guids(P), Guids(B), Others(P), Others(B)>>
      /\ token # 0 => token' # 0
      /\ backup # "absent" => backup' # "absent"
      /\ (Kept => Kept') /\ (Topped => Topped')
      /\ rpc # "base" /\ Unasked => Unasked'
      /\ rpc' = "recv" \/ rpc \notin {"base", "consume"} => Grants \subseteq Grants'
      /\ Ahead \subseteq Ahead' /\ Leading \subseteq Leading'
  BY FrameKinds DEF TypeOK, StockKept, Ahead
<1> USE DEF Turns, BackupTurn, PrimaryTurn, Planning, Following, Sends, Streams, RotateStages, receiver, conn,
            Staged, Offered, Promised, Sending, Arriving, Confirmed, Recovering
<1>1. CASE SendHello
  <2>1. ask'.snaps = Offer
    BY <1>1 DEF SendHello, Dial, Offer
  <2> QED
    BY <1>0, <1>1, <2>1 DEF SendHello, Dial, Goto
<1>2. CASE SendConf
  BY <1>0, <1>2 DEF SendConf, Dial
<1>3. CASE ConfSent
  BY <1>0, <1>3 DEF ConfSent, LeaveSender
<1>4. CASE ReadPlan
  BY <1>0, <1>4 DEF ReadPlan, Return, LeaveSender, Talk, Answers, PlanKinds
<1>5. CASE Stream
  <2>1. ask'.kind = "data" => (ask'.snap.guid = Mine /\ ask'.base = plan.base) \/ ask' = ask
    BY <1>5 DEF Stream, Mine, GiveUp, Return, Goto
  <2>2. Mine # 0 => Mine \in Leading
    BY Sides, PairNumbers DEF Stocked, Placed, Leading
  <2> QED
    BY <1>0, <1>5, <2>1, <2>2 DEF Stream, GiveUp, Goto, Return, LeaveSender, Talk, InStep, Working
<1>6. CASE StreamEnd
  BY <1>0, <1>6 DEF StreamEnd, GiveUp, Goto, Return, LeaveSender, Talk, InStep, Working, Asked, Answered
<1>7. CASE Confirm
  BY <1>0, <1>7 DEF Confirm, GiveUp, Goto, Return, LeaveSender, Talk, Answers, Mine
<1>8. CASE Mark
  BY <1>0, <1>8 DEF Mark, Goto
<1>9. CASE StoreConf
  BY <1>0, <1>9 DEF StoreConf
<1>10. CASE PrunePrimary
  BY <1>0, <1>10 DEF PrunePrimary, Goto, Return, LeaveSender
<1>11. CASE OrderRotate
  BY <1>0, <1>11 DEF OrderRotate, Goto, Return, LeaveSender, Talk, InStep, Working
<1>12. CASE CycleDone \/ NoAnswer
  BY <1>0, <1>12 DEF CycleDone, NoAnswer, GiveUp, Goto, Return, LeaveSender
<1>13. CASE DropStale
  BY <1>0, <1>13 DEF DropStale, Goto
<1>14. CASE (TakeSnapshot \/ RotatePrimary \/ Fail) /\ Return
  <2>1. pc' = "idle" /\ answer' = NoMsg /\ UNCHANGED <<rpc, req, todo, ask>>
    BY <1>14 DEF TakeSnapshot, RotatePrimary, Fail, Return, LeaveSender
  <2> QED
    BY <1>0, <2>1
<1>15. CASE CrashSender
  BY <1>0, <1>15 DEF CrashSender, LeaveSender
<1> QED
  BY <1>1, <1>2, <1>3, <1>4, <1>5, <1>6, <1>7, <1>8, <1>9, <1>10, <1>11, <1>12, <1>13, <1>14, <1>15
     DEF SenderQuiet
----------------------------------------------------------------------------
(* The exchange under such steps: the backup *)

\* How far the last cycle got, by the slot under which the primary has its snapshot.
LEMMA HeldPlace ==
    ASSUME TypeOK, Placed, Has(B, New), req.snaps = Offer
    PROVE  /\ Theirs # 0
           /\ HeldSlot(B[New].guid) = New => Theirs = Mine
           /\ HeldSlot(B[New].guid) = N0 => Theirs = MyBase
           /\ HeldSlot(B[New].guid) \notin {New, N0} => Theirs \notin Guids(P)
<1>1. New \in Slots /\ N0 \in Slots /\ N1 \in Slots /\ N1 \notin {New, N0}
  BY SlotFacts
<1>2. B[New].guid = Theirs /\ Theirs # 0
  BY <1>1 DEF Placed, Has, Theirs
<1>3. \A s \in Slots : req.snaps[s] = P[s].guid
  BY DEF Offer
<1>4. CASE \E s \in Slots : P[s].guid = Theirs
  <2> DEFINE h == HeldSlot(B[New].guid)
  <2>1. h \in Slots /\ req.snaps[h] = Theirs
    BY <1>2, <1>3, <1>4 DEF HeldSlot
  <2> HIDE DEF h
  <2>2. P[h].guid = Theirs /\ h \in {New, N0}
    BY <1>2, <1>3, <2>1 DEF Placed
  <2> QED
    BY <1>2, <2>2 DEF Mine, MyBase, h
<1>5. CASE ~ \E s \in Slots : P[s].guid = Theirs
  <2>1. HeldSlot(B[New].guid) = N1
    BY <1>2, <1>3, <1>5 DEF HeldSlot
  <2>2. Theirs \notin Guids(P)
    BY <1>5 DEF Guids
  <2> QED
    BY <1>1, <1>2, <2>1, <2>2
<1> QED
  BY <1>4, <1>5

\* What planBackup decides, as long as it sees the backup.
LEMMA PlanBackupCases ==
    ASSUME TypeOK, Stocked, req.snaps = Offer, PlanBackup, ExistsWorks
    PROVE  /\ rpc = "plan" /\ UNCHANGED <<ask, up, pc, plan>>
           /\ \/ Reply(Plan("full", 0)) /\ Become("recv", "full") /\ Kept
              \/ Wait(Error)
              \/ Reply(Plan("resume", token)) /\ Become("recv", "resume") /\ token # 0
              \/ Keep("base") /\ Theirs \notin Guids(P) /\ UNCHANGED answer
              \/ Become("keep", "rotate") /\ Theirs = Mine /\ Theirs # 0 /\ UNCHANGED answer
              \/ Become("keep", "base") /\ Theirs = MyBase /\ Theirs # 0 /\ UNCHANGED answer
              \/ Keep("drop") /\ Theirs \notin Guids(P) /\ UNCHANGED answer
<1>1. rpc = "plan" /\ UNCHANGED <<ask, up, pc, plan>>
  BY DEF PlanBackup, Reply, Become, Keep, Wait, sender, conn
<1>2. 0 \notin Guids(P) /\ NoSnap.guid = 0
  BY Sides, SlotFacts
<1>3. backup = "absent" => Kept
  BY Sides DEF Stocked, Placed, Kept
<1>4. ~ Has(B, New) => Theirs \notin Guids(P)
  BY <1>2 DEF Has, Theirs
<1>5. Has(B, New) =>
        /\ Theirs # 0
        /\ HeldSlot(B[New].guid) = New => Theirs = Mine
        /\ HeldSlot(B[New].guid) = N0 => Theirs = MyBase
        /\ HeldSlot(B[New].guid) \notin {New, N0} => Theirs \notin Guids(P)
  BY HeldPlace DEF Stocked
<1>6. token # 0 => Theirs \notin Guids(P)
  BY <1>2 DEF Stocked, Partial
<1>7. todo' = "full" => backup = "absent"
  BY <1>1 DEF ExistsWorks
<1>8. \/ backup = "absent" /\ Reply(Plan("full", 0)) /\ Become("recv", "full")
      \/ Wait(Error)
      \/ token # 0 /\ Reply(Plan("resume", token)) /\ Become("recv", "resume")
      \/ /\ CASE ~ Has(B, New) -> Keep("base")
              [] Has(B, New) /\ HeldSlot(B[New].guid) = New -> Become("keep", "rotate")
              [] Has(B, New) /\ HeldSlot(B[New].guid) = N0 -> Become("keep", "base")
              [] OTHER -> Keep("drop")
         /\ UNCHANGED answer
      \/ token # 0 /\ Keep("base") /\ UNCHANGED answer
  BY <1>7, Zenon DEF PlanBackup, Become, conn
<1>9. ASSUME CASE ~ Has(B, New) -> Keep("base")
              [] Has(B, New) /\ HeldSlot(B[New].guid) = New -> Become("keep", "rotate")
              [] Has(B, New) /\ HeldSlot(B[New].guid) = N0 -> Become("keep", "base")
              [] OTHER -> Keep("drop")
      PROVE  \/ Keep("base") /\ Theirs \notin Guids(P)
             \/ Become("keep", "rotate") /\ Theirs = Mine /\ Theirs # 0
             \/ Become("keep", "base") /\ Theirs = MyBase /\ Theirs # 0
             \/ Keep("drop") /\ Theirs \notin Guids(P)
  <2>1. New # N0
    BY SlotFacts
  <2>2. CASE ~ Has(B, New)
    BY <1>4, <1>9, <2>2
  <2>3. CASE Has(B, New) /\ HeldSlot(B[New].guid) = New
    BY <1>5, <1>9, <2>1, <2>3
  <2>4. CASE Has(B, New) /\ HeldSlot(B[New].guid) = N0
    BY <1>5, <1>9, <2>1, <2>4
  <2>5. CASE Has(B, New) /\ HeldSlot(B[New].guid) \notin {New, N0}
    BY <1>5, <1>9, <2>5
  <2> QED
    BY <2>2, <2>3, <2>4, <2>5
<1> QED
  BY <1>1, <1>3, <1>6, <1>8, <1>9

\* What it decides about the base.
LEMMA ChooseBaseCases ==
    ASSUME TypeOK, Stocked, req.snaps = Offer, Theirs \notin Guids(P), ChooseBase
    PROVE  /\ rpc = "base" /\ UNCHANGED <<ask, up, pc, plan>>
           /\ \/ Wait(Error)
              \/ Reply(Plan("inc", Base)) /\ Become("recv", "inc") /\ Base \in Grants /\ Kept
              \/ Wait(Plan("blocked", 0))
<1>1. rpc = "base" /\ UNCHANGED <<ask, up, pc, plan>>
  BY DEF ChooseBase, Reply, Become, Wait, sender
<1>2. /\ Base \in 0..MaxGuid /\ Newest \in 0..MaxGuid
      /\ Base # 0 => Base \in Others(P) \cap Others(B) /\ Newest \in Guids(B)
      /\ \A g \in Guids(B) : g <= Newest
      /\ Loss(Newest) = {}
  BY BaseIsShared
<1>3. \A g \in Guids(B) : g \in Int
  BY Sides
<1>4. ASSUME Base # 0, Base = Newest \/ RollbackAuto \/ Approved(Base, Newest)
      PROVE  Base \in Grants /\ Kept
  <2>1. Kept
    BY <1>2, <1>4 DEF Kept
  <2>2. CASE Base = Newest \/ RollbackAuto
    BY <1>2, <1>4, <2>1, <2>2 DEF Grants
  <2>3. CASE approve = <<Base, Newest>>
    <3>1. approve[1] = Base /\ approve[2] = Newest
      BY <2>3
    <3>2. Loss(Base) \subseteq agreed
      BY <1>2, <1>3, <1>4, <3>1 DEF Stocked, Asking, Loss
    <3>3. blocked # NoPair => blocked[1] <= Base
      BY <1>2, <1>4, <3>1 DEF Stocked, Asking
    <3> QED
      BY <1>2, <1>4, <2>1, <3>2, <3>3 DEF Grants
  <2> QED
    BY <1>4, <2>2, <2>3 DEF Approved
<1>5. \/ Wait(Error)
      \/ /\ Base # 0 /\ (Base = Newest \/ RollbackAuto \/ Approved(Base, Newest))
         /\ Reply(Plan("inc", Base)) /\ Become("recv", "inc")
      \/ Wait(Plan("blocked", 0))
  BY Zenon DEF ChooseBase
<1> QED
  BY <1>1, <1>4, <1>5
\* A stream that starts: the backup stays as it is until it ends.
LEMMA StartCases ==
    ASSUME TypeOK, Talk, Turns, Stocked, Staged, ReceiveStart
    PROVE  /\ rpc = "recv" /\ ask.kind = "data" /\ ask' = NoMsg /\ UNCHANGED <<up, pc, plan>>
           /\ \/ /\ rpc' = "data" /\ req' = ask /\ todo' = todo /\ answer' = answer
                 /\ Theirs = 0 /\ ask.snap.guid \in Ahead /\ ask.snap.guid \in Leading
                 /\ todo = "full" => Guids(B) = {}
                 /\ todo = "inc" => ask.base \in Grants
                 /\ todo # "inc" /\ ask.snap.guid = Mine => Topped
              \/ rpc' = "wait" /\ todo' = "none" /\ answer' = IF up THEN DoneMsg(FALSE, 0) ELSE answer
<1>1. rpc = "recv" /\ ask.kind = "data" /\ ask' = NoMsg /\ UNCHANGED <<up, pc, plan>>
  BY DEF ReceiveStart, sender
<1>2. todo \in Streams
  BY <1>1 DEF Talk, Requests
<1>3. /\ todo \in Sends => ask.snap.guid \in Ahead
      /\ ask.snap.guid # 0 => ask.snap.guid \in Leading
      /\ todo = "inc" => ask.base \in Grants
      /\ todo = "resume" => token # 0
  BY <1>1 DEF Staged, Arriving, Promised
<1>4. 0 \notin Ahead /\ NoSnap.guid = 0
  BY DEF Ahead, NoSnap
<1>5. Guids(B) = Others(B) \cup ({Theirs} \ {0})
  BY Sides
<1>6. ASSUME todo = "full", Accepts
      PROVE  Theirs = 0 /\ ask.snap.guid \in Ahead /\ Guids(B) = {} /\ Topped
  <2>1. Guids(B) = {}
    BY <1>6 DEF Accepts, Stocked, Placed
  <2> QED
    BY <1>3, <1>5, <1>6, <2>1 DEF Topped, Sends
<1>7. ASSUME todo = "inc", Accepts
      PROVE  Theirs = 0 /\ ask.snap.guid \in Ahead
  BY <1>3, <1>4, <1>7 DEF Accepts, Has, Theirs, Sends
<1>8. ASSUME todo = "resume", Accepts
      PROVE  Theirs = 0 /\ ask.snap.guid \in Ahead /\ (ask.snap.guid = Mine => Topped)
  BY <1>3, <1>8 DEF Accepts, Stocked, Partial
<1>9. \/ Accepts /\ rpc' = "data" /\ req' = ask /\ todo' = todo /\ answer' = answer
      \/ rpc' = "wait" /\ todo' = "none" /\ answer' = (IF up THEN DoneMsg(FALSE, 0) ELSE answer)
  BY DEF ReceiveStart
<1> QED
  BY <1>1, <1>2, <1>3, <1>4, <1>6, <1>7, <1>8, <1>9 DEF Streams, Sends

\* The steps of the backup, and of the network, that change no GUID.
ReceiverQuiet ==
    \/ ReadConf \/ ReadFrame \/ (PlanBackup /\ ExistsWorks) \/ ChooseBase \/ SetTag \/ Consume \/ Report
    \/ MarkBackup \/ StoreConfBackup \/ PruneBackup \/ Hangup
    \/ DropNew /\ B' = B
    \/ ReceiveStart
    \/ (ReceiveEnd \/ RotateBackup) /\ rpc' = "wait"
    \/ Drop \/ CrashReceiver

\* They too leave what the next step of the exchange relies on.
LEMMA ReceiverStaged ==
    ASSUME TypeOK, Talk, Turns, Stocked, Staged, StockKept, ReceiverQuiet
    PROVE  Staged'
<1>0. /\ ask.kind = "none" => ask = NoMsg
      /\ answer.kind = "none" => answer = NoMsg
      /\ NoMsg.kind = "none" /\ End.kind = "end"
      /\ up \in BOOLEAN
      /\ 0 \notin Ahead /\ 0 \notin Guids(P)
      /\ UNCHANGED <<Mine, Theirs, MyBase, TheirBase, Offer, Guids(P), Guids(B), Others(P), Others(B)>>
      /\ token # 0 => token' # 0
      /\ backup # "absent" => backup' # "absent"
      /\ (Kept => Kept') /\ (Topped => Topped')
      /\ rpc # "base" /\ Unasked => Unasked'
      /\ rpc' = "recv" \/ rpc \notin {"base", "consume"} => Grants \subseteq Grants'
      /\ Ahead \subseteq Ahead' /\ Leading \subseteq Leading'
  BY FrameKinds, Sides DEF TypeOK, StockKept, Ahead
<1>offer. Planning => req.snaps = Offer
  BY DEF Staged, Offered
<1>foreign. rpc = "base" => Theirs \notin Guids(P)
  BY DEF Staged, Offered
<1>msgs. /\ \A ok, g : DoneMsg(ok, g).kind = "done" /\ DoneMsg(ok, g).ok = ok /\ DoneMsg(ok, g).guid = g
         /\ \A k, b : Plan(k, b).kind = k /\ Plan(k, b).base = b
         /\ Error.kind = "error"
  BY DEF DoneMsg, Plan, Error
<1>wait. ASSUME NEW m, Wait(m) PROVE rpc' = "wait" /\ todo' = "none" /\ answer' = (IF up THEN m ELSE answer)
  BY <1>wait DEF Wait, Reply
<1> USE DEF Turns, BackupTurn, PrimaryTurn, Planning, Following, Sends, Streams, RotateStages,
            Staged, Offered, Promised, Sending, Arriving, Confirmed, Recovering
<1>1. CASE ReadConf
  BY <1>0, <1>1, <1>msgs DEF ReadConf, sender, receiver
<1>2. CASE ReadFrame
  <2>1. /\ rpc = "wait" /\ ask' = NoMsg /\ UNCHANGED <<up, pc, plan>>
        /\ \/ ask.kind = "hello" /\ rpc' = "plan" /\ req' = ask /\ UNCHANGED <<todo, answer>>
           \/ ask.kind = "rotate" /\ rpc' = "mark" /\ req' = ask /\ todo' = "done" /\ UNCHANGED answer
           \/ UNCHANGED receiver /\ (UNCHANGED answer \/ (answer'.kind = "done" /\ ~ answer'.ok))
    BY <1>2 DEF ReadFrame, DoneMsg, sender
  <2>2. CASE ask.kind = "hello" /\ rpc' = "plan" /\ req' = ask /\ UNCHANGED <<todo, answer>>
    BY <1>0, <2>1, <2>2
  <2>3. CASE ask.kind = "rotate" /\ rpc' = "mark" /\ req' = ask /\ todo' = "done" /\ UNCHANGED answer
    BY <1>0, <2>1, <2>3
  <2>4. CASE UNCHANGED receiver /\ UNCHANGED answer
    BY <1>0, <2>1, <2>4 DEF receiver
  <2>5. CASE UNCHANGED receiver /\ answer'.kind = "done" /\ ~ answer'.ok
    BY <1>0, <2>1, <2>5 DEF receiver
  <2> QED
    BY <2>1, <2>2, <2>3, <2>4, <2>5
<1>3. CASE PlanBackup /\ ExistsWorks
  <2>1. PlanBackup /\ ExistsWorks /\ rpc = "plan"
    BY <1>3 DEF PlanBackup
  <2>2. req.snaps = Offer
    BY <2>1, <1>offer
  <2>3. /\ UNCHANGED <<ask, up, pc, plan>>
        /\ \/ Reply(Plan("full", 0)) /\ Become("recv", "full") /\ Kept
           \/ Wait(Error)
           \/ Reply(Plan("resume", token)) /\ Become("recv", "resume") /\ token # 0
           \/ Keep("base") /\ Theirs \notin Guids(P) /\ UNCHANGED answer
           \/ Become("keep", "rotate") /\ Theirs = Mine /\ Theirs # 0 /\ UNCHANGED answer
           \/ Become("keep", "base") /\ Theirs = MyBase /\ Theirs # 0 /\ UNCHANGED answer
           \/ Keep("drop") /\ Theirs \notin Guids(P) /\ UNCHANGED answer
    BY <2>1, <2>2, PlanBackupCases
  <2> QED
    BY <1>0, <2>1, <2>2, <2>3, <1>msgs, <1>wait DEF Reply, Become, Keep
<1>4. CASE ChooseBase
  <2>1. rpc = "base"
    BY <1>4 DEF ChooseBase
  <2>2. /\ UNCHANGED <<ask, up, pc, plan>>
        /\ \/ Wait(Error)
           \/ Reply(Plan("inc", Base)) /\ Become("recv", "inc") /\ Base \in Grants /\ Kept
           \/ Wait(Plan("blocked", 0))
    BY <1>4, <1>offer, <1>foreign, <2>1, ChooseBaseCases
  <2> QED
    BY <1>0, <2>1, <2>2, <1>msgs, <1>wait DEF Reply, Become
<1>5. CASE SetTag \/ Consume \/ MarkBackup \/ StoreConfBackup
  BY <1>0, <1>5 DEF SetTag, Consume, MarkBackup, StoreConfBackup, Keep, conn, sender
<1>6. CASE Report
  <2>1. /\ rpc = "report" /\ UNCHANGED <<ask, up, pc, plan>>
        /\ Wait(DoneMsg(TRUE, Theirs)) \/ Wait(DoneMsg(TRUE, 0))
    BY <1>6 DEF Report, Theirs, sender, Wait, Reply
  <2>2. /\ rpc' = "wait" /\ todo' = "none"
        /\ answer' = answer \/ (answer'.kind = "done" /\ answer'.guid \in {0, Theirs})
    BY <2>1 DEF Wait, Reply, DoneMsg
  <2> QED
    BY <1>0, <2>1, <2>2
<1>7. CASE PruneBackup
  <2>1. /\ rpc = "prune" /\ UNCHANGED <<ask, up, pc, plan>>
        /\ \/ todo = "done" /\ Wait(DoneMsg(TRUE, 0))
           \/ todo = "rotate" /\ Wait(Plan("rotate", 0))
           \/ todo = "base" /\ rpc' = "base" /\ todo' = "none" /\ req' = req /\ answer' = answer
    BY <1>7 DEF PruneBackup, Become, Wait, Reply, conn, sender
  <2>2. CASE todo = "done" /\ Wait(DoneMsg(TRUE, 0))
    <3>1. rpc' = "wait" /\ todo' = "none" /\ (answer' = answer \/ answer'.kind = "done")
      BY <2>2 DEF Wait, Reply, DoneMsg
    <3> QED
      BY <1>0, <2>1, <2>2, <3>1
  <2>3. CASE todo = "rotate" /\ Wait(Plan("rotate", 0))
    <3>1. rpc' = "wait" /\ todo' = "none" /\ (answer' = answer \/ answer'.kind = "rotate")
      BY <2>3, <1>msgs, <1>wait
    <3> QED
      BY <1>0, <2>1, <2>3, <3>1
  <2>4. CASE todo = "base" /\ rpc' = "base" /\ todo' = "none" /\ req' = req /\ answer' = answer
    BY <1>0, <2>1, <2>4
  <2> QED
    BY <2>1, <2>2, <2>3, <2>4
<1>8. CASE DropNew
  BY <1>0, <1>8 DEF DropNew, Keep, conn, sender
<1>9. CASE ReceiveStart
  <2>1. rpc = "recv" /\ ask.kind = "data" /\ ask' = NoMsg /\ UNCHANGED <<up, pc, plan>>
    BY <1>9, StartCases
  <2>2. \/ /\ rpc' = "data" /\ req' = ask /\ todo' = todo /\ answer' = answer
           /\ Theirs = 0 /\ ask.snap.guid \in Ahead /\ ask.snap.guid \in Leading
           /\ todo = "full" => Guids(B) = {}
           /\ todo = "inc" => ask.base \in Grants
           /\ todo # "inc" /\ ask.snap.guid = Mine => Topped
        \/ rpc' = "wait" /\ todo' = "none" /\ (answer' = answer \/ (answer'.kind = "done" /\ ~ answer'.ok))
    BY <1>9, StartCases DEF DoneMsg
  <2>3. CASE rpc' = "data"
    BY <1>0, <2>1, <2>2, <2>3
  <2>4. CASE rpc' = "wait"
    BY <1>0, <2>1, <2>2, <2>4
  <2> QED
    BY <2>2, <2>3, <2>4
<1>10. CASE (ReceiveEnd \/ RotateBackup) /\ rpc' = "wait"
  <2>1. CASE ReceiveEnd
    <3>1. /\ rpc = "data" /\ ask' = NoMsg /\ todo' = "none" /\ UNCHANGED <<up, pc, plan>>
          /\ answer' = answer \/ answer' = DoneMsg(FALSE, 0)
      BY <1>10, <2>1 DEF ReceiveEnd, sender, Talk, Requests
    <3>2. answer' = answer \/ (answer'.kind = "done" /\ ~ answer'.ok)
      BY <3>1 DEF DoneMsg
    <3> QED
      BY <1>0, <1>10, <3>1, <3>2
  <2>2. CASE RotateBackup
    <3>1. /\ rpc \in {"keep", "shift", "promote"} /\ UNCHANGED <<ask, up, pc, plan>>
          /\ Wait(DoneMsg(FALSE, 0)) \/ Wait(Error)
      <4>1. rpc \in {"keep", "shift", "promote"} => NextStage[rpc] # "wait"
        BY DEF NextStage
      <4> QED
        BY <1>10, <2>2, <4>1 DEF RotateBackup, Keep, Wait, Reply, sender, conn
    <3>2. rpc' = "wait" /\ todo' = "none" /\ (answer' = answer \/ answer'.kind \in {"done", "error"})
      <4>1. answer' = answer \/ answer' = DoneMsg(FALSE, 0) \/ answer' = Error
        BY <3>1, <1>wait
      <4> QED
        BY <3>1, <4>1 DEF DoneMsg, Error, Plan, Wait, Reply
    <3> QED
      BY <1>0, <3>1, <3>2
  <2> QED
    BY <1>10, <2>1, <2>2
<1>11. CASE Hangup
  BY <1>0, <1>11 DEF Hangup, sender, conn
<1>12. CASE Drop \/ CrashReceiver
  BY <1>0, <1>12 DEF Drop, CrashReceiver, sender, receiver
<1> QED
  BY <1>1, <1>2, <1>3, <1>4, <1>5, <1>6, <1>7, <1>8, <1>9, <1>10, <1>11, <1>12 DEF ReceiverQuiet
----------------------------------------------------------------------------
(* The steps that change what the primary holds *)

\* The new snapshot of the primary goes, while an older one is shared.
LEMMA DiscardedStock ==
    ASSUME TypeOK, TypeOK', Stocked, Kept, P' = Destroyed(P, New),
           UNCHANGED <<B, backup, token, onto, tag, blocked, approve, agreed>>
    PROVE  /\ Stocked' /\ ReplicaStep
           /\ Mine' = 0 /\ UNCHANGED <<MyBase, Theirs, TheirBase, Guids(B), Others(P), Others(B)>>
           /\ Kept' /\ (Topped => Topped') /\ Grants' = Grants /\ Ahead' = Ahead /\ Leading \subseteq Leading'
<1> DEFINE l == Destroyed(P, New)
<1>1. P \in Listing /\ New \in Slots /\ N0 \in Slots /\ N0 # New /\ NoSnap.guid = 0 /\ NoSnap \in Snapshot
  BY Sides, SlotFacts
<1>2. /\ Guids(l) = Others(P) /\ Others(l) = Others(P)
      /\ l[New] = NoSnap /\ \A s \in Slots \ {New} : l[s] = P[s]
  <2>1. Others(l) = Others(P)
    BY <1>1, PutOthers DEF Destroyed
  <2>2. l[New] = NoSnap /\ \A s \in Slots \ {New} : l[s] = P[s]
    BY <1>1 DEF Destroyed, Listing
  <2> QED
    BY <2>1, <2>2 DEF Others
<1>3. P' = l
  OBVIOUS
<1> HIDE DEF l
<1>4. /\ Guids(P)' = Others(P) /\ Others(P)' = Others(P) /\ Mine' = 0 /\ MyBase' = MyBase
      /\ P'[New] = NoSnap /\ \A s \in Slots \ {New} : P'[s] = P[s]
  BY <1>1, <1>2, <1>3, NextSides DEF MyBase
<1>5. Guids(B)' = Guids(B) /\ Others(B)' = Others(B) /\ UNCHANGED <<Theirs, TheirBase>>
  BY SameBackup
<1>6. /\ Guids(P) = Others(P) \cup ({Mine} \ {0}) /\ Guids(B) = Others(B) \cup ({Theirs} \ {0})
      /\ 0 \notin Others(P)
  BY Sides
<1>7. Kept' /\ Topped' = Topped /\ Unasked' = Unasked
  BY <1>4, <1>5 DEF Kept, Topped, Unasked
<1>8. \A b : Loss(b)' = Loss(b)
  BY <1>5 DEF Loss
<1>9. Grants' = Grants
  BY <1>4, <1>5, <1>8 DEF Grants
<1>10. Ahead' = Ahead /\ Leading \subseteq Leading'
  BY <1>4, <1>5, <1>6 DEF Ahead, Leading
<1>11. Based'
  BY <1>4, <1>5, <1>6 DEF Kept, Based
<1>12. Placed'
  BY <1>1, <1>4, <1>5, <1>6 DEF Stocked, Placed
<1>13. Partial' /\ Asking'
  BY <1>4, <1>5, <1>7, <1>10, SameNewest DEF Stocked, Partial, Asking, Settled
<1>14. ReplicaStep
  BY <1>4, <1>5, <1>6, <1>11, ReplicaReleases
<1> QED
  BY <1>4, <1>5, <1>7, <1>9, <1>10, <1>11, <1>12, <1>13, <1>14 DEF Stocked

\* A leftover is destroyed before the new snapshot is taken, or "fail" destroys that one.
LEMMA DiscardBase ==
    ASSUME TypeOK, TypeOK', Talk, Turns, Stocked, Staged, P' = Destroyed(P, New),
           \/ DropStale
           \/ TakeSnapshot /\ UNCHANGED sender
           \/ Fail
    PROVE  Stocked' /\ Staged' /\ ReplicaStep
<1>1. /\ UNCHANGED <<B, backup, token, onto, tag, blocked, approve, agreed, rpc, req, todo, ask>>
      /\ \/ pc \in {"drop", "snap"} /\ pc' = "snap" /\ UNCHANGED <<plan, answer>>
         \/ pc = "fail" /\ pc' = "idle" /\ answer' = NoMsg
  <2>1. CASE DropStale
    BY <2>1 DEF DropStale, Goto, store, files, receiver, conn
  <2>2. CASE TakeSnapshot /\ UNCHANGED sender
    <3>1. pc = "snap" /\ pc' = "snap"
      BY <2>2 DEF TakeSnapshot, sender
    <3>2. UNCHANGED conn
      BY <2>2, <3>1 DEF TakeSnapshot, Return, LeaveSender
    <3> QED
      BY <2>2, <3>1, <3>2 DEF TakeSnapshot, store, files, sender, receiver, conn
  <2>3. CASE Fail
    BY <2>3 DEF Fail, Return, LeaveSender, store, files, receiver
  <2> QED
    BY <2>1, <2>2, <2>3
<1>2. Kept
  BY <1>1 DEF Turns, PrimaryTurn, Staged, Sending
<1>3. /\ Stocked' /\ ReplicaStep
      /\ Mine' = 0 /\ UNCHANGED <<MyBase, Theirs, TheirBase, Guids(B), Others(P), Others(B)>>
      /\ Kept' /\ (Topped => Topped') /\ Grants' = Grants /\ Ahead' = Ahead /\ Leading \subseteq Leading'
  BY <1>1, <1>2, DiscardedStock
<1>4. NoMsg.kind = "none" /\ 0 \notin Ahead
  BY FrameKinds DEF Ahead
<1>5. Staged'
  BY <1>1, <1>3, <1>4
     DEF Turns, BackupTurn, PrimaryTurn, Planning, Following, Sends, RotateStages,
         Staged, Offered, Promised, Sending, Arriving, Confirmed, Recovering
<1> QED
  BY <1>3, <1>5

\* The number of a new snapshot is higher than everything either side knows of.
LEMMA TakenNumber ==
    ASSUME TypeOK, NextGuid <= MaxGuid
    PROVE  /\ NextGuid \in 1..MaxGuid
           /\ \A g \in Guids(P) \cup Guids(B) \cup {token, blocked[2], approve[2]} : g < NextGuid
<1> DEFINE names == Guids(P) \cup Guids(B) \cup {token, blocked[1], blocked[2], approve[1], approve[2]}
<1>1. names \in SUBSET (0..MaxGuid)
  BY Sides, PairNumbers
<1>2. NextGuid = 1 + MaxOf(names)
  BY DEF NextGuid
<1>3. \A g \in Guids(P) \cup Guids(B) \cup {token, blocked[2], approve[2]} : g \in names
  OBVIOUS
<1> HIDE DEF names
<1>4. MaxOf(names) \in 0..MaxGuid /\ \A g \in names : g <= MaxOf(names)
  BY <1>1, MaxOfIsMax
<1>5. NextGuid \in 1..MaxGuid /\ \A g \in names : g < NextGuid
  BY <1>1, <1>2, <1>4, ZfsStoreBounds
<1> QED
  BY <1>3, <1>5

\* The new snapshot is taken.
LEMMA TakeBase ==
    ASSUME TypeOK, TypeOK', Talk, Turns, Stocked, Staged, TakeSnapshot, pc' = "stream"
    PROVE  Stocked' /\ Staged' /\ ReplicaStep
<1> DEFINE x == [guid |-> NextGuid, created |-> 0, data |-> data, frozen |-> FALSE]
           l == [P EXCEPT ![New] = x]
<1>1. /\ UNCHANGED <<B, backup, token, onto, tag, blocked, approve, agreed, rpc, req, todo, ask, plan>>
      /\ pc = "snap" /\ NextGuid <= MaxGuid /\ ~ Has(P, New) /\ P' = l /\ answer' = answer
  BY DEF TakeSnapshot, Return, LeaveSender, store, files, receiver, sender, conn
<1>2. P \in Listing /\ New \in Slots /\ N0 \in Slots /\ N0 # New /\ NoSnap.guid = 0 /\ x \in Snapshot
  BY <1>1, Sides, SlotFacts, PairGuids
<1>3. /\ NextGuid \in 1..MaxGuid
      /\ \A g \in Guids(P) \cup Guids(B) \cup {token, blocked[2], approve[2]} : g < NextGuid
  BY <1>1, TakenNumber
<1>4. x.guid = NextGuid
  OBVIOUS
<1> HIDE DEF x
<1>5. l \in Listing /\ Others(l) = Others(P) /\ l[New] = x /\ \A s \in Slots \ {New} : l[s] = P[s]
  BY <1>2, PutOthers, PutListing DEF Listing
<1> HIDE DEF l
<1>6. /\ Others(P)' = Others(P) /\ Mine' = NextGuid /\ MyBase' = MyBase
      /\ P'[New].guid = NextGuid /\ \A s \in Slots \ {New} : P'[s] = P[s]
  BY <1>1, <1>2, <1>4, <1>5, NextSides DEF MyBase
<1>7. Guids(B)' = Guids(B) /\ Others(B)' = Others(B) /\ UNCHANGED <<Theirs, TheirBase>>
  BY <1>1, SameBackup
<1>8. /\ Guids(P) = Others(P) \cup ({Mine} \ {0}) /\ Guids(P)' = Others(P)' \cup ({Mine'} \ {0})
      /\ Mine = 0 /\ 0 \notin Guids(P)
      /\ Guids(P) \subseteq 1..MaxGuid /\ Guids(B) \subseteq 1..MaxGuid
      /\ Guids(B) = Others(B) \cup ({Theirs} \ {0}) /\ Theirs \in 0..MaxGuid
  BY <1>1, <1>2, Sides, SidesNext DEF Has, Mine
<1>9. Guids(P)' = Guids(P) \cup {NextGuid} /\ NextGuid \notin Guids(P) /\ NextGuid \notin Guids(B)
  BY <1>3, <1>6, <1>8
<1>10. Kept' = Kept /\ Topped' = Topped /\ Unasked' = Unasked
  BY <1>1, <1>6, <1>7 DEF Kept, Topped, Unasked
<1>11. \A b : Loss(b)' = Loss(b)
  BY <1>7 DEF Loss
<1>12. Grants' = Grants /\ Ahead' = Ahead
  BY <1>1, <1>6, <1>7, <1>11 DEF Grants, Ahead
<1>13. NextGuid \in Ahead
  BY <1>3 DEF Ahead
<1>14. Based'
  BY <1>1, <1>7, <1>9 DEF Stocked, Based
<1>15. Placed'
  <2>1. \A y \in Guids(P)' : y <= Mine'
    BY <1>3, <1>6, <1>8, <1>9
  <2>2. Theirs # 0 => \A s \in Slots : P'[s].guid = Theirs => s \in {New, N0}
    BY <1>6 DEF Stocked, Placed
  <2>3. Mine' \notin Others(P)'
    BY <1>6, <1>8, <1>9
  <2> QED
    BY <1>1, <1>7, <2>1, <2>2, <2>3 DEF Stocked, Placed
<1>16. Partial'
  <2>1. token < NextGuid /\ token \in Int /\ NextGuid \in Int
    BY <1>3, PairNumbers
  <2> QED
    BY <1>1, <1>6, <1>7, <1>12, <2>1 DEF Stocked, Partial
<1>17. Asking'
  <2>1. Theirs' # Mine'
    BY <1>6, <1>7, <1>8, <1>9, <1>3
  <2> QED
    BY <1>1, <1>6, <1>7, <2>1 DEF Stocked, Asking, Settled
<1>18. Staged'
  <2>1. Mine' # 0 /\ Mine' \in Ahead'
    BY <1>3, <1>6, <1>12, <1>13
  <2> QED
    BY <1>1, <1>7, <1>10, <1>12, <2>1
       DEF Turns, BackupTurn, PrimaryTurn, Planning, Following, Sends, RotateStages,
           Staged, Offered, Promised, Sending, Arriving, Confirmed, Recovering
<1>19. ReplicaStep
  <2>1. \A y \in Guids(P) \cup R!Theirs : y < NextGuid
    BY <1>3, Mapped
  <2>2. R!Take(NextGuid)
    BY <1>1, <1>7, <1>9, <2>1 DEF R!Take, Others, Destroyed, Theirs
  <2>3. NextGuid \in Guids(P)' \ Guids(P)
    BY <1>9
  <2> QED
    BY <2>2, <2>3 DEF ReplicaStep, R!Next
<1> QED
  BY <1>14, <1>15, <1>16, <1>17, <1>18, <1>19 DEF Stocked
\* The primary rotates its snapshots: the one that the backup has too stays, and becomes
\* the base.
LEMMA RotatePrimaryBase ==
    ASSUME TypeOK, TypeOK', Talk, Turns, Stocked, Staged, pc \in RotateStages \ {"prune"},
           P' = Rotated(P, pc, KeepOnPrimary, 0), Goto(NextStage[pc]),
           UNCHANGED <<store, files, receiver, conn>>
    PROVE  Stocked' /\ Staged' /\ ReplicaStep
<1> DEFINE l == Rotated(P, pc, KeepOnPrimary, 0)
<1>1. /\ UNCHANGED <<B, backup, token, onto, tag, blocked, approve, agreed, rpc, req, todo, ask, answer, plan>>
      /\ pc \in {"keep", "shift", "promote"}
      /\ pc' = CASE pc = "keep" -> "shift" [] pc = "shift" -> "promote" [] pc = "promote" -> "prune"
      /\ plan.kind \in Sends \cup {"rotate"}
      /\ rpc \in {"wait", "accept"}
  BY DEF Goto, NextStage, RotateStages, store, files, receiver, conn, Turns, PrimaryTurn
<1>2. /\ plan.kind \in Sends => Theirs = Mine /\ Mine # 0
      /\ plan.kind = "rotate" => Mine = TheirBase /\ Mine # 0 /\ Theirs = 0 /\ Unasked
  BY <1>1 DEF Staged, Confirmed, Recovering
<1>3. P \in Listing /\ New \in Slots /\ N0 \in Slots /\ N0 # New /\ NoSnap.guid = 0
  BY Sides, SlotFacts
<1>4. /\ pc # "promote" => l[New] = P[New] /\ Others(l) \subseteq Others(P)
      /\ pc = "promote" => /\ l[New] = NoSnap /\ l[N0] = P[New]
                           /\ Others(l) \subseteq Others(P) \cup ({Mine} \ {0})
  BY <1>1, <1>3, RotatedSlots, PromotedOthers DEF Mine
<1>5. pc = "promote" => \A s \in Slots \ {New, N0} : l[s] = P[s]
  BY <1>1, <1>3 DEF Rotated, RenameSnap, Listing
<1>6. P' = l
  OBVIOUS
<1> HIDE DEF l
<1>7. /\ Others(P)' = Others(l) /\ Mine' = (IF pc = "promote" THEN 0 ELSE Mine)
      /\ pc = "promote" => MyBase' = Mine /\ P'[New].guid = 0 /\ \A s \in Slots \ {New, N0} : P'[s] = P[s]
  BY <1>3, <1>4, <1>5, <1>6, NextSides DEF Mine, MyBase
<1>8. Guids(B)' = Guids(B) /\ Others(B)' = Others(B) /\ UNCHANGED <<Theirs, TheirBase>>
  BY <1>1, SameBackup
<1>9. /\ Guids(P) = Others(P) \cup ({Mine} \ {0}) /\ Guids(P)' = Others(P)' \cup ({Mine'} \ {0})
      /\ Guids(B) = Others(B) \cup ({Theirs} \ {0}) /\ Guids(B) \subseteq 1..MaxGuid
      /\ TheirBase # 0 => TheirBase \in Others(B)
      /\ MyBase' # 0 => MyBase' \in Others(P)'
      /\ 0 \notin Others(P) /\ 0 \notin Others(P)'
      /\ Mine \in 0..MaxGuid
  BY Sides, SidesNext
<1>10. Mine \in Guids(B) /\ Mine # 0
  BY <1>1, <1>2, <1>9
<1>11. Mine \in Guids(P)' /\ Guids(P)' \subseteq Guids(P)
  BY <1>4, <1>7, <1>9, <1>10
<1>12. Based'
  BY <1>8, <1>10, <1>11 DEF Based
<1>13. Placed'
  <2>1. Theirs # 0 => \A s \in Slots : P'[s].guid = Theirs => s \in {New, N0}
    <3> SUFFICES ASSUME Theirs # 0, NEW s \in Slots, P'[s].guid = Theirs, s \notin {New, N0} PROVE FALSE
      OBVIOUS
    <3>1. Theirs = Mine /\ Mine \notin Others(P)
      BY <1>1, <1>2 DEF Stocked, Placed
    <3>2. CASE pc = "promote"
      <4>1. P[s].guid = Theirs
        BY <1>7, <3>2
      <4> QED
        BY <3>1, <4>1, <1>3, OthersFacts
    <3>3. CASE pc # "promote"
      <4>1. P' \in Listing
        BY SidesNext
      <4>2. P'[s].guid \in Others(l)
        BY <1>6, <4>1, OthersFacts
      <4> QED
        BY <1>4, <3>1, <3>3, <4>2
    <3> QED
      BY <3>2, <3>3
  <2>2. Mine' \notin Others(P)'
    BY <1>4, <1>7, <1>9 DEF Stocked, Placed
  <2>3. Mine' # 0 => \A x \in Guids(P)' : x <= Mine'
    BY <1>7, <1>11 DEF Stocked, Placed
  <2> QED
    BY <1>1, <1>8, <2>1, <2>2, <2>3 DEF Stocked, Placed
<1>14. Partial'
  <2>1. token # 0 => token # Mine
    BY <1>9, <1>10 DEF Stocked, Partial, Ahead
  <2>2. token # 0 => token # Mine'
    BY <1>7, <2>1
  <2>3. Ahead' = Ahead
    BY <1>1, <1>8 DEF Ahead
  <2> QED
    BY <1>1, <1>8, <2>2, <2>3 DEF Stocked, Partial
<1>15. Unasked /\ Unasked'
  <2>1. Unasked
    BY <1>1, <1>2 DEF Stocked, Asking
  <2> QED
    BY <1>1, <1>8, <2>1 DEF Unasked
<1>16. Asking'
  <2>1. blocked[2] \notin Guids(B)' /\ approve[2] \notin Guids(B)'
    BY <1>1, <1>15 DEF Unasked
  <2> QED
    BY <1>1, <1>8, <1>15, <2>1 DEF Stocked, Asking, Settled
<1>17. Staged'
  <2>1. pc' \in {"shift", "promote", "prune"} /\ (pc' = "prune" <=> pc = "promote")
    BY <1>1
  <2> QED
    BY <1>1, <1>2, <1>7, <1>8, <1>15, <2>1
       DEF Turns, BackupTurn, PrimaryTurn, Planning, Following, Sends, RotateStages,
           Staged, Offered, Promised, Sending, Arriving, Confirmed, Recovering
<1>18. ReplicaStep
  BY <1>1, <1>8, <1>11, <1>12, ReplicaReleases
<1> QED
  BY <1>12, <1>13, <1>14, <1>16, <1>17, <1>18 DEF Stocked

\* The operator rolls the primary back to a base the backup has.
LEMMA RollbackBase ==
    ASSUME TypeOK, TypeOK', Talk, Turns, Stocked, Staged, NEW s \in {N0, N1}, Rollback(s)
    PROVE  Stocked' /\ Staged' /\ ReplicaStep
<1> DEFINE to == P[s].guid
           l == RolledBack(P, to)
<1>1. /\ UNCHANGED <<B, backup, token, onto, tag, blocked, approve, agreed, rpc, req, todo, up, ask, pc>>
      /\ pc = "idle" /\ rpc = "accept" /\ to \in Guids(B) /\ P' = l
  BY DEF Rollback, store, files, receiver, sender, conn
<1>2. P \in Listing /\ s \in Slots \ {New} /\ New \in Slots /\ NoSnap.guid = 0
  BY Sides, SlotFacts
<1>3. to \in 1..MaxGuid /\ to \in Others(P)
  <2>1. to \in 1..MaxGuid
    BY <1>1, Sides
  <2> QED
    BY <1>2, <2>1, OthersFacts
<1>4. to \in 0..MaxGuid
  BY <1>3
<1> HIDE DEF to
<1>5. /\ \A t \in Slots : l[t] = IF P[t].guid > to THEN NoSnap ELSE P[t]
      /\ Guids(l) = {g \in Guids(P) : g <= to} /\ Others(l) = {g \in Others(P) : g <= to}
  BY <1>2, <1>4, RolledBackListing, RolledBackOthers
<1> HIDE DEF l
<1>6. /\ Guids(P)' = {g \in Guids(P) : g <= to} /\ Others(P)' = {g \in Others(P) : g <= to}
      /\ \A t \in Slots : P'[t].guid \in {0, P[t].guid}
      /\ Mine' = IF Mine > to THEN 0 ELSE Mine
  BY <1>1, <1>2, <1>5, NextSides DEF Mine
<1>7. Guids(B)' = Guids(B) /\ Others(B)' = Others(B) /\ UNCHANGED <<Theirs, TheirBase>>
  BY <1>1, SameBackup
<1>8. /\ Guids(P) = Others(P) \cup ({Mine} \ {0}) /\ Mine \in 0..MaxGuid
      /\ 0 \notin Others(P) /\ to \in Guids(P)
  BY <1>3, Sides
<1>9. Mine' = 0
  BY <1>3, <1>6, <1>8 DEF Stocked, Placed
<1>10. to \in Guids(P)' /\ to \in Guids(B)'
  BY <1>1, <1>3, <1>6, <1>7, <1>8
<1>11. Based'
  BY <1>10 DEF Based
<1>12. Placed'
  BY <1>1, <1>6, <1>7, <1>8, <1>9 DEF Stocked, Placed
<1>13. Partial'
  <2>1. Ahead' = Ahead
    BY <1>1, <1>7 DEF Ahead
  <2> QED
    BY <1>1, <1>7, <1>9, <2>1 DEF Stocked, Partial
<1>14. Asking'
  BY <1>1, <1>6, <1>7, <1>9 DEF Stocked, Asking, Settled
<1>15. Staged'
  <2>1. ask' = NoMsg /\ NoMsg.kind = "none"
    BY <1>1, FrameKinds DEF Turns, BackupTurn
  <2> QED
    BY <1>1, <2>1
       DEF Planning, Following, RotateStages,
           Staged, Offered, Promised, Sending, Arriving, Confirmed, Recovering
<1>16. ReplicaStep
  <2>1. Guids(P)' \subseteq Guids(P)
    BY <1>6
  <2> QED
    BY <1>1, <1>7, <1>11, <2>1, ReplicaReleases
<1> QED
  BY <1>11, <1>12, <1>13, <1>14, <1>15, <1>16 DEF Stocked
----------------------------------------------------------------------------
(* The steps that change what the backup holds *)

\* A received snapshot that the primary does not have is discarded.
LEMMA DropNewBase ==
    ASSUME TypeOK, TypeOK', Talk, Turns, Stocked, Staged, DropNew, B' = Destroyed(B, New)
    PROVE  Stocked' /\ Staged' /\ ReplicaStep
<1> DEFINE l == Destroyed(B, New)
<1>1. /\ UNCHANGED <<P, backup, token, onto, tag, blocked, approve, agreed, pc, plan, req, todo, ask, answer>>
      /\ rpc = "drop" /\ rpc' = "base" /\ Theirs \notin Guids(P)
  BY DEF DropNew, Keep, primary, files, sender, conn, Staged, Offered
<1>2. B \in Listing /\ New \in Slots /\ N0 \in Slots /\ N0 # New /\ NoSnap.guid = 0 /\ NoSnap \in Snapshot
  BY Sides, SlotFacts
<1>3. /\ Guids(l) = Others(B) /\ Others(l) = Others(B)
      /\ l[New] = NoSnap /\ \A s \in Slots \ {New} : l[s] = B[s]
  <2>1. Others(l) = Others(B)
    BY <1>2, PutOthers DEF Destroyed
  <2>2. l[New] = NoSnap /\ \A s \in Slots \ {New} : l[s] = B[s]
    BY <1>2 DEF Destroyed, Listing
  <2> QED
    BY <2>1, <2>2 DEF Others
<1>4. B' = l
  OBVIOUS
<1> HIDE DEF l
<1>5. /\ Guids(B)' = Others(B) /\ Others(B)' = Others(B) /\ Theirs' = 0 /\ TheirBase' = TheirBase
      /\ B'[New] = NoSnap /\ \A s \in Slots \ {New} : B'[s] = B[s]
  BY <1>2, <1>3, <1>4, NextSides DEF TheirBase
<1>6. Guids(P)' = Guids(P) /\ Others(P)' = Others(P) /\ UNCHANGED <<Mine, MyBase, Offer>>
  BY <1>1, SamePrimary
<1>7. /\ Guids(P) = Others(P) \cup ({Mine} \ {0}) /\ Guids(B) = Others(B) \cup ({Theirs} \ {0})
      /\ 0 \notin Guids(P)
  BY Sides
<1>8. Guids(P)' \cap Guids(B)' = Guids(P) \cap Guids(B) /\ Guids(B)' \subseteq Guids(B)
  BY <1>1, <1>5, <1>6, <1>7
<1>9. Based'
  BY <1>1, <1>5, <1>8 DEF Stocked, Based
<1>10. Placed'
  BY <1>1, <1>5, <1>6, <1>8 DEF Stocked, Placed
<1>11. Partial'
  <2>1. Topped => Topped'
    BY <1>1, <1>5, <1>6, <1>7 DEF Topped
  <2>2. Ahead \subseteq Ahead'
    BY <1>1, <1>8 DEF Ahead
  <2> QED
    BY <1>1, <1>5, <1>6, <1>7, <2>1, <2>2, SameNewest DEF Stocked, Partial
<1>12. Asking'
  BY <1>1, <1>5, <1>6, <1>8 DEF Stocked, Asking, Settled
<1>13. Staged'
  <2>1. Theirs' \notin Guids(P)' /\ NoMsg.kind = "none"
    BY <1>5, <1>6, <1>7, FrameKinds
  <2> QED
    BY <1>1, <1>6, <2>1
       DEF Turns, BackupTurn, PrimaryTurn, Planning, Following, Sends, RotateStages,
           Staged, Offered, Promised, Sending, Arriving, Confirmed, Recovering
<1>14. ReplicaStep
  <2>1. (R!Based)'
    BY <1>9, MappedBased
  <2>2. R!Reject
    BY <1>1, <1>5, <1>6, <2>1 DEF R!Reject, Others, Destroyed, Theirs
  <2> QED
    BY <2>2 DEF ReplicaStep, R!Next
<1> QED
  BY <1>9, <1>10, <1>11, <1>12, <1>13, <1>14 DEF Stocked

\* What a receive leaves of the backup: all of it, or what is not newer than a base
\* that both have and that it may be rolled back to.
LEMMA ForcedParts ==
    ASSUME TypeOK, Talk, Staged, rpc = "data"
    PROVE  /\ Forced \in Listing /\ \A t \in Slots : Forced[t] \in {NoSnap, B[t]}
           /\ Forced[New].guid = 0
           /\ Guids(Forced) = Others(Forced) /\ Guids(Forced) \subseteq Guids(B)
           /\ \/ todo # "inc" /\ Forced = B
              \/ \E b \in Grants : Others(Forced) = {g \in Others(B) : g <= b}
<1>1. B \in Listing /\ New \in Slots /\ NoSnap.guid = 0 /\ Theirs = 0
      /\ Guids(B) = Others(B) \cup ({Theirs} \ {0})
  BY Sides, SlotFacts DEF Staged, Arriving
<1>2. CASE todo # "inc"
  BY <1>1, <1>2 DEF Forced, Theirs
<1>3. CASE todo = "inc"
  <2> DEFINE to == req.base
             m == RolledBack(B, to)
  <2>1. Forced = m /\ to \in Grants /\ to \in 0..MaxGuid
    BY <1>3, FrameParts DEF Forced, Staged, Promised, Guid
  <2> HIDE DEF to
  <2>2. /\ m \in Listing /\ \A t \in Slots : m[t] = IF B[t].guid > to THEN NoSnap ELSE B[t]
        /\ Guids(m) = {g \in Guids(B) : g <= to} /\ Others(m) = {g \in Others(B) : g <= to}
    BY <1>1, <2>1, RolledBackListing, RolledBackOthers
  <2> HIDE DEF m
  <2>3. m[New].guid = 0
    BY <1>1, <2>2 DEF Theirs
  <2> QED
    BY <1>1, <2>1, <2>2, <2>3
<1> QED
  BY <1>2, <1>3

\* It still shares a base, and that is the newest it has if anything had to go.
LEMMA ForcedShares ==
    ASSUME TypeOK, Talk, Stocked, Staged, rpc = "data"
    PROVE  /\ tag /\ Others(Forced) # {} => Guids(P) \cap Others(Forced) # {}
           /\ Kept /\ tag /\ Others(Forced) # {} => Others(P) \cap Others(Forced) # {}
           /\ req.snap.guid = Mine =>
                 \A x \in Others(Forced) : \E y \in Others(P) \cap Others(Forced) : x <= y
<1>1. /\ Guids(B) = Others(B) \cup ({Theirs} \ {0}) /\ Theirs = 0 /\ Others(B) \subseteq 1..MaxGuid
      /\ Guids(P) = Others(P) \cup ({Mine} \ {0})
  BY Sides DEF Staged, Arriving
<1>2. CASE todo # "inc" /\ Forced = B
  <2>1. req.snap.guid = Mine => Topped
    BY <1>2 DEF Staged, Arriving
  <2> QED
    BY <1>1, <1>2, <2>1 DEF Stocked, Based, Kept, Topped
<1>3. ASSUME NEW b \in Grants, Others(Forced) = {g \in Others(B) : g <= b}
      PROVE  b \in Others(P) \cap Others(Forced) /\ \A x \in Others(Forced) : x <= b
  BY <1>1, <1>3 DEF Grants
<1> QED
  BY <1>1, <1>2, <1>3, ForcedParts

\* The stream has arrived.
LEMMA ReceiveBase ==
    ASSUME TypeOK, TypeOK', Talk, Turns, Stocked, Staged, ReceiveEnd, rpc' # "wait"
    PROVE  Stocked' /\ Staged' /\ ReplicaStep
<1> DEFINE x == req.snap
           g == x.guid
           m == Forced
           l == [m EXCEPT ![New] = x]
<1>1. /\ UNCHANGED <<P, tag, blocked, approve, agreed, pc, plan, todo, up, answer>>
      /\ rpc = "data" /\ ask' = NoMsg /\ backup' = "ready" /\ token' = 0
      /\ todo \in Streams
      /\ rpc' = CASE todo = "full" -> "tag" [] todo = "inc" -> "consume" [] todo = "resume" -> "report"
      /\ B' = l
  BY DEF ReceiveEnd, primary, files, sender, Talk, Requests
<1>2. /\ Theirs = 0 /\ g \in Ahead /\ g \in Leading
      /\ todo = "full" => Guids(B) = {}
  BY <1>1 DEF Staged, Arriving
<1>3. m \in Listing /\ New \in Slots /\ N0 \in Slots /\ N0 # New /\ x \in Snapshot
  BY <1>1, ForcedParts, SlotFacts, FrameParts
<1>kept. /\ \A t \in Slots : m[t] \in {NoSnap, B[t]}
         /\ Guids(m) = Others(m) /\ Guids(m) \subseteq Guids(B)
         /\ \/ m = B
            \/ \E b \in Grants : Others(m) = {y \in Others(B) : y <= b}
         /\ tag /\ Others(m) # {} => Guids(P) \cap Others(m) # {}
         /\ Kept /\ tag /\ Others(m) # {} => Others(P) \cap Others(m) # {}
         /\ g = Mine => \A z \in Others(m) : \E y \in Others(P) \cap Others(m) : z <= y
  BY <1>1, ForcedParts, ForcedShares
<1> HIDE DEF x, m
<1>4. l \in Listing /\ Others(l) = Others(m) /\ l[New] = x /\ \A s \in Slots \ {New} : l[s] = m[s]
  BY <1>3, PutOthers, PutListing DEF Listing
<1> HIDE DEF l
<1>5. /\ Others(B)' = Others(m) /\ Theirs' = g
      /\ B'[New].guid = g /\ \A s \in Slots \ {New} : B'[s] = m[s]
  BY <1>1, <1>3, <1>4, NextSides
<1>6. Guids(P)' = Guids(P) /\ Others(P)' = Others(P) /\ UNCHANGED <<Mine, MyBase, Offer>>
  BY <1>1, SamePrimary
<1>7. /\ P \in Listing
      /\ Guids(P) = Others(P) \cup ({Mine} \ {0}) /\ Guids(B) = Others(B) \cup ({Theirs} \ {0})
      /\ Guids(B)' = Others(B)' \cup ({Theirs'} \ {0})
      /\ Guids(B) \subseteq 1..MaxGuid /\ Others(P) \subseteq 1..MaxGuid
      /\ blocked[1] \in 0..MaxGuid /\ blocked[2] \in 0..MaxGuid
      /\ approve[1] \in 0..MaxGuid /\ approve[2] \in 0..MaxGuid
      /\ blocked = NoPair => blocked[2] = 0
      /\ approve = NoPair => approve[2] = 0
  BY Sides, SidesNext, PairNumbers
<1>8. /\ g \in 1..MaxGuid /\ \A y \in Guids(B) : y < g
      /\ blocked[2] < g /\ approve[2] < g
      /\ g \notin Others(P) /\ \A y \in Guids(P) : y <= g
  BY <1>2 DEF Ahead, Leading
<1> HIDE DEF g
<1>9. Guids(B)' = Others(m) \cup {g} /\ Others(m) \subseteq Guids(B) /\ Guids(B) = Others(B)
  BY <1>2, <1>5, <1>7, <1>8, <1>kept
<1>10. Based'
  BY <1>1, <1>5, <1>6, <1>9, <1>kept DEF Based
<1>11. Placed'
  <2>1. \A s \in Slots : P[s].guid = g => s \in {New, N0}
    BY <1>7, <1>8, OthersFacts
  <2>2. \A s \in Slots : B'[s] = NoSnap \/ B'[s].guid # 0
    BY <1>5, <1>8, <1>kept DEF Stocked, Placed
  <2>3. \A y \in Others(B)' : y < Theirs'
    BY <1>5, <1>8, <1>9
  <2> QED
    BY <1>1, <1>5, <1>6, <2>1, <2>2, <2>3 DEF Stocked, Placed
<1>12. Partial'
  BY <1>1 DEF Partial
<1>13. Asking'
  <2>1. ASSUME NEW pair, Settled(pair), pair[1] \in 0..MaxGuid, pair[2] \in 0..MaxGuid, pair[2] < g,
               pair = NoPair => pair[2] = 0
        PROVE  /\ pair[2] \in Guids(B)' => pair[2] \in Others(m) /\ pair[2] \in Guids(B)
               /\ pair[2] \in Guids(B) => \A y \in Others(P) \cap Guids(B)' : y <= pair[1]
               /\ g = Mine => pair[2] \notin Guids(B)'
    <3>1. pair[2] \in Guids(B)' => pair[2] \in Others(m) /\ pair[2] \in Guids(B)
      BY <1>8, <1>9, <2>1
    <3>2. pair[2] \in Guids(B) => \A y \in Others(P) \cap Guids(B)' : y <= pair[1]
      BY <1>8, <1>9, <2>1 DEF Settled
    <3>3. ASSUME g = Mine, pair[2] \in Guids(B)' PROVE FALSE
      <4>1. PICK y \in Others(P) \cap Others(m) : pair[2] <= y
        BY <1>kept, <3>1, <3>3
      <4>2. y <= pair[1] /\ pair[1] < pair[2]
        BY <1>7, <1>9, <2>1, <3>1, <3>3, <4>1 DEF Settled
      <4> QED
        BY <1>7, <2>1, <4>1, <4>2
    <3> QED
      BY <3>1, <3>2, <3>3
  <2>2. /\ blocked[2] \in Guids(B)' => blocked[2] \in Guids(B)
        /\ blocked[2] \in Guids(B) => \A y \in Others(P) \cap Guids(B)' : y <= blocked[1]
        /\ g = Mine => blocked[2] \notin Guids(B)'
    <3>1. Settled(blocked)
      BY DEF Stocked, Asking
    <3> QED
      BY <1>7, <1>8, <2>1, <3>1
  <2>3. /\ approve[2] \in Guids(B)' => approve[2] \in Guids(B)
        /\ approve[2] \in Guids(B) => \A y \in Others(P) \cap Guids(B)' : y <= approve[1]
        /\ g = Mine => approve[2] \notin Guids(B)'
    <3>1. Settled(approve)
      BY DEF Stocked, Asking
    <3> QED
      BY <1>7, <1>8, <2>1, <3>1
  <2>4. \A y \in Guids(B)' : approve[1] < y /\ y <= approve[2] => y \in agreed
    BY <1>7, <1>8, <1>9 DEF Stocked, Asking
  <2> QED
    BY <1>1, <1>5, <1>6, <2>2, <2>3, <2>4 DEF Stocked, Asking, Settled, Unasked
<1>14. Kept => Kept'
  BY <1>1, <1>5, <1>6, <1>kept DEF Kept
<1>15. Staged'
  <2>1. rpc' \in {"tag", "consume", "report"} /\ (rpc' = "tag" => todo = "full")
    BY <1>1 DEF Streams
  <2>2. NoMsg.kind = "none" /\ (todo = "full" => Others(B)' = {})
    BY <1>2, <1>5, <1>9, FrameKinds
  <2> QED
    BY <1>1, <1>5, <1>6, <1>14, <2>1, <2>2
       DEF Turns, BackupTurn, PrimaryTurn, Planning, Following, Sends, RotateStages,
           Staged, Offered, Promised, Sending, Arriving, Confirmed, Recovering
<1>16. ReplicaStep
  <2>1. \A y \in Guids(P) \cup Others(m) : y <= g
    BY <1>7, <1>8, <1>9
  <2>2. ASSUME NEW b \in Grants, Others(m) = {y \in Others(B) : y <= b} PROVE R!RollBack
    <3>1. b \in R!Shared
      BY <1>7, Mapped DEF Grants
    <3>2. RollbackAuto \/ Others(B) \ Others(m) \subseteq agreed
      BY <1>7, <1>9, <2>2 DEF Grants, Loss
    <3> QED
      BY <1>5, <2>2, <3>1, <3>2 DEF R!RollBack, Others, Destroyed
  <2>3. R!RollBack \/ Others(B)' = Others(B)
    BY <1>5, <1>kept, <2>2
  <2>4. R!Receive
    BY <1>1, <1>2, <1>5, <1>6, <2>1, <2>3 DEF R!Receive, Others, Destroyed, Theirs
  <2> QED
    BY <2>4 DEF ReplicaStep, R!Next
<1> QED
  BY <1>10, <1>11, <1>12, <1>13, <1>15, <1>16 DEF Stocked
\* The backup follows the primary, or completes what was interrupted: its new snapshot
\* becomes the base, and only what is older than it goes.
LEMMA RotateBackupBase ==
    ASSUME TypeOK, TypeOK', Talk, Turns, Stocked, Staged, rpc \in RotateStages \ {"prune"},
           B' = Rotated(B, rpc, TRUE, 0), Keep(NextStage[rpc]),
           UNCHANGED <<primary, backup, token, onto, tag, files, sender, conn>>
    PROVE  Stocked' /\ Staged' /\ ReplicaStep
<1> DEFINE keep == TRUE
           l == Rotated(B, rpc, keep, 0)
<1>0. B' = l
  OBVIOUS
<1> HIDE DEF keep
<1>1. /\ UNCHANGED <<P, backup, token, onto, tag, blocked, approve, agreed, pc, plan, req, todo, ask, answer>>
      /\ rpc \in {"keep", "shift", "promote"}
      /\ rpc' = CASE rpc = "keep" -> "shift" [] rpc = "shift" -> "promote" [] rpc = "promote" -> "prune"
      /\ todo \in {"rotate", "base", "done"}
      /\ ask.kind \notin {"hello", "rotate", "data"}
      /\ \/ todo \in {"rotate", "base"} /\ pc \in {"plan", "idle"} /\ answer = NoMsg
         \/ todo = "done" /\ pc \in {"rotated", "idle"}
  BY DEF Keep, NextStage, RotateStages, primary, files, sender, conn, Turns, BackupTurn, Planning, Following
<1>2. /\ Theirs # 0
      /\ todo = "rotate" => Theirs = Mine
      /\ todo \in {"base", "done"} => Theirs = MyBase
      /\ rpc = "promote" => TheirBase = 0
      /\ todo \in {"rotate", "base"} => req.snaps = Offer
  BY <1>1 DEF Staged, Offered, Confirmed, Recovering, Planning, Following, RotateStages
<1>3. B \in Listing /\ New \in Slots /\ N0 \in Slots /\ N0 # New /\ NoSnap.guid = 0
  BY Sides, SlotFacts
<1>4. rpc = "promote" => B[N0] = NoSnap
  BY <1>2, <1>3 DEF Stocked, Placed, TheirBase
<1>5. /\ rpc # "promote" => l[New] = B[New] /\ Others(l) \subseteq Others(B)
      /\ rpc = "shift" => l[N0] = NoSnap
      /\ rpc = "promote" => /\ l[New] = NoSnap /\ l[N0] = B[New]
                            /\ Others(l) = Others(B) \cup ({Theirs} \ {0})
      /\ \A s \in Slots : l[s] = NoSnap \/ \E t \in Slots : l[s] = B[t]
  <2>1. rpc \in RotateStages
    BY <1>1 DEF RotateStages
  <2>2. \A s \in Slots : l[s] = NoSnap \/ \E t \in Slots : l[s] = B[t]
    <3> SUFFICES ASSUME NEW s \in Slots PROVE l[s] = NoSnap \/ \E t \in Slots : l[s] = B[t]
      OBVIOUS
    <3>1. Rotated(B, rpc, keep, 0)[s] = NoSnap \/ \E t \in Slots : Rotated(B, rpc, keep, 0)[s] = B[t]
      BY <1>3, <2>1, RotatedSlots DEF RotateStages
    <3> QED
      BY <3>1
  <2>3. rpc = "promote" => /\ l[New] = NoSnap /\ l[N0] = B[New]
                           /\ Others(l) = Others(B) \cup ({Theirs} \ {0})
    BY <1>3, <1>4, RotatedSlots, PromotedOthers DEF Theirs
  <2>4. /\ rpc # "promote" => l[New] = B[New] /\ Others(l) \subseteq Others(B)
        /\ rpc = "shift" => l[N0] = NoSnap
    BY <1>1, <1>3, RotatedSlots
  <2> QED
    BY <2>2, <2>3, <2>4
<1> HIDE DEF l
<1>6. /\ Others(B)' = Others(l) /\ Theirs' = (IF rpc = "promote" THEN 0 ELSE Theirs)
      /\ rpc = "shift" => TheirBase' = 0
      /\ rpc = "promote" => TheirBase' = Theirs
      /\ \A s \in Slots : B'[s] = NoSnap \/ \E t \in Slots : B'[s] = B[t]
  BY <1>0, <1>3, <1>5, NextSides DEF Theirs, TheirBase
<1>7. Guids(P)' = Guids(P) /\ Others(P)' = Others(P) /\ UNCHANGED <<Mine, MyBase, Offer>>
  BY <1>1, SamePrimary
<1>8. /\ Guids(P) = Others(P) \cup ({Mine} \ {0}) /\ MyBase # 0 => MyBase \in Others(P)
      /\ Guids(B) = Others(B) \cup ({Theirs} \ {0}) /\ Guids(B)' = Others(B)' \cup ({Theirs'} \ {0})
      /\ Guids(B) \subseteq 1..MaxGuid
  BY Sides, SidesNext
<1>9. /\ Theirs \in Guids(P)' /\ Theirs \in Guids(B)' /\ Theirs \in Guids(P) /\ Theirs \in Guids(B)
      /\ Guids(B)' \subseteq Guids(B)
      /\ rpc = "promote" => Guids(B)' = Guids(B)
  <2>1. Theirs \in Guids(P)
    BY <1>1, <1>2, <1>8, Sides
  <2>2. CASE rpc = "promote"
    BY <1>2, <1>5, <1>6, <1>7, <1>8, <2>1, <2>2
  <2>3. CASE rpc # "promote"
    BY <1>2, <1>5, <1>6, <1>7, <1>8, <2>1, <2>3
  <2> QED
    BY <2>2, <2>3
<1>10. Based'
  BY <1>9 DEF Based
<1>11. Placed'
  <2>1. \A s \in Slots : B'[s] = NoSnap \/ B'[s].guid # 0
    BY <1>6 DEF Stocked, Placed
  <2>2. Theirs' # 0 => Theirs' = Theirs /\ \A y \in Others(B)' : y < Theirs
    BY <1>5, <1>6 DEF Stocked, Placed
  <2>3. backup' = "absent" => ~ tag' /\ Guids(B)' = {}
    BY <1>1, <1>9 DEF Stocked, Placed
  <2> QED
    BY <1>1, <1>7, <2>1, <2>2, <2>3 DEF Stocked, Placed
<1>12. Partial'
  BY <1>1, <1>2 DEF Stocked, Partial
<1>13. Unasked => Unasked'
  BY <1>1, <1>9 DEF Unasked
<1>14. Asking'
  <2>1. Settled(blocked)' /\ Settled(approve)'
    BY <1>1, <1>7, <1>9 DEF Stocked, Asking, Settled
  <2>2. Theirs' = Mine' /\ Mine' # 0 => Unasked'
    BY <1>6, <1>7, <1>13 DEF Stocked, Asking
  <2> QED
    BY <1>1, <1>9, <2>1, <2>2 DEF Stocked, Asking
<1>15. Staged'
  <2>1. /\ rpc' \in {"shift", "promote", "prune"} /\ (rpc' = "prune" <=> rpc = "promote")
        /\ rpc' = "promote" => rpc = "shift"
    BY <1>1
  <2>2. todo = "rotate" => Unasked'
    BY <1>2, <1>13 DEF Stocked, Asking
  <2>3. NoMsg.kind = "none"
    BY FrameKinds
  <2> QED
    BY <1>1, <1>2, <1>6, <1>7, <2>1, <2>2, <2>3
       DEF Planning, Following, Sends, RotateStages,
           Staged, Offered, Promised, Sending, Arriving, Confirmed, Recovering
<1>16. ReplicaStep
  <2>1. CASE rpc = "promote"
    <3>1. R!Confirm
      BY <1>1, <1>2, <1>5, <1>6, <1>7, <1>9, <2>1 DEF R!Confirm, Others, Destroyed, Theirs
    <3> QED
      BY <3>1 DEF ReplicaStep, R!Next
  <2>2. CASE rpc # "promote"
    <3>1. Theirs \in R!Shared
      BY <1>9, Mapped
    <3>2. /\ Others(B)' \subseteq Others(B) /\ Theirs' = Theirs
          /\ \A y \in Others(B) \ Others(B)' : y < Theirs
      BY <1>2, <1>5, <1>6, <2>2 DEF Stocked, Placed
    <3>3. R!Expire
      BY <1>1, <1>7, <3>1, <3>2 DEF R!Expire, Others, Destroyed, Theirs
    <3> QED
      BY <3>3 DEF ReplicaStep, R!Next
  <2> QED
    BY <2>1, <2>2
<1> QED
  BY <1>10, <1>11, <1>12, <1>14, <1>15, <1>16 DEF Stocked

----------------------------------------------------------------------------
(* The pair implements the replica *)

\* The other steps of the primary.
LEMMA SenderQuietBase ==
    ASSUME TypeOK, Talk, Turns, Stocked, Staged, SenderQuiet
    PROVE  Stocked' /\ Staged' /\ ReplicaStep
<1>1. UNCHANGED <<B, backup, token, onto, tag, blocked, approve, agreed>>
  BY DEF SenderQuiet, SendHello, SendConf, ConfSent, ReadPlan, DropStale, TakeSnapshot, Stream, StreamEnd,
         Confirm, Mark, StoreConf, RotatePrimary, PrunePrimary, OrderRotate, CycleDone, NoAnswer, Fail,
         CrashSender, store, files
<1>2. P' = P \/ \E yes \in BOOLEAN : P' = [P EXCEPT ![New].frozen = yes]
  <2>1. CASE Mark
    <3>1. cons \in BOOLEAN
      BY DEF TypeOK
    <3> QED
      BY <2>1, <3>1 DEF Mark
  <2>2. CASE ~ Mark
    BY <2>2 DEF SenderQuiet, SendHello, SendConf, ConfSent, ReadPlan, Stream, StreamEnd,
         Confirm, StoreConf, PrunePrimary, OrderRotate, CycleDone, NoAnswer, CrashSender, primary
  <2> QED
    BY <2>1, <2>2
<1>3. Stocked' /\ StockKept /\ ReplicaStep
  BY <1>1, <1>2, QuietStock, MarkedStock
<1> QED
  BY <1>3, SenderStaged

\* The other steps of the backup and of the network.
LEMMA ReceiverQuietBase ==
    ASSUME TypeOK, Talk, Turns, Stocked, Staged, ReceiverQuiet
    PROVE  Stocked' /\ Staged' /\ ReplicaStep
<1>1. Stocked' /\ StockKept /\ ReplicaStep
  <2>1. CASE SetTag
    <3>1. /\ UNCHANGED <<P, B, backup, token, onto, blocked, approve, agreed>>
          /\ tag' = TRUE \/ tag' = tag
          /\ Others(B) = {} /\ backup # "absent"
      BY <2>1 DEF SetTag, primary, files, Staged, Arriving
    <3> QED
      BY <3>1, QuietStock, LinkedStock
  <2>2. CASE Consume
    <3>1. /\ UNCHANGED <<P, B, backup, token, onto, tag, blocked>> /\ approve' = NoPair /\ agreed' = {}
          /\ rpc = "consume" /\ rpc' = "report"
      BY <2>2 DEF Consume, Keep, primary, store
    <3> QED
      BY <3>1, ClearedStock
  <2>3. CASE PruneBackup
    <3>1. UNCHANGED <<P, B, backup, token, onto, tag, approve, agreed>> /\ blocked' = NoPair
      BY <2>3 DEF PruneBackup, primary, store
    <3> QED
      BY <3>1, ClearedStock
  <2>4. CASE MarkBackup
    <3>1. /\ UNCHANGED <<P, backup, token, onto, tag, blocked, approve, agreed>>
          /\ B' = B \/ B' = [B EXCEPT ![New].frozen = req.cons]
      BY <2>4 DEF MarkBackup, primary, files
    <3>2. req.cons \in BOOLEAN /\ Theirs # 0
      BY <2>4, FrameParts DEF MarkBackup, Staged, Confirmed, Following
    <3>3. P' = P /\ (B' = B \/ \E yes \in BOOLEAN : B' = [B EXCEPT ![New].frozen = yes])
      BY <3>1, <3>2
    <3> QED
      BY <3>1, <3>2, <3>3, QuietStock, MarkedStock
  <2>5. CASE ChooseBase
    <3>1. /\ UNCHANGED <<P, B, backup, token, onto, tag, approve, agreed>> /\ rpc = "base"
          /\ \/ blocked' = blocked
             \/ Base \notin {0, Newest} /\ blocked' = <<Base, Newest>> /\ rpc' = "wait"
      BY <2>5 DEF ChooseBase, primary, store, Wait
    <3>2. req.snaps = Offer /\ Theirs \notin Guids(P)
      BY <3>1 DEF Staged, Offered, Planning
    <3> QED
      BY <3>1, <3>2, QuietStock, AskedStock
  <2>6. CASE \/ Hangup \/ CrashReceiver
             \/ ReceiveEnd /\ rpc' = "wait"
    <3>1. /\ UNCHANGED <<P, blocked, approve, agreed>>
          /\ \/ UNCHANGED <<B, backup, token, onto, tag>>
             \/ rpc = "data" /\ BrokenOff
      BY <2>6 DEF Hangup, CrashReceiver, ReceiveEnd, primary, files, store, Talk, Requests, Streams
    <3>2. rpc = "data" => /\ Theirs = 0 /\ req.snap.guid \in Ahead
                          /\ todo # "inc" /\ req.snap.guid = Mine => Topped
      BY DEF Staged, Arriving
    <3>3. ASSUME rpc = "data", todo = "inc", Newest = req.base PROVE Topped
      BY <3>3, ToppedByNewest DEF Staged, Promised, Grants
    <3> QED
      BY <3>1, <3>2, <3>3, QuietStock, BrokenStock
  <2>7. CASE RotateBackup /\ rpc' = "wait"
    <3>1. rpc \in RotateStages \ {"prune"} => NextStage[rpc] # "wait"
      BY DEF NextStage, RotateStages
    <3>2. UNCHANGED <<P, B, backup, token, onto, tag, blocked, approve, agreed>>
      BY <2>7, <3>1 DEF RotateBackup, Keep, primary, files
    <3> QED
      BY <3>2, QuietStock
  <2>8. CASE \/ ReadConf \/ ReadFrame \/ (PlanBackup /\ ExistsWorks) \/ Report \/ StoreConfBackup
             \/ DropNew /\ B' = B
             \/ ReceiveStart
             \/ Drop
    <3>1. UNCHANGED <<P, B, backup, token, onto, tag, blocked, approve, agreed>>
      BY <2>8 DEF ReadConf, ReadFrame, PlanBackup, Report, StoreConfBackup, DropNew, ReceiveStart, Drop,
                  primary, files, store
    <3> QED
      BY <3>1, QuietStock
  <2> QED
    BY <2>1, <2>2, <2>3, <2>4, <2>5, <2>6, <2>7, <2>8 DEF ReceiverQuiet
<1> QED
  BY <1>1, ReceiverStaged

\* What happens outside of the two services and the connection.
LEMMA OutsideBase ==
    ASSUME TypeOK, Talk, Turns, Stocked, Staged, Write \/ ChangeConf \/ Approve \/ UNCHANGED vars
    PROVE  Stocked' /\ Staged' /\ ReplicaStep
<1>1. UNCHANGED <<pc, plan, rpc, req, todo, ask, answer>>
  BY DEF Write, ChangeConf, Approve, sender, receiver, conn, vars
<1>2. Stocked' /\ StockKept /\ ReplicaStep
  <2>1. CASE Approve
    BY <2>1, ApprovedStock
  <2>2. CASE Write \/ ChangeConf \/ UNCHANGED vars
    <3>1. UNCHANGED <<P, B, backup, token, onto, tag, blocked, approve, agreed>>
      BY <2>2 DEF Write, ChangeConf, store, files, vars
    <3> QED
      BY <3>1, QuietStock
  <2> QED
    BY <2>1, <2>2
<1>3. /\ UNCHANGED <<Mine, Theirs, MyBase, TheirBase, Offer, Guids(P), Guids(B), Others(P), Others(B)>>
      /\ token # 0 => token' # 0
      /\ backup # "absent" => backup' # "absent"
      /\ (Kept => Kept') /\ (Topped => Topped')
      /\ rpc # "base" /\ Unasked => Unasked'
      /\ rpc' = "recv" \/ rpc \notin {"base", "consume"} => Grants \subseteq Grants'
      /\ Ahead \subseteq Ahead' /\ Leading \subseteq Leading'
  BY <1>2 DEF StockKept
<1>4. Offered' /\ Promised' /\ Sending' /\ Arriving'
  BY <1>1, <1>3 DEF Staged, Offered, Promised, Sending, Arriving, Planning
<1>5. Confirmed' /\ Recovering'
  BY <1>1, <1>3, FrameKinds DEF Staged, Confirmed, Recovering, Following, Planning, RotateStages,
                                Turns, BackupTurn, PrimaryTurn
<1> QED
  BY <1>2, <1>4, <1>5 DEF Staged

\* Every step of the primary.
LEMMA SenderBase ==
    ASSUME TypeOK, TypeOK', Talk, Turns, Stocked, Staged, CycleRemote
    PROVE  Stocked' /\ Staged' /\ ReplicaStep
<1>1. CASE SenderQuiet
  BY <1>1, SenderQuietBase
<1>2. CASE DropStale
  BY <1>1, <1>2, DiscardBase DEF DropStale, SenderQuiet
<1>3. CASE TakeSnapshot
  <2>1. \/ pc' = "stream"
        \/ P' = Destroyed(P, New) /\ UNCHANGED sender
        \/ Return /\ P' = P
    BY <1>3 DEF TakeSnapshot
  <2> QED
    BY <1>1, <1>3, <2>1, TakeBase, DiscardBase DEF SenderQuiet
<1>4. CASE RotatePrimary
  <2>1. /\ pc \in RotateStages \ {"prune"} /\ UNCHANGED <<store, files, receiver>>
        /\ \/ P' = Rotated(P, pc, KeepOnPrimary, 0) /\ Goto(NextStage[pc]) /\ UNCHANGED conn
           \/ Return /\ P' = P
    BY <1>4 DEF RotatePrimary
  <2> QED
    BY <1>1, <1>4, <2>1, RotatePrimaryBase DEF SenderQuiet
<1>5. CASE Fail
  <2>1. Return /\ (P' = Destroyed(P, New) \/ P' = P)
    BY <1>5 DEF Fail
  <2> QED
    BY <1>1, <1>5, <2>1, DiscardBase DEF SenderQuiet
<1> QED
  BY <1>1, <1>2, <1>3, <1>4, <1>5 DEF CycleRemote, SenderQuiet

\* Every step of the backup.
LEMMA ReceiverBase ==
    ASSUME TypeOK, TypeOK', Talk, Turns, Stocked, Staged, Handle, ExistsWorks
    PROVE  Stocked' /\ Staged' /\ ReplicaStep
<1>1. CASE ReceiverQuiet
  BY <1>1, ReceiverQuietBase
<1>2. CASE DropNew
  BY <1>1, <1>2, DropNewBase DEF DropNew, ReceiverQuiet
<1>3. CASE ReceiveEnd
  BY <1>1, <1>3, ReceiveBase DEF ReceiverQuiet
<1>4. CASE RotateBackup
  <2>1. /\ rpc \in RotateStages \ {"prune"} /\ UNCHANGED <<primary, backup, token, onto, tag, files, sender>>
        /\ \/ B' = Rotated(B, rpc, TRUE, 0) /\ Keep(NextStage[rpc]) /\ UNCHANGED conn
           \/ rpc' = "wait"
    BY <1>4 DEF RotateBackup, Wait
  <2> QED
    BY <1>1, <1>4, <2>1, RotateBackupBase DEF ReceiverQuiet
<1> QED
  BY <1>1, <1>2, <1>3, <1>4 DEF Handle, ReceiverQuiet

\* Every step keeps the base and is a step of the replica, or none of its business.
LEMMA BaseStep ==
    TypeOK /\ TypeOK' /\ Talk /\ BaseInv /\ [Next /\ ExistsWorks]_vars => BaseInv' /\ ReplicaStep
<1> SUFFICES ASSUME TypeOK, TypeOK', Talk, Turns, Stocked, Staged, [Next /\ ExistsWorks]_vars
             PROVE  Stocked' /\ Staged' /\ ReplicaStep
  BY TurnsStep DEF BaseInv
<1>1. CASE CycleRemote
  BY <1>1, SenderBase
<1>2. CASE Handle /\ ExistsWorks
  BY <1>2, ReceiverBase
<1>3. CASE Drop \/ CrashReceiver
  BY <1>3, ReceiverQuietBase DEF ReceiverQuiet
<1>4. CASE CrashSender
  BY <1>4, SenderQuietBase DEF SenderQuiet
<1>5. ASSUME NEW s \in {N0, N1}, Rollback(s) PROVE Stocked' /\ Staged' /\ ReplicaStep
  BY <1>5, RollbackBase
<1>6. CASE Write \/ ChangeConf \/ Approve \/ UNCHANGED vars
  BY <1>6, OutsideBase
<1> QED
  BY <1>1, <1>2, <1>3, <1>4, <1>5, <1>6 DEF Next

\* Nothing is there, and nothing is promised, before the first exchange.
LEMMA BaseInit == Init => BaseInv /\ R!Init
<1> SUFFICES ASSUME Init PROVE BaseInv /\ R!Init
  OBVIOUS
<1>1. /\ P = Empty /\ B = Empty /\ Empty \in Listing
      /\ New \in Slots /\ N0 \in Slots /\ NoSnap.guid = 0
  BY SlotFacts DEF Init
<1>2. \A s \in Slots : Empty[s] = NoSnap
  BY DEF Empty
<1>3. Guids(Empty) = {} /\ Others(Empty) = {}
  <2>1. Guids(Empty) = {}
    BY <1>2, SlotFacts DEF Guids
  <2> QED
    BY <1>1, <2>1, OthersFacts
<1>4. Mine = 0 /\ Theirs = 0 /\ Guids(P) = {} /\ Guids(B) = {} /\ Others(P) = {} /\ Others(B) = {}
  BY <1>1, <1>2, <1>3 DEF Mine, Theirs
<1>5. Turns
  BY FrameKinds DEF Init, Turns, BackupTurn, PrimaryTurn, Planning, Following, RotateStages, Streams
<1>6. Based /\ Placed /\ Partial
  BY <1>1, <1>2, <1>4 DEF Init, Based, Placed, Partial
<1>7. Asking
  BY <1>4 DEF Init, Asking, Settled, NoPair
<1>8. Staged
  <2>1. NoMsg.kind = "none"
    BY FrameKinds
  <2> QED
    BY <2>1 DEF Init, Staged, Offered, Promised, Sending, Arriving, Confirmed, Recovering,
                Planning, Following, RotateStages
<1>9. R!Init
  BY <1>4 DEF Init, R!Init, Others, Destroyed, Theirs
<1> QED
  BY <1>5, <1>6, <1>7, <1>8, <1>9 DEF BaseInv, Stocked

\* The invariant of the pair, as long as planBackup sees the backup.
LEMMA BaseInvariant == SeeingSpec => [](TypeOK /\ Talk /\ BaseInv)
<1>1. [Next /\ ExistsWorks]_vars => [Next]_vars
  OBVIOUS
<1> QED
  BY <1>1, BaseInit, BaseStep, ExchangeInStep, PTL DEF SeeingSpec, Spec

\* Each host knows its own snapshots and the frames it gets, a frame may be lost or come late,
\* any command may fail and either service may go down between two of them; what the two do
\* together is the abstract replica (planBackup, cycleRemote), unless zfsExists takes a command
\* that failed for a backup that is not there.
THEOREM PairImplementsReplica == SeeingSpec => ImplementsReplica
<1>1. TypeOK /\ TypeOK' /\ Talk /\ BaseInv /\ [Next /\ ExistsWorks]_vars => [R!Next]_R!vars
  BY BaseStep DEF ReplicaStep
<1>2. Init => R!Init
  BY BaseInit
<1> QED
  BY <1>1, <1>2, BaseInvariant, PTL DEF SeeingSpec, ImplementsReplica, R!Spec

============================================================================

-------------------------- MODULE ZfsCycleProofs --------------------------
(* Theorems about the local replication cycle, for every clock, every number of *)
(* snapshots, failures, crashes and rollbacks.                                  *)
EXTENDS ZfsCycle, ZfsStoreProofs

\* TypeOK in two parts: the datasets, and the rest.
StoreType == snaps \in [Datasets -> Listing]

RestType ==
    /\ data \in 0..MaxWrites
    /\ backup \in {"absent", "partial", "ready"}
    /\ token \in 0..MaxGuid /\ tag \in BOOLEAN
    /\ blocked \in Pairs /\ approve \in Pairs
    /\ pc \in Stages /\ on \in Datasets /\ recovering \in BOOLEAN
    /\ cons \in BOOLEAN /\ tried \in 0..(MaxHour + 1)
    /\ hour \in Hours
    /\ writes \in 0..MaxWrites /\ faults \in 0..MaxFaults
    /\ crashes \in 0..MaxCrashes /\ rollbacks \in 0..MaxRollbacks
    /\ agreed \subseteq 0..MaxGuid

\* The parts are the type invariant, and what everybody needs to know of it.
LEMMA TypeParts ==
    /\ TypeOK <=> StoreType /\ RestType
    /\ StoreType => P \in Listing /\ B \in Listing
  BY DEF TypeOK, StoreType, RestType, P, B, Datasets

\* The GUIDs that matter to a new one are numbers below the bound.
LEMMA NamedGuids ==
    ASSUME StoreType, RestType
    PROVE  Guids(P) \cup Guids(B) \cup {token, blocked[1], blocked[2], approve[1], approve[2]}
               \in SUBSET (0..MaxGuid)
<1>1. Guids(P) \subseteq 1..MaxGuid /\ Guids(B) \subseteq 1..MaxGuid
  BY TypeParts, GuidsFacts
<1> QED
  BY <1>1, ZfsStoreBounds DEF RestType, Pairs

\* The base and the newest snapshot of the backup, when there are any.
LEMMA BaseFacts ==
    ASSUME StoreType
    PROVE  /\ Base \in 0..MaxGuid /\ Newest \in 0..MaxGuid
           /\ Base # 0 => Base \in Guids(B) /\ Base \in Guids(P)
           /\ Guids(B) # {} => Newest \in Guids(B)
           /\ \A g \in Guids(B) : g <= Newest
           /\ \A g \in Guids(P) \cap Guids(B) : g # P[New].guid => g <= Base
<1> DEFINE both == (Guids(P) \ {P[New].guid}) \cap Guids(B)
<1>1. Guids(P) \subseteq 1..MaxGuid /\ Guids(B) \subseteq 1..MaxGuid
  BY TypeParts, GuidsFacts
<1>2. both \in SUBSET (0..MaxGuid) /\ Guids(B) \in SUBSET (0..MaxGuid)
  BY <1>1, ZfsStoreBounds
<1>3. /\ Newest \in 0..MaxGuid
      /\ Guids(B) # {} => Newest \in Guids(B)
      /\ \A g \in Guids(B) : g <= Newest
  BY <1>2, MaxOfIsMax DEF Newest
<1>4. Base = MaxOf(both)
  BY DEF Base
<1>5. Base \in 0..MaxGuid /\ (both # {} => Base \in both) /\ \A g \in both : g <= Base
  BY <1>2, <1>4, MaxOfIsMax
<1>6. both = {} => Base = 0
  BY <1>4 DEF MaxOf
<1> QED
  BY <1>3, <1>5, <1>6

\* A snapshot or a listing is put into a dataset.
LEMMA PutType ==
    ASSUME StoreType, NEW d \in Datasets
    PROVE  /\ \A s \in Slots, x \in Snapshot : Put(d, s, x) \in [Datasets -> Listing]
           /\ \A l \in Listing : [snaps EXCEPT ![d] = l] \in [Datasets -> Listing]
<1>1. ASSUME NEW s \in Slots, NEW x \in Snapshot PROVE Put(d, s, x) \in [Datasets -> Listing]
  <2>1. [snaps[d] EXCEPT ![s] = x] \in Listing
    BY PutListing DEF StoreType
  <2>2. Put(d, s, x) = [snaps EXCEPT ![d] = [snaps[d] EXCEPT ![s] = x]]
    BY DEF Put
  <2> QED
    BY <2>1, <2>2 DEF StoreType
<1> QED
  BY <1>1 DEF StoreType

\* cs:consistent is set on the new snapshot of a dataset.
LEMMA MarkType ==
    ASSUME StoreType, RestType, NEW d \in Datasets, NEW next, MarkOn(d, next)
    PROVE  StoreType'
<1>1. [snaps[d] EXCEPT ![New].frozen = cons] \in Listing
  BY FrozenListing, SlotFacts DEF StoreType, RestType
<1>2. \/ snaps' = [snaps EXCEPT ![d] = [snaps[d] EXCEPT ![New].frozen = cons]]
      \/ UNCHANGED snaps
  BY DEF MarkOn
<1> QED
  BY <1>1, <1>2, PutType DEF StoreType

\* The snapshot that takeSnapshot makes.
LEMMA TakenType ==
    ASSUME StoreType, RestType, NextGuid <= MaxGuid
    PROVE  /\ [guid |-> NextGuid, created |-> hour, data |-> data, frozen |-> FALSE] \in Snapshot
           /\ NextGuid \in 1..MaxGuid
           /\ \A g \in Guids(P) \cup Guids(B)
                        \cup {token, blocked[1], blocked[2], approve[1], approve[2]} : g < NextGuid
<1> DEFINE names == Guids(P) \cup Guids(B) \cup {token, blocked[1], blocked[2], approve[1], approve[2]}
<1>1. names \in SUBSET (0..MaxGuid)
  BY NamedGuids
<1>2. NextGuid = 1 + MaxOf(names)
  BY DEF NextGuid
<1> HIDE DEF names
<1>3. MaxOf(names) \in 0..MaxGuid /\ \A g \in names : g <= MaxOf(names)
  BY <1>1, MaxOfIsMax
<1>4. NextGuid \in 1..MaxGuid /\ \A g \in names : g \in Int /\ g < NextGuid
  BY <1>1, <1>2, <1>3, ZfsStoreBounds
<1>5. [guid |-> NextGuid, created |-> hour, data |-> data, frozen |-> FALSE] \in Snapshot
  BY <1>4 DEF Snapshot, RestType
<1> QED
  BY <1>4, <1>5 DEF names

\* Every command leaves two listings.
LEMMA StoreStep == TypeOK /\ [Next]_vars => StoreType'
<1> SUFFICES ASSUME StoreType, RestType, [Next]_vars PROVE StoreType'
  BY TypeParts
<1>1. /\ "primary" \in Datasets /\ "backup" \in Datasets /\ P \in Listing /\ B \in Listing
      /\ New \in Slots /\ N0 \in Slots /\ NoSnap \in Snapshot
      /\ P[New] \in Snapshot
  BY TypeParts, SlotFacts DEF Datasets, Listing
<1>2. ASSUME UNCHANGED snaps PROVE StoreType'
  BY <1>2 DEF StoreType
<1>3. ASSUME NEW d \in Datasets, NEW s \in Slots, NEW x \in Snapshot, snaps' = Put(d, s, x) PROVE StoreType'
  BY <1>3, PutType DEF StoreType
<1>4. ASSUME NEW d \in Datasets, NEW l \in Listing, snaps' = [snaps EXCEPT ![d] = l] PROVE StoreType'
  BY <1>4, PutType DEF StoreType
<1>5. ASSUME NEW base \in 0..MaxGuid PROVE RolledBack(B, base) \in Listing /\ RolledBack(P, base) \in Listing
  BY <1>1, RolledBackListing
<1>6. Base \in 0..MaxGuid
  BY BaseFacts
<1>7. ASSUME IncrBroken \/ FullBroken PROVE StoreType'
  BY <1>1, <1>2, <1>4, <1>5, <1>6, <1>7 DEF IncrBroken, FullBroken, store
<1>8. CASE RecoverCycle \/ Check \/ SetTag \/ Resume \/ Decide \/ Consume \/ Write \/ Approve \/ Tick
  BY <1>2, <1>8 DEF RecoverCycle, Check, SetTag, Resume, Decide, Consume, Write, Approve, Tick, store
<1>9. CASE DropBackup \/ DropPrimary \/ Fail
  BY <1>1, <1>2, <1>3, <1>9 DEF DropBackup, DropPrimary, Drop, Fail
<1>10. CASE TakeSnapshot
  <2>1. \/ snaps' = Put("primary", New, [guid |-> NextGuid, created |-> hour, data |-> data, frozen |-> FALSE])
        \/ snaps' = Put("primary", New, NoSnap)
        \/ UNCHANGED snaps
    BY <1>10 DEF TakeSnapshot
  <2>2. NextGuid <= MaxGuid
    BY <1>10 DEF TakeSnapshot
  <2> QED
    BY <1>1, <1>2, <1>3, <2>1, <2>2, TakenType
<1>11. CASE FullSend
  BY <1>1, <1>3, <1>7, <1>11 DEF FullSend
<1>12. CASE IncrSend
  <2>1. [RolledBack(B, Base) EXCEPT ![New] = P[New]] \in Listing
    BY <1>1, <1>5, <1>6, PutListing
  <2>2. \/ snaps' = [snaps EXCEPT !["backup"] = [RolledBack(B, Base) EXCEPT ![New] = P[New]]]
        \/ UNCHANGED snaps
        \/ IncrBroken
    BY <1>12 DEF IncrSend, store
  <2> QED
    BY <2>1, <2>2, <1>1, <1>2, <1>4, <1>7
<1>13. CASE Confirm \/ Mark
  BY <1>1, <1>2, <1>13, MarkType DEF Confirm, Mark, store
<1>14. CASE RotateStep \/ Prune
  <2>1. pc \in RotateStages /\ (snaps' = [snaps EXCEPT ![on] = Rotation] \/ UNCHANGED snaps)
    BY <1>14 DEF RotateStep, Prune, RotateStages
  <2>2. on \in Datasets /\ snaps[on] \in Listing
    BY DEF RestType, StoreType
  <2>3. Rotation \in Listing
    BY <2>1, <2>2, RotatedListing DEF Rotation
  <2> QED
    BY <2>1, <2>2, <2>3, <1>2, <1>4
<1>15. CASE Crash
  BY <1>2, <1>7, <1>15 DEF Crash, store
<1>16. ASSUME NEW s \in {N0, N1}, Rollback(s) PROVE StoreType'
  <2>1. P[s].guid \in 0..MaxGuid
    BY <1>1, SlotFacts, GuidsFacts
  <2> QED
    BY <2>1, <1>1, <1>4, <1>5, <1>16 DEF Rollback
<1>17. CASE UNCHANGED vars
  BY <1>2, <1>17 DEF vars
<1> QED
  BY <1>8, <1>9, <1>10, <1>11, <1>12, <1>13, <1>14, <1>15, <1>16, <1>17 DEF Next, Cycle

\* What the process keeps has its type after every step; a Boolean that is only
\* passed on or chosen is kept apart, for the provers.
LEMMA FlagsStep ==
    TypeOK /\ [Next]_vars => tag' \in BOOLEAN /\ recovering' \in BOOLEAN /\ cons' \in BOOLEAN
<1> SUFFICES ASSUME tag \in BOOLEAN, recovering \in BOOLEAN, cons \in BOOLEAN, [Next]_vars
             PROVE  tag' \in BOOLEAN /\ recovering' \in BOOLEAN /\ cons' \in BOOLEAN
  BY DEF TypeOK
<1> DEFINE Flags == tag' \in BOOLEAN /\ recovering' \in BOOLEAN /\ cons' \in BOOLEAN
<1>1. ASSUME UNCHANGED tag, NEW stage, Goto(stage) PROVE Flags
  BY <1>1, Zenon DEF Goto
<1>2. ASSUME UNCHANGED tag, Return PROVE Flags
  BY <1>2, Zenon DEF Return
<1>3. ASSUME UNCHANGED tag, NEW d, NEW rec \in BOOLEAN, Rotate(d, rec) PROVE Flags
  BY <1>3, Zenon DEF Rotate
<1>4. ASSUME UNCHANGED tag, NEW stage, NEW d, stage = pc', d = on', recovering' = FALSE, cons' = FALSE
      PROVE  Flags
  BY <1>4, Zenon
<1> HIDE DEF Flags
<1>5. CASE RecoverCycle
  <2>1. UNCHANGED tag
    BY <1>5 DEF RecoverCycle, store
  <2>2. Goto(DropStage) \/ Goto("dropBackup") \/ Rotate("primary", TRUE) \/ Rotate("backup", TRUE)
    BY <1>5, Zenon DEF RecoverCycle
  <2>3. TRUE \in BOOLEAN
    OBVIOUS
  <2> QED
    BY <2>1, <2>2, <2>3, <1>1, <1>3, Zenon DEF Flags
<1>6. CASE DropBackup \/ DropPrimary
  <2>1. UNCHANGED tag
    BY <1>6 DEF DropBackup, DropPrimary, Drop
  <2>2. Goto(DropStage) \/ Goto("check") \/ Return
    BY <1>6, Zenon DEF DropBackup, DropPrimary, Drop
  <2> QED
    BY <2>1, <2>2, <1>1, <1>2, Zenon DEF Flags
<1>7. CASE Check \/ Fail
  <2>1. UNCHANGED tag
    BY <1>7 DEF Check, Fail, store
  <2>2. Goto("snap") \/ Return
    BY <1>7, Zenon DEF Check, Fail
  <2> QED
    BY <2>1, <2>2, <1>1, <1>2, Zenon DEF Flags
<1>8. CASE TakeSnapshot
  <2>1. UNCHANGED tag
    BY <1>8 DEF TakeSnapshot
  <2>2. recovering' \in BOOLEAN
    BY <1>8, Zenon DEF TakeSnapshot
  <2>3. cons' \in BOOLEAN
    <3>1. \/ cons' \in IF Freeze /\ tried # Day(hour) THEN BOOLEAN ELSE {FALSE}
          \/ UNCHANGED cons
          \/ cons' = FALSE
      BY <1>8, Zenon DEF TakeSnapshot
    <3>2. (IF Freeze /\ tried # Day(hour) THEN BOOLEAN ELSE {FALSE}) \subseteq BOOLEAN
      OBVIOUS
    <3> QED
      BY <3>1, <3>2, Zenon
  <2> QED
    BY <2>1, <2>2, <2>3, Zenon DEF Flags
<1>9. CASE FullSend \/ Resume \/ Decide \/ IncrSend \/ Consume
  <2>1. UNCHANGED tag
    BY <1>9 DEF FullSend, FullBroken, Resume, Decide, IncrSend, IncrBroken, Consume, store
  <2>2. \E stage : Goto(stage)
    BY <1>9, Zenon DEF FullSend, Resume, Decide, IncrSend, Consume
  <2> QED
    BY <2>1, <2>2, <1>1, Zenon DEF Flags
<1>10. CASE SetTag
  <2>1. tag' \in BOOLEAN
    BY <1>10, Zenon DEF SetTag
  <2>2. UNCHANGED <<recovering, cons>>
    BY <1>10 DEF SetTag, Goto
  <2> QED
    BY <2>1, <2>2, Zenon DEF Flags
<1>11. CASE Confirm \/ Mark
  <2>1. UNCHANGED tag
    BY <1>11 DEF Confirm, Mark, MarkOn, store
  <2>2. Goto("mark") \/ Goto("fail") \/ Rotate("primary", FALSE)
    BY <1>11, Zenon DEF Confirm, Mark, MarkOn
  <2>3. FALSE \in BOOLEAN
    OBVIOUS
  <2> QED
    BY <2>1, <2>2, <2>3, <1>1, <1>3, Zenon DEF Flags
<1>12. CASE RotateStep
  <2>1. UNCHANGED tag
    BY <1>12 DEF RotateStep
  <2>2. Goto(NextStage[pc]) \/ Return
    BY <1>12, Zenon DEF RotateStep
  <2> QED
    BY <2>1, <2>2, <1>1, <1>2, Zenon DEF Flags
<1>13. CASE Prune
  <2>1. UNCHANGED tag
    BY <1>13 DEF Prune
  <2>2. Rotate("backup", recovering) \/ Return \/ (recovering' = FALSE /\ UNCHANGED cons)
    BY <1>13, Zenon DEF Prune
  <2>3. FALSE \in BOOLEAN
    OBVIOUS
  <2> QED
    BY <2>1, <2>2, <2>3, <1>2, <1>3, Zenon DEF Flags
<1>14. CASE Crash
  <2>1. UNCHANGED tag
    BY <1>14 DEF Crash, FullBroken, IncrBroken, store
  <2> QED
    BY <1>4, <1>14, <2>1, Zenon DEF Crash
<1>15. ASSUME NEW s, Write \/ Rollback(s) \/ Approve \/ Tick \/ UNCHANGED vars PROVE Flags
  <2>1. UNCHANGED <<tag, recovering, cons>>
    BY <1>15 DEF Write, Rollback, Approve, Tick, store, process, vars
  <2> QED
    BY <2>1, Zenon DEF Flags
<1>16. Flags
  BY <1>5, <1>6, <1>7, <1>8, <1>9, <1>10, <1>11, <1>12, <1>13, <1>14, <1>15 DEF Next, Cycle, Flags
<1> QED
  BY <1>16 DEF Flags

\* The control of the process, the clock and the counters.
LEMMA ProcessStep ==
    ASSUME TypeOK, [Next]_vars
    PROVE  /\ pc' \in Stages /\ on' \in Datasets /\ tried' \in 0..(MaxHour + 1) /\ hour' \in Hours
           /\ writes' \in 0..MaxWrites /\ faults' \in 0..MaxFaults
           /\ crashes' \in 0..MaxCrashes /\ rollbacks' \in 0..MaxRollbacks
<1>1. pc \in Stages /\ on \in Datasets /\ "primary" \in Datasets /\ "backup" \in Datasets
  BY DEF TypeOK, Datasets
<1>2. pc' \in Stages /\ on' \in Datasets
  <2>1. ASSUME NEW stage \in Stages, Goto(stage) PROVE pc' \in Stages /\ on' \in Datasets
    BY <1>1, <2>1 DEF Goto
  <2>2. ASSUME Return PROVE pc' \in Stages /\ on' \in Datasets
    BY <1>1, <2>2 DEF Return, Stages
  <2>3. ASSUME NEW d \in Datasets, NEW rec, Rotate(d, rec) PROVE pc' \in Stages /\ on' \in Datasets
    BY <1>1, <2>3 DEF Rotate, Stages, RotateStages
  <2>4. /\ {"idle", "dropBackup", "dropPrimary", "check", "snap", "full", "setTag", "resume",
            "decide", "incr", "consume", "confirm", "mark", "fail"} \subseteq Stages
        /\ DropStage \in Stages
    BY DEF Stages, DropStage
  <2>5. CASE RecoverCycle
    <3>1. Goto(DropStage) \/ Goto("dropBackup") \/ Rotate("primary", TRUE) \/ Rotate("backup", TRUE)
      BY <2>5, Zenon DEF RecoverCycle
    <3> QED
      BY <1>1, <2>1, <2>3, <2>4, <3>1
  <2>6. CASE DropBackup \/ DropPrimary \/ Check \/ Fail
    <3>1. Goto(DropStage) \/ Goto("check") \/ Goto("snap") \/ Return
      BY <2>6, Zenon DEF DropBackup, DropPrimary, Drop, Check, Fail
    <3> QED
      BY <2>1, <2>2, <2>4, <3>1
  <2>7. CASE TakeSnapshot
    BY <1>1, <2>4, <2>7 DEF TakeSnapshot
  <2>8. CASE FullSend \/ SetTag \/ Resume \/ Decide \/ IncrSend \/ Consume
    <3>1. \E stage \in {"setTag", "fail", "confirm", "decide", "incr", "consume"} : Goto(stage)
      BY <2>8 DEF FullSend, SetTag, Resume, Decide, IncrSend, Consume
    <3> QED
      BY <2>1, <2>4, <3>1
  <2>9. CASE Confirm \/ Mark
    <3>1. Goto("mark") \/ Goto("fail") \/ Rotate("primary", FALSE)
      BY <2>9, Zenon DEF Confirm, Mark, MarkOn
    <3> QED
      BY <1>1, <2>1, <2>3, <2>4, <3>1
  <2>10. CASE RotateStep
    <3>1. NextStage[pc] \in Stages
      BY <2>10 DEF RotateStep, RotateStages, NextStage, Stages
    <3>2. Goto(NextStage[pc]) \/ Return
      BY <2>10, Zenon DEF RotateStep
    <3> QED
      BY <2>1, <2>2, <3>1, <3>2
  <2>11. CASE Prune
    <3>1. Rotate("backup", recovering) \/ Return \/ (pc' = "check" /\ on' = "primary")
      BY <2>11, Zenon DEF Prune
    <3> QED
      BY <1>1, <2>2, <2>3, <2>4, <3>1
  <2>12. CASE Crash
    BY <1>1, <2>4, <2>12 DEF Crash
  <2>13. ASSUME NEW s, Write \/ Rollback(s) \/ Approve \/ Tick \/ UNCHANGED vars
         PROVE  pc' \in Stages /\ on' \in Datasets
    BY <1>1, <2>13 DEF Write, Rollback, Approve, Tick, process, vars
  <2> QED
    BY <2>5, <2>6, <2>7, <2>8, <2>9, <2>10, <2>11, <2>12, <2>13 DEF Next, Cycle
<1>3. tried' \in 0..(MaxHour + 1)
  <2>1. tried \in 0..(MaxHour + 1) /\ MaxHour + 1 \in 0..(MaxHour + 1) /\ Day(hour) \in 0..(MaxHour + 1)
    <3>1. hour \in Nat /\ hour <= MaxHour /\ MaxHour \in Nat
      BY ZfsStoreBounds DEF TypeOK, Hours
    <3>2. Day(hour) \in Nat /\ Day(hour) <= hour
      BY <3>1, DayType DEF TypeOK
    <3> QED
      BY <3>1, <3>2 DEF TypeOK
  <2>2. tried' \in {tried, Day(hour), MaxHour + 1}
    BY DEF Next, Cycle, RecoverCycle, DropBackup, DropPrimary, Drop, Check, TakeSnapshot, FullSend,
           SetTag, Resume, Decide, IncrSend, Consume, Confirm, Mark, MarkOn, Fail, RotateStep, Prune,
           Crash, Write, Rollback, Approve, Tick, Goto, Rotate, Return, process, vars
  <2> QED
    BY <2>1, <2>2
<1>4. /\ hour' = hour \/ (hour < MaxHour /\ hour' = hour + 1)
      /\ writes' = writes \/ (writes < MaxWrites /\ writes' = writes + 1)
      /\ crashes' = crashes \/ (crashes < MaxCrashes /\ crashes' = crashes + 1)
      /\ rollbacks' = rollbacks \/ (rollbacks < MaxRollbacks /\ rollbacks' = rollbacks + 1)
  <2>1. CASE Cycle
    BY <2>1 DEF Cycle, RecoverCycle, DropBackup, DropPrimary, Drop, Check, TakeSnapshot, FullSend,
           SetTag, Resume, Decide, IncrSend, Consume, Confirm, Mark, MarkOn, Fail, RotateStep, Prune, env
  <2>2. ASSUME NEW s, Crash \/ Write \/ Rollback(s) \/ Approve \/ Tick \/ UNCHANGED vars
        PROVE  <1>4!1 /\ <1>4!2 /\ <1>4!3 /\ <1>4!4
    BY <2>2 DEF Crash, Write, Rollback, Approve, Tick, env, vars
  <2> QED
    BY <2>1, <2>2 DEF Next
<1>5. faults' = faults \/ (faults < MaxFaults /\ faults' = faults + 1)
  BY DEF Next, Cycle, RecoverCycle, DropBackup, DropPrimary, Drop, Check, TakeSnapshot, FullSend,
         SetTag, Resume, Decide, IncrSend, Consume, Confirm, Mark, MarkOn, Fail, RotateStep, Prune,
         Crash, Write, Rollback, Approve, Tick, Fault, vars
<1> QED
  BY <1>2, <1>3, <1>4, <1>5, ZfsStoreBounds, ZfsBounds DEF TypeOK, Hours

\* The data, the state of the backup, and what the operator is asked.
LEMMA FilesStep ==
    ASSUME TypeOK, [Next]_vars
    PROVE  /\ data' \in 0..MaxWrites /\ backup' \in {"absent", "partial", "ready"}
           /\ token' \in 0..MaxGuid /\ blocked' \in Pairs /\ approve' \in Pairs
           /\ agreed' \subseteq 0..MaxGuid
<1>1. StoreType /\ RestType
  BY TypeParts
<1>2. P \in Listing /\ B \in Listing /\ New \in Slots /\ NoPair \in Pairs
  BY <1>1, TypeParts, SlotFacts, ZfsStoreBounds DEF NoPair, Pairs
<1>3. P[New].guid \in 0..MaxGuid /\ Guids(B) \subseteq 0..MaxGuid
  BY <1>2, GuidsFacts, ZfsStoreBounds
<1>4. Base \in 0..MaxGuid /\ Newest \in 0..MaxGuid
  BY <1>1, BaseFacts
<1>5. data' \in 0..MaxWrites
  <2>1. CASE Cycle
    BY <1>1, <2>1 DEF Cycle, RecoverCycle, DropBackup, DropPrimary, Drop, Check, TakeSnapshot, FullSend,
           SetTag, Resume, Decide, IncrSend, Consume, Confirm, Mark, MarkOn, Fail, RotateStep, Prune,
           RestType
  <2>2. ASSUME NEW s \in {N0, N1}, Rollback(s) PROVE data' \in 0..MaxWrites
    BY <1>2, <2>2, SlotFacts DEF Rollback, Listing, Snapshot
  <2>3. CASE Crash \/ Write \/ Approve \/ Tick \/ UNCHANGED vars
    BY <1>1, <2>3, ZfsStoreBounds DEF RestType, Crash, Write, Approve, Tick, vars
  <2> QED
    BY <2>1, <2>2, <2>3 DEF Next
<1>6. backup' \in {"absent", "partial", "ready"}
  BY <1>1 DEF Next, Cycle, RecoverCycle, DropBackup, DropPrimary, Drop, Check, TakeSnapshot, FullSend,
         FullBroken, SetTag, Resume, Decide, IncrSend, IncrBroken, Consume, Confirm, Mark, MarkOn, Fail,
         RotateStep, Prune, Crash, Write, Rollback, Approve, Tick, store, vars, RestType
<1>7. token' \in {token, 0, P[New].guid}
  BY DEF Next, Cycle, RecoverCycle, DropBackup, DropPrimary, Drop, Check, TakeSnapshot, FullSend,
         FullBroken, SetTag, Resume, Decide, IncrSend, IncrBroken, Consume, Confirm, Mark, MarkOn, Fail,
         RotateStep, Prune, Crash, Write, Rollback, Approve, Tick, store, vars
<1>8. blocked' \in {blocked, NoPair, <<Base, Newest>>}
  BY DEF Next, Cycle, RecoverCycle, DropBackup, DropPrimary, Drop, Check, TakeSnapshot, FullSend,
         SetTag, Resume, Decide, IncrSend, Consume, Confirm, Mark, MarkOn, Fail,
         RotateStep, Prune, Crash, Write, Rollback, Approve, Tick, files, vars
<1>9. approve' \in {approve, NoPair, blocked}
  BY DEF Next, Cycle, RecoverCycle, DropBackup, DropPrimary, Drop, Check, TakeSnapshot, FullSend,
         SetTag, Resume, Decide, IncrSend, Consume, Confirm, Mark, MarkOn, Fail,
         RotateStep, Prune, Crash, Write, Rollback, Approve, Tick, files, vars
<1>10. agreed' = agreed \/ agreed' \subseteq Guids(B)
  BY DEF Next, Cycle, RecoverCycle, DropBackup, DropPrimary, Drop, Check, TakeSnapshot, FullSend,
         SetTag, Resume, Decide, IncrSend, Consume, Confirm, Mark, MarkOn, Fail,
         RotateStep, Prune, Crash, Write, Rollback, Approve, Tick, vars
<1>11. <<Base, Newest>> \in Pairs
  BY <1>4 DEF Pairs
<1>12. token' \in 0..MaxGuid
  BY <1>1, <1>3, <1>7, ZfsStoreBounds DEF RestType
<1>13. blocked' \in Pairs /\ approve' \in Pairs
  BY <1>1, <1>2, <1>8, <1>9, <1>11 DEF RestType
<1>14. agreed' \subseteq 0..MaxGuid
  BY <1>1, <1>3, <1>10 DEF RestType
<1> QED
  BY <1>5, <1>6, <1>12, <1>13, <1>14

\* The types of the replication: in particular every listing is one, whatever command
\* failed or broke off, and the files of the approval hold pairs of GUIDs.
THEOREM CycleTypeCorrect == Spec => []TypeOK
<1>1. Init => TypeOK
  <2> SUFFICES ASSUME Init PROVE TypeOK
    OBVIOUS
  <2>1. snaps \in [Datasets -> Listing]
    BY SlotFacts DEF Init
  <2>2. {tag, recovering, cons} \subseteq BOOLEAN
    BY DEF Init
  <2> QED
    BY <2>1, <2>2, ZfsStoreBounds, ZfsBounds
       DEF Init, TypeOK, Hours, NoPair, Pairs, Stages, Datasets
<1>2. TypeOK /\ [Next]_vars => TypeOK'
  BY StoreStep, FlagsStep, ProcessStep, FilesStep DEF TypeOK, StoreType
<1> QED
  BY <1>1, <1>2, PTL DEF Spec

----------------------------------------------------------------------------
(* Rollbacks of the backup: the inductive invariant *)

Common == Guids(P) \cap Guids(B)
Loss == {g \in Guids(B) : g > Base}

\* A pair that was written to <id>.blocked: as long as the backup has its newer
\* snapshot, nothing newer than its base is common.
Settled(pair) ==
    /\ pair = NoPair \/ pair[1] < pair[2]
    /\ pair[2] \in Guids(B) => \A g \in Common : g <= pair[1]

\* The snapshot of this cycle is newer than everything that has a name.
Fresh ==
    pc \in {"full", "resume", "decide", "incr"} =>
        \A g \in Guids(B) \cup {blocked[1], blocked[2], approve[1], approve[2]} : g < P[New].guid

\* A backup without a finished receive has no snapshots.
Unfinished ==
    /\ backup # "ready" => Guids(B) = {}
    /\ pc = "full" => backup = "absent"

\* What the operator has agreed to covers the approved pair, and a pair that is
\* asked about later does not have a newer base.
Covered ==
    /\ \A g \in Guids(B) : approve[1] < g /\ g <= approve[2] => g \in agreed
    /\ approve[2] \in Guids(B) /\ blocked # NoPair => blocked[1] <= approve[1]

\* When the forced receive runs, its rollback is agreed to; an approval that comes
\* only now does not take that back.
Consented ==
    pc = "incr" =>
        /\ Base # 0
        /\ ~ RollbackAuto =>
              /\ Loss \subseteq agreed
              /\ blocked # NoPair /\ Loss # {} => blocked[1] <= Base

RollbackInv == Settled(blocked) /\ Settled(approve) /\ Fresh /\ Unfinished /\ Covered /\ Consented

\* A listing of one dataset is replaced by another one.
LEMMA SideGuids ==
    ASSUME StoreType, NEW d \in Datasets, NEW l, snaps' = [snaps EXCEPT ![d] = l]
    PROVE  /\ d = "primary" => P' = l /\ Guids(P)' = Guids(l) /\ B' = B /\ Guids(B)' = Guids(B)
           /\ d = "backup" => B' = l /\ Guids(B)' = Guids(l) /\ P' = P /\ Guids(P)' = Guids(P)
  BY DEF StoreType, P, B, Guids, Datasets

\* A command that brings no snapshot into a dataset.
Shrinks == Guids(P)' \subseteq Guids(P) /\ Guids(B)' \subseteq Guids(B)

\* A slot is emptied, or a listing is replaced by one without new snapshots.
LEMMA SideShrinks ==
    ASSUME StoreType, NEW d \in Datasets
    PROVE  /\ UNCHANGED snaps => Shrinks
           /\ snaps' = Put(d, New, NoSnap) => Shrinks
           /\ \A l : snaps' = [snaps EXCEPT ![d] = l] /\ Guids(l) \subseteq Guids(snaps[d]) => Shrinks
<1>1. UNCHANGED snaps => Shrinks
  BY DEF Shrinks, P, B, Guids
<1>2. ASSUME NEW l, snaps' = [snaps EXCEPT ![d] = l], Guids(l) \subseteq Guids(snaps[d]) PROVE Shrinks
  BY <1>2, SideGuids DEF Shrinks, Datasets, P, B
<1>3. ASSUME snaps' = Put(d, New, NoSnap) PROVE Shrinks
  <2>1. snaps' = [snaps EXCEPT ![d] = Destroyed(snaps[d], New)]
    BY <1>3 DEF Put, Destroyed
  <2>2. Guids(Destroyed(snaps[d], New)) \subseteq Guids(snaps[d])
    BY DestroyedListing, SlotFacts DEF StoreType
  <2> QED
    BY <1>2, <2>1, <2>2
<1> QED
  BY <1>1, <1>2, <1>3

\* A receive that breaks off brings nothing in.
LEMMA BrokenShrinks ==
    ASSUME StoreType, IncrBroken \/ FullBroken
    PROVE  Shrinks
<1>1. Base \in 0..MaxGuid /\ B \in Listing /\ "backup" \in Datasets
  BY BaseFacts, TypeParts DEF Datasets
<1>2. Guids(RolledBack(B, Base)) \subseteq Guids(snaps["backup"])
  BY <1>1, RolledBackListing DEF B
<1>3. UNCHANGED snaps \/ snaps' = [snaps EXCEPT !["backup"] = RolledBack(B, Base)]
  BY DEF IncrBroken, FullBroken, store
<1> QED
  BY <1>1, <1>2, <1>3, SideShrinks

\* Neither does any other command, except takeSnapshot and the two sends, nor the operator.
LEMMA OthersShrink ==
    ASSUME TypeOK, [Next]_vars,
           ~ (TakeSnapshot /\ snaps' # Put("primary", New, NoSnap) /\ snaps' # snaps),
           ~ (FullSend /\ pc' = "setTag"), ~ (IncrSend /\ pc' = "consume")
    PROVE  Shrinks
<1>1. StoreType /\ RestType
  BY TypeParts
<1>2. "primary" \in Datasets /\ "backup" \in Datasets /\ on \in Datasets
  BY <1>1 DEF Datasets, RestType
<1>3. UNCHANGED snaps => Shrinks
  BY <1>1, <1>2, SideShrinks
<1>4. ASSUME NEW d \in Datasets, snaps' = Put(d, New, NoSnap) PROVE Shrinks
  BY <1>1, <1>4, SideShrinks
<1>5. CASE RecoverCycle \/ Check \/ SetTag \/ Resume \/ Decide \/ Consume \/ Write \/ Approve \/ Tick
  BY <1>3, <1>5 DEF RecoverCycle, Check, SetTag, Resume, Decide, Consume, Write, Approve, Tick, store
<1>6. CASE DropBackup \/ DropPrimary \/ Fail
  BY <1>2, <1>3, <1>4, <1>6 DEF DropBackup, DropPrimary, Drop, Fail
<1>7. CASE TakeSnapshot
  BY <1>2, <1>3, <1>4, <1>7
<1>8. CASE FullSend \/ IncrSend
  <2>1. UNCHANGED snaps \/ FullBroken \/ IncrBroken
    BY <1>8 DEF FullSend, IncrSend, Goto, store
  <2> QED
    BY <1>1, <1>3, <2>1, BrokenShrinks
<1>9. ASSUME NEW d \in Datasets, NEW next, MarkOn(d, next) PROVE Shrinks
  <2>1. /\ [snaps[d] EXCEPT ![New].frozen = cons] \in Listing
        /\ Guids([snaps[d] EXCEPT ![New].frozen = cons]) = Guids(snaps[d])
    BY <1>1, FrozenListing, SlotFacts DEF StoreType, RestType
  <2>2. \/ snaps' = [snaps EXCEPT ![d] = [snaps[d] EXCEPT ![New].frozen = cons]]
        \/ UNCHANGED snaps
    BY <1>9 DEF MarkOn
  <2> QED
    BY <1>1, <2>1, <2>2, SideShrinks
<1>10. CASE Confirm \/ Mark
  BY <1>2, <1>3, <1>9, <1>10 DEF Confirm, Mark, store
<1>11. CASE RotateStep \/ Prune
  <2>1. pc \in RotateStages /\ (snaps' = [snaps EXCEPT ![on] = Rotation] \/ UNCHANGED snaps)
    BY <1>11 DEF RotateStep, Prune, RotateStages
  <2>2. Guids(Rotation) \subseteq Guids(snaps[on])
    BY <1>1, <1>2, <2>1, RotatedListing DEF Rotation, StoreType
  <2> QED
    BY <1>1, <1>2, <2>1, <2>2, SideShrinks
<1>12. CASE Crash
  BY <1>1, <1>3, <1>12, BrokenShrinks DEF Crash, store
<1>13. ASSUME NEW s \in {N0, N1}, Rollback(s) PROVE Shrinks
  <2>1. P[s].guid \in 0..MaxGuid /\ P \in Listing
    BY <1>1, TypeParts, SlotFacts, GuidsFacts
  <2>2. Guids(RolledBack(P, P[s].guid)) \subseteq Guids(snaps["primary"])
    BY <2>1, RolledBackListing DEF P
  <2>3. snaps' = [snaps EXCEPT !["primary"] = RolledBack(P, P[s].guid)]
    BY <1>13 DEF Rollback
  <2> QED
    BY <1>1, <1>2, <2>2, <2>3, SideShrinks
<1>14. CASE UNCHANGED vars
  BY <1>3, <1>14 DEF vars
<1> QED
  BY <1>5, <1>6, <1>7, <1>8, <1>10, <1>11, <1>12, <1>13, <1>14 DEF Next, Cycle

\* A step that brings no snapshot in, asks nothing, approves nothing and does not get
\* to a send keeps the invariant.
LEMMA QuietStep ==
    ASSUME StoreType, RestType, RollbackInv, Shrinks,
           blocked' \in {blocked, NoPair},
           approve' = NoPair \/ UNCHANGED <<approve, agreed>>,
           pc' \notin {"full", "resume", "decide", "incr"},
           backup' = backup \/ backup' = "ready" \/ Guids(B) = {}
    PROVE  RollbackInv'
<1>1. Guids(P)' \subseteq Guids(P) /\ Guids(B)' \subseteq Guids(B) /\ Common' \subseteq Common
  BY DEF Shrinks, Common
<1>2. /\ Guids(B)' \subseteq 1..MaxGuid /\ 0 \notin Guids(B)'
      /\ NoPair[1] = 0 /\ NoPair[2] = 0
  BY <1>1, TypeParts, GuidsFacts DEF NoPair
<1>3. Settled(blocked)'
  BY <1>1, <1>2 DEF Settled, RollbackInv, NoPair
<1>4. Settled(approve)'
  BY <1>1, <1>2 DEF Settled, RollbackInv, NoPair
<1>5. Fresh' /\ Consented'
  BY DEF Fresh, Consented
<1>6. Unfinished'
  BY <1>1 DEF Unfinished, RollbackInv
<1>7. Covered'
  <2>1. CASE approve' = NoPair
    <3>1. ASSUME NEW g \in Guids(B)' PROVE ~ (0 < g /\ g <= 0)
      BY <1>2
    <3> QED
      BY <1>2, <2>1, <3>1 DEF Covered
  <2>2. CASE UNCHANGED <<approve, agreed>>
    BY <1>1, <1>2, <2>2 DEF Covered, RollbackInv
  <2> QED
    BY <2>1, <2>2
<1> QED
  BY <1>3, <1>4, <1>5, <1>6, <1>7 DEF RollbackInv

\* The steps that matter to a rollback, one by one: a snapshot is taken.
LEMMA TakenKeeps ==
    ASSUME StoreType, RestType, RollbackInv, TakeSnapshot,
           ~ Has(P, New), snaps' # Put("primary", New, NoSnap), snaps' # snaps
    PROVE  RollbackInv'
<1> DEFINE new == [guid |-> NextGuid, created |-> hour, data |-> data, frozen |-> FALSE]
           l == [P EXCEPT ![New] = new]
<1>1. /\ snaps' = [snaps EXCEPT !["primary"] = l]
      /\ pc' = IF backup = "absent" THEN "full" ELSE IF token # 0 THEN "resume" ELSE "decide"
  BY DEF TakeSnapshot, Put, P
<1>2. UNCHANGED <<backup, blocked, approve, agreed>> /\ NextGuid <= MaxGuid
  BY DEF TakeSnapshot, files
<1>3. /\ new \in Snapshot /\ new.guid = NextGuid /\ NextGuid \in 1..MaxGuid
      /\ \A g \in Guids(P) \cup Guids(B)
                    \cup {token, blocked[1], blocked[2], approve[1], approve[2]} : g < NextGuid
  BY <1>2, TakenType
<1>4. P \in Listing /\ New \in Slots /\ Guids(B) \subseteq 1..MaxGuid
  BY TypeParts, SlotFacts, GuidsFacts
<1> HIDE DEF new
<1>5. l[New].guid = NextGuid /\ Guids(l) \subseteq Guids(P) \cup {NextGuid}
  BY <1>3, <1>4, PutListing DEF Listing
<1> HIDE DEF l
<1>6. P' = l /\ Guids(P)' = Guids(l) /\ B' = B /\ Guids(B)' = Guids(B)
  BY <1>1, SideGuids DEF Datasets
<1>7. Common' \subseteq Common
  BY <1>3, <1>4, <1>5, <1>6 DEF Common
<1>8. Settled(blocked)' /\ Settled(approve)'
  BY <1>2, <1>6, <1>7 DEF Settled, RollbackInv
<1>9. Fresh'
  BY <1>2, <1>3, <1>5, <1>6 DEF Fresh
<1>10. Unfinished' /\ Covered' /\ Consented'
  BY <1>1, <1>2, <1>6 DEF Unfinished, Covered, Consented, RollbackInv
<1> QED
  BY <1>8, <1>9, <1>10 DEF RollbackInv

\* The first send: it is the only snapshot of the backup then.
LEMMA FullSendKeeps ==
    ASSUME StoreType, RestType, RollbackInv, FullSend, pc' = "setTag"
    PROVE  RollbackInv'
<1> DEFINE l == [B EXCEPT ![New] = P[New]]
<1>1. snaps' = [snaps EXCEPT !["backup"] = l] /\ backup' = "ready" /\ pc = "full"
  BY DEF FullSend, Put, B, Goto
<1>2. UNCHANGED <<blocked, approve, agreed>>
  BY DEF FullSend, files
<1>3. B \in Listing /\ P[New] \in Snapshot /\ New \in Slots /\ P[New].guid \in 0..MaxGuid
  BY TypeParts, SlotFacts, GuidsFacts DEF Listing
<1>4. Guids(B) = {}
  BY <1>1 DEF RollbackInv, Unfinished
<1>5. Guids(l) \subseteq {P[New].guid}
  BY <1>3, <1>4, PutListing
<1> HIDE DEF l
<1>6. Guids(B)' \subseteq {P[New].guid}
  BY <1>1, <1>5, SideGuids DEF Datasets
<1>7. blocked[2] < P[New].guid /\ approve[2] < P[New].guid
  BY <1>1 DEF RollbackInv, Fresh
<1>8. blocked \in Pairs /\ approve \in Pairs /\ \A p \in Pairs : p[1] \in Nat /\ p[2] \in Nat
  BY DEF RestType, Pairs
<1>9. blocked[2] \notin Guids(B)' /\ \A g \in Guids(B)' : ~ g <= approve[2]
  BY <1>3, <1>6, <1>7, <1>8
<1>10. approve[2] \notin Guids(B)'
  BY <1>3, <1>6, <1>7, <1>8
<1>11. Settled(blocked)' /\ Settled(approve)' /\ Covered'
  BY <1>2, <1>9, <1>10 DEF Settled, Covered, RollbackInv
<1>12. Fresh' /\ Unfinished' /\ Consented'
  BY <1>1 DEF Fresh, Unfinished, Consented
<1> QED
  BY <1>11, <1>12 DEF RollbackInv

\* cs:sync and the common base are looked at: what is asked for is settled, and a send
\* starts only with the loss agreed to.
LEMMA DecideKeeps ==
    ASSUME StoreType, RestType, RollbackInv, Decide
    PROVE  RollbackInv'
<1>1. /\ Base \in 0..MaxGuid /\ Newest \in 0..MaxGuid
      /\ Base # 0 => Base \in Guids(B) /\ Base \in Guids(P)
      /\ Guids(B) # {} => Newest \in Guids(B)
      /\ \A g \in Guids(B) : g <= Newest
      /\ \A g \in Guids(P) \cap Guids(B) : g # P[New].guid => g <= Base
  BY BaseFacts
<1>2. Guids(B) \subseteq 1..MaxGuid /\ blocked \in Pairs /\ approve \in Pairs
  BY TypeParts, GuidsFacts DEF RestType
<1>3. \A g \in Common : g <= Base
  <2>1. \A g \in Guids(B) : g < P[New].guid
    BY DEF Decide, RollbackInv, Fresh
  <2>2. P[New].guid \in 0..MaxGuid
    BY TypeParts, GuidsFacts, SlotFacts
  <2> QED
    BY <1>1, <2>1, <2>2 DEF Common
<1>4. /\ UNCHANGED <<snaps, backup, approve, agreed>> /\ pc = "decide" /\ pc' \in {"fail", "incr"}
      /\ blocked' = blocked \/ (pc' = "fail" /\ Base # 0 /\ Base # Newest /\ blocked' = <<Base, Newest>>)
      /\ pc' = "incr" => /\ blocked' = blocked /\ Base # 0
                         /\ Base = Newest \/ RollbackAuto \/ approve = <<Base, Newest>>
  BY DEF Decide, store, Goto, Approved
<1>5. /\ Guids(B)' = Guids(B) /\ Guids(P)' = Guids(P) /\ Common' = Common
      /\ P' = P /\ Base' = Base /\ Loss' = Loss
  BY <1>4 DEF Guids, P, B, Common, Base, Loss
<1>6. Settled(approve)' /\ Unfinished'
  BY <1>4, <1>5 DEF RollbackInv, Settled, Unfinished
<1>7. CASE blocked' = blocked
  <2>1. Settled(blocked)' /\ Covered'
    BY <1>4, <1>5, <1>7 DEF RollbackInv, Settled, Covered
  <2>2. Fresh'
    BY <1>4, <1>5, <1>7 DEF RollbackInv, Fresh
  <2>3. Consented'
    <3> SUFFICES ASSUME pc' = "incr", ~ RollbackAuto
                 PROVE  Loss \subseteq agreed /\ (blocked # NoPair /\ Loss # {} => blocked[1] <= Base)
      BY <1>4, <1>5, <1>7 DEF Consented
    <3>1. CASE Base = Newest
      BY <1>1, <1>2, <3>1 DEF Loss
    <3>2. CASE approve = <<Base, Newest>>
      BY <1>1, <1>2, <3>2 DEF Loss, RollbackInv, Covered
    <3> QED
      BY <1>4, <3>1, <3>2
  <2> QED
    BY <1>6, <2>1, <2>2, <2>3 DEF RollbackInv
<1>8. CASE blocked' # blocked
  <2>1. pc' = "fail" /\ Base # 0 /\ Base < Newest /\ blocked' = <<Base, Newest>>
    BY <1>1, <1>4, <1>8
  <2>2. Settled(blocked)'
    BY <1>3, <1>5, <2>1 DEF Settled
  <2>3. Covered'
    <3>1. approve[2] \in Guids(B) => Base <= approve[1]
      BY <1>1, <2>1 DEF RollbackInv, Settled, Common
    <3> QED
      BY <1>4, <1>5, <2>1, <3>1 DEF RollbackInv, Covered
  <2>4. Fresh' /\ Consented'
    BY <2>1 DEF Fresh, Consented
  <2> QED
    BY <1>6, <2>2, <2>3, <2>4 DEF RollbackInv
<1> QED
  BY <1>7, <1>8

\* The forced receive: no pair that was asked for has its newer snapshot any more.
LEMMA IncrSendKeeps ==
    ASSUME StoreType, RestType, RollbackInv, IncrSend, pc' = "consume"
    PROVE  RollbackInv'
<1> DEFINE l == [RolledBack(B, Base) EXCEPT ![New] = P[New]]
<1>1. snaps' = [snaps EXCEPT !["backup"] = l] /\ UNCHANGED backup /\ pc = "incr"
  BY DEF IncrSend, B, Goto
<1>2. UNCHANGED <<blocked, approve, agreed>>
  BY DEF IncrSend, files
<1>3. B \in Listing /\ P[New] \in Snapshot /\ New \in Slots /\ P[New].guid \in 0..MaxGuid
  BY TypeParts, SlotFacts, GuidsFacts DEF Listing
<1>4. /\ Base \in 0..MaxGuid /\ Guids(B) \subseteq 1..MaxGuid
      /\ Base # 0 => Base \in Common
  BY TypeParts, GuidsFacts, BaseFacts DEF Common
<1>5. Base # 0
  BY <1>1 DEF RollbackInv, Consented
<1>6. Guids(l) \subseteq {g \in Guids(B) : g <= Base} \cup {P[New].guid}
  <2> DEFINE r == RolledBack(B, Base)
  <2>1. r \in Listing /\ Guids(r) = {g \in Guids(B) : g <= Base}
    BY <1>3, <1>4, RolledBackListing
  <2> HIDE DEF r
  <2>2. Guids([r EXCEPT ![New] = P[New]]) \subseteq Guids(r) \cup {P[New].guid}
    BY <1>3, <2>1, PutListing
  <2> QED
    BY <2>1, <2>2 DEF r
<1> HIDE DEF l
<1>7. Guids(B)' \subseteq {g \in Guids(B) : g <= Base} \cup {P[New].guid}
  BY <1>1, <1>6, SideGuids DEF Datasets
<1>8. blocked \in Pairs /\ approve \in Pairs /\ \A p \in Pairs : p[1] \in Nat /\ p[2] \in Nat
  BY DEF RestType, Pairs
<1>9. blocked[2] < P[New].guid /\ approve[2] < P[New].guid
  BY <1>1 DEF RollbackInv, Fresh
<1>10. ASSUME NEW pair \in Pairs, Settled(pair), pair[2] < P[New].guid PROVE pair[2] \notin Guids(B)'
  <2> SUFFICES ASSUME pair[2] \in Guids(B)' PROVE FALSE
    OBVIOUS
  <2>1. pair[2] \in Guids(B) /\ pair[2] <= Base
    BY <1>3, <1>7, <1>8, <1>10
  <2>2. pair[1] < pair[2]
    BY <1>4, <1>10, <2>1 DEF Settled, NoPair
  <2>3. Base <= pair[1]
    BY <1>4, <1>5, <1>10, <2>1 DEF Settled
  <2> QED
    BY <1>4, <1>8, <2>1, <2>2, <2>3
<1>11. blocked[2] \notin Guids(B)' /\ approve[2] \notin Guids(B)'
  BY <1>8, <1>9, <1>10 DEF RollbackInv
<1>12. Settled(blocked)' /\ Settled(approve)'
  BY <1>2, <1>11 DEF Settled, RollbackInv
<1>13. Covered'
  <2>1. ASSUME NEW g \in Guids(B)', approve[1] < g, g <= approve[2] PROVE g \in agreed
    BY <1>3, <1>7, <1>8, <1>9, <2>1 DEF RollbackInv, Covered
  <2> QED
    BY <1>2, <1>11, <2>1 DEF Covered
<1>14. Fresh' /\ Consented'
  BY DEF Fresh, Consented
<1>15. Unfinished'
  <2>1. Guids(B) # {}
    BY <1>4, <1>5 DEF Common
  <2> QED
    BY <1>1, <2>1 DEF Unfinished, RollbackInv
<1> QED
  BY <1>12, <1>13, <1>14, <1>15 DEF RollbackInv

\* The operator answers: what would be lost now is what he agrees to lose.
LEMMA ApproveKeeps ==
    ASSUME StoreType, RestType, RollbackInv, Approve
    PROVE  RollbackInv'
<1>1. /\ UNCHANGED <<snaps, backup, blocked, pc>> /\ approve' = blocked /\ blocked # NoPair
      /\ agreed' = {g \in Guids(B) : g > blocked[1]}
  BY DEF Approve, store, process
<1>2. /\ Guids(B)' = Guids(B) /\ Guids(P)' = Guids(P) /\ Common' = Common
      /\ P' = P /\ Base' = Base /\ Loss' = Loss
  BY <1>1 DEF Guids, P, B, Common, Base, Loss
<1>3. Guids(B) \subseteq 1..MaxGuid /\ blocked \in Pairs /\ Base \in 0..MaxGuid
  BY TypeParts, GuidsFacts, BaseFacts DEF RestType
<1>4. Settled(blocked)' /\ Settled(approve)' /\ Fresh' /\ Unfinished'
  BY <1>1, <1>2 DEF RollbackInv, Settled, Fresh, Unfinished
<1>5. Covered'
  BY <1>1, <1>2, <1>3 DEF Covered, Pairs
<1>6. Consented'
  <2> SUFFICES ASSUME pc = "incr", ~ RollbackAuto, NEW g \in Loss PROVE g \in agreed'
    BY <1>1, <1>2 DEF Consented, RollbackInv
  <2>1. blocked[1] <= Base /\ g > Base /\ g \in Guids(B)
    BY <1>1 DEF Consented, RollbackInv, Loss
  <2> QED
    BY <1>1, <1>3, <2>1 DEF Pairs
<1> QED
  BY <1>4, <1>5, <1>6 DEF RollbackInv

\* A step that leaves the snapshots, the files and the control alone.
LEMMA AsideKeeps ==
    ASSUME RollbackInv, UNCHANGED <<snaps, backup, blocked, approve, agreed, pc>>
    PROVE  RollbackInv'
<1>1. /\ Guids(B)' = Guids(B) /\ Guids(P)' = Guids(P) /\ Common' = Common
      /\ P' = P /\ Base' = Base /\ Loss' = Loss
  BY DEF Guids, P, B, Common, Base, Loss
<1> QED
  BY <1>1 DEF RollbackInv, Settled, Fresh, Unfinished, Covered, Consented

\* Every step of a cycle, of the operator and of a crash keeps the invariant.
LEMMA RollbackStep == TypeOK /\ RollbackInv /\ [Next]_vars => RollbackInv'
<1> SUFFICES ASSUME StoreType, RestType, TypeOK, RollbackInv, [Next]_vars PROVE RollbackInv'
  BY TypeParts
<1> DEFINE Send == {"full", "resume", "decide", "incr"}
<1>1. CASE TakeSnapshot
  <2>1. UNCHANGED <<backup, blocked, approve, agreed>> /\ pc = "snap"
    BY <1>1 DEF TakeSnapshot, files
  <2>2. CASE pc' = "snap" \/ pc' = "idle" \/ Has(P, New)
    <3>1. pc' \notin Send /\ (snaps' = Put("primary", New, NoSnap) \/ snaps' = snaps)
      BY <1>1, <2>1, <2>2 DEF TakeSnapshot
    <3>2. Shrinks
      BY <3>1, SideShrinks DEF Datasets
    <3> QED
      BY <2>1, <3>1, <3>2, QuietStep
  <2>3. CASE pc' # "snap" /\ pc' # "idle" /\ ~ Has(P, New)
    <3>1. /\ snaps' = Put("primary", New, [guid |-> NextGuid, created |-> hour, data |-> data, frozen |-> FALSE])
          /\ NextGuid <= MaxGuid
      BY <1>1, <2>1, <2>3 DEF TakeSnapshot
    <3>2. NextGuid # 0 /\ NoSnap.guid = 0 /\ P \in Listing /\ New \in Slots /\ P[New] = NoSnap
      BY <2>3, <3>1, TakenType, SlotFacts, TypeParts DEF Has
    <3>3. snaps'["primary"][New].guid = NextGuid /\ snaps["primary"][New] = NoSnap
      BY <3>1, <3>2 DEF Put, StoreType, Listing, P, Datasets
    <3>4. Put("primary", New, NoSnap)["primary"][New] = NoSnap
      BY <3>2 DEF Put, StoreType, Listing, P, Datasets
    <3>5. snaps' # Put("primary", New, NoSnap) /\ snaps' # snaps
      BY <3>2, <3>3, <3>4
    <3> QED
      BY <1>1, <2>3, <3>5, TakenKeeps
  <2> QED
    BY <2>2, <2>3
<1>2. CASE FullSend
  <2>1. CASE pc' = "setTag"
    BY <1>2, <2>1, FullSendKeeps
  <2>2. CASE pc' # "setTag"
    <3>1. /\ UNCHANGED <<blocked, approve, agreed>> /\ pc' = "fail" /\ FullBroken
          /\ Guids(B) = {}
      BY <1>2, <2>2 DEF FullSend, Goto, files, RollbackInv, Unfinished
    <3> QED
      BY <3>1, BrokenShrinks, QuietStep
  <2> QED
    BY <2>1, <2>2
<1>3. CASE Decide
  BY <1>3, DecideKeeps
<1>4. CASE IncrSend
  <2>1. CASE pc' = "consume"
    BY <1>4, <2>1, IncrSendKeeps
  <2>2. CASE pc' # "consume"
    <3>1. /\ UNCHANGED <<blocked, approve, agreed, backup>> /\ pc' = "fail"
          /\ UNCHANGED snaps \/ IncrBroken
      BY <1>4, <2>2 DEF IncrSend, IncrBroken, Goto, files, store
    <3>2. Shrinks
      BY <3>1, BrokenShrinks, SideShrinks DEF Datasets
    <3> QED
      BY <3>1, <3>2, QuietStep
  <2> QED
    BY <2>1, <2>2
<1>5. CASE Approve
  BY <1>5, ApproveKeeps
<1>6. CASE Resume
  <2>1. /\ UNCHANGED <<snaps, blocked, approve, agreed>> /\ pc = "resume" /\ pc' = "decide"
        /\ backup' = backup \/ (backup = "partial" /\ backup' = "absent")
    BY <1>6 DEF Resume, files, Goto
  <2>2. /\ Guids(B)' = Guids(B) /\ Guids(P)' = Guids(P) /\ Common' = Common /\ P' = P
    BY <2>1 DEF Guids, P, B, Common
  <2> QED
    BY <2>1, <2>2 DEF RollbackInv, Settled, Fresh, Unfinished, Covered, Consented
<1>7. CASE RecoverCycle \/ DropBackup \/ DropPrimary \/ Check \/ SetTag \/ Consume \/ Confirm \/ Mark
             \/ Fail \/ RotateStep \/ Prune
  <2>1. /\ blocked' \in {blocked, NoPair} /\ UNCHANGED backup
        /\ approve' = NoPair \/ UNCHANGED <<approve, agreed>>
    BY <1>7 DEF RecoverCycle, DropBackup, DropPrimary, Drop, Check, SetTag, Consume, Confirm, Mark, MarkOn,
                Fail, RotateStep, Prune, store, files
  <2>2. pc' \notin Send
    <3>1. ASSUME NEW stage, stage \notin Send, Goto(stage) \/ Return
          PROVE  pc' \notin Send
      BY <3>1 DEF Goto, Return
    <3>2. DropStage \notin Send
      BY DEF DropStage
    <3>3. CASE RecoverCycle \/ DropBackup \/ DropPrimary
      <4>1. \/ Goto(DropStage) \/ Goto("dropBackup") \/ Goto("check") \/ Return
            \/ Rotate("primary", TRUE) \/ Rotate("backup", TRUE)
        BY <3>3, Zenon DEF RecoverCycle, DropBackup, DropPrimary, Drop
      <4> QED
        BY <3>2, <4>1 DEF Goto, Rotate, Return
    <3>4. CASE Check \/ SetTag \/ Consume \/ Fail \/ Confirm \/ Mark
      <4>1. \/ Goto("snap") \/ Goto("confirm") \/ Goto("mark") \/ Goto("fail") \/ Return
            \/ Rotate("primary", FALSE)
        BY <3>4, Zenon DEF Check, SetTag, Consume, Fail, Confirm, Mark, MarkOn
      <4> QED
        BY <4>1 DEF Goto, Rotate, Return
    <3>5. CASE RotateStep
      <4>1. NextStage[pc] \notin Send
        BY <3>5 DEF RotateStep, RotateStages, NextStage
      <4>2. Goto(NextStage[pc]) \/ Return
        BY <3>5, Zenon DEF RotateStep
      <4> QED
        BY <3>1, <4>1, <4>2
    <3>6. CASE Prune
      BY <3>6 DEF Prune, Rotate, Return
    <3> QED
      BY <1>7, <3>3, <3>4, <3>5, <3>6
  <2>3. Shrinks
    BY <1>7, OthersShrink DEF RecoverCycle, DropBackup, DropPrimary, Check, SetTag, Consume, Confirm, Mark,
                Fail, RotateStep, Prune, TakeSnapshot, FullSend, IncrSend, RotateStages
  <2> QED
    BY <2>1, <2>2, <2>3, QuietStep
<1>8. CASE Crash
  <2>1. /\ UNCHANGED <<blocked, approve, agreed>> /\ pc' = "idle"
        /\ UNCHANGED snaps \/ FullBroken \/ IncrBroken
        /\ backup' = backup \/ pc = "full"
    BY <1>8 DEF Crash, IncrBroken, files, store
  <2>2. Shrinks
    BY <2>1, BrokenShrinks, SideShrinks DEF Datasets
  <2>3. backup' = backup \/ Guids(B) = {}
    BY <2>1 DEF RollbackInv, Unfinished
  <2> QED
    BY <2>1, <2>2, <2>3, QuietStep
<1>9. ASSUME NEW s \in {N0, N1}, Rollback(s) PROVE RollbackInv'
  <2>1. UNCHANGED <<blocked, approve, agreed, backup, pc>> /\ pc = "idle"
    BY <1>9 DEF Rollback, files, process
  <2>2. Shrinks
    BY <1>9, OthersShrink DEF Rollback, TakeSnapshot, FullSend, IncrSend
  <2> QED
    BY <2>1, <2>2, QuietStep
<1>10. CASE Write \/ Tick \/ UNCHANGED vars
  <2>1. UNCHANGED <<snaps, backup, blocked, approve, agreed, pc>>
    BY <1>10 DEF Write, Tick, store, files, process, vars
  <2> QED
    BY <2>1, AsideKeeps
<1> QED
  BY <1>1, <1>2, <1>3, <1>4, <1>5, <1>6, <1>7, <1>8, <1>9, <1>10 DEF Next, Cycle

\* While the forced receive runs, only what is newer than the base goes.
LEMMA OnlyLossGoes ==
    ASSUME StoreType, [Next]_vars, pc = "incr"
    PROVE  Guids(B) \ Guids(B)' \subseteq Loss
<1>1. Base \in 0..MaxGuid /\ B \in Listing /\ New \in Slots /\ P[New] \in Snapshot
      /\ Guids(B) \subseteq 1..MaxGuid
  BY BaseFacts, TypeParts, SlotFacts, GuidsFacts DEF Listing
<1>2. ASSUME UNCHANGED snaps PROVE Guids(B) \subseteq Guids(B)'
  BY <1>2 DEF Guids, B
<1>3. /\ RolledBack(B, Base) \in Listing
      /\ \A s \in Slots : RolledBack(B, Base)[s] = IF B[s].guid > Base THEN NoSnap ELSE B[s]
      /\ Guids(RolledBack(B, Base)) = {g \in Guids(B) : g <= Base}
  BY <1>1, RolledBackListing
<1>4. ASSUME snaps' = [snaps EXCEPT !["backup"] = RolledBack(B, Base)] PROVE Guids(B) \ Guids(B)' \subseteq Loss
  <2>1. Guids(B)' = {g \in Guids(B) : g <= Base}
    BY <1>3, <1>4, SideGuids DEF Datasets
  <2> QED
    BY <1>1, <2>1 DEF Loss
<1>5. ASSUME IncrSend, pc' = "consume" PROVE Guids(B) \ Guids(B)' \subseteq Loss
  <2> DEFINE l == [RolledBack(B, Base) EXCEPT ![New] = P[New]]
  <2>1. snaps' = [snaps EXCEPT !["backup"] = l] /\ B[New] = NoSnap
    BY <1>5 DEF IncrSend, Receivable, Has, B, Goto
  <2>2. ASSUME NEW g \in Guids(B), g <= Base PROVE g \in Guids(l)
    <3>1. PICK s \in Slots : B[s].guid = g /\ g # 0
      BY <2>2 DEF Guids
    <3>2. s # New
      BY <2>1, <3>1, SlotFacts
    <3>3. l[s].guid = g
      BY <1>1, <1>3, <2>2, <3>1, <3>2 DEF Listing
    <3> QED
      BY <3>1, <3>3 DEF Guids
  <2> HIDE DEF l
  <2>3. Guids(B)' = Guids(l)
    BY <2>1, SideGuids DEF Datasets
  <2> QED
    BY <1>1, <2>2, <2>3 DEF Loss
<1>6. \/ UNCHANGED snaps
      \/ snaps' = [snaps EXCEPT !["backup"] = RolledBack(B, Base)]
      \/ IncrSend /\ pc' = "consume"
  <2>1. CASE IncrSend
    BY <2>1 DEF IncrSend, IncrBroken, Goto, store
  <2>2. CASE Crash
    BY <2>2 DEF Crash, IncrBroken, store
  <2>3. CASE Write \/ Approve \/ Tick \/ UNCHANGED vars
    BY <2>3 DEF Write, Approve, Tick, store, vars
  <2> QED
    BY <2>1, <2>2, <2>3
       DEF Next, Cycle, RecoverCycle, DropBackup, DropPrimary, Check, TakeSnapshot, FullSend, SetTag,
           Resume, Decide, Consume, Confirm, Mark, Fail, RotateStep, Prune, RotateStages, Rollback
<1> QED
  BY <1>2, <1>4, <1>5, <1>6

\* A forced receive takes no snapshot from the backup that the operator has not agreed to
\* lose: not when it succeeds, not when it breaks off half-way, and not when the question
\* is asked and answered again while it runs (approved and cycle, --rollback).
THEOREM LossIsAgreed == Spec => OnlyAgreedLoss
<1>1. Init => RollbackInv
  <2> SUFFICES ASSUME Init PROVE RollbackInv
    OBVIOUS
  <2>1. P = Empty /\ B = Empty /\ Guids(Empty) = {}
    BY DEF Init, P, B, Datasets, Guids, Empty, NoSnap
  <2>2. Guids(B) = {}
    BY <2>1
  <2> QED
    BY <2>2 DEF Init, RollbackInv, Settled, Common, Fresh, Unfinished, Covered, Consented
<1>2. TypeOK /\ RollbackInv /\ [Next]_vars =>
          (~ RollbackAuto /\ pc = "incr" => Guids(B) \ Guids(B)' \subseteq agreed)
  <2> SUFFICES ASSUME StoreType, RollbackInv, [Next]_vars, ~ RollbackAuto, pc = "incr"
               PROVE  Guids(B) \ Guids(B)' \subseteq agreed
    BY TypeParts
  <2>1. Loss \subseteq agreed
    BY DEF RollbackInv, Consented
  <2> QED
    BY <2>1, OnlyLossGoes
<1> QED
  BY <1>1, <1>2, RollbackStep, CycleTypeCorrect, PTL DEF Spec, OnlyAgreedLoss

----------------------------------------------------------------------------
(* The common base: the inductive invariant, while recoverCycle sees what is there *)

Mine == P[New].guid
Theirs == B[New].guid

\* A linked backup that holds snapshots shares one with the primary.
Based == tag /\ Others(B) # {} => Common # {}

\* Where the two new snapshots can be: a received one that the primary has is its
\* newest or its base, and it is newer than everything else on the backup.
Placed ==
    /\ \A s \in Slots : B[s] = NoSnap \/ B[s].guid # 0
    /\ Theirs \in Guids(P) => Theirs \in {Mine, P[N0].guid}
    /\ Mine \in Guids(B) => Mine = Theirs
    /\ Theirs # 0 => \A x \in Others(B) : x < Theirs
    /\ Mine \notin Others(P)

\* Before the send the backup has no new snapshot, and what is discarded is not shared.
Ready ==
    /\ pc = "dropBackup" => Theirs \notin Guids(P)
    /\ pc \in {"dropPrimary", "check", "snap", "full", "resume", "decide", "incr"} => Theirs = 0
    /\ pc \in {"full", "resume", "decide", "incr"} => Mine # 0 /\ \A x \in Guids(P) : x <= Mine

\* After the send both have it; until it is confirmed an older base is kept for "fail".
Kept == tag /\ Others(B) # {} => \E x \in Others(B) \cap Guids(P) : x # Mine

Delivered ==
    /\ pc = "setTag" => Others(B) = {}
    /\ pc \in {"setTag", "consume", "confirm", "mark"} => Theirs = Mine /\ Mine # 0
    /\ pc \in {"setTag", "consume", "confirm", "fail"} => Kept

\* The primary rotates what is confirmed, and the backup follows it.
RotatesPrimary ==
    pc \in RotateStages /\ on = "primary" =>
        /\ Theirs # 0
        /\ IF pc = "prune" THEN P[N0].guid = Theirs /\ Mine # Theirs ELSE Mine = Theirs

RotatesBackup ==
    pc \in RotateStages /\ on = "backup" =>
        /\ pc # "prune" => Theirs # 0 /\ P[N0].guid = Theirs /\ Mine # Theirs
        /\ pc = "promote" => B[N0] = NoSnap
        /\ pc = "prune" =>
              /\ Theirs = 0 /\ B[N0].guid # 0 /\ P[N0].guid = B[N0].guid
              /\ \A x \in Others(B) : x <= B[N0].guid

Staged == Ready /\ Delivered /\ RotatesPrimary /\ RotatesBackup
BaseInv == Based /\ Placed /\ Staged

\* What the two sides hold, with and without the new snapshots.
LEMMA Sides ==
    ASSUME StoreType
    PROVE  /\ Guids(P) = Others(P) \cup ({Mine} \ {0}) /\ Guids(B) = Others(B) \cup ({Theirs} \ {0})
           /\ Guids(P) \subseteq 1..MaxGuid /\ Guids(B) \subseteq 1..MaxGuid
           /\ Mine \in 0..MaxGuid /\ Theirs \in 0..MaxGuid
           /\ P[N0].guid \in 0..MaxGuid /\ B[N0].guid \in 0..MaxGuid
           /\ P[N0].guid # 0 => P[N0].guid \in Others(P)
           /\ B[N0].guid # 0 => B[N0].guid \in Others(B)
<1>1. P \in Listing /\ B \in Listing
  BY TypeParts
<1>2. New \in Slots /\ N0 \in Slots /\ N0 # New
  BY SlotFacts
<1> QED
  BY <1>1, <1>2, OthersFacts, GuidsFacts DEF Mine, Theirs

\* The same after a step.
LEMMA SidesNext ==
    ASSUME StoreType'
    PROVE  /\ Guids(P)' = Others(P)' \cup ({Mine'} \ {0}) /\ Guids(B)' = Others(B)' \cup ({Theirs'} \ {0})
           /\ Guids(P)' \subseteq 1..MaxGuid /\ Guids(B)' \subseteq 1..MaxGuid
           /\ P'[N0].guid # 0 => P'[N0].guid \in Others(P)'
           /\ B'[N0].guid # 0 => B'[N0].guid \in Others(B)'
<1>1. P' \in Listing /\ B' \in Listing
  BY DEF StoreType, P, B, Datasets
<1>2. New \in Slots /\ N0 \in Slots /\ N0 # New
  BY SlotFacts
<1> QED
  BY <1>1, <1>2, OthersFacts, GuidsFacts DEF Mine, Theirs

\* A command that changes no listing.
LEMMA SameSides ==
    ASSUME UNCHANGED snaps
    PROVE  /\ P' = P /\ Guids(P)' = Guids(P) /\ Others(P)' = Others(P) /\ Mine' = Mine
           /\ B' = B /\ Guids(B)' = Guids(B) /\ Others(B)' = Others(B) /\ Theirs' = Theirs
           /\ Common' = Common
<1>1. P' = P /\ B' = B
  BY DEF P, B
<1> QED
  BY <1>1 DEF Guids, Others, Mine, Theirs, Common

\* A command that replaces one.
LEMMA NewSide ==
    ASSUME StoreType, NEW d \in Datasets, NEW l, snaps' = [snaps EXCEPT ![d] = l]
    PROVE  /\ d = "primary" =>
                  /\ P' = l /\ Guids(P)' = Guids(l) /\ Others(P)' = Others(l) /\ Mine' = l[New].guid
                  /\ B' = B /\ Guids(B)' = Guids(B) /\ Others(B)' = Others(B) /\ Theirs' = Theirs
           /\ d = "backup" =>
                  /\ B' = l /\ Guids(B)' = Guids(l) /\ Others(B)' = Others(l) /\ Theirs' = l[New].guid
                  /\ P' = P /\ Guids(P)' = Guids(P) /\ Others(P)' = Others(P) /\ Mine' = Mine
<1>1. d = "primary" => P' = l /\ Guids(P)' = Guids(l) /\ B' = B /\ Guids(B)' = Guids(B)
  BY SideGuids
<1>2. d = "backup" => B' = l /\ Guids(B)' = Guids(l) /\ P' = P /\ Guids(P)' = Guids(P)
  BY SideGuids
<1> QED
  BY <1>1, <1>2 DEF Others, Mine, Theirs

\* A listing gets or loses its new snapshot.
LEMMA NewSlot ==
    ASSUME StoreType, NEW d \in Datasets, NEW x \in Snapshot, snaps' = Put(d, New, x)
    PROVE  /\ d = "primary" =>
                  /\ Mine' = x.guid /\ Others(P)' = Others(P) /\ P'[N0] = P[N0]
                  /\ B' = B /\ Guids(B)' = Guids(B) /\ Others(B)' = Others(B) /\ Theirs' = Theirs
           /\ d = "backup" =>
                  /\ Theirs' = x.guid /\ Others(B)' = Others(B)
                  /\ \A s \in Slots : B'[s] = IF s = New THEN x ELSE B[s]
                  /\ P' = P /\ Guids(P)' = Guids(P) /\ Others(P)' = Others(P) /\ Mine' = Mine
<1> DEFINE l == [snaps[d] EXCEPT ![New] = x]
<1>1. snaps[d] \in Listing /\ New \in Slots /\ N0 \in Slots /\ N0 # New
  BY SlotFacts DEF StoreType
<1>2. /\ Others(l) = Others(snaps[d]) /\ l[New] = x
      /\ \A s \in Slots : l[s] = IF s = New THEN x ELSE snaps[d][s]
  BY <1>1, PutOthers DEF Listing
<1>3. snaps' = [snaps EXCEPT ![d] = l]
  BY DEF Put
<1> HIDE DEF l
<1>4. CASE d = "primary"
  <2>1. snaps[d] = P
    BY <1>4 DEF P
  <2>2. P' = l /\ Others(P)' = Others(l) /\ Mine' = l[New].guid
    BY <1>3, <1>4, NewSide
  <2>3. B' = B /\ Guids(B)' = Guids(B) /\ Others(B)' = Others(B) /\ Theirs' = Theirs
    BY <1>3, <1>4, NewSide
  <2>4. Others(P)' = Others(P) /\ Mine' = x.guid /\ P'[N0] = P[N0]
    BY <1>1, <1>2, <2>1, <2>2
  <2> QED
    BY <1>4, <2>3, <2>4
<1>5. CASE d = "backup"
  <2>1. snaps[d] = B
    BY <1>5 DEF B
  <2>2. B' = l /\ Others(B)' = Others(l) /\ Theirs' = l[New].guid
    BY <1>3, <1>5, NewSide
  <2>3. P' = P /\ Guids(P)' = Guids(P) /\ Others(P)' = Others(P) /\ Mine' = Mine
    BY <1>3, <1>5, NewSide
  <2>4. Others(B)' = Others(B) /\ Theirs' = x.guid /\ \A s \in Slots : B'[s] = IF s = New THEN x ELSE B[s]
    BY <1>1, <1>2, <2>1, <2>2
  <2> QED
    BY <1>5, <2>3, <2>4
<1> QED
  BY <1>4, <1>5 DEF Datasets

----------------------------------------------------------------------------
(* The steps of the abstract replica, seen from the datasets *)

ReplicaStep == R!Next \/ UNCHANGED R!vars

\* The backup of the replica is the backup, and what is shared is shared.
LEMMA Mapped ==
    ASSUME StoreType
    PROVE  R!Theirs = Guids(B) /\ R!Shared = Common
<1>1. Guids([B EXCEPT ![New] = NoSnap]) = Others(B) /\ B[New].guid = Theirs
  BY DEF Others, Destroyed, Theirs
<1>2. Guids(B) = Others(B) \cup ({Theirs} \ {0})
  BY Sides
<1>3. R!Theirs = Guids(B)
  BY <1>1, <1>2 DEF R!Theirs
<1> QED
  BY <1>3 DEF R!Shared, Common

\* So is the promise of a shared snapshot, which the steps keep.
LEMMA MappedBased == StoreType' /\ Based' => (R!Based)'
<1> SUFFICES ASSUME StoreType', Based' PROVE (R!Based)'
  OBVIOUS
<1>1. Guids([B EXCEPT ![New] = NoSnap])' = Others(B)' /\ B'[New].guid = Theirs'
  BY DEF Others, Destroyed, Theirs
<1>2. Guids(B)' = Others(B)' \cup ({Theirs'} \ {0})
  BY SidesNext
<1>3. (R!Theirs)' = Guids(B)'
  BY <1>1, <1>2 DEF R!Theirs
<1>4. (R!Shared)' = Common'
  BY <1>3 DEF R!Shared, Common
<1> QED
  BY <1>1, <1>4 DEF R!Based, Based

\* Nothing the replica knows of changes.
LEMMA ReplicaStutters ==
    ASSUME UNCHANGED <<Guids(P), Others(B), Theirs, tag, agreed>>
    PROVE  ReplicaStep
  BY DEF ReplicaStep, R!vars, Others, Destroyed, Theirs

\* The primary gives snapshots up.
LEMMA ReplicaReleases ==
    ASSUME StoreType', Guids(P)' \subseteq Guids(P), Based',
           UNCHANGED <<Others(B), Theirs, tag, agreed>>
    PROVE  ReplicaStep
<1>1. (R!Based)'
  BY MappedBased
<1>2. R!Release
  BY <1>1 DEF R!Release, Others, Destroyed, Theirs
<1> QED
  BY <1>2 DEF ReplicaStep, R!Next

----------------------------------------------------------------------------
(* The steps of the cycle, one by one *)

\* A step that touches neither the listings nor the link.
LEMMA AsideBase ==
    ASSUME BaseInv, UNCHANGED <<snaps, tag>>
    PROVE  /\ Based' /\ Placed' /\ (Kept => Kept')
           /\ agreed' = agreed => ReplicaStep
<1>1. /\ P' = P /\ Guids(P)' = Guids(P) /\ Others(P)' = Others(P) /\ Mine' = Mine
      /\ B' = B /\ Guids(B)' = Guids(B) /\ Others(B)' = Others(B) /\ Theirs' = Theirs
      /\ Common' = Common /\ tag' = tag
  BY SameSides
<1>2. Based' /\ Placed' /\ (Kept => Kept')
  BY <1>1 DEF BaseInv, Based, Placed, Kept
<1>3. agreed' = agreed => ReplicaStep
  BY <1>1, ReplicaStutters
<1> QED
  BY <1>2, <1>3

\* What is asked of the state before each command but those of rotate.
LEMMA StageGoals ==
    /\ pc' = "idle" => Staged'
    /\ pc' \in {"dropPrimary", "check", "snap"} /\ Theirs' = 0 => Staged'
    /\ pc' = "fail" /\ Kept' => Staged'
    /\ /\ pc' \in {"full", "resume", "decide", "incr"}
       /\ Theirs' = 0 /\ Mine' # 0 /\ \A x \in Guids(P)' : x <= Mine'
       => Staged'
    /\ pc' \in {"consume", "confirm"} /\ Theirs' = Mine' /\ Mine' # 0 /\ Kept' => Staged'
  BY DEF Staged, Ready, Delivered, RotatesPrimary, RotatesBackup, RotateStages

\* With no new snapshot on the backup, the shared one is an older one.
LEMMA KeptNow ==
    ASSUME StoreType, Based, Placed, Theirs = 0
    PROVE  Kept
<1> SUFFICES ASSUME tag, Others(B) # {} PROVE \E x \in Others(B) \cap Guids(P) : x # Mine
  BY DEF Kept
<1>1. PICK x \in Common : TRUE
  BY DEF Based
<1>2. x \in Guids(P) /\ x \in Guids(B) /\ x # 0 /\ x \in Others(B)
  BY <1>1, Sides DEF Common
<1>3. x # Mine
  BY <1>2 DEF Placed
<1> QED
  BY <1>2, <1>3

\* recoverCycle: what it finds decides which half of the cycle is left.
LEMMA RecoverBase ==
    ASSUME StoreType, RestType, BaseInv, RecoverCycle, ListingsWork
    PROVE  BaseInv' /\ ReplicaStep
<1>1. UNCHANGED <<snaps, tag, agreed, faults>> /\ faults \in Nat /\ pc = "idle"
  BY ZfsBounds DEF RecoverCycle, ListingsWork, store, RestType
<1>2. /\ P' = P /\ Guids(P)' = Guids(P) /\ Mine' = Mine
      /\ B' = B /\ Guids(B)' = Guids(B) /\ Theirs' = Theirs
  BY <1>1, SameSides
<1>3. ~ Fault
  BY <1>1 DEF Fault
<1>4. \/ /\ B[New] = NoSnap
         /\ Goto(DropStage)
      \/ /\ B[New] # NoSnap /\ Theirs = Mine
         /\ Rotate("primary", TRUE)
      \/ /\ B[New] # NoSnap /\ Theirs # Mine /\ Theirs = P[N0].guid
         /\ Rotate("backup", TRUE)
      \/ /\ B[New] # NoSnap /\ Theirs \notin {Mine, P[N0].guid}
         /\ Goto("dropBackup")
  BY <1>3, Zenon DEF RecoverCycle, Mine, Theirs
<1>5. B[New] # NoSnap => Theirs # 0
  BY SlotFacts DEF BaseInv, Placed, Theirs
<1>6. Staged'
  <2>1. CASE B[New] = NoSnap /\ Goto(DropStage)
    <3>1. Theirs' = 0 /\ pc' \in {"dropPrimary", "check"}
      BY <1>2, <2>1, SlotFacts DEF Theirs, Goto, DropStage
    <3> QED
      BY <3>1, StageGoals
  <2>2. CASE Theirs # 0 /\ Theirs = Mine /\ Rotate("primary", TRUE)
    BY <1>2, <2>2 DEF Rotate, Staged, Ready, Delivered, RotatesPrimary, RotatesBackup
  <2>3. CASE Theirs # 0 /\ Theirs # Mine /\ Theirs = P[N0].guid /\ Rotate("backup", TRUE)
    BY <1>2, <2>3 DEF Rotate, Staged, Ready, Delivered, RotatesPrimary, RotatesBackup
  <2>4. CASE Theirs \notin {Mine, P[N0].guid} /\ Goto("dropBackup")
    <3>1. Theirs' \notin Guids(P)' /\ pc' = "dropBackup"
      BY <1>2, <2>4 DEF BaseInv, Placed, Goto
    <3> QED
      BY <3>1 DEF Staged, Ready, Delivered, RotatesPrimary, RotatesBackup, RotateStages
  <2> QED
    BY <1>4, <1>5, <2>1, <2>2, <2>3, <2>4
<1> QED
  BY <1>1, <1>6, AsideBase DEF BaseInv

\* The new snapshot of the primary goes, while an older one is shared.
LEMMA DiscardBase ==
    ASSUME StoreType, StoreType', Placed, Kept, snaps' = Put("primary", New, NoSnap),
           UNCHANGED <<tag, agreed>>
    PROVE  Based' /\ Placed' /\ Theirs' = Theirs /\ ReplicaStep
<1>1. /\ Mine' = 0 /\ Others(P)' = Others(P) /\ P'[N0] = P[N0]
      /\ B' = B /\ Guids(B)' = Guids(B) /\ Others(B)' = Others(B) /\ Theirs' = Theirs
  BY NewSlot, SlotFacts DEF Datasets
<1>2. Guids(P)' = Others(P) /\ Guids(P) = Others(P) \cup ({Mine} \ {0})
  BY <1>1, Sides, SidesNext
<1>3. Based'
  <2> SUFFICES ASSUME tag, Others(B) # {} PROVE Common' # {}
    BY <1>1 DEF Based
  <2>1. PICK x \in Others(B) \cap Guids(P) : x # Mine
    BY DEF Kept
  <2>2. x \in Guids(P)' /\ x \in Guids(B)'
    BY <1>1, <1>2, <2>1, Sides
  <2> QED
    BY <2>2 DEF Common
<1>4. Placed'
  <2>1. Theirs \in Others(P) => Theirs = P[N0].guid
    BY <1>2 DEF Placed
  <2>2. 0 \notin Guids(B) /\ 0 \notin Others(P)
    BY <1>2, Sides
  <2> QED
    BY <1>1, <1>2, <2>1, <2>2 DEF Placed
<1>5. ReplicaStep
  BY <1>1, <1>2, <1>3, ReplicaReleases
<1> QED
  BY <1>1, <1>3, <1>4, <1>5

\* A received snapshot that the primary does not have is discarded.
LEMMA DropBackupBase ==
    ASSUME StoreType, StoreType', BaseInv, DropBackup
    PROVE  BaseInv' /\ ReplicaStep
<1>1. pc = "dropBackup" /\ UNCHANGED <<tag, agreed>> /\ Theirs \notin Guids(P)
  BY DEF DropBackup, Drop, BaseInv, Staged, Ready
<1>2. CASE snaps' = Put("backup", New, NoSnap) /\ Goto(DropStage)
  <2>1. /\ Theirs' = 0 /\ Others(B)' = Others(B)
        /\ \A s \in Slots : B'[s] = IF s = New THEN NoSnap ELSE B[s]
        /\ P' = P /\ Guids(P)' = Guids(P) /\ Others(P)' = Others(P) /\ Mine' = Mine
    BY <1>2, NewSlot, SlotFacts DEF Datasets
  <2>2. Guids(B)' = Others(B) /\ Guids(B) = Others(B) \cup ({Theirs} \ {0})
    BY <2>1, Sides, SidesNext
  <2>3. Common' = Common
    BY <1>1, <2>1, <2>2 DEF Common
  <2>4. Based'
    BY <1>1, <2>1, <2>3 DEF BaseInv, Based
  <2>5. Mine \notin Others(B)
    <3> SUFFICES ASSUME Mine \in Others(B) PROVE FALSE
      OBVIOUS
    <3>1. Mine \in Guids(B) /\ Mine \in 1..MaxGuid
      BY <2>2, Sides
    <3>2. Mine = Theirs /\ Mine < Theirs
      BY <3>1 DEF BaseInv, Placed
    <3> QED
      BY <3>1, <3>2
  <2>6. \A s \in Slots : B'[s] = NoSnap \/ B'[s].guid # 0
    BY <2>1 DEF BaseInv, Placed
  <2>7. 0 \notin Guids(P)
    BY Sides
  <2>8. Placed'
    BY <2>1, <2>2, <2>5, <2>6, <2>7 DEF BaseInv, Placed
  <2>9. Staged'
    <3>1. pc' \in {"dropPrimary", "check"}
      BY <1>2 DEF Goto, DropStage
    <3> QED
      BY <2>1, <3>1, StageGoals
  <2>10. R!Reject
    <3>1. (R!Based)'
      BY <2>4, MappedBased
    <3> QED
      BY <1>1, <2>1, <3>1 DEF R!Reject, Others, Destroyed, Theirs
  <2> QED
    BY <2>4, <2>8, <2>9, <2>10 DEF BaseInv, ReplicaStep, R!Next
<1>3. CASE UNCHANGED snaps /\ Return
  <2>1. Staged'
    BY <1>3, StageGoals DEF Return
  <2> QED
    BY <1>1, <1>3, <2>1, AsideBase DEF BaseInv
<1>4. \/ snaps' = Put("backup", New, NoSnap) /\ Goto(DropStage)
      \/ UNCHANGED snaps /\ Return
  BY Zenon DEF DropBackup, Drop
<1> QED
  BY <1>2, <1>3, <1>4

\* So is a snapshot of the primary that the backup has not got.
LEMMA DropPrimaryBase ==
    ASSUME StoreType, StoreType', BaseInv, DropPrimary
    PROVE  BaseInv' /\ ReplicaStep
<1>1. pc = "dropPrimary" /\ UNCHANGED <<tag, agreed>> /\ Theirs = 0
  BY DEF DropPrimary, Drop, BaseInv, Staged, Ready
<1>2. Kept
  BY <1>1, KeptNow DEF BaseInv
<1>3. CASE snaps' = Put("primary", New, NoSnap) /\ Goto("check")
  <2>1. Based' /\ Placed' /\ Theirs' = 0 /\ ReplicaStep
    BY <1>1, <1>2, <1>3, DiscardBase DEF BaseInv
  <2>2. Staged'
    BY <1>3, <2>1, StageGoals DEF Goto
  <2> QED
    BY <2>1, <2>2 DEF BaseInv
<1>4. CASE UNCHANGED snaps /\ Return
  <2>1. Staged'
    BY <1>4, StageGoals DEF Return
  <2> QED
    BY <1>1, <1>4, <2>1, AsideBase DEF BaseInv
<1>5. \/ snaps' = Put("primary", New, NoSnap) /\ Goto("check")
      \/ UNCHANGED snaps /\ Return
  BY Zenon DEF DropPrimary, Drop
<1> QED
  BY <1>3, <1>4, <1>5

\* Nothing written: the cycle ends; otherwise it goes on.
LEMMA CheckBase ==
    ASSUME BaseInv, Check
    PROVE  BaseInv' /\ ReplicaStep
<1>1. UNCHANGED <<snaps, tag, agreed>> /\ pc' \in {"idle", "snap"}
  BY DEF Check, Goto, Return, store
<1>2. Theirs' = 0
  BY <1>1, SameSides DEF Check, BaseInv, Staged, Ready
<1>3. Staged'
  BY <1>1, <1>2, StageGoals
<1> QED
  BY <1>1, <1>3, AsideBase DEF BaseInv

\* A snapshot is taken; it is newer than everything else, so the backup has not got it.
LEMMA TakeBase ==
    ASSUME StoreType, StoreType', RestType, BaseInv, TakeSnapshot
    PROVE  BaseInv' /\ ReplicaStep
<1> DEFINE new == [guid |-> NextGuid, created |-> hour, data |-> data, frozen |-> FALSE]
<1>1. pc = "snap" /\ UNCHANGED <<tag, agreed>> /\ NextGuid <= MaxGuid /\ Theirs = 0
  BY DEF TakeSnapshot, BaseInv, Staged, Ready
<1>2. /\ new \in Snapshot /\ new.guid = NextGuid /\ NextGuid \in 1..MaxGuid
      /\ \A g \in Guids(P) \cup Guids(B)
                    \cup {token, blocked[1], blocked[2], approve[1], approve[2]} : g < NextGuid
  BY <1>1, TakenType
<1>3. \/ /\ ~ Has(P, New) /\ snaps' = Put("primary", New, new)
         /\ pc' = IF backup = "absent" THEN "full" ELSE IF token # 0 THEN "resume" ELSE "decide"
      \/ snaps' = Put("primary", New, NoSnap) /\ UNCHANGED pc
      \/ UNCHANGED snaps /\ pc' = "idle"
  BY DEF TakeSnapshot
<1> HIDE DEF new
<1>4. CASE /\ ~ Has(P, New) /\ snaps' = Put("primary", New, new)
           /\ pc' = IF backup = "absent" THEN "full" ELSE IF token # 0 THEN "resume" ELSE "decide"
  <2>1. /\ Mine' = NextGuid /\ Others(P)' = Others(P) /\ P'[N0] = P[N0]
        /\ B' = B /\ Guids(B)' = Guids(B) /\ Others(B)' = Others(B) /\ Theirs' = 0
    BY <1>1, <1>2, <1>4, NewSlot DEF Datasets
  <2>2. Mine = 0 /\ Guids(P) = Others(P)
    <3>1. Mine = 0
      BY <1>4, SlotFacts DEF Has, Mine
    <3> QED
      BY <3>1, Sides
  <2>3. Guids(P)' = Guids(P) \cup {NextGuid}
    BY <1>2, <2>1, <2>2, SidesNext
  <2>4. /\ Guids(P) \subseteq 1..MaxGuid /\ Guids(B) \subseteq 1..MaxGuid
        /\ \A x \in Guids(P) : x < NextGuid
        /\ \A x \in Guids(B) : x < NextGuid
        /\ NextGuid \in Nat /\ NextGuid # 0 /\ MaxGuid \in Nat
    BY <1>2, Sides, ZfsStoreBounds
  <2>5. NextGuid \notin Guids(P) /\ NextGuid \notin Guids(B) /\ 0 \notin Guids(P) /\ 0 \notin Guids(P)'
    BY <2>3, <2>4
  <2>6. Based'
    BY <1>1, <2>1, <2>3 DEF BaseInv, Based, Common
  <2>7. Placed'
    BY <2>1, <2>2, <2>5 DEF BaseInv, Placed
  <2>8. Staged'
    <3>1. \A x \in Guids(P)' : x <= NextGuid
      BY <2>3, <2>4
    <3>2. NextGuid # 0 /\ pc' \in {"full", "resume", "decide"}
      BY <1>2, <1>4
    <3> QED
      BY <2>1, <3>1, <3>2, StageGoals
  <2>9. R!Take(NextGuid)
    <3>1. \A x \in Guids(P) \cup R!Theirs : x < NextGuid
      BY <2>4, Mapped
    <3> QED
      BY <1>1, <2>1, <2>3, <3>1 DEF R!Take, Others, Destroyed, Theirs
  <2>10. NextGuid \in Guids(P)' \ Guids(P)
    BY <2>3, <2>5
  <2>11. R!Next
    BY <2>9, <2>10 DEF R!Next
  <2> QED
    BY <2>6, <2>7, <2>8, <2>11 DEF BaseInv, ReplicaStep
<1>5. CASE snaps' = Put("primary", New, NoSnap) /\ UNCHANGED pc
  <2>1. Kept
    BY <1>1, KeptNow DEF BaseInv
  <2>2. Based' /\ Placed' /\ Theirs' = 0 /\ ReplicaStep
    BY <1>1, <1>5, <2>1, DiscardBase DEF BaseInv
  <2>3. Staged'
    BY <1>1, <1>5, <2>2, StageGoals
  <2> QED
    BY <2>2, <2>3 DEF BaseInv
<1>6. CASE UNCHANGED snaps /\ pc' = "idle"
  BY <1>1, <1>6, StageGoals, AsideBase DEF BaseInv
<1> QED
  BY <1>3, <1>4, <1>5, <1>6

\* The first send fills an empty backup.
LEMMA FullSendBase ==
    ASSUME StoreType, StoreType', RollbackInv, BaseInv, FullSend
    PROVE  BaseInv' /\ ReplicaStep
<1>1. /\ pc = "full" /\ UNCHANGED <<tag, agreed>> /\ Guids(B) = {}
      /\ Theirs = 0 /\ Mine # 0 /\ \A x \in Guids(P) : x <= Mine
  BY DEF FullSend, FullBroken, store, RollbackInv, Unfinished, BaseInv, Staged, Ready
<1>2. Others(B) = {}
  BY <1>1, Sides
<1>3. CASE snaps' = Put("backup", New, P[New]) /\ Goto("setTag")
  <2>1. P[New] \in Snapshot
    BY TypeParts, SlotFacts DEF Listing
  <2>2. /\ Theirs' = Mine /\ Others(B)' = {}
        /\ \A s \in Slots : B'[s] = IF s = New THEN P[New] ELSE B[s]
        /\ P' = P /\ Guids(P)' = Guids(P) /\ Others(P)' = Others(P) /\ Mine' = Mine
    BY <1>2, <1>3, <2>1, NewSlot DEF Datasets, Mine
  <2>3. Based'
    BY <2>2 DEF Based
  <2>4. Placed'
    <3>1. \A s \in Slots : B'[s] = NoSnap \/ B'[s].guid # 0
      BY <1>1, <2>2 DEF BaseInv, Placed, Mine
    <3> QED
      BY <2>2, <3>1 DEF BaseInv, Placed
  <2>5. Staged'
    BY <1>1, <1>3, <2>2 DEF Goto, Staged, Ready, Delivered, Kept, RotatesPrimary, RotatesBackup, RotateStages
  <2>6. R!Receive
    BY <1>1, <1>2, <2>2 DEF R!Receive, Others, Destroyed, Theirs
  <2> QED
    BY <2>3, <2>4, <2>5, <2>6 DEF BaseInv, ReplicaStep, R!Next
<1>4. CASE UNCHANGED snaps /\ Goto("fail")
  <2>1. Kept
    BY <1>2 DEF Kept
  <2> QED
    BY <1>1, <1>4, <2>1, AsideBase, StageGoals DEF Goto, BaseInv
<1>5. \/ snaps' = Put("backup", New, P[New]) /\ Goto("setTag")
      \/ UNCHANGED snaps /\ Goto("fail")
  BY DEF FullSend, FullBroken, store
<1> QED
  BY <1>3, <1>4, <1>5

\* The backup is linked while the first snapshot is all it has.
LEMMA SetTagBase ==
    ASSUME StoreType, BaseInv, SetTag
    PROVE  BaseInv' /\ ReplicaStep
<1>1. /\ pc' = "confirm" /\ UNCHANGED <<snaps, agreed>> /\ (tag' = TRUE \/ tag' = tag)
      /\ Others(B) = {} /\ Theirs = Mine /\ Mine # 0
  BY DEF SetTag, Goto, BaseInv, Staged, Delivered
<1>2. /\ P' = P /\ Guids(P)' = Guids(P) /\ Others(P)' = Others(P) /\ Mine' = Mine
      /\ B' = B /\ Guids(B)' = Guids(B) /\ Others(B)' = {} /\ Theirs' = Theirs
  BY <1>1, SameSides
<1>3. Based' /\ Kept'
  BY <1>2 DEF Based, Kept
<1>4. Placed'
  BY <1>2 DEF BaseInv, Placed
<1>5. Staged'
  BY <1>1, <1>2, <1>3, StageGoals
<1>6. ReplicaStep
  <2>1. CASE tag' = tag
    BY <1>1, <1>2, <2>1, ReplicaStutters
  <2>2. CASE tag' = TRUE
    <3>1. R!Link
      BY <1>1, <1>2, <2>2 DEF R!Link, Others, Destroyed, Theirs
    <3> QED
      BY <3>1 DEF ReplicaStep, R!Next
  <2> QED
    BY <1>1, <2>1, <2>2
<1> QED
  BY <1>3, <1>4, <1>5, <1>6 DEF BaseInv

\* The partial state goes; the send is decided on.
LEMMA DecideBase ==
    ASSUME StoreType, BaseInv, Resume \/ Decide
    PROVE  BaseInv' /\ ReplicaStep
<1>1. /\ UNCHANGED <<snaps, tag, agreed>> /\ pc' \in {"decide", "incr", "fail"}
      /\ Theirs = 0 /\ Mine # 0 /\ \A x \in Guids(P) : x <= Mine
  BY DEF Resume, Decide, Goto, store, BaseInv, Staged, Ready
<1>2. Mine' = Mine /\ Theirs' = Theirs /\ Guids(P)' = Guids(P)
  BY <1>1, SameSides
<1>3. Kept
  BY <1>1, KeptNow DEF BaseInv
<1>4. Based' /\ Placed' /\ Kept' /\ ReplicaStep
  BY <1>1, <1>3, AsideBase
<1>5. Staged'
  BY <1>1, <1>2, <1>4, StageGoals
<1> QED
  BY <1>4, <1>5 DEF BaseInv

\* What the receive rolls the backup back to, and what it takes with it.
LEMMA RollsBack ==
    ASSUME StoreType, RollbackInv, BaseInv, pc = "incr"
    PROVE  /\ Base \in Common /\ Base \in 1..MaxGuid /\ Base # Mine /\ Base < Mine
           /\ Theirs = 0 /\ Mine # 0 /\ Guids(B) = Others(B)
           /\ RolledBack(B, Base) \in Listing
           /\ Others(RolledBack(B, Base)) = {x \in Others(B) : x <= Base}
           /\ Guids(RolledBack(B, Base)) = {x \in Others(B) : x <= Base}
           /\ RolledBack(B, Base)[New].guid = 0
           /\ \A s \in Slots : RolledBack(B, Base)[s] \in {B[s], NoSnap}
           /\ RollbackAuto \/ Others(B) \ {x \in Others(B) : x <= Base} \subseteq agreed
<1>1. Theirs = 0 /\ Mine # 0 /\ \A x \in Guids(P) : x <= Mine
  BY DEF BaseInv, Staged, Ready
<1>2. Guids(B) = Others(B) /\ Guids(B) \subseteq 1..MaxGuid /\ Mine \in 0..MaxGuid
  BY <1>1, Sides
<1>3. Base \in 0..MaxGuid /\ Base \in Guids(B) /\ Base \in Guids(P)
  BY BaseFacts DEF RollbackInv, Consented
<1>4. Base # Mine
  BY <1>1, <1>3 DEF BaseInv, Placed
<1>5. B \in Listing /\ New \in Slots /\ NoSnap.guid = 0
  BY TypeParts, SlotFacts
<1>6. /\ RolledBack(B, Base) \in Listing
      /\ \A s \in Slots : RolledBack(B, Base)[s] = IF B[s].guid > Base THEN NoSnap ELSE B[s]
      /\ Guids(RolledBack(B, Base)) = {g \in Guids(B) : g <= Base}
      /\ Others(RolledBack(B, Base)) = {g \in Others(B) : g <= Base}
  BY <1>3, <1>5, RolledBackListing, RolledBackOthers
<1>7. RolledBack(B, Base)[New].guid = 0
  BY <1>1, <1>5, <1>6 DEF Theirs
<1>8. RollbackAuto \/ Others(B) \ {x \in Others(B) : x <= Base} \subseteq agreed
  <2>1. \A x \in Others(B) : ~ (x <= Base) => x > Base
    BY <1>2, <1>3
  <2>2. RollbackAuto \/ {g \in Guids(B) : g > Base} \subseteq agreed
    BY DEF RollbackInv, Consented, Loss
  <2> QED
    BY <1>2, <2>1, <2>2
<1>9. Base < Mine
  BY <1>1, <1>2, <1>3, <1>4
<1> QED
  BY <1>1, <1>2, <1>3, <1>4, <1>6, <1>7, <1>8, <1>9 DEF Common

\* A forced receive that breaks off: the backup may be rolled back already, but not
\* behind its base.
LEMMA BrokenBase ==
    ASSUME StoreType, StoreType', RollbackInv, BaseInv, pc = "incr", IncrBroken, UNCHANGED agreed
    PROVE  Based' /\ Placed' /\ Kept' /\ ReplicaStep
<1>1. UNCHANGED tag
  BY DEF IncrBroken
<1>2. CASE UNCHANGED snaps
  <2>1. Kept
    BY KeptNow, RollsBack DEF BaseInv
  <2> QED
    BY <1>1, <1>2, <2>1, AsideBase
<1>3. CASE snaps' = [snaps EXCEPT !["backup"] = RolledBack(B, Base)]
  <2> DEFINE l == RolledBack(B, Base)
  <2>1. /\ Base \in Common /\ Base \in 1..MaxGuid /\ Base # Mine /\ Theirs = 0 /\ Guids(B) = Others(B)
        /\ Others(l) = {x \in Others(B) : x <= Base} /\ Guids(l) = {x \in Others(B) : x <= Base}
        /\ l[New].guid = 0 /\ \A s \in Slots : l[s] \in {B[s], NoSnap}
        /\ RollbackAuto \/ Others(B) \ {x \in Others(B) : x <= Base} \subseteq agreed
    BY RollsBack
  <2> HIDE DEF l
  <2>2. /\ B' = l /\ Guids(B)' = Guids(l) /\ Others(B)' = Others(l) /\ Theirs' = 0
        /\ P' = P /\ Guids(P)' = Guids(P) /\ Others(P)' = Others(P) /\ Mine' = Mine
    BY <1>3, <2>1, NewSide DEF Datasets, l
  <2>3. Base \in Guids(P)' /\ Base \in Guids(B)' /\ Base \in Others(B)'
    BY <2>1, <2>2 DEF Common
  <2>4. Based' /\ Kept'
    BY <2>1, <2>2, <2>3 DEF Based, Kept, Common
  <2>5. Placed'
    <3>1. \A s \in Slots : B'[s] = NoSnap \/ B'[s].guid # 0
      BY <2>1, <2>2 DEF BaseInv, Placed
    <3>2. 0 \notin Guids(P) /\ Guids(B)' \subseteq Guids(B)
      BY <2>1, <2>2, Sides
    <3> QED
      BY <2>1, <2>2, <3>1, <3>2 DEF BaseInv, Placed
  <2>6. R!LoseNewer
    <3>1. Others(B)' = {x \in Others(B) : x <= Base} /\ Base \in R!Shared
      BY <2>1, <2>2, Mapped
    <3>2. R!RollBack
      BY <2>1, <3>1 DEF R!RollBack, Others, Destroyed
    <3> QED
      BY <1>1, <2>1, <2>2, <3>2 DEF R!LoseNewer, Theirs
  <2> QED
    BY <2>4, <2>5, <2>6 DEF ReplicaStep, R!Next
<1> QED
  BY <1>2, <1>3 DEF IncrBroken

\* The incremental send.
LEMMA IncrSendBase ==
    ASSUME StoreType, StoreType', RollbackInv, BaseInv, IncrSend
    PROVE  BaseInv' /\ ReplicaStep
<1>1. pc = "incr" /\ UNCHANGED <<tag, agreed>>
  BY DEF IncrSend, IncrBroken, store
<1> DEFINE r == RolledBack(B, Base)
           l == [r EXCEPT ![New] = P[New]]
<1>2. /\ Base \in Common /\ Base \in 1..MaxGuid /\ Base # Mine /\ Base < Mine
      /\ Theirs = 0 /\ Mine # 0 /\ Guids(B) = Others(B) /\ r \in Listing
      /\ Others(r) = {x \in Others(B) : x <= Base}
      /\ \A s \in Slots : r[s] \in {B[s], NoSnap}
      /\ RollbackAuto \/ Others(B) \ {x \in Others(B) : x <= Base} \subseteq agreed
  BY <1>1, RollsBack
<1>3. P[New] \in Snapshot /\ New \in Slots
  BY TypeParts, SlotFacts DEF Listing
<1> HIDE DEF r
<1>4. CASE snaps' = [snaps EXCEPT !["backup"] = l] /\ Goto("consume")
  <2>1. Others(l) = Others(r) /\ l[New] = P[New]
    BY <1>2, <1>3, PutOthers
  <2>2. \A s \in Slots : l[s] = IF s = New THEN P[New] ELSE r[s]
    BY <1>2, <1>3 DEF Listing
  <2> HIDE DEF l
  <2>3. /\ B' = l /\ Others(B)' = {x \in Others(B) : x <= Base} /\ Theirs' = Mine
        /\ P' = P /\ Guids(P)' = Guids(P) /\ Others(P)' = Others(P) /\ Mine' = Mine
    BY <1>2, <1>4, <2>1, NewSide DEF Datasets, Mine
  <2>4. Guids(B)' = {x \in Others(B) : x <= Base} \cup {Mine}
    BY <1>2, <2>3, SidesNext
  <2>5. Base \in Guids(P)' /\ Base \in Guids(B)' /\ Base \in Others(B)'
    BY <1>2, <2>3, <2>4 DEF Common
  <2>6. Based' /\ Kept'
    BY <1>2, <2>3, <2>5 DEF Based, Kept, Common
  <2>7. Placed'
    <3>1. \A s \in Slots : B'[s] = NoSnap \/ B'[s].guid # 0
      BY <1>2, <2>2, <2>3 DEF BaseInv, Placed, Mine
    <3>2. \A x \in Others(B)' : x < Mine
      BY <1>2, <2>3, Sides
    <3> QED
      BY <2>3, <3>1, <3>2 DEF BaseInv, Placed
  <2>8. Staged'
    BY <1>2, <1>4, <2>3, <2>6, StageGoals DEF Goto
  <2>9. R!Receive
    <3>1. Base \in R!Shared
      BY <1>2, Mapped
    <3>2. R!RollBack
      BY <1>2, <2>3, <3>1 DEF R!RollBack, Others, Destroyed
    <3>3. \A x \in Guids(P) \cup Others(B)' : x <= Mine
      <4>1. \A x \in Guids(P) : x <= Mine
        BY <1>1 DEF BaseInv, Staged, Ready
      <4>2. \A x \in Others(B)' : x <= Mine
        BY <1>2, <2>3, Sides
      <4> QED
        BY <4>1, <4>2
    <3> QED
      BY <1>1, <1>2, <2>3, <3>2, <3>3 DEF R!Receive, Others, Destroyed, Theirs
  <2> QED
    BY <2>6, <2>7, <2>8, <2>9 DEF BaseInv, ReplicaStep, R!Next
<1>5. CASE Goto("fail") /\ UNCHANGED snaps
  <2>1. Kept
    BY <1>2, KeptNow DEF BaseInv
  <2> QED
    BY <1>1, <1>5, <2>1, AsideBase, StageGoals DEF Goto, BaseInv
<1>6. CASE Goto("fail") /\ IncrBroken
  BY <1>1, <1>6, BrokenBase, StageGoals DEF Goto, BaseInv
<1>7. \/ snaps' = [snaps EXCEPT !["backup"] = l] /\ Goto("consume")
      \/ Goto("fail") /\ UNCHANGED snaps
      \/ Goto("fail") /\ IncrBroken
  BY DEF IncrSend, store, r
<1> QED
  BY <1>4, <1>5, <1>6, <1>7

\* The approval is used up; nothing else changes.
LEMMA ConsumeBase ==
    ASSUME StoreType, BaseInv, Consume
    PROVE  BaseInv' /\ ReplicaStep
<1>1. /\ pc' = "confirm" /\ UNCHANGED <<snaps, tag>> /\ agreed' = {}
      /\ Theirs = Mine /\ Mine # 0 /\ Kept
  BY DEF Consume, Goto, store, BaseInv, Staged, Delivered
<1>2. /\ Guids(P)' = Guids(P) /\ Mine' = Mine
      /\ Others(B)' = Others(B) /\ Theirs' = Theirs
  BY <1>1, SameSides
<1>3. Based' /\ Placed' /\ Kept'
  BY <1>1, AsideBase
<1>4. Staged'
  BY <1>1, <1>2, <1>3, StageGoals
<1>5. R!Agree
  BY <1>1, <1>2 DEF R!Agree, Others, Destroyed, Theirs
<1> QED
  BY <1>3, <1>4, <1>5 DEF BaseInv, ReplicaStep, R!Next

\* cs:consistent changes no GUID.
LEMMA MarkedBase ==
    ASSUME StoreType, RestType, BaseInv, NEW d \in Datasets, NEW next, MarkOn(d, next), Theirs # 0
    PROVE  /\ Based' /\ Placed' /\ ReplicaStep
           /\ Mine' = Mine /\ Theirs' = Theirs
<1> DEFINE l == [snaps[d] EXCEPT ![New].frozen = cons]
<1>1. UNCHANGED <<tag, agreed>>
  BY DEF MarkOn
<1>2. CASE snaps' = [snaps EXCEPT ![d] = l]
  <2>1. snaps[d] \in Listing /\ cons \in BOOLEAN /\ New \in Slots /\ N0 \in Slots
    BY SlotFacts DEF StoreType, RestType
  <2>2. /\ l \in Listing /\ \A s \in Slots : l[s].guid = snaps[d][s].guid
        /\ Guids(l) = Guids(snaps[d]) /\ Others(l) = Others(snaps[d])
    BY <2>1, FrozenListing, FrozenOthers
  <2>3. \A s \in Slots : s # New => l[s] = snaps[d][s]
    BY <2>1 DEF Listing
  <2> HIDE DEF l
  <2>4. /\ Guids(P)' = Guids(P) /\ Others(P)' = Others(P) /\ Mine' = Mine
        /\ Guids(B)' = Guids(B) /\ Others(B)' = Others(B) /\ Theirs' = Theirs
        /\ P'[N0].guid = P[N0].guid
    <3>1. CASE d = "primary"
      BY <1>2, <2>1, <2>2, <3>1, NewSide DEF P, Mine
    <3>2. CASE d = "backup"
      BY <1>2, <2>1, <2>2, <3>2, NewSide DEF B, Theirs
    <3> QED
      BY <3>1, <3>2 DEF Datasets
  <2>5. \A s \in Slots : B'[s] = NoSnap \/ B'[s].guid # 0
    <3>1. CASE d = "primary"
      BY <1>2, <3>1, NewSide DEF BaseInv, Placed
    <3>2. CASE d = "backup"
      <4>1. B' = l /\ snaps[d] = B /\ B[New].guid # 0
        BY <1>2, <3>2, NewSide DEF B, Theirs
      <4>2. TAKE s \in Slots
      <4>3. l[s] = B[s] \/ l[s].guid # 0
        BY <2>2, <2>3, <4>1
      <4> QED
        BY <4>1, <4>3 DEF BaseInv, Placed
    <3> QED
      BY <3>1, <3>2 DEF Datasets
  <2>6. Based'
    BY <1>1, <2>4 DEF BaseInv, Based, Common
  <2>7. Placed'
    BY <2>4, <2>5 DEF BaseInv, Placed
  <2> QED
    BY <1>1, <2>4, <2>6, <2>7, ReplicaStutters
<1>3. CASE UNCHANGED snaps
  BY <1>1, <1>3, AsideBase, SameSides
<1> QED
  BY <1>2, <1>3 DEF MarkOn

\* The GUIDs agree, or cannot be compared; both snapshots are marked.
LEMMA ConfirmBase ==
    ASSUME StoreType, RestType, BaseInv, Confirm \/ Mark
    PROVE  BaseInv' /\ ReplicaStep
<1>1. Theirs = Mine /\ Mine # 0 /\ "primary" \in Datasets /\ "backup" \in Datasets
  BY DEF Confirm, Mark, BaseInv, Staged, Delivered, Datasets
<1>2. CASE MarkOn("primary", Goto("mark"))
  <2>1. Based' /\ Placed' /\ ReplicaStep /\ Mine' = Mine /\ Theirs' = Theirs
    BY <1>1, <1>2, MarkedBase
  <2>2. pc' = "mark"
    BY <1>2 DEF MarkOn, Goto
  <2>3. Staged'
    BY <1>1, <2>1, <2>2 DEF Staged, Ready, Delivered, RotatesPrimary, RotatesBackup, RotateStages
  <2> QED
    BY <2>1, <2>3 DEF BaseInv
<1>3. CASE MarkOn("backup", Rotate("primary", FALSE))
  <2>1. Based' /\ Placed' /\ ReplicaStep /\ Mine' = Mine /\ Theirs' = Theirs
    BY <1>1, <1>3, MarkedBase
  <2>2. pc' = "keep" /\ on' = "primary"
    BY <1>3 DEF MarkOn, Rotate
  <2>3. Staged'
    BY <1>1, <2>1, <2>2 DEF Staged, Ready, Delivered, RotatesPrimary, RotatesBackup, RotateStages
  <2> QED
    BY <2>1, <2>3 DEF BaseInv
<1>4. CASE pc = "confirm" /\ Goto("fail") /\ UNCHANGED <<snaps, tag, agreed>>
  <2>1. Kept
    BY <1>4 DEF BaseInv, Staged, Delivered
  <2> QED
    BY <1>4, <2>1, AsideBase, StageGoals DEF Goto, BaseInv
<1>5. \/ MarkOn("primary", Goto("mark"))
      \/ MarkOn("backup", Rotate("primary", FALSE))
      \/ pc = "confirm" /\ Goto("fail") /\ UNCHANGED <<snaps, tag, agreed>>
  BY DEF Confirm, Mark, store
<1> QED
  BY <1>2, <1>3, <1>4, <1>5

\* fail destroys the new snapshot of the primary; an older one is shared still.
LEMMA FailBase ==
    ASSUME StoreType, StoreType', BaseInv, Fail
    PROVE  BaseInv' /\ ReplicaStep
<1>1. Kept /\ UNCHANGED <<tag, agreed>> /\ pc' = "idle"
  BY DEF Fail, Return, BaseInv, Staged, Delivered
<1>2. Staged'
  BY <1>1, StageGoals
<1>3. snaps' = Put("primary", New, NoSnap) \/ UNCHANGED snaps
  BY DEF Fail
<1> QED
  BY <1>1, <1>2, <1>3, DiscardBase, AsideBase DEF BaseInv

\* A crash breaks a receive off; recoverCycle starts from what is left.
LEMMA CrashBase ==
    ASSUME StoreType, StoreType', RollbackInv, BaseInv, Crash
    PROVE  BaseInv' /\ ReplicaStep
<1>1. pc' = "idle" /\ UNCHANGED agreed
  BY DEF Crash
<1>2. Staged'
  BY <1>1, StageGoals
<1>3. UNCHANGED <<snaps, tag>> \/ (pc = "incr" /\ IncrBroken)
  BY DEF Crash, FullBroken, store
<1> QED
  BY <1>1, <1>2, <1>3, AsideBase, BrokenBase DEF BaseInv

\* The operator rolls the primary back to a base the backup has.
LEMMA RollbackBase ==
    ASSUME StoreType, StoreType', BaseInv, NEW s \in {N0, N1}, Rollback(s)
    PROVE  BaseInv' /\ ReplicaStep
<1> DEFINE to == P[s].guid
           l == RolledBack(P, to)
<1>1. /\ pc = "idle" /\ pc' = "idle" /\ UNCHANGED <<tag, agreed>>
      /\ to \in Guids(B) /\ snaps' = [snaps EXCEPT !["primary"] = l]
  BY DEF Rollback, process
<1>2. P \in Listing /\ s \in Slots /\ New \in Slots /\ N0 \in Slots /\ NoSnap.guid = 0
  BY TypeParts, SlotFacts
<1>3. to \in 1..MaxGuid /\ to \in Guids(P)
  <2>1. to \in 1..MaxGuid
    BY <1>1, Sides
  <2> QED
    BY <1>2, <2>1, GuidsFacts
<1>4. to \in 0..MaxGuid
  BY <1>3
<1> HIDE DEF to
<1>5. /\ \A t \in Slots : l[t] = IF P[t].guid > to THEN NoSnap ELSE P[t]
      /\ Guids(l) = {g \in Guids(P) : g <= to} /\ Others(l) = {g \in Others(P) : g <= to}
  BY <1>2, <1>4, RolledBackListing, RolledBackOthers
<1> HIDE DEF l
<1>6. /\ P' = l /\ Guids(P)' = Guids(l) /\ Others(P)' = Others(l) /\ Mine' = l[New].guid
      /\ B' = B /\ Guids(B)' = Guids(B) /\ Others(B)' = Others(B) /\ Theirs' = Theirs
  BY <1>1, NewSide DEF Datasets
<1>7. Based'
  <2>1. to \in Guids(P)' /\ to \in Guids(B)'
    BY <1>1, <1>3, <1>5, <1>6
  <2> QED
    BY <2>1 DEF Based, Common
<1>8. Placed'
  <2>1. Mine' = IF Mine > to THEN 0 ELSE Mine
    BY <1>2, <1>5, <1>6 DEF Mine
  <2>2. P'[N0].guid = IF P[N0].guid > to THEN 0 ELSE P[N0].guid
    BY <1>2, <1>5, <1>6
  <2>3. Mine \in 0..MaxGuid /\ P[N0].guid \in 0..MaxGuid /\ 0 \notin Guids(B) /\ 0 \notin Others(P)
    BY Sides
  <2>4. Theirs \in Guids(P)' => Theirs \in {Mine', P'[N0].guid}
    <3> SUFFICES ASSUME Theirs \in Guids(P)' PROVE Theirs \in {Mine', P'[N0].guid}
      OBVIOUS
    <3>1. Theirs \in Guids(P) /\ Theirs <= to
      BY <1>5, <1>6
    <3>2. Theirs = Mine \/ Theirs = P[N0].guid
      BY <3>1 DEF BaseInv, Placed
    <3>3. CASE Theirs = Mine
      BY <1>4, <2>1, <2>3, <3>1, <3>3
    <3>4. CASE Theirs = P[N0].guid
      BY <1>4, <2>2, <2>3, <3>1, <3>4
    <3> QED
      BY <3>2, <3>3, <3>4
  <2>5. Mine' \in Guids(B) => Mine' = Theirs
    BY <2>1, <2>3 DEF BaseInv, Placed
  <2>6. Mine' \notin Others(P)'
    BY <1>5, <1>6, <2>1, <2>3 DEF BaseInv, Placed
  <2> QED
    BY <1>6, <2>4, <2>5, <2>6 DEF BaseInv, Placed
<1>9. Staged'
  BY <1>1, StageGoals
<1>10. Guids(P)' \subseteq Guids(P)
  BY <1>5, <1>6
<1>11. ReplicaStep
  BY <1>1, <1>6, <1>7, <1>10, ReplicaReleases
<1> QED
  BY <1>7, <1>8, <1>9, <1>11 DEF BaseInv

\* The clients, the clock and the operator's answer leave the snapshots alone.
LEMMA OutsideBase ==
    ASSUME StoreType, BaseInv, Write \/ Tick \/ Approve \/ UNCHANGED vars
    PROVE  BaseInv' /\ ReplicaStep
<1>1. /\ UNCHANGED <<snaps, tag, pc, on>>
      /\ agreed' = agreed \/ agreed' \subseteq Guids(B)
  BY DEF Write, Tick, Approve, store, process, vars
<1>2. /\ P' = P /\ Guids(P)' = Guids(P) /\ Mine' = Mine
      /\ B' = B /\ Others(B)' = Others(B) /\ Theirs' = Theirs
  BY <1>1, SameSides
<1>3. Based' /\ Placed' /\ (Kept => Kept') /\ (agreed' = agreed => ReplicaStep)
  BY <1>1, AsideBase
<1>4. Staged'
  BY <1>1, <1>2, <1>3 DEF BaseInv, Staged, Ready, Delivered, RotatesPrimary, RotatesBackup
<1>5. CASE agreed' \subseteq Guids(B)
  <2>1. agreed' \subseteq R!Theirs
    BY <1>5, Mapped
  <2>2. R!Agree
    BY <1>1, <1>2, <2>1 DEF R!Agree, Others, Destroyed, Theirs
  <2> QED
    BY <1>3, <1>4, <2>2 DEF BaseInv, ReplicaStep, R!Next
<1> QED
  BY <1>1, <1>3, <1>4, <1>5 DEF BaseInv

\* A failing command of rotate leaves the listings alone.
LEMMA HaltedBase ==
    ASSUME StoreType, BaseInv, RotateStep, UNCHANGED snaps, pc' = "idle"
    PROVE  BaseInv' /\ ReplicaStep
<1>1. UNCHANGED <<tag, agreed>>
  BY DEF RotateStep
<1> QED
  BY <1>1, AsideBase, StageGoals DEF BaseInv

\* The primary rotates its snapshots: the newest one, which the backup has, stays, and
\* becomes the base.
LEMMA RotatePrimaryBase ==
    ASSUME StoreType, StoreType', BaseInv, on = "primary",
           snaps' = [snaps EXCEPT !["primary"] = Rotation], UNCHANGED <<tag, agreed>>,
           \/ RotateStep /\ pc' = NextStage[pc] /\ on' = on
           \/ Prune
    PROVE  BaseInv' /\ ReplicaStep
<1> DEFINE l == Rotation
<1>1. pc \in RotateStages /\ Theirs # 0 /\ (IF pc = "prune" THEN P[N0].guid = Theirs /\ Mine # Theirs ELSE Mine = Theirs)
  BY DEF RotateStep, Prune, RotateStages, BaseInv, Staged, RotatesPrimary
<1>2. P \in Listing /\ snaps["primary"] = P
  BY TypeParts DEF P
<1>3. /\ pc # "promote" => l[New] = P[New] /\ Others(l) \subseteq Others(P)
      /\ pc = "prune" => l[N0] = P[N0]
      /\ pc = "promote" => /\ l[New] = NoSnap /\ l[N0] = P[New]
                           /\ Others(l) \subseteq Others(P) \cup ({Mine} \ {0})
  BY <1>1, <1>2, RotatedSlots, PromotedOthers DEF Rotation, RotateStages, Mine
<1> HIDE DEF l
<1>4. /\ P' = l /\ Others(P)' = Others(l) /\ Mine' = l[New].guid
      /\ B' = B /\ Guids(B)' = Guids(B) /\ Others(B)' = Others(B) /\ Theirs' = Theirs
  BY NewSide DEF Datasets, l
<1>5. Mine' = IF pc = "promote" THEN 0 ELSE Mine
  BY <1>3, <1>4, SlotFacts DEF Mine
<1>6. Guids(P)' = Others(P)' \cup ({Mine'} \ {0}) /\ Guids(P) = Others(P) \cup ({Mine} \ {0})
  BY Sides, SidesNext
<1>7. Guids(P)' \subseteq Guids(P)
  BY <1>3, <1>4, <1>5, <1>6
<1>8. CASE pc # "promote" /\ pc # "prune"
  <2>1. Mine' = Theirs /\ Theirs \in Guids(P)' /\ Theirs \in Guids(B)
    BY <1>1, <1>5, <1>6, <1>8, Sides
  <2>2. Based'
    BY <1>4, <2>1 DEF Based, Common
  <2>3. Placed'
    BY <1>1, <1>3, <1>4, <1>5, <1>8, <2>1 DEF BaseInv, Placed
  <2>4. pc' \in {"shift", "promote"} /\ on' = "primary"
    BY <1>1, <1>8 DEF RotateStep, Prune, RotateStages, NextStage
  <2>5. Staged'
    BY <1>1, <1>4, <2>1, <2>4 DEF Staged, Ready, Delivered, RotatesPrimary, RotatesBackup
  <2> QED
    BY <1>4, <1>7, <2>2, <2>3, <2>5, ReplicaReleases DEF BaseInv
<1>9. CASE pc = "promote"
  <2>1. Mine' = 0 /\ P'[N0].guid = Theirs /\ Theirs \in Guids(P)' /\ Theirs \in Guids(B)
    BY <1>1, <1>3, <1>4, <1>5, <1>6, <1>9, Sides, SidesNext DEF Mine
  <2>2. Based'
    BY <1>4, <2>1 DEF Based, Common
  <2>3. 0 \notin Guids(B) /\ 0 \notin Others(P)'
    BY <1>6, Sides, SidesNext
  <2>4. Placed'
    BY <1>4, <2>1, <2>3 DEF BaseInv, Placed
  <2>5. pc' = "prune" /\ on' = "primary"
    BY <1>9 DEF RotateStep, Prune, NextStage
  <2>6. Staged'
    BY <1>1, <1>4, <2>1, <2>5 DEF Staged, Ready, Delivered, RotatesPrimary, RotatesBackup
  <2> QED
    BY <1>4, <1>7, <2>2, <2>4, <2>6, ReplicaReleases DEF BaseInv
<1>10. CASE pc = "prune"
  <2>1. Mine' = Mine /\ P'[N0] = P[N0] /\ Theirs \in Guids(P)' /\ Theirs \in Guids(B)
    BY <1>1, <1>3, <1>4, <1>5, <1>6, <1>10, Sides, SidesNext
  <2>2. Based'
    BY <1>4, <2>1 DEF Based, Common
  <2>3. Placed'
    BY <1>1, <1>3, <1>4, <1>10, <2>1 DEF BaseInv, Placed
  <2>4. pc' = "keep" /\ on' = "backup"
    BY <1>10 DEF RotateStep, Prune, Rotate
  <2>5. Staged'
    BY <1>1, <1>4, <1>10, <2>1, <2>4 DEF Staged, Ready, Delivered, RotatesPrimary, RotatesBackup
  <2> QED
    BY <1>4, <1>7, <2>2, <2>3, <2>5, ReplicaReleases DEF BaseInv
<1> QED
  BY <1>8, <1>9, <1>10

\* The backup follows: its new snapshot becomes the base that the primary has already,
\* and only what is older than it goes.
LEMMA RotateBackupBase ==
    ASSUME StoreType, StoreType', BaseInv, on = "backup",
           snaps' = [snaps EXCEPT !["backup"] = Rotation], UNCHANGED <<tag, agreed>>,
           \/ RotateStep /\ pc' = NextStage[pc] /\ on' = on
           \/ Prune
    PROVE  BaseInv' /\ ReplicaStep
<1> DEFINE l == Rotation
<1>1. /\ pc \in RotateStages
      /\ pc # "prune" => Theirs # 0 /\ P[N0].guid = Theirs /\ Mine # Theirs
      /\ pc = "promote" => B[N0] = NoSnap
      /\ pc = "prune" =>
            /\ Theirs = 0 /\ B[N0].guid # 0 /\ P[N0].guid = B[N0].guid
            /\ \A x \in Others(B) : x <= B[N0].guid
  BY DEF RotateStep, Prune, RotateStages, BaseInv, Staged, RotatesBackup
<1>2. B \in Listing /\ snaps["backup"] = B
  BY TypeParts DEF B
<1>3. /\ pc # "promote" => l[New] = B[New] /\ Others(l) \subseteq Others(B)
      /\ pc = "prune" => l[N0] = B[N0]
      /\ pc = "shift" => l[N0] = NoSnap
      /\ pc = "promote" => /\ l[New] = NoSnap /\ l[N0] = B[New]
                           /\ B[N0] = NoSnap => Others(l) = Others(B) \cup ({Theirs} \ {0})
      /\ \A s \in Slots : l[s] = NoSnap \/ \E t \in Slots : l[s] = B[t]
  BY <1>1, <1>2, RotatedSlots, PromotedOthers DEF Rotation, RotateStages, Theirs
<1> HIDE DEF l
<1>4. /\ B' = l /\ Others(B)' = Others(l) /\ Theirs' = l[New].guid
      /\ P' = P /\ Guids(P)' = Guids(P) /\ Others(P)' = Others(P) /\ Mine' = Mine
  BY NewSide DEF Datasets, l
<1>5. Theirs' = IF pc = "promote" THEN 0 ELSE Theirs
  BY <1>3, <1>4, SlotFacts DEF Theirs
<1>6. /\ Guids(B)' = Others(B)' \cup ({Theirs'} \ {0}) /\ Guids(B) = Others(B) \cup ({Theirs} \ {0})
      /\ Guids(B) \subseteq 1..MaxGuid /\ 0 \notin Guids(B) /\ 0 \notin Guids(P)
      /\ Theirs \in 0..MaxGuid /\ B[N0].guid \in 0..MaxGuid
  BY Sides, SidesNext
<1>7. \A s \in Slots : B'[s] = NoSnap \/ B'[s].guid # 0
  BY <1>3, <1>4 DEF BaseInv, Placed
<1>8. P[N0].guid # 0 => P[N0].guid \in Guids(P)
  BY Sides
<1>9. ASSUME Others(B)' \subseteq Others(B), UNCHANGED <<Guids(P), Theirs>>,
             NEW base \in Common, \A x \in Others(B) \ Others(B)' : x < base
      PROVE  ReplicaStep
  <2>1. base \in R!Shared
    BY <1>9, Mapped
  <2>2. R!Expire
    BY <1>9, <2>1 DEF R!Expire, Others, Destroyed, Theirs
  <2> QED
    BY <2>2 DEF ReplicaStep, R!Next
<1>10. CASE pc # "promote" /\ pc # "prune"
  <2>1. /\ Theirs' = Theirs /\ Theirs # 0 /\ Theirs \in Common /\ Theirs \in Common'
        /\ Others(B)' \subseteq Others(B) /\ Guids(B)' \subseteq Guids(B)
    BY <1>1, <1>3, <1>4, <1>5, <1>6, <1>8, <1>10 DEF Common
  <2>2. Based'
    BY <2>1 DEF Based
  <2>3. Placed'
    BY <1>4, <1>7, <2>1 DEF BaseInv, Placed
  <2>4. /\ pc' \in {"shift", "promote"} /\ on' = "backup"
        /\ pc' = "promote" => pc = "shift"
    BY <1>1, <1>10 DEF RotateStep, Prune, RotateStages, NextStage
  <2>5. pc' = "promote" => B'[N0] = NoSnap
    BY <1>3, <1>4, <2>4
  <2>6. Staged'
    BY <1>1, <1>4, <1>10, <2>1, <2>4, <2>5 DEF Staged, Ready, Delivered, RotatesPrimary, RotatesBackup
  <2>7. \A x \in Others(B) \ Others(B)' : x < Theirs
    BY <2>1 DEF BaseInv, Placed
  <2>8. ReplicaStep
    BY <1>4, <1>9, <2>1, <2>7
  <2> QED
    BY <2>2, <2>3, <2>6, <2>8 DEF BaseInv
<1>11. CASE pc = "promote"
  <2>1. /\ Theirs' = 0 /\ Theirs # 0 /\ Others(B)' = Others(B) \cup {Theirs} /\ Guids(B)' = Guids(B)
        /\ B'[N0].guid = Theirs /\ P[N0].guid = Theirs /\ Mine # Theirs
        /\ Theirs \in Guids(P) /\ Theirs \in Guids(B)
    BY <1>1, <1>3, <1>4, <1>5, <1>6, <1>8, <1>11 DEF Theirs
  <2>2. Based'
    BY <1>4, <2>1 DEF Based, Common
  <2>3. Placed'
    <3>1. Mine \notin Guids(B)
      BY <2>1 DEF BaseInv, Placed
    <3> QED
      BY <1>4, <1>6, <1>7, <2>1, <3>1 DEF BaseInv, Placed
  <2>4. pc' = "prune" /\ on' = "backup"
    BY <1>11 DEF RotateStep, Prune, NextStage
  <2>5. \A x \in Others(B)' : x <= Theirs
    <3>1. \A x \in Others(B) : x \in Int /\ x < Theirs
      BY <1>6, <2>1 DEF BaseInv, Placed
    <3> QED
      BY <1>6, <2>1, <3>1
  <2>6. Staged'
    BY <1>4, <2>1, <2>4, <2>5 DEF Staged, Ready, Delivered, RotatesPrimary, RotatesBackup
  <2>7. R!Confirm
    BY <1>4, <2>1 DEF R!Confirm, Others, Destroyed, Theirs
  <2> QED
    BY <2>2, <2>3, <2>6, <2>7 DEF BaseInv, ReplicaStep, R!Next
<1>12. CASE pc = "prune"
  <2> DEFINE base == B[N0].guid
  <2>1. /\ Theirs' = 0 /\ Theirs = 0 /\ B'[N0] = B[N0]
        /\ Others(B)' \subseteq Others(B) /\ Guids(B)' \subseteq Guids(B)
        /\ base # 0 /\ \A x \in Others(B) : x <= base
    BY <1>1, <1>3, <1>4, <1>5, <1>6, <1>12
  <2>2. base \in Others(B)' /\ base \in Guids(P) /\ base \in Guids(B)' /\ base \in Guids(B)
    BY <1>1, <1>6, <1>8, <1>12, <2>1, SidesNext
  <2> HIDE DEF base
  <2>3. Based'
    BY <1>4, <2>2 DEF Based, Common
  <2>4. Placed'
    BY <1>4, <1>6, <1>7, <2>1 DEF BaseInv, Placed
  <2>5. Staged'
    <3>1. pc' \in {"check", "idle"}
      BY <1>12 DEF RotateStep, Prune, Return
    <3> QED
      BY <2>1, <3>1, StageGoals
  <2>6. \A x \in Others(B) \ Others(B)' : x < base
    BY <1>6, <2>1, <2>2
  <2>7. ReplicaStep
    BY <1>4, <1>9, <2>1, <2>2, <2>6 DEF Common
  <2> QED
    BY <2>3, <2>4, <2>5, <2>7 DEF BaseInv
<1> QED
  BY <1>10, <1>11, <1>12

\* An expired snapshot that cannot be destroyed stays; the cycle goes on.
LEMMA PruneBase ==
    ASSUME StoreType, BaseInv, Prune, UNCHANGED snaps
    PROVE  BaseInv' /\ ReplicaStep
<1>1. pc = "prune" /\ UNCHANGED <<tag, agreed>> /\ pc \in RotateStages
  BY DEF Prune, RotateStages
<1>2. P' = P /\ Mine' = Mine /\ B' = B /\ Theirs' = Theirs
  BY <1>1, SameSides
<1>3. CASE on = "primary" /\ Rotate("backup", recovering)
  <2>1. Theirs # 0 /\ P[N0].guid = Theirs /\ Mine # Theirs /\ pc' = "keep" /\ on' = "backup"
    BY <1>1, <1>3 DEF BaseInv, Staged, RotatesPrimary, Rotate
  <2>2. Staged'
    BY <1>2, <2>1 DEF Staged, Ready, Delivered, RotatesPrimary, RotatesBackup
  <2> QED
    BY <1>1, <2>2, AsideBase DEF BaseInv
<1>4. CASE on = "backup" /\ pc' \in {"check", "idle"}
  <2>1. Theirs' = 0
    BY <1>1, <1>2, <1>4 DEF BaseInv, Staged, RotatesBackup
  <2> QED
    BY <1>1, <1>4, <2>1, AsideBase, StageGoals DEF BaseInv
<1>5. (on = "primary" /\ Rotate("backup", recovering)) \/ (on = "backup" /\ pc' \in {"check", "idle"})
  BY DEF Prune, Return
<1> QED
  BY <1>3, <1>4, <1>5

\* Every step keeps the base and is a step of the replica, or none of its business.
LEMMA BaseStep ==
    TypeOK /\ TypeOK' /\ RollbackInv /\ BaseInv /\ [Next /\ ListingsWork]_vars => BaseInv' /\ ReplicaStep
<1> SUFFICES ASSUME StoreType, StoreType', RestType, RollbackInv, BaseInv,
                    [Next /\ ListingsWork]_vars
             PROVE  BaseInv' /\ ReplicaStep
  BY TypeParts DEF TypeOK, StoreType
<1>1. ASSUME RecoverCycle, ListingsWork PROVE BaseInv' /\ ReplicaStep
  BY <1>1, RecoverBase
<1>2. CASE DropBackup \/ DropPrimary \/ Check \/ TakeSnapshot
  BY <1>2, DropBackupBase, DropPrimaryBase, CheckBase, TakeBase
<1>3. CASE FullSend \/ SetTag \/ Resume \/ Decide \/ IncrSend
  BY <1>3, FullSendBase, SetTagBase, DecideBase, IncrSendBase
<1>4. CASE Consume \/ Confirm \/ Mark \/ Fail \/ Crash
  BY <1>4, ConsumeBase, ConfirmBase, FailBase, CrashBase
<1>5. CASE RotateStep \/ Prune
  <2>1. /\ UNCHANGED <<tag, agreed>> /\ (on = "primary" \/ on = "backup")
        /\ UNCHANGED snaps \/ snaps' = [snaps EXCEPT ![on] = Rotation]
    BY <1>5 DEF RotateStep, Prune, RestType, Datasets
  <2>2. CASE RotateStep
    <3>1. \/ UNCHANGED snaps /\ pc' = "idle"
          \/ snaps' = [snaps EXCEPT ![on] = Rotation] /\ pc' = NextStage[pc] /\ on' = on
      BY <2>2 DEF RotateStep, Goto, Return
    <3> QED
      BY <2>1, <2>2, <3>1, HaltedBase, RotatePrimaryBase, RotateBackupBase
  <2>3. CASE Prune
    BY <2>1, <2>3, PruneBase, RotatePrimaryBase, RotateBackupBase
  <2> QED
    BY <1>5, <2>2, <2>3
<1>6. ASSUME NEW s \in {N0, N1}, Rollback(s) PROVE BaseInv' /\ ReplicaStep
  BY <1>6, RollbackBase
<1>7. CASE Write \/ Tick \/ Approve \/ UNCHANGED vars
  BY <1>7, OutsideBase
<1> QED
  BY <1>1, <1>2, <1>3, <1>4, <1>5, <1>6, <1>7 DEF Next, Cycle

\* Nothing is there, and nothing is promised, before the first cycle.
LEMMA BaseInit == Init => RollbackInv /\ BaseInv /\ R!Init
<1> SUFFICES ASSUME Init PROVE RollbackInv /\ BaseInv /\ R!Init
  OBVIOUS
<1>1. P = Empty /\ B = Empty /\ Empty \in Listing
  BY SlotFacts DEF Init, P, B, Datasets
<1>2. \A s \in Slots : Empty[s] = NoSnap
  BY DEF Empty
<1>3. Guids(Empty) = {} /\ Others(Empty) = {}
  <2>1. Guids(Empty) = {}
    BY <1>2, SlotFacts DEF Guids
  <2> QED
    BY <1>1, <2>1, OthersFacts
<1>4. Mine = 0 /\ Theirs = 0 /\ P[N0].guid = 0
  BY <1>1, <1>2, SlotFacts DEF Mine, Theirs
<1>5. RollbackInv
  <2>1. Guids(B) = {}
    BY <1>1, <1>3
  <2> QED
    BY <2>1 DEF Init, RollbackInv, Settled, Common, Fresh, Unfinished, Covered, Consented
<1>6. Placed
  BY <1>1, <1>2, <1>3, <1>4 DEF Placed
<1>7. Based /\ Staged
  BY <1>1, <1>3 DEF Init, Based, Staged, Ready, Delivered, RotatesPrimary, RotatesBackup, RotateStages
<1>8. R!Init
  BY <1>1, <1>3, <1>4 DEF Init, R!Init, Others, Destroyed, Theirs
<1> QED
  BY <1>5, <1>6, <1>7, <1>8 DEF BaseInv

\* The invariant of the cycle, as long as recoverCycle sees what is there.
LEMMA BaseInvariant == SeeingSpec => [](TypeOK /\ RollbackInv /\ BaseInv)
<1>1. [Next /\ ListingsWork]_vars => [Next]_vars
  OBVIOUS
<1> QED
  BY <1>1, BaseInit, BaseStep, RollbackStep, CycleTypeCorrect, PTL DEF SeeingSpec, Spec

\* An established backup shares a snapshot with the primary, whichever commands fail and
\* wherever a crash interrupts a cycle, a recovery or a rotation (cycle: "no common base
\* snapshot"), unless recoverCycle takes a listing that failed for "no such snapshot".
THEOREM BaseSurvives == SeeingSpec => []CommonBase
<1>1. TypeOK /\ BaseInv => CommonBase
  <2> SUFFICES ASSUME StoreType, BaseInv, tag, B[N0] # NoSnap PROVE Common # {}
    BY TypeParts DEF CommonBase, Established, Has, Common
  <2>1. B[N0].guid # 0 /\ B[N0].guid \in Others(B)
    BY Sides, SlotFacts DEF BaseInv, Placed
  <2> QED
    BY <2>1 DEF BaseInv, Based
<1> QED
  BY <1>1, BaseInvariant, PTL

\* Under the same condition the cycle implements the abstract replica, command by command.
THEOREM CycleImplementsReplica == SeeingSpec => ImplementsReplica
<1>1. TypeOK /\ TypeOK' /\ RollbackInv /\ BaseInv /\ [Next /\ ListingsWork]_vars => [R!Next]_R!vars
  BY BaseStep DEF ReplicaStep
<1>2. Init => R!Init
  BY BaseInit
<1> QED
  BY <1>1, <1>2, BaseInvariant, PTL DEF SeeingSpec, ImplementsReplica, R!Spec

============================================================================

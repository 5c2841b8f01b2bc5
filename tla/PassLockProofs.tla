--------------------------- MODULE PassLockProofs ---------------------------
(* Theorems about the lock file, for every set of processes. *)
EXTENDS PassLock, TLAPS

\* Type correctness of Acquire, Unlock, crashes and time.
THEOREM LockTypeCorrect == Spec => []TypeOK
<1>1. Init => TypeOK
  <2> SUFFICES ASSUME Init PROVE TypeOK
    OBVIOUS
  <2>1. robbed \in BOOLEAN
    BY Zenon DEF Init
  <2> QED
    BY <2>1, LimitsAssumption DEF Init, TypeOK, Steps
<1>2. TypeOK /\ [Next]_vars => TypeOK'
  <2> SUFFICES ASSUME TypeOK, [Next]_vars PROVE TypeOK'
    OBVIOUS
  <2> USE LimitsAssumption DEF TypeOK, Steps
  <2>1. ASSUME NEW p \in Procs, Call(p) PROVE TypeOK'
    BY <2>1 DEF Call, Goto
  <2>2. ASSUME NEW p \in Procs, Open(p) PROVE TypeOK'
    BY <2>2 DEF Open, Goto
  <2>3. ASSUME NEW p \in Procs, Stat(p) \/ CheckDeadline(p) \/ Crash(p) PROVE TypeOK'
    BY <2>3 DEF Stat, CheckDeadline, Crash, Goto
  <2>4. ASSUME NEW p \in Procs, Steal(p) \/ Unlock(p) PROVE TypeOK'
    <3>1. robbed' \in BOOLEAN
      BY <2>4, Zenon DEF Steal, Unlock, RemoveFile
    <3>2. file' = "none" /\ age' = 0 /\ UNCHANGED <<waited, calls>>
      BY <2>4 DEF Steal, Unlock, RemoveFile
    <3>3. pc' \in [Procs -> Steps]
      BY <2>4 DEF Steal, Unlock, Goto
    <3> QED
      BY <3>1, <3>2, <3>3
  <2>5. CASE Tick
    BY <2>5 DEF Tick
  <2>6. CASE UNCHANGED vars
    BY <2>6 DEF vars
  <2> QED
    BY <2>1, <2>2, <2>3, <2>4, <2>5, <2>6 DEF Next, Acquire
<1> QED
  BY <1>1, <1>2, PTL DEF Spec

\* The inductive invariant: O_EXCL creation ties the critical section to the file.
LEMMA HolderInvariant == Spec => []HolderOwnsFile
<1>1. Init => HolderOwnsFile
  BY DEF Init, HolderOwnsFile
<1>2. TypeOK /\ HolderOwnsFile /\ [Next]_vars => HolderOwnsFile'
  <2> SUFFICES ASSUME TypeOK, HolderOwnsFile, [Next]_vars PROVE HolderOwnsFile'
    OBVIOUS
  <2> USE DEF TypeOK, HolderOwnsFile
  <2>1. ASSUME NEW p \in Procs, Call(p) PROVE HolderOwnsFile'
    BY <2>1 DEF Call, Goto
  <2>2. ASSUME NEW p \in Procs, Open(p) PROVE HolderOwnsFile'
    BY <2>2, ProcsAssumption DEF Open, Goto
  <2>3. ASSUME NEW p \in Procs, Stat(p) \/ CheckDeadline(p) \/ Crash(p) PROVE HolderOwnsFile'
    BY <2>3 DEF Stat, CheckDeadline, Crash, Goto
  <2>4. ASSUME NEW p \in Procs, Steal(p) \/ Unlock(p) PROVE HolderOwnsFile'
    <3> SUFFICES ASSUME ~ robbed', NEW q \in Procs, pc'[q] = "held" PROVE FALSE
      BY DEF HolderOwnsFile
    <3>1. q # p /\ pc[q] = "held"
      BY <2>4 DEF Steal, Unlock, Goto
    <3>2. ~ robbed /\ ~ (\E r \in Procs \ {p} : file = r /\ pc[r] = "held")
      BY <2>4 DEF Steal, Unlock, RemoveFile
    <3> QED
      BY <3>1, <3>2
  <2>5. CASE Tick
    BY <2>5 DEF Tick
  <2>6. CASE UNCHANGED vars
    BY <2>6 DEF vars
  <2> QED
    BY <2>1, <2>2, <2>3, <2>4, <2>5, <2>6 DEF Next, Acquire
<1> QED
  BY <1>1, <1>2, LockTypeCorrect, PTL DEF Spec

\* Mutual exclusion of passes until a lock file is removed under its holder:
\* O_EXCL creation alone is sound, only the steals are not.
THEOREM LockSafe == Spec => []ExclusiveUnlessRobbed
<1>1. HolderOwnsFile => ExclusiveUnlessRobbed
  BY DEF HolderOwnsFile, ExclusiveUnlessRobbed, MutualExclusion
<1> QED
  BY <1>1, HolderInvariant, PTL

\* The lock file implements a mutex that may be broken: Acquire enters, Unlock and
\* a crash leave, and only the removal of a file whose owner is inside breaks it.
THEOREM LockImplementsMutex == Spec => ImplementsMutex
<1> DEFINE Inside == {p \in Procs : pc[p] = "held"}
<1>1. Init => M!Init
  <2> SUFFICES ASSUME Init PROVE M!Init
    OBVIOUS
  <2>1. Inside = {}
    BY DEF Init
  <2>2. robbed = FALSE
    BY DEF Init
  <2> QED
    BY <2>1, <2>2 DEF M!Init
<1>2. TypeOK /\ HolderOwnsFile /\ [Next]_vars => [M!Next]_<<Inside, robbed>>
  <2> SUFFICES ASSUME TypeOK, HolderOwnsFile, [Next]_vars
               PROVE  M!Next \/ UNCHANGED <<Inside, robbed>>
    OBVIOUS
  <2> USE DEF TypeOK, Steps
  <2>1. ASSUME NEW p \in Procs, Call(p) \/ Stat(p) \/ CheckDeadline(p)
        PROVE  UNCHANGED <<Inside, robbed>>
    <3>1. Inside' = Inside
      BY <2>1 DEF Call, Stat, CheckDeadline, Goto
    <3> QED
      BY <2>1, <3>1 DEF Call, Stat, CheckDeadline
  <2>2. ASSUME NEW p \in Procs, Open(p)
        PROVE  M!Next \/ UNCHANGED <<Inside, robbed>>
    <3>1. CASE file = "none"
      <4>1. p \notin Inside /\ Inside' = Inside \cup {p} /\ UNCHANGED robbed
        BY <2>2, <3>1 DEF Open, Goto
      <4>2. robbed \/ Inside = {}
        <5>1. ASSUME ~ robbed, NEW q \in Inside PROVE FALSE
          BY <3>1, <5>1, ProcsAssumption DEF HolderOwnsFile
        <5> QED
          BY <5>1, Zenon
      <4>3. p \in Inside'
        BY <4>1
      <4> QED
        BY <4>1, <4>2, <4>3, Zenon DEF M!Next, M!Enter
    <3>2. CASE file # "none"
      <4>1. Inside' = Inside
        BY <2>2, <3>2 DEF Open, Goto
      <4> QED
        BY <2>2, <4>1 DEF Open
    <3> QED
      BY <3>1, <3>2
  <2>3. ASSUME NEW p \in Procs, Steal(p)
        PROVE  M!Next \/ UNCHANGED <<Inside, robbed>>
    <3>1. Inside' = Inside
      BY <2>3 DEF Steal, Goto
    <3>2. CASE robbed' = robbed
      BY <3>1, <3>2
    <3>3. CASE robbed' # robbed
      <4>1. robbed' = TRUE
        BY <2>3, <3>3 DEF Steal, RemoveFile
      <4>2. Inside # {}
        BY <2>3, <3>3 DEF Steal, RemoveFile
      <4> QED
        BY <3>1, <4>1, <4>2, Zenon DEF M!Next, M!Break
    <3> QED
      BY <3>2, <3>3
  <2>4. ASSUME NEW p \in Procs, Unlock(p) PROVE M!Next
    <3>1. p \in Inside /\ Inside' = Inside \ {p}
      BY <2>4 DEF Unlock, Goto
    <3>2. robbed' = robbed \/ (Inside' # {} /\ robbed' = TRUE)
      BY <2>4, <3>1 DEF Unlock, RemoveFile
    <3> QED
      BY <3>1, <3>2, Zenon DEF M!Next, M!Leave
  <2>5. ASSUME NEW p \in Procs, Crash(p)
        PROVE  M!Next \/ UNCHANGED <<Inside, robbed>>
    <3>1. UNCHANGED robbed
      BY <2>5 DEF Crash
    <3>2. CASE pc[p] = "held"
      <4>1. p \in Inside /\ Inside' = Inside \ {p}
        BY <2>5, <3>2 DEF Crash, Goto
      <4> QED
        BY <3>1, <4>1, Zenon DEF M!Next, M!Leave
    <3>3. CASE pc[p] # "held"
      <4>1. Inside' = Inside
        BY <2>5, <3>3 DEF Crash, Goto
      <4> QED
        BY <3>1, <4>1
    <3> QED
      BY <3>2, <3>3
  <2>6. CASE Tick
    BY <2>6 DEF Tick
  <2>7. CASE UNCHANGED vars
    BY <2>7 DEF vars
  <2> QED
    BY <2>1, <2>2, <2>3, <2>4, <2>5, <2>6, <2>7 DEF Next, Acquire
<1> QED
  BY <1>1, <1>2, LockTypeCorrect, HolderInvariant, PTL DEF Spec, ImplementsMutex, M!Spec
============================================================================

----------------------------- MODULE ZfsStore -----------------------------
(***************************************************************************)
(* The snapshots of one dataset as the replication sees them: a listing    *)
(* (listSnaps) maps each slot name behind the prefix sync_<nr>_<guid>_ to  *)
(* a snapshot or to NoSnap.  The operators are what the zfs commands of    *)
(* the service do to a listing.  The numbers of GUIDs also give the order  *)
(* of creation (createtxg).                                                *)
(***************************************************************************)
EXTENDS Integers, FiniteSets

CONSTANTS
    HoursPerDay, KeepHours, KeepDays,
    MaxHour,        \* bound: the clock
    MaxGuid,        \* bound: snapshots that exist at a time, by number
    MaxWrites       \* bound: changes of the primary's data

ASSUME ZfsTimes == HoursPerDay \in Nat \ {0} /\ KeepHours \in Nat /\ KeepDays \in Nat
ASSUME ZfsStoreBounds == {MaxHour, MaxGuid, MaxWrites} \subseteq Nat

Day(h) == h \div HoursPerDay
Hours == 0..MaxHour
Days == 0..Day(MaxHour)

New == <<"new", 0>>
N0 == <<"n0", 0>>
N1 == <<"n1", 0>>
Kf(h) == <<"kf", Day(h)>>
Kd(h) == <<"kd", Day(h)>>
Kh(h) == <<"kh", h>>
KeptSlots == ({"kf", "kd"} \X Days) \cup ({"kh"} \X Hours)
Slots == {New, N0, N1} \cup KeptSlots

\* A snapshot: zsnap, the data it holds and its property cs:consistent.
Snapshot == [guid : 0..MaxGuid, created : Hours, data : 0..MaxWrites, frozen : BOOLEAN]
NoSnap == [guid |-> 0, created |-> 0, data |-> 0, frozen |-> FALSE]

Listing == [Slots -> Snapshot]
Empty == [s \in Slots |-> NoSnap]

Has(l, s) == l[s] # NoSnap
Guids(l) == {l[s].guid : s \in Slots} \ {0}
MaxOf(S) == IF S = {} THEN 0 ELSE CHOOSE x \in S : \A y \in S : y <= x

\* destroySnap
Destroyed(l, s) == [l EXCEPT ![s] = NoSnap]

\* zfs rename
RenameSnap(l, s, t) == [l EXCEPT ![s] = NoSnap, ![t] = l[s]]

\* Mutant: the base itself is rolled back.
RolledBackBase(l, base) == [s \in Slots |-> IF l[s].guid >= base THEN NoSnap ELSE l[s]]

\* What a rollback to a snapshot, or recv -F on top of it, leaves.
RolledBack(l, base) == [s \in Slots |-> IF l[s].guid > base THEN NoSnap ELSE l[s]]

----------------------------------------------------------------------------
(* rotate *)

\* Where n1 goes; N1 itself stands for its destruction.
KeptAs(l, keep) ==
    LET n1 == l[N1]
        kf == n1.frozen /\ ~ Has(l, Kf(n1.created))
        kd == keep /\ ~ Has(l, Kd(n1.created))
        kh == keep /\ ~ Has(l, Kh(n1.created))
    IN  CASE kf -> Kf(n1.created)
          [] ~ kf /\ kd -> Kd(n1.created)
          [] ~ kf /\ ~ kd /\ kh -> Kh(n1.created)
          [] OTHER -> N1

Expired(l, now) ==
    {s \in KeptSlots :
        /\ Has(l, s)
        /\ LET age == now - l[s].created
           IN  IF s[1] = "kh" THEN age > KeepHours ELSE age > KeepDays * HoursPerDay}

RotateStages == {"keep", "shift", "promote", "prune"}
NextStage == [keep |-> "shift", shift |-> "promote", promote |-> "prune"]

\* Mutant: the old base is destroyed when the new one is in place.
ShiftDestroys(l) == Destroyed(l, N0)

Shift(l) == IF Has(l, N0) THEN RenameSnap(l, N0, N1) ELSE l

\* The listing after one command of rotate: n1 is kept or destroyed, n0 becomes
\* n1, new becomes n0, expired snapshots go.  A command for a snapshot that does
\* not exist is not issued.
Rotated(l, stage, keep, now) ==
    CASE stage = "keep" -> IF Has(l, N1) /\ KeptAs(l, keep) # N1
                           THEN RenameSnap(l, N1, KeptAs(l, keep)) ELSE Destroyed(l, N1)
      [] stage = "shift" -> Shift(l)
      [] stage = "promote" -> RenameSnap(l, New, N0)
      [] stage = "prune" -> [s \in Slots |-> IF s \in Expired(l, now) THEN NoSnap ELSE l[s]]
============================================================================

-------------------------- MODULE ZfsStoreProofs --------------------------
(* What the operators on snapshot listings return, keep and bound. *)
EXTENDS ZfsStore, WellFoundedInduction, TLAPS

\* A set of naturals that is not empty has a least element.
LEMMA LeastNatural ==
    ASSUME NEW T \in SUBSET Nat, T # {}
    PROVE  \E x \in T : \A y \in T : x <= y
<1> DEFINE less == OpToRel(<, Nat)
<1>1. IsWellFoundedOn(less, Nat)
  BY NatLessThanWellFounded
<1>2. \A x, y \in Nat : x < y => <<x, y>> \in less
  BY DEF OpToRel
<1> HIDE DEF less
<1>3. \E x \in T : \A y \in T : <<y, x>> \notin less
  BY <1>1, WFMin
<1>4. PICK x \in T : \A y \in T : <<y, x>> \notin less
  BY <1>3
<1>5. \A y \in T : ~ (y < x)
  BY <1>2, <1>4
<1> QED
  BY <1>5

\* A bounded one has a greatest element.
LEMMA GreatestNatural ==
    ASSUME NEW n \in Nat, NEW T \in SUBSET (0..n), T # {}
    PROVE  \E x \in T : \A y \in T : y <= x
<1> DEFINE U == {k \in Nat : n - k \in T}
<1>1. U # {}
  <2>1. PICK t \in T : TRUE
    OBVIOUS
  <2>2. n - t \in Nat /\ n - (n - t) = t
    OBVIOUS
  <2>3. n - t \in U
    BY <2>2
  <2> QED
    BY <2>3
<1>2. PICK k \in U : \A y \in U : k <= y
  <2> HIDE DEF U
  <2>1. U \in SUBSET Nat
    BY DEF U
  <2> QED
    BY <1>1, <2>1, LeastNatural
<1>3. ASSUME NEW y \in T PROVE y <= n - k
  <2>1. y \in Int /\ k \in Int /\ n - y \in Nat /\ n - (n - y) = y
    OBVIOUS
  <2>2. n - y \in U
    BY <2>1
  <2>3. k <= n - y
    BY <1>2, <2>2
  <2> QED
    BY <2>1, <2>3
<1> QED
  BY <1>3

\* MaxOf is a maximum.
LEMMA MaxOfIsMax ==
    ASSUME NEW S \in SUBSET (0..MaxGuid)
    PROVE  /\ MaxOf(S) \in 0..MaxGuid
           /\ S # {} => MaxOf(S) \in S
           /\ \A y \in S : y <= MaxOf(S)
<1>1. MaxGuid \in Nat
  BY ZfsStoreBounds
<1>2. CASE S = {}
  BY <1>1, <1>2 DEF MaxOf
<1>3. CASE S # {}
  <2>1. \E x \in S : \A y \in S : y <= x
    BY <1>1, <1>3, GreatestNatural
  <2>2. MaxOf(S) = CHOOSE x \in S : \A y \in S : y <= x
    BY <1>3 DEF MaxOf
  <2>3. MaxOf(S) \in S /\ \A y \in S : y <= MaxOf(S)
    BY <2>1, <2>2
  <2> QED
    BY <2>3
<1> QED
  BY <1>2, <1>3

\* The named slots, the empty snapshot and the empty listing.
LEMMA SlotFacts ==
    /\ New \in Slots /\ N0 \in Slots /\ N1 \in Slots
    /\ New # N0 /\ New # N1 /\ N0 # N1
    /\ NoSnap \in Snapshot /\ NoSnap.guid = 0
    /\ Empty \in Listing
<1>1. New \in Slots /\ N0 \in Slots /\ N1 \in Slots
  BY DEF Slots
<1>2. New # N0 /\ New # N1 /\ N0 # N1
  BY DEF New, N0, N1
<1>3. NoSnap \in Snapshot /\ NoSnap.guid = 0
  BY ZfsStoreBounds DEF NoSnap, Snapshot, Hours
<1> QED
  BY <1>1, <1>2, <1>3 DEF Empty, Listing

\* The GUIDs of a listing are the numbers of its snapshots.
LEMMA GuidsFacts ==
    ASSUME NEW l \in Listing
    PROVE  /\ Guids(l) \subseteq 1..MaxGuid
           /\ \A s \in Slots : l[s].guid \in 0..MaxGuid
           /\ \A s \in Slots : l[s].guid # 0 => l[s].guid \in Guids(l)
<1>1. \A s \in Slots : l[s].guid \in 0..MaxGuid
  BY DEF Listing, Snapshot
<1> QED
  BY <1>1, ZfsStoreBounds DEF Guids

\* A listing whose snapshots are snapshots of another one has no other GUIDs.
LEMMA GuidsSubset ==
    ASSUME NEW l, NEW k, \A s \in Slots : k[s] = NoSnap \/ \E t \in Slots : k[s].guid = l[t].guid
    PROVE  Guids(k) \subseteq Guids(l)
  BY SlotFacts DEF Guids

\* A day of the clock is one of the days, and no later number than its hours.
LEMMA DayType ==
    ASSUME NEW h \in Hours
    PROVE  Day(h) \in Days /\ Day(h) \in 0..h
<1> DEFINE d == HoursPerDay
<1>1. d \in Nat /\ d > 0 /\ h \in Nat /\ MaxHour \in Nat /\ h <= MaxHour
  BY ZfsTimes, ZfsStoreBounds DEF Hours
<1> HIDE DEF d
<1>2. ASSUME NEW x \in Nat PROVE x \div d \in Nat /\ d * (x \div d) <= x /\ x < d * (x \div d) + d
  BY <1>1
<1> DEFINE p == h \div d
           q == MaxHour \div d
<1>3. p \in Nat /\ q \in Nat /\ d * p <= h /\ MaxHour < d * q + d
  BY <1>1, <1>2
<1> HIDE DEF p, q
<1>4. p <= q
  <2>1. ASSUME p >= q + 1 PROVE FALSE
    <3>1. PICK k \in Nat : p = q + 1 + k
      <4>1. p - q - 1 \in Nat /\ p = q + 1 + (p - q - 1)
        BY <2>1, <1>3
      <4> QED
        BY <4>1
    <3>2. d * p = d * q + d + d * k /\ d * k >= 0
      BY <3>1, <1>1, <1>3
    <3> QED
      BY <3>2, <1>1, <1>3
  <2> QED
    BY <2>1, <1>3
<1>5. p <= h
  <2>1. PICK k \in Nat : d = 1 + k
    <3>1. d - 1 \in Nat /\ d = 1 + (d - 1)
      BY <1>1
    <3> QED
      BY <3>1
  <2>2. d * p = p + k * p /\ k * p >= 0
    BY <2>1, <1>3
  <2> QED
    BY <2>2, <1>1, <1>3
<1> QED
  BY <1>1, <1>3, <1>4, <1>5 DEF Day, Days, p, q, d

\* destroySnap takes a snapshot out of a listing.
LEMMA DestroyedListing ==
    ASSUME NEW l \in Listing, NEW s \in Slots
    PROVE  Destroyed(l, s) \in Listing /\ Guids(Destroyed(l, s)) \subseteq Guids(l)
<1>1. Destroyed(l, s) \in Listing /\ \A t \in Slots : Destroyed(l, s)[t] \in {NoSnap, l[t]}
  BY SlotFacts DEF Destroyed, Listing
<1> QED
  BY <1>1, GuidsSubset

\* zfs rename moves one.
LEMMA RenamedListing ==
    ASSUME NEW l \in Listing, NEW s \in Slots, NEW t \in Slots
    PROVE  RenameSnap(l, s, t) \in Listing /\ Guids(RenameSnap(l, s, t)) \subseteq Guids(l)
<1>1. RenameSnap(l, s, t) \in Listing
  BY SlotFacts DEF RenameSnap, Listing
<1>2. \A u \in Slots : RenameSnap(l, s, t)[u] \in {NoSnap, l[u], l[s]}
  BY DEF RenameSnap, Listing
<1> QED
  BY <1>1, <1>2, GuidsSubset

\* A rollback leaves exactly what is not newer than its base.
LEMMA RolledBackListing ==
    ASSUME NEW l \in Listing, NEW base \in 0..MaxGuid
    PROVE  /\ RolledBack(l, base) \in Listing
           /\ \A s \in Slots : RolledBack(l, base)[s] = IF l[s].guid > base THEN NoSnap ELSE l[s]
           /\ Guids(RolledBack(l, base)) = {g \in Guids(l) : g <= base}
<1>1. RolledBack(l, base) \in Listing
  BY SlotFacts DEF RolledBack, Listing
<1>2. \A s \in Slots : RolledBack(l, base)[s] = IF l[s].guid > base THEN NoSnap ELSE l[s]
  BY DEF RolledBack
<1>3. \A s \in Slots : l[s].guid \in 0..MaxGuid
  BY GuidsFacts
<1>4. base \in Int /\ MaxGuid \in Int
  BY ZfsStoreBounds
<1> DEFINE k == RolledBack(l, base)
<1> HIDE DEF k
<1>5. ASSUME NEW g \in Guids(k) PROVE g \in Guids(l) /\ g <= base
  <2>1. PICK s \in Slots : g = k[s].guid /\ g # 0
    BY DEF Guids
  <2>2. k[s] = l[s] /\ ~ (l[s].guid > base)
    BY <2>1, <1>2, SlotFacts DEF k
  <2> QED
    BY <2>1, <2>2, <1>3, <1>4 DEF Guids
<1>6. ASSUME NEW g \in Guids(l), g <= base PROVE g \in Guids(k)
  <2>1. PICK s \in Slots : g = l[s].guid /\ g # 0
    BY DEF Guids
  <2>2. k[s] = l[s]
    BY <1>2, <1>3, <1>4, <1>6, <2>1 DEF k
  <2> QED
    BY <2>1, <2>2 DEF Guids
<1>7. Guids(k) = {g \in Guids(l) : g <= base}
  BY <1>5, <1>6
<1> QED
  BY <1>1, <1>2, <1>7 DEF k

\* Where rotate puts n1 is a slot.
LEMMA KeptAsSlot ==
    ASSUME NEW l \in Listing, NEW keep
    PROVE  KeptAs(l, keep) \in Slots
<1>1. l[N1].created \in Hours
  BY SlotFacts DEF Listing, Snapshot
<1>2. Kf(l[N1].created) \in Slots /\ Kd(l[N1].created) \in Slots /\ Kh(l[N1].created) \in Slots
  BY <1>1, DayType DEF Kf, Kd, Kh, KeptSlots, Slots
<1>3. KeptAs(l, keep) \in {Kf(l[N1].created), Kd(l[N1].created), Kh(l[N1].created), N1}
  BY DEF KeptAs
<1> QED
  BY <1>2, <1>3, SlotFacts

\* No command of rotate brings a snapshot into a listing.
LEMMA RotatedListing ==
    ASSUME NEW l \in Listing, NEW stage \in RotateStages, NEW keep, NEW now
    PROVE  Rotated(l, stage, keep, now) \in Listing /\ Guids(Rotated(l, stage, keep, now)) \subseteq Guids(l)
<1>1. New \in Slots /\ N0 \in Slots /\ N1 \in Slots /\ NoSnap \in Snapshot
  BY SlotFacts
<1>2. CASE stage = "keep"
  <2>1. Rotated(l, stage, keep, now) \in {RenameSnap(l, N1, KeptAs(l, keep)), Destroyed(l, N1)}
    BY <1>2 DEF Rotated
  <2> QED
    BY <2>1, <1>1, KeptAsSlot, RenamedListing, DestroyedListing
<1>3. CASE stage = "shift"
  <2>1. Rotated(l, stage, keep, now) \in {RenameSnap(l, N0, N1), l}
    BY <1>3 DEF Rotated, Shift
  <2> QED
    BY <2>1, <1>1, RenamedListing
<1>4. CASE stage = "promote"
  <2>1. Rotated(l, stage, keep, now) = RenameSnap(l, New, N0)
    BY <1>4 DEF Rotated
  <2> QED
    BY <2>1, <1>1, RenamedListing
<1>5. CASE stage = "prune"
  <2>1. Rotated(l, stage, keep, now) = [s \in Slots |-> IF s \in Expired(l, now) THEN NoSnap ELSE l[s]]
    BY <1>5 DEF Rotated
  <2> DEFINE k == Rotated(l, stage, keep, now)
  <2>2. k \in Listing
    BY <2>1, <1>1 DEF Listing
  <2>3. \A s \in Slots : k[s] = NoSnap \/ k[s] = l[s]
    BY <2>1
  <2> HIDE DEF k
  <2>4. Guids(k) \subseteq Guids(l)
    BY <2>3, GuidsSubset
  <2> QED
    BY <2>2, <2>4 DEF k
<1> QED
  BY <1>2, <1>3, <1>4, <1>5 DEF RotateStages

\* A snapshot that is put into a slot adds its GUID and no other.
LEMMA PutListing ==
    ASSUME NEW l \in Listing, NEW s \in Slots, NEW x \in Snapshot
    PROVE  /\ [l EXCEPT ![s] = x] \in Listing
           /\ Guids([l EXCEPT ![s] = x]) \subseteq Guids(l) \cup {x.guid}
  BY DEF Listing, Guids

\* Neither does a property that is set on one.
LEMMA FrozenListing ==
    ASSUME NEW l \in Listing, NEW s \in Slots, NEW yes \in BOOLEAN
    PROVE  /\ [l EXCEPT ![s].frozen = yes] \in Listing
           /\ \A t \in Slots : [l EXCEPT ![s].frozen = yes][t].guid = l[t].guid
           /\ Guids([l EXCEPT ![s].frozen = yes]) = Guids(l)
<1> DEFINE k == [l EXCEPT ![s].frozen = yes]
<1>1. k \in Listing
  BY DEF Listing, Snapshot
<1>2. \A t \in Slots : k[t].guid = l[t].guid
  BY DEF Listing, Snapshot
<1> HIDE DEF k
<1>3. Guids(k) = Guids(l)
  BY <1>2 DEF Guids
<1> QED
  BY <1>1, <1>2, <1>3 DEF k

----------------------------------------------------------------------------
(* The snapshots apart from the one the cycle is about *)

Others(l) == Guids(Destroyed(l, New))

\* The GUIDs of a listing are those and the one of its new snapshot.
LEMMA OthersFacts ==
    ASSUME NEW l \in Listing
    PROVE  /\ Guids(l) = Others(l) \cup ({l[New].guid} \ {0})
           /\ Others(l) \subseteq Guids(l) /\ Others(l) \subseteq 1..MaxGuid
           /\ \A s \in Slots \ {New} : l[s].guid # 0 => l[s].guid \in Others(l)
           /\ \A g \in Others(l) : \E s \in Slots \ {New} : l[s].guid = g
<1> DEFINE k == Destroyed(l, New)
<1>1. /\ k \in Listing /\ New \in Slots /\ NoSnap.guid = 0
      /\ \A s \in Slots : k[s] = IF s = New THEN NoSnap ELSE l[s]
  BY SlotFacts, DestroyedListing DEF Listing, Destroyed
<1> HIDE DEF k
<1>2. Others(l) = {k[s].guid : s \in Slots} \ {0}
  BY DEF Others, Guids, k
<1>3. Others(l) = {l[s].guid : s \in Slots \ {New}} \ {0}
  BY <1>1, <1>2
<1>4. Guids(l) = {l[s].guid : s \in Slots} \ {0} /\ Guids(l) \subseteq 1..MaxGuid
  BY GuidsFacts DEF Guids
<1> QED
  BY <1>1, <1>3, <1>4

\* A listing whose snapshots are other snapshots of another one has no others.
LEMMA OthersSubset ==
    ASSUME NEW l \in Listing, NEW k \in Listing,
           \A s \in Slots \ {New} :
               k[s] = NoSnap \/ \E t \in Slots \ {New} : k[s].guid = l[t].guid
    PROVE  Others(k) \subseteq Others(l)
<1> SUFFICES ASSUME NEW g \in Others(k) PROVE g \in Others(l)
  OBVIOUS
<1>1. g # 0 /\ \E s \in Slots \ {New} : k[s].guid = g
  BY OthersFacts
<1>2. PICK s \in Slots \ {New} : k[s].guid = g
  BY <1>1
<1>3. k[s] # NoSnap
  BY <1>1, <1>2, SlotFacts
<1>4. PICK t \in Slots \ {New} : l[t].guid = g
  BY <1>2, <1>3
<1> QED
  BY <1>1, <1>4, OthersFacts

\* What is put into the new slot does not count.
LEMMA PutOthers ==
    ASSUME NEW l \in Listing, NEW x \in Snapshot
    PROVE  Others([l EXCEPT ![New] = x]) = Others(l) /\ [l EXCEPT ![New] = x][New] = x
<1>1. New \in Slots
  BY SlotFacts
<1>2. Destroyed([l EXCEPT ![New] = x], New) = Destroyed(l, New)
  BY <1>1 DEF Destroyed, Listing
<1> QED
  BY <1>1, <1>2 DEF Others, Listing

\* A rollback leaves the others that are not newer than its base.
LEMMA RolledBackOthers ==
    ASSUME NEW l \in Listing, NEW base \in 0..MaxGuid
    PROVE  Others(RolledBack(l, base)) = {g \in Others(l) : g <= base}
<1>1. Destroyed(l, New) \in Listing /\ New \in Slots
  BY SlotFacts, DestroyedListing
<1>2. Destroyed(RolledBack(l, base), New) = RolledBack(Destroyed(l, New), base)
  BY <1>1, SlotFacts DEF Destroyed, RolledBack, Listing
<1>3. Guids(RolledBack(Destroyed(l, New), base)) = {g \in Guids(Destroyed(l, New)) : g <= base}
  BY <1>1, RolledBackListing
<1> QED
  BY <1>2, <1>3 DEF Others

\* A property that is set changes no GUID.
LEMMA FrozenOthers ==
    ASSUME NEW l \in Listing, NEW yes \in BOOLEAN
    PROVE  Others([l EXCEPT ![New].frozen = yes]) = Others(l)
<1>1. Destroyed([l EXCEPT ![New].frozen = yes], New) = Destroyed(l, New)
  BY SlotFacts DEF Destroyed, Listing
<1> QED
  BY <1>1 DEF Others

\* Kept snapshots have slots of their own.
LEMMA KeptAsApart ==
    ASSUME NEW l \in Listing, NEW keep
    PROVE  KeptAs(l, keep) \notin {New, N0} /\ New \notin KeptSlots /\ N0 \notin KeptSlots
<1>1. KeptAs(l, keep) \in {Kf(l[N1].created), Kd(l[N1].created), Kh(l[N1].created), N1}
  BY DEF KeptAs
<1>2. New \notin KeptSlots /\ N0 \notin KeptSlots
  BY DEF New, N0, KeptSlots
<1> QED
  BY <1>1, <1>2 DEF Kf, Kd, Kh, New, N0, N1

\* What each command of rotate does to the slots that matter.
LEMMA RotatedSlots ==
    ASSUME NEW l \in Listing, NEW keep, NEW now
    PROVE  /\ \A stage \in {"keep", "shift", "prune"} :
                  /\ Rotated(l, stage, keep, now)[New] = l[New]
                  /\ Others(Rotated(l, stage, keep, now)) \subseteq Others(l)
           /\ \A stage \in {"keep", "prune"} : Rotated(l, stage, keep, now)[N0] = l[N0]
           /\ Rotated(l, "shift", keep, now)[N0] = NoSnap
           /\ Rotated(l, "promote", keep, now)[New] = NoSnap
           /\ Rotated(l, "promote", keep, now)[N0] = l[New]
           /\ \A stage \in RotateStages, s \in Slots :
                  LET k == Rotated(l, stage, keep, now)
                  IN  k[s] = NoSnap \/ \E t \in Slots : k[s] = l[t]
<1>1. New \in Slots /\ N0 \in Slots /\ N1 \in Slots /\ New # N0 /\ New # N1 /\ N0 # N1
  BY SlotFacts
<1> DEFINE K(stage) == Rotated(l, stage, keep, now)
           a == KeptAs(l, keep)
<1>2. a \in Slots /\ a # New /\ a # N0 /\ New \notin KeptSlots /\ N0 \notin KeptSlots
  BY KeptAsSlot, KeptAsApart
<1>3. \A stage \in RotateStages : K(stage) \in Listing
  BY RotatedListing
<1>4. /\ K("keep")[New] = l[New] /\ K("keep")[N0] = l[N0]
      /\ \A s \in Slots \ {New} : K("keep")[s] = NoSnap \/ \E t \in Slots \ {New} : K("keep")[s] = l[t]
  <2>1. K("keep") = RenameSnap(l, N1, a) \/ K("keep") = Destroyed(l, N1)
    BY DEF Rotated
  <2> HIDE DEF a, K
  <2>2. CASE K("keep") = RenameSnap(l, N1, a)
    BY <1>1, <1>2, <2>2 DEF RenameSnap, Listing
  <2>3. CASE K("keep") = Destroyed(l, N1)
    BY <1>1, <2>3 DEF Destroyed, Listing
  <2> QED
    BY <2>1, <2>2, <2>3
<1>5. /\ K("shift")[New] = l[New] /\ K("shift")[N0] = NoSnap
      /\ \A s \in Slots \ {New} : K("shift")[s] = NoSnap \/ \E t \in Slots \ {New} : K("shift")[s] = l[t]
  <2>1. K("shift") = IF l[N0] # NoSnap THEN RenameSnap(l, N0, N1) ELSE l
    BY DEF Rotated, Shift, Has
  <2> HIDE DEF K
  <2>2. CASE l[N0] # NoSnap
    BY <1>1, <2>1, <2>2 DEF RenameSnap, Listing
  <2>3. CASE l[N0] = NoSnap
    BY <1>1, <2>1, <2>3
  <2> QED
    BY <2>2, <2>3
<1>6. /\ K("promote")[New] = NoSnap /\ K("promote")[N0] = l[New]
      /\ \A s \in Slots : K("promote")[s] = NoSnap \/ \E t \in Slots : K("promote")[s] = l[t]
  <2>1. K("promote") = RenameSnap(l, New, N0)
    BY DEF Rotated
  <2> HIDE DEF K
  <2> QED
    BY <1>1, <2>1 DEF RenameSnap, Listing
<1>7. /\ K("prune")[New] = l[New] /\ K("prune")[N0] = l[N0]
      /\ \A s \in Slots \ {New} : K("prune")[s] = NoSnap \/ \E t \in Slots \ {New} : K("prune")[s] = l[t]
  <2>1. \A s \in Slots : K("prune")[s] = IF s \in Expired(l, now) THEN NoSnap ELSE l[s]
    BY DEF Rotated
  <2>2. New \notin Expired(l, now) /\ N0 \notin Expired(l, now)
    BY <1>2 DEF Expired
  <2> HIDE DEF K
  <2> QED
    BY <1>1, <2>1, <2>2
<1>8. \A stage \in RotateStages, s \in Slots : K(stage)[s] = NoSnap \/ \E t \in Slots : K(stage)[s] = l[t]
  <2> HIDE DEF K
  <2> QED
    BY <1>1, <1>4, <1>5, <1>6, <1>7 DEF RotateStages
<1>9. \A stage \in {"keep", "shift", "prune"} : Others(K(stage)) \subseteq Others(l)
  <2> TAKE stage \in {"keep", "shift", "prune"}
  <2>1. K(stage) \in Listing
    BY <1>3 DEF RotateStages
  <2> HIDE DEF K
  <2>2. \A s \in Slots \ {New} : K(stage)[s] = NoSnap \/ \E t \in Slots \ {New} : K(stage)[s].guid = l[t].guid
    BY <1>4, <1>5, <1>7
  <2> QED
    BY <2>1, <2>2, OthersSubset
<1>10. /\ \A stage \in {"keep", "shift", "prune"} : K(stage)[New] = l[New]
       /\ \A stage \in {"keep", "prune"} : K(stage)[N0] = l[N0]
  <2> HIDE DEF K
  <2> QED
    BY <1>4, <1>5, <1>7
<1>11. K("shift")[N0] = NoSnap /\ K("promote")[New] = NoSnap /\ K("promote")[N0] = l[New]
  BY <1>5, <1>6
<1> QED
  BY <1>8, <1>9, <1>10, <1>11

\* The new base joins the others when its slot is free.
LEMMA PromotedOthers ==
    ASSUME NEW l \in Listing, NEW keep, NEW now
    PROVE  LET k == Rotated(l, "promote", keep, now)
           IN  /\ Others(k) \subseteq Others(l) \cup ({l[New].guid} \ {0})
               /\ l[N0] = NoSnap => Others(k) = Others(l) \cup ({l[New].guid} \ {0})
<1> DEFINE k == Rotated(l, "promote", keep, now)
<1>1. New \in Slots /\ N0 \in Slots /\ New # N0 /\ NoSnap.guid = 0
  BY SlotFacts
<1>2. k = RenameSnap(l, New, N0)
  BY DEF Rotated
<1>3. k \in Listing
  BY RotatedListing DEF RotateStages
<1> HIDE DEF k
<1>4. /\ k[N0] = l[New]
      /\ \A s \in Slots \ {New, N0} : k[s] = l[s]
  BY <1>1, <1>2 DEF RenameSnap, Listing
<1>5. ASSUME NEW g \in Others(k) PROVE g \in Others(l) \/ g = l[New].guid
  <2>1. PICK s \in Slots \ {New} : k[s].guid = g
    BY <1>3, OthersFacts
  <2>2. g # 0
    BY <1>3, OthersFacts
  <2> QED
    BY <1>4, <2>1, <2>2, OthersFacts
<1>6. ASSUME NEW g \in Others(l), l[N0] = NoSnap PROVE g \in Others(k)
  <2>1. g # 0 /\ \E s \in Slots \ {New} : l[s].guid = g
    BY OthersFacts
  <2>2. PICK s \in Slots \ {New} : l[s].guid = g
    BY <2>1
  <2>3. s # N0
    BY <1>1, <1>6, <2>1, <2>2
  <2> QED
    BY <1>3, <1>4, <2>1, <2>2, <2>3, OthersFacts
<1>7. l[New].guid # 0 => l[New].guid \in Others(k)
  BY <1>1, <1>3, <1>4, OthersFacts
<1>8. 0 \notin Others(k)
  BY <1>3, OthersFacts
<1> QED
  BY <1>5, <1>6, <1>7, <1>8 DEF k

============================================================================

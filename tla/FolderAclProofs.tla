-------------------------- MODULE FolderAclProofs --------------------------
(* Theorems about folder ACLs, for every tree of folders and every set of ACLs. *)
EXTENDS FolderAcl, TLAPS

\* A side as TypeOK has it.
Side(t) ==
    /\ t \in [Dirs -> Acls \cup {Absent}]
    /\ Has(t, Root)
    /\ \A f \in Dirs : Has(t, f) => \A g \in Above[f] : Has(t, g)

\* Absent and Blank are not ACLs, and not each other; the root is no folder.
LEMMA TextFacts ==
    /\ Absent \notin Acls /\ Blank \notin Acls /\ Absent # Blank
    /\ Default \in Acls /\ Default # Absent
    /\ Root \in Dirs /\ Root \notin Folders
    /\ Acls \subseteq Text /\ Absent \in Text /\ Blank \in Text
    /\ \A s \in Sides : UserAcls[s] \subseteq Acls
  BY FolderAssumption, AclsAssumption DEF Acls, Absent, Blank, Dirs, Text

\* Deepest chooses one of the folders it is given.
LEMMA DeepestIn ==
    ASSUME NEW f \in Folders, NEW S \in SUBSET Above[f], S # {}
    PROVE  Deepest(S) \in S
<1>1. \E g \in S : \A h \in S : h = g \/ h \in Above[g]
  BY PathAssumption
<1> QED
  BY <1>1 DEF Deepest

\* acl.Apply keeps the folders and sets one text.
LEMMA AppliedSide ==
    ASSUME NEW t, Side(t), NEW f \in Dirs, NEW text \in Text
    PROVE  /\ Side(Applied(t, f, text))
           /\ \A g \in Dirs : Has(Applied(t, f, text), g) <=> Has(t, g)
           /\ \A g \in Dirs : g # f => Applied(t, f, text)[g] = t[g]
           /\ Applied(t, f, text)[f] \in {t[f], text}
           /\ text \in Acls /\ Has(t, f) => Applied(t, f, text)[f] = text
  BY TextFacts DEF Side, Applied, Has, Text

\* os.MkdirAll: f and what is above it exist, nothing else has changed, and every
\* new folder has an ACL that was there before.
LEMMA MkdirAllSide ==
    ASSUME NEW t, Side(t), NEW f \in Folders
    PROVE  /\ Side(MkdirAll(t, f))
           /\ \A g \in Dirs : Has(t, g) => MkdirAll(t, f)[g] = t[g]
           /\ \A g \in Dirs : MkdirAll(t, f)[g] = Absent \/ \E h \in Dirs : MkdirAll(t, f)[g] = t[h]
           /\ Has(MkdirAll(t, f), f)
<1> DEFINE there == {g \in Above[f] : Has(t, g)}
           new == {g \in Above[f] \cup {f} : ~ Has(t, g)}
           made == MkdirAll(t, f)
<1>1. Above[f] \subseteq Dirs /\ f \in Dirs /\ Root \in Above[f]
  BY FolderAssumption DEF Dirs
<1>2. Deepest(there) \in there
  BY <1>1, DeepestIn DEF Side
<1>3. made = [g \in Dirs |-> IF g \in new THEN t[Deepest(there)] ELSE t[g]]
  BY DEF MkdirAll
<1> HIDE DEF made
<1>4. t[Deepest(there)] # Absent /\ Deepest(there) \in Dirs
  BY <1>1, <1>2 DEF Has
<1>5. \A g \in Dirs : Has(made, g) <=> Has(t, g) \/ g \in Above[f] \cup {f}
  BY <1>3, <1>4 DEF Has
<1>6. made \in [Dirs -> Acls \cup {Absent}]
  BY <1>3, <1>4 DEF Side
<1>7. ASSUME NEW g \in Dirs, Has(made, g), NEW h \in Above[g] PROVE Has(made, h)
  <2>1. h \in Dirs
    BY FolderAssumption
  <2>2. CASE Has(t, g)
    BY <2>1, <2>2, <1>5 DEF Side
  <2>3. CASE g \in Above[f] \cup {f}
    BY <2>1, <2>3, <1>1, <1>5, FolderAssumption
  <2> QED
    BY <1>5, <1>7, <2>2, <2>3
<1>8. Side(made)
  BY <1>1, <1>5, <1>6, <1>7 DEF Side
<1>9. \A g \in Dirs : Has(t, g) => made[g] = t[g]
  BY <1>3
<1>10. \A g \in Dirs : made[g] = Absent \/ \E h \in Dirs : made[g] = t[h]
  BY <1>3, <1>4
<1> QED
  BY <1>1, <1>5, <1>8, <1>9, <1>10 DEF made

\* os.RemoveAll takes a folder and everything below it away, never the root.
LEMMA RemoveAllSide ==
    ASSUME NEW t, Side(t), NEW f \in Folders
    PROVE  /\ Side(RemoveAll(t, f))
           /\ \A g \in Dirs : RemoveAll(t, f)[g] \in {t[g], Absent}
           /\ RemoveAll(t, f)[Root] = t[Root]
<1> DEFINE left == RemoveAll(t, f)
<1>1. left = [g \in Dirs |-> IF g \in Beneath(f) THEN Absent ELSE t[g]]
  BY DEF RemoveAll
<1>2. left \in [Dirs -> Acls \cup {Absent}] /\ Root \in Dirs /\ Root \notin Beneath(f)
  BY <1>1, TextFacts DEF Side, Beneath
<1>3. ASSUME NEW g \in Dirs, Has(left, g), NEW h \in Above[g] PROVE Has(left, h)
  <2>1. h \in Dirs /\ Above[h] \subseteq Above[g]
    BY FolderAssumption
  <2>2. g \notin Beneath(f) /\ Has(t, g)
    BY <1>1, <1>3 DEF Has
  <2>3. g \in Folders
    BY FolderAssumption, <1>3 DEF Dirs
  <2>4. h \notin Beneath(f)
    BY <2>1, <2>2, <2>3, <1>3 DEF Beneath
  <2> QED
    BY <2>1, <2>2, <2>4, <1>1, <1>3 DEF Side, Has
<1> QED
  BY <1>1, <1>2, <1>3 DEF Side, Has

----------------------------------------------------------------------------
(* Types *)

\* TypeOK in three parts: the sides, what the service keeps, the bounds.
AclType == acl \in [Sides -> [Dirs -> Acls \cup {Absent}]] /\ \A s \in Sides : Side(acl[s])

ServiceType ==
    /\ mode \in Modes
    /\ base \in [Folders -> Text]
    /\ csv \in [Sides -> [Dirs -> Text]]
    /\ pc \in {"down", "restore", "push", "idle", "resync", "apply", "csv", "mirror", "root"}
    /\ boot \in [Dirs -> Text]
    /\ seen \in [Dirs -> Text]
    /\ found \subseteq Folders
    /\ todo \subseteq Dirs
    /\ ops \subseteq Op
    /\ newBase \in [Folders -> Text]

BoundsType ==
    /\ edits \in 0..MaxEdits
    /\ crashes \in 0..MaxCrashes
    /\ faults \in 0..MaxFaults
    /\ replaced \in 0..MaxReplaced
    /\ quiet \in BOOLEAN

\* The parts are the type invariant.
LEMMA TypeParts == TypeOK <=> AclType /\ ServiceType /\ BoundsType
  BY DEF TypeOK, AclType, ServiceType, BoundsType, Side

\* A side is replaced by another one.
LEMMA SideReplaced ==
    ASSUME AclType, NEW side \in Sides, NEW t, Side(t), acl' = [acl EXCEPT ![side] = t]
    PROVE  AclType'
  BY DEF AclType, Side, Has

\* Apply on either side.
LEMMA ApplyAcl ==
    ASSUME AclType, NEW side \in Sides, NEW f \in Dirs, NEW text \in Text, Apply(side, f, text)
    PROVE  AclType'
<1>1. Side(Applied(acl[side], f, text))
  BY AppliedSide DEF AclType
<1>2. CASE acl' = [acl EXCEPT ![side] = Applied(@, f, text)]
  BY <1>1, <1>2, SideReplaced
<1>3. CASE UNCHANGED acl
  BY <1>3 DEF AclType, Side, Has
<1> QED
  BY <1>2, <1>3 DEF Apply

\* The rows mkdirWithACL looks up are texts.
LEMMA MkdirTextType ==
    ASSUME AclType, ServiceType, NEW side \in Sides, NEW f \in Folders
    PROVE  MkdirText(side, f) \in Text
<1>1. Above[f] # {} /\ Above[f] \in SUBSET Above[f] /\ f \in Dirs /\ Above[f] \subseteq Dirs
  BY FolderAssumption DEF Dirs
<1>2. Parent(f) \in Dirs
  BY <1>1, DeepestIn DEF Parent
<1>3. acl["primary"][f] \in Text /\ acl["primary"][Parent(f)] \in Text /\ boot[f] \in Text
  BY <1>1, <1>2, TextFacts DEF AclType, ServiceType, Sides, Text
<1> QED
  BY <1>3 DEF MkdirText, Sides

\* An operation of a pass leaves a tree of folders.
LEMMA ApplyNextAcl ==
    ASSUME AclType, ServiceType, NEW op \in Op, ApplyNext(op)
    PROVE  AclType'
<1> DEFINE t == acl[op.side]
           made == MkdirAll(t, op.path)
           set == Applied(made, op.path, MkdirText(op.side, op.path))
<1>1. op.side \in Sides /\ op.path \in Folders /\ op.path \in Dirs
  BY DEF Op, Dirs
<1>2. Side(t)
  BY <1>1 DEF AclType
<1>3. Side(made) /\ Side(RemoveAll(t, op.path))
  BY <1>1, <1>2, MkdirAllSide, RemoveAllSide
<1>4. Side(set)
  BY <1>1, <1>3, MkdirTextType, AppliedSide
<1>5. \/ acl' = [acl EXCEPT ![op.side] = RemoveAll(t, op.path)]
      \/ acl' = [acl EXCEPT ![op.side] = set]
      \/ acl' = [acl EXCEPT ![op.side] = made]
  BY DEF ApplyNext
<1> HIDE DEF t, made, set
<1> QED
  BY <1>1, <1>3, <1>4, <1>5, SideReplaced DEF t

\* The baseline of a pass, and the one that comes out of the merge.
LEMMA MergeType ==
    ASSUME ServiceType
    PROVE  /\ PassBaseline \in [Folders -> Text]
           /\ SecondaryView \in [Folders -> {Blank, Absent}]
           /\ [f \in Folders |-> MergedRow(PassBaseline[f], seen[f], SecondaryView[f])]
                  \in [Folders -> Text]
           /\ MergeOps(PassBaseline, seen, SecondaryView) \subseteq Op
<1>1. SecondaryView \in [Folders -> {Blank, Absent}]
  BY DEF SecondaryView
<1>2. [f \in Folders |-> seen[f]] \in [Folders -> Text] /\ SecondaryView \in [Folders -> Text]
  BY <1>1, TextFacts DEF ServiceType, Dirs
<1>3. PassBaseline \in [Folders -> Text]
  BY <1>2, AclModes DEF PassBaseline, ServiceType
<1>4. ASSUME NEW b, NEW p \in Text, NEW q \in Text, b \in Text PROVE MergedRow(b, p, q) \in Text
  BY <1>4, TextFacts DEF MergedRow
<1>5. \A f \in Folders : MergedRow(PassBaseline[f], seen[f], SecondaryView[f]) \in Text
  BY <1>2, <1>3, <1>4 DEF ServiceType, Dirs
<1>6. MergeOps(PassBaseline, seen, SecondaryView) \subseteq Op
  BY DEF MergeOps, Mkdirs, Rmdirs, Op, Sides
<1> QED
  BY <1>1, <1>3, <1>5, <1>6

\* What a service keeps has its type after every step.
LEMMA ServiceStep == TypeOK /\ [Next]_vars => ServiceType'
<1> SUFFICES ASSUME AclType, ServiceType, [Next]_vars PROVE ServiceType'
  BY TypeParts
<1> USE DEF ServiceType
<1>1. acl["primary"] \in [Dirs -> Text] /\ NoRows \in [Dirs -> Text] /\ NoFolders \in [Folders -> Text]
  BY TextFacts DEF AclType, Sides, NoRows, NoFolders
<1>2. CASE Start
  <2>1. ChooseSource(acl["primary"]) \in [Dirs -> Text]
    BY <1>1 DEF ChooseSource, Sides
  <2> QED
    BY <1>1, <1>2, <2>1 DEF Start
<1>3. ASSUME NEW f \in Dirs, Restore(f) \/ Push(f) \/ Resync(f) PROVE ServiceType'
  BY <1>3 DEF Restore, Push, Resync
<1>4. CASE PushRoot \/ Ready
  BY <1>1, <1>4 DEF PushRoot, Ready, ToPush, FoldersOf, Dirs
<1>5. ASSUME NEW why \in Reasons, Begin(why) PROVE ServiceType'
  <2>1. seen' \in [Dirs -> Text]
    BY <1>1, <1>5, TextFacts DEF Begin, Unreadable
  <2>2. found' \subseteq Folders /\ todo' \subseteq Dirs
    BY <1>5 DEF Begin, ToResync, FoldersOf, Dirs
  <2> QED
    BY <1>5, <2>1, <2>2 DEF Begin
<1>6. ASSUME NEW files \in BOOLEAN, Merge(files) PROVE ServiceType'
  <2>1. seen' \in [Dirs -> Text] /\ found' \subseteq Folders
    BY <1>1, <1>6 DEF Merge
  <2>2. ops' \subseteq Op /\ newBase' \in [Folders -> Text]
    BY <1>6, MergeType DEF Merge
  <2>3. pc' \in {"idle", "apply"} /\ UNCHANGED <<mode, base, csv, boot, todo>>
    BY <1>6 DEF Merge
  <2> QED
    BY <2>1, <2>2, <2>3
<1>7. ASSUME NEW op \in Op, ApplyNext(op) PROVE ServiceType'
  BY <1>7 DEF ApplyNext
<1>8. CASE Save
  BY <1>8 DEF Save, memory
<1>9. CASE WriteCsv
  <2>1. CsvOf(newBase, seen[Root]) \in [Dirs -> Text]
    BY TextFacts DEF CsvOf, Dirs
  <2> QED
    BY <1>9, <2>1 DEF WriteCsv, memory, Sides
<1>10. CASE MirrorCsv
  BY <1>10 DEF MirrorCsv, memory, Sides
<1>11. CASE EndPass \/ Crash
  BY <1>1, <1>11 DEF EndPass, Crash
<1>12. CASE Users
  BY <1>12 DEF Users, UserMkdir, UserRmdir, UserSetAcl, Edit, memory
<1>13. CASE ReplacePrimary
  BY <1>1, <1>13 DEF ReplacePrimary, memory, Sides
<1>14. CASE UNCHANGED vars
  BY <1>14 DEF vars, memory
<1> QED
  BY <1>2, <1>3, <1>4, <1>5, <1>6, <1>7, <1>8, <1>9, <1>10, <1>11, <1>12, <1>13, <1>14
     DEF Next, Service, Dirs

\* Both sides are trees of folders after every step.
LEMMA AclStep == TypeOK /\ [Next]_vars => AclType'
<1> SUFFICES ASSUME AclType, ServiceType, [Next]_vars PROVE AclType'
  BY TypeParts
<1>1. {"primary", "secondary"} = Sides /\ Root \in Dirs /\ Folders \subseteq Dirs
  BY DEF Sides, Dirs
<1>2. \A f \in Dirs : boot[f] \in Text /\ seen[f] \in Text /\ acl["primary"][f] \in Text
  BY <1>1, TextFacts DEF AclType, ServiceType
<1>3. ASSUME UNCHANGED acl PROVE AclType'
  BY <1>3 DEF AclType, Side, Has
<1>4. ASSUME NEW f \in Dirs, Restore(f) \/ Push(f) \/ Resync(f) PROVE AclType'
  <2>1. \/ Apply("primary", f, boot[f])
        \/ Apply("secondary", f, acl["primary"][f])
        \/ Apply("secondary", f, seen[f])
    BY <1>4 DEF Restore, Push, Resync
  <2> QED
    BY <2>1, <1>1, <1>2, ApplyAcl
<1>5. CASE PushRoot \/ EndPass
  <2>1. Apply("secondary", Root, boot[Root]) \/ Apply("secondary", Root, seen[Root])
    BY <1>5 DEF PushRoot, EndPass
  <2> QED
    BY <2>1, <1>1, <1>2, ApplyAcl
<1>6. ASSUME NEW op \in Op, ApplyNext(op) PROVE AclType'
  BY <1>6, ApplyNextAcl
<1>7. ASSUME NEW side \in Sides, NEW f \in Folders, UserMkdir(side, f) \/ UserRmdir(side, f)
      PROVE  AclType'
  <2>1. Side(MkdirAll(acl[side], f)) /\ Side(RemoveAll(acl[side], f))
    BY MkdirAllSide, RemoveAllSide DEF AclType
  <2>2. \/ acl' = [acl EXCEPT ![side] = MkdirAll(acl[side], f)]
        \/ acl' = [acl EXCEPT ![side] = RemoveAll(acl[side], f)]
    BY <1>7 DEF UserMkdir, UserRmdir, Edit
  <2> QED
    BY <2>1, <2>2, SideReplaced
<1>8. ASSUME NEW side \in Sides, NEW f \in Dirs, NEW text \in UserAcls[side],
             UserSetAcl(side, f, text)
      PROVE  AclType'
  <2>1. text \in Acls /\ text # Absent /\ Side(acl[side])
    BY TextFacts DEF AclType
  <2>2. Side([acl[side] EXCEPT ![f] = text])
    BY <1>8, <2>1 DEF Side, Has, UserSetAcl
  <2>3. acl' = [acl EXCEPT ![side] = [acl[side] EXCEPT ![f] = text]]
    BY <1>8 DEF UserSetAcl, Edit
  <2> QED
    BY <2>2, <2>3, SideReplaced
<1>9. CASE ReplacePrimary
  <2> DEFINE t == [f \in Dirs |-> IF Has(acl["primary"], f) THEN Default ELSE Absent]
  <2>1. Side(acl["primary"])
    BY <1>1 DEF AclType
  <2>2. \A f \in Dirs : Has(t, f) <=> Has(acl["primary"], f)
    BY TextFacts DEF Has
  <2>3. t \in [Dirs -> Acls \cup {Absent}]
    BY TextFacts
  <2>4. \A f \in Dirs : Above[f] \subseteq Dirs
    BY FolderAssumption
  <2>5. Side(t)
    <3> HIDE DEF t
    <3> QED
      BY <1>1, <2>1, <2>2, <2>3, <2>4 DEF Side
  <2>6. acl' = [acl EXCEPT !["primary"] = t]
    BY <1>9 DEF ReplacePrimary
  <2> QED
    BY <1>1, <2>5, <2>6, SideReplaced
<1>10. CASE UNCHANGED vars
  BY <1>3, <1>10 DEF vars
<1>11. CASE Start \/ Ready \/ Save \/ WriteCsv \/ MirrorCsv \/ Crash
  BY <1>3, <1>11 DEF Start, Ready, Save, WriteCsv, MirrorCsv, Crash
<1>12. ASSUME NEW why, NEW files, Begin(why) \/ Merge(files) PROVE AclType'
  BY <1>3, <1>12 DEF Begin, Merge
<1> QED
  BY <1>1, <1>4, <1>5, <1>6, <1>7, <1>8, <1>9, <1>10, <1>11, <1>12 DEF Next, Service, Users

\* The bounds on users, crashes and failures hold.
LEMMA BoundsStep == TypeOK /\ [Next]_vars => BoundsType'
<1> SUFFICES ASSUME BoundsType, [Next]_vars PROVE BoundsType'
  BY TypeParts
<1> USE AclBounds DEF BoundsType
<1>1. ASSUME Fault PROVE faults' \in 0..MaxFaults /\ quiet' \in BOOLEAN
  <2>1. quiet' \in BOOLEAN
    BY <1>1, Zenon DEF Fault
  <2> QED
    BY <1>1, <2>1 DEF Fault
<1>2. ASSUME NoFault PROVE faults' \in 0..MaxFaults /\ quiet' \in BOOLEAN
  <2>1. quiet' \in BOOLEAN
    BY <1>2, Zenon DEF NoFault
  <2> QED
    BY <1>2, <2>1 DEF NoFault
<1>3. ASSUME NEW side, NEW f, NEW text, Apply(side, f, text)
      PROVE  faults' \in 0..MaxFaults /\ quiet' \in BOOLEAN
  BY <1>1, <1>2, <1>3 DEF Apply
<1>4. CASE Start
  BY <1>4 DEF Start
<1>5. ASSUME NEW f, Restore(f) \/ Push(f) \/ Resync(f) PROVE BoundsType'
  BY <1>3, <1>5 DEF Restore, Push, Resync
<1>6. CASE PushRoot \/ EndPass
  BY <1>3, <1>6 DEF PushRoot, EndPass
<1>7. ASSUME NEW why, Begin(why) PROVE BoundsType'
  BY <1>1, <1>2, <1>7 DEF Begin
<1>8. ASSUME NEW op, ApplyNext(op) PROVE BoundsType'
  BY <1>1, <1>2, <1>8 DEF ApplyNext
<1>9. CASE WriteCsv \/ MirrorCsv
  BY <1>1, <1>2, <1>9 DEF WriteCsv, MirrorCsv
<1>10. ASSUME NEW files, Merge(files) \/ Ready \/ Save PROVE BoundsType'
  BY <1>10 DEF Merge, Ready, Save, history
<1>11. CASE Crash \/ ReplacePrimary
  BY <1>11 DEF Crash, ReplacePrimary
<1>12. CASE Users
  <2>1. PICK side \in Sides : \E t : Edit(side, t)
    BY <1>12 DEF Users, UserMkdir, UserRmdir, UserSetAcl
  <2>2. quiet' \in BOOLEAN
    BY <2>1, Zenon DEF Edit
  <2> QED
    BY <2>1, <2>2 DEF Edit
<1>13. CASE UNCHANGED vars
  <2>1. quiet' \in BOOLEAN
    BY <1>13, Zenon DEF vars, history
  <2> QED
    BY <1>13, <2>1 DEF vars, history
<1> QED
  BY <1>4, <1>5, <1>6, <1>7, <1>8, <1>9, <1>10, <1>11, <1>12, <1>13 DEF Next, Service

\* Type correctness of the restore, the passes and the users; above all, both sides
\* stay trees of folders whatever is made and removed in between.
THEOREM AclTypeCorrect == Spec => []TypeOK
<1>1. Init => TypeOK
  <2> SUFFICES ASSUME Init PROVE TypeOK
    OBVIOUS
  <2>1. AclType
    BY TextFacts, FolderAssumption DEF Init, AclType, Side, Has, Dirs
  <2>2. ServiceType
    BY TextFacts DEF Init, ServiceType, NoRows, NoFolders
  <2>3. BoundsType
    BY AclBounds DEF Init, BoundsType
  <2> QED
    BY <2>1, <2>2, <2>3, TypeParts
<1>2. TypeOK /\ [Next]_vars => TypeOK'
  <2>1. AclType' /\ ServiceType' /\ BoundsType' => TypeOK'
    BY DEF TypeOK, AclType, ServiceType, BoundsType, Side
  <2> QED
    BY <2>1, AclStep, ServiceStep, BoundsStep
<1> QED
  BY <1>1, <1>2, PTL DEF Spec

----------------------------------------------------------------------------
(* The primary is the only source of ACLs *)

\* SecondaryAclsStay for one text, with what a pass keeps in between: the tree it
\* has scanned and the baseline that comes out of the merge.
Nowhere(text) ==
    /\ \A f \in Dirs : text \notin {acl["primary"][f], csv["primary"][f], csv["secondary"][f],
                                    boot[f], seen[f]}
    /\ \A f \in Folders : text \notin {base[f], newBase[f]}

Source == \A text \in SecondaryOnly : Nowhere(text)

\* A text of the secondary's users is an ACL, and not one of the primary's.
LEMMA SecondaryOnlyFacts ==
    ASSUME NEW text \in SecondaryOnly
    PROVE  text \notin {Absent, Blank, Default} /\ text \notin UserAcls["primary"]
  BY TextFacts DEF SecondaryOnly, Sides

\* Of the primary, no step of the service or of a user takes such a text from
\* anywhere but the primary itself and the text kept from the start.
LEMMA PrimaryStep ==
    ASSUME TypeOK, Next, NEW text \in SecondaryOnly, Nowhere(text)
    PROVE  \A f \in Dirs : acl'["primary"][f] # text
<1> DEFINE Free(t) == \A f \in Dirs : t[f] # text
           mine == acl["primary"]
<1>1. AclType /\ ServiceType /\ Side(mine) /\ Free(mine) /\ Free(boot)
  BY TypeParts DEF AclType, Sides, Nowhere
<1>2. Sides = {"primary", "secondary"} /\ Folders \subseteq Dirs /\ text \notin {Absent, Default}
  BY SecondaryOnlyFacts DEF Sides, Dirs
<1>3. ASSUME NEW t, acl' = [acl EXCEPT !["primary"] = t], Free(t) PROVE Free(acl'["primary"])
  BY <1>1, <1>2, <1>3 DEF AclType
<1>4. ASSUME NEW t, acl' = [acl EXCEPT !["secondary"] = t] PROVE Free(acl'["primary"])
  BY <1>1, <1>2, <1>4 DEF AclType
<1>5. ASSUME UNCHANGED acl PROVE Free(acl'["primary"])
  BY <1>1, <1>5
<1>6. ASSUME NEW f, NEW any, Apply("secondary", f, any) PROVE Free(acl'["primary"])
  BY <1>4, <1>5, <1>6 DEF Apply
<1>7. ASSUME NEW t, Side(t), Free(t), NEW f \in Dirs PROVE Free(Applied(t, f, boot[f]))
  <2>1. boot[f] \in Text /\ boot[f] # text
    BY <1>1 DEF ServiceType
  <2> QED
    BY <1>7, <2>1, AppliedSide
<1>8. ASSUME NEW f \in Folders PROVE Free(MkdirAll(mine, f)) /\ Free(RemoveAll(mine, f))
  <2>1. Free(MkdirAll(mine, f))
    BY <1>1, <1>2, MkdirAllSide
  <2>2. Free(RemoveAll(mine, f))
    BY <1>1, <1>2, RemoveAllSide
  <2> QED
    BY <2>1, <2>2
<1> HIDE DEF Free, mine
<1>9. ASSUME NEW f \in Dirs, Restore(f) PROVE Free(acl'["primary"])
  <2>1. Apply("primary", f, boot[f])
    BY <1>9 DEF Restore
  <2> QED
    BY <2>1, <1>1, <1>3, <1>5, <1>7 DEF Apply, mine
<1>10. ASSUME NEW f, Push(f) \/ Resync(f) \/ PushRoot \/ EndPass PROVE Free(acl'["primary"])
  <2>1. \E g, any : Apply("secondary", g, any)
    BY <1>10 DEF Push, Resync, PushRoot, EndPass
  <2> QED
    BY <2>1, <1>6
<1>11. ASSUME NEW op \in Op, ApplyNext(op) PROVE Free(acl'["primary"])
  <2> DEFINE made == MkdirAll(acl[op.side], op.path)
             set == Applied(made, op.path, MkdirText(op.side, op.path))
             left == RemoveAll(acl[op.side], op.path)
  <2>1. op.side \in Sides /\ op.path \in Folders /\ op.path \in Dirs
    BY <1>2 DEF Op
  <2>2. \/ acl' = [acl EXCEPT ![op.side] = left]
        \/ acl' = [acl EXCEPT ![op.side] = set]
        \/ acl' = [acl EXCEPT ![op.side] = made]
    BY <1>11 DEF ApplyNext
  <2>3. CASE op.side = "secondary"
    <3> HIDE DEF made, set, left
    <3> QED
      BY <2>2, <2>3, <1>4
  <2>4. CASE op.side = "primary"
    <3>1. Free(made) /\ Free(left) /\ Side(made)
      BY <2>1, <2>4, <1>1, <1>8, MkdirAllSide DEF mine
    <3>2. set = Applied(made, op.path, boot[op.path])
      BY <2>4 DEF MkdirText
    <3> HIDE DEF made, left, set
    <3>3. Free(set)
      BY <2>1, <3>1, <3>2, <1>7
    <3> QED
      BY <2>2, <2>4, <3>1, <3>3, <1>3
  <2> QED
    BY <2>1, <2>3, <2>4, <1>2
<1>12. ASSUME NEW side \in Sides, NEW f \in Folders, UserMkdir(side, f) \/ UserRmdir(side, f)
       PROVE  Free(acl'["primary"])
  <2>1. \/ acl' = [acl EXCEPT ![side] = MkdirAll(acl[side], f)]
        \/ acl' = [acl EXCEPT ![side] = RemoveAll(acl[side], f)]
    BY <1>12 DEF UserMkdir, UserRmdir, Edit
  <2> QED
    BY <2>1, <1>2, <1>3, <1>4, <1>8 DEF mine
<1>13. ASSUME NEW side \in Sides, NEW f \in Dirs, NEW any \in UserAcls[side],
              UserSetAcl(side, f, any)
       PROVE  Free(acl'["primary"])
  <2>1. acl' = [acl EXCEPT ![side] = [acl[side] EXCEPT ![f] = any]]
    BY <1>13 DEF UserSetAcl, Edit
  <2>2. CASE side = "primary"
    <3>1. any # text
      BY <2>2, SecondaryOnlyFacts
    <3>2. Free([acl["primary"] EXCEPT ![f] = any])
      BY <3>1, <1>1 DEF Free, Side, mine
    <3> QED
      BY <2>1, <2>2, <3>2, <1>3
  <2> QED
    BY <2>1, <2>2, <1>2, <1>4
<1>14. ASSUME ReplacePrimary PROVE Free(acl'["primary"])
  <2> DEFINE t == [f \in Dirs |-> IF Has(acl["primary"], f) THEN Default ELSE Absent]
  <2>1. acl' = [acl EXCEPT !["primary"] = t] /\ Free(t)
    BY <1>2, <1>14 DEF ReplacePrimary, Free
  <2> QED
    BY <2>1, <1>3
<1>15. ASSUME Start \/ Ready \/ Save \/ WriteCsv \/ MirrorCsv \/ Crash PROVE Free(acl'["primary"])
  BY <1>5, <1>15 DEF Start, Ready, Save, WriteCsv, MirrorCsv, Crash
<1>16. ASSUME NEW why, NEW files, Begin(why) \/ Merge(files) PROVE Free(acl'["primary"])
  BY <1>5, <1>16 DEF Begin, Merge
<1>17. Free(acl'["primary"])
  BY <1>9, <1>10, <1>11, <1>12, <1>13, <1>14, <1>15, <1>16 DEF Next, Service, Users
<1> QED
  BY <1>17 DEF Free

\* What the service keeps and writes comes from the primary, through any number of
\* passes, crashes and new primaries.
LEMMA SourceStep == TypeOK /\ Source /\ [Next]_vars => Source'
<1> SUFFICES ASSUME TypeOK, [Next]_vars, NEW text \in SecondaryOnly, Nowhere(text)
             PROVE  Nowhere(text)'
  BY DEF Source, SecondaryOnly
<1>1. AclType /\ ServiceType
  BY TypeParts
<1>2. Sides = {"primary", "secondary"} /\ Folders \subseteq Dirs /\ Root \in Dirs
  BY DEF Sides, Dirs
<1>3. text # Absent /\ text # Blank
  BY SecondaryOnlyFacts
<1>4. (\A f \in Dirs : NoRows[f] # text) /\ (\A f \in Folders : NoFolders[f] # text)
  BY <1>3 DEF NoRows, NoFolders
<1>5. CASE UNCHANGED vars
  BY <1>5 DEF vars, memory, Nowhere
<1>6. CASE Next
  <2>1. \A f \in Dirs : acl'["primary"][f] # text
    BY <1>6, PrimaryStep
  <2>2. ASSUME UNCHANGED <<base, csv, boot, seen, newBase>> PROVE Nowhere(text)'
    BY <2>1, <2>2 DEF Nowhere
  <2>3. CASE Start
    <3>1. \A f \in Dirs : ChooseSource(acl["primary"])[f] # text
      BY <1>4 DEF ChooseSource, Nowhere
    <3>2. UNCHANGED <<base, csv, newBase>>
      BY <2>3 DEF Start
    <3>3. \A f \in Dirs : boot'[f] # text /\ seen'[f] # text
      BY <2>3, <3>1, <1>4 DEF Start, Nowhere
    <3> QED
      BY <2>1, <3>2, <3>3 DEF Nowhere
  <2>4. ASSUME NEW f, Restore(f) \/ Push(f) \/ Resync(f) \/ PushRoot PROVE Nowhere(text)'
    BY <2>2, <2>4 DEF Restore, Push, Resync, PushRoot
  <2>5. CASE Ready
    BY <2>1, <2>5, <1>4 DEF Ready, Nowhere
  <2>6. ASSUME NEW why, Begin(why) PROVE Nowhere(text)'
    <3>1. \A f \in Dirs : seen'[f] # text
      BY <2>6, <1>1, <1>2, <1>3 DEF Begin, Unreadable, AclType, Nowhere
    <3>2. UNCHANGED <<base, csv, boot, newBase>>
      BY <2>6 DEF Begin
    <3> QED
      BY <2>1, <3>1, <3>2 DEF Nowhere
  <2>7. ASSUME NEW files, Merge(files) PROVE Nowhere(text)'
    <3>1. \A f \in Dirs : seen'[f] # text
      BY <2>7, <1>4 DEF Merge, Nowhere
    <3>2. \A f \in Folders : SecondaryView[f] # text
      BY <1>3, MergeType, <1>1
    <3>3. \A f \in Folders : PassBaseline[f] # text
      BY <3>2, <1>1, <1>2, AclModes DEF PassBaseline, ServiceType, Nowhere
    <3>4. \A f \in Folders : MergedRow(PassBaseline[f], seen[f], SecondaryView[f]) # text
      BY <3>2, <3>3, <1>2, <1>3 DEF MergedRow, Nowhere
    <3>5. \A f \in Folders : newBase'[f] # text
      BY <2>7, <3>4 DEF Merge, Nowhere
    <3>6. UNCHANGED <<base, csv, boot>>
      BY <2>7 DEF Merge
    <3> QED
      BY <2>1, <3>1, <3>5, <3>6 DEF Nowhere
  <2>8. ASSUME NEW op, ApplyNext(op) PROVE Nowhere(text)'
    BY <2>2, <2>8 DEF ApplyNext
  <2>9. CASE Save
    BY <2>1, <2>9 DEF Save, memory, Nowhere
  <2>10. CASE WriteCsv
    <3>1. \A f \in Dirs : CsvOf(newBase, seen[Root])[f] # text
      BY <1>2 DEF CsvOf, Nowhere, Dirs
    <3>2. \A f \in Dirs : csv'["primary"][f] # text /\ csv'["secondary"][f] # text
      BY <2>10, <3>1, <1>1, <1>2 DEF WriteCsv, Nowhere, ServiceType
    <3>3. UNCHANGED <<base, boot, seen, newBase>>
      BY <2>10 DEF WriteCsv, memory
    <3> QED
      BY <2>1, <3>2, <3>3 DEF Nowhere
  <2>11. CASE MirrorCsv
    <3>1. \A f \in Dirs : csv'["primary"][f] # text /\ csv'["secondary"][f] # text
      BY <2>11, <1>1, <1>2 DEF MirrorCsv, Nowhere, ServiceType
    <3>2. UNCHANGED <<base, boot, seen, newBase>>
      BY <2>11 DEF MirrorCsv, memory
    <3> QED
      BY <2>1, <3>1, <3>2 DEF Nowhere
  <2>12. CASE EndPass
    BY <2>1, <2>12, <1>4 DEF EndPass, Nowhere
  <2>13. CASE Crash
    BY <2>1, <2>13, <1>4 DEF Crash, Nowhere
  <2>14. CASE Users
    BY <2>2, <2>14 DEF Users, UserMkdir, UserRmdir, UserSetAcl, Edit, memory
  <2>15. CASE ReplacePrimary
    <3>1. \A f \in Dirs : csv'["primary"][f] # text /\ csv'["secondary"][f] # text
      BY <2>15, <1>1, <1>2, <1>4 DEF ReplacePrimary, Nowhere, ServiceType
    <3>2. base' = NoFolders /\ UNCHANGED <<boot, seen, newBase>>
      BY <2>15 DEF ReplacePrimary, memory
    <3> QED
      BY <2>1, <3>1, <3>2, <1>4 DEF Nowhere
  <2> QED
    BY <1>6, <2>3, <2>4, <2>5, <2>6, <2>7, <2>8, <2>9, <2>10, <2>11, <2>12, <2>13, <2>14, <2>15
       DEF Next, Service
<1> QED
  BY <1>5, <1>6

\* mkdirWithACL's "primary is always the ACL source of truth": an ACL of the
\* secondary's users never gets to the primary or into anything that a restore,
\* a merge or a new primary reads, whatever crashes and fails in between.
THEOREM PrimaryIsSource == Spec => []SecondaryAclsStay
<1>1. Init => Source
  <2> SUFFICES ASSUME Init, NEW text \in SecondaryOnly PROVE Nowhere(text)
    BY DEF Source
  <2> QED
    BY SecondaryOnlyFacts DEF Init, Nowhere, NoRows, NoFolders, Sides, Dirs
<1>2. Source => SecondaryAclsStay
  BY DEF Source, Nowhere, SecondaryAclsStay
<1> QED
  BY <1>1, <1>2, SourceStep, AclTypeCorrect, PTL DEF Spec

----------------------------------------------------------------------------
(* The restore at start *)

\* A folder that has a row has its ACL on that side.
AsBoot(side, f) == boot[f] \in Acls /\ Has(acl[side], f) => acl[side][f] = boot[f]

\* How far the two loops of bootstrapACL have come, what the second one relies on
\* (the scan before the first one has all the primary's folders), and the roots.
Restoring ==
    /\ pc \in {"restore", "push"} => \A f \in Folders : Has(acl["primary"], f) => Has(seen, f)
    /\ pc = "restore" => \A f \in Dirs \ todo : AsBoot("primary", f)
    /\ pc = "push" => \A f \in Dirs :
          /\ AsBoot("primary", f)
          /\ f \notin todo /\ Has(acl["primary"], f) => AsBoot("secondary", f)
    /\ pc \notin {"down", "restore"} => AsBoot("primary", Root) /\ AsBoot("secondary", Root)
    /\ pc \in {"resync", "apply", "csv", "mirror", "root"} /\ boot[Root] \in Acls =>
          seen[Root] = boot[Root]

\* Apply, when nothing fails.
LEMMA QuietApply ==
    ASSUME AclType, NEW side \in Sides, NEW f \in Dirs, NEW text \in Text, Apply(side, f, text), quiet'
    PROVE  /\ quiet
           /\ \A s \in Sides, g \in Dirs : Has(acl'[s], g) <=> Has(acl[s], g)
           /\ \A s \in Sides, g \in Dirs : s # side \/ g # f => acl'[s][g] = acl[s][g]
           /\ text \in Acls /\ Has(acl[side], f) => acl'[side][f] = text
           /\ acl'[side][f] \in {acl[side][f], text}
<1>1. quiet /\ acl' = [acl EXCEPT ![side] = Applied(@, f, text)]
  BY DEF Apply, NoFault, Fault
<1>2. Side(acl[side])
  BY DEF AclType
<1> DEFINE t == Applied(acl[side], f, text)
<1>3. /\ \A g \in Dirs : Has(t, g) <=> Has(acl[side], g)
      /\ \A g \in Dirs : g # f => t[g] = acl[side][g]
      /\ t[f] \in {acl[side][f], text}
      /\ text \in Acls /\ Has(acl[side], f) => t[f] = text
  BY <1>2, AppliedSide
<1>4. acl' = [acl EXCEPT ![side] = t]
  BY <1>1
<1> HIDE DEF t
<1>5. \A s \in Sides : acl'[s] = IF s = side THEN t ELSE acl[s]
  BY <1>4 DEF AclType
<1> QED
  BY <1>1, <1>3, <1>5

\* The operations of a pass leave the roots alone.
LEMMA RootsStay ==
    ASSUME AclType, ServiceType, NEW op \in Op, ApplyNext(op), NEW s \in Sides
    PROVE  acl'[s][Root] = acl[s][Root]
<1> DEFINE t == acl[op.side]
           made == MkdirAll(t, op.path)
           set == Applied(made, op.path, MkdirText(op.side, op.path))
           left == RemoveAll(t, op.path)
<1>1. op.side \in Sides /\ op.path \in Folders /\ op.path \in Dirs /\ Root \in Dirs /\ Root # op.path
  BY TextFacts DEF Op, Dirs
<1>2. Side(t) /\ Has(t, Root)
  BY <1>1 DEF AclType, Side
<1>3. Side(made) /\ made[Root] = t[Root] /\ left[Root] = t[Root]
  BY <1>1, <1>2, MkdirAllSide, RemoveAllSide
<1>4. set[Root] = t[Root]
  BY <1>1, <1>3, MkdirTextType, AppliedSide
<1>5. \/ acl' = [acl EXCEPT ![op.side] = left]
      \/ acl' = [acl EXCEPT ![op.side] = set]
      \/ acl' = [acl EXCEPT ![op.side] = made]
  BY DEF ApplyNext
<1> HIDE DEF made, set, left
<1> QED
  BY <1>1, <1>3, <1>4, <1>5 DEF AclType

\* Without users and failures, the restore goes on and its result is left alone.
LEMMA RestoringStep == TypeOK /\ (quiet => Restoring) /\ [Next]_vars => (quiet' => Restoring')
<1> SUFFICES ASSUME AclType, ServiceType, quiet => Restoring, [Next]_vars, quiet' PROVE Restoring'
  BY TypeParts
<1>1. /\ "primary" \in Sides /\ "secondary" \in Sides /\ Sides = {"primary", "secondary"}
      /\ Root \in Dirs /\ Folders \subseteq Dirs /\ Root \notin Folders
  BY TextFacts DEF Sides, Dirs
<1>2. \A f \in Dirs : boot[f] \in Text /\ seen[f] \in Text /\ acl["primary"][f] \in Text
  BY <1>1, TextFacts DEF AclType, ServiceType
<1>3. \A s \in Sides : Has(acl[s], Root)
  BY DEF AclType, Side
<1>4. CASE Start
  <2>1. /\ UNCHANGED acl /\ pc' \in {"idle", "restore"}
        /\ pc' = "idle" => boot' = NoRows
        /\ pc' = "restore" => todo' = {f \in Dirs : boot'[f] # Absent} /\ seen' = acl["primary"]
    BY <1>4 DEF Start
  <2>2. ASSUME NEW side, NEW f \in Dirs, boot'[f] = Absent PROVE AsBoot(side, f)'
    BY <2>2, TextFacts DEF AsBoot
  <2>3. NoRows[Root] = Absent
    BY <1>1 DEF NoRows
  <2>4. CASE pc' = "idle"
    BY <2>1, <2>2, <2>3, <2>4, <1>1 DEF Restoring
  <2>5. CASE pc' = "restore"
    <3>1. \A f \in Dirs \ todo' : AsBoot("primary", f)'
      BY <2>1, <2>2, <2>5
    <3>2. \A f \in Folders : Has(acl["primary"], f)' => Has(seen, f)'
      BY <2>1, <2>5 DEF Has
    <3> QED
      BY <2>5, <3>1, <3>2 DEF Restoring
  <2> QED
    BY <2>1, <2>4, <2>5
<1>5. ASSUME NEW f \in Dirs, Restore(f) PROVE Restoring'
  <2>1. /\ Apply("primary", f, boot[f]) /\ pc = "restore" /\ pc' = "restore"
        /\ todo' = todo \ {f} /\ UNCHANGED <<boot, seen>>
    BY <1>5 DEF Restore
  <2>2. /\ quiet /\ Restoring
        /\ \A g \in Dirs : Has(acl'["primary"], g) <=> Has(acl["primary"], g)
        /\ \A g \in Dirs : g # f => acl'["primary"][g] = acl["primary"][g]
        /\ boot[f] \in Acls /\ Has(acl["primary"], f) => acl'["primary"][f] = boot[f]
    BY <2>1, <1>1, <1>2, QuietApply
  <2>3. \A g \in Dirs \ todo' : AsBoot("primary", g)'
    BY <2>1, <2>2 DEF Restoring, AsBoot
  <2>4. \A g \in Folders : Has(acl["primary"], g)' => Has(seen, g)'
    BY <2>1, <2>2, <1>1 DEF Restoring
  <2> QED
    BY <2>1, <2>3, <2>4 DEF Restoring
<1>6. CASE PushRoot
  <2>1. /\ Apply("secondary", Root, boot[Root]) /\ pc = "restore" /\ pc' = "push" /\ todo = {}
        /\ todo' = ToPush /\ UNCHANGED <<boot, seen>>
    BY <1>6 DEF PushRoot
  <2>2. /\ quiet /\ Restoring
        /\ \A s \in Sides, g \in Dirs : Has(acl'[s], g) <=> Has(acl[s], g)
        /\ \A g \in Dirs : acl'["primary"][g] = acl["primary"][g]
        /\ boot[Root] \in Acls => acl'["secondary"][Root] = boot[Root]
    BY <2>1, <1>1, <1>2, <1>3, QuietApply
  <2>3. \A g \in Dirs : AsBoot("primary", g)'
    BY <2>1, <2>2, <1>1 DEF Restoring, AsBoot
  <2>4. AsBoot("secondary", Root)'
    BY <2>1, <2>2 DEF AsBoot
  <2>5. ASSUME NEW g \in Dirs, g \notin todo', Has(acl'["primary"], g) PROVE AsBoot("secondary", g)'
    <3>1. CASE g \in Folders
      <4>1. Has(seen, g)
        BY <2>1, <2>2, <2>5, <3>1, <1>1 DEF Restoring
      <4>2. ~ Has(acl["secondary"], g)
        BY <4>1, <2>1, <2>5, <3>1 DEF ToPush, FoldersOf
      <4> QED
        BY <4>2, <2>2, <1>1 DEF AsBoot
    <3> QED
      BY <3>1, <2>4 DEF Dirs
  <2>6. \A g \in Folders : Has(acl["primary"], g)' => Has(seen, g)'
    BY <2>1, <2>2, <1>1 DEF Restoring
  <2> QED
    BY <2>1, <2>3, <2>4, <2>5, <2>6, <1>1 DEF Restoring
<1>7. ASSUME NEW f \in Folders, Push(f) PROVE Restoring'
  <2>1. /\ Apply("secondary", f, acl["primary"][f]) /\ pc = "push" /\ pc' = "push"
        /\ todo' = todo \ {f} /\ UNCHANGED <<boot, seen>> /\ f \in Dirs /\ f # Root
    BY <1>1, <1>7 DEF Push
  <2>2. /\ quiet /\ Restoring
        /\ \A s \in Sides, g \in Dirs : Has(acl'[s], g) <=> Has(acl[s], g)
        /\ \A g \in Dirs : acl'["primary"][g] = acl["primary"][g]
        /\ \A g \in Dirs : g # f => acl'["secondary"][g] = acl["secondary"][g]
        /\ acl["primary"][f] \in Acls /\ Has(acl["secondary"], f)
              => acl'["secondary"][f] = acl["primary"][f]
    BY <2>1, <1>1, <1>2, QuietApply
  <2>3. \A g \in Dirs : AsBoot("primary", g)'
    BY <2>1, <2>2, <1>1 DEF Restoring, AsBoot
  <2>4. AsBoot("secondary", Root)'
    BY <2>1, <2>2, <1>1 DEF Restoring, AsBoot
  <2>5. ASSUME NEW g \in Dirs, g \notin todo', Has(acl'["primary"], g) PROVE AsBoot("secondary", g)'
    BY <2>1, <2>2, <2>3, <2>5, <1>1 DEF Restoring, AsBoot
  <2>6. \A g \in Folders : Has(acl["primary"], g)' => Has(seen, g)'
    BY <2>1, <2>2, <1>1 DEF Restoring
  <2> QED
    BY <2>1, <2>3, <2>4, <2>5, <2>6, <1>1 DEF Restoring
<1>8. CASE Ready
  BY <1>8 DEF Ready, Restoring, AsBoot, history
<1>9. ASSUME NEW why, Begin(why) PROVE Restoring'
  <2>1. quiet /\ seen' = acl["primary"] /\ pc = "idle" /\ pc' = "resync" /\ UNCHANGED <<acl, boot>>
    BY <1>9 DEF Begin, Fault, NoFault
  <2> QED
    BY <2>1, <1>1, <1>3 DEF Restoring, AsBoot
<1>10. ASSUME NEW f \in Folders, Resync(f) PROVE Restoring'
  <2>1. Apply("secondary", f, seen[f]) /\ pc = "resync" /\ pc' = "resync" /\ UNCHANGED <<boot, seen>>
    BY <1>10 DEF Resync
  <2>2. quiet /\ \A s \in Sides : acl'[s][Root] = acl[s][Root] /\ (Has(acl'[s], Root) <=> Has(acl[s], Root))
    BY <2>1, <1>1, <1>2, QuietApply
  <2> QED
    BY <2>1, <2>2, <1>1 DEF Restoring, AsBoot
<1>11. ASSUME NEW files, Merge(files) PROVE Restoring'
  BY <1>11 DEF Merge, Restoring, AsBoot, history
<1>12. ASSUME NEW op \in Op, ApplyNext(op) PROVE Restoring'
  <2>1. quiet /\ pc = "apply" /\ pc' = "apply" /\ UNCHANGED <<boot, seen>>
    BY <1>12 DEF ApplyNext, Fault, NoFault
  <2>2. \A s \in Sides : acl'[s][Root] = acl[s][Root]
    BY <1>12, RootsStay
  <2> QED
    BY <2>1, <2>2, <1>1 DEF Restoring, AsBoot, Has
<1>13. CASE Save
  BY <1>13 DEF Save, Restoring, AsBoot, history, memory
<1>14. CASE WriteCsv \/ MirrorCsv
  BY <1>14 DEF WriteCsv, MirrorCsv, Restoring, AsBoot, memory, Fault, NoFault
<1>15. CASE EndPass
  <2>1. Apply("secondary", Root, seen[Root]) /\ pc = "root" /\ pc' = "idle" /\ UNCHANGED boot
    BY <1>15 DEF EndPass
  <2>2. /\ quiet /\ acl'["primary"][Root] = acl["primary"][Root]
        /\ acl'["secondary"][Root] \in {acl["secondary"][Root], seen[Root]}
    BY <2>1, <1>1, <1>2, QuietApply
  <2> QED
    BY <2>1, <2>2, <1>1, <1>3 DEF Restoring, AsBoot, Has
<1>16. CASE Crash \/ ReplacePrimary
  BY <1>16 DEF Crash, ReplacePrimary, Restoring
<1>17. CASE Users
  BY <1>17 DEF Users, UserMkdir, UserRmdir, UserSetAcl, Edit
<1>18. CASE UNCHANGED vars
  BY <1>18 DEF vars, memory, history, Restoring, AsBoot
<1> QED
  BY <1>4, <1>5, <1>6, <1>7, <1>8, <1>9, <1>10, <1>11, <1>12, <1>13, <1>14, <1>15, <1>16, <1>17, <1>18
     DEF Next, Service

\* bootstrapACL brings the ACLs of the acl.csv back on both sides, for every tree:
\* no folder is missed by its two loops although they go by a scan made before.
THEOREM RestoreComplete == Spec => []RestoreIsComplete
<1>1. Init => (quiet => Restoring)
  BY DEF Init, Restoring
<1>2. TypeOK /\ (quiet => Restoring) => RestoreIsComplete
  <2> SUFFICES ASSUME TypeOK, quiet, Restoring PROVE RestoreIsComplete
    BY DEF RestoreIsComplete
  <2>1. Root \in Dirs /\ \A s \in Sides : Has(acl[s], Root)
    BY DEF TypeOK, Dirs
  <2> QED
    BY <2>1 DEF Restoring, AsBoot, RestoreIsComplete, Sides
<1> QED
  BY <1>1, <1>2, RestoringStep, AclTypeCorrect, PTL DEF Spec
============================================================================

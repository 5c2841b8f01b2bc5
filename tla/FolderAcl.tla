----------------------------- MODULE FolderAcl -----------------------------
(***************************************************************************)
(* What a service does to the ACLs of folders: the restore at start        *)
(* (bootstrapACL), the ACL side of a pass (doPass, mkdirWithACL,           *)
(* syncExistingFolderACLs) and the acl.csv files that carry ACLs over a    *)
(* restart or to a new primary (state/aclcsv.go).                          *)
(*                                                                         *)
(* An ACL text is a model value.  Of a tree only its folders matter; that  *)
(* there are file operations in a pass is a free choice.  SyncPass models  *)
(* the merge of files, and the lock; here one service runs.                *)
(***************************************************************************)
EXTENDS Integers, FiniteSets

CONSTANTS
    Folders,      \* relative paths of folders
    Above,        \* folder or Root -> everything above it
    Modes,        \* the modes to look at: "sync", "push" and "pull"
    Default,      \* the ACL of a new dataset
    UserAcls,     \* side -> the ACLs users set there
    MaxEdits,     \* bound: user operations
    MaxCrashes,   \* bound: crashes of the service
    MaxFaults,    \* bound: ACL commands and file writes that fail
    MaxReplaced,  \* bound: times the primary is set up anew
    MaxEvents     \* bound: all of these together

Sides == {"primary", "secondary"}
Root == "."
Dirs == Folders \cup {Root}
Acls == {Default} \cup UNION {UserAcls[s] : s \in Sides}

Absent == "absent"   \* no such folder, no such row
Blank == "blank"     \* an empty ACL text

ASSUME FolderAssumption ==
    /\ Root \notin Folders
    /\ Above \in [Dirs -> SUBSET Dirs]
    /\ Above[Root] = {}
    /\ \A f \in Folders : Root \in Above[f] /\ f \notin Above[f]
    /\ \A f \in Dirs : \A g \in Above[f] : Above[g] \subseteq Above[f]
\* What is above a folder is a path: of any folders on it, one is the deepest.
ASSUME PathAssumption ==
    \A f \in Folders : \A S \in SUBSET Above[f] :
        S # {} => \E g \in S : \A h \in S : h = g \/ h \in Above[g]
ASSUME AclsAssumption == {Absent, Blank} \cap Acls = {}
ASSUME AclModes == Modes \subseteq {"sync", "push", "pull"}
ASSUME AclBounds == {MaxEdits, MaxCrashes, MaxFaults, MaxReplaced, MaxEvents} \subseteq Nat

VARIABLES
    mode,
    acl,       \* side -> folder -> its ACL, or Absent
    base,      \* cs-sync.state: folder -> the ACL text of its entry
    csv,       \* side -> acl.csv: folder -> ACL text
    pc,        \* where the service is
    boot,      \* apply.Roots.PrimaryBootstrapACL
    seen,      \* primaryTree with its ACLs, rootACL under Root
    found,     \* the folders of secondaryTree
    todo,      \* folders a loop has still to visit
    ops,       \* res.Ops that are not applied yet
    newBase,   \* res.NewBaseline
    \* environment and history
    edits, crashes, faults, replaced,
    quiet      \* no user and no fault since the service was started

memory == <<boot, seen, found, todo, ops, newBase>>
history == <<edits, crashes, faults, replaced, quiet>>
vars == <<mode, acl, base, csv, pc, memory, history>>

Text == Acls \cup {Blank, Absent}
NoRows == [f \in Dirs |-> Absent]
NoFolders == [f \in Folders |-> Absent]

Op == [kind : {"mkdir", "rmdir"}, side : Sides, path : Folders]

Has(t, f) == t[f] # Absent
FoldersOf(t) == {f \in Folders : Has(t, f)}

\* The folders at and below f, and the deepest of folders on one path.
Beneath(f) == {g \in Folders : g = f \/ f \in Above[g]}
Deepest(S) == CHOOSE g \in S : \A h \in S : h = g \/ h \in Above[g]
Parent(f) == Deepest(Above[f])

\* Also: on each side, there is a root, and what is above a folder exists.
TypeOK ==
    /\ mode \in Modes
    /\ acl \in [Sides -> [Dirs -> Acls \cup {Absent}]]
    /\ \A s \in Sides : Has(acl[s], Root)
    /\ \A s \in Sides, f \in Dirs : Has(acl[s], f) => \A g \in Above[f] : Has(acl[s], g)
    /\ base \in [Folders -> Text]
    /\ csv \in [Sides -> [Dirs -> Text]]
    /\ pc \in {"down", "restore", "push", "idle", "resync", "apply", "csv", "mirror", "root"}
    /\ boot \in [Dirs -> Text]
    /\ seen \in [Dirs -> Text]
    /\ found \subseteq Folders
    /\ todo \subseteq Dirs
    /\ ops \subseteq Op
    /\ newBase \in [Folders -> Text]
    /\ edits \in 0..MaxEdits
    /\ crashes \in 0..MaxCrashes
    /\ faults \in 0..MaxFaults
    /\ replaced \in 0..MaxReplaced
    /\ quiet \in BOOLEAN

\* Two new datasets, and a service that has not been started yet.
Init ==
    /\ mode \in Modes
    /\ acl = [s \in Sides |-> [f \in Dirs |-> IF f = Root THEN Default ELSE Absent]]
    /\ base = NoFolders
    /\ csv = [s \in Sides |-> NoRows]
    /\ pc = "down"
    /\ boot = NoRows
    /\ seen = NoRows
    /\ found = {}
    /\ todo = {}
    /\ ops = {}
    /\ newBase = NoFolders
    /\ edits = 0
    /\ crashes = 0
    /\ faults = 0
    /\ replaced = 0
    /\ quiet = TRUE

----------------------------------------------------------------------------
(* The file system and the ACL tools *)

\* acl.Apply: an empty text does nothing, a folder that is gone is an error.
Applied(t, f, text) ==
    IF text \in {Blank, Absent} \/ ~ Has(t, f) THEN t ELSE [t EXCEPT ![f] = text]

\* os.MkdirAll: with aclinherit=passthrough new folders take their parent's ACL.
MkdirAll(t, f) ==
    LET new == {g \in Above[f] \cup {f} : ~ Has(t, g)}
        nearest == Deepest({g \in Above[f] : Has(t, g)})
    IN  [g \in Dirs |-> IF g \in new THEN t[nearest] ELSE t[g]]

\* Mutant: only the folder itself is taken away.
RemoveOne(t, f) == [g \in Dirs |-> IF g = f THEN Absent ELSE t[g]]

\* os.RemoveAll
RemoveAll(t, f) == [g \in Dirs |-> IF g \in Beneath(f) THEN Absent ELSE t[g]]

\* Not all the events of the bound have happened.
Room == edits + crashes + faults + replaced < MaxEvents

\* A command or a write fails; the code logs it and goes on.
Fault ==
    /\ faults < MaxFaults /\ Room
    /\ faults' = faults + 1
    /\ quiet' = FALSE

NoFault == UNCHANGED <<faults, quiet>>

\* Apply text to folder f of a side, or fail to.
Apply(side, f, text) ==
    \/ /\ acl' = [acl EXCEPT ![side] = Applied(@, f, text)]
       /\ NoFault
    \/ /\ Applied(acl[side], f, text) # acl[side]
       /\ Fault
       /\ UNCHANGED acl

----------------------------------------------------------------------------
(* Start: bootstrapACL *)

\* A file without rows (Root Blank, nothing else) is as good as no file.
Empty(c) == c[Root] \in {Absent, Blank} /\ \A f \in Folders : c[f] = Absent

\* aclCSVMatches: every folder that has a row exists on the primary.
Matches(c, t) == FoldersOf(c) \subseteq FoldersOf(t)

\* chooseACLSource: the primary's file, else the secondary's, else none.
ChooseSource(t) ==
    IF ~ Empty(csv["primary"]) /\ Matches(csv["primary"], t) THEN csv["primary"]
    ELSE IF ~ Empty(csv["secondary"]) /\ Matches(csv["secondary"], t) THEN csv["secondary"]
    ELSE NoRows

Start ==
    /\ pc = "down"
    /\ LET source == ChooseSource(acl["primary"])
       IN  /\ boot' = source
           /\ todo' = {f \in Dirs : source[f] # Absent}
           /\ pc' = IF source = NoRows THEN "idle" ELSE "restore"
           /\ seen' = IF source = NoRows THEN NoRows ELSE acl["primary"]
    /\ quiet' = TRUE
    /\ UNCHANGED <<mode, acl, base, csv, found, ops, newBase, edits, crashes, faults, replaced>>

\* The loop over the source: each row is applied to the primary.
Restore(f) ==
    /\ pc = "restore"
    /\ f \in todo
    /\ todo' = todo \ {f}
    /\ Apply("primary", f, boot[f])
    /\ UNCHANGED <<mode, base, csv, pc, boot, seen, found, ops, newBase, edits, crashes, replaced>>

\* Mutant: folders that are on both sides are not looked at.
ToPushNone == {}

ToPush == FoldersOf(acl["secondary"]) \cap FoldersOf(seen)

\* The root row goes to the secondary, which is then scanned.
PushRoot ==
    /\ pc = "restore"
    /\ todo = {}
    /\ pc' = "push"
    /\ todo' = ToPush
    /\ Apply("secondary", Root, boot[Root])
    /\ UNCHANGED <<mode, base, csv, boot, seen, found, ops, newBase, edits, crashes, replaced>>

\* Folders on both sides: what the primary has now goes to the secondary.
Push(f) ==
    /\ pc = "push"
    /\ f \in todo
    /\ todo' = todo \ {f}
    /\ Apply("secondary", f, acl["primary"][f])
    /\ UNCHANGED <<mode, base, csv, pc, boot, seen, found, ops, newBase, edits, crashes, replaced>>

Ready ==
    /\ pc = "push"
    /\ todo = {}
    /\ pc' = "idle"
    /\ seen' = NoRows
    /\ UNCHANGED <<mode, acl, base, csv, boot, found, todo, ops, newBase, history>>

----------------------------------------------------------------------------
(* A pass: doPass *)

\* populateACL: a folder whose ACL cannot be read keeps an empty text.
Unreadable(t, f) == [t EXCEPT ![f] = Blank]

\* Mutant: the safety net passes by the folders that are on both sides.
ToResyncNone(reason, view) == {}

\* syncExistingFolderACLs visits the folders whose ACL could be read; only the
\* passes of the safety net (or of SIGHUP) call it.
ToResync(reason, view) ==
    IF reason = "safety-net" THEN {f \in FoldersOf(view) : view[f] # Blank} ELSE {}

\* The scans of both sides and populateACL, in one step: what is read of a folder is
\* read once, and no property relates what was read of two folders at one moment.
Begin(reason) ==
    /\ pc = "idle"
    /\ pc' = "resync"
    /\ found' = FoldersOf(acl["secondary"])
    /\ \/ /\ seen' = acl["primary"]
          /\ NoFault
       \/ /\ \E f \in Dirs : Has(acl["primary"], f) /\ seen' = Unreadable(acl["primary"], f)
          /\ Fault
    /\ todo' = ToResync(reason, seen')
    /\ UNCHANGED <<mode, acl, base, csv, boot, ops, newBase, edits, crashes, replaced>>

\* The ACL as it was read goes to the secondary, if the folder is there.
Resync(f) ==
    /\ pc = "resync"
    /\ f \in todo
    /\ todo' = todo \ {f}
    /\ Apply("secondary", f, seen[f])
    /\ UNCHANGED <<mode, base, csv, pc, boot, seen, found, ops, newBase, edits, crashes, replaced>>

\* The entries of secondaryTree have no ACL: populateACL is for the primary only.
SecondaryView == [f \in Folders |-> IF f \in found THEN Blank ELSE Absent]

\* forceOneway, as in SyncPass.
PassBaseline ==
    CASE mode = "sync" -> base
      [] mode = "push" -> SecondaryView
      [] mode = "pull" -> [f \in Folders |-> seen[f]]

\* Reconcile on folders, which are the same whatever their ACL: a folder that
\* is on one side only is new there or was removed from the other one.
Mkdirs(b, side, here, there) ==
    {[kind |-> "mkdir", side |-> side, path |-> f] :
        f \in {g \in Folders : ~ Has(b, g) /\ ~ Has(here, g) /\ Has(there, g)}}
Rmdirs(b, side, here, there) ==
    {[kind |-> "rmdir", side |-> side, path |-> f] :
        f \in {g \in Folders : Has(b, g) /\ Has(here, g) /\ ~ Has(there, g)}}

MergeOps(b, P, S) ==
    Mkdirs(b, "primary", P, S) \cup Mkdirs(b, "secondary", S, P)
    \cup Rmdirs(b, "primary", P, S) \cup Rmdirs(b, "secondary", S, P)

\* The new baseline keeps the old entry of a folder that is on both sides.
MergedRow(b, pr, se) ==
    CASE b = Absent -> IF pr # Absent THEN pr ELSE se
      [] b # Absent -> IF pr # Absent /\ se # Absent THEN b ELSE Absent

\* Reconcile.  The pass ends here when there is nothing to do; files says
\* whether it has operations on files.
Merge(files) ==
    /\ pc = "resync"
    /\ todo = {}
    /\ LET b == PassBaseline
           merged == MergeOps(b, seen, SecondaryView)
       IN  IF merged = {} /\ ~ files
             THEN /\ pc' = "idle"
                  /\ seen' = NoRows
                  /\ UNCHANGED <<ops, newBase>>
             ELSE /\ pc' = "apply"
                  /\ ops' = merged
                  /\ newBase' = [f \in Folders |-> MergedRow(b[f], seen[f], SecondaryView[f])]
                  /\ UNCHANGED seen
    /\ found' = {}
    /\ UNCHANGED <<mode, acl, base, csv, boot, todo, history>>

\* applyOrdered: folders are made from the top, then removed from the bottom.
IsNext(op) ==
    /\ op \in ops
    /\ op.kind = "mkdir" => \A o \in ops : o.kind = "mkdir" => o.path \notin Above[op.path]
    /\ op.kind = "rmdir" => \A o \in ops : o.kind = "rmdir" /\ op.path \notin Above[o.path]

\* Mutant: a folder made on the primary takes the ACL the secondary has.
MkdirTextEither(side, f) ==
    IF side = "primary" THEN acl["secondary"][f] ELSE acl["primary"][f]

\* mkdirWithACL: on the primary the text kept from the start, if any; on the
\* secondary the ACL of the same folder on the primary, else of its parent.
MkdirText(side, f) ==
    CASE side = "primary" -> boot[f]
      [] side = "secondary" -> IF Has(acl["primary"], f) THEN acl["primary"][f]
                               ELSE acl["primary"][Parent(f)]

\* The directory is made before its ACL is set, which may fail.
ApplyNext(op) ==
    /\ pc = "apply"
    /\ IsNext(op)
    /\ ops' = ops \ {op}
    /\ LET t == acl[op.side]
           made == MkdirAll(t, op.path)
           set == Applied(made, op.path, MkdirText(op.side, op.path))
       IN  \/ /\ op.kind = "rmdir"
              /\ acl' = [acl EXCEPT ![op.side] = RemoveAll(t, op.path)]
              /\ NoFault
           \/ /\ op.kind = "mkdir"
              /\ acl' = [acl EXCEPT ![op.side] = set]
              /\ NoFault
           \/ /\ op.kind = "mkdir" /\ made # set
              /\ acl' = [acl EXCEPT ![op.side] = made]
              /\ Fault
    /\ UNCHANGED <<mode, base, csv, pc, boot, seen, found, todo, newBase, edits, crashes, replaced>>

Save ==
    /\ pc = "apply"
    /\ ops = {}
    /\ pc' = "csv"
    /\ base' = newBase
    /\ UNCHANGED <<mode, acl, csv, memory, history>>

\* WriteACLCSV: a row per folder of the new baseline, one for the root.
CsvOf(rows, rootText) == [f \in Dirs |-> IF f = Root THEN rootText ELSE rows[f]]

WriteCsv ==
    /\ pc = "csv"
    /\ pc' = "mirror"
    /\ \/ /\ csv' = [csv EXCEPT !["primary"] = CsvOf(newBase, seen[Root])]
          /\ NoFault
       \/ Fault /\ UNCHANGED csv
    /\ UNCHANGED <<mode, acl, base, memory, edits, crashes, replaced>>

\* MirrorACLCSV: the secondary gets a copy, if there is a file.
MirrorCsv ==
    /\ pc = "mirror"
    /\ pc' = "root"
    /\ \/ /\ csv' = IF csv["primary"] = NoRows THEN csv
                    ELSE [csv EXCEPT !["secondary"] = csv["primary"]]
          /\ NoFault
       \/ Fault /\ UNCHANGED csv
    /\ UNCHANGED <<mode, acl, base, memory, edits, crashes, replaced>>

\* The root ACL as it was read goes to the secondary's root.
EndPass ==
    /\ pc = "root"
    /\ pc' = "idle"
    /\ seen' = NoRows
    /\ newBase' = NoFolders
    /\ Apply("secondary", Root, seen[Root])
    /\ UNCHANGED <<mode, base, csv, boot, found, todo, ops, edits, crashes, replaced>>

Crash ==
    /\ pc # "down"
    /\ crashes < MaxCrashes /\ Room
    /\ crashes' = crashes + 1
    /\ pc' = "down"
    /\ boot' = NoRows
    /\ seen' = NoRows
    /\ found' = {}
    /\ todo' = {}
    /\ ops' = {}
    /\ newBase' = NoFolders
    /\ UNCHANGED <<mode, acl, base, csv, edits, faults, replaced, quiet>>

Reasons == {"event", "safety-net"}

Service ==
    \/ Start
    \/ \E f \in Dirs : Restore(f)
    \/ PushRoot
    \/ \E f \in Folders : Push(f)
    \/ Ready
    \/ \E reason \in Reasons : Begin(reason)
    \/ \E f \in Folders : Resync(f)
    \/ \E files \in BOOLEAN : Merge(files)
    \/ \E op \in Op : ApplyNext(op)
    \/ Save
    \/ WriteCsv
    \/ MirrorCsv
    \/ EndPass

----------------------------------------------------------------------------
(* Users and administrators *)

Edit(side, t) ==
    /\ edits < MaxEdits /\ Room
    /\ edits' = edits + 1
    /\ acl' = [acl EXCEPT ![side] = t]
    /\ quiet' = FALSE
    /\ UNCHANGED <<mode, base, csv, pc, memory, crashes, faults, replaced>>

UserMkdir(side, f) ==
    /\ ~ Has(acl[side], f) /\ Has(acl[side], Parent(f))
    /\ Edit(side, MkdirAll(acl[side], f))

UserRmdir(side, f) ==
    /\ Has(acl[side], f)
    /\ Edit(side, RemoveAll(acl[side], f))

UserSetAcl(side, f, text) ==
    /\ acl[side][f] \notin {Absent, text}
    /\ Edit(side, [acl[side] EXCEPT ![f] = text])

\* The primary is lost and set up anew from a copy that has its folders but
\* neither their ACLs nor .backupdata.
ReplacePrimary ==
    /\ pc = "down"
    /\ replaced < MaxReplaced /\ Room
    /\ replaced' = replaced + 1
    /\ acl' = [acl EXCEPT !["primary"] =
                  [f \in Dirs |-> IF Has(@, f) THEN Default ELSE Absent]]
    /\ csv' = [csv EXCEPT !["primary"] = NoRows]
    /\ base' = NoFolders
    /\ UNCHANGED <<mode, pc, memory, edits, crashes, faults, quiet>>

Users ==
    \E side \in Sides :
        \/ \E f \in Folders : UserMkdir(side, f) \/ UserRmdir(side, f)
        \/ \E f \in Dirs, text \in UserAcls[side] : UserSetAcl(side, f, text)

Next == Service \/ Crash \/ Users \/ ReplacePrimary

Spec == Init /\ [][Next]_vars

\* A started service goes on and is started again after a crash (WF); the safety
\* net comes round for ever, between whatever other passes there are (SF).
FairSpec == Spec /\ WF_vars(Service) /\ SF_vars(Begin("safety-net"))

----------------------------------------------------------------------------
(* Properties *)

\* mkdirWithACL: "primary is always the ACL source of truth, independent of which
\* side the create is destined for".  An ACL that only users of the secondary
\* ever set is never on the primary, and is in nothing that could bring it there
\* later: the baseline, both acl.csv files and the text kept from the start.
SecondaryOnly == UserAcls["secondary"] \ (UserAcls["primary"] \cup {Default})
SecondaryAclsStay ==
    \A text \in SecondaryOnly :
        /\ \A f \in Dirs : text \notin {acl["primary"][f], csv["primary"][f],
                                        csv["secondary"][f], boot[f]}
        /\ \A f \in Folders : base[f] # text

\* bootstrapACL, unless a user changes something or a command fails since the start:
\* when it has gone through an acl.csv, each folder of the primary that has a row
\* there has that ACL again, and so has its copy on the secondary; of the roots,
\* which are never made anew, passes do not take it away again.
RestoreIsComplete ==
    quiet =>
        /\ pc = "push" => \A f \in Dirs : boot[f] \in Acls /\ Has(acl["primary"], f) =>
              /\ acl["primary"][f] = boot[f]
              /\ todo = {} /\ Has(acl["secondary"], f) => acl["secondary"][f] = boot[f]
        /\ pc \notin {"down", "restore"} /\ boot[Root] \in Acls =>
              \A s \in Sides : acl[s][Root] = boot[Root]

\* "self-heals ... via the periodic existing-folder ACL re-sync": once users are
\* done, every folder that is on both sides has the primary's ACL on both for
\* good, whatever crashed, failed or was restored from an acl.csv before.
AclsConverge ==
    <>[](\A f \in Folders : (\A s \in Sides : Has(acl[s], f))
                               => acl["secondary"][f] = acl["primary"][f])

\* WriteACLCSV: "one line per directory" with its ACL text, the root's "captured/
\* restored just like any other folder's ACL".  When a pass has written the
\* file (and no write fails), each row is the ACL that this pass has read.
CsvIsCurrent ==
    pc = "mirror" =>
        \A f \in Dirs : seen[f] \in Acls /\ csv["primary"][f] # Absent
                            => csv["primary"][f] = seen[f]

\* "primary is always the ACL source of truth": an ACL that a user of the primary
\* has set is not taken back by the service.
UsersAclsStay ==
    [][Service => \A f \in Folders :
          Has(acl["primary"], f) /\ Has(acl["primary"]', f)
              => acl["primary"]'[f] = acl["primary"][f]]_vars

\* "pull - one-way, you are the destination": a pull service does not change the
\* folders it pulls from, which are the secondary of its internal model.
SourceAclsUntouched ==
    [][Service /\ mode = "pull" => acl'["secondary"] = acl["secondary"]]_vars

\* The root's ACL is the default of all that is created below it: the secondary's
\* root gets the primary's in the end.
RootConverges == <>[](acl["secondary"][Root] = acl["primary"][Root])
============================================================================

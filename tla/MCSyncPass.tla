----------------------------- MODULE MCSyncPass -----------------------------
(* Constant values for the runs of SyncPass. *)
EXTENDS SyncPass, TLC

Two == {<<1>>, <<2>>}                       \* two files a, b
OneFile == {<<1>>}
DirAndFile == {<<1>>, <<1, 1>>}             \* d, d/x
DirTwo == {<<1>>, <<1, 1>>, <<2>>}          \* d, d/x, a

OneService == {"s1"}
TwoServices == {"s1", "s2"}
Loc1 == {"primary", "s1"}
Loc2 == {"primary", "s1", "s2"}
ModeSync == [s \in Services |-> "sync"]
ModePush == [s \in Services |-> "push"]
\* s2 -> primary -> s1
ModeChain == [s \in Services |-> IF s = "s1" THEN "push" ELSE "pull"]

FilesOnly == [sh \in Shapes |-> {"file"}]
FilesAndLinks == [sh \in Shapes |-> {"file", "symlink"}]
DirsAbove == [sh \in Shapes |-> IF sh = <<1>> THEN {"dir"} ELSE {"file"}]

DirsAndFiles == [sh \in Shapes |-> {"dir", "file"}]
ModeBidirAndPush == [s \in Services |-> IF s = "s1" THEN "sync" ELSE "push"]
OnlyPrimary == {"primary"}

SameSizes == [v \in 1..MaxVersion |-> 1]
DistinctSizes == [v \in 1..MaxVersion |-> v]
============================================================================

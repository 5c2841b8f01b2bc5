---------------------------- MODULE MCRemoteLeg ----------------------------
(* Constant values for the runs of RemoteLeg. *)
EXTENDS RemoteLeg

OneFile == {<<1>>}
TwoFiles == {<<1>>, <<2>>}                  \* a, b
DirAndFile == {<<1>>, <<1, 1>>}             \* d, d/x
DirTwo == {<<1>>, <<1, 1>>, <<2>>}          \* d, d/x, a

PrimaryAndRemote == {"primary", "remote"}
FilesOnly == [sh \in Shapes |-> {"file"}]
DirsAbove == [sh \in Shapes |-> IF sh = <<1>> THEN {"dir"} ELSE {"file"}]
DirAndLinks == [sh \in Shapes |-> CASE sh = <<1>> -> {"dir"}
                                    [] sh = <<2>> -> {"file", "symlink"}
                                    [] OTHER -> {"file"}]
DistinctSizes == [v \in 1..MaxVersion |-> v]
============================================================================

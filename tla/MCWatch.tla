------------------------------ MODULE MCWatch ------------------------------
(* Constant values for the runs of Watch: root/d/e. *)
EXTENDS Watch

Chain == {"root", "d", "e"}
ChainParent == [x \in Chain |-> IF x = "e" THEN "d" ELSE "root"]
============================================================================

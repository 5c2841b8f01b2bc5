---------------------------- MODULE MCFolderAcl ----------------------------
(* Constant values for the runs of FolderAcl: a folder and one in it. *)
EXTENDS FolderAcl

TwoFolders == {"a", "a/b"}
Nested == [f \in Dirs |-> IF f = "a/b" THEN {"a", Root} ELSE IF f = "a" THEN {Root} ELSE {}]
OneFolder == {"a"}
Top == [f \in Dirs |-> IF f = Root THEN {} ELSE {Root}]

\* Each side's users have an ACL of their own.
OwnAcls == [s \in {"primary", "secondary"} |-> IF s = "primary" THEN {"p"} ELSE {"s"}]
============================================================================

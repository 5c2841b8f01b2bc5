------------------------------- MODULE Mutex -------------------------------
(***************************************************************************)
(* What the pass lock promises: one process at a time is inside, until the *)
(* lock is broken under a process that is inside.  Who waits, how long,    *)
(* and what a lock is, are left out.                                       *)
(***************************************************************************)
VARIABLES
    inside,     \* the processes in the critical section
    broken      \* a process has lost its lock while it was inside

Init == inside = {} /\ broken = FALSE

Enter(p) ==
    /\ broken \/ inside = {}
    /\ p \notin inside
    /\ inside' = inside \cup {p}
    /\ UNCHANGED broken

\* By Unlock or by a crash.  It breaks the lock only of somebody else inside.
Leave(p) ==
    /\ p \in inside
    /\ inside' = inside \ {p}
    /\ \/ UNCHANGED broken
       \/ inside' # {} /\ broken' = TRUE

\* Somebody who waits removes the lock of a process that is inside.
Break ==
    /\ inside # {}
    /\ broken' = TRUE
    /\ UNCHANGED inside

Next ==
    \/ \E p \in inside' : Enter(p)
    \/ \E p \in inside : Leave(p)
    \/ Break

Spec == Init /\ [][Next]_<<inside, broken>>
============================================================================

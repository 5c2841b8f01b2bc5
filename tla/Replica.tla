----------------------------- MODULE Replica -----------------------------
(***************************************************************************)
(* What ZFS replication promises, with the protocol left out: two sets of  *)
(* snapshots, the primary's and the backup's, and the steps that may       *)
(* change them.  The local cycle (ZfsCycle) and the pair of services on    *)
(* two hosts (ZfsPair) both implement it.                                  *)
(***************************************************************************)
EXTENDS Integers

CONSTANT Auto       \* rollbacks of the backup need no approval

VARIABLES
    mine,       \* snapshots of the primary
    held,       \* snapshots of the backup that are confirmed
    fresh,      \* the one received last and not confirmed yet, or 0
    linked,     \* the backup is known to be this primary's
    agreed      \* snapshots of the backup its operator agrees to lose

vars == <<mine, held, fresh, linked, agreed>>

Theirs == held \cup ({fresh} \ {0})
Shared == mine \cap Theirs

\* There is a snapshot to send increments from.
Based == linked /\ held # {} => Shared # {}

Init == mine = {} /\ held = {} /\ fresh = 0 /\ linked = FALSE /\ agreed = {}

\* A snapshot of the primary; it is newer than everything on either side.
Take(g) ==
    /\ \A x \in mine \cup Theirs : x < g
    /\ mine' = mine \cup {g}
    /\ UNCHANGED <<held, fresh, linked, agreed>>

\* The primary gives snapshots up, by rotation, after a failure or because its
\* operator goes back in time.
Release ==
    /\ mine' \subseteq mine
    /\ Based'
    /\ UNCHANGED <<held, fresh, linked, agreed>>

\* What a forced receive takes from the backup: everything newer than a shared
\* snapshot and nothing else, with the operator's consent.
RollBack ==
    /\ \E base \in Shared \cup {0} : held' = {x \in held : x <= base}
    /\ Auto \/ held \ held' \subseteq agreed

\* What arrives is never older than a snapshot of either side.  The primary may
\* have given it up while it was on its way.
Receive ==
    /\ fresh = 0
    /\ RollBack \/ UNCHANGED held
    /\ \A x \in mine \cup held' : x <= fresh'
    /\ UNCHANGED <<mine, linked, agreed>>

\* A forced receive that breaks off.
LoseNewer == RollBack /\ UNCHANGED <<mine, fresh, linked, agreed>>

\* A received snapshot is confirmed only while the primary has it.
Confirm ==
    /\ fresh \in mine
    /\ held' = held \cup {fresh}
    /\ fresh' = 0
    /\ UNCHANGED <<mine, linked, agreed>>

Reject ==
    /\ fresh' = 0
    /\ Based'
    /\ UNCHANGED <<mine, held, linked, agreed>>

\* Retention never touches the newest shared snapshot, nor a newer one.
Expire ==
    /\ held' \subseteq held
    /\ \A x \in held \ held' : \E base \in Shared : x < base
    /\ UNCHANGED <<mine, fresh, linked, agreed>>

Link == linked' = TRUE /\ held = {} /\ UNCHANGED <<mine, held, fresh, agreed>>

Agree == agreed' \subseteq Theirs /\ UNCHANGED <<mine, held, fresh, linked>>

Next ==
    \/ Release
    \/ \E g \in mine' \ mine : Take(g)
    \/ Receive \/ LoseNewer \/ Confirm \/ Reject \/ Expire \/ Link \/ Agree

Spec == Init /\ [][Next]_vars
============================================================================

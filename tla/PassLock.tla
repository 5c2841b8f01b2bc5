------------------------------ MODULE PassLock ------------------------------
(***************************************************************************)
(* The lock file of internal/lock that serializes passes of processes (and *)
(* of the webhook goroutine) that share a primary.  Every system call is a *)
(* step of its own: create with O_EXCL, stat, remove, and the remove of    *)
(* Unlock, which takes away whatever file is at the path by then.          *)
(*                                                                         *)
(* Time is relative: the age of the lock file and how long a caller has    *)
(* waited, both saturating just above the limit they are compared with.    *)
(***************************************************************************)
EXTENDS Integers

CONSTANTS
    Procs,        \* callers of Acquire
    StaleAfter,   \* ticks; 30 s in the code
    AcquireWait,  \* ticks; 10 s in the code
    MaxCalls      \* bound: calls of Acquire by one process

ASSUME LimitsAssumption == StaleAfter \in Nat /\ AcquireWait \in Nat /\ MaxCalls \in Nat
ASSUME ProcsAssumption == "none" \notin Procs

VARIABLES
    file,     \* who created the lock file that exists, or "none"
    age,      \* its age
    pc,       \* process -> "idle", "open", "stat", "check", "remove", "held"
    waited,   \* process -> time since it called Acquire
    calls,    \* process -> calls of Acquire so far
    robbed    \* history: a process in its critical section lost its lock file

vars == <<file, age, pc, waited, calls, robbed>>

Steps == {"idle", "open", "stat", "check", "remove", "held"}

TypeOK ==
    /\ file \in Procs \cup {"none"}
    /\ age \in 0..(StaleAfter + 1)
    /\ pc \in [Procs -> Steps]
    /\ waited \in [Procs -> 0..(AcquireWait + 1)]
    /\ calls \in [Procs -> 0..MaxCalls]
    /\ robbed \in BOOLEAN

Init ==
    /\ file = "none"
    /\ age = 0
    /\ pc = [p \in Procs |-> "idle"]
    /\ waited = [p \in Procs |-> 0]
    /\ calls = [p \in Procs |-> 0]
    /\ robbed = FALSE

Goto(p, step) == pc' = [pc EXCEPT ![p] = step]

\* os.Remove(path) by p: any lock file that is there goes.
RemoveFile(p) ==
    /\ file' = "none"
    /\ age' = 0
    /\ robbed' = (robbed \/ \E q \in Procs \ {p} : file = q /\ pc[q] = "held")

\* Acquire is called; the deadline starts.
Call(p) ==
    /\ pc[p] = "idle"
    /\ calls[p] < MaxCalls
    /\ calls' = [calls EXCEPT ![p] = @ + 1]
    /\ waited' = [waited EXCEPT ![p] = 0]
    /\ Goto(p, "open")
    /\ UNCHANGED <<file, age, robbed>>

\* Mutant: without O_EXCL the call succeeds on an existing file.
OpenShared(p) ==
    /\ pc[p] = "open"
    /\ file' = p
    /\ age' = 0
    /\ Goto(p, "held")
    /\ UNCHANGED <<waited, calls, robbed>>

\* os.OpenFile(path, O_CREATE|O_EXCL)
Open(p) ==
    /\ pc[p] = "open"
    /\ \/ /\ file = "none"
          /\ file' = p
          /\ age' = 0
          /\ Goto(p, "held")
       \/ /\ file # "none"
          /\ Goto(p, "stat")
          /\ UNCHANGED <<file, age>>
    /\ UNCHANGED <<waited, calls, robbed>>

\* os.Stat: a lock older than staleAfter will be removed.
Stat(p) ==
    /\ pc[p] = "stat"
    /\ Goto(p, IF file # "none" /\ age > StaleAfter THEN "remove" ELSE "check")
    /\ UNCHANGED <<file, age, waited, calls, robbed>>

\* Past the deadline the lock is removed whatever its age, else the caller
\* sleeps for retryDelay and tries again.
CheckDeadline(p) ==
    /\ pc[p] = "check"
    /\ Goto(p, IF waited[p] > AcquireWait THEN "remove" ELSE "open")
    /\ UNCHANGED <<file, age, waited, calls, robbed>>

\* Mutant: the stale file is not removed.
StealNothing(p) ==
    /\ pc[p] = "remove"
    /\ Goto(p, "open")
    /\ UNCHANGED <<file, age, robbed, waited, calls>>

\* Both steals: os.Remove(path), then the loop starts over.
Steal(p) ==
    /\ pc[p] = "remove"
    /\ RemoveFile(p)
    /\ Goto(p, "open")
    /\ UNCHANGED <<waited, calls>>

Unlock(p) ==
    /\ pc[p] = "held"
    /\ RemoveFile(p)
    /\ Goto(p, "idle")
    /\ UNCHANGED <<waited, calls>>

\* The process dies (and is restarted); a lock file it created stays.
Crash(p) ==
    /\ pc[p] # "idle"
    /\ Goto(p, "idle")
    /\ UNCHANGED <<file, age, waited, calls, robbed>>

Tick ==
    /\ age' = IF file # "none" /\ age <= StaleAfter THEN age + 1 ELSE age
    /\ waited' = [p \in Procs |-> IF pc[p] \in {"open", "stat", "check", "remove"}
                                       /\ waited[p] <= AcquireWait
                                    THEN waited[p] + 1 ELSE waited[p]]
    /\ UNCHANGED <<file, pc, calls, robbed>>

Acquire(p) == Open(p) \/ Stat(p) \/ CheckDeadline(p) \/ Steal(p)

Next ==
    \/ \E p \in Procs : Call(p) \/ Acquire(p) \/ Unlock(p) \/ Crash(p)
    \/ Tick

Spec == Init /\ [][Next]_vars

\* A caller in Acquire keeps running and time passes; nobody is obliged to
\* unlock (a pass may hang) or to call.
FairSpec == Spec /\ WF_vars(Tick) /\ \A p \in Procs : WF_vars(Acquire(p))

----------------------------------------------------------------------------
\* The package comment: the lock serializes the load-reconcile-save section of
\* processes that share a primary.
MutualExclusion == \A p, q \in Procs : pc[p] = "held" /\ pc[q] = "held" => p = q

\* What the O_EXCL file does give: two processes are in the critical section
\* only after a lock file was removed under a process still in it (by the
\* deadline steal, by a steal decided on a lock file that has been replaced
\* since, or by the Unlock of somebody who was robbed earlier).
ExclusiveUnlessRobbed == ~ robbed => MutualExclusion

\* Stale and wedged holders block nobody forever (comments on staleAfter and
\* acquireWait): every Acquire returns, even when the holder crashed or hangs.
AcquireReturns == \A p \in Procs : pc[p] = "open" ~> pc[p] \in {"held", "idle"}

\* Why ExclusiveUnlessRobbed holds: unless someone was robbed, a process in the
\* critical section owns the file that is there.
HolderOwnsFile == ~ robbed => \A p \in Procs : pc[p] = "held" => file = p

M == INSTANCE Mutex WITH
        inside <- {p \in Procs : pc[p] = "held"},
        broken <- robbed

\* Acquire, Unlock and the two steals, system call by system call, implement a
\* mutex: nobody enters while another process is inside unless a lock was broken,
\* and a lock is broken only under a process that is inside.  A steal of a lock
\* whose owner is dead breaks nothing.
ImplementsMutex == M!Spec
============================================================================

------------------------------- MODULE Watch -------------------------------
(***************************************************************************)
(* The trigger of passes: the fsnotify watcher (internal/watch) with its   *)
(* debounce and safety-net goroutines, the channel of one slot between     *)
(* them and the loop of main.go that runs a pass per signal.               *)
(*                                                                         *)
(* Of the files it only matters whether a pass has scanned them since they *)
(* changed.  Events exist for watched directories only; new directories    *)
(* are watched by addRecursive, step by step.                              *)
(***************************************************************************)
EXTENDS Integers, FiniteSets

CONSTANTS
    Dirs,           \* the directories that may exist
    Root,           \* the root that is watched from the start
    Parent,         \* directory -> the one it is in (Root: itself)
    MaxWatchedDirs, \* 0: unlimited
    MaxChanges,     \* bound: changes by users
    MaxOverflows    \* bound: events lost by the kernel queue

ASSUME DirsAssumption == Root \in Dirs /\ Parent \in [Dirs -> Dirs] /\ Parent[Root] = Root
ASSUME WatchBounds == MaxWatchedDirs \in Nat /\ MaxChanges \in Nat /\ MaxOverflows \in Nat

Reasons == {"start", "event", "safety-net"}
Empty == "none"

\* Who calls emit: the debounce loop and the safety-net loop.
Emitters == {"debounce", "safetyNet"}
\* Mutant: the ticker sends a reason nobody knows.
ReasonOfHup(g) == IF g = "debounce" THEN "event" ELSE "sighup"
ReasonOf(g) == IF g = "debounce" THEN "event" ELSE "safety-net"

\* A change, a new directory, a write below .backupdata.  Only the path of a new
\* directory is looked at: the other events are equal.
Event(kind, d) == [kind |-> kind, dir |-> d]
Events == {Event("change", Root), Event("self", Root)} \cup {Event("create", d) : d \in Dirs}

VARIABLES
    dirs,      \* the directories that exist
    dirty,     \* something changed since the last scan
    queue,     \* events not delivered yet
    watched,   \* directories with a watch
    count,     \* watchedDirs
    fallback,  \* pollFallback
    walk,      \* directories addRecursive has still to visit
    at,        \* the one whose entries it reads next
    armed,     \* the debounce timer runs (timerC is not nil)
    emit,      \* emitter -> where it is in emit
    kept,      \* emitter -> the reason it will send after draining the channel
    starting,  \* the goroutine that sends "start" has not done so
    slot,      \* the channel
    pc,        \* the main loop: "wait", "scan" or "apply"
    reason,    \* of the pass that runs
    found,     \* its scan has found a change to propagate
    \* environment and history
    changes, overflows,
    missed     \* a change had no event, or its event was lost

watcher == <<watched, count, fallback, walk, at, armed>>
channel == <<emit, kept, starting, slot>>
disk == <<dirs, dirty>>
loop == <<pc, reason, found>>
history == <<changes, overflows, missed>>
vars == <<dirs, dirty, queue, watched, count, fallback, walk, at, armed, emit, kept, starting, slot,
          pc, reason, found, changes, overflows, missed>>

NoDir == "none"

TypeOK ==
    /\ dirs \subseteq Dirs /\ dirty \in BOOLEAN
    /\ queue \subseteq Events
    /\ watched \subseteq Dirs /\ count \in 1..(Cardinality(Dirs) + 2 * MaxChanges) /\ fallback \in BOOLEAN
    /\ walk \subseteq Dirs /\ at \in Dirs \cup {NoDir} /\ armed \in BOOLEAN
    /\ emit \in [Emitters -> {"loop", "send", "drain", "resend", "last"}]
    /\ kept \in [Emitters -> Reasons \cup {Empty}]
    /\ starting \in BOOLEAN /\ slot \in Reasons \cup {Empty}
    /\ pc \in {"wait", "scan", "apply"} /\ reason \in Reasons \cup {Empty}
    /\ found \in BOOLEAN
    /\ changes \in 0..MaxChanges /\ overflows \in 0..MaxOverflows
    /\ missed \in BOOLEAN

\* New has registered the root and what is below it.
Init ==
    /\ dirs \in {D \in SUBSET Dirs : Root \in D /\ \A d \in D : Parent[d] \in D}
    /\ MaxWatchedDirs > 0 => Cardinality(dirs) <= MaxWatchedDirs
    /\ dirty = TRUE
    /\ queue = {}
    /\ watched = dirs /\ count = Cardinality(dirs) /\ fallback = FALSE
    /\ walk = {} /\ at = NoDir /\ armed = FALSE
    /\ emit = [g \in Emitters |-> "loop"]
    /\ kept = [g \in Emitters |-> Empty]
    /\ starting = TRUE /\ slot = Empty
    /\ pc = "wait" /\ reason = Empty
    /\ found = FALSE
    /\ changes = 0 /\ overflows = 0
    /\ missed = FALSE

----------------------------------------------------------------------------
(* debounceLoop *)

Listening == emit["debounce"] = "loop" /\ walk = {} /\ at = NoDir

\* Mutants: nothing is filtered; a new directory gets no watch.
FilteredNever(ev) == FALSE
WalkOfNothing(ev) == {}

\* isBackupdataPath
Filtered(ev) == ev.kind = "self"

\* What addRecursive starts with: WalkDir has looked at it.
WalkOf(ev) == IF ev.kind = "create" THEN {ev.dir} \cap dirs ELSE {}

\* An event resets the timer; a new directory is walked first.
Deliver ==
    /\ Listening
    /\ \E ev \in queue :
          /\ queue' = queue \ {ev}
          /\ armed' = (armed \/ ~ Filtered(ev))
          /\ walk' = IF Filtered(ev) THEN {} ELSE WalkOf(ev)
    /\ UNCHANGED <<disk, watched, count, fallback, at, channel, loop, history>>

\* addRecursive's callback for a directory: a watch, unless there are too many.
\* One that has gone in the meantime counts, and the error of Add is dropped.
Visit ==
    /\ at = NoDir
    /\ \E d \in walk :
          LET full == fallback \/ (MaxWatchedDirs > 0 /\ count >= MaxWatchedDirs)
          IN  /\ walk' = walk \ {d}
              /\ at' = d
              /\ fallback' = full
              /\ count' = IF full THEN count ELSE count + 1
              /\ watched' = IF full THEN watched ELSE watched \cup ({d} \cap dirs)
              /\ missed' = (missed \/ full)
    /\ UNCHANGED <<disk, queue, armed, channel, loop, changes, overflows>>

\* WalkDir reads the entries after the callback.
ReadDir ==
    /\ at # NoDir
    /\ walk' = walk \cup {d \in Dirs \ {at} : Parent[d] = at /\ d \in dirs}
    /\ at' = NoDir
    /\ UNCHANGED <<disk, queue, watched, count, fallback, armed, channel, loop, history>>

\* The timer fires: emit("event").
Fire ==
    /\ Listening
    /\ armed
    /\ armed' = FALSE
    /\ emit' = [emit EXCEPT !["debounce"] = "send"]
    /\ UNCHANGED <<disk, queue, watched, count, fallback, walk, at, kept, starting, slot, loop,
                   history>>

\* safetyNetLoop's ticker.
SafetyNet ==
    /\ emit["safetyNet"] = "loop"
    /\ emit' = [emit EXCEPT !["safetyNet"] = "send"]
    /\ UNCHANGED <<disk, queue, watcher, kept, starting, slot, loop, history>>

----------------------------------------------------------------------------
(* emit: three non-blocking operations on the channel *)

EmitSend(g) ==
    /\ emit[g] = "send"
    /\ slot' = IF slot = Empty THEN ReasonOf(g) ELSE slot
    /\ emit' = [emit EXCEPT ![g] = IF slot = Empty THEN "loop" ELSE "drain"]
    /\ UNCHANGED <<disk, queue, watcher, kept, starting, loop, history>>

Kept(old, new) == IF old # Empty /\ old # "event" /\ new = "event" THEN old ELSE new

EmitDrain(g) ==
    /\ emit[g] = "drain"
    /\ kept' = [kept EXCEPT ![g] = Kept(slot, ReasonOf(g))]
    /\ slot' = Empty
    /\ emit' = [emit EXCEPT ![g] = IF slot = Empty THEN "last" ELSE "resend"]
    /\ UNCHANGED <<disk, queue, watcher, starting, loop, history>>

\* One attempt, and another one if a reason was drained; then it is dropped.
EmitResend(g) ==
    LET again == emit[g] = "resend" /\ slot # Empty
    IN  /\ emit[g] \in {"resend", "last"}
        /\ slot' = IF slot = Empty THEN kept[g] ELSE slot
        /\ kept' = IF again THEN kept ELSE [kept EXCEPT ![g] = Empty]
        /\ emit' = [emit EXCEPT ![g] = IF again THEN "last" ELSE "loop"]
        /\ UNCHANGED <<disk, queue, watcher, starting, loop, history>>

\* The event-port watcher has the same emit.
Emit(g) == EmitSend(g) \/ EmitDrain(g) \/ EmitResend(g)

\* go func() { fw.out <- "start" }()
Start ==
    /\ starting
    /\ slot = Empty
    /\ slot' = "start"
    /\ starting' = FALSE
    /\ UNCHANGED <<disk, queue, watcher, emit, kept, loop, history>>

----------------------------------------------------------------------------
(* The main loop: for reason := range w.Changed() { doPass(reason) } *)

Take ==
    /\ pc = "wait"
    /\ slot # Empty
    /\ reason' = slot
    /\ slot' = Empty
    /\ pc' = "scan"
    /\ UNCHANGED <<disk, queue, watcher, emit, kept, starting, found, history>>

ScanAll ==
    /\ pc = "scan"
    /\ found' = dirty
    /\ dirty' = FALSE
    /\ pc' = "apply"
    /\ UNCHANGED <<dirs, queue, watcher, channel, reason, history>>

\* The pass writes the other side, which is watched too, and its own files
\* below .backupdata.
Finish ==
    /\ pc = "apply"
    /\ queue' = queue \cup {Event("self", Root)}
                      \cup (IF found THEN {Event("change", Root)} ELSE {})
    /\ found' = FALSE
    /\ reason' = Empty
    /\ pc' = "wait"
    /\ UNCHANGED <<disk, watcher, channel, history>>

----------------------------------------------------------------------------
(* Users and the kernel *)

\* A change that leaves the directories after, reported by the watch of w, if any.
Changed(after, ev, w) ==
    /\ changes < MaxChanges
    /\ changes' = changes + 1
    /\ dirs' = after
    /\ dirty' = TRUE
    /\ queue' = IF w \in watched THEN queue \cup {ev} ELSE queue
    /\ watched' = watched \cap after
    /\ UNCHANGED <<count, fallback, walk, at, armed, channel, loop, overflows, missed>>

ChangeFile(d) == d \in dirs /\ Changed(dirs, Event("change", Root), d)

CreateDir(d) ==
    /\ d \notin dirs /\ Parent[d] \in dirs
    /\ Changed(dirs \cup {d}, Event("create", d), Parent[d])

\* A directory without subdirectories goes, and its watch with it.
RemoveDir(d) ==
    /\ d \in dirs \ {Root}
    /\ \A c \in dirs : Parent[c] # d
    /\ Changed(dirs \ {d}, Event("change", Root), Parent[d])

\* The kernel's queue overflows; the error is swallowed.
Overflow ==
    /\ \E ev \in queue : ev.kind # "self"
    /\ overflows < MaxOverflows
    /\ overflows' = overflows + 1
    /\ queue' = {}
    /\ missed' = TRUE
    /\ UNCHANGED <<disk, watcher, channel, loop, changes>>

Users == \E d \in Dirs : ChangeFile(d) \/ CreateDir(d) \/ RemoveDir(d)

Main == Take \/ ScanAll \/ Finish
Debounce == Deliver \/ Visit \/ ReadDir \/ Fire

Next ==
    \/ Debounce
    \/ SafetyNet
    \/ \E g \in Emitters : Emit(g)
    \/ Start
    \/ Main
    \/ Users
    \/ Overflow

Spec == Init /\ [][Next]_vars

\* Goroutines run and the debounce window ends.  A goroutine that is blocked on the
\* channel gets its turn although emit may drain and refill the slot: ticks and
\* windows are seconds to hours apart.  The ticker of the safety net is not
\* assumed: its 24 hours may outlast the changes of interest.
FairSpec ==
    /\ Spec
    /\ WF_vars(Deliver) /\ WF_vars(Visit) /\ WF_vars(ReadDir) /\ WF_vars(Fire)
    /\ SF_vars(Start) /\ SF_vars(Take) /\ WF_vars(ScanAll) /\ WF_vars(Finish)
    /\ \A g \in Emitters : WF_vars(Emit(g))

----------------------------------------------------------------------------
(* Properties *)

\* The watcher "signals Changed() whenever a debounced batch of filesystem events
\* has settled": without the safety net, every change is scanned by a later pass
\* in the end, also a change in a directory that is being created, during a
\* pass, or while the channel is full; unless the kernel lost its event or the
\* limit of watches was met.
EventsSuffice == <>[](~ dirty \/ missed)

\* Passes do not keep triggering passes: addRecursive's comment on the
\* "self-sustaining busy-loop that never settles".
Settles == <>[](reason # "event" /\ slot # "event")

\* emit: '"event" never overwrites a pending safety-net'.  An emitter that holds
\* the tick it has drained puts it back before it lets go of it.
TickNotDowngraded ==
    [][\A g \in Emitters : kept[g] = "safety-net" /\ kept'[g] = Empty
          => slot' = "safety-net"]_vars

\* addRecursive stops adding watches only "once MaxWatchedDirs is exceeded" (New):
\* there are that many directories.
FallbackIsJustified ==
    [][fallback' /\ ~ fallback =>
          Cardinality(dirs) > MaxWatchedDirs]_vars
============================================================================

------------------------------ MODULE ScanJob -------------------------------
(***************************************************************************)
(* One inventory job of local-logs-server (Job and Hub of management.rs):  *)
(* handlers that mutate the tree and invalidate the inventory, the session *)
(* loop that kicks it every second, and the scan tasks they spawn.  One    *)
(* action is one atomic operation on the flags, or one lock of the         *)
(* snapshot; the tree is the number of mutations it has undergone.         *)
(***************************************************************************)
EXTENDS Naturals, FiniteSets

CONSTANTS
    Mutators,      \* handlers that mutate the tree, then call `invalidate`
    Kickers,       \* callers of `kick`
    Scanners,      \* identities of scan tasks alive at the same time
    MaxVersion     \* bound: mutations in a behaviour

ASSUME ThreadsAssumption ==
    /\ Mutators \cap Kickers = {} /\ Mutators \cap Scanners = {}
    /\ Kickers \cap Scanners = {}
ASSUME BoundAssumption == MaxVersion \in Nat

Threads == Mutators \cup Kickers \cup Scanners

VARIABLES
    version,           \* mutations applied to the tree
    snapshot,          \* version the published inventory reflects
    running, dirty,    \* the two atomic flags
    recent,            \* `last` is less than 60 seconds old
    open,              \* a session holds the job (strong_count > 1)
    pc,                \* where each thread is
    seen,              \* version a scan task has read so far
    cut,               \* scan tasks whose traversal was cancelled
    whole              \* the published inventory is of an uncancelled traversal

vars == <<version, snapshot, running, dirty, recent, open, pc, seen, cut, whole>>

\* Mutant: a task that has handed over is not ended.
NeverEnded(t) == "idle"
\* Where a thread is once its invalidation is done: a task ends, a handler returns.
Finished(t) == IF t \in Scanners THEN "none" ELSE "idle"
Set(t, label) == pc' = [pc EXCEPT ![t] = label]

\* A handler changes the tree (delete_entry), then invalidates.
Mutate(m) ==
    /\ pc[m] = "idle" /\ open /\ version < MaxVersion
    /\ version' = version + 1
    /\ Set(m, "invalidate")
    /\ UNCHANGED <<snapshot, running, dirty, recent, open, seen, cut, whole>>

\* The request is dropped by its client between the two: the change stays, unannounced.
Abandon(m) ==
    /\ pc[m] = "invalidate" /\ m \in Mutators
    /\ Set(m, "idle")
    /\ UNCHANGED <<version, snapshot, running, dirty, recent, open, seen, cut, whole>>

\* `kick` does nothing within a minute of the last scan.
Kick(k) ==
    /\ pc[k] = "idle" /\ open /\ ~recent
    /\ Set(k, "kick")
    /\ UNCHANGED <<version, snapshot, running, dirty, recent, open, seen, cut, whole>>

\* `running.swap(true)` by the one thread that finds it false: spawn a scan.  (A
\* task that follows itself up ends as it spawns: it lends its identity.)
StartScan(t) ==
    /\ pc[t] \in {"invalidate", "kick"} /\ ~running
    /\ running' = TRUE
    /\ \E s \in Scanners :
          /\ IF t \in Scanners THEN s = t ELSE pc[s] = "none"
          /\ pc' = [u \in Threads |-> IF u = s THEN "scan" ELSE IF u = t THEN "idle" ELSE pc[u]]
          /\ seen' = [seen EXCEPT ![s] = 0]
    /\ UNCHANGED <<version, snapshot, dirty, recent, open, cut, whole>>

\* It finds it true: an invalidation has still to mark the job dirty.
AlreadyRunning(t) ==
    /\ pc[t] \in {"invalidate", "kick"} /\ running
    /\ Set(t, IF pc[t] = "invalidate" THEN "mark" ELSE Finished(t))
    /\ UNCHANGED <<version, snapshot, running, dirty, recent, open, seen, cut, whole>>

MarkDirty(t) ==
    /\ pc[t] = "mark"
    /\ dirty' = TRUE
    /\ Set(t, Finished(t))
    /\ UNCHANGED <<version, snapshot, running, recent, open, seen, cut, whole>>

\* Nobody but the task itself holds the job (`Arc::strong_count`).
Deserted == ~open
\* The traversal reads the tree once, at any time of the task; it is cut short if
\* nobody is left to show it to.
ScanRead(s) ==
    /\ pc[s] = "scan"
    /\ seen' = [seen EXCEPT ![s] = version]
    /\ cut' = IF Deserted THEN cut \cup {s} ELSE cut \ {s}
    /\ Set(s, "publish")
    /\ UNCHANGED <<version, snapshot, running, dirty, recent, open, whole>>

\* Mutant: the flag is released before the result is published.
PublishAndRelease(s) ==
    /\ pc[s] = "publish"
    /\ \/ running /\ running' = FALSE /\ UNCHANGED <<snapshot, pc, cut, whole>>
       \/ snapshot' = seen[s] /\ Set(s, "stamp") /\ UNCHANGED running
    /\ UNCHANGED <<version, dirty, recent, open, seen, cut, whole>>
ScanPublish(s) ==
    /\ pc[s] = "publish"
    /\ snapshot' = seen[s] /\ whole' = (s \notin cut)
    /\ Set(s, "stamp")
    /\ UNCHANGED <<version, running, dirty, recent, open, seen, cut>>

ScanStamp(s) ==
    /\ pc[s] = "stamp"
    /\ recent' = TRUE
    /\ Set(s, "release")
    /\ UNCHANGED <<version, snapshot, running, dirty, open, seen, cut, whole>>

\* Mutant: the flag is never cleared.
KeepRunning == UNCHANGED running
ClearRunning == running' = FALSE
ScanRelease(s) ==
    /\ pc[s] = "release"
    /\ ClearRunning
    /\ Set(s, "followup")
    /\ UNCHANGED <<version, snapshot, dirty, recent, open, seen, cut, whole>>

\* `dirty.swap(false)`: a marked job that a session still holds invalidates
\* itself, from the task's own thread.
ScanFollowUp(s) ==
    /\ pc[s] = "followup"
    /\ dirty' = FALSE
    /\ Set(s, IF dirty /\ open THEN "invalidate" ELSE "none")
    /\ UNCHANGED <<version, snapshot, running, recent, open, seen, cut, whole>>

\* A minute passes since the last scan.
Minute ==
    /\ recent
    /\ recent' = FALSE
    /\ UNCHANGED <<version, snapshot, running, dirty, open, pc, seen, cut, whole>>

\* The last session closes; its job is dropped with it, or with the task it leaves.
CloseSession ==
    /\ open
    /\ \A t \in Mutators \cup Kickers : pc[t] = "idle"
    /\ open' = FALSE
    /\ UNCHANGED <<version, snapshot, running, dirty, recent, pc, seen, cut, whole>>

\* A new session opens the root while that task runs: the Hub's weak reference still
\* finds the job, and its inventory, cut short or about to be.
Reopen ==
    /\ ~open
    /\ \E s \in Scanners : pc[s] # "none"
    /\ open' = TRUE
    /\ UNCHANGED <<version, snapshot, running, dirty, recent, pc, seen, cut, whole>>

Init ==
    /\ version = 0 /\ snapshot = 0
    /\ running = FALSE /\ dirty = FALSE /\ recent = FALSE /\ open = TRUE
    /\ pc = [t \in Threads |-> IF t \in Scanners THEN "none" ELSE "idle"]
    /\ seen = [s \in Scanners |-> 0] /\ cut = {} /\ whole = FALSE

ScanStep(s) ==
    ScanRead(s) \/ ScanPublish(s) \/ ScanStamp(s) \/ ScanRelease(s) \/ ScanFollowUp(s)
Invalidation(t) == StartScan(t) \/ AlreadyRunning(t) \/ MarkDirty(t)

Next ==
    \/ \E m \in Mutators : Mutate(m) \/ Abandon(m)
    \/ \E k \in Kickers : Kick(k)
    \/ \E t \in Threads : Invalidation(t)
    \/ \E s \in Scanners : ScanStep(s)
    \/ Minute \/ CloseSession \/ Reopen

Spec == Init /\ [][Next]_vars

\* Handlers and blocking tasks run to their end; the session loop kicks every
\* second, and time passes.
Fairness ==
    /\ \A t \in Threads : WF_vars(Invalidation(t))
    /\ \A s \in Scanners : WF_vars(ScanStep(s))
    /\ \A k \in Kickers : WF_vars(Kick(k))
    /\ WF_vars(Minute)

LiveSpec == Spec /\ Fairness
-----------------------------------------------------------------------------
Labels(t) ==
    IF t \in Mutators THEN {"idle", "invalidate", "mark"}
    ELSE IF t \in Kickers THEN {"idle", "kick"}
    ELSE {"none", "scan", "publish", "stamp", "release", "followup", "invalidate", "mark"}

\* Types of the variables.
TypeOK ==
    /\ version \in 0..MaxVersion /\ snapshot \in 0..MaxVersion
    /\ running \in BOOLEAN /\ dirty \in BOOLEAN /\ recent \in BOOLEAN /\ open \in BOOLEAN
    /\ DOMAIN pc = Threads /\ \A t \in Threads : pc[t] \in Labels(t)
    /\ seen \in [Scanners -> 0..MaxVersion]
    /\ cut \subseteq Scanners /\ whole \in BOOLEAN

Scanning == {s \in Scanners : pc[s] \in {"scan", "publish", "stamp", "release"}}

\* At most one task traverses the tree at a time, and `running`, shown to the
\* interface as `busy`, is true exactly meanwhile.
OneScan == Cardinality(Scanning) <= 1 /\ (running <=> Scanning # {})

\* The published inventory never goes back to an older state of the tree.
SnapshotAdvances == [][snapshot' >= snapshot]_vars

\* While a session stays, each mutation ends up in an inventory of the whole tree, through
\* the follow-up scan or the kick of the next minute: also when the handler was dropped
\* before it invalidated, when the mark came after the task had looked for it, and when
\* the session has taken over the job of a cancelled scan.
MutationShown ==
    \A n \in 0..MaxVersion : version = n ~> ((snapshot >= n /\ whole) \/ ~open)
=============================================================================

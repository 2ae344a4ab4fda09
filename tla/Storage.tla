------------------------------- MODULE Storage ------------------------------
(***************************************************************************)
(* The hourly files under one `rlogger` root, shared by the runs that      *)
(* write them (FileOutput of output.rs), the companions that recover and   *)
(* clean up (Scan of management.rs) and the users who delete files         *)
(* (actions.rs).  They are separate processes, coordinated by two advisory *)
(* locks only: `.rlogger/gate`, and the lease each run holds until it ends.*)
(* A run may crash between any two steps.  File contents are counted in    *)
(* lines; each hour has a day directory of its own, and `.rlogger` holds   *)
(* the gate, the marker of the format and a lock file for each run's lease.*)
(***************************************************************************)
EXTENDS Naturals, SequencesExt

CONSTANTS
    Runs,           \* run identities, each started at most once
    Destinations,   \* destinations a run writes to
    Companions,     \* scan tasks of the companions
    Users,          \* callers of the explicit deletion
    MaxWriters,     \* `max_writers`: files a run keeps open
    LastHour,       \* bound: hours 0..LastHour
    MaxSegments,    \* bound: segments a run opens
    MaxLines,       \* bound: lines a run writes
    NoGate          \* the gate's owner when it is free

ASSUME WritersAssumption == MaxWriters \in Nat \ {0}
ASSUME OwnersAssumption == NoGate \notin Runs \cup Companions /\ Runs \cap Companions = {}
ASSUME BoundsAssumption ==
    LastHour \in Nat /\ MaxSegments \in Nat /\ MaxLines \in Nat

Hours == 0..LastHour
Keys  == Hours \X Destinations            \* the logical path: hour and destination
Files == [run : Runs, key : Keys, segment : 1..MaxSegments]
HourOf(f) == f.key[1]
NoKey == <<>>

VARIABLES
    files,      \* existing files: their state, flushed and written lines
    days,       \* existing day directories
    gate,       \* holder of the lock on `.rlogger/gate`
    run,        \* local state of each run: where it is, what it opens or publishes
    writers,    \* its open writers, the least recently used first
    segment,    \* its last segment number
    companion,  \* the file each scan is about to recover
    user,       \* what a user's deletion has yet to remove: files as seen, directory
    time,       \* current hour
    written,    \* bound: lines each run has written
    recognized, \* the marker and the gate are there: `storage::recognized` and `gate`
    leases,     \* runs whose lock file is there
    split,      \* a gate has been removed: its lock and that of the next one are two
    cutOff      \* ghost: runs from which a user took a file or directory in use

meta == <<recognized, leases, split>>
vars == <<files, days, gate, run, writers, segment, companion, user, time, written, meta, cutOff>>

IsOpen(r, k) == \E w \in ToSet(writers[r]) : w.key = k
Id(r, w) == [run |-> r, key |-> w.key, segment |-> w.segment]
Alive(r) == run[r].pc \notin {"absent", "closed", "failed", "crashed"}
Goto(r, pc, key, file) == run' = [run EXCEPT ![r] = [pc |-> pc, key |-> key, file |-> file]]
NoFile == [run |-> NoGate, key |-> NoKey, segment |-> 0]

Without(f) == [g \in DOMAIN files \ {f} |-> files[g]]
-----------------------------------------------------------------------------
(* A run: FileOutput *)

\* The gate is exclusive as long as it stays the same file: those who have opened one
\* that is removed meanwhile hold it beside those who lock the next one.
GateFree == gate = NoGate \/ split
Release(p) == IF gate = p THEN NoGate ELSE gate

\* FileOutput::new makes the marker and the gate if they are missing, takes the gate,
\* creates the run's lock file and locks it.
Start(r) ==
    /\ run[r].pc = "absent" /\ GateFree
    /\ Goto(r, "idle", NoKey, NoFile)
    /\ recognized' = TRUE /\ leases' = leases \cup {r}
    /\ UNCHANGED <<files, days, gate, writers, segment, companion, user, time, written, split, cutOff>>

Wrote(r) == written[r] < MaxLines /\ written' = [written EXCEPT ![r] = @ + 1]
\* Lines reach a file only while it exists: an unlinked one keeps its descriptor.
Counted(f) == IF f \in DOMAIN files
              THEN [files EXCEPT ![f].written = @ + 1] ELSE files

\* `write` to an open file: it becomes the most recently used.
WriteHit(r, n) ==
    /\ run[r].pc = "idle" /\ n \in DOMAIN writers[r]
    /\ Wrote(r)
    /\ LET w == writers[r][n] IN
       /\ writers' = [writers EXCEPT ![r] = Append(RemoveAt(@, n), [w EXCEPT !.buffered = @ + 1])]
       /\ files' = Counted(Id(r, w))
    /\ UNCHANGED <<days, gate, run, segment, companion, user, time, meta, cutOff>>

\* Mutant: the buffer is dropped with the writer.
DropBuffer(f, buffered) == files
\* `buffer.flush` of one writer.
FlushBuffer(f, buffered) ==
    IF f \in DOMAIN files THEN [files EXCEPT ![f].lines = @ + buffered] ELSE files

\* `close_writer`, first half: remove and flush the writer; its file is
\* published next, and the run then goes on with `key`.
CloseWriter(r, n, key) ==
    LET w == writers[r][n] IN
    /\ writers' = [writers EXCEPT ![r] = RemoveAt(@, n)]
    /\ files' = FlushBuffer(Id(r, w), w.buffered)
    /\ Goto(r, IF run[r].pc = "closing" THEN "publishLast" ELSE "publish", key, Id(r, w))

\* Mutant: the limit is checked after the new file is in.
NoEviction(r) == Len(writers[r]) > MaxWriters
Full(r) == Len(writers[r]) >= MaxWriters

\* `write` to a file that is not open: evict the least recently used writer if
\* the limit is reached, then open a new segment.
WriteMiss(r, k) ==
    /\ run[r].pc = "idle" /\ ~IsOpen(r, k) /\ segment[r] < MaxSegments
    /\ Wrote(r)
    /\ IF Full(r) THEN CloseWriter(r, 1, k)
                  ELSE Goto(r, "open", k, NoFile) /\ UNCHANGED <<files, writers>>
    /\ UNCHANGED <<days, gate, segment, companion, user, time, meta, cutOff>>

\* `close_writer`, second half, under the gate: rename `.active.log` to `.log`
\* without replacing.  A missing source, marker or gate is an error, and an error
\* ends the run, whose lease and buffers are dropped.
Publish(r) ==
    /\ run[r].pc \in {"publish", "publishLast"} /\ GateFree
    /\ LET f == run[r].file IN
       \/ /\ recognized /\ f \in DOMAIN files /\ files[f].state = "active"
          /\ files' = [files EXCEPT ![f].state = "closed"]
          /\ Goto(r, IF run[r].pc = "publishLast" THEN "closing"
                     ELSE IF run[r].key = NoKey THEN "idle" ELSE "open", run[r].key, NoFile)
          /\ UNCHANGED writers
       \/ /\ ~(recognized /\ f \in DOMAIN files /\ files[f].state = "active")
          /\ Goto(r, "failed", NoKey, NoFile)
          /\ writers' = [writers EXCEPT ![r] = <<>>]
          /\ UNCHANGED files
    /\ UNCHANGED <<days, gate, segment, companion, user, time, written, meta, cutOff>>

\* Mutant: the file is created outside the gate.
OpenUngated(r) == gate' = gate
HoldGate(r) == gate' = r

\* The gate is taken, if it is there, and `open_beneath` creates the missing
\* directories one by one ...
OpenDirectory(r) ==
    /\ run[r].pc = "open" /\ GateFree
    /\ IF recognized
       THEN /\ HoldGate(r)
            /\ days' = days \cup {run[r].key[1]}
            /\ Goto(r, "create", run[r].key, NoFile)
            /\ UNCHANGED writers
       ELSE /\ Goto(r, "failed", NoKey, NoFile)
            /\ writers' = [writers EXCEPT ![r] = <<>>]
            /\ UNCHANGED <<days, gate>>
    /\ UNCHANGED <<files, segment, companion, user, time, written, meta, cutOff>>

\* ... then the file, which fails if its directory is gone.
OpenCreate(r) ==
    LET k == run[r].key
        f == [run |-> r, key |-> k, segment |-> segment[r] + 1] IN
    /\ run[r].pc = "create"
    /\ gate' = Release(r)
    /\ \/ /\ k[1] \in days
          /\ segment' = [segment EXCEPT ![r] = @ + 1]
          /\ files' = [g \in DOMAIN files \cup {f} |->
                         IF g = f THEN [state |-> "active", lines |-> 0, written |-> 1]
                                  ELSE files[g]]
          /\ writers' = [writers EXCEPT ![r] =
                           Append(@, [key |-> k, segment |-> segment[r] + 1, buffered |-> 1])]
          /\ Goto(r, "idle", NoKey, NoFile)
       \/ /\ k[1] \notin days
          /\ Goto(r, "failed", NoKey, NoFile)
          /\ writers' = [writers EXCEPT ![r] = <<>>]
          /\ UNCHANGED <<files, segment>>
    /\ UNCHANGED <<days, companion, user, time, written, meta, cutOff>>

\* `flush` writes every dirty buffer.
Flush(r) ==
    /\ run[r].pc = "idle"
    /\ \E w \in ToSet(writers[r]) : w.buffered > 0
    /\ files' = [f \in DOMAIN files |->
                   LET mine == {w \in ToSet(writers[r]) : Id(r, w) = f} IN
                   IF mine = {} THEN files[f]
                   ELSE [files[f] EXCEPT !.lines = @ + (CHOOSE w \in mine : TRUE).buffered]]
    /\ writers' = [writers EXCEPT ![r] =
                     [n \in DOMAIN @ |-> [@[n] EXCEPT !.buffered = 0]]]
    /\ UNCHANGED <<days, gate, run, segment, companion, user, time, written, meta, cutOff>>

\* Mutant: the hour that has just ended is kept.
ExpiredLater(w) == w.key[1] + 1 < time
Expired(w) == w.key[1] < time
\* `close_expired` closes the files of the hours that have ended.
CloseExpired(r, n) ==
    /\ run[r].pc = "idle" /\ n \in DOMAIN writers[r] /\ Expired(writers[r][n])
    /\ CloseWriter(r, n, NoKey)
    /\ UNCHANGED <<days, gate, segment, companion, user, time, written, meta, cutOff>>

\* `close_all`, at the end of a shutdown; the lease goes with the FileOutput.
Stop(r) ==
    /\ run[r].pc = "idle"
    /\ Goto(r, "closing", NoKey, NoFile)
    /\ UNCHANGED <<files, days, gate, writers, segment, companion, user, time, written, meta, cutOff>>
CloseNext(r, n) ==
    /\ run[r].pc = "closing" /\ n \in DOMAIN writers[r]
    /\ CloseWriter(r, n, NoKey)
    /\ UNCHANGED <<days, gate, segment, companion, user, time, written, meta, cutOff>>
Stopped(r) ==
    /\ run[r].pc = "closing" /\ writers[r] = <<>>
    /\ Goto(r, "closed", NoKey, NoFile)
    /\ UNCHANGED <<files, days, gate, writers, segment, companion, user, time, written, meta, cutOff>>

\* The process dies: buffers are lost, its locks are released.
Crash(r) ==
    /\ Alive(r)
    /\ Goto(r, "crashed", NoKey, NoFile)
    /\ writers' = [writers EXCEPT ![r] = <<>>]
    /\ gate' = Release(r)
    /\ UNCHANGED <<files, days, segment, companion, user, time, written, meta, cutOff>>
-----------------------------------------------------------------------------
(* A companion: Scan::directory and Scan::recover *)

Resting == [pc |-> "scan", file |-> NoFile]

\* The traversal meets an active file whose hour has ended.
Meet(c, f) ==
    /\ companion[c].pc = "scan"
    /\ f \in DOMAIN files /\ files[f].state = "active" /\ HourOf(f) < time
    /\ companion' = [companion EXCEPT ![c] = [pc |-> "recover", file |-> f]]
    /\ UNCHANGED <<files, days, gate, run, writers, segment, user, time, written, meta, cutOff>>

\* Mutants: the lease of a crashed run is never free; the lease is not tried.
LeaseUntilStopped(r) == run[r].pc \in {"closed", "failed"}
LeaseIgnored(r) == TRUE
\* `try_lock` of the run's lease.
LeaseFree(r) == ~Alive(r)

\* Under the gate: marker and gate, the file and its run's lock file must be there, and
\* the lease free.
RecoverCheck(c) ==
    LET f == companion[c].file IN
    /\ companion[c].pc = "recover" /\ GateFree
    /\ IF /\ recognized /\ f.run \in leases
          /\ f \in DOMAIN files /\ files[f].state = "active" /\ LeaseFree(f.run)
       THEN /\ gate' = c
            /\ companion' = [companion EXCEPT ![c].pc = "rename"]
       ELSE /\ companion' = [companion EXCEPT ![c] = Resting]
            /\ UNCHANGED gate
    /\ UNCHANGED <<files, days, run, writers, segment, user, time, written, meta, cutOff>>

\* Rename `.active.log` to `.recovered.log`, as the gate is still held.
RecoverRename(c) ==
    LET f == companion[c].file IN
    /\ companion[c].pc = "rename"
    /\ files' = IF f \in DOMAIN files /\ files[f].state = "active"
                THEN [files EXCEPT ![f].state = "recovered"] ELSE files
    /\ gate' = Release(c)
    /\ companion' = [companion EXCEPT ![c] = Resting]
    /\ UNCHANGED <<days, run, writers, segment, user, time, written, meta, cutOff>>

\* A directory of a past day is removed under the gate; `rmdir` refuses one
\* that is not empty.
RemoveDay(c, d) ==
    /\ companion[c].pc = "scan" /\ recognized /\ GateFree
    /\ d \in days /\ d < time
    /\ \A f \in DOMAIN files : HourOf(f) # d
    /\ days' = days \ {d}
    /\ UNCHANGED <<files, gate, run, writers, segment, companion, user, time, written, meta, cutOff>>
-----------------------------------------------------------------------------
(* A user: delete_entry and Tree::delete, of any entry of the root *)

NoChoice == [items |-> {}, rest |-> {}]
Seen(f) == [file |-> f, state |-> files[f].state, lines |-> files[f].lines]

\* The interface shows a file with its state and revision, ...
Choose(u, f) ==
    /\ user[u] = NoChoice /\ f \in DOMAIN files
    /\ user' = [user EXCEPT ![u].items = {Seen(f)}]
    /\ UNCHANGED <<files, days, gate, run, writers, segment, companion, time, written, meta, cutOff>>

\* ... or a directory, of which `Tree::collect` makes an inventory.
ChooseDay(u, d) ==
    /\ user[u] = NoChoice /\ d \in days
    /\ user' = [user EXCEPT ![u] =
                  [items |-> {Seen(f) : f \in {g \in DOMAIN files : HourOf(g) = d}}, rest |-> {d}]]
    /\ UNCHANGED <<files, days, gate, run, writers, segment, companion, time, written, meta, cutOff>>

\* The files go one by one, active ones too, each if it is still as it was seen; the
\* deletion stops at the first that is not.  A removal waits for the gate only if
\* `.rlogger/gate` opens beneath the session's own root (`.ok()`): from a root above
\* or inside the log root it does not, so that no guard stands for both.
Delete(u, i) ==
    LET f == i.file IN
    /\ i \in user[u].items
    /\ IF /\ f \in DOMAIN files
          /\ files[f].state = i.state /\ files[f].lines = i.lines
       THEN /\ files' = Without(f)
            /\ cutOff' = IF files[f].state = "active" THEN cutOff \cup {f.run} ELSE cutOff
            /\ user' = [user EXCEPT ![u].items = @ \ {i}]
       ELSE /\ user' = [user EXCEPT ![u] = NoChoice]
            /\ UNCHANGED <<files, cutOff>>
    /\ UNCHANGED <<days, gate, run, writers, segment, companion, time, written, meta>>

\* The directory comes last; it stays if anything has appeared in it.
DeleteDay(u, d) ==
    /\ user[u].items = {} /\ d \in user[u].rest
    /\ IF \A f \in DOMAIN files : HourOf(f) # d
       THEN /\ days' = days \ {d}
            /\ cutOff' = cutOff \cup {r \in Runs : run[r].pc = "create" /\ run[r].key[1] = d}
       ELSE UNCHANGED <<days, cutOff>>
    /\ user' = [user EXCEPT ![u] = NoChoice]
    /\ UNCHANGED <<files, gate, run, writers, segment, companion, time, written, meta>>

\* Metadata are entries like any other, except that a deletion must lock the file it
\* removes: the gate is busy while it is held, a lock file while its run lives.
DeleteMetadata(u) ==
    /\ user[u] = NoChoice /\ recognized
    /\ recognized' = FALSE
    /\ \/ GateFree /\ split' = TRUE           \* `.rlogger/gate`
       \/ UNCHANGED split                     \* `.rlogger/format`
    /\ cutOff' = cutOff \cup {r \in Runs : Alive(r)}
    /\ UNCHANGED <<files, days, gate, run, writers, segment, companion, user, time, written, leases>>
DeleteLease(u, r) ==
    /\ user[u] = NoChoice /\ r \in leases /\ LeaseFree(r)
    /\ leases' = leases \ {r}
    /\ UNCHANGED <<files, days, gate, run, writers, segment, companion, user, time, written,
                   recognized, split, cutOff>>
-----------------------------------------------------------------------------
Tick ==
    /\ time < LastHour
    /\ time' = time + 1
    /\ UNCHANGED <<files, days, gate, run, writers, segment, companion, user, written, meta, cutOff>>

Init ==
    /\ files = <<>> /\ days = {} /\ gate = NoGate
    /\ run = [r \in Runs |-> [pc |-> "absent", key |-> NoKey, file |-> NoFile]]
    /\ writers = [r \in Runs |-> <<>>]
    /\ segment = [r \in Runs |-> 0]
    /\ companion = [c \in Companions |-> Resting]
    /\ user = [u \in Users |-> NoChoice]
    /\ time = 0
    /\ written = [r \in Runs |-> 0]
    /\ recognized = FALSE /\ leases = {} /\ split = FALSE
    /\ cutOff = {}

WriterSlots == 1..MaxWriters
RunStep(r) ==
    \/ Publish(r) \/ OpenDirectory(r) \/ OpenCreate(r) \/ Flush(r) \/ Stopped(r)
    \/ \E n \in WriterSlots : CloseExpired(r, n) \/ CloseNext(r, n)
Recover(c) == RecoverCheck(c) \/ RecoverRename(c)

Next ==
    \/ \E r \in Runs :
          \/ Start(r) \/ Stop(r) \/ Crash(r) \/ RunStep(r)
          \/ \E n \in WriterSlots : WriteHit(r, n)
          \/ \E k \in Keys : WriteMiss(r, k)
    \/ \E c \in Companions :
          \/ Recover(c)
          \/ \E f \in DOMAIN files : Meet(c, f)
          \/ \E d \in Hours : RemoveDay(c, d)
    \/ \E u \in Users :
          \/ \E f \in DOMAIN files : Choose(u, f)
          \/ \E d \in Hours : ChooseDay(u, d) \/ DeleteDay(u, d)
          \/ \E i \in user[u].items : Delete(u, i)
          \/ DeleteMetadata(u)
          \/ \E r \in Runs : DeleteLease(u, r)
    \/ Tick

Spec == Init /\ [][Next]_vars

\* The worker loops until it is stopped, a companion scans again and again
\* and meets files of every run (those of live runs end up published), and hours pass.
Fairness ==
    /\ \A r \in Runs : WF_vars(RunStep(r))
    /\ \A c \in Companions :
          /\ SF_vars(RecoverCheck(c)) /\ WF_vars(RecoverRename(c))
          /\ \A r \in Runs : SF_vars(\E f \in DOMAIN files : f.run = r /\ Meet(c, f))
    /\ WF_vars(Tick)

LiveSpec == Spec /\ Fairness
=============================================================================

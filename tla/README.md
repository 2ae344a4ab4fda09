# Formal model of RLOGGER

TLA+ specifications of the concurrent and failure-prone parts of this
repository, their TLC configurations, and TLAPS proofs.  Run everything from
this directory: `tlc -workers 2 -config X.cfg M` for a run of the table below,
`tlapm M.tla` for a proof module.

## 1. The system

RLOGGER has three parts.

* **lib-rust-logger**, a logging library.  `Logger::emit` admits an event in two
  short locked sections (reserve, then stamp and queue) and never waits for the
  disk; one worker thread groups equal events, writes one line per group into
  hourly files, and confirms lines once they are flushed.  When a budget is
  exhausted an event is refused, counted, and reported later by a *summary* line.
* **local-logs-server**, a local companion: HTTP and WebSocket access to a root
  of log files for up to four sessions; one inventory job per root, whose scans
  also recover the active files of dead runs and remove empty past days;
  explicit deletion, archive and download.
* **front-react-logger**, the viewer: a store that talks to the companion,
  a bounded byte window, React components.

### Components, their state, and what makes them correct

| component (source) | state | operations | hard part | correctness |
|---|---|---|---|---|
| Engine (`engine.rs`) | health, queue, budgets, per-instance counters, epochs and balances, barriers | emit, refuse, filtered, flush, shutdown, drop, fail | many producers between two locked sections; one Condvar for two roles; failure with permits everywhere | permits have one owner; flush and shutdown mean what they return |
| Worker (`output.rs`) | open groups, unconfirmed lines, item in hand | loop: expire, periodic flush, take or wait, event, summary, barrier, shutdown; error; panic | summaries against groups; requeued shutdown; panic order | order in files; nothing lost; only flushed lines are confirmed; stops for good on failure |
| Hourly files (`output.rs` FileOutput, `storage.rs`) | writer cache, segments, active/closed/recovered names, `.rlogger/gate`, one lease per run | write, evict, flush, close_expired, close_all, drop | crash at any step; other processes rename and remove | published files are complete and final; every ended hour is published |
| Companion scan (`management.rs` Scan) | traversal | recover, remove old day | races the runs through advisory locks only | never makes a run fail; orphans are recovered |
| Inventory job (`management.rs` Job, Hub) | running, dirty, last, snapshot; weak map of jobs | kick, invalidate, scan task, follow-up, revival | two flags updated separately; a scan cut and revived | one scan; monotone snapshot; mutations shown |
| Deletion, archive (`actions.rs`, `lib.rs`) | locks on files and directories, collected tree | open, collect, verify, delete, archive | locks that depend on the root; a tree that changes under a long operation | nothing goes under a transfer; a changed file survives; own removals are no obstacle |
| Sessions (`lib.rs`) | sessions, TTL, live flow, selection, acks, tickets, permits, root epoch | session, roots, entries, content, live, download | takeover of the live flow; work that outlives its root | places, locks and permits are given back; one root on both sides |
| Node identities (`files.rs`) | ids and nodes, at most 10 000, oldest evicted | node, relocate, remember, entries | eviction, rename and relocation to a listed name | the two maps agree |
| Viewer store (`viewer-store.ts`, `window.ts`, `api.ts`) | root, tree, selection, text window, request queue | open, close, reconnect, stop, fold, select, follow | answers and messages that come after something else was asked | shows what the companion holds; catches up |
| tracing and log adapters | span table, captures | on_new_span, on_record, on_event, on_close | limits, refusals outside the engine's health | tables bounded, entries released |

Interactions: producers, callers of `flush` and `shutdown`, and the worker share
`State` under one mutex and one Condvar; runs, companions and users share the
files of a root under the gate and the leases; handlers, the session loop and
scan tasks share a `Job`; the viewer and the companion exchange requests and the
messages of the live flow; flow tasks and HTTP handlers share a session's `Data`.

## 2. Modules

| module | models | role |
|---|---|---|
| `Engine` | `engine.rs`, Worker of `output.rs` | the detailed specification |
| `EngineSafety` | | its types, invariants, action and liveness properties, refinement |
| `LogContract` | | what a caller may rely on: the abstract specification `Engine` implements |
| `MCEngine` | | symmetry for TLC |
| `EngineProofs` | | theorems about `Engine`: types, budgets, failure, order and continuity of lines; every number has a place, confirmations; overloads, flush, the refinement of `LogContract` |
| `SumProofs` | | lemmas on sums of functions over finite sets |
| `ScanJob` | Job of `management.rs` | specification and properties |
| `ScanJobProofs` | | theorems about `ScanJob` |
| `Storage` | FileOutput, `storage.rs`, Scan, one deletion | the detailed specification |
| `StorageSafety` | | its properties |
| `StorageProofs` | | theorems about `Storage` |
| `Follow` | `live`, `apply`, `poll` of `lib.rs`; reads of `files.rs`; `viewer-store.ts`, `window.ts`, `api.ts` | following one file: the detailed specification |
| `FollowSafety` | | its properties |
| `FollowProofs` | | theorems about `Follow` |
| `Transfers` | `delete_entry`, `download` of `lib.rs`; `actions.rs` | deletion, archive and download of a tree, and their properties |
| `MCTransfers` | | the tree of the runs |
| `TransfersProofs` | | theorems about `Transfers` |
| `Roots` | sessions and roots of `lib.rs`; `open`, `closeRoot`, `reconnect`, `stop` of `viewer-store.ts` | sessions and roots seen from both sides, and their properties |
| `MCRoots` | | two tabs |
| `RootsProofs` | | theorems about `Roots` |
| `Browse` | `entries`, `remember`, `relocate` of `files.rs`; the tree part of `poll` and `apply`; `loadBranch`, `toggle`, `message` of `viewer-store.ts` | identifiers and the observed tree, and their properties |
| `BrowseProofs` | | theorems about `Browse` |

The four models of the companion and its viewer meet at `Session` and `Data`.
Each keeps the part of them its questions need: `Roots` the root alone, and every
way to get or lose it; `Follow` one selection under one root; `Browse` the
directories under one root, and of the selection only what it does to the poll;
`Transfers` the root's epoch, which cuts the work of a closed root.  Where two need
the same code (`apply`, `poll`, `select`, `connect`), each translates the fields it
has.

### Engine

Granularity: one action is one critical section of the mutex on `State`, or one
piece of the worker between two of them.  `EmitReserve` … `DropPermit` are the
paths of `emit_args`: the first section (reserve or refuse), the second (queue or
refuse), and the drop of a permit, which takes the mutex again.  A `permit` is
not a variable: who owns one is a function of the state (`HoldsPermit`, events in
the queue or in the worker's hands, first events of groups, the queue `fail` took
away), and `PermitsAccounted` says this function always adds up to the reserved
budget.  `asleep` is the wait set of the Condvar, `control` the holders of the
`control` mutex.  `FlushBegin`/`FlushWake`/`FlushRefused` are `flush`,
`ShutdownBegin`/`ShutdownReturn` are `shutdown` (also `Runtime::drop`).

`worker.pc` follows `loop_run`: `top` (choose expired groups and whether a flush
is due), `expire` (finish them, then flush), `take` (pop, or wait), `item` (the
item in hand: merge or open a group, summary, barrier, shutdown), `signal` (the
barrier's own locked section), `draining` and `closing` (the end).  An output
error (`WorkerError`) drops the item and the group being written, publishes the
failure (`WorkerFail`), drops the queue outside the lock (`WorkerBury`), then the
groups; a panic (`WorkerPanic`) drops the groups first.  That order matters for
the permits and is why the two paths are separate.

Abstractions: monotonic time is a choice (a group may or may not have expired);
the civil hour, which names the file, is explicit and jumps; a message is an
element of `Contents`; a line is the range of sequence numbers it covers with its
count.  Of the refusals, those which come before the first lock differ only by
their counter and share one (`EmitTooLarge`).

### Storage

One action is one file-system operation, or the ones done under one hold of the
gate when no other process can tell them apart.  A file has a state (its
suffix), the lines flushed to it and, for the properties, the lines written.
Opening a file is two steps (`OpenDirectory`, `OpenCreate`) because a companion
removes empty directories; publication is the flush (`CloseWriter`) and the
rename (`Publish`); recovery is the check of the lease (`RecoverCheck`) and the
rename (`RecoverRename`).  `Crash` may happen at every step of a run.  A run's
lease is `Alive(r)`: locks fall with the process or with the `FileOutput`.

A user deletes any entry of the root.  `Choose` and `ChooseDay` are the inventory,
`Delete` the removal of a file that is still as it was seen, `DeleteDay` that of the
directory, if it is empty by then.  None of them waits for the gate: `Tree::delete`
takes it only if `.rlogger/gate` opens beneath the session's own root
(`actions.rs:182-189`, `.ok()`), which it does not from a root above or inside the
log root, and a step without the guard covers the one with it.  `DeleteMetadata`
removes the marker or the gate (`recognized`), `DeleteLease` the lock file of a run
that has ended; both need the lock on the file that `actions::open` or
`Tree::delete` takes.  Whoever has opened a gate that is removed holds or awaits
a lock on a file that is no more, beside those who lock the next one: from then on
(`split`) the gate excludes nobody in the model.  `cutOff` is a ghost: the runs from
which a user has taken an active file, the directory they were creating a file in, or
the metadata while they lived.

Left out: the verification of the whole inventory before the first removal and the
locks of the entries (both are in `Transfers`), so a deletion here may go
further than the code's; a directory that is removed and made again while it
is being deleted is the same directory.

### ScanJob

One action is one operation on the atomics or one lock.  The tree is abstracted
to the number of mutations it has undergone, a scan to one read of that number at
any moment of its traversal.  A task that follows itself up lends its identity to
the task it spawns.  `Abandon` is the request of a deletion dropped by its client
before `job.invalidate()`, `CloseSession` the root closed, which leaves the job to
its task alone (`Deserted`): the scan is then cut, and `Reopen` is the Hub's weak
reference reviving that very job.  `whole` says whether the published inventory
comes from a scan that was not cut.

### Follow

One file, one session, the flow task of each connection, and the store of the
browser.  The file is external: it grows, is renamed from active to final,
truncated, removed and created again, possibly with the same inode.  A byte
carries the number of the file version that wrote it, so that a window made of
two versions can be told from any real content.

The session's mutex on `Data` is `job`: a disk operation holds it through its four
steps, between which the file may change: it opens the file and takes its size
(`PollOpen`, `ContentOpen`), compares the prior anchor (`PollCompare`,
`ContentCompare`), records the new one with another reading (`PollRecord`,
`ContentRecord`), then reads the bytes and looks at the file again (`PollRead`,
`ContentRead`).  Until it ends it leads to the file it opened, removed or not
(`orphan`).  `torn` is a ghost: the file was cut off or removed between the opening
and the record of the last read, or of an earlier one of its generation.  The
messages of a poll are posted together when it returns; the other
users of the lock (`Begin`, `Receive`, `Tidy`) are atomic and
wait for it.  `flow[c].pc` follows `live`: `top` (the check of the generation),
`select` (the `select!`), `poll`, `reading`, `leaving` (the second check), `tidying`
(before the lock), `closing`.  The two checks and what they protect are separate
steps because the code separates them.  A message sent on a cut connection is lost,
and the sender may or may not notice.

On the browser's side an action is one event handler, or one continuation after an
`await`: `Select` up to its request, `Respond` from its answer; `requests` is the
serialized queue of `Api`, whose head alone is on its way.  `loading` is derived
(`Loading`).  The twenty attempts on 429 are abstracted to a failure that is
possible whenever the flow holds the lock.  The checks of `safe_open` are one step
with the opening.

### Transfers

The tree is a constant (`Parent`, `Above`); what is on the disk is a pair per path,
the number of the inode that has had this name and its revision, zero when
absent: together what `storage::token` compares.  Writers modify files and create
what is missing; removals by others are the other deletions.  A session's work
under the lock of `Data` is one step (`StartDelete`, `Prepare`, `StartDownload`);
`FollowLink` is the part of `download` before that lock, which takes the ticket
and the permits.  What outlives the lock takes a step per entry: `Collect` (an
entry, or the second look at a directory), `Verify`, `RemoveEntry`, `Send`.
`cancelled` is `Cancelled`, read at each of these steps, and `CutTransfer` the task
that polls it for a client that has stopped reading.

Locks are those of `flock`: on an inode, shared or exclusive (`Free`), all tried,
never waited for.  `LocksOf` is `actions::open`.  A file of the tree, locked for the
instant of its check, is a condition of that step (`LockedByAnother`).  A failure
of any kind in an inventory (size limits, an I/O error, a type that is not
supported) is the choice `End`.

Left out: several names of one inode, the atomic check of `RootDir::remove`
between identity and unlink, renames by others, the bytes of the archive, and the
stop of the service, which cuts transfers (`lib.rs:886`) but not a deletion that is
running, whose `cancelled` looks at its session only.

### Roots

A tab is a store with its `Api`.  Its openings and closures are numbered: the
number of a task is its `rootRevision`, and stands for the root it opened.  A task's
`pc` says which `await` of `openCurrent` or `closeRoot` it is at; `awaited` are the
tasks it waits for (`opening`, `closing` when it was made); `queue` is the queue of
`Api`.  `phase` is the store's link: the POST of a session, the socket, the timer of
`reconnect`.  The companion grants a session or refuses (`Full`), forgets the idle
ones (`Expire`), restarts, and serves one request of a tab at a time.  `DELETE
/session` is `Goodbye`, which may be lost since the page is going away.  An opening
that fails (a path that does not exist, the lock taken by a poll) is a choice in
`Serve`, and so is a closure that is refused: the twenty attempts of `Api` find the
session's lock taken (`lib.rs:278-282`).  The limit of 16 requests in `Api` counts
those of the tree and the text too, which are not in this model, so it is a choice: a
request may be rejected at once (`ProceedOpen`, `ProceedClose`).  `refused` is a ghost: the
roots whose closure ended in one of these ways, which the store forgets all the same
(`viewer-store.ts:365-376`).

Left out: HTTP answers that are lost, the modes of opening.  `Reconnect` waits for an answer that was already sent (`~Answered`): the
timer is at least 500 ms.

### Browse

A root with a directory, a file in it, and a file that rotates from its active to
its final name.  `cache` is `FileRoot`, with its two maps written as the code
updates them.  A listing holds the session's lock between its two halves
(`BeginEntries`, `EndEntries`), between which the disk may change; it fits in a
page.  `Poll(FALSE)` is a tick of 250 ms, `Poll(TRUE)` one at which the second for
the tree has elapsed.  `requests` is the queue of `Api`, `refreshing` the loop of
`refresh`, which awaits each load; loads that one message starts begin in any
order.

`Cut` ends a socket, not its flow: `old` counts the flows that outlive theirs.
Such a flow may still poll, and nobody hears it (`PollUnheard`), then gives up the
selection and the observed directories unless another flow has begun (`EndFlow`,
which looks before it takes the lock, so it may also give up those of the new flow).
`Connect` begins a flow, which gives up the selection but keeps the directories
(`lib.rs:942-949`).  `hasty` is a ghost: the socket was opened while an old flow lived.

Left out: paging, the limits of 10 000 entries and 64 branches on show, files that
become directories, acknowledgements.

## 3. Runs

| run | module | what it shows | distinct states |
|---|---|---|---|
| `EngineCore` | MCEngine | budgets, accounting, flush and shutdown, failure, refinement of LogContract | 0.42 M |
| `EngineRoutes` | MCEngine | order in files, accounting with several instances and destinations | 2.8 M |
| `EngineLive` | MCEngine | calls return, events are confirmed, saturation is reported | 15 k |
| `ScanJob` | ScanJob | one scan, monotone snapshot, mutations shown | 56 k |
| `Storage` | StorageSafety | who may end a run; complete and final files; ended hours published | 0.45 M |
| `Follow` | FollowSafety | the window never merges versions nor hides a gap; one unacknowledged block | 3.0 M |
| `FollowReconnect` | FollowSafety | cuts, timeouts, renames and replacements: the window catches up | 428 k |
| `Transfers` | MCTransfers | what a deletion may remove, when it stops, closures free the locks | 127 k |
| `Roots` | MCRoots | both sides agree on the root, closures release, places are given back | 474 k |
| `Browse` | Browse | the maps of identifiers agree, the tree on show catches up | 2.9 M |
| `FollowTakeover` | FollowSafety | finding: an old flow undoes the subscription of the new one | |
| `TransfersNested` | MCTransfers | finding: roots inside a directory share no lock with it | |

Bounds.  `EngineCore` has a byte budget of two events under an event budget of
three (the byte check is the one that bites), two producers so that one can be
between its sections while another is refused, four calls so that a saturation
can come before, between and after two accepted events, and one barrier.
`EngineRoutes` trades the second producer, the faults and one call for two
instances, destinations and hours, and for the tracing layer, whose refusals find no
budget to be exhausted first: three calls hold a group of one instance, and of the other an
overload, its summary, and overloads while that summary is queued, in hand or written.  `EngineLive` has one producer, a
budget of one, and two calls: a call is accepted and the next refused.  `Storage`
has one run with two destinations and a cache of one writer over two hours, so
that a file is evicted, published and its hour goes on in another segment, beside a
companion and a user; three segments and three lines let every one of these happen
once more than needed.  A gate that two processes hold at once takes a second run; the
theorems cover it.  `ScanJob`
has two mutations by two handlers, and two scan identities, enough for a scan to
be spawned while the task of the last one has not ended.  `Follow` has blocks,
reads and anchor of one byte, a window of two and a file of three: the window can
hold bytes of two versions and is trimmed at either end; two clicks, so that a
block or an answer can come after a second selection; one truncation or
replacement is enough to have two versions, before, during or after a read.  Renaming is left to the next run.
`FollowReconnect` has one byte and one click, renaming and a second connection;
cuts and timeouts are possible while another connection is left.

`Transfers` has one session that deletes and one that downloads, in a branch of
three directories with a file at its end, and roots at the top or at the last
directory: targets above, at and below the other's, and a root inside.  Three
changes of root in all let one be closed or replaced under an operation, one change
by a writer is enough to disturb it at any step.  `TransfersNested` has one more
directory, so that a session rooted inside can archive.  `Roots` has one place for
two tabs, so that a place that is not given back is missed; the user of one tab
asks three times, at any moment, and one session or connection is lost.  A cache of four identifiers
for five names makes `Browse` evict, two requests make its queue overflow; two
changes of the disk, two clicks and one cut, four of these together.

`MaxCalls`, `MaxBarriers`, `MaxVersion`, `LastHour`, `MaxSegments`, `MaxLines`,
`MaxLen`, `MaxVersions`, `MaxPresses`, `Connections`, `Renames`, `MaxEpoch`,
`MaxChanges`, `MaxLosses`, `MaxSessions`, `MaxCuts`, `MaxEvents` (of `Browse`) and
`Overlap` (of `Follow`) are the only bounds; each is a conjunct of the guard it limits.

`CHECK_DEADLOCK FALSE` everywhere: producers and callers stop when they have no
more to say, a runtime closes, a session ends, users stop clicking.

Fairness.  `Engine`: the worker thread runs when it can (weak fairness of its
steps), and time passes, so that a worker that keeps looping finds each group
expired, each flush and each summary due at last (strong fairness of these
choices: the loop's waits are bounded by the same durations); a producer that
reserved leaves `emit_args`, callers of `flush` and `shutdown` that can go on do.
Nobody is obliged to call anything, and nothing has to fail.  `ScanJob`: blocking
tasks and handlers run to their end; the session loop kicks each second while a
root is open, and minutes pass.  `Storage`: a live worker keeps looping, a
companion scans again and again (each session's job is kicked every minute) and,
in doing so, meets what stays; a gate that is free again and again is taken in
the end; hours pass.  `Follow`: tasks run when they can;
`select!` tries its branches in random order, so a message or a hang-up that stays
ready is taken in the end although ticks are ready too (strong fairness); the
browser handles its events and reconnects.  `Overlap = FALSE` in `FollowReconnect`
is a timing assumption: the store waits 500 ms or more before it reconnects, and
the old flow ends within that time.  `FollowTakeover` drops it.  `Transfers`:
blocking tasks go on and the cancellation of a transfer is polled every 50 ms; a
client need not read.  `Roots`: requests are answered, timers fire, the cleanup
runs every second.  `Browse` states its catching up as an invariant of the states
in which no program has anything left to do, which needs no fairness.

## 4. What was found

Two disagreements are checked by a run each.

* `FollowTakeover`.  The flow of an old connection checks the session's generation,
  then uses the session (`lib.rs:956-985`, `1012-1017`).  If the new connection
  begins in between, the old flow may apply a message it had received, poll the new
  selection and send the block nowhere, or clear the selection.  After the last,
  nothing tells the store, which shows "En direct" and gets nothing until the user
  acts; `front-react-logger/README.md:120-121` says that the flow resumes.  The
  window is short, unless the old task is kept waiting (a slow read, a blocked
  send).  Checking the generation under the lock of `Data` would close it.
* `TransfersNested`.  `actions::open` locks the ancestors it can see, those from the
  session's own root down (`actions.rs:41-52`).  A session whose root is strictly
  inside a directory has no lock at or above it, so another session may delete that
  directory while the first transfers or archives something in it, against
  `docs/11-actions-fichiers-dossiers.md:51-53`.  `TransferKept` says what does hold:
  a file under transfer is always safe, and an archived directory is too unless
  one root is strictly inside the directory of the other.

Others were met while modelling and are not checked by a run of their own.

* A directory that is open, removed and created again is not observed any more:
  `poll` has dropped it (`lib.rs:1155-1163`), the viewer loads it again but sends its
  list of open branches only when something is folded, opened or connected, where
  `front-react-logger/README.md:177` says that open branches are checked every second.
  `TreeCatchesUp` is false of it and excepts it (`Original`); without the exception
  three changes of the disk and one click refute it.
* Openings overlap: the interface disables its button during one, but the field's
  Enter key (`screens.tsx:126`) and `reconnect` (`viewer-store.ts:193`) call `open` all
  the same.  An opening that succeeds but has been superseded by one that fails leaves
  the viewer with the root before it, which the companion has closed
  (`front-react-logger/README.md:123`); and a closure awaits the last opening only
  (`viewer-store.ts:358`), so an earlier one, served after it, leaves the companion
  with a root no one shows.  `RootAgrees` and `ClosureReleases` except these
  cases (`FailedLast`, `Overtaken`); without the exceptions three presses of one user
  refute them.
* A selected file whose identifier was evicted makes each poll fail before it looks
  at the directories (`lib.rs:1095-1096`), and one evicted directory has the whole
  list of branches refused (`1069-1071`).  `NoneExpired` excepts both.
* A store stopped while it asks for another session keeps that session until the
  cleanup, two minutes later; a root closed by the user while `reconnect` is under
  way is opened again.
* `flush` leaves the balance of an instance whose previous summary is still queued
  (`engine.rs:110`), where `docs/07-contrats-implementation.md:67-68` speaks of a
  balance at flush and shutdown.  Only shutdown looks again.
* `LoggerLayer` counts `Full` without looking at the health (`tracing_layer.rs:65`):
  after the last summary nothing reports it.  A record refused for want of captures
  leaves the span with its former fields (`tracing_layer.rs:188`), where one that is
  too large removes it.
* A mutation that finds a scan running may mark the job dirty after the scan has
  looked at the mark (`management.rs:318-322`, `354-355`): the scan that
  `docs/07-contrats-implementation.md:137-138` announces comes with the kick of the
  next minute only, which `MutationShown` counts on.

* The server compares the anchor of a file with one reading (`files.rs:432`) and
  records the new one with another (`files.rs:453-459`).  A file cut off and rewritten
  in between, up to its old size at least, keeps its generation, and the new anchor is
  of the new content: no later read can tell, and a window that holds bytes of the
  old content goes on with those of the new.  `WindowNeverMerges` and `EventuallyShown`
  except exactly this (`torn`; the exception runs from the opening of the read, a little
  before the comparison).
* A closure of a root can be refused, by a disk that stays busy through the twenty
  attempts (`lib.rs:278-282`, `api.ts:30-47`) or by the limit of 16 requests
  (`api.ts:22-25`).  The viewer shows the error but forgets the root all the same
  (`viewer-store.ts:365-376`), so nobody asks again, and the companion keeps it until
  another root is opened or the session ends, where `front-react-logger/README.md:181`
  says that a change of root frees its cache.  `ClosureReleases` excepts it (`refused`).
* A flow outlives its socket until its poll returns.  If the viewer has connected again by
  then, the poll takes the revision of a directory for known (`lib.rs:1153`) and announces
  it to the dead socket, and the new flow, which keeps the observed directories
  (`lib.rs:942-949`), never announces it; or the old flow's end takes them away.
  `TreeCatchesUp` excepts sockets opened before the flow of an earlier one had ended
  (`hasty`); the store's 500 ms before it connects again make this rare.  It is
  `FollowTakeover` seen from the tree.

Behaviours the properties had to be stated around: a file cut *and* rewritten under
a read, after its anchor was recorded, may put bytes of two versions in one block; the
next read detects it (`Changed` in `WindowNeverMerges`).  `onopen` shows "En direct" also
when the last read failed and nothing is subscribed (`viewer-store.ts:150`).

Explicit deletion may end a run: `docs/11-actions-fichiers-dossiers.md:67` says so of
active files and of metadata.  `OnlyUsersFailRuns` shows that nothing else does: a run that
fails has lost an active file, the directory it was creating a file in, or the marker or
gate of its root to a user, or lives in a root from which a user had once removed the gate
(`split`), where a companion and a run exclude each other no more.

## 5. Proofs

A theorem holds for every value of the constants that satisfies the named assumptions of
its module, so for any number of threads, instances, runs, sessions, paths and messages;
the run of the same property shows it on the small instance of section 3.

| theorem | property | from |
|---|---|---|
| `EngineProofs!Types`, `Budgets` | `TypeOK`, `PermitsAccounted` | `IndInv` |
| `EngineProofs!FailsForGood` | `FailStop` | `IndInv`, `DyingWhenFailed` |
| `EngineProofs!OrderedFiles` | `FilesInOrder` | `IndInv`, `Order` |
| `EngineProofs!LinesAreContinuous` | `NoLineSpansRefusal` | `IndInv`, `Order`, `Continuity` |
| `EngineProofs!NumbersKept` | `NothingLost` | `IndInv`, `Accounts` |
| `EngineProofs!OnlyDurableConfirmed` | `ConfirmedIsDurable` | `IndInv`, `Accounts` |
| `EngineProofs!OverloadsKept` | `OverloadsAccounted` | `IndInv`, `Order`, `Balances` |
| `EngineProofs!ImplementsContract` | `KeepsContract`, if `~TracingLayer` | all of these and `Ending` |
| `EngineProofs!FlushCovers` | `FlushCoversAdmitted` | `IndInv`, `Accounts`, `Flushes` |
| `ScanJobProofs!Types`, `SingleScan`, `Monotone` | `TypeOK`, `OneScan`, `SnapshotAdvances` | its `IndInv` |
| `TransfersProofs!Types` | `TypeOK` | its `IInv` |
| `TransfersProofs!NothingUnderTransfers` | `TransferKept` | its `IInv` |
| `TransfersProofs!ChangedSurvive`, `RemovalsGoOn` | `ChangedFilesSurvive`, `OwnRemovalsNeverStop` | its `IInv` |
| `StorageProofs!StorageTypes`, `OnlyUsers` | `TypeOK`, `OnlyUsersFailRuns` | its `IInv` |
| `StorageProofs!Complete`, `Finalised` | `PublishedComplete`, `FinalisedStable` | its `IInv` |
| `FollowProofs!FollowTypes`, `NeverMerges`, `LeftOutIsTold` | `TypeOK`, `WindowNeverMerges`, `NewerIsTold` | `ReadInv` |
| `FollowProofs!BlockByBlock` | `OneUnacknowledged`, if `~Overlap` | `ReadInv`, `FlightInv` |
| `RootsProofs!TypeCorrect` | `TypeOK` | its `IInv` |
| `RootsProofs!RootAgreesHolds`, `ClosureReleasesHolds` | `RootAgrees`, `ClosureReleases` | its `IInv` |
| `BrowseProofs!TypeCorrect`, `IndexAgrees` | `TypeOK`, `IndexMatchesNodes` | its `IInv` |
| `BrowseProofs!TreeCatchesUpHolds` | `TreeCatchesUp` | `IInv`, `FlowInv` |

Each proof has one lemma per action, or per group of actions that do the same to the state
the invariant is about, and under it one step per conjunct that the action can disturb.

### Engine

`IndInv` is `TypeOK /\ PermitsAccounted /\ WorkerShape`.  Neither of the first two is
inductive alone: a release keeps `reservedEvents` in `Nat` only if the released permit is
counted in it, and the count is meaningful only with the types.  `WorkerShape` adds that
expired groups are open (so that `WorkerFinish` removes a group that counts) and that the
item being signalled is a barrier.  `FailStop` needs `DyingWhenFailed`: once `health` is
"failed" the worker is on its way out, so no step that writes or confirms is enabled.

`Order` says where a sequence number can be: the queue ascends, what the worker holds comes
before the queue, and open groups and lines come before both (`GroupsBehind`,
`LinesBehind`); a group comes after every line of its file (`GroupsAfterLines`).  A summary
is written while other groups are open, which is why it has to be said of each pair of a
group and a file, and not of the files alone.  `Continuity` adds the refusals: an event
of the current epoch of its instance came after the last one, and none separates two events
of one epoch that are queued, in hand or at the beginning of a group, so that equal epochs,
the condition on which the worker merges, exclude a break between them.

`Accounts` counts.  The sums of `NothingLost` and `ConfirmedIsDurable` range over queues,
groups and files, and no prover can do an induction on them: `SumProofs` has instead what a
sum does when one term changes, is added or is removed, by the principle of the smallest
counterexample on finite sets.  The invariant states, for any set of instances and of
items, that what has been given out equals what is on its way plus what is written
(`NumbersPlaced`, `EventsPlaced`), and that what is confirmed is in lines already flushed
(`Confirmations`).  `Lifecycle` says when a failure is published, which separates the states
where items may be missing from the others.

`Balances` says that an instance has exactly one summary on its way when
`summaryQueued` says so, and none otherwise; `OverloadsAccounted` alone is not inductive,
since a second summary in the queue would be taken for the first.  `Ending` says what is
left when the worker drains: nothing is pending and the queue is empty, for which the
balances have to be served first.  The refinement maps each action to `Accept`, `Overload`,
`Confirm`, `Close`, `Finish` or `Fail` of `LogContract`, or to a stutter; it
needs `~TracingLayer`, because the tracing layer counts an overload after the last summary
(section 4), which the contract does not allow.  `Flushes` relates a call to its barrier:
`Promise` follows the barrier through the queue, the worker's hands and the groups that
must be finished, until all the numbers before it are in lines that are flushed (`Covered`) or the
engine fails.

Assumptions: those of `Engine`, which restate `Config::validate` (positive limits,
`max_bytes >= max_event_bytes`), finiteness of the sets of threads and destinations, and
`Worker \notin Clients`.

### ScanJob

The invariant is `TypeOK /\ Exclusive /\ Fresh`: exactly the task between its spawn and the
release of `running` is scanning, and what it has read is between the published version
and the current one.

### Transfers

`IInv` has the types, `AncestorsIn` (what is on the disk is in directories that are), and
`Exclusion` (no two operations hold locks on one inode of which one is exclusive), and of
each operation: `Listed`, the shape of its stack and of its items; `Guarded`, it has a lock
on each directory from its root to its target, and as long as the target is the inode it
confirmed these are locks on what the paths name now; `Rooted`, what it has collected is
under that target or stands no more; `Ordered`, no entry comes before one that contains it,
so that removing from the end of the list never meets a directory that is not empty; and
`Complete`, an operation nobody has disturbed has reached everything below its target, as it
was.  `Exclusion` alone says nothing of a deletion above a transfer: a deletion holds one
exclusive lock, on its own target, and the transfer a shared one there only because of
`Guarded`, whose root-dependent part is the exception `TransferKept` makes (`Apart`).
`Rooted` is what keeps an operation whose target was replaced from removing the
replacement.  Assumptions: `Parent` and `Above` describe a tree, and the sets of paths and
sessions are finite.

### Storage

`IInv` has the types, `OnlyUsersFailRuns`, and per run `CacheSound` (one writer per key, each
with an active file of the run unless a user has deleted it), `PublishSound` (a file about
to be renamed is flushed and no longer in the cache), `OpenSound` (a run that creates a
file holds the gate and its directory exists, unless a user has removed either) and
`RootSound` (the marker and the gate are there while a run lives, unless a user has
removed them); per file `FileSound` (its segment has been counted, no more lines in it than
were written); per companion `CompanionSound` (it renames a file of a run that has ended).
`OnlyUsersFailRuns` needs all of them: a run fails when the marker, or a file it means to
write, publish or create, is not there, and the companion's two steps could take it away in
between.  `CompanionSound` needs no gate, since a run that has ended does not begin again;
`OpenSound` does, which is why `split` is an exception of the theorem.  Assumption: runs and
companions have different names.

### Follow

`ReadInv` has the types and four facts.  `SeenSound`: what the last read saw is of this file
or of an earlier version, and a change stays visible until the next read; the last byte of
the anchor is what tells when a truncated file has grown again to the size that was seen, so
this is said of reads that are not `torn`.  `JobSound`, of the read under way: as long as no
version has been cut off since it opened the file it leads to the file, and one that has found
the prior anchor finds it still; the read then records a state that is `SeenSound`, and
otherwise one that is `torn`.  `ReadSound`, of the window, of each reply and of each block on its way: if it is of the
current generation and the file has not changed, its bytes are still the file's.
`NewerSound`: the window ends at or before the store's cursor, and before it only if the
user is told.  `WindowNeverMerges` is not inductive by itself, because what is appended to
the window was read long before, by another flow or over HTTP: all the readings there are
have to be sound at once.  Two readings of one generation that meet are one reading
(`MeetSound`).

`FlightInv` says that flows follow each other and only the one that serves has a selection
(`FlowsSound`), that no message is of a selection to come, and that a selection is read
before it is subscribed to (`RevisionsSound`), and for each connection and selection
(`InFlight`) that there is at most one block or acknowledgement, and none as long as the
server may send, or the subscription, or the read before it, is still on its way.  The
hypothesis `~Overlap` is the timing assumption of section 3: with overlapping flows the old
one may take the acknowledgement of the new one's block, or apply a subscription it had
received, and TLC does find `OneUnacknowledged` violated with `Overlap = TRUE`, for the same
reason as in `FollowTakeover`.  Assumptions: positive sizes, at least one version, and a
snapshot that fits in the window.

Two slips of the model were found by these proofs and corrected from the code: a store
that no longer followed the end took a block wherever it began (a missing parenthesis), and
the message that announces a rename was sent before the read of the same poll.

### Roots

`RootAgrees` and `ClosureReleases` speak of a store at rest, of which they know nothing but
that its tasks have ended, so the invariant is about the tasks in progress.  `IInv` has the
types and `TokensSound` (a session belongs to one store, and has no root before the store
has its token), and of each store:

* `SessionSound`: the root of its session on the companion is the one the store knows of
  or, when the first request in its queue has been answered, the one it will know of once
  it receives the answer (`Expected`).  A store that asks for another session has lost
  the first.
* `TasksSound` and `QueueSound`: requests wait in the order of their tasks, only the first
  may be answered, and an opening has a root once it is.
* `WaitsSound` and `StartsSound`: a task still awaits, when it has not ended, the last
  closure before it, and a closure also the last opening; so that once a task has begun
  every closure before it has ended.  The code only awaits the *last* task of a kind; that
  this is enough for closures, and not for openings, is where `Overtaken` comes from.
* `ShownSound`: nothing but openings came after the one on show, none of its forerunners
  waits any more, and the root the store knows of is that one or one that was superseded
  (the exception `FailedLast`).
* `ClosureSound`: once a closure that comes last has begun, the openings left in the queue,
  and the root it leaves, have been overtaken.

A closure that is refused leaves the root of the session as it is and lets the store forget
it, so `SessionSound` allows for a root in `refused` where the store expects none.

With every task ended the queue is empty, `Expected` is the root the store knows of, and the
two properties follow from `ShownSound` and `ClosureSound`.  Assumption: the bounds are
natural numbers (the limit on sessions among them).

### Browse

`IndexMatchesNodes` is kept by an eviction only if the identifier that leaves has one place in
the order of eviction and takes the one path that names it with it; hence `CacheSound`: no
identifier is listed twice in `order`, those listed and the root are those that have a node
(`OrderSound`), each path leads to a node that leads back to it, and only known nodes have
a generation (`IndexSound`).  It must hold of each of the caches a listing goes through, since a
page may evict identifiers it has itself just given: the proof goes through
`Listed` name by name.  Renaming goes through `Relocated`: the identifier keeps
its node under the other path, and the identifier that had that path before, if there was
one, keeps a node that no path leads to.  `ViewSound` has the identifiers in the viewer and
in messages be among those given so far; `LoadsSound` that the directories marked as
loading are those with a request in the queue, each with one; `ReadingSound` that a listing
between its halves is the one the first request asks for.  Assumptions: the root, the directory
below it and the files have different paths, which `relocate` counts on, and at least two
identifiers fit in the cache
(`Room` evicts from `order`, where the root is not, so a cache of one would overflow; the
code's is of 10 000).

`TreeCatchesUp` speaks of the states in which nothing is on its way; `TInv` says what holds in
all the others, and rests on `IInv`.  What an old flow does to the observed directories
breaks it, and nothing repairs that before the socket is opened again: the invariant is
`FlowInv`, which has the part of `TInv` that survives (`Basic`), says that a socket that is not
`hasty` leaves no old flow (`FlowSound`), and has all of `TInv` only when no old flow lives and the
socket is not `hasty` (`Trusted`).  A flow that ends gives up the observed directories, so what
is true once the last one has ended does not depend on what they did.  Its core is `FreshSound`: of every open directory that
is still the original one, the page is right, or it is being loaded or failed, or the viewer
has been `Told`: a second load is pending, an announcement is on its way, the next poll will
announce it (`Outdated`, which includes a directory that is not observed yet: what begins to
be observed starts from `Unknown`, so the first poll announces it), or it is about to leave
the observed ones (`Dropped`).  The same is said of each answer that has not been taken.
Each step must keep one of these:

* A change of the disk gives a later time than any that was seen (`ObservedSound`), so the
  directory becomes outdated; and a listing whose second half meets the time of the first
  one has the right names, which `ReadsSound` says of the listing in progress.
* A poll takes the revision of the moment and sends the announcement in the same step.
* The viewer that handles an announcement during a load marks the directory pending; the
  answer that it takes then is replaced by another load.
* A directory that is closed and opened again during its load is not loaded again: the list
  of branches without it is still to be applied, or has been, and so it will be outdated.
* `MessagesSound`: the last list of branches on its way is what the viewer has open, so that
  once no list is left the companion observes just that (`ObservedSound`); and an open
  directory is known by the identifier that the root's page has (`PagesSound`), since
  identifiers of directories are not given again (`Later`).
* `SelectionSound`: a selection that the companion holds is the viewer's or being given up,
  so that with `NoneExpired` no poll ends before it reaches the tree.

The lemmas are proved of one step at a time (`Ages` for the disk and the cache, `StepLoads`
for the loads, `Mail` and `Post` for the messages), and `FreshStep` puts them together for a
directory that the step leaves alone (`Stays`) or not.  The proof uses that the model has
one directory below the root (`OneDirectory`): a list of branches is refused as a whole when
one of its identifiers has been evicted, and with several directories `Judged` would
have to say which of the lists was refused.

### Only model-checked

Every invariant and every action property of a passing run is a theorem.  Liveness (`CallsReturn`, `AcceptedConfirmed`, `OverloadReported`,
`MutationShown`, `EndedHoursPublished`, `EventuallyShown`, `ClosureReleases` of `Transfers`,
`StoppedFreesSession`, `ReconnectsAgain`) is TLC's: the proof system has no rule for the
fairness, which is defined with ENABLED.  The two properties of the findings, `LiveIsObserved` and `SubtreeKept`, are false.

## 6. Not modelled, and what is left

* Formatting of lines, fields and timestamps, path confinement (`openat` chains),
  HTTP parsing and guards, the command line and React rendering have no state a
  property could be about.
* The span table of the tracing layer, the pool of captures and the budget of
  contexts (`tracing_layer.rs`, `engine.rs:447`): each is a counter taken and given
  back by the destructor of its owner.  A tracing layer that refuses for ever during
  a shutdown would keep the worker requeuing its shutdown item; the bound on calls
  hides it.
* In the viewer, the buttons that ask for a deletion or a download (one request
  each), paging of directories, and the timer of the statistics; in the companion,
  the connection limits and the limits on sizes of requests.
* In transfers, several names of one inode and renames by others.

No invariant and no action property of a run is left to prove.  `TreeCatchesUp` with several
directories below the root would be the next one to state.

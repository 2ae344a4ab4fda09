------------------------------- MODULE Engine -------------------------------
(***************************************************************************)
(* The shared engine of lib-rust-logger: producers that admit events in    *)
(* two locked sections, callers of `flush` and `shutdown`, and the one     *)
(* worker thread that groups the events, writes the lines and confirms     *)
(* them (engine.rs and the Worker of output.rs).                           *)
(*                                                                         *)
(* One action is one critical section of the mutex on `State`, or one      *)
(* uninterrupted piece of the worker between two of them.  Monotonic time  *)
(* is abstracted to its comparisons: a group may or may not have reached   *)
(* `group_duration`, a flush or a summary may or may not be due.  Every    *)
(* schedule of a real clock is one of these choices.  The civil hour,      *)
(* which selects the file, is explicit and may jump both ways.             *)
(***************************************************************************)
EXTENDS Integers, Sequences, FiniteSets

CONSTANTS
    Producers,        \* threads that call `emit`
    Clients,          \* threads that call `flush` or `shutdown`
    NumInstances,     \* instances registered before the run
    Destinations,     \* destinations of every instance
    MainDestination,  \* `destinations[0]`, the one summaries are written to
    Contents,         \* equality classes of level, source, fields, message, thread
    Hours,            \* civil hours the wall clock may show
    MaxEvents, MaxBytes, MaxEventBytes,   \* the configured budgets
    Worker,           \* the worker thread, as an element of the wait set
    TracingLayer,     \* whether a LoggerLayer may call `refuse` by itself
    Faults,           \* whether the output may fail or the worker may panic
    MaxCalls,         \* bound: calls of `emit` and of `refuse` in a behaviour
    MaxBarriers       \* bound: calls of `flush` in a behaviour

ASSUME InstancesAssumption == NumInstances \in Nat \ {0}
ASSUME BudgetAssumption ==
    /\ MaxEvents \in Nat \ {0}
    /\ MaxEventBytes \in Nat \ {0}
    /\ MaxBytes \in Nat /\ MaxBytes >= MaxEventBytes
ASSUME RoutingAssumption == MainDestination \in Destinations
ASSUME ThreadsAssumption == Worker \notin Clients
ASSUME FiniteAssumption ==
    /\ IsFiniteSet(Producers)
    /\ IsFiniteSet(Clients)
    /\ IsFiniteSet(Destinations)
ASSUME HoursAssumption == Hours \subseteq Nat /\ Hours # {}
ASSUME FlagsAssumption == TracingLayer \in BOOLEAN /\ Faults \in BOOLEAN
ASSUME BoundsAssumption == MaxCalls \in Nat /\ MaxBarriers \in Nat

Instances == 1..NumInstances
Keys      == Instances \X Destinations            \* a group's key
Paths     == Instances \X Destinations \X Hours   \* a log file of the run

Reasons == {"full", "tooLarge", "closed", "failed"}

VARIABLES
    health,            \* "open", "closing", "closed" or "failed"
    queue,             \* the items the worker has not taken yet
    sequence,          \* last sequence number assigned
    reservedEvents, reservedBytes,
    completedBarrier, nextBarrier,
    counters, epoch, overloadPending, summaryQueued,    \* per instance
    asleep,            \* threads waiting on the Condvar `wake`
    control,           \* holders of the `control` mutex
    producer, client,  \* local state of the calling threads
    worker,            \* local state of the worker thread
    groups,            \* open groups, by key
    unconfirmed,       \* written since the last flush, per instance
    files, durable,    \* lines written, and how many of them were flushed
    hour,              \* civil hour shown by the wall clock
    calls,             \* ghost: calls of `emit` so far
    breaks             \* ghost: per instance, `sequence` at each refusal

admission   == <<health, queue, sequence, reservedEvents, reservedBytes>>
barriers    == <<completedBarrier, nextBarrier>>
perInstance == <<counters, epoch, overloadPending, summaryQueued, breaks>>
threads     == <<asleep, control, producer, client>>
output      == <<unconfirmed, files, durable>>
vars == <<admission, barriers, perInstance, threads, worker, groups, output,
          hour, calls>>
-----------------------------------------------------------------------------
Event(i, d, c, q, e) ==
    [kind |-> "event", instance |-> i, destination |-> d, content |-> c,
     hour |-> hour, seq |-> q, epoch |-> e]
Barrier(n) == [kind |-> "barrier", id |-> n]
Shutdown   == [kind |-> "shutdown"]
NoItem     == [kind |-> "none"]

KeyOf(event)  == <<event.instance, event.destination>>
PathOf(event) == <<event.instance, event.destination, event.hour>>

\* A producer owns a permit from its reservation until the event is queued.
HoldsPermit(p) == producer[p].pc \in {"formatting", "dropping"}

\* `notify_one`: any one waiter leaves the wait set, whatever it waits for.
AfterNotifyOne(waiting) ==
    IF waiting = {} THEN {{}} ELSE {waiting \ {t} : t \in waiting}
NotifyOne == asleep' \in AfterNotifyOne(asleep)

\* Mutant: a permit dropped explicitly and again by its destructor.
ReleasedTwice(n) ==
    /\ reservedEvents' = reservedEvents - 2 * n
    /\ reservedBytes'  = reservedBytes - 2 * n * MaxEventBytes
\* Mutant: `notify_all` is forgotten.
NotifyNobody == UNCHANGED asleep
\* `notify_all`.
NotifyAll == asleep' = {}

\* `Permit::drop`, for n permits.
ReleasePermits(n) ==
    /\ reservedEvents' = reservedEvents - n
    /\ reservedBytes'  = reservedBytes - n * MaxEventBytes

\* `Shared::refusal`: count the reason and break the instance's continuity.
Refusal(i, reason) ==
    /\ counters' = [counters EXCEPT ![i].refused[reason] = @ + 1]
    /\ overloadPending' =
         IF reason = "full" THEN [overloadPending EXCEPT ![i] = @ + 1]
                            ELSE overloadPending
    /\ epoch'  = [epoch EXCEPT ![i] = @ + 1]
    /\ breaks' = [breaks EXCEPT ![i] = @ \cup {sequence}]
    /\ UNCHANGED summaryQueued

\* The instances `summaries` serves: all of those with a balance and no summary
\* queued when forced, those whose interval has elapsed otherwise.
Owing == {i \in Instances : overloadPending[i] > 0 /\ ~summaryQueued[i]}
Ascending(S) == {s \in [1..Cardinality(S) -> S] :
                    \A a, b \in 1..Cardinality(S) : a < b => s[a] < s[b]}
SummaryItems(order) ==
    [k \in 1..Len(order) |->
        [kind |-> "summary", instance |-> order[k], hour |-> hour,
         seq |-> sequence + k, count |-> overloadPending[order[k]]]]
\* Mutant: every balance is cleared, those without a new summary included.
ClearAllBalances(due) ==
    /\ overloadPending' = [i \in Instances |-> 0]
    /\ summaryQueued'   = [i \in Instances |-> i \in due \/ summaryQueued[i]]
    /\ sequence' = sequence + Cardinality(due)
    /\ UNCHANGED <<counters, epoch, breaks>>
\* `Shared::summaries`, but for the queue it appends SummaryItems(order) to.
TakeBalances(due) ==
    /\ overloadPending' = [i \in Instances |-> IF i \in due THEN 0 ELSE overloadPending[i]]
    /\ summaryQueued'   = [i \in Instances |-> i \in due \/ summaryQueued[i]]
    /\ sequence' = sequence + Cardinality(due)
    /\ UNCHANGED <<counters, epoch, breaks>>
-----------------------------------------------------------------------------
(* Producers: Logger::emit_args *)

IdleProducer == [pc |-> "idle"]
SetProducer(p, local) == producer' = [producer EXCEPT ![p] = local]
AdmissionRefusal == IF health = "failed" THEN "failed" ELSE "closed"
\* Mutant: the bytes are not checked.
NoRoomForEvents == reservedEvents >= MaxEvents
NoRoom == \/ reservedEvents >= MaxEvents
          \/ MaxEventBytes > MaxBytes - reservedBytes

\* A call that has not counted yet, under the bound on calls.
Call == calls < MaxCalls /\ calls' = calls + 1

\* The first locked section reserves the whole budget of the event.
EmitReserve(p, i, d, c) ==
    /\ producer[p].pc = "idle" /\ Call
    /\ health = "open" /\ ~NoRoom
    /\ reservedEvents' = reservedEvents + 1
    /\ reservedBytes'  = reservedBytes + MaxEventBytes
    /\ SetProducer(p, [pc |-> "formatting", instance |-> i, destination |-> d, content |-> c])
    /\ UNCHANGED <<health, queue, sequence, barriers, perInstance, asleep, control,
                   client, worker, groups, output, hour>>

\* The same section refuses: the runtime is not open (nobody is notified), or
\* the budget is exhausted.
EmitRefused(p, i) ==
    /\ producer[p].pc = "idle" /\ Call
    /\ \/ /\ health # "open"
          /\ Refusal(i, AdmissionRefusal)
          /\ UNCHANGED asleep
       \/ /\ health = "open" /\ NoRoom
          /\ Refusal(i, "full")
          /\ NotifyOne
    /\ UNCHANGED <<admission, barriers, control, producer, client, worker, groups,
                   output, hour>>

\* A check that precedes any reservation refuses: oversized source, unknown
\* destination or invalid fields; they differ only in the counter.
EmitTooLarge(p, i) ==
    /\ producer[p].pc = "idle" /\ Call
    /\ Refusal(i, "tooLarge")
    /\ NotifyOne
    /\ UNCHANGED <<admission, barriers, control, producer, client, worker, groups,
                   output, hour>>

\* A level below the instance's only counts.
EmitFiltered(p, i) ==
    /\ producer[p].pc = "idle" /\ Call
    /\ counters' = [counters EXCEPT ![i].filtered = @ + 1]
    /\ UNCHANGED <<admission, barriers, epoch, overloadPending, summaryQueued, breaks,
                   threads, worker, groups, output, hour>>

\* The second locked section: the event is stamped, numbered and queued.
EmitAccept(p) ==
    LET e == producer[p] IN
    /\ e.pc = "formatting" /\ health = "open"
    /\ sequence' = sequence + 1
    /\ counters' = [counters EXCEPT ![e.instance].accepted = @ + 1]
    /\ queue' = Append(queue, Event(e.instance, e.destination, e.content,
                                    sequence + 1, epoch[e.instance]))
    /\ SetProducer(p, IdleProducer)
    /\ NotifyOne
    /\ UNCHANGED <<health, reservedEvents, reservedBytes, barriers, epoch,
                   overloadPending, summaryQueued, breaks, control, client, worker,
                   groups, output, hour, calls>>

\* Refused after the reservation: the runtime left "open" meanwhile, or the
\* formatted message does not fit.  The permit is dropped in a later section.
EmitAbandon(p) ==
    LET e == producer[p] IN
    /\ e.pc = "formatting"
    /\ \/ /\ health # "open"
          /\ Refusal(e.instance, AdmissionRefusal)
          /\ UNCHANGED asleep
       \/ /\ Refusal(e.instance, "tooLarge")
          /\ NotifyOne
    /\ SetProducer(p, [pc |-> "dropping"])
    /\ UNCHANGED <<admission, barriers, control, client, worker, groups, output,
                   hour, calls>>

\* `Permit::drop` of a producer: after a refusal, or because the caller's
\* Display implementation panicked while formatting.
DropPermit(p) ==
    /\ HoldsPermit(p)
    /\ ReleasePermits(1)
    /\ SetProducer(p, IdleProducer)
    /\ UNCHANGED <<health, queue, sequence, barriers, perInstance, asleep, control,
                   client, worker, groups, output, hour, calls>>

\* LoggerLayer::capture and on_new_span refuse in the engine's name when their
\* own tables are full, without looking at the health of the runtime.
TracingRefuse(i) ==
    /\ TracingLayer /\ Call
    /\ Refusal(i, "full")
    /\ NotifyOne
    /\ UNCHANGED <<admission, barriers, control, producer, client, worker, groups,
                   output, hour>>
-----------------------------------------------------------------------------
(* Control: Runtime::flush and Runtime::shutdown *)

\* Mutant: the callers of `flush` do not exclude one another.
ControlShared == TRUE
\* The mutex on `control` is free.
ControlFree == control = {}
IdleClient == [pc |-> "idle", barrier |-> 0, mark |-> 0]
Busy(c) == client[c].pc \in {"flushing", "joining"}

\* `flush` takes `control`, queues the balances and a barrier, and waits.
FlushBegin(c) ==
    /\ ~Busy(c) /\ ControlFree /\ health = "open"
    /\ nextBarrier < MaxBarriers
    /\ TakeBalances(Owing)
    /\ nextBarrier' = nextBarrier + 1
    /\ \E order \in Ascending(Owing) :
          queue' = Append(queue \o SummaryItems(order), Barrier(nextBarrier'))
    /\ \E others \in AfterNotifyOne(asleep) : asleep' = others \cup {c}
    /\ control' = {c}
    /\ client' = [client EXCEPT ![c] =
                    [pc |-> "flushing", barrier |-> nextBarrier', mark |-> sequence']]
    /\ UNCHANGED <<health, reservedEvents, reservedBytes, completedBarrier, producer,
                   worker, groups, output, hour, calls>>

\* `flush` on a runtime that is not open returns an error at once.
FlushRefused(c) ==
    /\ ~Busy(c) /\ ControlFree /\ health # "open"
    /\ client' = [client EXCEPT ![c].pc = "error"]
    /\ UNCHANGED <<admission, barriers, perInstance, asleep, control, producer, worker,
                   groups, output, hour, calls>>

\* Woken, the caller checks its condition again: return, fail, or wait.
FlushWake(c) ==
    /\ client[c].pc = "flushing" /\ c \notin asleep
    /\ \/ /\ health = "failed"
          /\ client' = [client EXCEPT ![c].pc = "error"]
          /\ control' = {} /\ UNCHANGED asleep
       \/ /\ health # "failed" /\ completedBarrier >= client[c].barrier
          /\ client' = [client EXCEPT ![c].pc = "flushed"]
          /\ control' = {} /\ UNCHANGED asleep
       \/ /\ health # "failed" /\ completedBarrier < client[c].barrier
          /\ asleep' = asleep \cup {c}
          /\ UNCHANGED <<client, control>>
    /\ UNCHANGED <<admission, barriers, perInstance, producer, worker, groups, output,
                   hour, calls>>

\* `shutdown` takes `control` and, the first time, closes admission.
ShutdownBegin(c) ==
    /\ ~Busy(c) /\ ControlFree
    /\ control' = {c}
    /\ client' = [client EXCEPT ![c] = [pc |-> "joining", barrier |-> 0, mark |-> 0]]
    /\ \/ /\ health = "open"
          /\ health' = "closing"
          /\ TakeBalances(Owing)
          /\ \E order \in Ascending(Owing) :
                queue' = Append(queue \o SummaryItems(order), Shutdown)
          /\ NotifyOne
       \/ /\ health # "open"
          /\ UNCHANGED <<health, queue, sequence, perInstance, asleep>>
    /\ UNCHANGED <<reservedEvents, reservedBytes, barriers, producer, worker, groups,
                   output, hour, calls>>

\* The worker thread is joined; the report tells success from failure.
ShutdownReturn(c) ==
    /\ client[c].pc = "joining" /\ worker.pc = "exited"
    /\ client' = [client EXCEPT ![c].pc = IF health = "failed" THEN "error" ELSE "shut"]
    /\ control' = {}
    /\ UNCHANGED <<admission, barriers, perInstance, asleep, producer, worker, groups,
                   output, hour, calls>>
-----------------------------------------------------------------------------
(* The worker thread: Worker::loop_run *)

At(pc)       == [pc |-> pc, item |-> NoItem, expired |-> {}, flushDue |-> FALSE]
Handling(it) == [pc |-> "item", item |-> it, expired |-> {}, flushDue |-> FALSE]
Goto(pc)     == worker' = At(pc)
HandlingA(kind) == worker.pc = "item" /\ worker.item.kind = kind

NothingUnconfirmed == [occurrences |-> 0, lines |-> 0, overload |-> 0]

\* Mutant: the line of a merged group counts one occurrence.
LineWithoutCount(g) == [kind |-> "event", first |-> g.first.seq, last |-> g.last, count |-> 1]
GroupLine(g) == [kind |-> "event", first |-> g.first.seq, last |-> g.last, count |-> g.count]
SummaryLine(s) == [kind |-> "summary", first |-> s.seq, last |-> s.seq, count |-> s.count]
Write(path, line) == files' = [files EXCEPT ![path] = Append(@, line)]
WriteGroup(g) ==
    /\ Write(PathOf(g.first), GroupLine(g))
    /\ unconfirmed' = [unconfirmed EXCEPT ![g.first.instance].occurrences = @ + g.count,
                                          ![g.first.instance].lines = @ + 1]
    /\ UNCHANGED durable

Without(k) == [j \in DOMAIN groups \ {k} |-> groups[j]]
With(k, g) == [j \in DOMAIN groups \cup {k} |-> IF j = k THEN g ELSE groups[j]]

\* Mutant: the counters are confirmed, the output is not flushed.
ConfirmWithoutFlush ==
    /\ counters' = [i \in Instances |->
         [counters[i] EXCEPT !.written = @ + unconfirmed[i].occurrences,
                             !.lines = @ + unconfirmed[i].lines,
                             !.reported = @ + unconfirmed[i].overload]]
    /\ unconfirmed' = [i \in Instances |-> NothingUnconfirmed]
    /\ UNCHANGED <<files, durable>>
\* Mutant: the confirmation is reset before it is counted.
FlushUncounted ==
    /\ durable' = [p \in Paths |-> Len(files[p])]
    /\ unconfirmed' = [i \in Instances |-> NothingUnconfirmed]
    /\ UNCHANGED <<files, counters>>
\* Mutant: the confirmation is counted but not reset.
FlushCountedAgain ==
    /\ durable' = [p \in Paths |-> Len(files[p])]
    /\ counters' = [i \in Instances |->
         [counters[i] EXCEPT !.written = @ + unconfirmed[i].occurrences]]
    /\ UNCHANGED <<files, unconfirmed>>
\* `flush_output`: a successful flush confirms what was written before it.
FlushOutput ==
    IF unconfirmed = [i \in Instances |-> NothingUnconfirmed]
    THEN UNCHANGED <<output, counters>>
    ELSE /\ durable' = [p \in Paths |-> Len(files[p])]
         /\ counters' = [i \in Instances |->
              [counters[i] EXCEPT !.written = @ + unconfirmed[i].occurrences,
                                  !.lines = @ + unconfirmed[i].lines,
                                  !.reported = @ + unconfirmed[i].overload]]
         /\ unconfirmed' = [i \in Instances |-> NothingUnconfirmed]
         /\ UNCHANGED files

\* Top of the loop: the clock decides which groups expire (those of an hour
\* that has ended do) and whether a periodic flush is due.
WorkerTop ==
    /\ worker.pc = "top"
    /\ \E expired \in SUBSET DOMAIN groups, flushDue \in BOOLEAN :
          /\ {k \in DOMAIN groups : groups[k].first.hour < hour} \subseteq expired
          /\ worker' = [pc |-> "expire", item |-> NoItem, expired |-> expired,
                        flushDue |-> flushDue]
    /\ UNCHANGED <<admission, barriers, perInstance, threads, groups, output, hour, calls>>

\* Mutants: a summary, or a barrier, does not finish the open groups.
MustFinishExpired ==
    IF worker.pc = "expire" THEN worker.expired
    ELSE IF HandlingA("barrier") \/ worker.pc = "draining" THEN DOMAIN groups
    ELSE {}
MustFinishButAtBarrier ==
    IF worker.pc = "expire" THEN worker.expired
    ELSE IF HandlingA("summary") THEN {k \in DOMAIN groups : k[1] = worker.item.instance}
    ELSE IF worker.pc = "draining" THEN DOMAIN groups
    ELSE {}
\* The groups the worker writes before it goes on: the expired ones, the
\* instance's before its summary, all of them before a barrier or the end.
MustFinish ==
    IF worker.pc = "expire" THEN worker.expired
    ELSE IF HandlingA("summary") THEN {k \in DOMAIN groups : k[1] = worker.item.instance}
    ELSE IF HandlingA("barrier") \/ worker.pc = "draining" THEN DOMAIN groups
    ELSE {}

\* `finish`: write one line for the group, drop its first event's permit.
WorkerFinish(k) ==
    /\ k \in MustFinish
    /\ WriteGroup(groups[k])
    /\ groups' = Without(k)
    /\ ReleasePermits(1)
    /\ worker' = [worker EXCEPT !.expired = @ \ {k}]
    /\ UNCHANGED <<health, queue, sequence, barriers, perInstance, threads, hour, calls>>

\* The periodic flush, if due, once the expired groups are written.
WorkerPeriodic ==
    /\ worker.pc = "expire" /\ worker.expired = {}
    /\ IF worker.flushDue THEN FlushOutput ELSE UNCHANGED <<output, counters>>
    /\ Goto("take")
    /\ UNCHANGED <<admission, barriers, epoch, overloadPending, summaryQueued, breaks,
                   threads, groups, hour, calls>>

\* The worker pops the next item, or waits.
TakeNext(items) ==
    \/ /\ items # <<>>
       /\ worker' = Handling(Head(items))
       /\ queue' = Tail(items)
       /\ UNCHANGED asleep
    \/ /\ items = <<>>
       /\ Goto("waiting")
       /\ asleep' = asleep \cup {Worker}
       /\ UNCHANGED queue
\* Locked: queue the summaries that are due while open, then pop or wait.
\* (Only the worker itself fails the runtime, so the check of "failed" that
\* opens this section never holds.)
WorkerTake ==
    /\ worker.pc = "take"
    /\ \E due \in SUBSET (IF health = "open" THEN Owing ELSE {}) :
          /\ TakeBalances(due)
          /\ \E order \in Ascending(due) : TakeNext(queue \o SummaryItems(order))
    /\ UNCHANGED <<health, reservedEvents, reservedBytes, barriers, control, producer,
                   client, groups, output, hour, calls>>

\* The wait ends by a notification or by its timeout.
WorkerWake ==
    /\ worker.pc = "waiting"
    /\ asleep' = asleep \ {Worker}
    /\ Goto("top")
    /\ UNCHANGED <<admission, barriers, perInstance, control, producer, client, groups,
                   output, hour, calls>>

\* Mutant: the continuity epoch is not compared.
CanMergeAnyEpoch(event) ==
    /\ KeyOf(event) \in DOMAIN groups
    /\ LET g == groups[KeyOf(event)] IN
       /\ PathOf(g.first) = PathOf(event)
       /\ g.first.content = event.content
CanMerge(event) ==
    /\ KeyOf(event) \in DOMAIN groups
    /\ LET g == groups[KeyOf(event)] IN
       /\ PathOf(g.first) = PathOf(event)
       /\ g.first.epoch = event.epoch
       /\ g.first.content = event.content

\* `event` merges, if the group is also young enough; the merged event's permit
\* is dropped at once.
WorkerMerge ==
    LET event == worker.item
        k == KeyOf(event) IN
    /\ HandlingA("event") /\ CanMerge(event)
    /\ groups' = [groups EXCEPT ![k].last = event.seq, ![k].count = @ + 1]
    /\ ReleasePermits(1)
    /\ Goto("top")
    /\ UNCHANGED <<health, queue, sequence, barriers, perInstance, threads, output,
                   hour, calls>>

\* ... or finishes the key's group and opens another one.
WorkerOpenGroup ==
    LET event == worker.item
        k == KeyOf(event) IN
    /\ HandlingA("event")
    /\ IF k \in DOMAIN groups
       THEN WriteGroup(groups[k]) /\ ReleasePermits(1)
       ELSE UNCHANGED <<output, reservedEvents, reservedBytes>>
    /\ groups' = With(k, [first |-> event, last |-> event.seq, count |-> 1])
    /\ Goto("top")
    /\ UNCHANGED <<health, queue, sequence, barriers, perInstance, threads, hour, calls>>

\* Mutant: the flag of a written summary is never reset.
SummaryForgotten(i) == UNCHANGED summaryQueued
\* The instance may queue another summary.
SummaryWritten(i) == summaryQueued' = [summaryQueued EXCEPT ![i] = FALSE]
\* A summary is written once its instance has no open group.
WorkerSummary ==
    LET s == worker.item IN
    /\ HandlingA("summary") /\ MustFinish = {}
    /\ Write(<<s.instance, MainDestination, s.hour>>, SummaryLine(s))
    /\ unconfirmed' = [unconfirmed EXCEPT ![s.instance].lines = @ + 1,
                                          ![s.instance].overload = @ + s.count]
    /\ SummaryWritten(s.instance)
    /\ Goto("top")
    /\ UNCHANGED <<admission, barriers, counters, epoch, overloadPending, breaks, threads,
                   groups, durable, hour, calls>>

\* A barrier flushes everything, then is signalled in a section of its own.
WorkerBarrier ==
    /\ HandlingA("barrier") /\ MustFinish = {}
    /\ FlushOutput
    /\ worker' = [worker EXCEPT !.pc = "signal"]
    /\ UNCHANGED <<admission, barriers, epoch, overloadPending, summaryQueued, breaks,
                   threads, groups, hour, calls>>

WorkerSignal ==
    /\ worker.pc = "signal"
    /\ completedBarrier' = worker.item.id
    /\ NotifyAll
    /\ Goto("top")
    /\ UNCHANGED <<admission, nextBarrier, perInstance, control, producer, client, groups,
                   output, hour, calls>>

\* The balances served at the end: all of them.
FinalBalances == Owing
\* Mutant: the shutdown item always goes back to the queue.
AlwaysRemains(items) == TRUE
\* Something is still queued behind the shutdown item.
Remains(items) == items # <<>>
\* The shutdown item serves the remaining balances; while anything is queued it
\* goes back to the end of the queue.
WorkerShutdown ==
    /\ HandlingA("shutdown")
    /\ TakeBalances(FinalBalances)
    /\ \E order \in Ascending(FinalBalances) :
          LET items == queue \o SummaryItems(order) IN
          \/ Remains(items) /\ queue' = Append(items, Shutdown) /\ Goto("top")
          \/ ~Remains(items) /\ UNCHANGED queue /\ Goto("draining")
    /\ UNCHANGED <<health, reservedEvents, reservedBytes, barriers, threads, groups,
                   output, hour, calls>>

WorkerDrained ==
    /\ worker.pc = "draining" /\ groups = <<>>
    /\ FlushOutput
    /\ Goto("closing")
    /\ UNCHANGED <<admission, barriers, epoch, overloadPending, summaryQueued, breaks,
                   threads, groups, hour, calls>>

\* `close_all` has succeeded.
WorkerClosed ==
    /\ worker.pc = "closing"
    /\ health' = "closed"
    /\ NotifyAll
    /\ Goto("exited")
    /\ UNCHANGED <<queue, sequence, reservedEvents, reservedBytes, barriers, perInstance,
                   control, producer, client, groups, output, hour, calls>>
-----------------------------------------------------------------------------
(* Failures of the worker: an output error, or a panic *)

HeldPermits == IF HandlingA("event") THEN 1 ELSE 0
\* The groups one of whose writes may be in progress.
InWriting == IF HandlingA("event") THEN {KeyOf(worker.item)} \cap DOMAIN groups
                                   ELSE MustFinish
DoesOutput == \/ worker.pc \in {"expire", "draining", "closing"}
              \/ worker.pc = "item" /\ worker.item.kind # "shutdown"

\* An output call fails: the item in hand and the group being written are
\* dropped, with their permits, before the failure is published.
WorkerError ==
    /\ Faults /\ DoesOutput
    /\ \/ groups' = groups /\ ReleasePermits(HeldPermits)
       \/ \E k \in InWriting : groups' = Without(k) /\ ReleasePermits(HeldPermits + 1)
    /\ Goto("failing")
    /\ UNCHANGED <<health, queue, sequence, barriers, perInstance, threads, output,
                   hour, calls>>

\* A panic unwinds the worker, and with it the open groups, first.
WorkerPanic ==
    /\ Faults /\ DoesOutput
    /\ ReleasePermits(HeldPermits)
    /\ Goto("unwinding")
    /\ UNCHANGED <<health, queue, sequence, barriers, perInstance, threads, groups,
                   output, hour, calls>>

\* `Shared::fail`: the queue is emptied under the lock, and dropped outside it.
Events(q) == {n \in DOMAIN q : q[n].kind = "event"}
WorkerFail ==
    /\ worker.pc = "failing"
    /\ health' = "failed"
    /\ queue' = <<>>
    /\ worker' = [pc |-> "burying", buried |-> Cardinality(Events(queue))]
    /\ UNCHANGED <<sequence, reservedEvents, reservedBytes, barriers, perInstance, threads,
                   groups, output, hour, calls>>

WorkerBury ==
    /\ worker.pc = "burying"
    /\ \/ /\ worker.buried > 0
          /\ ReleasePermits(1)
          /\ worker' = [worker EXCEPT !.buried = @ - 1]
          /\ UNCHANGED asleep
       \/ /\ worker.buried = 0
          /\ NotifyAll
          /\ Goto("dying")
          /\ UNCHANGED <<reservedEvents, reservedBytes>>
    /\ UNCHANGED <<health, queue, sequence, barriers, perInstance, control, producer,
                   client, groups, output, hour, calls>>

\* Mutant: dropping the worker writes what it held.
WrittenByDrop(k) == WriteGroup(groups[k])
\* FileOutput's Drop discards the buffers; a dropped group writes nothing.
DiscardedByDrop(k) == UNCHANGED output
\* The Worker is dropped with its open groups: before `fail` after a panic,
\* after it on an error.
WorkerDropGroup(k) ==
    /\ worker.pc \in {"unwinding", "dying"} /\ k \in DOMAIN groups
    /\ groups' = Without(k)
    /\ ReleasePermits(1)
    /\ DiscardedByDrop(k)
    /\ UNCHANGED <<health, queue, sequence, barriers, perInstance, threads, worker,
                   hour, calls>>
WorkerDropped ==
    /\ worker.pc \in {"unwinding", "dying"} /\ groups = <<>>
    /\ Goto(IF worker.pc = "dying" THEN "exited" ELSE "failing")
    /\ UNCHANGED <<admission, barriers, perInstance, threads, groups, output, hour, calls>>
-----------------------------------------------------------------------------
WallClock ==
    /\ hour' \in Hours \ {hour}
    /\ UNCHANGED <<admission, barriers, perInstance, threads, worker, groups, output, calls>>

Init ==
    /\ health = "open" /\ queue = <<>> /\ sequence = 0
    /\ reservedEvents = 0 /\ reservedBytes = 0
    /\ completedBarrier = 0 /\ nextBarrier = 0
    /\ counters = [i \in Instances |->
         [accepted |-> 0, filtered |-> 0, refused |-> [r \in Reasons |-> 0],
          written |-> 0, lines |-> 0, reported |-> 0]]
    /\ epoch = [i \in Instances |-> 0]
    /\ overloadPending = [i \in Instances |-> 0]
    /\ summaryQueued = [i \in Instances |-> FALSE]
    /\ breaks = [i \in Instances |-> {}]
    /\ asleep = {} /\ control = {}
    /\ producer = [p \in Producers |-> IdleProducer]
    /\ client = [c \in Clients |-> IdleClient]
    /\ worker = At("top") /\ groups = <<>>
    /\ unconfirmed = [i \in Instances |-> NothingUnconfirmed]
    /\ files = [p \in Paths |-> <<>>] /\ durable = [p \in Paths |-> 0]
    /\ hour \in Hours /\ calls = 0

ProducerStep ==
    \/ \E p \in Producers, i \in Instances :
          \/ \E d \in Destinations, c \in Contents : EmitReserve(p, i, d, c)
          \/ EmitRefused(p, i) \/ EmitTooLarge(p, i) \/ EmitFiltered(p, i)
    \/ \E p \in Producers : EmitAccept(p) \/ EmitAbandon(p) \/ DropPermit(p)
    \/ \E i \in Instances : TracingRefuse(i)

ClientStep ==
    \E c \in Clients : \/ FlushBegin(c) \/ FlushRefused(c) \/ FlushWake(c)
                       \/ ShutdownBegin(c) \/ ShutdownReturn(c)

WorkerStep ==
    \/ WorkerTop \/ WorkerPeriodic \/ WorkerTake \/ WorkerWake \/ WorkerMerge
    \/ WorkerOpenGroup \/ WorkerSummary \/ WorkerBarrier \/ WorkerSignal
    \/ WorkerShutdown \/ WorkerDrained \/ WorkerClosed \/ WorkerFail \/ WorkerBury
    \/ WorkerDropped
    \/ \E k \in Keys : WorkerFinish(k) \/ WorkerDropGroup(k)

WorkerFault == WorkerError \/ WorkerPanic

Next == ProducerStep \/ ClientStep \/ WorkerStep \/ WorkerFault \/ WallClock

Spec == Init /\ [][Next]_vars

\* Threads that can run do; a call of `emit` that reserved ends (the caller's
\* Display returns or panics).  Monotonic time passes: a worker that keeps
\* looping finds each group expired, each flush and each summary due at last.
\* Nobody has to call `emit`, `flush` or `shutdown`, and nothing has to fail.
Fairness ==
    /\ WF_vars(WorkerStep)
    /\ \A k \in Keys : SF_vars(WorkerTop /\ k \in worker'.expired)
    /\ SF_vars(WorkerTop /\ worker'.flushDue)
    /\ \A i \in Instances : SF_vars(WorkerTake /\ overloadPending'[i] < overloadPending[i])
    /\ \A p \in Producers : WF_vars(EmitAccept(p) \/ EmitAbandon(p) \/ DropPermit(p))
    /\ \A c \in Clients : WF_vars(FlushWake(c) \/ ShutdownReturn(c))

LiveSpec == Spec /\ Fairness
=============================================================================

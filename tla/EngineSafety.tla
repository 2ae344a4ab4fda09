---------------------------- MODULE EngineSafety ----------------------------
(* What the engine promises, as invariants and action properties of Engine. *)
EXTENDS Engine, Functions

EventType ==
    [kind : {"event"}, instance : Instances, destination : Destinations,
     content : Contents, hour : Hours, seq : Nat, epoch : Nat]
SummaryType == [kind : {"summary"}, instance : Instances, hour : Hours, seq : Nat, count : Nat]
BarrierType == [kind : {"barrier"}, id : Nat]
ItemType == EventType \cup SummaryType \cup BarrierType \cup {Shutdown}
LineType == [kind : {"event", "summary"}, first : Nat, last : Nat, count : Nat]
CounterType ==
    [accepted : Nat, filtered : Nat, refused : [Reasons -> Nat],
     written : Nat, lines : Nat, reported : Nat]
WorkerType ==
    [pc : {"top", "expire", "take", "waiting", "item", "signal", "draining", "closing",
           "failing", "unwinding", "dying", "exited"},
     item : ItemType \cup {NoItem}, expired : SUBSET Keys, flushDue : BOOLEAN]
    \cup [pc : {"burying"}, buried : Nat]
ProducerType ==
    [pc : {"idle", "dropping"}]
    \cup [pc : {"formatting"}, instance : Instances, destination : Destinations,
          content : Contents]

AdmissionTypes ==
    /\ health \in {"open", "closing", "closed", "failed"}
    /\ queue \in Seq(ItemType) /\ sequence \in Nat
    /\ reservedEvents \in Nat /\ reservedBytes \in Nat
    /\ completedBarrier \in Nat /\ nextBarrier \in Nat
InstanceTypes ==
    /\ counters \in [Instances -> CounterType]
    /\ epoch \in [Instances -> Nat] /\ overloadPending \in [Instances -> Nat]
    /\ summaryQueued \in [Instances -> BOOLEAN]
    /\ breaks \in [Instances -> SUBSET Nat]
ThreadTypes ==
    /\ asleep \subseteq Clients \cup {Worker} /\ control \subseteq Clients
    /\ producer \in [Producers -> ProducerType]
    /\ client \in [Clients ->
          [pc : {"idle", "flushing", "joining", "flushed", "shut", "error"},
           barrier : Nat, mark : Nat]]
WorkerTypes ==
    /\ worker \in WorkerType
    /\ DOMAIN groups \subseteq Keys
    /\ \A k \in DOMAIN groups :
          groups[k] \in [first : EventType, last : Nat, count : Nat \ {0}]
OutputTypes ==
    /\ unconfirmed \in [Instances -> [occurrences : Nat, lines : Nat, overload : Nat]]
    /\ files \in [Paths -> Seq(LineType)] /\ durable \in [Paths -> Nat]
    /\ hour \in Hours /\ calls \in Nat

\* Types of all the variables of the engine.
TypeOK == AdmissionTypes /\ InstanceTypes /\ ThreadTypes /\ WorkerTypes /\ OutputTypes
-----------------------------------------------------------------------------
(* Budgets *)

Holders == {p \in Producers : HoldsPermit(p)}
Buried  == IF worker.pc = "burying" THEN worker.buried ELSE 0

\* Every reserved slot has exactly one owner (a producer between its two locked
\* sections, a queued event, the event in the worker's hands, an open group's
\* first event, or the queue being dropped after a failure), bytes follow
\* events, and neither budget is exceeded: no path of admission, merge, refusal
\* or failure leaks a permit or returns it twice.
PermitsAccounted ==
    /\ reservedEvents = Cardinality(Holders) + Cardinality(Events(queue)) + HeldPermits
                        + Cardinality(DOMAIN groups) + Buried
    /\ reservedBytes = MaxEventBytes * reservedEvents
    /\ reservedEvents <= MaxEvents /\ reservedBytes <= MaxBytes

-----------------------------------------------------------------------------
(* Order and grouping *)

InOrder(lines) ==
    /\ \A n \in DOMAIN lines : lines[n].first <= lines[n].last
    /\ \A n \in 1..Len(lines) - 1 : lines[n].last < lines[n + 1].first

\* In every file the sequence numbers increase from line to line and the ranges
\* of two lines never overlap, whatever the interleaving of admissions,
\* summaries and jumps of the wall clock; an open group comes after all the
\* lines of its file.
FilesInOrder ==
    /\ \A p \in Paths : InOrder(files[p])
    /\ \A k \in DOMAIN groups :
          LET lines == files[PathOf(groups[k].first)] IN
          lines # <<>> => lines[Len(lines)].last < groups[k].first.seq

\* A line never merges two events of an instance between which an event or a
\* span of that instance was refused.
NoLineSpansRefusal ==
    \A p \in Paths : \A n \in DOMAIN files[p] : \A b \in breaks[p[1]] :
        LET line == files[p][n] IN ~(line.first <= b /\ b < line.last)
-----------------------------------------------------------------------------
(* Accounting *)

Failing == worker.pc \in {"unwinding", "failing", "burying", "dying"} \/ health = "failed"
Numbers(line) == IF line.kind = "event" THEN line.count ELSE 1
Occurrences(line) == IF line.kind = "event" THEN line.count ELSE 0
Positions == UNION {{p} \X DOMAIN files[p] : p \in Paths}
Flushed   == {n \in Positions : n[2] <= durable[n[1]]}
LineAt(n) == files[n[1]][n[2]]
InFiles(Weight(_))   == SumFunction([n \in Positions |-> Weight(LineAt(n))])
InDurable(Weight(_)) == SumFunction([n \in Flushed |-> Weight(LineAt(n))])
InGroups == SumFunction([k \in DOMAIN groups |-> groups[k].count])
Numbered(q) == {n \in DOMAIN q : q[n].kind \in {"event", "summary"}}
InHand == IF HandlingA("event") \/ HandlingA("summary") THEN 1 ELSE 0

\* Until a failure, each sequence number is in exactly one place: the queue, the
\* worker's hands, an open group or one written line.
NothingLost ==
    ~Failing => sequence = Cardinality(Numbered(queue)) + InHand + InGroups
                           + InFiles(Numbers)

QueuedSummaries(i) == {n \in DOMAIN queue : queue[n].kind = "summary" /\ queue[n].instance = i}
QueuedBalance(i) ==
    SumFunction([n \in QueuedSummaries(i) |-> queue[n].count])
    + IF HandlingA("summary") /\ worker.item.instance = i THEN worker.item.count ELSE 0

\* Until a failure, the overloads counted for an instance are those still
\* pending, in its queued summary, written but unconfirmed, or reported.
OverloadsAccounted ==
    ~Failing => \A i \in Instances :
        counters[i].refused["full"] =
            overloadPending[i] + QueuedBalance(i) + unconfirmed[i].overload
            + counters[i].reported

\* Even after a failure, `written` and `lines` only confirm lines whose flush
\* succeeded, and `pending` (accepted minus written) cannot underflow.
ConfirmedIsDurable ==
    /\ \A i \in Instances : counters[i].written <= counters[i].accepted
    /\ SumFunction([i \in Instances |-> counters[i].lines]) <= InDurable(LAMBDA line : 1)
    /\ SumFunction([i \in Instances |-> counters[i].written]) <= InDurable(Occurrences)
-----------------------------------------------------------------------------
(* What flush and shutdown promise their callers *)

NumbersUpTo(mark, line) == IF line.last <= mark THEN Numbers(line) ELSE 0

\* When `flush` has returned successfully, every sequence number assigned up to
\* its barrier is in a line the output has flushed.
FlushCoversAdmitted ==
    \A c \in Clients : client[c].pc = "flushed" =>
        InDurable(LAMBDA line : NumbersUpTo(client[c].mark, line)) = client[c].mark

\* With the tracing layer aside, the engine is a logger as LogContract describes
\* it: `closed` is reached only when nothing accepted or overloaded is left.
Contract == INSTANCE LogContract WITH
    status   <- health,
    accepted <- [i \in Instances |-> counters[i].accepted],
    written  <- [i \in Instances |-> counters[i].written],
    full     <- [i \in Instances |-> counters[i].refused["full"]],
    reported <- [i \in Instances |-> counters[i].reported]
KeepsContract == Contract!Spec

\* After a failure the health never changes, no line is written and no counter
\* of confirmed work moves: a partial write is never retried nor confirmed.
FailStop ==
    [][health = "failed" =>
         /\ UNCHANGED <<health, files, durable>>
         /\ \A i \in Instances :
               /\ counters'[i].written = counters[i].written
               /\ counters'[i].reported = counters[i].reported]_vars
-----------------------------------------------------------------------------
(* Liveness, under Fairness *)

\* A caller of `flush` or `shutdown` is answered: the barrier completes, the drain ends
\* although the shutdown item keeps moving behind late summaries, or the runtime fails;
\* and no wake-up is lost, although all wait on one Condvar.
CallsReturn ==
    \A c \in Clients, step \in {"flushing", "joining"} :
        client[c].pc = step ~> client[c].pc # step

\* An accepted event is confirmed without any call of `flush`, unless the
\* runtime fails.
AcceptedConfirmed ==
    \A i \in Instances, n \in 1..MaxCalls :
        counters[i].accepted = n ~> (counters[i].written >= n \/ health = "failed")

\* A saturation is reported in the instance's file, unless the runtime fails, or
\* closes first: KeepsContract tells what is reported then.
OverloadReported ==
    \A i \in Instances, n \in 1..MaxCalls :
        counters[i].refused["full"] = n
            ~> (counters[i].reported >= n \/ health \in {"failed", "closed"})
=============================================================================
